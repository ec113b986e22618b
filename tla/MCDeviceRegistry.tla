-------------------------- MODULE MCDeviceRegistry --------------------------
(* Small instances of DeviceRegistry for TLC. *)
EXTENDS DeviceRegistry, TLC

CONSTANTS m1, m2, i1, i2, a, b, n1, n2, p1, h1, h2

MCNameAt == (i1 :> a) @@ (i2 :> b)

host(mac, ip) == [mac_address |-> mac, ip_address |-> ip]

\* A scan finds both hosts, one of them, or the first one on the other's IP.
MCSweeps == { <<host(m1, i1)>>, <<host(m2, i2)>>, <<host(m1, i2)>>,
              <<host(m1, i1), host(m2, i2)>> }

MCNoDevices == <<>>

MCAllEdits == DeviceUpdate

\* Edits of the addresses only.
MCAddressEdits == {p \in DeviceUpdate : p.networkId = NULL /\ p.profileId = NULL}

\* Fewer scans for the runs with overlapping requests: the second host appears
\* together with the first, or the first one is seen alone on the other's IP.
MCFewSweeps == { <<host(m1, i1), host(m2, i2)>>, <<host(m1, i2)>> }

\* Requests are interchangeable.
MCSymmetry == Permutations(Handlers)

=============================================================================
