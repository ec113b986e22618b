------------------------ MODULE MCMonitoredRegistry ------------------------
(* Small instances of MonitoredRegistry for TLC.  The database holds two     *)
(* devices when the backend starts; the host m1 has moved to i3.             *)
EXTENDS MonitoredRegistry, TLC

CONSTANTS m1, m2, i1, i2, i3, a, b, c, n1, p1, h1

MCNameAt == (i1 :> a) @@ (i2 :> b) @@ (i3 :> c)

host(mac, ip) == [mac_address |-> mac, ip_address |-> ip]

MCSweeps == { <<host(m1, i3)>> }

stored(mac, ip, name) == [mac_address |-> mac, ip_address |-> ip, name |-> name,
                          networkId |-> n1, profileId |-> p1]

MCTwoDevices == << stored(m1, i1, a), stored(m2, i2, b) >>

update(mac, ip) == [mac_address |-> mac, ip_address |-> ip,
                    networkId |-> NULL, profileId |-> NULL]

\* The device m1 follows its host to i3.
MCOneEdit == { update(NULL, i3) }

MCBackground == {Monitor, n1}

=============================================================================
