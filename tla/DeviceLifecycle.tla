-------------------------- MODULE DeviceLifecycle --------------------------
(***************************************************************************)
(* What the device registry promises about one device record, whatever the *)
(* handlers do at the same time: it is adopted once, it may be removed,    *)
(* alone or with the other devices of its network, and it never returns.   *)
(***************************************************************************)
CONSTANTS DeviceIds,
          Stored              \* the records that exist from the start
VARIABLE status

Status == {"unborn", "live", "gone"}

Init == status = [d \in DeviceIds |->
                    IF d \in Stored THEN "live" ELSE "unborn"]

Adopt(d) == /\ status[d] = "unborn"
            /\ status' = [status EXCEPT ![d] = "live"]

Remove(S) == /\ \A d \in S : status[d] = "live"
             /\ status' = [d \in DeviceIds |->
                             IF d \in S THEN "gone" ELSE status[d]]

Next == \/ \E d \in DeviceIds : Adopt(d)
        \/ \E S \in SUBSET DeviceIds : Remove(S)

Spec == Init /\ [][Next]_status

=============================================================================
