------------------------ MODULE DeviceRegistryProofs ------------------------
(***************************************************************************)
(* Proofs about DeviceRegistry, for every number of handlers, devices,     *)
(* networks and profiles and every payload and scan.                       *)
(*                                                                         *)
(* TypeOK is not inductive: that a document stays a document after a write *)
(* depends on what the handler read several steps before.  LocalsOK says   *)
(* which local variables a handler has at each step, FreshIds that nothing *)
(* is stored under an id not yet given out; with them it is.               *)
(***************************************************************************)
EXTENDS DeviceRegistry, TLAPS

EditSteps == {"edit_match", "edit_network", "edit_profile", "edit_mac",
              "edit_ip", "edit_lock", "edit_write"}
FoundSteps == {"adopt_profile", "adopt_name", "adopt_mac", "adopt_ip",
               "adopt_insert"}
ListSteps == {"adopt_target", "adopt_push", "delete_find", "delete_pull"}

LocalsFor(step, l) ==
  /\ step \in FoundSteps => l.mac_address \in Macs /\ l.ip_address \in Ips
  /\ step \in ListSteps => l.device \in DeviceIds
  /\ step \in EditSteps => l.device \in DeviceIds /\ l.read \in Device

LocalsOK == \A h \in Handlers : LocalsFor(pc[h], local[h])

FreshIds == \A d \in DeviceIds : d > inserted => devices_collection[d] = NULL

TypeInv == TypeOK /\ LocalsOK /\ FreshIds

-----------------------------------------------------------------------------
(* What a step of a handler does to its control state.                     *)

\* Step changes the control state of one handler and leaves the others alone.
LEMMA StepEffect ==
  ASSUME NEW h \in Handlers, NEW next \in Steps, NEW l \in Locals,
         pc \in [Handlers -> Steps], local \in [Handlers -> Locals],
         Step(h, next, l)
  PROVE  /\ pc' \in [Handlers -> Steps]
         /\ local' \in [Handlers -> Locals]
         /\ pc'[h] = next /\ local'[h] = l
         /\ \A g \in Handlers \ {h} : pc'[g] = pc[g] /\ local'[g] = local[g]
  BY DEF Step

\* A handler that keeps what its next step needs keeps LocalsOK.
LEMMA StepLocals ==
  ASSUME NEW h \in Handlers, NEW next \in Steps, NEW l \in Locals,
         pc \in [Handlers -> Steps], local \in [Handlers -> Locals],
         LocalsOK, LocalsFor(next, l), Step(h, next, l)
  PROVE  /\ pc' \in [Handlers -> Steps]
         /\ local' \in [Handlers -> Locals]
         /\ LocalsOK'
<1>1. /\ pc' \in [Handlers -> Steps]
      /\ local' \in [Handlers -> Locals]
      /\ pc'[h] = next /\ local'[h] = l
      /\ \A g \in Handlers \ {h} : pc'[g] = pc[g] /\ local'[g] = local[g]
  BY StepEffect
<1>2. ASSUME NEW g \in Handlers PROVE LocalsFor(pc'[g], local'[g])
  BY <1>1 DEF LocalsOK
<1>3. LocalsOK'
  BY <1>2 DEF LocalsOK, LocalsFor
<1> QED BY <1>1, <1>3

\* The idle handler's empty locals are locals, and suffice for "idle".
LEMMA NoLocalsType ==
  NoLocals \in Locals /\ "idle" \in Steps /\ LocalsFor("idle", NoLocals)
  BY DEF NoLocals, Locals, Optional, Steps, LocalsFor, EditSteps, FoundSteps,
         ListSteps

\* An answered request has dropped what it read.
LEMMA ReplyLocals ==
  ASSUME NEW h \in Handlers,
         pc \in [Handlers -> Steps], local \in [Handlers -> Locals],
         LocalsOK, Reply(h)
  PROVE  /\ pc' \in [Handlers -> Steps]
         /\ local' \in [Handlers -> Locals]
         /\ LocalsOK'
<1>1. Step(h, "idle", NoLocals)
  BY DEF Reply
<1> QED BY <1>1, StepLocals, NoLocalsType

\* A handler that moves on keeps its local variables.
LEMMA GotoLocals ==
  ASSUME NEW h \in Handlers, NEW next \in Steps,
         pc \in [Handlers -> Steps], local \in [Handlers -> Locals],
         LocalsOK, LocalsFor(next, local[h]), Goto(h, next)
  PROVE  /\ pc' \in [Handlers -> Steps]
         /\ local' \in [Handlers -> Locals]
         /\ LocalsOK'
<1>1. Step(h, next, local[h]) /\ local[h] \in Locals
  BY DEF Goto
<1> QED BY <1>1, StepLocals

-----------------------------------------------------------------------------
(* Type correctness.                                                       *)

Control == /\ pc \in [Handlers -> Steps]
           /\ local \in [Handlers -> Locals]
           /\ LocalsOK

\* Adoption keeps every handler's control state in order.
LEMMA AdoptControl ==
  ASSUME TypeInv, NEW h \in Handlers, AdoptNext(h)
  PROVE  Control'
<1> USE DEF Control
<1>1. /\ pc \in [Handlers -> Steps] /\ local \in [Handlers -> Locals]
      /\ LocalsOK /\ LocalsFor(pc[h], local[h]) /\ local[h] \in Locals
  BY DEF TypeInv, TypeOK, LocalsOK
<1>2. CASE AdoptDevice(h)
  <2>1. PICK mac \in Optional(Macs), ip \in Optional(Ips),
             net \in Optional(LiveNetworks), profile \in ProfileIds :
          Step(h, "adopt_check",
               [NoLocals EXCEPT !.mac_address = mac, !.ip_address = ip,
                                !.networkId = net, !.profileId = profile])
    BY <1>2 DEF AdoptDevice
  <2> DEFINE l == [NoLocals EXCEPT !.mac_address = mac, !.ip_address = ip,
                                   !.networkId = net, !.profileId = profile]
  <2>2. l \in Locals
    BY DEF NoLocals, Locals, Optional, LiveNetworks
  <2>3. "adopt_check" \in Steps /\ LocalsFor("adopt_check", l)
    BY DEF Steps, AdoptSteps, LocalsFor, FoundSteps, ListSteps, EditSteps
  <2> QED BY <1>1, <2>1, <2>2, <2>3, StepLocals
<1>3. CASE AdoptCheck(h)
  <2>1. "adopt_find" \in Steps /\ LocalsFor("adopt_find", local[h])
    BY DEF Steps, AdoptSteps, LocalsFor, FoundSteps, ListSteps, EditSteps
  <2> QED BY <1>1, <1>3, <2>1, ReplyLocals, GotoLocals DEF AdoptCheck
<1>4. CASE AdoptFind(h)
  <2>1. CASE Reply(h)
    BY <1>1, <2>1, ReplyLocals
  <2>2. ASSUME NEW i \in DOMAIN available_devices,
               Step(h, "adopt_profile",
                    [local[h] EXCEPT
                       !.mac_address = available_devices[i].mac_address,
                       !.ip_address = available_devices[i].ip_address])
        PROVE  Control'
    <3> DEFINE l == [local[h] EXCEPT
                       !.mac_address = available_devices[i].mac_address,
                       !.ip_address = available_devices[i].ip_address]
    <3>1. available_devices[i] \in DiscoveredDevice
      BY DEF TypeInv, TypeOK
    <3>2. l \in Locals /\ l.mac_address \in Macs /\ l.ip_address \in Ips
      BY <1>1, <3>1 DEF Locals, Optional, DiscoveredDevice
    <3>3. "adopt_profile" \in Steps /\ LocalsFor("adopt_profile", l)
      BY <3>2 DEF Steps, AdoptSteps, LocalsFor, FoundSteps, ListSteps, EditSteps
    <3> HIDE DEF l
    <3>4. Step(h, "adopt_profile", l)
      BY <2>2 DEF l
    <3> QED BY <1>1, <3>2, <3>3, <3>4, StepLocals
  <2> QED BY <1>4, <2>1, <2>2 DEF AdoptFind, Matches
<1>5. CASE AdoptProfile(h)
  <2>1. CASE pc[h] = "adopt_profile" /\ Goto(h, "adopt_name")
    <3>1. "adopt_name" \in Steps /\ LocalsFor("adopt_name", local[h])
      BY <1>1, <2>1 DEF Steps, AdoptSteps, LocalsFor, FoundSteps, ListSteps,
                        EditSteps
    <3> QED BY <1>1, <2>1, <3>1, GotoLocals
  <2> QED BY <1>1, <1>5, <2>1, ReplyLocals DEF AdoptProfile
<1>6. CASE AdoptUnique(h)
  <2>1. ASSUME NEW next \in {"adopt_mac", "adopt_ip", "adopt_insert"},
               pc[h] \in {"adopt_name", "adopt_mac", "adopt_ip"},
               Goto(h, next)
        PROVE  Control'
    <3>1. next \in Steps /\ LocalsFor(next, local[h])
      BY <1>1, <2>1 DEF Steps, AdoptSteps, LocalsFor, FoundSteps, ListSteps,
                        EditSteps
    <3> QED BY <1>1, <2>1, <3>1, GotoLocals
  <2>2. CASE Reply(h)
    BY <1>1, <2>2, ReplyLocals
  <2> QED BY <1>6, <2>1, <2>2 DEF AdoptUnique
<1>7. CASE AdoptInsert(h)
  <2> DEFINE l == [local[h] EXCEPT !.device = inserted + 1]
  <2>1. inserted + 1 \in DeviceIds
    BY <1>7, RegistryAssumption DEF AdoptInsert, TypeInv, TypeOK, DeviceIds
  <2>2. l \in Locals /\ l.device \in DeviceIds
    BY <1>1, <2>1 DEF Locals, Optional
  <2>3. "adopt_target" \in Steps /\ LocalsFor("adopt_target", l)
    BY <2>2 DEF Steps, AdoptSteps, LocalsFor, FoundSteps, ListSteps, EditSteps
  <2>4. Reply(h) \/ Step(h, "adopt_target", l)
    BY <1>7 DEF AdoptInsert
  <2> HIDE DEF l
  <2> QED BY <1>1, <2>2, <2>3, <2>4, ReplyLocals, StepLocals
<1>8. CASE AdoptTarget(h)
  <2>1. CASE pc[h] = "adopt_target" /\ Goto(h, "adopt_push")
    <3>1. "adopt_push" \in Steps /\ LocalsFor("adopt_push", local[h])
      BY <1>1, <2>1 DEF Steps, LocalsFor, FoundSteps, ListSteps, EditSteps
    <3> QED BY <1>1, <2>1, <3>1, GotoLocals
  <2> QED BY <1>1, <1>8, <2>1, ReplyLocals DEF AdoptTarget
<1>9. CASE AdoptPush(h)
  BY <1>1, <1>9, ReplyLocals DEF AdoptPush
<1> QED
  BY <1>2, <1>3, <1>4, <1>5, <1>6, <1>7, <1>8, <1>9 DEF AdoptNext

\* The same for edits.
LEMMA EditControl ==
  ASSUME TypeInv, NEW h \in Handlers, EditNext(h)
  PROVE  Control'
<1> USE DEF Control
<1>1. /\ pc \in [Handlers -> Steps] /\ local \in [Handlers -> Locals]
      /\ LocalsOK /\ LocalsFor(pc[h], local[h]) /\ local[h] \in Locals
  BY DEF TypeInv, TypeOK, LocalsOK
<1>2. CASE EditDevice(h)
  <2>1. PICK d \in Live, p \in EditPayloads :
          Step(h, "edit_match",
               [device |-> d, read |-> devices_collection[d],
                mac_address |-> p.mac_address, ip_address |-> p.ip_address,
                networkId |-> p.networkId, profileId |-> p.profileId,
                list |-> {}])
    BY <1>2 DEF EditDevice
  <2> DEFINE l == [device |-> d, read |-> devices_collection[d],
                   mac_address |-> p.mac_address, ip_address |-> p.ip_address,
                   networkId |-> p.networkId, profileId |-> p.profileId,
                   list |-> {}]
  <2>2. /\ d \in DeviceIds
        /\ devices_collection[d] \in Device
        /\ p \in DeviceUpdate
    BY RegistryAssumption DEF TypeInv, TypeOK, Live, Optional
  <2>3. l \in Locals /\ l.device \in DeviceIds /\ l.read \in Device
    BY <2>2 DEF Locals, Optional, DeviceUpdate
  <2>4. "edit_match" \in Steps /\ LocalsFor("edit_match", l)
    BY <2>3 DEF Steps, AdoptSteps, LocalsFor, FoundSteps, ListSteps, EditSteps
  <2> HIDE DEF l
  <2>5. Step(h, "edit_match", l)
    BY <2>1 DEF l
  <2> QED BY <1>1, <2>3, <2>4, <2>5, StepLocals
<1>3. ASSUME pc[h] \in EditSteps, NEW next \in EditSteps, Goto(h, next)
      PROVE  Control'
  <2>1. next \in Steps /\ LocalsFor(next, local[h])
    BY <1>1, <1>3 DEF Steps, AdoptSteps, LocalsFor, FoundSteps, ListSteps, EditSteps
  <2> QED BY <1>1, <1>3, <2>1, GotoLocals
<1>4. CASE Reply(h)
  BY <1>1, <1>4, ReplyLocals
<1>5. CASE EditMatch(h)
  BY <1>3, <1>4, <1>5 DEF EditMatch, EditSteps
<1>6. CASE EditNetworkCheck(h)
  BY <1>3, <1>4, <1>6 DEF EditNetworkCheck, EditSteps
<1>7. CASE EditProfileCheck(h)
  BY <1>3, <1>4, <1>7 DEF EditProfileCheck, EditSteps
<1>8. CASE EditMacCheck(h)
  BY <1>3, <1>4, <1>8 DEF EditMacCheck, EditSteps
<1>9. CASE EditIpCheck(h)
  BY <1>3, <1>4, <1>9 DEF EditIpCheck, EditSteps
<1>10. CASE EditLock(h)
  BY <1>3, <1>10 DEF EditLock, EditSteps
<1>11. CASE EditWrite(h)
  BY <1>4, <1>11 DEF EditWrite
<1> QED
  BY <1>2, <1>5, <1>6, <1>7, <1>8, <1>9, <1>10, <1>11 DEF EditNext

\* The same for the deletions and the edit of a network.
LEMMA OtherControl ==
  ASSUME TypeInv, NEW h \in Handlers,
         DeleteNext(h) \/ NetworkNext(h) \/ ProfileNext(h)
  PROVE  Control'
<1> USE DEF Control
<1>1. /\ pc \in [Handlers -> Steps] /\ local \in [Handlers -> Locals]
      /\ LocalsOK /\ LocalsFor(pc[h], local[h]) /\ local[h] \in Locals
  BY DEF TypeInv, TypeOK, LocalsOK
<1>2. CASE DeleteDevice(h)
  <2>1. PICK d \in Live :
          \/ UNCHANGED <<pc, local>>
          \/ Step(h, "delete_find",
                  [NoLocals EXCEPT !.device = d,
                     !.networkId = devices_collection[d].networkId])
    BY <1>2 DEF DeleteDevice
  <2> DEFINE l == [NoLocals EXCEPT !.device = d,
                     !.networkId = devices_collection[d].networkId]
  <2>2. d \in DeviceIds /\ devices_collection[d] \in Device
    BY DEF TypeInv, TypeOK, Live, Optional
  <2>3. l \in Locals /\ l.device \in DeviceIds
    BY <2>2 DEF NoLocals, Locals, Optional, Device
  <2>4. "delete_find" \in Steps /\ LocalsFor("delete_find", l)
    BY <2>3 DEF Steps, AdoptSteps, LocalsFor, FoundSteps, ListSteps, EditSteps
  <2>5. CASE UNCHANGED <<pc, local>>
    BY <1>1, <2>5 DEF LocalsOK, LocalsFor
  <2> HIDE DEF l
  <2>6. CASE Step(h, "delete_find", l)
    BY <1>1, <2>3, <2>4, <2>6, StepLocals
  <2> QED BY <2>1, <2>5, <2>6 DEF l
<1>3. CASE Reply(h)
  BY <1>1, <1>3, ReplyLocals
<1>4. CASE DeleteFind(h)
  <2>1. CASE pc[h] = "delete_find" /\ Goto(h, "delete_pull")
    <3>1. "delete_pull" \in Steps /\ LocalsFor("delete_pull", local[h])
      BY <1>1, <2>1 DEF Steps, LocalsFor, FoundSteps, ListSteps, EditSteps
    <3> QED BY <1>1, <2>1, <3>1, GotoLocals
  <2> QED BY <1>3, <1>4, <2>1 DEF DeleteFind
<1>5. ASSUME NEW next \in {"network_write", "purge_find", "profile_clear"},
             NEW l \in Locals, Step(h, next, l)
      PROVE  Control'
  <2>1. next \in Steps /\ LocalsFor(next, l)
    BY DEF Steps, AdoptSteps, LocalsFor, FoundSteps, ListSteps, EditSteps
  <2> QED BY <1>1, <1>5, <2>1, StepLocals
<1>6. CASE EditNetwork(h)
  <2>1. PICK n \in LiveNetworks :
          Step(h, "network_write", [NoLocals EXCEPT !.networkId = n,
                                      !.list = networks_collection[n]])
    BY <1>6 DEF EditNetwork
  <2>2. [NoLocals EXCEPT !.networkId = n, !.list = networks_collection[n]]
          \in Locals
    BY DEF NoLocals, Locals, Optional, LiveNetworks, TypeInv, TypeOK
  <2> QED BY <1>5, <2>1, <2>2
<1>7. CASE DeleteNetwork(h)
  <2>1. PICK n \in LiveNetworks :
          Step(h, "purge_find", [NoLocals EXCEPT !.networkId = n])
    BY <1>7 DEF DeleteNetwork
  <2>2. [NoLocals EXCEPT !.networkId = n] \in Locals
    BY DEF NoLocals, Locals, Optional, LiveNetworks
  <2> QED BY <1>5, <2>1, <2>2
<1>8. CASE PurgeFind(h)
  <2>1. CASE Goto(h, "purge_delete")
    <3>1. "purge_delete" \in Steps /\ LocalsFor("purge_delete", local[h])
      BY DEF Steps, AdoptSteps, LocalsFor, FoundSteps, ListSteps, EditSteps
    <3> QED BY <1>1, <2>1, <3>1, GotoLocals
  <2> QED BY <1>3, <1>8, <2>1 DEF PurgeFind
<1>9. CASE DeleteProfile(h)
  <2>1. PICK p \in profiles_collection :
          Step(h, "profile_clear", [NoLocals EXCEPT !.profileId = p])
    BY <1>9 DEF DeleteProfile
  <2>2. [NoLocals EXCEPT !.profileId = p] \in Locals
    BY DEF NoLocals, Locals, Optional, TypeInv, TypeOK
  <2> QED BY <1>5, <2>1, <2>2
<1> QED
  BY <1>2, <1>3, <1>4, <1>6, <1>7, <1>8, <1>9
     DEF DeleteNext, NetworkNext, ProfileNext, DeletePull, NetworkWrite,
         PurgeDelete, ProfileClear

Data == /\ devices_collection \in [DeviceIds -> Optional(Device)]
        /\ inserted \in 0..MaxDevices
        /\ networks_collection \in [NetworkIds -> Optional(SUBSET Entry)]
        /\ profiles_collection \subseteq ProfileIds
        /\ available_devices \in Seq(DiscoveredDevice)
        /\ update_lock \in Optional(Handlers \cup BackgroundTasks)
        /\ FreshIds

\* What a handler stores is a document.
LEMMA AdoptedDeviceType ==
  ASSUME TypeInv, NEW h \in Handlers, pc[h] \in FoundSteps
  PROVE  AdoptedDevice(local[h]) \in Device
<1>1. local[h] \in Locals /\ local[h].mac_address \in Macs
      /\ local[h].ip_address \in Ips
  BY DEF TypeInv, TypeOK, LocalsOK, LocalsFor
<1>2. NameAt[local[h].ip_address] \in Names
  BY <1>1, RegistryAssumption
<1> QED BY <1>1, <1>2 DEF AdoptedDevice, Device, Locals

\* What validate_new_device_info returns for a complete document is one.
LEMMA EditedDeviceType ==
  ASSUME TypeInv, NEW h \in Handlers, pc[h] \in EditSteps
  PROVE  EditedDevice(local[h]) \in Device /\ local[h].device \in DeviceIds
<1>1. local[h] \in Locals /\ local[h].device \in DeviceIds
      /\ local[h].read \in Device
  BY DEF TypeInv, TypeOK, LocalsOK, LocalsFor
<1> DEFINE Given(value, old) == IF value # NULL THEN value ELSE old
<1>2. ASSUME NEW l \in Locals, l.read \in Device
      PROVE  /\ Given(l.mac_address, l.read.mac_address) \in Macs
             /\ Given(l.ip_address, l.read.ip_address) \in Ips
             /\ Given(l.networkId, l.read.networkId) \in Optional(NetworkIds)
             /\ Given(l.profileId, l.read.profileId) \in Optional(ProfileIds)
  BY <1>2 DEF Device, Locals, Optional
<1>3. ASSUME NEW l \in Locals, l.read \in Device
      PROVE  EditedDevice(l) \in Device
  BY <1>2, <1>3 DEF EditedDevice, Device
<1> QED BY <1>1, <1>3

\* Every step of a handler keeps the collections, the list and the lock in type.
LEMMA RequestData ==
  ASSUME TypeInv, NEW h \in Handlers, RequestNext(h)
  PROVE  Data'
<1>1. Data /\ local[h] \in Locals /\ LocalsFor(pc[h], local[h])
  BY DEF TypeInv, TypeOK, Data, LocalsOK
<1>2. CASE UNCHANGED <<db, available_devices, update_lock>>
  BY <1>1, <1>2 DEF Data, db, FreshIds
<1>3. CASE AdoptInsert(h)
  <2>1. AdoptedDevice(local[h]) \in Device
    BY <1>3, AdoptedDeviceType DEF AdoptInsert, FoundSteps
  <2>2. inserted' \in 0..MaxDevices /\ inserted' = inserted + 1
    BY <1>1, <1>3, RegistryAssumption DEF AdoptInsert, Data
  <2>3. devices_collection' \in [DeviceIds -> Optional(Device)]
    BY <1>1, <1>3, <2>1 DEF AdoptInsert, Data, Optional
  <2>4. FreshIds'
    BY <1>1, <1>3, <2>2 DEF AdoptInsert, Data, FreshIds, DeviceIds
  <2> QED BY <1>1, <1>3, <2>2, <2>3, <2>4 DEF AdoptInsert, Data
<1>4. CASE AdoptPush(h)
  <2>1. [device |-> local[h].device, kind |-> "oid"] \in Entry
    BY <1>1, <1>4 DEF AdoptPush, LocalsFor, ListSteps, Entry
  <2>2. networks_collection' \in [NetworkIds -> Optional(SUBSET Entry)]
    BY <1>1, <1>4, <2>1 DEF AdoptPush, Data, Optional, LiveNetworks
  <2> QED BY <1>1, <1>4, <2>2 DEF AdoptPush, Data, FreshIds
<1>5. CASE EditLock(h)
  BY <1>1, <1>5 DEF EditLock, Data, db, FreshIds, Optional
<1>6. CASE EditWrite(h)
  <2>1. EditedDevice(local[h]) \in Device /\ local[h].device \in DeviceIds
    BY <1>6, EditedDeviceType DEF EditWrite, EditSteps
  <2>2. devices_collection' \in [DeviceIds -> Optional(Device)]
    BY <1>1, <1>6, <2>1 DEF EditWrite, Data, Optional
  <2>3. FreshIds'
    BY <1>1, <1>6, <2>1 DEF EditWrite, Data, FreshIds, Live
  <2>4. update_lock' \in Optional(Handlers \cup BackgroundTasks)
    BY <1>1, <1>6 DEF EditWrite, Data, Optional
  <2> QED BY <1>1, <1>6, <2>2, <2>3, <2>4 DEF EditWrite, Data
<1>7. CASE DeleteDevice(h)
  BY <1>1, <1>7 DEF DeleteDevice, Data, FreshIds, Live, Optional
<1>8. CASE DeletePull(h)
  BY <1>1, <1>8 DEF DeletePull, Data, FreshIds, Optional, LiveNetworks
<1>9. CASE NetworkWrite(h)
  <2>1. {[device |-> e.device, kind |-> "str"] : e \in local[h].list}
          \in SUBSET Entry
    BY <1>1 DEF Locals, Entry
  <2>2. networks_collection' \in [NetworkIds -> Optional(SUBSET Entry)]
    BY <1>1, <1>9, <2>1 DEF NetworkWrite, Data, Optional
  <2> QED BY <1>1, <1>9, <2>2 DEF NetworkWrite, Data, FreshIds
<1>10. CASE DeleteNetwork(h)
  BY <1>1, <1>10 DEF DeleteNetwork, Data, FreshIds, Optional, LiveNetworks
<1>11. CASE PurgeDelete(h)
  BY <1>1, <1>11 DEF PurgeDelete, Data, FreshIds, Optional
<1>12. CASE DeleteProfile(h)
  BY <1>1, <1>12 DEF DeleteProfile, Data, FreshIds
<1> QED
  BY <1>2, <1>3, <1>4, <1>5, <1>6, <1>7, <1>8, <1>9, <1>10, <1>11, <1>12
     DEF RequestNext, AdoptNext, EditNext, DeleteNext, NetworkNext, ProfileNext,
         AdoptDevice, AdoptCheck, AdoptFind, AdoptProfile, AdoptUnique,
         AdoptTarget, EditDevice, EditMatch, EditNetworkCheck, EditProfileCheck,
         EditMacCheck, EditIpCheck, DeleteFind, EditNetwork, PurgeFind,
         ProfileClear

\* Every step of a request keeps the types.
LEMMA RequestTypeInv ==
  ASSUME TypeInv, NEW h \in Handlers, RequestNext(h)
  PROVE  TypeInv'
<1>1. Control'
  BY AdoptControl, EditControl, OtherControl DEF RequestNext
<1>2. Data'
  BY RequestData
<1> QED BY <1>1, <1>2 DEF Control, Data, TypeInv, TypeOK

\* The scan thread appends a list of hosts and touches nothing else.
LEMMA ArpScanTypeInv ==
  ASSUME TypeInv, ArpScan
  PROVE  TypeInv'
<1>1. PICK new_devices \in Sweeps :
        available_devices' = available_devices \o new_devices
  BY DEF ArpScan
<1>2. available_devices' \in Seq(DiscoveredDevice)
  BY <1>1, RegistryAssumption DEF TypeInv, TypeOK
<1> QED
  BY <1>2 DEF ArpScan, TypeInv, TypeOK, LocalsOK, LocalsFor, FreshIds, db

\* The documents there at the start are complete and have the first ids.
LEMMA InitTypeInv == Init => TypeInv
<1> SUFFICES ASSUME Init PROVE TypeInv
  OBVIOUS
<1>1. /\ \A d \in 1..Len(InitialDevices) : InitialDevices[d] \in Device
      /\ Len(InitialDevices) \in 0..MaxDevices
  BY RegistryAssumption
<1>2. devices_collection \in [DeviceIds -> Optional(Device)] /\ FreshIds
  BY <1>1 DEF Init, DeviceIds, Optional, FreshIds
<1>3. networks_collection \in [NetworkIds -> Optional(SUBSET Entry)]
  BY DEF Init, Optional
<1>4. Control
  BY NoLocalsType DEF Init, Control, LocalsOK
<1> QED
  BY <1>1, <1>2, <1>3, <1>4 DEF Init, TypeInv, TypeOK, Control, Optional

\* The whole state keeps its type, and a handler in the middle of a request has
\* what the rest of the request needs, however requests interleave.
THEOREM TypeInvariant == Spec => []TypeInv
<1>1. Init => TypeInv
  BY InitTypeInv
<1>2. TypeInv /\ [Next]_vars => TypeInv'
  <2> SUFFICES ASSUME TypeInv, [Next]_vars PROVE TypeInv'
    OBVIOUS
  <2>1. CASE ArpScan
    BY <2>1, ArpScanTypeInv
  <2>2. ASSUME NEW h \in Handlers, RequestNext(h) PROVE TypeInv'
    BY <2>2, RequestTypeInv
  <2>3. CASE UNCHANGED vars
    BY <2>3 DEF vars, TypeInv, TypeOK, LocalsOK, LocalsFor, FreshIds, Live
  <2> QED BY <2>1, <2>2, <2>3 DEF Next
<1> QED BY <1>1, <1>2, PTL DEF Spec

\* TypeOK holds in every reachable state of the registry.
THEOREM TypeCorrect == Spec => []TypeOK
<1>1. TypeInv => TypeOK
  BY DEF TypeInv
<1> QED BY <1>1, TypeInvariant, PTL

-----------------------------------------------------------------------------
(* What a handler's step leaves alone.                                     *)

\* A step of one handler does not touch the control state of another.
LEMMA OthersStay ==
  ASSUME TypeInv, NEW h \in Handlers, RequestNext(h), NEW g \in Handlers, g # h
  PROVE  pc'[g] = pc[g] /\ local'[g] = local[g]
<1>1. pc \in [Handlers -> Steps] /\ local \in [Handlers -> Locals]
  BY DEF TypeInv, TypeOK
<1>2. ASSUME NEW next, NEW l, Step(h, next, l)
      PROVE  pc'[g] = pc[g] /\ local'[g] = local[g]
  BY <1>1, <1>2 DEF Step
<1>3. \A next : Goto(h, next) => pc'[g] = pc[g] /\ local'[g] = local[g]
  BY <1>2 DEF Goto
<1>4. Reply(h) => pc'[g] = pc[g] /\ local'[g] = local[g]
  BY <1>2 DEF Reply
<1>5. AdoptNext(h) => pc'[g] = pc[g] /\ local'[g] = local[g]
  BY <1>2, <1>3, <1>4
     DEF AdoptNext, AdoptDevice, AdoptCheck, AdoptFind, AdoptProfile, AdoptUnique,
         AdoptInsert, AdoptTarget, AdoptPush
<1>6. EditNext(h) => pc'[g] = pc[g] /\ local'[g] = local[g]
  BY <1>2, <1>3, <1>4
     DEF EditNext, EditDevice, EditMatch, EditNetworkCheck, EditProfileCheck,
         EditMacCheck, EditIpCheck, EditLock, EditWrite
<1>7. DeleteNext(h) \/ NetworkNext(h) \/ ProfileNext(h)
        => pc'[g] = pc[g] /\ local'[g] = local[g]
  BY <1>2, <1>3, <1>4
     DEF DeleteNext, DeleteDevice, DeleteFind, DeletePull, NetworkNext,
         EditNetwork, NetworkWrite, DeleteNetwork, PurgeFind, PurgeDelete,
         ProfileNext, DeleteProfile, ProfileClear
<1> QED BY <1>5, <1>6, <1>7 DEF RequestNext

\* Where the steps that fill the local variables anew lead.
LEMMA FilledSteps ==
  ASSUME TypeInv, NEW h \in Handlers
  PROVE  /\ AdoptDevice(h) => pc'[h] = "adopt_check"
         /\ AdoptFind(h) => pc'[h] \in {"idle", "adopt_profile"}
         /\ AdoptInsert(h) => pc'[h] \in {"idle", "adopt_target"}
         /\ EditDevice(h) => pc'[h] = "edit_match"
         /\ DeleteDevice(h) => pc'[h] \in {"idle", "delete_find"}
         /\ EditNetwork(h) => pc'[h] = "network_write"
         /\ DeleteNetwork(h) => pc'[h] = "purge_find"
         /\ DeleteProfile(h) => pc'[h] = "profile_clear"
<1>1. pc \in [Handlers -> Steps]
  BY DEF TypeInv, TypeOK
<1>2. AdoptDevice(h) => pc'[h] = "adopt_check"
  BY <1>1 DEF AdoptDevice, Step
<1>3. AdoptFind(h) => pc'[h] \in {"idle", "adopt_profile"}
  BY <1>1 DEF AdoptFind, Reply, Step
<1>4. AdoptInsert(h) => pc'[h] \in {"idle", "adopt_target"}
  BY <1>1 DEF AdoptInsert, Reply, Step
<1>5. EditDevice(h) => pc'[h] = "edit_match"
  BY <1>1 DEF EditDevice, Step
<1>6. DeleteDevice(h) => pc'[h] \in {"idle", "delete_find"}
  BY <1>1 DEF DeleteDevice, Arrives, Step
<1>7. EditNetwork(h) => pc'[h] = "network_write"
  BY <1>1 DEF EditNetwork, Step
<1>8. DeleteNetwork(h) => pc'[h] = "purge_find"
  BY <1>1 DEF DeleteNetwork, Step
<1>9. DeleteProfile(h) => pc'[h] = "profile_clear"
  BY <1>1 DEF DeleteProfile, Step
<1> QED BY <1>2, <1>3, <1>4, <1>5, <1>6, <1>7, <1>8, <1>9

-----------------------------------------------------------------------------
(* DEVICE_UPDATE_LOCK.                                                     *)

\* UpdateLockOwner alone is not inductive: a handler that waits for the lock
\* must be one that will release it.
LockInv == /\ UpdateLockOwner
           /\ \A h \in Handlers : pc[h] = "edit_lock" => AddressChanged(local[h])

\* What the acting handler's own step does to the lock.
LEMMA LockStep ==
  ASSUME TypeInv, LockInv, NEW h \in Handlers, RequestNext(h)
  PROVE  /\ update_lock' = h <=> pc'[h] = "edit_write" /\ AddressChanged(local'[h])
         /\ pc'[h] = "edit_lock" => AddressChanged(local'[h])
         /\ update_lock' # update_lock => {update_lock, update_lock'} = {h, NULL}
<1>1. /\ pc \in [Handlers -> Steps] /\ local \in [Handlers -> Locals]
      /\ NULL \notin Handlers
      /\ update_lock = h <=> pc[h] = "edit_write" /\ AddressChanged(local[h])
      /\ pc[h] = "edit_lock" => AddressChanged(local[h])
  BY RegistryAssumption DEF TypeInv, TypeOK, LockInv, UpdateLockOwner
<1>2. ASSUME NEW next, NEW l, Step(h, next, l)
      PROVE  pc'[h] = next /\ local'[h] = l
  BY <1>1, <1>2 DEF Step
<1>3. \A next : Goto(h, next) => pc'[h] = next /\ local'[h] = local[h]
  BY <1>2 DEF Goto
<1>4. Reply(h) => pc'[h] = "idle"
  BY <1>2 DEF Reply
<1>5. ASSUME update_lock' = update_lock, pc[h] # "edit_write",
             pc'[h] \notin {"edit_lock", "edit_write"}
      PROVE  /\ update_lock' = h <=>
                  pc'[h] = "edit_write" /\ AddressChanged(local'[h])
             /\ pc'[h] = "edit_lock" => AddressChanged(local'[h])
             /\ update_lock' # update_lock => {update_lock, update_lock'} = {h, NULL}
  BY <1>1, <1>5
<1>6. CASE AdoptNext(h)
  <2>1. update_lock' = update_lock
    BY <1>6 DEF AdoptNext, AdoptDevice, AdoptCheck, AdoptFind, AdoptProfile,
                AdoptUnique, AdoptInsert, AdoptTarget, AdoptPush
  <2>2. pc[h] # "edit_write"
    BY <1>6 DEF AdoptNext, AdoptDevice, AdoptCheck, AdoptFind, AdoptProfile,
                AdoptUnique, AdoptInsert, AdoptTarget, AdoptPush, Arrives
  <2>3. CASE AdoptDevice(h) \/ AdoptFind(h) \/ AdoptInsert(h)
    BY <1>5, <2>1, <2>2, <2>3, FilledSteps
  <2>4. CASE AdoptCheck(h) \/ AdoptProfile(h) \/ AdoptUnique(h) \/ AdoptTarget(h)
               \/ AdoptPush(h)
    BY <1>3, <1>4, <1>5, <2>1, <2>2, <2>4
       DEF AdoptCheck, AdoptProfile, AdoptUnique, AdoptTarget, AdoptPush
  <2> QED BY <1>6, <2>3, <2>4 DEF AdoptNext
<1>7. CASE EditNext(h)
  <2>1. CASE EditDevice(h)
    BY <1>5, <2>1, FilledSteps DEF EditDevice, Arrives
  <2>2. CASE EditMatch(h) \/ EditNetworkCheck(h) \/ EditProfileCheck(h)
               \/ EditMacCheck(h)
    BY <1>3, <1>4, <1>5, <2>2
       DEF EditMatch, EditNetworkCheck, EditProfileCheck, EditMacCheck
  <2>3. CASE EditIpCheck(h)
    BY <1>1, <1>3, <1>4, <1>5, <2>3 DEF EditIpCheck
  <2>4. CASE EditLock(h)
    BY <1>1, <1>3, <2>4 DEF EditLock
  <2>5. CASE EditWrite(h)
    BY <1>1, <1>4, <2>5 DEF EditWrite
  <2> QED BY <1>7, <2>1, <2>2, <2>3, <2>4, <2>5 DEF EditNext
<1>8. CASE DeleteNext(h) \/ NetworkNext(h) \/ ProfileNext(h)
  <2>1. update_lock' = update_lock /\ pc[h] # "edit_write"
    BY <1>8 DEF DeleteNext, DeleteDevice, DeleteFind, DeletePull, NetworkNext,
         EditNetwork, NetworkWrite, DeleteNetwork, PurgeFind, PurgeDelete,
         ProfileNext, DeleteProfile, ProfileClear, Arrives
  <2>2. CASE DeleteDevice(h) \/ EditNetwork(h) \/ DeleteNetwork(h)
               \/ DeleteProfile(h)
    BY <1>5, <2>1, <2>2, FilledSteps
  <2>3. CASE DeleteFind(h) \/ DeletePull(h) \/ NetworkWrite(h) \/ PurgeFind(h)
               \/ PurgeDelete(h) \/ ProfileClear(h)
    BY <1>3, <1>4, <1>5, <2>1, <2>3
       DEF DeleteFind, DeletePull, NetworkWrite, PurgeFind, PurgeDelete,
           ProfileClear
  <2> QED BY <1>8, <2>2, <2>3 DEF DeleteNext, NetworkNext, ProfileNext
<1> QED BY <1>6, <1>7, <1>8 DEF RequestNext

\* LockInv is inductive: only its holder changes the lock.
LEMMA LockInvStep ==
  ASSUME TypeInv, LockInv, NEW h \in Handlers, RequestNext(h)
  PROVE  LockInv'
<1>1. ASSUME NEW g \in Handlers
      PROVE  /\ update_lock' = g <=>
                  pc'[g] = "edit_write" /\ AddressChanged(local'[g])
             /\ pc'[g] = "edit_lock" => AddressChanged(local'[g])
  <2>1. CASE g = h
    BY <2>1, LockStep
  <2>2. CASE g # h
    <3>1. pc'[g] = pc[g] /\ local'[g] = local[g]
      BY <2>2, OthersStay
    <3>2. update_lock' = g <=> update_lock = g
      BY <2>2, LockStep, RegistryAssumption
    <3> QED BY <3>1, <3>2 DEF LockInv, UpdateLockOwner
  <2> QED BY <2>1, <2>2
<1> QED
  BY <1>1 DEF LockInv, UpdateLockOwner, AddressChanged, MacChanged, IpChanged

\* At the start no request runs and the lock is free.
LEMMA LockInvInit == Init => LockInv
  BY RegistryAssumption DEF Init, LockInv, UpdateLockOwner

\* The lock is held exactly by the edit that is about to write a changed
\* address: mutual exclusion of those writes, and no lock left behind.
THEOREM LockCorrect == Spec => []UpdateLockOwner
<1>1. TypeInv /\ LockInv /\ [Next]_vars => LockInv'
  <2> SUFFICES ASSUME TypeInv, LockInv, [Next]_vars PROVE LockInv'
    OBVIOUS
  <2>1. CASE ArpScan \/ UNCHANGED vars
    BY <2>1 DEF ArpScan, vars, db, LockInv, UpdateLockOwner, AddressChanged,
                MacChanged, IpChanged
  <2> QED BY <2>1, LockInvStep DEF Next
<1>2. LockInv => UpdateLockOwner
  BY DEF LockInv
<1> QED BY <1>1, <1>2, LockInvInit, TypeInvariant, PTL DEF Spec

-----------------------------------------------------------------------------
(* An adoption goes on with a pair that was discovered.                    *)

Discovered(l) == \E i \in DOMAIN available_devices :
                   /\ available_devices[i].mac_address = l.mac_address
                   /\ available_devices[i].ip_address = l.ip_address

\* The list only grows at its end.
LEMMA ScanKeepsEntries ==
  ASSUME TypeInv, ArpScan
  PROVE  \A i \in DOMAIN available_devices :
           /\ i \in DOMAIN available_devices'
           /\ available_devices'[i] = available_devices[i]
<1>1. PICK new_devices \in Sweeps :
        available_devices' = available_devices \o new_devices
  BY DEF ArpScan
<1> QED BY <1>1, RegistryAssumption DEF TypeInv, TypeOK

\* The handler that moves on either was past find_device already, or the match
\* gives it an entry's pair.
LEMMA FoundStep ==
  ASSUME TypeInv, AdoptsDiscoveredHost, NEW h \in Handlers, RequestNext(h),
         pc'[h] \in FoundSteps
  PROVE  Discovered(local'[h]) /\ available_devices' = available_devices
<1>1. /\ pc \in [Handlers -> Steps] /\ local \in [Handlers -> Locals]
      /\ local[h] \in Locals
      /\ pc[h] \in FoundSteps => Discovered(local[h])
  BY DEF TypeInv, TypeOK, AdoptsDiscoveredHost, Discovered, FoundSteps
<1>2. ASSUME NEW next, NEW l, Step(h, next, l)
      PROVE  pc'[h] = next /\ local'[h] = l
  BY <1>1, <1>2 DEF Step
<1>3. \A next : Goto(h, next) => pc'[h] = next /\ local'[h] = local[h]
  BY <1>2 DEF Goto
<1>4. Reply(h) => pc'[h] = "idle"
  BY <1>2 DEF Reply
<1>5. CASE AdoptFind(h)
  <2>1. PICK i \in Matches(local[h].mac_address, local[h].ip_address) :
          Step(h, "adopt_profile",
               [local[h] EXCEPT
                  !.mac_address = available_devices[i].mac_address,
                  !.ip_address = available_devices[i].ip_address])
    BY <1>4, <1>5 DEF AdoptFind, FoundSteps
  <2>2. /\ local'[h].mac_address = available_devices[i].mac_address
        /\ local'[h].ip_address = available_devices[i].ip_address
    <3>1. local'[h] = [local[h] EXCEPT
                         !.mac_address = available_devices[i].mac_address,
                         !.ip_address = available_devices[i].ip_address]
      BY <1>1, <2>1 DEF Step
    <3> QED BY <1>1, <3>1 DEF Locals
  <2>3. i \in DOMAIN available_devices
    BY <2>1 DEF Matches
  <2>4. available_devices' = available_devices
    BY <1>5 DEF AdoptFind
  <2> QED BY <2>2, <2>3, <2>4 DEF Discovered
<1>6. CASE AdoptProfile(h) \/ AdoptUnique(h)
  BY <1>1, <1>3, <1>4, <1>6 DEF AdoptProfile, AdoptUnique, FoundSteps, Discovered
<1>7. ~(AdoptDevice(h) \/ AdoptCheck(h) \/ AdoptInsert(h) \/ AdoptTarget(h)
          \/ AdoptPush(h))
  <2>1. ~(AdoptDevice(h) \/ AdoptInsert(h))
    BY FilledSteps DEF FoundSteps
  <2>2. ~(AdoptCheck(h) \/ AdoptTarget(h) \/ AdoptPush(h))
    BY <1>3, <1>4 DEF AdoptCheck, AdoptTarget, AdoptPush, FoundSteps
  <2> QED BY <2>1, <2>2
<1>8. ~EditNext(h)
  <2>1. ~EditDevice(h)
    BY FilledSteps DEF FoundSteps
  <2>2. ~(EditMatch(h) \/ EditNetworkCheck(h) \/ EditProfileCheck(h)
            \/ EditMacCheck(h) \/ EditLock(h) \/ EditWrite(h))
    BY <1>3, <1>4 DEF EditMatch, EditNetworkCheck, EditProfileCheck, EditMacCheck,
                      EditLock, EditWrite, FoundSteps
  <2>3. ~EditIpCheck(h)
    BY <1>3, <1>4 DEF EditIpCheck, FoundSteps
  <2> QED BY <2>1, <2>2, <2>3 DEF EditNext
<1>9. ~(DeleteNext(h) \/ NetworkNext(h) \/ ProfileNext(h))
  <2>1. ~(DeleteDevice(h) \/ EditNetwork(h) \/ DeleteNetwork(h)
            \/ DeleteProfile(h))
    BY FilledSteps DEF FoundSteps
  <2>2. ~(DeleteFind(h) \/ DeletePull(h) \/ NetworkWrite(h) \/ PurgeFind(h)
            \/ PurgeDelete(h) \/ ProfileClear(h))
    BY <1>3, <1>4 DEF DeleteFind, DeletePull, NetworkWrite, PurgeFind, PurgeDelete,
                      ProfileClear, FoundSteps
  <2> QED BY <2>1, <2>2 DEF DeleteNext, NetworkNext, ProfileNext
<1> QED BY <1>5, <1>6, <1>7, <1>8, <1>9 DEF RequestNext, AdoptNext

\* Handlers do not change the list.
LEMMA RequestKeepsList ==
  ASSUME NEW h \in Handlers, RequestNext(h)
  PROVE  available_devices' = available_devices
  BY DEF RequestNext, AdoptNext, EditNext, DeleteNext, NetworkNext, ProfileNext,
         AdoptDevice, AdoptCheck, AdoptFind, AdoptProfile, AdoptUnique, AdoptInsert,
         AdoptTarget, AdoptPush, EditDevice, EditMatch, EditNetworkCheck,
         EditProfileCheck, EditMacCheck, EditIpCheck, EditLock, EditWrite,
         DeleteDevice, DeleteFind, DeletePull, EditNetwork, NetworkWrite,
         DeleteNetwork, PurgeFind, PurgeDelete, DeleteProfile, ProfileClear

\* However the scan thread and other requests interleave with it, an adoption
\* stores a (MAC, IP) pair that a scan saw together.
THEOREM AdoptionCorrect == Spec => []AdoptsDiscoveredHost
<1>1. Init => AdoptsDiscoveredHost
  BY DEF Init, AdoptsDiscoveredHost
<1>2. TypeInv /\ AdoptsDiscoveredHost /\ [Next]_vars => AdoptsDiscoveredHost'
  <2> SUFFICES ASSUME TypeInv, AdoptsDiscoveredHost, [Next]_vars,
                      NEW g \in Handlers, pc'[g] \in FoundSteps
               PROVE  Discovered(local[g])'
    BY DEF AdoptsDiscoveredHost, Discovered, FoundSteps
  <2>1. pc[g] \in FoundSteps => Discovered(local[g])
    BY DEF AdoptsDiscoveredHost, Discovered, FoundSteps
  <2>2. CASE ArpScan
    <3>1. pc' = pc /\ local' = local
      BY <2>2 DEF ArpScan
    <3>2. Discovered(local[g])
      BY <2>1, <3>1
    <3> QED BY <2>2, <3>1, <3>2, ScanKeepsEntries DEF Discovered
  <2>3. ASSUME NEW h \in Handlers, RequestNext(h) PROVE Discovered(local[g])'
    <3>1. available_devices' = available_devices
      BY <2>3, RequestKeepsList
    <3>2. CASE g = h
      BY <2>3, <3>1, <3>2, FoundStep DEF Discovered
    <3>3. CASE g # h
      BY <2>1, <2>3, <3>1, <3>3, OthersStay DEF Discovered
    <3> QED BY <3>2, <3>3
  <2>4. CASE UNCHANGED vars
    BY <2>1, <2>4 DEF vars, Discovered
  <2> QED BY <2>2, <2>3, <2>4 DEF Next
<1> QED BY <1>1, <1>2, TypeInvariant, PTL DEF Spec

-----------------------------------------------------------------------------
(* The registry implements the life cycle of a device record.              *)

\* The refinement mapping of LifecycleSpec.
StatusOf == [d \in DeviceIds |->
               IF d > inserted THEN "unborn"
               ELSE IF devices_collection[d] = NULL THEN "gone" ELSE "live"]

Inserts == /\ inserted' = inserted + 1
           /\ inserted + 1 \in DeviceIds
           /\ \E doc \in Device :
                devices_collection' = [devices_collection EXCEPT ![inserted + 1] = doc]

Deletes(S) == /\ inserted' = inserted
              /\ S \subseteq Live
              /\ devices_collection' = [d \in DeviceIds |->
                                         IF d \in S THEN NULL
                                         ELSE devices_collection[d]]

Rewrites == /\ inserted' = inserted
            /\ \E d \in Live, doc \in Device :
                 devices_collection' = [devices_collection EXCEPT ![d] = doc]

\* What a request may do to the devices collection: insert one document under
\* the next id, delete documents that are there, or write a document over one
\* that is there.  No write is an upsert.
LEMMA DevicesStep ==
  ASSUME TypeInv, NEW h \in Handlers, RequestNext(h)
  PROVE  \/ UNCHANGED <<devices_collection, inserted>>
         \/ Inserts
         \/ \E S \in SUBSET DeviceIds : Deletes(S)
         \/ Rewrites
<1>1. /\ devices_collection \in [DeviceIds -> Optional(Device)]
      /\ inserted \in 0..MaxDevices /\ MaxDevices \in Nat
  BY RegistryAssumption DEF TypeInv, TypeOK
<1>2. CASE AdoptInsert(h)
  <2>1. AdoptedDevice(local[h]) \in Device
    BY <1>2, AdoptedDeviceType DEF AdoptInsert, FoundSteps
  <2>2. inserted + 1 \in DeviceIds
    BY <1>1, <1>2 DEF AdoptInsert, DeviceIds
  <2> QED BY <1>2, <2>1, <2>2 DEF AdoptInsert, Inserts
<1>3. CASE EditWrite(h)
  <2>1. EditedDevice(local[h]) \in Device
    BY <1>3, EditedDeviceType DEF EditWrite, EditSteps
  <2> QED BY <1>3, <2>1 DEF EditWrite, Rewrites
<1>4. CASE DeleteDevice(h)
  <2>1. PICK d \in Live :
          devices_collection' = [devices_collection EXCEPT ![d] = NULL]
    BY <1>4 DEF DeleteDevice
  <2>2. /\ {d} \in SUBSET DeviceIds /\ {d} \subseteq Live
        /\ devices_collection' = [e \in DeviceIds |->
                                   IF e \in {d} THEN NULL
                                   ELSE devices_collection[e]]
    BY <1>1, <2>1 DEF Live
  <2> QED BY <1>4, <2>2 DEF DeleteDevice, Deletes
<1>5. CASE PurgeDelete(h)
  <2>1. /\ DevicesOf(local[h].networkId) \in SUBSET DeviceIds
        /\ DevicesOf(local[h].networkId) \subseteq Live
    BY DEF DevicesOf, Live
  <2> QED BY <1>5, <2>1 DEF PurgeDelete, Deletes
<1> QED
  BY <1>2, <1>3, <1>4, <1>5
     DEF RequestNext, AdoptNext, EditNext, DeleteNext, NetworkNext, ProfileNext,
         AdoptDevice, AdoptCheck, AdoptFind, AdoptProfile, AdoptUnique,
         AdoptTarget, AdoptPush, EditDevice, EditMatch, EditNetworkCheck,
         EditProfileCheck, EditMacCheck, EditIpCheck, EditLock, DeleteFind,
         DeletePull, EditNetwork, NetworkWrite, DeleteNetwork, PurgeFind,
         DeleteProfile, ProfileClear, db

\* Under the mapping an insertion is an adoption, a deletion a removal, and a
\* rewriting of a document a stutter.
LEMMA LifecycleStep ==
  ASSUME TypeInv,
         \/ UNCHANGED <<devices_collection, inserted>>
         \/ Inserts
         \/ \E S \in SUBSET DeviceIds : Deletes(S)
         \/ Rewrites
  PROVE  Lifecycle!Next \/ UNCHANGED StatusOf
<1>1. /\ devices_collection \in [DeviceIds -> Optional(Device)]
      /\ inserted \in 0..MaxDevices /\ MaxDevices \in Nat
      /\ FreshIds /\ NULL \notin Device
  BY RegistryAssumption DEF TypeInv, TypeOK
<1>2. CASE UNCHANGED <<devices_collection, inserted>>
  BY <1>2 DEF StatusOf
<1>3. CASE Inserts
  <2>1. PICK new \in DeviceIds, doc \in Device :
          /\ new = inserted + 1
          /\ devices_collection' = [devices_collection EXCEPT ![new] = doc]
    BY <1>3 DEF Inserts
  <2>2. StatusOf[new] = "unborn"
    BY <1>1, <2>1 DEF StatusOf
  <2>3. StatusOf' = [StatusOf EXCEPT ![new] = "live"]
    <3>1. ASSUME NEW d \in DeviceIds
          PROVE  StatusOf'[d] = IF d = new THEN "live" ELSE StatusOf[d]
      BY <1>1, <1>3, <2>1 DEF Inserts, StatusOf, DeviceIds
    <3> QED BY <3>1 DEF StatusOf
  <2>4. Lifecycle!Adopt(new)
    BY <2>2, <2>3 DEF Lifecycle!Adopt, StatusOf
  <2> QED BY <2>4 DEF Lifecycle!Next
<1>4. ASSUME NEW S \in SUBSET DeviceIds, Deletes(S)
      PROVE  Lifecycle!Next
  <2>1. \A d \in S : StatusOf[d] = "live"
    BY <1>1, <1>4 DEF Deletes, StatusOf, Live, FreshIds
  <2>2. StatusOf' = [d \in DeviceIds |-> IF d \in S THEN "gone" ELSE StatusOf[d]]
    <3>1. ASSUME NEW d \in DeviceIds
          PROVE  StatusOf'[d] = IF d \in S THEN "gone" ELSE StatusOf[d]
      BY <1>1, <1>4 DEF Deletes, StatusOf, Live, FreshIds
    <3> QED BY <3>1 DEF StatusOf
  <2>3. Lifecycle!Remove(S)
    BY <2>1, <2>2 DEF Lifecycle!Remove, StatusOf
  <2> QED BY <2>3 DEF Lifecycle!Next
<1>5. CASE Rewrites
  BY <1>1, <1>5 DEF Rewrites, StatusOf, Live
<1> QED BY <1>2, <1>3, <1>4, <1>5

\* At the start a device is live or not yet born.
LEMMA LifecycleInit == Init => Lifecycle!Init
<1> SUFFICES ASSUME Init PROVE Lifecycle!Init
  OBVIOUS
<1>1. \A d \in 1..Len(InitialDevices) : InitialDevices[d] # NULL
  BY RegistryAssumption
<1>2. ASSUME NEW d \in DeviceIds
      PROVE  StatusOf[d] = IF d \in 1..Len(InitialDevices)
                           THEN "live" ELSE "unborn"
  BY <1>1, RegistryAssumption DEF Init, StatusOf, DeviceIds
<1> QED BY <1>2 DEF Lifecycle!Init, StatusOf

\* However requests interleave, a device record is adopted once, may be removed,
\* and is never brought back by the late write of another request.
THEOREM LifecycleRefined == Spec => LifecycleSpec
<1>1. TypeInv /\ [Next]_vars => [Lifecycle!Next]_StatusOf
  <2> SUFFICES ASSUME TypeInv, [Next]_vars
               PROVE  Lifecycle!Next \/ UNCHANGED StatusOf
    OBVIOUS
  <2>1. CASE ArpScan \/ UNCHANGED vars
    BY <2>1 DEF ArpScan, vars, db, StatusOf
  <2>2. ASSUME NEW h \in Handlers, RequestNext(h)
        PROVE  Lifecycle!Next \/ UNCHANGED StatusOf
    BY <2>2, DevicesStep, LifecycleStep
  <2> QED BY <2>1, <2>2 DEF Next
<1> QED
  BY <1>1, LifecycleInit, TypeInvariant, PTL
     DEF Spec, LifecycleSpec, Lifecycle!Spec, StatusOf

-----------------------------------------------------------------------------
(* A deleted network stays deleted.                                        *)

\* A step of a request writes the list of a network only where the network's
\* document is there.
THEOREM NetworksStayDeleted == Spec => DeletedNetworkStaysDeleted
<1> DEFINE Stays == \A n \in NetworkIds :
                      networks_collection[n] = NULL => networks_collection'[n] = NULL
<1>1. TypeInv /\ [Next]_vars => Stays
  <2> SUFFICES ASSUME TypeInv, [Next]_vars, NEW n \in NetworkIds,
                      networks_collection[n] = NULL
               PROVE  networks_collection'[n] = NULL
    OBVIOUS
  <2>1. networks_collection \in [NetworkIds -> Optional(SUBSET Entry)]
    BY DEF TypeInv, TypeOK
  <2>2. CASE ArpScan \/ UNCHANGED vars
    BY <2>2 DEF ArpScan, vars, db
  <2>3. ASSUME NEW h \in Handlers, RequestNext(h)
        PROVE  networks_collection'[n] = NULL
    <3>1. CASE AdoptPush(h)
      BY <2>1, <3>1 DEF AdoptPush, LiveNetworks
    <3>2. CASE DeletePull(h)
      BY <2>1, <3>2 DEF DeletePull, LiveNetworks
    <3>3. CASE NetworkWrite(h)
      BY <2>1, <3>3 DEF NetworkWrite, LiveNetworks
    <3>4. CASE DeleteNetwork(h)
      BY <2>1, <3>4 DEF DeleteNetwork, LiveNetworks
    <3>5. CASE UNCHANGED networks_collection
      BY <3>5
    <3> QED
      BY <2>3, <3>1, <3>2, <3>3, <3>4, <3>5
         DEF RequestNext, AdoptNext, EditNext, DeleteNext, NetworkNext, ProfileNext,
             AdoptDevice, AdoptCheck, AdoptFind, AdoptProfile, AdoptUnique,
             AdoptInsert, AdoptTarget, EditDevice, EditMatch, EditNetworkCheck,
             EditProfileCheck, EditMacCheck, EditIpCheck, EditLock, EditWrite,
             DeleteDevice, DeleteFind, EditNetwork, PurgeFind, PurgeDelete,
             DeleteProfile, ProfileClear, db
  <2> QED BY <2>2, <2>3 DEF Next
<1> QED BY <1>1, TypeInvariant, PTL DEF Spec, DeletedNetworkStaysDeleted

-----------------------------------------------------------------------------
(* A device is listed once.                                                *)

\* Adoptions that have stored their device and have yet to list it.
Adopting == {h \in Handlers : pc[h] \in {"adopt_target", "adopt_push"}}

\* The stored lists, and those that edits of networks have read and will write
\* back, each with its network.
Lists ==
  {[network |-> n, list |-> networks_collection[n]] : n \in LiveNetworks} \cup
  {[network |-> local[h].networkId, list |-> local[h].list] :
     h \in {g \in Handlers : pc[g] = "network_write"}}

\* Every list of a device, stored or in flight, is of one network; a device is
\* in a list once; and one whose adoption is not complete is in no list.
ListInv ==
  /\ \A s, t \in Lists : \A e \in s.list, f \in t.list :
       e.device = f.device => s.network = t.network
  /\ \A s \in Lists : \A e, f \in s.list : e.device = f.device => e = f
  /\ \A s \in Lists : \A e \in s.list : e.device <= inserted
  /\ \A h \in Adopting :
       /\ local[h].device <= inserted
       /\ \A s \in Lists : \A e \in s.list : e.device # local[h].device
  /\ \A g, h \in Adopting : local[g].device = local[h].device => g = h

AsStrings(list) == {[device |-> e.device, kind |-> "str"] : e \in list}

\* A step after which every list is part of an earlier one of the same network,
\* or has its ids as strings, and which begins no adoption, keeps ListInv.
LEMMA NothingListed ==
  ASSUME ListInv, TypeInv, inserted' \in Nat, inserted <= inserted',
         \A t \in Lists' : \E s \in Lists :
           /\ s.network = t.network
           /\ t.list \subseteq s.list \/ t.list = AsStrings(s.list),
         \A h \in Adopting' : h \in Adopting /\ local'[h].device = local[h].device
  PROVE  ListInv'
<1>1. \A s \in Lists : s.list \subseteq Entry
  BY DEF Lists, TypeInv, TypeOK, Optional, LiveNetworks, Locals
<1>2. ASSUME NEW t \in Lists'
      PROVE  \E s \in Lists :
               /\ s.network = t.network
               /\ \A e \in t.list : \E f \in s.list : f.device = e.device
               /\ \A e, f \in t.list : e.device = f.device => e = f
  <2>1. PICK s \in Lists :
          /\ s.network = t.network
          /\ t.list \subseteq s.list \/ t.list = AsStrings(s.list)
    OBVIOUS
  <2>2. CASE t.list \subseteq s.list
    BY <2>1, <2>2 DEF ListInv
  <2>3. CASE t.list = AsStrings(s.list)
    BY <2>1, <2>3 DEF AsStrings
  <2> QED BY <2>1, <2>2, <2>3
<1>3. \A s, t \in Lists' : \A e \in s.list, f \in t.list :
        e.device = f.device => s.network = t.network
  <2> SUFFICES ASSUME NEW s \in Lists', NEW t \in Lists',
                      NEW e \in s.list, NEW f \in t.list, e.device = f.device
               PROVE  s.network = t.network
    OBVIOUS
  <2>1. PICK s1 \in Lists :
          s1.network = s.network /\ \E e1 \in s1.list : e1.device = e.device
    BY <1>2
  <2>2. PICK t1 \in Lists :
          t1.network = t.network /\ \E f1 \in t1.list : f1.device = f.device
    BY <1>2
  <2> QED BY <2>1, <2>2 DEF ListInv
<1>4. ASSUME NEW s \in Lists', NEW e \in s.list
      PROVE  /\ e.device <= inserted'
             /\ \A h \in Adopting' : e.device # local'[h].device
  <2>1. PICK s1 \in Lists : \E f \in s1.list : f.device = e.device
    BY <1>2
  <2>2. PICK e1 \in s1.list : e1.device = e.device
    BY <2>1
  <2>3. e1.device \in Nat /\ inserted \in Nat
    BY <1>1, RegistryAssumption DEF Entry, DeviceIds, TypeInv, TypeOK
  <2> QED BY <2>2, <2>3 DEF ListInv
<1>5. ASSUME NEW h \in Adopting'
      PROVE  local'[h].device <= inserted'
  <2>1. h \in Adopting /\ local'[h].device = local[h].device
    OBVIOUS
  <2>2. local[h].device \in Nat /\ inserted \in Nat
    BY <2>1, RegistryAssumption
       DEF Adopting, TypeInv, TypeOK, LocalsOK, LocalsFor, ListSteps, DeviceIds
  <2> QED BY <2>1, <2>2 DEF ListInv
<1>6. \A g, h \in Adopting' : local'[g].device = local'[h].device => g = h
  BY DEF ListInv
<1> HIDE DEF Lists, Adopting
<1> QED BY <1>2, <1>3, <1>4, <1>5, <1>6 DEF ListInv

Unlisted == {"network_write", "adopt_target", "adopt_push"}

\* What a request may do to the lists.  Only an adoption that stores its device
\* begins to list it, and only its last step adds it to a list.
LEMMA ListsStep ==
  ASSUME TypeInv, NEW h \in Handlers, RequestNext(h)
  PROVE  \/ /\ pc'[h] \notin Unlisted
            /\ \A n \in LiveNetworks' :
                 /\ n \in LiveNetworks
                 /\ \/ networks_collection'[n] \subseteq networks_collection[n]
                    \/ /\ pc[h] = "network_write" /\ local[h].networkId = n
                       /\ networks_collection'[n] = AsStrings(local[h].list)
         \/ /\ networks_collection' = networks_collection
            /\ pc'[h] = "network_write"
            /\ local'[h].networkId \in LiveNetworks
            /\ local'[h].list = networks_collection[local'[h].networkId]
         \/ /\ networks_collection' = networks_collection
            /\ pc'[h] = "adopt_target"
            /\ inserted' = inserted + 1 /\ local'[h].device = inserted + 1
         \/ /\ networks_collection' = networks_collection
            /\ pc[h] = "adopt_target" /\ pc'[h] = "adopt_push"
            /\ local'[h] = local[h]
         \/ AdoptPush(h) /\ pc'[h] = "idle"
<1>1. /\ pc \in [Handlers -> Steps] /\ local \in [Handlers -> Locals]
      /\ networks_collection \in [NetworkIds -> Optional(SUBSET Entry)]
  BY DEF TypeInv, TypeOK
<1>2. ASSUME NEW next, NEW l, Step(h, next, l)
      PROVE  pc'[h] = next /\ local'[h] = l
  BY <1>1, <1>2 DEF Step
<1>3. \A next : Goto(h, next) => pc'[h] = next /\ local'[h] = local[h]
  BY <1>2 DEF Goto
<1>4. Reply(h) => pc'[h] = "idle"
  BY <1>2 DEF Reply
<1>5. ASSUME networks_collection' = networks_collection, pc'[h] \notin Unlisted
      PROVE  /\ pc'[h] \notin Unlisted
             /\ \A n \in LiveNetworks' :
                 /\ n \in LiveNetworks
                 /\ networks_collection'[n] \subseteq networks_collection[n]
  BY <1>5 DEF LiveNetworks
<1>6. CASE AdoptNext(h)
  <2>1. CASE AdoptDevice(h) \/ AdoptFind(h)
    <3>1. networks_collection' = networks_collection /\ pc'[h] \notin Unlisted
      BY <2>1, FilledSteps DEF AdoptDevice, AdoptFind, db, Unlisted
    <3> QED BY <1>5, <3>1
  <2>2. CASE AdoptCheck(h) \/ AdoptProfile(h) \/ AdoptUnique(h)
    <3>1. networks_collection' = networks_collection /\ pc'[h] \notin Unlisted
      BY <1>3, <1>4, <2>2 DEF AdoptCheck, AdoptProfile, AdoptUnique, db, Unlisted
    <3> QED BY <1>5, <3>1
  <2>3. CASE AdoptInsert(h)
    <3> DEFINE l == [local[h] EXCEPT !.device = inserted + 1]
    <3>1. networks_collection' = networks_collection /\ inserted' = inserted + 1
      BY <2>3 DEF AdoptInsert
    <3>2. CASE Reply(h)
      BY <1>4, <1>5, <3>1, <3>2 DEF Unlisted
    <3>3. CASE Step(h, "adopt_target", l)
      <4>1. local'[h] = l /\ pc'[h] = "adopt_target"
        BY <1>2, <3>3
      <4>2. l.device = inserted + 1
        BY <1>1 DEF Locals
      <4> QED BY <3>1, <4>1, <4>2
    <3> QED BY <2>3, <3>2, <3>3 DEF AdoptInsert
  <2>4. CASE AdoptTarget(h)
    BY <1>3, <1>4, <1>5, <2>4 DEF AdoptTarget, db, Unlisted
  <2>5. CASE AdoptPush(h)
    BY <1>4, <2>5 DEF AdoptPush
  <2> QED BY <1>6, <2>1, <2>2, <2>3, <2>4, <2>5 DEF AdoptNext
<1>7. CASE EditNext(h)
  <2>1. networks_collection' = networks_collection
    BY <1>7 DEF EditNext, EditDevice, EditMatch, EditNetworkCheck, EditProfileCheck,
                EditMacCheck, EditIpCheck, EditLock, EditWrite, db
  <2>2. CASE EditDevice(h)
    BY <1>5, <2>1, <2>2, FilledSteps DEF Unlisted
  <2>3. CASE EditMatch(h) \/ EditNetworkCheck(h) \/ EditProfileCheck(h)
               \/ EditMacCheck(h) \/ EditIpCheck(h) \/ EditLock(h) \/ EditWrite(h)
    <3>1. pc'[h] \notin Unlisted
      BY <1>3, <1>4, <2>3
         DEF EditMatch, EditNetworkCheck, EditProfileCheck, EditMacCheck,
             EditIpCheck, EditLock, EditWrite, Unlisted
    <3> QED BY <1>5, <2>1, <3>1
  <2> QED BY <1>7, <2>2, <2>3 DEF EditNext
<1>8. CASE DeleteNext(h) \/ ProfileNext(h)
  <2>1. CASE DeleteDevice(h) \/ DeleteProfile(h)
    BY <1>5, <2>1, FilledSteps DEF DeleteDevice, DeleteProfile, Unlisted
  <2>2. CASE DeleteFind(h) \/ ProfileClear(h)
    BY <1>3, <1>4, <1>5, <2>2 DEF DeleteFind, ProfileClear, db, Unlisted
  <2>3. CASE DeletePull(h)
    <3>1. pc'[h] \notin Unlisted
      BY <1>4, <2>3 DEF DeletePull, Unlisted
    <3> QED BY <1>1, <2>3, <3>1 DEF DeletePull, LiveNetworks
  <2> QED BY <1>8, <2>1, <2>2, <2>3 DEF DeleteNext, ProfileNext
<1>9. CASE NetworkNext(h)
  <2>1. CASE EditNetwork(h)
    <3>1. PICK n \in LiveNetworks :
            Step(h, "network_write", [NoLocals EXCEPT !.networkId = n,
                                        !.list = networks_collection[n]])
      BY <2>1 DEF EditNetwork
    <3> DEFINE l == [NoLocals EXCEPT !.networkId = n,
                                     !.list = networks_collection[n]]
    <3>2. local'[h] = l /\ pc'[h] = "network_write"
      BY <1>2, <3>1
    <3>3. l.networkId = n /\ l.list = networks_collection[n]
      BY DEF NoLocals
    <3>4. networks_collection' = networks_collection
      BY <2>1 DEF EditNetwork, db
    <3> QED BY <3>2, <3>3, <3>4
  <2>2. CASE NetworkWrite(h)
    <3>1. pc'[h] \notin Unlisted /\ pc[h] = "network_write"
      BY <1>4, <2>2 DEF NetworkWrite, Unlisted
    <3>2. networks_collection' =
            IF local[h].networkId \in LiveNetworks
            THEN [networks_collection EXCEPT
                    ![local[h].networkId] = AsStrings(local[h].list)]
            ELSE networks_collection
      BY <2>2 DEF NetworkWrite, AsStrings
    <3> QED BY <1>1, <3>1, <3>2 DEF LiveNetworks
  <2>3. CASE DeleteNetwork(h)
    <3>1. pc'[h] \notin Unlisted
      BY <2>3, FilledSteps DEF Unlisted
    <3> QED BY <1>1, <2>3, <3>1 DEF DeleteNetwork, LiveNetworks
  <2>4. CASE PurgeFind(h) \/ PurgeDelete(h)
    BY <1>3, <1>4, <1>5, <2>4 DEF PurgeFind, PurgeDelete, db, Unlisted
  <2> QED BY <1>9, <2>1, <2>2, <2>3, <2>4 DEF NetworkNext
<1> QED BY <1>6, <1>7, <1>8, <1>9 DEF RequestNext

\* Ids are given out one by one, and only by the step that stores a device.
LEMMA InsertedStep ==
  ASSUME TypeInv, NEW h \in Handlers, RequestNext(h)
  PROVE  inserted' \in Nat /\ inserted <= inserted'
<1>1. inserted \in Nat
  BY RegistryAssumption DEF TypeInv, TypeOK
<1> QED BY <1>1, DevicesStep DEF Inserts, Deletes, Rewrites

\* A step of a request lists a device at most where its adoption does.
LEMMA ListInvStep ==
  ASSUME TypeInv, ListInv, NEW h \in Handlers, RequestNext(h)
  PROVE  ListInv'
<1>1. inserted \in Nat /\ inserted' \in Nat /\ inserted <= inserted'
  <2>1. inserted \in Nat
    BY RegistryAssumption DEF TypeInv, TypeOK
  <2> QED BY <2>1, InsertedStep
<1>2. \A g \in Handlers \ {h} : pc'[g] = pc[g] /\ local'[g] = local[g]
  BY OthersStay
<1>3. ASSUME NEW n \in LiveNetworks
      PROVE  \E s \in Lists : s.network = n /\ s.list = networks_collection[n]
  <2>1. [network |-> n, list |-> networks_collection[n]] \in Lists
    BY DEF Lists
  <2> QED BY <2>1
<1>4. ASSUME NEW t \in Lists'
      PROVE  \/ \E n \in LiveNetworks' :
                  t.network = n /\ t.list = networks_collection'[n]
             \/ t \in Lists
             \/ pc'[h] = "network_write" /\ t.network = local'[h].networkId
                 /\ t.list = local'[h].list
  BY <1>2 DEF Lists
<1>5. ASSUME pc'[h] \notin {"adopt_target", "adopt_push"}, NEW g \in Adopting'
      PROVE  g \in Adopting /\ local'[g].device = local[g].device
  BY <1>2, <1>5 DEF Adopting
<1>6. CASE /\ pc'[h] \notin Unlisted
           /\ \A n \in LiveNetworks' :
                /\ n \in LiveNetworks
                /\ \/ networks_collection'[n] \subseteq networks_collection[n]
                   \/ /\ pc[h] = "network_write" /\ local[h].networkId = n
                      /\ networks_collection'[n] = AsStrings(local[h].list)
  <2>1. ASSUME NEW t \in Lists'
        PROVE  \E s \in Lists :
                 /\ s.network = t.network
                 /\ t.list \subseteq s.list \/ t.list = AsStrings(s.list)
    <3>1. CASE t \in Lists
      BY <3>1
    <3>2. ASSUME NEW n \in LiveNetworks', t.network = n,
                 t.list = networks_collection'[n]
          PROVE  \E s \in Lists :
                   /\ s.network = t.network
                   /\ t.list \subseteq s.list \/ t.list = AsStrings(s.list)
      <4>1. CASE networks_collection'[n] \subseteq networks_collection[n]
        BY <1>3, <1>6, <3>2, <4>1
      <4>2. CASE /\ pc[h] = "network_write" /\ local[h].networkId = n
                 /\ networks_collection'[n] = AsStrings(local[h].list)
        <5>1. [network |-> local[h].networkId, list |-> local[h].list] \in Lists
          BY <4>2 DEF Lists
        <5> QED BY <3>2, <4>2, <5>1
      <4> QED BY <1>6, <4>1, <4>2
    <3> QED BY <1>4, <1>6, <3>1, <3>2 DEF Unlisted
  <2>2. pc'[h] \notin {"adopt_target", "adopt_push"}
    BY <1>6 DEF Unlisted
  <2> QED BY <1>1, <1>5, <2>1, <2>2, NothingListed
<1>7. CASE /\ networks_collection' = networks_collection
           /\ pc'[h] = "network_write"
           /\ local'[h].networkId \in LiveNetworks
           /\ local'[h].list = networks_collection[local'[h].networkId]
  <2>1. ASSUME NEW t \in Lists'
        PROVE  \E s \in Lists : s.network = t.network /\ t.list = s.list
    BY <1>3, <1>4, <1>7 DEF LiveNetworks
  <2>2. pc'[h] \notin {"adopt_target", "adopt_push"}
    BY <1>7
  <2> QED BY <1>1, <1>5, <2>1, <2>2, NothingListed
<1>8. CASE /\ networks_collection' = networks_collection
           /\ pc'[h] \in {"adopt_target", "adopt_push"}
  <2>1. ASSUME NEW t \in Lists'
        PROVE  \E s \in Lists : s.network = t.network /\ t.list = s.list
    BY <1>3, <1>4, <1>8 DEF LiveNetworks
  <2>2. CASE pc[h] = "adopt_target" /\ local'[h] = local[h]
    <3>1. \A g \in Adopting' : g \in Adopting /\ local'[g].device = local[g].device
      BY <1>2, <2>2 DEF Adopting
    <3> QED BY <1>1, <2>1, <3>1, NothingListed
  <2>3. CASE inserted' = inserted + 1 /\ local'[h].device = inserted + 1
    <3>1. \A s \in Lists : s.list \subseteq Entry
      BY DEF Lists, TypeInv, TypeOK, Optional, LiveNetworks, Locals
    <3>2. ASSUME NEW g \in Adopting', g # h
          PROVE  /\ g \in Adopting /\ local'[g].device = local[g].device
                 /\ local[g].device \in Nat /\ local[g].device <= inserted
      BY <1>2, <3>2, RegistryAssumption
         DEF Adopting, ListInv, TypeInv, LocalsOK, LocalsFor, ListSteps, DeviceIds
    <3>3. /\ \A s, t \in Lists' : \A e \in s.list, f \in t.list :
               e.device = f.device => s.network = t.network
          /\ \A s \in Lists' : \A e, f \in s.list : e.device = f.device => e = f
      BY <2>1 DEF ListInv
    <3>4. ASSUME NEW s \in Lists', NEW e \in s.list
          PROVE  /\ e.device \in Nat /\ e.device <= inserted
                 /\ \A g \in Adopting : e.device # local[g].device
      BY <2>1, <3>1, RegistryAssumption DEF ListInv, Entry, DeviceIds
    <3>5. ASSUME NEW g \in Adopting'
          PROVE  /\ local'[g].device <= inserted'
                 /\ \A s \in Lists' : \A e \in s.list : e.device # local'[g].device
      BY <1>1, <2>3, <3>2, <3>4
    <3>6. \A f, g \in Adopting' : local'[f].device = local'[g].device => f = g
      BY <1>1, <2>3, <3>2 DEF ListInv
    <3>7. \A s \in Lists' : \A e \in s.list : e.device <= inserted'
      BY <1>1, <3>4
    <3> HIDE DEF Lists, Adopting
    <3> QED BY <3>3, <3>5, <3>6, <3>7 DEF ListInv
  <2> QED BY <1>8, <2>2, <2>3, ListsStep DEF Unlisted
<1>9. CASE AdoptPush(h) /\ pc'[h] = "idle"
  <2> DEFINE d == local[h].device
             n == local[h].networkId
             entry == [device |-> d, kind |-> "oid"]
             From(s, t) == /\ s.network = t.network
                           /\ \/ t.list \subseteq s.list
                              \/ t.list = s.list \cup {entry} /\ t.network = n
  <2>1. h \in Adopting
    BY <1>9 DEF AdoptPush, Adopting
  <2>2. ASSUME NEW t \in Lists'
        PROVE  \E s \in Lists : From(s, t)
    <3>1. CASE t \in Lists
      <4>1. From(t, t)
        OBVIOUS
      <4> HIDE DEF From
      <4> QED BY <3>1, <4>1
    <3>2. ASSUME NEW m \in LiveNetworks', t.network = m,
                 t.list = networks_collection'[m]
          PROVE  \E s \in Lists : From(s, t)
      <4>1. networks_collection \in [NetworkIds -> Optional(SUBSET Entry)]
        BY DEF TypeInv, TypeOK
      <4>2. /\ m \in LiveNetworks
            /\ \/ t.list = networks_collection[m]
               \/ t.list = networks_collection[m] \cup {entry} /\ m = n
        BY <1>9, <3>2, <4>1 DEF AdoptPush, LiveNetworks
      <4>3. PICK s \in Lists : s.network = m /\ s.list = networks_collection[m]
        BY <1>3, <4>2
      <4>4. From(s, t)
        BY <3>2, <4>2, <4>3
      <4> QED BY <4>3, <4>4
    <3> HIDE DEF From
    <3> QED BY <1>4, <1>9, <3>1, <3>2
  <2>3. \A s \in Lists : \A e \in s.list : e.device # d
    BY <2>1 DEF ListInv
  <2>4. ASSUME NEW t \in Lists', NEW e \in t.list
        PROVE  \/ \E s \in Lists : s.network = t.network /\ e \in s.list
               \/ e = entry /\ t.network = n
    BY <2>2
  <2>5. \A s, t \in Lists' : \A e \in s.list, f \in t.list :
          e.device = f.device => s.network = t.network
    <3> SUFFICES ASSUME NEW s \in Lists', NEW t \in Lists', NEW e \in s.list,
                        NEW f \in t.list, e.device = f.device
                 PROVE  s.network = t.network
      OBVIOUS
    <3>1. CASE e = entry \/ f = entry
      BY <2>3, <2>4, <3>1
    <3>2. CASE e # entry /\ f # entry
      BY <2>4, <3>2 DEF ListInv
    <3> QED BY <3>1, <3>2
  <2>6. \A s \in Lists' : \A e, f \in s.list : e.device = f.device => e = f
    <3> SUFFICES ASSUME NEW t \in Lists', NEW e \in t.list, NEW f \in t.list,
                        e.device = f.device
                 PROVE  e = f
      OBVIOUS
    <3>1. PICK s \in Lists : t.list \subseteq s.list \cup {entry}
      BY <2>2
    <3> QED BY <2>3, <3>1 DEF ListInv
  <2>7. ASSUME NEW g \in Adopting'
        PROVE  g \in Adopting /\ local'[g].device = local[g].device /\ g # h
    BY <1>2, <1>9 DEF Adopting
  <2>8. inserted' = inserted
    BY <1>9 DEF AdoptPush
  <2>9. \A s \in Lists' : \A e \in s.list :
          /\ e.device <= inserted'
          /\ \A g \in Adopting' : e.device # local'[g].device
    BY <2>1, <2>4, <2>7, <2>8 DEF ListInv
  <2>10. /\ \A g \in Adopting' : local'[g].device <= inserted'
         /\ \A f, g \in Adopting' : local'[f].device = local'[g].device => f = g
    BY <2>7, <2>8 DEF ListInv
  <2> HIDE DEF Lists, Adopting
  <2> QED BY <2>5, <2>6, <2>9, <2>10 DEF ListInv
<1> QED
  BY <1>6, <1>7, <1>8, <1>9, ListsStep

\* At the start the lists of all networks are empty.
LEMMA ListInvInit == Init => ListInv
<1> SUFFICES ASSUME Init PROVE ListInv
  OBVIOUS
<1>1. Adopting = {}
  BY DEF Init, Adopting
<1>2. ASSUME NEW s \in Lists
      PROVE  /\ \A e \in s.list : /\ e.kind = "oid" /\ e \in Entry
                                  /\ e.device <= inserted
                                  /\ InitialDevices[e.device].networkId = s.network
  BY DEF Init, Lists, LiveNetworks
<1>3. \A s \in Lists : \A e, f \in s.list : e.device = f.device => e = f
  BY <1>2 DEF Entry
<1>4. \A s, t \in Lists : \A e \in s.list, f \in t.list :
        e.device = f.device => s.network = t.network
  BY <1>2
<1> HIDE DEF Lists, Adopting
<1> QED BY <1>1, <1>2, <1>3, <1>4 DEF ListInv

\* Over the lists of all networks a device is listed at most once, in one form
\* or the other, however adoptions, deletions and edits of networks that write
\* back lists read earlier interleave.
THEOREM DevicesListedOnce == Spec => []ListedOnce
<1>1. TypeInv /\ ListInv /\ [Next]_vars => ListInv'
  <2> SUFFICES ASSUME TypeInv, ListInv, [Next]_vars PROVE ListInv'
    OBVIOUS
  <2>1. CASE ArpScan \/ UNCHANGED vars
    BY <2>1 DEF ArpScan, vars, db, ListInv, Lists, LiveNetworks, Adopting
  <2> QED BY <2>1, ListInvStep DEF Next
<1>2. ListInv => ListedOnce
  <2> SUFFICES ASSUME ListInv, NEW n \in LiveNetworks, NEW m \in LiveNetworks,
                      NEW e \in networks_collection[n],
                      NEW f \in networks_collection[m], e.device = f.device
               PROVE  n = m /\ e = f
    BY DEF ListedOnce
  <2>1. /\ [network |-> n, list |-> networks_collection[n]] \in Lists
        /\ [network |-> m, list |-> networks_collection[m]] \in Lists
    BY DEF Lists
  <2>2. n = m
    BY <2>1 DEF ListInv
  <2> QED BY <2>1, <2>2 DEF ListInv
<1> QED BY <1>1, <1>2, ListInvInit, TypeInvariant, PTL DEF Spec

-----------------------------------------------------------------------------
(* Requests that do not overlap.                                           *)

\* No stored device has the value in the field.
Free(field, value) == \A d \in Live : devices_collection[d][field] # value

\* What the checks of a handler have established by the time it is at a step,
\* as long as nothing else runs in between: the document it read is the stored
\* one, the values it will store are free, and its network is there.
Checked(step, l) ==
  /\ step \in {"adopt_mac", "adopt_ip", "adopt_insert"}
       => Free("name", NameAt[l.ip_address])
  /\ step \in {"adopt_ip", "adopt_insert"} => Free("mac_address", l.mac_address)
  /\ step = "adopt_insert" => Free("ip_address", l.ip_address)
  /\ step \in EditSteps => l.device \in Live /\ devices_collection[l.device] = l.read
  /\ step \in {"edit_ip", "edit_lock", "edit_write"} /\ MacChanged(l)
       => Free("mac_address", l.mac_address)
  /\ step \in {"edit_lock", "edit_write"} /\ IpChanged(l)
       => Free("ip_address", l.ip_address)
  /\ step \in AdoptSteps \cup {"adopt_target", "adopt_push"}
              \cup {"edit_profile", "edit_mac", "edit_ip", "edit_lock", "edit_write"}
       => l.networkId \in Optional(LiveNetworks)

Purging(d) == \E h \in Handlers :
                /\ pc[h] \in {"purge_find", "purge_delete"}
                /\ devices_collection[d].networkId = local[h].networkId

SerialInv ==
  /\ UniqueDevices
  /\ \A h \in Handlers : Checked(pc[h], local[h])
  /\ \A d \in Live : devices_collection[d].networkId \in Optional(LiveNetworks)
                     \/ Purging(d)

\* UniqueDevices, field by field.
LEMMA UniqueFields ==
  ASSUME TypeInv
  PROVE  UniqueDevices <=>
           \A d, e \in Live :
             \/ devices_collection[d].mac_address = devices_collection[e].mac_address
             \/ devices_collection[d].ip_address = devices_collection[e].ip_address
             \/ devices_collection[d].name = devices_collection[e].name
             => d = e
  BY DEF UniqueDevices

\* Without a write to the documents, what was checked stays checked.
LEMMA CheckedKept ==
  ASSUME NEW step, NEW l, Checked(step, l),
         UNCHANGED devices_collection, LiveNetworks' = LiveNetworks
  PROVE  Checked(step, l)'
  BY DEF Checked, Free, Live, MacChanged, IpChanged

\* A step that moves on what was checked, and writes nothing that matters.
LEMMA SerialMove ==
  ASSUME TypeInv, SerialInv, NEW h \in Handlers, Handlers = {h},
         NEW next, NEW l, Step(h, next, l), Checked(next, l),
         UNCHANGED devices_collection, LiveNetworks' = LiveNetworks,
         \/ pc[h] \notin {"purge_find", "purge_delete"}
         \/ next = "purge_delete" /\ local'[h] = local[h]
         \/ DevicesOf(local[h].networkId) = {}
  PROVE  SerialInv'
<1>1. pc \in [Handlers -> Steps] /\ local \in [Handlers -> Locals]
  BY DEF TypeInv, TypeOK
<1>2. pc'[h] = next /\ local'[h] = l
  BY <1>1 DEF Step
<1>3. (\A g \in Handlers : Checked(pc[g], local[g]))'
  <2>1. Checked(next, l)'
    BY CheckedKept
  <2> QED BY <1>2, <2>1 DEF Checked, Free, MacChanged, IpChanged
<1>4. Live' = Live /\ UniqueDevices'
  BY DEF SerialInv, UniqueDevices, Live
<1>5. ASSUME NEW d \in Live'
      PROVE  devices_collection'[d].networkId \in Optional(LiveNetworks') \/ Purging(d)'
  BY <1>2, <1>4 DEF SerialInv, Purging, DevicesOf
<1> QED BY <1>3, <1>4, <1>5 DEF SerialInv

\* A reply ends a request; nothing is left to be checked.
LEMMA SerialReply ==
  ASSUME TypeInv, SerialInv, NEW h \in Handlers, Handlers = {h}, Reply(h),
         UNCHANGED devices_collection, LiveNetworks' = LiveNetworks,
         \/ pc[h] \notin {"purge_find", "purge_delete"}
         \/ DevicesOf(local[h].networkId) = {}
  PROVE  SerialInv'
<1>1. Checked("idle", NoLocals)
  BY DEF Checked, EditSteps, AdoptSteps
<1> QED BY <1>1, SerialMove DEF Reply

\* A handler that keeps its local variables.
LEMMA SerialGoto ==
  ASSUME TypeInv, SerialInv, NEW h \in Handlers, Handlers = {h},
         NEW next, Goto(h, next), Checked(next, local[h]),
         UNCHANGED devices_collection, LiveNetworks' = LiveNetworks,
         pc[h] \notin {"purge_find", "purge_delete"} \/ next = "purge_delete"
  PROVE  SerialInv'
<1>1. Step(h, next, local[h]) /\ local'[h] = local[h]
  BY DEF Goto, Step, TypeInv, TypeOK
<1> QED BY <1>1, SerialMove

\* A step that writes to the documents or deletes a network leaves little to be
\* checked, besides the collections themselves.
LEMMA SerialWritten ==
  ASSUME TypeInv, NEW h \in Handlers, Handlers = {h}, NEW next, NEW l,
         Step(h, next, l),
         next \in {"idle", "adopt_target", "delete_find", "purge_find"},
         next = "adopt_target" => l.networkId \in Optional(LiveNetworks'),
         UniqueDevices',
         \A d \in Live' :
           \/ devices_collection'[d].networkId \in Optional(LiveNetworks')
           \/ next = "purge_find" /\ devices_collection'[d].networkId = l.networkId
  PROVE  SerialInv'
<1>1. pc'[h] = next /\ local'[h] = l
  BY DEF Step, TypeInv, TypeOK
<1>2. (\A g \in Handlers : Checked(pc[g], local[g]))'
  BY <1>1 DEF Checked, AdoptSteps, EditSteps
<1> QED BY <1>1, <1>2 DEF SerialInv, Purging

\* Adoption: the name, the MAC and the IP found free are the ones inserted.
LEMMA SerialAdopt ==
  ASSUME TypeInv, SerialInv, NEW h \in Handlers, Handlers = {h}, AdoptNext(h)
  PROVE  SerialInv'
<1>1. /\ local[h] \in Locals /\ Checked(pc[h], local[h])
      /\ networks_collection \in [NetworkIds -> Optional(SUBSET Entry)]
  BY DEF TypeInv, TypeOK, SerialInv
<1>2. UNCHANGED db => UNCHANGED devices_collection /\ LiveNetworks' = LiveNetworks
  BY DEF db, LiveNetworks
<1> USE DEF AdoptSteps, EditSteps
<1>3. CASE AdoptDevice(h)
  <2>1. PICK mac \in Optional(Macs), ip \in Optional(Ips),
             net \in Optional(LiveNetworks), profile \in ProfileIds :
          Step(h, "adopt_check",
               [NoLocals EXCEPT !.mac_address = mac, !.ip_address = ip,
                                !.networkId = net, !.profileId = profile])
    BY <1>3 DEF AdoptDevice
  <2> DEFINE l == [NoLocals EXCEPT !.mac_address = mac, !.ip_address = ip,
                                   !.networkId = net, !.profileId = profile]
  <2>2. l.networkId = net
    BY DEF NoLocals
  <2>3. Checked("adopt_check", l)
    BY <2>2 DEF Checked
  <2>4. UNCHANGED db /\ pc[h] = "idle"
    BY <1>3 DEF AdoptDevice, Arrives
  <2> HIDE DEF l
  <2>5. Step(h, "adopt_check", l)
    BY <2>1 DEF l
  <2> QED BY <1>2, <2>3, <2>4, <2>5, SerialMove
<1>4. CASE AdoptCheck(h)
  <2>1. Checked("adopt_find", local[h]) /\ pc[h] = "adopt_check" /\ UNCHANGED db
    BY <1>1, <1>4 DEF AdoptCheck, Checked
  <2> QED BY <1>2, <1>4, <2>1, SerialReply, SerialGoto DEF AdoptCheck
<1>5. CASE AdoptFind(h)
  <2>1. pc[h] = "adopt_find" /\ UNCHANGED db
    BY <1>5 DEF AdoptFind
  <2>2. ASSUME NEW i \in DOMAIN available_devices,
               Step(h, "adopt_profile",
                    [local[h] EXCEPT
                       !.mac_address = available_devices[i].mac_address,
                       !.ip_address = available_devices[i].ip_address])
        PROVE  SerialInv'
    <3> DEFINE l == [local[h] EXCEPT
                       !.mac_address = available_devices[i].mac_address,
                       !.ip_address = available_devices[i].ip_address]
    <3>1. l.networkId = local[h].networkId
      BY <1>1 DEF Locals
    <3>2. Checked("adopt_profile", l)
      BY <1>1, <2>1, <3>1 DEF Checked
    <3> HIDE DEF l
    <3>3. Step(h, "adopt_profile", l)
      BY <2>2 DEF l
    <3> QED BY <1>2, <2>1, <3>2, <3>3, SerialMove
  <2>3. CASE Reply(h)
    BY <1>2, <2>1, <2>3, SerialReply
  <2> QED BY <1>5, <2>2, <2>3 DEF AdoptFind, Matches
<1>6. CASE AdoptProfile(h)
  <2>1. Checked("adopt_name", local[h]) /\ pc[h] = "adopt_profile" /\ UNCHANGED db
    BY <1>1, <1>6 DEF AdoptProfile, Checked
  <2> QED BY <1>2, <1>6, <2>1, SerialReply, SerialGoto DEF AdoptProfile
<1>7. CASE AdoptUnique(h)
  <2>1. UNCHANGED db /\ pc[h] \in {"adopt_name", "adopt_mac", "adopt_ip"}
    BY <1>7 DEF AdoptUnique
  <2>2. CASE Reply(h)
    BY <1>2, <2>1, <2>2, SerialReply
  <2>3. CASE pc[h] = "adopt_name" /\ ~Reply(h)
    <3>1. Goto(h, "adopt_mac") /\ Free("name", NameAt[local[h].ip_address])
      BY <1>7, <2>3 DEF AdoptUnique, Free
    <3>2. Checked("adopt_mac", local[h])
      BY <1>1, <2>3, <3>1 DEF Checked
    <3> QED BY <1>2, <2>1, <3>1, <3>2, SerialGoto
  <2>4. CASE pc[h] = "adopt_mac" /\ ~Reply(h)
    <3>1. Goto(h, "adopt_ip") /\ Free("mac_address", local[h].mac_address)
      BY <1>7, <2>4 DEF AdoptUnique, Free
    <3>2. Checked("adopt_ip", local[h])
      BY <1>1, <2>4, <3>1 DEF Checked
    <3> QED BY <1>2, <2>1, <3>1, <3>2, SerialGoto
  <2>5. CASE pc[h] = "adopt_ip" /\ ~Reply(h)
    <3>1. Goto(h, "adopt_insert") /\ Free("ip_address", local[h].ip_address)
      BY <1>7, <2>5 DEF AdoptUnique, Free
    <3>2. Checked("adopt_insert", local[h])
      BY <1>1, <2>5, <3>1 DEF Checked
    <3> QED BY <1>2, <2>1, <3>1, <3>2, SerialGoto
  <2> QED BY <2>1, <2>2, <2>3, <2>4, <2>5
<1>8. CASE AdoptInsert(h)
  <2> DEFINE new == inserted + 1
             doc == AdoptedDevice(local[h])
             l == [local[h] EXCEPT !.device = new]
  <2>1. /\ pc[h] = "adopt_insert" /\ new \in DeviceIds /\ doc \in Device
        /\ devices_collection' = [devices_collection EXCEPT ![new] = doc]
        /\ networks_collection' = networks_collection
    <3>1. doc \in Device
      BY <1>8, AdoptedDeviceType DEF AdoptInsert, FoundSteps
    <3>2. inserted \in Nat /\ MaxDevices \in Nat
      BY RegistryAssumption DEF TypeInv, TypeOK
    <3> QED BY <1>8, <3>1, <3>2 DEF AdoptInsert, DeviceIds
  <2>2. /\ devices_collection \in [DeviceIds -> Optional(Device)]
        /\ new \notin Live /\ NULL \notin Device
    BY <2>1, RegistryAssumption
       DEF TypeInv, TypeOK, FreshIds, Live, DeviceIds
  <2>3. Live' = Live \cup {new} /\ LiveNetworks' = LiveNetworks
    BY <2>1, <2>2 DEF Live, LiveNetworks
  <2>4. \A d \in Live : /\ devices_collection[d].name # doc.name
                        /\ devices_collection[d].mac_address # doc.mac_address
                        /\ devices_collection[d].ip_address # doc.ip_address
    BY <1>1, <2>1 DEF Checked, Free, AdoptedDevice
  <2>5. local[h].networkId \in Optional(LiveNetworks) /\ doc.networkId = local[h].networkId
    BY <1>1, <2>1 DEF Checked, AdoptedDevice
  <2> HIDE DEF new, doc
  <2>6. UniqueDevices'
    BY <2>1, <2>2, <2>3, <2>4 DEF SerialInv, UniqueDevices, Live
  <2>7. \A d \in Live' : devices_collection'[d].networkId \in Optional(LiveNetworks')
    BY <2>1, <2>2, <2>3, <2>5 DEF SerialInv, Purging, Live
  <2>8. l.networkId \in Optional(LiveNetworks')
    BY <1>1, <2>3, <2>5 DEF Locals
  <2>9. Reply(h) \/ Step(h, "adopt_target", l)
    BY <1>8 DEF AdoptInsert, new
  <2> HIDE DEF l
  <2> QED BY <2>6, <2>7, <2>8, <2>9, SerialWritten DEF Reply
<1>9. CASE AdoptTarget(h)
  <2>1. Checked("adopt_push", local[h]) /\ pc[h] = "adopt_target" /\ UNCHANGED db
    BY <1>1, <1>9 DEF AdoptTarget, Checked
  <2> QED BY <1>2, <1>9, <2>1, SerialReply, SerialGoto DEF AdoptTarget
<1>10. CASE AdoptPush(h)
  <2>1. local[h].device \in DeviceIds
    BY <1>10 DEF AdoptPush, TypeInv, LocalsOK, LocalsFor, ListSteps
  <2>2. LiveNetworks' = LiveNetworks
    <3>1. [device |-> local[h].device, kind |-> "oid"] \in Entry
      BY <2>1 DEF Entry
    <3>2. \A n \in LiveNetworks :
            networks_collection[n] \cup {[device |-> local[h].device, kind |-> "oid"]}
              \in SUBSET Entry
      BY <1>1, <3>1 DEF LiveNetworks, Optional
    <3> QED BY <1>1, <1>10, <3>2, RegistryAssumption DEF AdoptPush, LiveNetworks
  <2>3. Reply(h) /\ UNCHANGED devices_collection /\ pc[h] = "adopt_push"
    BY <1>10 DEF AdoptPush
  <2> QED BY <2>2, <2>3, SerialReply
<1> QED
  BY <1>3, <1>4, <1>5, <1>6, <1>7, <1>8, <1>9, <1>10 DEF AdoptNext

\* Edit: the addresses found free are written into the document that was read.
LEMMA SerialEdit ==
  ASSUME TypeInv, SerialInv, NEW h \in Handlers, Handlers = {h}, EditNext(h)
  PROVE  SerialInv'
<1>1. /\ local[h] \in Locals /\ Checked(pc[h], local[h])
      /\ devices_collection \in [DeviceIds -> Optional(Device)]
      /\ NULL \notin Device
  BY RegistryAssumption DEF TypeInv, TypeOK, SerialInv
<1>2. UNCHANGED db => UNCHANGED devices_collection /\ LiveNetworks' = LiveNetworks
  BY DEF db, LiveNetworks
<1> USE DEF EditSteps, AdoptSteps
<1>3. CASE EditDevice(h)
  <2>1. PICK d \in Live, p \in EditPayloads :
          Step(h, "edit_match",
               [device |-> d, read |-> devices_collection[d],
                mac_address |-> p.mac_address, ip_address |-> p.ip_address,
                networkId |-> p.networkId, profileId |-> p.profileId,
                list |-> {}])
    BY <1>3 DEF EditDevice
  <2> DEFINE l == [device |-> d, read |-> devices_collection[d],
                   mac_address |-> p.mac_address, ip_address |-> p.ip_address,
                   networkId |-> p.networkId, profileId |-> p.profileId,
                   list |-> {}]
  <2>2. Checked("edit_match", l)
    BY DEF Checked
  <2>3. UNCHANGED db /\ pc[h] = "idle"
    BY <1>3 DEF EditDevice, Arrives
  <2> HIDE DEF l
  <2>4. Step(h, "edit_match", l)
    BY <2>1 DEF l
  <2> QED BY <1>2, <2>2, <2>3, <2>4, SerialMove
<1>4. CASE EditMatch(h)
  <2>1. Checked("edit_network", local[h]) /\ pc[h] = "edit_match" /\ UNCHANGED db
    BY <1>1, <1>4 DEF EditMatch, Checked
  <2> QED BY <1>2, <1>4, <2>1, SerialReply, SerialGoto DEF EditMatch
<1>5. CASE EditNetworkCheck(h)
  <2>1. pc[h] = "edit_network" /\ UNCHANGED db
    BY <1>5 DEF EditNetworkCheck
  <2>2. local[h].networkId \in Optional(LiveNetworks) => Checked("edit_profile", local[h])
    BY <1>1, <2>1 DEF Checked
  <2> QED BY <1>2, <1>5, <2>1, <2>2, SerialReply, SerialGoto DEF EditNetworkCheck
<1>6. CASE EditProfileCheck(h)
  <2>1. Checked("edit_mac", local[h]) /\ pc[h] = "edit_profile" /\ UNCHANGED db
    BY <1>1, <1>6 DEF EditProfileCheck, Checked
  <2> QED BY <1>2, <1>6, <2>1, SerialReply, SerialGoto DEF EditProfileCheck
<1>7. CASE EditMacCheck(h)
  <2>1. pc[h] = "edit_mac" /\ UNCHANGED db
    BY <1>7 DEF EditMacCheck
  <2>2. CASE Reply(h)
    BY <1>2, <2>1, <2>2, SerialReply
  <2>3. CASE ~Reply(h)
    <3>1. Goto(h, "edit_ip")
          /\ (MacChanged(local[h]) => Free("mac_address", local[h].mac_address))
      BY <1>7, <2>3 DEF EditMacCheck, Free
    <3>2. Checked("edit_ip", local[h])
      BY <1>1, <2>1, <3>1 DEF Checked
    <3> QED BY <1>2, <2>1, <3>1, <3>2, SerialGoto
  <2> QED BY <2>2, <2>3
<1>8. CASE EditIpCheck(h)
  <2>1. pc[h] = "edit_ip" /\ UNCHANGED db
    BY <1>8 DEF EditIpCheck
  <2>2. CASE Reply(h)
    BY <1>2, <2>1, <2>2, SerialReply
  <2>3. CASE ~Reply(h)
    <3>1. PICK next \in {"edit_lock", "edit_write"} : Goto(h, next)
      BY <1>8, <2>3 DEF EditIpCheck
    <3>2. IpChanged(local[h]) => Free("ip_address", local[h].ip_address)
      BY <1>8, <2>3 DEF EditIpCheck, Free
    <3>3. Checked(next, local[h])
      BY <1>1, <2>1, <3>2 DEF Checked
    <3> QED BY <1>2, <2>1, <3>1, <3>3, SerialGoto
  <2> QED BY <2>2, <2>3
<1>9. CASE EditLock(h)
  <2>1. Checked("edit_write", local[h]) /\ pc[h] = "edit_lock" /\ UNCHANGED db
    BY <1>1, <1>9 DEF EditLock, Checked
  <2> QED BY <1>2, <1>9, <2>1, SerialGoto DEF EditLock
<1>10. CASE EditWrite(h)
  <2> DEFINE l == local[h]
             dev == local[h].device
             doc == EditedDevice(local[h])
  <2>1. /\ dev \in Live /\ dev \in DeviceIds /\ devices_collection[dev] = l.read
        /\ pc[h] = "edit_write" /\ doc \in Device /\ l.read \in Device
        /\ devices_collection' = [devices_collection EXCEPT ![dev] = doc]
        /\ networks_collection' = networks_collection
    BY <1>1, <1>10, EditedDeviceType
       DEF EditWrite, Checked, TypeInv, LocalsOK, LocalsFor
  <2>2. Live' = Live /\ LiveNetworks' = LiveNetworks
    BY <1>1, <2>1 DEF Live, LiveNetworks
  <2>3. /\ doc.name = l.read.name
        /\ doc.mac_address = IF MacChanged(l) THEN l.mac_address ELSE l.read.mac_address
        /\ doc.ip_address = IF IpChanged(l) THEN l.ip_address ELSE l.read.ip_address
        /\ doc.networkId = IF l.networkId # NULL THEN l.networkId ELSE l.read.networkId
    BY <2>1 DEF EditedDevice, Device, MacChanged, IpChanged
  <2>4. /\ MacChanged(l) => Free("mac_address", l.mac_address)
        /\ IpChanged(l) => Free("ip_address", l.ip_address)
        /\ l.networkId \in Optional(LiveNetworks)
    BY <1>1, <2>1 DEF Checked
  <2> HIDE DEF l, dev, doc
  <2>5. \A d \in Live \ {dev} :
          /\ devices_collection[d].name # doc.name
          /\ devices_collection[d].mac_address # doc.mac_address
          /\ devices_collection[d].ip_address # doc.ip_address
    <3>1. \A d \in Live \ {dev} :
            /\ devices_collection[d].name # l.read.name
            /\ devices_collection[d].mac_address # l.read.mac_address
            /\ devices_collection[d].ip_address # l.read.ip_address
      BY <2>1 DEF SerialInv, UniqueDevices
    <3> QED BY <2>3, <2>4, <3>1 DEF Free
  <2>6. UniqueDevices'
    BY <1>1, <2>1, <2>2, <2>5 DEF SerialInv, UniqueDevices, Live
  <2>7. \A d \in Live' : devices_collection'[d].networkId \in Optional(LiveNetworks')
    <3>1. \A d \in Live : devices_collection[d].networkId \in Optional(LiveNetworks)
      BY <2>1 DEF SerialInv, Purging
    <3> QED BY <1>1, <2>1, <2>2, <2>3, <2>4, <3>1 DEF Live, Optional
  <2>8. Step(h, "idle", NoLocals)
    BY <1>10 DEF EditWrite, Reply
  <2> QED BY <2>6, <2>7, <2>8, SerialWritten
<1> QED
  BY <1>3, <1>4, <1>5, <1>6, <1>7, <1>8, <1>9, <1>10 DEF EditNext

\* Deleting documents keeps what is left unique.
LEMMA UniqueSubset ==
  ASSUME UniqueDevices, Live' \subseteq Live,
         \A d \in Live' : devices_collection'[d] = devices_collection[d]
  PROVE  UniqueDevices'
  BY DEF UniqueDevices

\* Deletions and edits of networks and profiles: a network takes its devices along.
LEMMA SerialOther ==
  ASSUME TypeInv, SerialInv, NEW h \in Handlers, Handlers = {h},
         DeleteNext(h) \/ NetworkNext(h) \/ ProfileNext(h)
  PROVE  SerialInv'
<1>1. /\ local[h] \in Locals /\ Checked(pc[h], local[h])
      /\ devices_collection \in [DeviceIds -> Optional(Device)]
      /\ networks_collection \in [NetworkIds -> Optional(SUBSET Entry)]
      /\ UniqueDevices
  BY DEF TypeInv, TypeOK, SerialInv
<1>2. UNCHANGED db => UNCHANGED devices_collection /\ LiveNetworks' = LiveNetworks
  BY DEF db, LiveNetworks
<1>3. pc[h] \notin {"purge_find", "purge_delete"} =>
        \A d \in Live : devices_collection[d].networkId \in Optional(LiveNetworks)
  BY DEF SerialInv, Purging
<1>4. ASSUME NEW next \in {"delete_pull", "network_write", "purge_delete",
                           "profile_clear"}, NEW l
      PROVE  Checked(next, l)
  BY DEF Checked, EditSteps, AdoptSteps
<1>5. CASE DeleteDevice(h)
  <2>1. PICK d \in Live :
          /\ devices_collection' = [devices_collection EXCEPT ![d] = NULL]
          /\ \/ UNCHANGED <<pc, local>>
             \/ Step(h, "delete_find", [NoLocals EXCEPT !.device = d,
                           !.networkId = devices_collection[d].networkId])
    BY <1>5 DEF DeleteDevice
  <2>2. pc[h] = "idle" /\ networks_collection' = networks_collection
    BY <1>5 DEF DeleteDevice, Arrives
  <2>3. Live' = Live \ {d} /\ LiveNetworks' = LiveNetworks
        /\ \A e \in Live' : devices_collection'[e] = devices_collection[e]
    BY <1>1, <2>1, <2>2 DEF Live, LiveNetworks
  <2>4. UniqueDevices'
    BY <1>1, <2>3, UniqueSubset
  <2>5. \A e \in Live' : devices_collection'[e].networkId \in Optional(LiveNetworks')
    BY <1>3, <2>2, <2>3
  <2>6. CASE UNCHANGED <<pc, local>>
    <3>1. (\A g \in Handlers : Checked(pc[g], local[g]))'
      BY <2>2, <2>6 DEF Checked, EditSteps, AdoptSteps
    <3> QED BY <2>4, <2>5, <3>1 DEF SerialInv
  <2> DEFINE l == [NoLocals EXCEPT !.device = d,
                           !.networkId = devices_collection[d].networkId]
  <2> HIDE DEF l
  <2>7. CASE Step(h, "delete_find", l)
    BY <2>4, <2>5, <2>7, SerialWritten
  <2> QED BY <2>1, <2>6, <2>7 DEF l
<1>6. CASE DeleteFind(h)
  <2>1. pc[h] = "delete_find" /\ UNCHANGED db /\ (Reply(h) \/ Goto(h, "delete_pull"))
    BY <1>6 DEF DeleteFind
  <2> QED BY <1>2, <1>4, <2>1, SerialReply, SerialGoto
<1>7. CASE DeletePull(h) \/ NetworkWrite(h)
  <2>1. \A n \in LiveNetworks : networks_collection[n] \in SUBSET Entry
    BY <1>1 DEF LiveNetworks, Optional
  <2>2. AsStrings(local[h].list) \in SUBSET Entry
    BY <1>1 DEF AsStrings, Locals, Entry
  <2>3. LiveNetworks' = LiveNetworks
    BY <1>1, <1>7, <2>1, <2>2, RegistryAssumption
       DEF DeletePull, NetworkWrite, AsStrings, LiveNetworks
  <2>4. Reply(h) /\ UNCHANGED devices_collection
        /\ pc[h] \notin {"purge_find", "purge_delete"}
    BY <1>7 DEF DeletePull, NetworkWrite
  <2> QED BY <2>3, <2>4, SerialReply
<1>8. CASE EditNetwork(h)
  <2>1. PICK n \in LiveNetworks :
          Step(h, "network_write", [NoLocals EXCEPT !.networkId = n,
                                      !.list = networks_collection[n]])
    BY <1>8 DEF EditNetwork
  <2>2. UNCHANGED db /\ pc[h] = "idle"
    BY <1>8 DEF EditNetwork, Arrives
  <2> DEFINE l == [NoLocals EXCEPT !.networkId = n, !.list = networks_collection[n]]
  <2> HIDE DEF l
  <2>3. Step(h, "network_write", l) /\ Checked("network_write", l)
    BY <1>4, <2>1 DEF l
  <2> QED BY <1>2, <2>2, <2>3, SerialMove
<1>9. CASE DeleteNetwork(h)
  <2>1. PICK n \in LiveNetworks :
          /\ networks_collection' = [networks_collection EXCEPT ![n] = NULL]
          /\ Step(h, "purge_find", [NoLocals EXCEPT !.networkId = n])
    BY <1>9 DEF DeleteNetwork
  <2>2. pc[h] = "idle" /\ devices_collection' = devices_collection
    BY <1>9 DEF DeleteNetwork, Arrives
  <2>3. Live' = Live /\ LiveNetworks' = LiveNetworks \ {n}
    BY <1>1, <2>1, <2>2 DEF Live, LiveNetworks
  <2>4. UniqueDevices'
    BY <1>1, <2>2, <2>3, UniqueSubset
  <2> DEFINE l == [NoLocals EXCEPT !.networkId = n]
  <2>5. l.networkId = n
    BY DEF NoLocals
  <2>6. \A d \in Live' : \/ devices_collection'[d].networkId \in Optional(LiveNetworks')
                         \/ devices_collection'[d].networkId = l.networkId
    BY <1>3, <2>2, <2>3, <2>5 DEF Optional
  <2> HIDE DEF l
  <2>7. Step(h, "purge_find", l)
    BY <2>1 DEF l
  <2> QED BY <2>4, <2>6, <2>7, SerialWritten
<1>10. CASE PurgeFind(h)
  <2>1. pc[h] = "purge_find" /\ UNCHANGED db
    BY <1>10 DEF PurgeFind
  <2> QED BY <1>2, <1>4, <1>10, <2>1, SerialReply, SerialGoto DEF PurgeFind
<1>11. CASE PurgeDelete(h)
  <2>1. /\ pc[h] = "purge_delete" /\ networks_collection' = networks_collection
        /\ devices_collection' =
             [d \in DeviceIds |-> IF d \in DevicesOf(local[h].networkId)
                                  THEN NULL ELSE devices_collection[d]]
    BY <1>11 DEF PurgeDelete
  <2>2. Live' = Live \ DevicesOf(local[h].networkId) /\ LiveNetworks' = LiveNetworks
        /\ \A e \in Live' : devices_collection'[e] = devices_collection[e]
    BY <1>1, <2>1 DEF Live, LiveNetworks
  <2>3. UniqueDevices'
    BY <1>1, <2>2, UniqueSubset
  <2>4. \A e \in Live' : devices_collection'[e].networkId \in Optional(LiveNetworks')
    BY <2>1, <2>2 DEF SerialInv, Purging, DevicesOf
  <2> QED BY <1>11, <2>3, <2>4, SerialWritten DEF PurgeDelete, Reply
<1>12. CASE DeleteProfile(h)
  <2>1. PICK p \in profiles_collection :
          Step(h, "profile_clear", [NoLocals EXCEPT !.profileId = p])
    BY <1>12 DEF DeleteProfile
  <2>2. /\ pc[h] = "idle" /\ devices_collection' = devices_collection
        /\ LiveNetworks' = LiveNetworks
    BY <1>12 DEF DeleteProfile, Arrives, LiveNetworks
  <2> DEFINE l == [NoLocals EXCEPT !.profileId = p]
  <2> HIDE DEF l
  <2>3. Step(h, "profile_clear", l) /\ Checked("profile_clear", l)
    BY <1>4, <2>1 DEF l
  <2> QED BY <2>2, <2>3, SerialMove
<1>13. CASE ProfileClear(h)
  <2>1. Reply(h) /\ UNCHANGED db /\ pc[h] = "profile_clear"
    BY <1>13 DEF ProfileClear
  <2> QED BY <1>2, <2>1, SerialReply
<1> QED
  BY <1>5, <1>6, <1>7, <1>8, <1>9, <1>10, <1>11, <1>12, <1>13
     DEF DeleteNext, NetworkNext, ProfileNext

\* Requests are served one at a time, and no two documents that are there when
\* the backend starts share a MAC, an IP or a name.
Serial == /\ \A g, h \in Handlers : g = h
          /\ \A d, e \in 1..Len(InitialDevices) :
               \/ InitialDevices[d].mac_address = InitialDevices[e].mac_address
               \/ InitialDevices[d].ip_address = InitialDevices[e].ip_address
               \/ InitialDevices[d].name = InitialDevices[e].name
               => d = e

\* One request at a time: what it has checked holds until it writes.
LEMMA SerialInvariant ==
  ASSUME Serial
  PROVE  Spec => []SerialInv
<1>1. Init => SerialInv
  <2> SUFFICES ASSUME Init PROVE SerialInv
    OBVIOUS
  <2>1. \A d \in Live : /\ d \in 1..Len(InitialDevices)
                        /\ devices_collection[d] = InitialDevices[d]
                        /\ InitialDevices[d] \in Device
    BY RegistryAssumption DEF Init, Live, DeviceIds
  <2>2. UniqueDevices
    BY <2>1 DEF UniqueDevices, Serial
  <2>3. \A d \in Live : devices_collection[d].networkId \in Optional(LiveNetworks)
    <3>1. LiveNetworks = NetworkIds
      BY RegistryAssumption DEF Init, LiveNetworks
    <3> QED BY <2>1, <3>1 DEF Device
  <2>4. \A h \in Handlers : Checked(pc[h], local[h])
    BY DEF Init, Checked, AdoptSteps, EditSteps
  <2> QED BY <2>2, <2>3, <2>4 DEF SerialInv
<1>2. TypeInv /\ SerialInv /\ [Next]_vars => SerialInv'
  <2> SUFFICES ASSUME TypeInv, SerialInv, [Next]_vars PROVE SerialInv'
    OBVIOUS
  <2>1. CASE ArpScan \/ UNCHANGED vars
    <3>1. UNCHANGED <<db, pc, local>>
      BY <2>1 DEF ArpScan, vars, db
    <3> QED
      BY <3>1 DEF db, SerialInv, UniqueDevices, Checked, Free, Live, LiveNetworks,
                  MacChanged, IpChanged, Purging
  <2>2. ASSUME NEW h \in Handlers, RequestNext(h) PROVE SerialInv'
    <3>1. Handlers = {h}
      BY DEF Serial
    <3> QED BY <2>2, <3>1, SerialAdopt, SerialEdit, SerialOther DEF RequestNext
  <2> QED BY <2>1, <2>2 DEF Next
<1> QED BY <1>1, <1>2, TypeInvariant, PTL DEF Spec

\* As long as requests do not overlap, the checks of create_device and of
\* validate_new_device_info keep MACs, IPs and names unique: the values found
\* free are still free when the document is written.
THEOREM SerialUnique ==
  ASSUME Serial
  PROVE  Spec => []UniqueDevices
<1>1. SerialInv => UniqueDevices
  BY DEF SerialInv
<1> QED BY <1>1, SerialInvariant, PTL

\* As long as requests do not overlap, no device is left with the id of a
\* network that was deleted: the devices of a network go with it, and no check
\* of the network is stale when the document is written.
THEOREM SerialNoDangling ==
  ASSUME Serial
  PROVE  Spec => []NoDanglingNetwork
<1>1. SerialInv => NoDanglingNetwork
  BY DEF SerialInv, NoDanglingNetwork, Quiet, Purging
<1> QED BY <1>1, SerialInvariant, PTL

=============================================================================
