---------------------- MODULE MonitoredRegistryProofs ----------------------
(***************************************************************************)
(* Proofs about MonitoredRegistry: the registry's invariants survive the   *)
(* two background loops, and both locks are where the loops expect them.   *)
(*                                                                         *)
(* LockOwners is not inductive.  That a request's step neither takes nor   *)
(* frees the lock of a loop needs LockInv, the lock as the requests see    *)
(* it; that the monitor's write leaves documents in the collection needs   *)
(* MonitorOK, that it goes by ids which its snapshot knows; that a new     *)
(* topology round restarts no task that holds a lock needs RoundOK.        *)
(***************************************************************************)
EXTENDS MonitoredRegistry, DeviceRegistryProofs

Snapshots == [DeviceIds -> Optional(Device)]

MonitorTypeOK ==
  /\ topology_lock \in Optional({Monitor} \cup NetworkIds)
  /\ monitor \in [pc : {"sleep", "list", "probe", "sync", "write"},
                  snapshot : Snapshots, dev_id_str : Optional(DeviceIds),
                  sync : SUBSET DeviceIds]
  /\ task \in [NetworkIds ->
                 [pc : {"done", "list", "lock", "update", "write"},
                  snapshot : Snapshots,
                  move : SUBSET [device : DeviceIds, ip_address : Ips]]]

\* What the monitor is about to write back, it has read.
MonitorOK ==
  monitor.pc \in {"sync", "write"} =>
    /\ monitor.dev_id_str \in Known(monitor.snapshot)
    /\ monitor.sync \subseteq Known(monitor.snapshot)

\* Tasks run only during a topology round: starting the next one finds no task
\* that holds a lock.
RoundOK == topology_loop # "discover" => \A n \in NetworkIds : task[n].pc = "done"

MonitoredInv == /\ TypeInv /\ LockInv /\ MonitorTypeOK
                /\ MonitorOK /\ RoundOK /\ LockOwners

\* None of the three kinds of lock holders is one of another kind.
LEMMA Owners ==
  /\ Monitor \notin Handlers \cup NetworkIds /\ Monitor # NULL
  /\ NetworkIds \cap Handlers = {} /\ NULL \notin NetworkIds \cup Handlers
  BY RegistryAssumption, MonitoredAssumption

\* An empty snapshot, an idle monitor and an idle task.
LEMMA Asleep ==
  /\ MonitorAsleep \in [pc : {"sleep", "list", "probe", "sync", "write"},
                        snapshot : Snapshots, dev_id_str : Optional(DeviceIds),
                        sync : SUBSET DeviceIds]
  /\ MonitorAsleep.pc = "sleep"
  /\ TaskDone \in [pc : {"done", "list", "lock", "update", "write"},
                   snapshot : Snapshots,
                   move : SUBSET [device : DeviceIds, ip_address : Ips]]
  /\ TaskDone.pc = "done"
  BY DEF MonitorAsleep, TaskDone, NoSnapshot, Snapshots, Optional

\* A step that leaves the control state of the handlers alone, and moves the
\* lock between the background loops only, keeps the handlers' view of it.
LEMMA LockInvKept ==
  ASSUME LockInv, UNCHANGED <<pc, local>>,
         \A h \in Handlers : update_lock' = h <=> update_lock = h
  PROVE  LockInv'
  BY DEF LockInv, UpdateLockOwner, AddressChanged, MacChanged, IpChanged

-----------------------------------------------------------------------------
(* A step of a request or of the scan.                                     *)

\* A step of a request or of the scan leaves both loops alone, and their locks.
LEMMA RegistryStep ==
  ASSUME MonitoredInv, RegistryNext
  PROVE  MonitoredInv'
<1>1. UNCHANGED backVars
  BY DEF RegistryNext
<1>2. CASE ArpScan
  <2>1. TypeInv'
    BY <1>2, ArpScanTypeInv DEF MonitoredInv
  <2>2. UNCHANGED <<pc, local, update_lock>>
    BY <1>2 DEF ArpScan
  <2>3. LockInv'
    BY <2>2, LockInvKept DEF MonitoredInv
  <2> QED
    BY <1>1, <2>1, <2>2, <2>3
       DEF MonitoredInv, MonitorTypeOK, MonitorOK, RoundOK, LockOwners, backVars,
           Known
<1>3. ASSUME NEW h \in Handlers, RequestNext(h)
      PROVE  MonitoredInv'
  <2>1. TypeInv' /\ LockInv'
    BY <1>3, RequestTypeInv, LockInvStep DEF MonitoredInv
  <2>2. update_lock' # update_lock => {update_lock, update_lock'} = {h, NULL}
    BY <1>3, LockStep DEF MonitoredInv
  <2>3. \A o \in {Monitor} \cup NetworkIds : update_lock' = o <=> update_lock = o
    BY <2>2, Owners
  <2> QED
    BY <1>1, <2>1, <2>3
       DEF MonitoredInv, MonitorTypeOK, MonitorOK, RoundOK, LockOwners, backVars,
           Known
<1> QED BY <1>2, <1>3 DEF RegistryNext, Next

-----------------------------------------------------------------------------
(* A step of the monitor.                                                  *)

\* What the monitor does to the documents: it writes the one it took for the
\* reporting device over what is stored, if that is still there.
LEMMA MonitorDevices ==
  ASSUME MonitoredInv, MonitorNext
  PROVE  UNCHANGED <<devices_collection, inserted>> \/ Rewrites
<1>1. CASE MonitorSyncWrite
  <2>1. PICK reporter \in monitor.sync :
          SyncResult(reporter, Updated(monitor.dev_id_str, Synced(reporter)), NULL)
    BY <1>1 DEF MonitorSyncWrite
  <2>2. monitor.pc = "write" /\ inserted' = inserted
        /\ devices_collection' = Updated(monitor.dev_id_str, Synced(reporter))
    BY <2>1 DEF SyncResult
  <2>3. /\ monitor.snapshot \in Snapshots
        /\ monitor.dev_id_str \in Known(monitor.snapshot)
        /\ reporter \in Known(monitor.snapshot)
    BY <2>2 DEF MonitoredInv, MonitorTypeOK, MonitorOK
  <2>4. /\ monitor.snapshot[monitor.dev_id_str] \in Device
        /\ monitor.snapshot[reporter].ip_address \in Ips
    BY <2>3 DEF Snapshots, Known, Optional, Device
  <2>5. Synced(reporter) \in Device
    BY <2>4, RegistryAssumption DEF Synced, Device
  <2> QED BY <2>2, <2>5 DEF Updated, Rewrites
<1>2. ~MonitorSyncWrite => UNCHANGED <<devices_collection, inserted>>
  BY DEF MonitorNext, MonitorAcquire, MonitorList, MonitorSkip, MonitorProbe,
         MonitorSyncLock, MonitorBroadcast, MonitorFail, MonitorRelease, registry,
         vars, db
<1> QED BY <1>1, <1>2

\* Documents that only change, or come back as they are, keep their type.
LEMMA RewritesType ==
  ASSUME TypeInv, UNCHANGED <<devices_collection, inserted>> \/ Rewrites,
         UNCHANGED <<networks_collection, profiles_collection,
                     available_devices, pc, local>>,
         update_lock' \in Optional(Handlers \cup BackgroundTasks)
  PROVE  TypeInv'
<1>1. devices_collection' \in [DeviceIds -> Optional(Device)] /\ FreshIds'
  BY DEF TypeInv, TypeOK, FreshIds, Rewrites, Live, Optional
<1>2. inserted' = inserted
  BY DEF Rewrites
<1> QED BY <1>1, <1>2 DEF TypeInv, TypeOK, LocalsOK, LocalsFor

\* The monitor's own state and both locks after its step.
LEMMA MonitorState ==
  ASSUME MonitoredInv, MonitorNext
  PROVE  /\ UNCHANGED <<networks_collection, profiles_collection,
                        available_devices, pc, local, topology_loop, task>>
         /\ MonitorTypeOK' /\ MonitorOK'
         /\ \/ UNCHANGED topology_lock
               /\ monitor.pc # "sleep" /\ monitor'.pc # "sleep"
            \/ topology_lock = NULL /\ topology_lock' = Monitor
               /\ monitor'.pc # "sleep"
            \/ topology_lock = Monitor /\ topology_lock' = NULL
               /\ monitor'.pc = "sleep"
         /\ \/ UNCHANGED update_lock
               /\ monitor.pc # "write" /\ monitor'.pc # "write"
            \/ update_lock = NULL /\ update_lock' = Monitor
               /\ monitor'.pc = "write"
            \/ update_lock = Monitor /\ update_lock' = NULL
               /\ monitor'.pc # "write"
<1>1. /\ MonitorTypeOK /\ MonitorOK /\ TypeOK
      /\ topology_lock = Monitor <=> monitor.pc # "sleep"
      /\ update_lock = Monitor <=> monitor.pc = "write"
  BY DEF MonitoredInv, LockOwners, TypeInv
<1>2. CASE MonitorAcquire
  BY <1>1, <1>2 DEF MonitorAcquire, registry, vars, MonitorTypeOK, MonitorOK, Optional
<1>3. CASE MonitorList
  BY <1>1, <1>3 DEF MonitorList, registry, vars, MonitorTypeOK, MonitorOK, TypeOK,
                    Snapshots
<1>4. CASE monitor.pc \in {"list", "probe", "sync"} /\ MonitorRelease
  BY <1>1, <1>4, Asleep
     DEF MonitorRelease, registry, vars, MonitorTypeOK, MonitorOK, Optional
<1>5. CASE MonitorProbe
  <2> DEFINE snapshot == monitor.snapshot
  <2>1. PICK last \in Known(snapshot),
             sync \in SUBSET Known(snapshot) :
          monitor' = [monitor EXCEPT !.pc = "sync", !.dev_id_str = last,
                                     !.sync = sync]
    BY <1>5 DEF MonitorProbe
  <2>2. Known(snapshot) \subseteq DeviceIds
    BY DEF Known
  <2>3. /\ monitor'.pc = "sync" /\ monitor'.snapshot = snapshot
        /\ monitor'.dev_id_str = last /\ monitor'.sync = sync
        /\ monitor' \in [pc : {"sleep", "list", "probe", "sync", "write"},
                  snapshot : Snapshots, dev_id_str : Optional(DeviceIds),
                  sync : SUBSET DeviceIds]
    BY <1>1, <2>1, <2>2 DEF MonitorTypeOK, Optional
  <2>4. monitor.pc = "probe" /\ UNCHANGED <<registry, topology_lock, topology_loop, task>>
    BY <1>5 DEF MonitorProbe
  <2> QED
    BY <1>1, <2>1, <2>3, <2>4 DEF registry, vars, MonitorTypeOK, MonitorOK
<1>6. CASE MonitorSyncLock
  BY <1>1, <1>6 DEF MonitorSyncLock, MonitorTypeOK, MonitorOK, Known, db
<1>7. CASE MonitorSyncWrite
  <2>1. PICK reporter \in monitor.sync :
          monitor' = [monitor EXCEPT !.pc = "sync", !.sync = @ \ {reporter}]
    BY <1>7 DEF MonitorSyncWrite, SyncResult
  <2>2. /\ UNCHANGED <<networks_collection, profiles_collection, available_devices,
                       pc, local, topology_lock, topology_loop, task>>
        /\ monitor.pc = "write" /\ update_lock' = NULL
    BY <1>7 DEF MonitorSyncWrite, SyncResult
  <2>3. MonitorTypeOK'
    BY <1>1, <2>1, <2>2 DEF MonitorTypeOK
  <2>4. MonitorOK' /\ monitor'.pc = "sync"
    BY <1>1, <2>1, <2>2 DEF MonitorTypeOK, MonitorOK, Known
  <2> QED BY <1>1, <2>2, <2>3, <2>4
<1> QED
  BY <1>2, <1>3, <1>4, <1>5, <1>6, <1>7
     DEF MonitorNext, MonitorSkip, MonitorBroadcast, MonitorFail

\* Every step of the monitor's coroutine keeps the invariant.
LEMMA MonitorStep ==
  ASSUME MonitoredInv, MonitorNext
  PROVE  MonitoredInv'
<1>1. update_lock' \in {update_lock, Monitor, NULL}
  BY MonitorState
<1>2. TypeInv'
  <2>1. update_lock' \in Optional(Handlers \cup BackgroundTasks)
    BY <1>1, MonitoredAssumption DEF MonitoredInv, TypeInv, TypeOK, Optional
  <2> QED BY <2>1, MonitorState, MonitorDevices, RewritesType DEF MonitoredInv
<1>3. LockInv'
  BY MonitorState, LockInvKept, Owners DEF MonitoredInv
<1>4. LockOwners'
  <2>1. /\ topology_lock' = Monitor <=> monitor'.pc # "sleep"
        /\ update_lock' = Monitor <=> monitor'.pc = "write"
    BY MonitorState, Owners DEF MonitoredInv, LockOwners
  <2>2. ASSUME NEW n \in NetworkIds
        PROVE  /\ topology_lock' = n <=> topology_lock = n
               /\ update_lock' = n <=> update_lock = n
    BY MonitorState, Owners
  <2>3. task' = task
    BY MonitorState
  <2> QED BY <2>1, <2>2, <2>3 DEF MonitoredInv, LockOwners
<1> QED BY <1>2, <1>3, <1>4, MonitorState DEF MonitoredInv, RoundOK

-----------------------------------------------------------------------------
(* A step of the topology loop.                                            *)

\* A topology round reads documents and writes none.
LEMMA TopologyDevices ==
  ASSUME TopologyNext
  PROVE  UNCHANGED <<db, available_devices, pc, local, monitor>>
  BY DEF TopologyNext, TopologyStart, TopologyEnd, TaskNext, TaskList, TaskLock,
         TaskUpdateLock, TaskUpdate, TaskEnd, registry, vars, db

\* A task's own state and both locks after its step.
LEMMA TaskState ==
  ASSUME MonitoredInv, NEW n \in NetworkIds, TaskNext(n)
  PROVE  /\ MonitorTypeOK' /\ UNCHANGED topology_loop
         /\ task[n].pc # "done"
         /\ \A k \in NetworkIds \ {n} : task'[k] = task[k]
         /\ \/ UNCHANGED topology_lock
               /\ (task[n].pc \in {"update", "write"}
                     <=> task'[n].pc \in {"update", "write"})
            \/ topology_lock = NULL /\ topology_lock' = n
               /\ task'[n].pc \in {"update", "write"}
            \/ topology_lock = n /\ topology_lock' = NULL
               /\ task'[n].pc \notin {"update", "write"}
         /\ \/ UNCHANGED update_lock
               /\ task[n].pc # "write" /\ task'[n].pc # "write"
            \/ update_lock = NULL /\ update_lock' = n /\ task'[n].pc = "write"
            \/ update_lock = n /\ update_lock' = NULL /\ task'[n].pc # "write"
<1>1. /\ MonitorTypeOK /\ TypeOK
      /\ topology_lock = n <=> task[n].pc \in {"update", "write"}
      /\ update_lock = n <=> task[n].pc = "write"
  BY DEF MonitoredInv, LockOwners, TypeInv
<1>2. CASE TaskList(n)
  <2>1. CASE task' = [task EXCEPT ![n] = TaskDone]
    BY <1>1, <1>2, <2>1, Asleep DEF TaskList, MonitorTypeOK, registry, vars
  <2>2. CASE task' # [task EXCEPT ![n] = TaskDone]
    <3> DEFINE read == [d \in DeviceIds |->
                 IF d \in DevicesOf(n) THEN devices_collection[d] ELSE NULL]
    <3>1. PICK name_to_ip \in [Names -> Optional(Ips)] :
          task' = [task EXCEPT ![n] =
               [pc |-> "lock", snapshot |-> read,
                move |-> {m \in [device : DevicesOf(n), ip_address : Ips] :
                            /\ m.ip_address = name_to_ip[read[m.device].name]
                            /\ m.ip_address # read[m.device].ip_address}]]
      BY <1>2, <2>2 DEF TaskList
    <3>2. read \in Snapshots
      BY <1>1 DEF TypeOK, Snapshots, Optional
    <3> HIDE DEF read
    <3>3. DevicesOf(n) \subseteq DeviceIds
      BY DEF DevicesOf, Live
    <3>4. PICK move \in SUBSET [device : DeviceIds, ip_address : Ips] :
            task' = [task EXCEPT ![n] =
                       [pc |-> "lock", snapshot |-> read, move |-> move]]
      BY <3>1, <3>3
    <3>5. /\ UNCHANGED <<topology_lock, topology_loop, monitor, update_lock>>
          /\ task[n].pc = "list"
      BY <1>2 DEF TaskList, registry, vars
    <3> DEFINE t == [pc |-> "lock", snapshot |-> read, move |-> move]
    <3>6. t \in [pc : {"done", "list", "lock", "update", "write"},
                 snapshot : Snapshots,
                 move : SUBSET [device : DeviceIds, ip_address : Ips]]
          /\ t.pc = "lock"
      BY <3>2
    <3> HIDE DEF t
    <3>7. task' = [task EXCEPT ![n] = t]
      BY <3>4 DEF t
    <3> QED
      BY <1>1, <3>5, <3>6, <3>7 DEF MonitorTypeOK
  <2> QED BY <2>1, <2>2
<1>3. CASE TaskLock(n)
  BY <1>1, <1>3 DEF TaskLock, MonitorTypeOK, registry, vars, Optional
<1>4. CASE TaskUpdateLock(n)
  BY <1>1, <1>4 DEF TaskUpdateLock, MonitorTypeOK
<1>5. CASE TaskUpdate(n)
  <2>1. PICK m \in task[n].move :
          task' = [task EXCEPT ![n].pc = "update", ![n].move = @ \ {m}]
    BY <1>5 DEF TaskUpdate
  <2>2. /\ UNCHANGED <<topology_lock, topology_loop, monitor>>
        /\ update_lock' = NULL /\ task[n].pc = "write"
    BY <1>5 DEF TaskUpdate
  <2> QED BY <1>1, <2>1, <2>2 DEF MonitorTypeOK
<1>6. CASE TaskEnd(n)
  BY <1>1, <1>6, Asleep DEF TaskEnd, MonitorTypeOK, registry, vars, Optional
<1> QED BY <1>2, <1>3, <1>4, <1>5, <1>6 DEF TaskNext

\* Every step of a topology task keeps the invariant.
LEMMA TaskStep ==
  ASSUME MonitoredInv, NEW n \in NetworkIds, TaskNext(n)
  PROVE  MonitoredInv'
<1>1. UNCHANGED <<db, available_devices, pc, local, monitor>>
  BY TopologyDevices DEF TopologyNext
<1>2. TypeInv'
  <2>1. update_lock' \in Optional(Handlers \cup BackgroundTasks)
    BY TaskState, MonitoredAssumption DEF MonitoredInv, TypeInv, TypeOK, Optional
  <2> QED BY <1>1, <2>1, RewritesType DEF MonitoredInv, db
<1>3. LockInv'
  BY <1>1, TaskState, LockInvKept, Owners DEF MonitoredInv
<1>4. LockOwners'
  <2>1. /\ topology_lock' = Monitor <=> topology_lock = Monitor
        /\ update_lock' = Monitor <=> update_lock = Monitor
    BY TaskState, Owners
  <2>2. ASSUME NEW k \in NetworkIds
        PROVE  /\ topology_lock' = k <=> task'[k].pc \in {"update", "write"}
               /\ update_lock' = k <=> task'[k].pc = "write"
    <3>1. CASE k = n
      BY <3>1, TaskState, Owners DEF MonitoredInv, LockOwners
    <3>2. CASE k # n
      BY <3>2, TaskState, Owners DEF MonitoredInv, LockOwners
    <3> QED BY <3>1, <3>2
  <2> QED BY <1>1, <2>1, <2>2 DEF MonitoredInv, LockOwners
<1>5. MonitorTypeOK' /\ MonitorOK' /\ RoundOK'
  BY <1>1, TaskState DEF MonitoredInv, MonitorOK, RoundOK, Known
<1> QED BY <1>2, <1>3, <1>4, <1>5 DEF MonitoredInv

\* So do the steps that begin and end a topology round.
LEMMA TopologyStep ==
  ASSUME MonitoredInv, TopologyNext
  PROVE  MonitoredInv'
<1>1. CASE TopologyStart \/ TopologyEnd
  <2>1. UNCHANGED <<registry, topology_lock, monitor>>
    BY <1>1 DEF TopologyStart, TopologyEnd
  <2>2. TypeInv' /\ LockInv' /\ MonitorOK'
    <3>1. TypeInv'
      BY <2>1, RewritesType DEF MonitoredInv, TypeInv, TypeOK, registry, vars
    <3> QED
      BY <2>1, <3>1, LockInvKept DEF MonitoredInv, MonitorOK, Known, registry, vars
  <2>3. RoundOK' /\ task' \in [NetworkIds ->
                 [pc : {"done", "list", "lock", "update", "write"},
                  snapshot : Snapshots,
                  move : SUBSET [device : DeviceIds, ip_address : Ips]]]
        /\ \A n \in NetworkIds : /\ task[n].pc = "done"
                                 /\ task'[n].pc \in {"done", "list"}
    <3>1. CASE TopologyStart
      BY <3>1 DEF TopologyStart, MonitoredInv, MonitorTypeOK, RoundOK
    <3>2. CASE TopologyEnd
      BY <3>2 DEF TopologyEnd, MonitoredInv, MonitorTypeOK, RoundOK
    <3> QED BY <1>1, <3>1, <3>2
  <2> QED
    BY <2>1, <2>2, <2>3
       DEF MonitoredInv, MonitorTypeOK, LockOwners, registry, vars
<1> QED BY <1>1, TaskStep DEF TopologyNext

-----------------------------------------------------------------------------
(* The theorems.                                                           *)

\* However requests, scans, monitor rounds and topology rounds interleave, the
\* state keeps its type, both locks have the owners they should have, and the
\* monitor writes back only what it has read.
THEOREM MonitoredInvariant == MonitoredSpec => []MonitoredInv
<1>1. MonitoredInit => MonitoredInv
  <2> SUFFICES ASSUME MonitoredInit PROVE MonitoredInv
    OBVIOUS
  <2>1. TypeInv /\ LockInv
    BY InitTypeInv, LockInvInit DEF MonitoredInit
  <2>2. MonitorTypeOK /\ MonitorOK /\ RoundOK
    BY Asleep DEF MonitoredInit, MonitorTypeOK, MonitorOK, RoundOK, Optional
  <2>3. LockOwners
    BY Asleep, Owners DEF MonitoredInit, Init, LockOwners
  <2> QED BY <2>1, <2>2, <2>3 DEF MonitoredInv
<1>2. MonitoredInv /\ [MonitoredNext]_allVars => MonitoredInv'
  <2> SUFFICES ASSUME MonitoredInv, [MonitoredNext]_allVars PROVE MonitoredInv'
    OBVIOUS
  <2>1. CASE UNCHANGED allVars
    <3>1. TypeInv'
      BY <2>1, RewritesType
         DEF allVars, registry, vars, MonitoredInv, TypeInv, TypeOK
    <3> QED
      BY <2>1, <3>1, LockInvKept
         DEF allVars, registry, vars, backVars, MonitoredInv, MonitorTypeOK,
             MonitorOK, RoundOK, LockOwners, Known
  <2> QED BY <2>1, RegistryStep, MonitorStep, TopologyStep DEF MonitoredNext
<1> QED BY <1>1, <1>2, PTL DEF MonitoredSpec

\* topology_lock and DEVICE_UPDATE_LOCK are held exactly by the loops that are
\* between acquiring and releasing them, so no task updates addresses while the
\* monitor holds documents that it will write back.
THEOREM LockOwnersCorrect == MonitoredSpec => []LockOwners
<1>1. MonitoredInv => LockOwners
  BY DEF MonitoredInv
<1> QED BY <1>1, MonitoredInvariant, PTL

\* With the loops running the lock still belongs to the edit that is about to
\* write a changed address, and to no other request.
THEOREM MonitoredLockCorrect == MonitoredSpec => []UpdateLockOwner
<1>1. MonitoredInv => UpdateLockOwner
  BY DEF MonitoredInv, LockInv
<1> QED BY <1>1, MonitoredInvariant, PTL

\* The monitor's late writes, of documents that may be deleted by then, bring no
\* device back either: with the loops running the registry still implements the
\* life cycle of a device record.
THEOREM MonitoredLifecycle == MonitoredSpec => LifecycleSpec
<1>1. MonitoredInv /\ [MonitoredNext]_allVars => [Lifecycle!Next]_StatusOf
  <2> SUFFICES ASSUME MonitoredInv, [MonitoredNext]_allVars
               PROVE  Lifecycle!Next \/ UNCHANGED StatusOf
    OBVIOUS
  <2>1. TypeInv
    BY DEF MonitoredInv
  <2>2. CASE ArpScan \/ UNCHANGED allVars
    BY <2>2 DEF ArpScan, allVars, registry, vars, db, StatusOf
  <2>3. ASSUME NEW h \in Handlers, RequestNext(h)
        PROVE  Lifecycle!Next \/ UNCHANGED StatusOf
    BY <2>1, <2>3, DevicesStep, LifecycleStep
  <2>4. CASE MonitorNext
    BY <2>1, <2>4, MonitorDevices, LifecycleStep
  <2>5. CASE TopologyNext
    BY <2>5, TopologyDevices DEF db, StatusOf
  <2> QED BY <2>2, <2>3, <2>4, <2>5 DEF MonitoredNext, RegistryNext, Next
<1>2. MonitoredInit => Lifecycle!Init
  BY LifecycleInit DEF MonitoredInit
<1> QED
  BY <1>1, <1>2, MonitoredInvariant, PTL
     DEF MonitoredSpec, LifecycleSpec, Lifecycle!Spec, StatusOf

=============================================================================
