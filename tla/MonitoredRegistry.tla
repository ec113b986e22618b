------------------------- MODULE MonitoredRegistry -------------------------
(***************************************************************************)
(* The device registry together with the two background loops that         *)
(* MonitorController runs in the same event loop: the monitor round, which *)
(* probes every device and writes what it reports back to the database,    *)
(* and the topology round, one task per network, which corrects the IP of  *)
(* a device whose name was seen at another address.                        *)
(*                                                                         *)
(* A monitor round holds topology_lock from its first read to its          *)
(* broadcast; a topology task takes it for its last section only.  Both    *)
(* take DEVICE_UPDATE_LOCK inside, for each write.  asyncio.Lock wakes its *)
(* waiters in the order they came, hence strong fairness of each task.     *)
(***************************************************************************)
EXTENDS DeviceRegistry

CONSTANT Monitor             \* the device_monitor_loop coroutine

ASSUME MonitoredAssumption ==
  /\ BackgroundTasks = {Monitor} \cup NetworkIds
  /\ Monitor \notin NetworkIds

VARIABLES
  topology_lock,   \* holder of MonitorController.topology_lock, or NULL
  monitor,         \* the monitor round: pc, device list read, pending syncs
  topology_loop,   \* "sleep", "discover" or "dead"
  task             \* per network: pc, devices read, IP updates still to do

registry == vars
backVars == <<topology_lock, monitor, topology_loop, task>>
allVars == <<registry, backVars>>

NoSnapshot == [d \in DeviceIds |-> NULL]
Known(snapshot) == {d \in DeviceIds : snapshot[d] # NULL}

\* monitor.pc goes through sleep, list, probe, sync and write, with the device
\* dev_id_str to sync and the reporters still to sync; task.pc through done,
\* list, lock, update and write.
MonitorAsleep == [pc |-> "sleep", snapshot |-> NoSnapshot,
                  dev_id_str |-> NULL, sync |-> {}]
TaskDone == [pc |-> "done", snapshot |-> NoSnapshot, move |-> {}]

MonitoredInit ==
  /\ Init
  /\ topology_lock = NULL
  /\ monitor = MonitorAsleep
  /\ topology_loop = "sleep"
  /\ task = [n \in NetworkIds |-> TaskDone]

-----------------------------------------------------------------------------
(* device_monitor_loop                                                     *)

MonitorAcquire ==
  /\ monitor.pc = "sleep"
  /\ topology_lock = NULL
  /\ topology_lock' = Monitor
  /\ monitor' = [monitor EXCEPT !.pc = "list"]
  /\ UNCHANGED <<registry, topology_loop, task>>

MonitorList ==
  /\ monitor.pc = "list"
  /\ monitor' = [monitor EXCEPT !.pc = "probe", !.snapshot = devices_collection]
  /\ UNCHANGED <<registry, topology_lock, topology_loop, task>>

\* The end of a round, normal or not: "async with" releases topology_lock and
\* the finally clause sleeps.
MonitorRelease ==
  /\ topology_lock' = NULL
  /\ monitor' = MonitorAsleep
  /\ UNCHANGED <<registry, topology_loop, task>>

\* No devices or no profiles: the round is skipped.
MonitorSkip ==
  /\ monitor.pc = "probe"
  /\ Known(monitor.snapshot) = {} \/ profiles_collection = {}
  /\ MonitorRelease

\* Devices answer the ping or not, and their actions yield a name or not.  Every
\* result is filed under dev_id_str, which the ping loop has left at the last
\* device of the list; "sync" keeps the devices that report a name other than
\* the one in that device's document.
MonitorProbe ==
  LET snapshot == monitor.snapshot IN
  /\ monitor.pc = "probe"
  /\ profiles_collection # {}
  /\ \E last \in Known(snapshot) :
       /\ \A d \in Known(snapshot) : d <= last
       /\ \E reporting \in SUBSET {d \in Known(snapshot) :
                                     snapshot[d].profileId \in profiles_collection} :
            monitor' = [monitor EXCEPT
              !.pc = "sync",
              !.dev_id_str = last,
              !.sync = {d \in reporting : NameAt[snapshot[d].ip_address]
                                            # snapshot[last].name}]
  /\ UNCHANGED <<registry, topology_lock, topology_loop, task>>

MonitorSyncLock ==
  /\ monitor.pc = "sync"
  /\ monitor.sync # {}
  /\ update_lock = NULL
  /\ update_lock' = Monitor
  /\ monitor' = [monitor EXCEPT !.pc = "write"]
  /\ UNCHANGED <<db, available_devices, pc, local,
                 topology_lock, topology_loop, task>>

\* The result of reporter, the next in the order of the list, is dealt with: the
\* devices collection and the lock become what is given.
SyncResult(reporter, collection, lock) ==
  /\ monitor.pc = "write"
  /\ \A d \in monitor.sync : reporter <= d
  /\ devices_collection' = collection
  /\ update_lock' = lock
  /\ monitor' = [monitor EXCEPT !.pc = "sync", !.sync = @ \ {reporter}]
  /\ UNCHANGED <<inserted, networks_collection, profiles_collection,
                 available_devices, pc, local, topology_lock, topology_loop, task>>

\* The whole document read at the start of the round, with the new name.
Synced(reporter) ==
  [monitor.snapshot[monitor.dev_id_str] EXCEPT
     !.name = NameAt[monitor.snapshot[reporter].ip_address]]

\* find_one_and_update: nothing is inserted if the document was deleted.
Updated(d, document) ==
  IF d \in Live THEN [devices_collection EXCEPT ![d] = document]
  ELSE devices_collection

\* Mutants: the write is an upsert; the exception leaves the lock behind.
SyncUpserts ==
  \E reporter \in monitor.sync :
    SyncResult(reporter, [devices_collection EXCEPT
                            ![monitor.dev_id_str] = Synced(reporter)], NULL)

SyncKeepsLock ==
  \E reporter \in monitor.sync :
    SyncResult(reporter, Updated(monitor.dev_id_str, Synced(reporter)),
               IF monitor.dev_id_str \in Live THEN NULL ELSE Monitor)

\* edit_device_by_id under DEVICE_UPDATE_LOCK.  If the document is gone, the
\* exception that this raises is caught after the lock is released.
MonitorSyncWrite ==
  \E reporter \in monitor.sync :
    SyncResult(reporter, Updated(monitor.dev_id_str, Synced(reporter)), NULL)

\* The networks are listed and the result is broadcast.
MonitorBroadcast ==
  /\ monitor.pc = "sync"
  /\ monitor.sync = {}
  /\ MonitorRelease

\* Mutant: the exception leaves topology_lock behind.
MonitorFailKeepsLock ==
  /\ monitor.pc \in {"list", "probe"}
  /\ monitor' = MonitorAsleep
  /\ UNCHANGED <<registry, topology_lock, topology_loop, task>>

\* A database read fails: "except Exception" ends the round.
MonitorFail ==
  /\ monitor.pc \in {"list", "probe"}
  /\ MonitorRelease

MonitorNext == \/ MonitorAcquire \/ MonitorList \/ MonitorSkip \/ MonitorProbe
               \/ MonitorSyncLock \/ MonitorSyncWrite \/ MonitorBroadcast
               \/ MonitorFail

-----------------------------------------------------------------------------
(* topology_loop and its tasks                                             *)

\* discover_networks_topology lists the networks and starts a task for each.
TopologyStart ==
  /\ topology_loop = "sleep"
  /\ topology_loop' = "discover"
  /\ task' = [n \in NetworkIds |->
                IF n \in LiveNetworks THEN [task[n] EXCEPT !.pc = "list"]
                ELSE task[n]]
  /\ UNCHANGED <<registry, topology_lock, monitor>>

\* The network's devices are read, and those of them that answer SNMP teach the
\* mapping table the name found at their IP.  "move" are the devices whose name
\* the table has at another IP.  Without devices the task is over; an exception
\* during discovery ends it too.
TaskList(n) ==
  LET read == [d \in DeviceIds |->
                 IF d \in DevicesOf(n) THEN devices_collection[d] ELSE NULL]
      Learned(name) == {ip \in Ips : /\ NameAt[ip] = name
                                     /\ \E d \in DevicesOf(n) :
                                          read[d].ip_address = ip}
  IN
  /\ task[n].pc = "list"
  /\ \/ \E name_to_ip \in [Names -> Optional(Ips)] :
          /\ DevicesOf(n) # {}
          /\ \A name \in Names : name_to_ip[name] \in Optional(Learned(name))
          /\ task' = [task EXCEPT ![n] =
               [pc |-> "lock", snapshot |-> read,
                move |-> {m \in [device : DevicesOf(n), ip_address : Ips] :
                            /\ m.ip_address = name_to_ip[read[m.device].name]
                            /\ m.ip_address # read[m.device].ip_address}]]
     \/ task' = [task EXCEPT ![n] = TaskDone]
  /\ UNCHANGED <<registry, topology_lock, monitor, topology_loop>>

TaskLock(n) ==
  /\ task[n].pc = "lock"
  /\ topology_lock = NULL
  /\ topology_lock' = n
  /\ task' = [task EXCEPT ![n].pc = "update"]
  /\ UNCHANGED <<registry, monitor, topology_loop>>

TaskUpdateLock(n) ==
  /\ task[n].pc = "update"
  /\ task[n].move # {}
  /\ update_lock = NULL
  /\ update_lock' = n
  /\ task' = [task EXCEPT ![n].pc = "write"]
  /\ UNCHANGED <<db, available_devices, pc, local,
                 topology_lock, monitor, topology_loop>>

\* update_device_ip looks for a conflict with an IPv4Address object in the
\* query, which the driver cannot encode: whatever the document is by now, the
\* call ends without a write.  The exception is caught, the lock released.
TaskUpdate(n) ==
  /\ task[n].pc = "write"
  /\ \E m \in task[n].move :
       /\ \A k \in task[n].move : m.device <= k.device
       /\ task' = [task EXCEPT ![n].pc = "update", ![n].move = @ \ {m}]
  /\ update_lock' = NULL
  /\ UNCHANGED <<db, available_devices, pc, local,
                 topology_lock, monitor, topology_loop>>

\* Mutant: topology_lock is not released.
TaskEndKeepsLock(n) ==
  /\ task[n].pc = "update"
  /\ task[n].move = {}
  /\ task' = [task EXCEPT ![n] = TaskDone]
  /\ UNCHANGED <<registry, topology_lock, monitor, topology_loop>>

TaskEnd(n) ==
  /\ task[n].pc = "update"
  /\ task[n].move = {}
  /\ topology_lock' = NULL
  /\ task' = [task EXCEPT ![n] = TaskDone]
  /\ UNCHANGED <<registry, monitor, topology_loop>>

\* All tasks are awaited and the graphs are broadcast.  The loop has no
\* exception handler: an exception of broadcast ends it for good.
TopologyEnd ==
  /\ topology_loop = "discover"
  /\ \A n \in NetworkIds : task[n].pc = "done"
  /\ topology_loop' \in {"sleep", "dead"}
  /\ UNCHANGED <<registry, topology_lock, monitor, task>>

TaskNext(n) == \/ TaskList(n) \/ TaskLock(n) \/ TaskUpdateLock(n)
               \/ TaskUpdate(n) \/ TaskEnd(n)

TopologyNext == TopologyStart \/ TopologyEnd \/ \E n \in NetworkIds : TaskNext(n)

-----------------------------------------------------------------------------
RegistryNext == Next /\ UNCHANGED backVars

\* A handler that has accepted a request goes on with it.
Proceed(h) == pc[h] # "idle" /\ RequestNext(h) /\ UNCHANGED backVars

MonitoredNext == RegistryNext \/ MonitorNext \/ TopologyNext

MonitoredSpec == MonitoredInit /\ [][MonitoredNext]_allVars

\* Timers fire and awaited calls answer; waiters of a lock are served in order.
Fairness == /\ \A h \in Handlers : SF_allVars(Proceed(h))
            /\ SF_allVars(MonitorNext)
            /\ WF_allVars(TopologyStart \/ TopologyEnd)
            /\ \A n \in NetworkIds : SF_allVars(TaskNext(n))

FairSpec == MonitoredSpec /\ Fairness

-----------------------------------------------------------------------------
(* Properties.                                                             *)

\* The two locks are held exactly by the coroutines whose code is between
\* acquiring and releasing them, so a topology task never updates IPs while the
\* monitor holds a device list it will write back.
LockOwners ==
  /\ topology_lock = Monitor <=> monitor.pc # "sleep"
  /\ update_lock = Monitor <=> monitor.pc = "write"
  /\ \A n \in NetworkIds :
       /\ topology_lock = n <=> task[n].pc \in {"update", "write"}
       /\ update_lock = n <=> task[n].pc = "write"

\* Neither failures, nor devices deleted in the middle of a round, nor the two
\* locks stop the monitor: rounds begin and end for ever.
MonitorRepeats == /\ []<>(monitor.pc = "sleep")
                  /\ []<>(monitor.pc # "sleep")

\* Every accepted request is answered although the loops compete for the lock.
RequestsAnswered == \A h \in Handlers : pc[h] # "idle" ~> pc[h] = "idle"

\* A topology round ends: its tasks get both locks in the end.
TopologyRoundEnds == topology_loop = "discover" ~> topology_loop # "discover"

\* What the monitor writes back is what the devices reported: a step of the
\* monitor leaves addresses, network and profile of every device alone.
MonitorWritesReportsOnly ==
  [][MonitorNext =>
       \A d \in Live : /\ devices_collection'[d] # NULL
                       /\ [devices_collection'[d] EXCEPT !.name = NULL]
                            = [devices_collection[d] EXCEPT !.name = NULL]]_allVars

=============================================================================
