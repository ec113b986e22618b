--------------------------- MODULE DeviceRegistry ---------------------------
(***************************************************************************)
(* The device registry of the RFSight backend: the Mongo collections       *)
(* devices, networks and profiles, the list of hosts that the adoption     *)
(* thread discovers with arp-scan, and the HTTP handlers that adopt, edit  *)
(* and delete devices, networks and profiles.                              *)
(*                                                                         *)
(* The handlers are coroutines of one asyncio event loop.  Every await on  *)
(* the database is a point where another handler may run, the database has *)
(* no transaction and no unique index, so a handler is a sequence of       *)
(* actions, one per await, and whatever it read earlier may be stale.  The *)
(* code between two awaits touches only the handler's own variables,       *)
(* except where it reads available_devices or takes DEVICE_UPDATE_LOCK:    *)
(* these have an action of their own.  A request that its first database   *)
(* read rejects changes nothing and is not a step.                         *)
(***************************************************************************)
EXTENDS Integers, FiniteSets, Sequences

CONSTANTS Macs, Ips, Names,    \* addresses, and the names devices report
          NetworkIds,          \* networks that exist when the system starts
          ProfileIds,          \* profiles that exist when the system starts
          Handlers,            \* HTTP requests the event loop serves at a time
          Requests,            \* kinds of request the clients send
          EditPayloads,        \* bodies of the edit requests
          Sweeps,              \* lists of new hosts an ARP scan may leave
          NameAt,              \* the name the box that answers on an IP reports
          InitialDevices,      \* documents stored when the backend starts
          BackgroundTasks,     \* other coroutines that take DEVICE_UPDATE_LOCK
          MaxDevices,          \* bound: device documents ever inserted
          NULL                 \* Python's None, and the absence of a document

RequestKinds == {"adopt", "edit", "delete", "edit_network", "delete_network",
                 "delete_profile"}

Optional(S) == S \cup {NULL}

DeviceIds == 1..MaxDevices

Device == [mac_address : Macs, ip_address : Ips, name : Names,
           networkId : Optional(NetworkIds), profileId : Optional(ProfileIds)]

DiscoveredDevice == [mac_address : Macs, ip_address : Ips]

DeviceUpdate == [mac_address : Optional(Macs), ip_address : Optional(Ips),
                 networkId : Optional(NetworkIds),
                 profileId : Optional(ProfileIds)]

\* An element of a network document's "devices" list: a device id, stored as
\* an ObjectId ("oid") or as its string form ("str").  Mongo does not match
\* one with the other.
Entry == [device : DeviceIds, kind : {"oid", "str"}]

\* A handler's local variables: the payload, the device it works on, and what
\* it read from the database.
Locals == [device : Optional(DeviceIds), read : Optional(Device),
           mac_address : Optional(Macs), ip_address : Optional(Ips),
           networkId : Optional(NetworkIds), profileId : Optional(ProfileIds),
           list : SUBSET Entry]

NoLocals == [device |-> NULL, read |-> NULL, mac_address |-> NULL,
             ip_address |-> NULL, networkId |-> NULL, profileId |-> NULL,
             list |-> {}]

AdoptSteps == {"adopt_check", "adopt_find", "adopt_profile", "adopt_name",
               "adopt_mac", "adopt_ip", "adopt_insert"}
Steps == AdoptSteps \cup
         {"idle", "adopt_target", "adopt_push",
          "edit_match", "edit_network", "edit_profile", "edit_mac", "edit_ip",
          "edit_lock", "edit_write", "delete_find", "delete_pull",
          "network_write", "purge_find", "purge_delete", "profile_clear"}

ASSUME RegistryAssumption ==
  /\ MaxDevices \in Nat
  /\ NameAt \in [Ips -> Names]
  /\ Sweeps \subseteq Seq(DiscoveredDevice)
  /\ Requests \subseteq RequestKinds
  /\ EditPayloads \subseteq DeviceUpdate
  /\ InitialDevices \in Seq(Device)
  /\ Len(InitialDevices) <= MaxDevices
  /\ NULL \notin Device
  /\ \A list \in SUBSET Entry : list # NULL
  /\ NULL \notin Macs \cup Ips \cup NetworkIds \cup ProfileIds
  /\ NULL \notin Handlers \cup BackgroundTasks
  /\ Handlers \cap BackgroundTasks = {}
  /\ NULL \notin Nat

VARIABLES
  devices_collection,   \* device documents by id, NULL where there is none
  inserted,             \* ids given out so far: ObjectIds are never reused
  networks_collection,  \* the "devices" list of each network document, or NULL
  profiles_collection,  \* ids of the profile documents
  available_devices,    \* AdoptionController.available_devices
  update_lock,          \* holder of DEVICE_UPDATE_LOCK, or NULL
  pc, local             \* where each handler is, and its local variables

db == <<devices_collection, inserted, networks_collection, profiles_collection>>
vars == <<devices_collection, inserted, networks_collection,
          profiles_collection, available_devices, update_lock, pc, local>>

Live == {d \in DeviceIds : devices_collection[d] # NULL}
LiveNetworks == {n \in NetworkIds : networks_collection[n] # NULL}

Init ==
  /\ devices_collection =
       [d \in DeviceIds |-> IF d <= Len(InitialDevices)
                            THEN InitialDevices[d] ELSE NULL]
  /\ inserted = Len(InitialDevices)
  /\ networks_collection =
       [n \in NetworkIds |->
          {e \in Entry : /\ e.kind = "oid"
                         /\ e.device <= Len(InitialDevices)
                         /\ InitialDevices[e.device].networkId = n}]
  /\ profiles_collection = ProfileIds
  /\ available_devices = <<>>
  /\ update_lock = NULL
  /\ pc = [h \in Handlers |-> "idle"]
  /\ local = [h \in Handlers |-> NoLocals]

-----------------------------------------------------------------------------
(* Control of a handler.                                                   *)

Step(h, next, l) == /\ pc' = [pc EXCEPT ![h] = next]
                    /\ local' = [local EXCEPT ![h] = l]
Goto(h, next) == Step(h, next, local[h])
Reply(h) == Step(h, "idle", NoLocals)

Arrives(h, kind) == pc[h] = "idle" /\ kind \in Requests

-----------------------------------------------------------------------------
(* Discovery of hosts: the adoption thread, and the two lookups.           *)

\* The part of a scan whose MACs are not yet listed is appended; a known MAC
\* keeps the address it was first seen with, and no entry is ever removed.
ArpScan ==
  \E new_devices \in Sweeps :
    /\ \A i \in DOMAIN new_devices, j \in DOMAIN available_devices :
         new_devices[i].mac_address # available_devices[j].mac_address
    /\ available_devices' = available_devices \o new_devices
    /\ UNCHANGED <<db, update_lock, pc, local>>

\* Entries that answer to the requested MAC or to the requested IP.  With both
\* requested, an entry that has either one is a match.
Matches(mac, ip) ==
  {i \in DOMAIN available_devices :
     \/ mac # NULL /\ available_devices[i].mac_address = mac
     \/ ip # NULL /\ available_devices[i].ip_address = ip}

-----------------------------------------------------------------------------
(* POST /device/adopt                                                      *)

\* The request arrives; the network it names is read.  A request without a
\* profile is rejected by get_profile_by and is left out.
AdoptDevice(h) ==
  /\ Arrives(h, "adopt")
  /\ inserted + Cardinality({g \in Handlers : pc[g] \in AdoptSteps}) < MaxDevices
  /\ \E mac \in Optional(Macs), ip \in Optional(Ips),
        net \in Optional(LiveNetworks), profile \in ProfileIds :
       /\ mac # NULL \/ ip # NULL
       /\ Step(h, "adopt_check",
               [NoLocals EXCEPT !.mac_address = mac, !.ip_address = ip,
                                !.networkId = net, !.profileId = profile])
  /\ UNCHANGED <<db, available_devices, update_lock>>

\* "Already adopted" is decided on the MAC if there is one, else on the IP.
AlreadyAdopted(l) ==
  \E d \in Live :
    IF l.mac_address # NULL
    THEN devices_collection[d].mac_address = l.mac_address
    ELSE devices_collection[d].ip_address = l.ip_address

AdoptCheck(h) ==
  /\ pc[h] = "adopt_check"
  /\ IF AlreadyAdopted(local[h]) THEN Reply(h) ELSE Goto(h, "adopt_find")
  /\ UNCHANGED <<db, available_devices, update_lock>>

\* Mutant: a match does not correct the payload.
AdoptFindUncorrected(h) ==
  /\ pc[h] = "adopt_find"
  /\ \/ /\ Matches(local[h].mac_address, local[h].ip_address) # {}
        /\ Goto(h, "adopt_profile")
     \/ Reply(h)
  /\ UNCHANGED <<db, available_devices, update_lock>>

\* find_device under the list's lock: the first entry that matches gives both
\* addresses.  wait_device_connectivity blocks the event loop, so nothing
\* else happens until it answers.
AdoptFind(h) ==
  LET found == Matches(local[h].mac_address, local[h].ip_address) IN
  /\ pc[h] = "adopt_find"
  /\ \/ \E i \in found :
          /\ \A j \in found : i <= j
          /\ Step(h, "adopt_profile",
                  [local[h] EXCEPT
                     !.mac_address = available_devices[i].mac_address,
                     !.ip_address = available_devices[i].ip_address])
     \/ Reply(h)       \* no entry, or the device is not reachable
  /\ UNCHANGED <<db, available_devices, update_lock>>

\* The profile is read and its monitor actions are run on the device.  If they
\* do not yield all of name, model, firmware and location, building the Device
\* fails.
AdoptProfile(h) ==
  /\ pc[h] = "adopt_profile"
  /\ \/ local[h].profileId \in profiles_collection /\ Goto(h, "adopt_name")
     \/ Reply(h)
  /\ UNCHANGED <<db, available_devices, update_lock>>

\* create_device reads three times before it decides; the reads change nothing,
\* so a reply at the first clash is the same.
AdoptUnique(h) ==
  LET l == local[h]
      Taken(field, value) == \E d \in Live : devices_collection[d][field] = value
  IN
  /\ \/ /\ pc[h] = "adopt_name"
        /\ IF Taken("name", NameAt[l.ip_address])
           THEN Reply(h) ELSE Goto(h, "adopt_mac")
     \/ /\ pc[h] = "adopt_mac"
        /\ IF Taken("mac_address", l.mac_address)
           THEN Reply(h) ELSE Goto(h, "adopt_ip")
     \/ /\ pc[h] = "adopt_ip"
        /\ IF Taken("ip_address", l.ip_address)
           THEN Reply(h) ELSE Goto(h, "adopt_insert")
  /\ UNCHANGED <<db, available_devices, update_lock>>

AdoptedDevice(l) ==
  [mac_address |-> l.mac_address, ip_address |-> l.ip_address,
   name |-> NameAt[l.ip_address], networkId |-> l.networkId,
   profileId |-> l.profileId]

AdoptInsert(h) ==
  /\ pc[h] = "adopt_insert"
  /\ inserted < MaxDevices
  /\ inserted' = inserted + 1
  /\ devices_collection' =
       [devices_collection EXCEPT ![inserted + 1] = AdoptedDevice(local[h])]
  /\ IF local[h].networkId = NULL
     THEN Reply(h)
     ELSE Step(h, "adopt_target", [local[h] EXCEPT !.device = inserted + 1])
  /\ UNCHANGED <<networks_collection, profiles_collection, available_devices,
                 update_lock>>

\* move_device_to_network: if the network is gone by now the request fails and
\* the inserted document stays.
AdoptTarget(h) ==
  /\ pc[h] = "adopt_target"
  /\ IF local[h].networkId \in LiveNetworks
     THEN Goto(h, "adopt_push") ELSE Reply(h)
  /\ UNCHANGED <<db, available_devices, update_lock>>

\* The bulk write pulls and pushes the ObjectId; on a network deleted since the
\* read it matches nothing and is acknowledged all the same.
AdoptPush(h) ==
  LET n == local[h].networkId
      entry == [device |-> local[h].device, kind |-> "oid"]
  IN
  /\ pc[h] = "adopt_push"
  /\ networks_collection' =
       IF n \in LiveNetworks
       THEN [networks_collection EXCEPT ![n] = @ \cup {entry}]
       ELSE networks_collection
  /\ Reply(h)
  /\ UNCHANGED <<devices_collection, inserted, profiles_collection,
                 available_devices, update_lock>>

-----------------------------------------------------------------------------
(* POST /device/{id}/edit                                                  *)

\* The request arrives and the document is read.
EditDevice(h) ==
  /\ Arrives(h, "edit")
  /\ \E d \in Live, p \in EditPayloads :
       /\ p.mac_address # NULL \/ p.ip_address # NULL
       /\ Step(h, "edit_match",
               [device |-> d, read |-> devices_collection[d],
                mac_address |-> p.mac_address, ip_address |-> p.ip_address,
                networkId |-> p.networkId, profileId |-> p.profileId,
                list |-> {}])
  /\ UNCHANGED <<db, available_devices, update_lock>>

MacChanged(l) == l.mac_address \notin {NULL, l.read.mac_address}
IpChanged(l) == l.ip_address \notin {NULL, l.read.ip_address}
AddressChanged(l) == MacChanged(l) \/ IpChanged(l)

\* match_discovered_device: a changed address is refused unless the list has an
\* entry for one of the payload's addresses.
EditMatch(h) ==
  /\ pc[h] = "edit_match"
  /\ IF AddressChanged(local[h])
          /\ Matches(local[h].mac_address, local[h].ip_address) = {}
     THEN Reply(h) ELSE Goto(h, "edit_network")
  /\ UNCHANGED <<db, available_devices, update_lock>>

EditNetworkCheck(h) ==
  /\ pc[h] = "edit_network"
  /\ IF local[h].networkId \in Optional(LiveNetworks)
     THEN Goto(h, "edit_profile") ELSE Reply(h)
  /\ UNCHANGED <<db, available_devices, update_lock>>

EditProfileCheck(h) ==
  /\ pc[h] = "edit_profile"
  /\ IF local[h].profileId \in Optional(profiles_collection)
     THEN Goto(h, "edit_mac") ELSE Reply(h)
  /\ UNCHANGED <<db, available_devices, update_lock>>

EditMacCheck(h) ==
  /\ pc[h] = "edit_mac"
  /\ IF /\ MacChanged(local[h])
        /\ \E d \in Live :
             devices_collection[d].mac_address = local[h].mac_address
     THEN Reply(h) ELSE Goto(h, "edit_ip")
  /\ UNCHANGED <<db, available_devices, update_lock>>

\* Mutants: the address is not checked; the request retries on a clash.
EditIpUnchecked(h) ==
  /\ pc[h] = "edit_ip"
  /\ Goto(h, IF AddressChanged(local[h]) THEN "edit_lock" ELSE "edit_write")
  /\ UNCHANGED <<db, available_devices, update_lock>>

EditIpRetries(h) ==
  /\ pc[h] = "edit_ip"
  /\ Goto(h, IF /\ IpChanged(local[h])
                /\ \E d \in Live :
                     devices_collection[d].ip_address = local[h].ip_address
             THEN "edit_mac"
             ELSE IF AddressChanged(local[h]) THEN "edit_lock" ELSE "edit_write")
  /\ UNCHANGED <<db, available_devices, update_lock>>

\* Only an edit that changes an address takes the lock for its write.
EditIpCheck(h) ==
  /\ pc[h] = "edit_ip"
  /\ IF /\ IpChanged(local[h])
        /\ \E d \in Live :
             devices_collection[d].ip_address = local[h].ip_address
     THEN Reply(h)
     ELSE Goto(h, IF AddressChanged(local[h]) THEN "edit_lock" ELSE "edit_write")
  /\ UNCHANGED <<db, available_devices, update_lock>>

EditLock(h) ==
  /\ pc[h] = "edit_lock"
  /\ update_lock = NULL
  /\ update_lock' = h
  /\ Goto(h, "edit_write")
  /\ UNCHANGED <<db, available_devices>>

\* Mutant: fields the payload leaves out are written as None.
EditedDeviceBlanks(l) ==
  [l.read EXCEPT !.mac_address = l.mac_address, !.ip_address = l.ip_address,
                 !.networkId = l.networkId, !.profileId = l.profileId]

\* The document that was read, with the payload's values over it.
EditedDevice(l) ==
  LET Given(value, old) == IF value # NULL THEN value ELSE old
  IN  [l.read EXCEPT !.mac_address = Given(l.mac_address, @),
                     !.ip_address = Given(l.ip_address, @),
                     !.networkId = Given(l.networkId, @),
                     !.profileId = Given(l.profileId, @)]

\* Mutants: the lock is released only if the write finds the document; the
\* write is an upsert.
EditWriteKeepsLock(h) ==
  LET d == local[h].device IN
  /\ pc[h] = "edit_write"
  /\ \/ /\ d \in Live
        /\ devices_collection' =
             [devices_collection EXCEPT ![d] = EditedDevice(local[h])]
        /\ update_lock' = IF AddressChanged(local[h]) THEN NULL ELSE update_lock
     \/ d \notin Live /\ UNCHANGED <<devices_collection, update_lock>>
  /\ Reply(h)
  /\ UNCHANGED <<inserted, networks_collection, profiles_collection,
                 available_devices>>

EditWriteUpserts(h) ==
  /\ pc[h] = "edit_write"
  /\ devices_collection' =
       [devices_collection EXCEPT ![local[h].device] = EditedDevice(local[h])]
  /\ update_lock' = IF AddressChanged(local[h]) THEN NULL ELSE update_lock
  /\ Reply(h)
  /\ UNCHANGED <<inserted, networks_collection, profiles_collection,
                 available_devices>>

\* edit_device_by_id sets every field; find_one_and_update inserts nothing if
\* the document is gone.  Either way "async with" releases the lock.  The
\* networks' lists are not touched, whatever happens to networkId.
EditWrite(h) ==
  LET d == local[h].device IN
  /\ pc[h] = "edit_write"
  /\ devices_collection' =
       IF d \in Live
       THEN [devices_collection EXCEPT ![d] = EditedDevice(local[h])]
       ELSE devices_collection
  /\ update_lock' = IF AddressChanged(local[h]) THEN NULL ELSE update_lock
  /\ Reply(h)
  /\ UNCHANGED <<inserted, networks_collection, profiles_collection,
                 available_devices>>

-----------------------------------------------------------------------------
(* DELETE /device/{id}/delete                                              *)

DeleteDevice(h) ==
  /\ Arrives(h, "delete")
  /\ \E d \in Live :
       /\ devices_collection' = [devices_collection EXCEPT ![d] = NULL]
       /\ IF devices_collection[d].networkId = NULL
          THEN UNCHANGED <<pc, local>>
          ELSE Step(h, "delete_find",
                    [NoLocals EXCEPT !.device = d,
                       !.networkId = devices_collection[d].networkId])
  /\ UNCHANGED <<inserted, networks_collection, profiles_collection,
                 available_devices, update_lock>>

\* remove_device_from_network looks for the ObjectId in the list; it does
\* nothing if the network is gone or lists the device under its string form.
DeleteFind(h) ==
  LET n == local[h].networkId
      entry == [device |-> local[h].device, kind |-> "oid"]
  IN
  /\ pc[h] = "delete_find"
  /\ IF n \in LiveNetworks /\ entry \in networks_collection[n]
     THEN Goto(h, "delete_pull") ELSE Reply(h)
  /\ UNCHANGED <<db, available_devices, update_lock>>

DeletePull(h) ==
  LET n == local[h].networkId
      entry == [device |-> local[h].device, kind |-> "oid"]
  IN
  /\ pc[h] = "delete_pull"
  /\ networks_collection' =
       IF n \in LiveNetworks
       THEN [networks_collection EXCEPT ![n] = @ \ {entry}]
       ELSE networks_collection
  /\ Reply(h)
  /\ UNCHANGED <<devices_collection, inserted, profiles_collection,
                 available_devices, update_lock>>

-----------------------------------------------------------------------------
(* PATCH /network/{id}/edit and DELETE /network/{id}/delete                *)

\* edit_network_by_id reads the whole document ...
EditNetwork(h) ==
  /\ Arrives(h, "edit_network")
  /\ \E n \in LiveNetworks :
       Step(h, "network_write", [NoLocals EXCEPT !.networkId = n,
                                   !.list = networks_collection[n]])
  /\ UNCHANGED <<db, available_devices, update_lock>>

\* Mutants: the list is added to the stored one; the write is an upsert.
NetworkWriteAdds(h) ==
  LET n == local[h].networkId
      list == {[device |-> e.device, kind |-> "str"] : e \in local[h].list}
  IN
  /\ pc[h] = "network_write"
  /\ networks_collection' =
       IF n \in LiveNetworks
       THEN [networks_collection EXCEPT ![n] = @ \cup list]
       ELSE networks_collection
  /\ Reply(h)
  /\ UNCHANGED <<devices_collection, inserted, profiles_collection,
                 available_devices, update_lock>>

NetworkWriteUpserts(h) ==
  /\ pc[h] = "network_write"
  /\ networks_collection' =
       [networks_collection EXCEPT ![local[h].networkId] =
          {[device |-> e.device, kind |-> "str"] : e \in local[h].list}]
  /\ Reply(h)
  /\ UNCHANGED <<devices_collection, inserted, profiles_collection,
                 available_devices, update_lock>>

\* ... and later sets every field of it, the list of devices included, whose
\* ids the Network model has turned into strings.
NetworkWrite(h) ==
  LET n == local[h].networkId
      list == {[device |-> e.device, kind |-> "str"] : e \in local[h].list}
  IN
  /\ pc[h] = "network_write"
  /\ networks_collection' =
       IF n \in LiveNetworks
       THEN [networks_collection EXCEPT ![n] = list]
       ELSE networks_collection
  /\ Reply(h)
  /\ UNCHANGED <<devices_collection, inserted, profiles_collection,
                 available_devices, update_lock>>

DeleteNetwork(h) ==
  /\ Arrives(h, "delete_network")
  /\ \E n \in LiveNetworks :
       /\ networks_collection' = [networks_collection EXCEPT ![n] = NULL]
       /\ Step(h, "purge_find", [NoLocals EXCEPT !.networkId = n])
  /\ UNCHANGED <<devices_collection, inserted, profiles_collection,
                 available_devices, update_lock>>

\* remove_all_network_devices goes by the devices' networkId, not by the list.
DevicesOf(n) == {d \in Live : devices_collection[d].networkId = n}

PurgeFind(h) ==
  /\ pc[h] = "purge_find"
  /\ IF DevicesOf(local[h].networkId) = {}
     THEN Reply(h) ELSE Goto(h, "purge_delete")
  /\ UNCHANGED <<db, available_devices, update_lock>>

\* Mutant: the devices' networkId strings are compared with the ObjectId.
PurgeDeleteNothing(h) ==
  /\ pc[h] = "purge_delete"
  /\ Reply(h)
  /\ UNCHANGED <<db, available_devices, update_lock>>

PurgeDelete(h) ==
  /\ pc[h] = "purge_delete"
  /\ devices_collection' =
       [d \in DeviceIds |-> IF d \in DevicesOf(local[h].networkId)
                            THEN NULL ELSE devices_collection[d]]
  /\ Reply(h)
  /\ UNCHANGED <<inserted, networks_collection, profiles_collection,
                 available_devices, update_lock>>

-----------------------------------------------------------------------------
(* DELETE /profile/{id}/delete                                             *)

DeleteProfile(h) ==
  /\ Arrives(h, "delete_profile")
  /\ \E p \in profiles_collection :
       /\ profiles_collection' = profiles_collection \ {p}
       /\ Step(h, "profile_clear", [NoLocals EXCEPT !.profileId = p])
  /\ UNCHANGED <<devices_collection, inserted, networks_collection,
                 available_devices, update_lock>>

\* remove_devices_profile updates the profiles collection, where no document
\* has a profileId: the devices keep theirs.
ProfileClear(h) ==
  /\ pc[h] = "profile_clear"
  /\ Reply(h)
  /\ UNCHANGED <<db, available_devices, update_lock>>

-----------------------------------------------------------------------------
AdoptNext(h) == \/ AdoptDevice(h) \/ AdoptCheck(h) \/ AdoptFind(h)
                \/ AdoptProfile(h) \/ AdoptUnique(h) \/ AdoptInsert(h)
                \/ AdoptTarget(h) \/ AdoptPush(h)

EditNext(h) == \/ EditDevice(h) \/ EditMatch(h) \/ EditNetworkCheck(h)
               \/ EditProfileCheck(h) \/ EditMacCheck(h) \/ EditIpCheck(h)
               \/ EditLock(h) \/ EditWrite(h)

DeleteNext(h) == DeleteDevice(h) \/ DeleteFind(h) \/ DeletePull(h)

NetworkNext(h) == \/ EditNetwork(h) \/ NetworkWrite(h)
                  \/ DeleteNetwork(h) \/ PurgeFind(h) \/ PurgeDelete(h)

ProfileNext(h) == DeleteProfile(h) \/ ProfileClear(h)

RequestNext(h) == \/ AdoptNext(h) \/ EditNext(h) \/ DeleteNext(h)
                  \/ NetworkNext(h) \/ ProfileNext(h)

Next == ArpScan \/ \E h \in Handlers : RequestNext(h)

Spec == Init /\ [][Next]_vars

-----------------------------------------------------------------------------
(* Properties.                                                             *)

\* Every variable has its type; a handler in the middle of an operation has
\* the local variables that the rest of the operation uses.
TypeOK ==
  /\ devices_collection \in [DeviceIds -> Optional(Device)]
  /\ inserted \in 0..MaxDevices
  /\ networks_collection \in [NetworkIds -> Optional(SUBSET Entry)]
  /\ profiles_collection \subseteq ProfileIds
  /\ available_devices \in Seq(DiscoveredDevice)
  /\ update_lock \in Optional(Handlers \cup BackgroundTasks)
  /\ pc \in [Handlers -> Steps]
  /\ local \in [Handlers -> Locals]

\* DEVICE_UPDATE_LOCK (configs/constants.py) is held exactly by the edit that
\* is about to write a changed address: no two such writes overlap, and none
\* leaves the lock behind, not even when the device was deleted meanwhile.
UpdateLockOwner ==
  \A h \in Handlers :
    update_lock = h <=> pc[h] = "edit_write" /\ AddressChanged(local[h])

\* find_device completes or corrects the payload so that the pair (MAC, IP) an
\* adoption goes on with is one that the scan saw together, and the list that
\* the scan thread extends in the meantime still has it when the document is
\* inserted.
AdoptsDiscoveredHost ==
  \A h \in Handlers :
    pc[h] \in {"adopt_profile", "adopt_name", "adopt_mac", "adopt_ip",
              "adopt_insert"} =>
      \E i \in DOMAIN available_devices :
        /\ available_devices[i].mac_address = local[h].mac_address
        /\ available_devices[i].ip_address = local[h].ip_address

\* A device id is stored at most once over the lists of all networks, in one
\* form or the other: the pages count a network's devices by its list.
ListedOnce ==
  \A n, m \in LiveNetworks :
    \A e \in networks_collection[n], f \in networks_collection[m] :
      e.device = f.device => n = m /\ e = f

\* The registry implements the life cycle of a device record: no stale write of
\* a handler brings a deleted device back, and an id is used once.
Lifecycle ==
  INSTANCE DeviceLifecycle WITH
    Stored <- 1..Len(InitialDevices),
    status <- [d \in DeviceIds |->
                 IF d > inserted THEN "unborn"
                 ELSE IF devices_collection[d] = NULL THEN "gone" ELSE "live"]

LifecycleSpec == Lifecycle!Spec

\* A network that was deleted never returns, although an edit of it may have
\* read it before and writes the whole document back.
DeletedNetworkStaysDeleted ==
  [][\A n \in NetworkIds :
       networks_collection[n] = NULL => networks_collection'[n] = NULL]_vars

\* No two devices have the same MAC, the same IP or the same name.  The checks
\* of create_device and validate_new_device_info ensure it only as long as
\* requests do not overlap.
UniqueDevices ==
  \A d, e \in Live :
    (\E field \in {"mac_address", "ip_address", "name"} :
       devices_collection[d][field] = devices_collection[e][field]) => d = e

Quiet == \A h \in Handlers : pc[h] = "idle"

\* Between requests every device's networkId names an existing network.  Holds
\* as long as requests do not overlap: adoption and edit check the network and
\* its deletion removes the devices.
NoDanglingNetwork ==
  Quiet => \A d \in Live :
             devices_collection[d].networkId \in Optional(LiveNetworks)

=============================================================================
