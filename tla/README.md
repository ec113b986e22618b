# RFSight in TLA+

RFSight is a web application that adopts, monitors and configures wireless
devices.  A FastAPI backend (`src/backend/src`) keeps its documents in MongoDB,
runs two background loops and one discovery thread, and pushes their results to
browsers over websockets; a React console (`src/frontend/src`) shows them, keeps
its copy in Redux slices, and sends the user's changes.  This directory models
both ends: the device registry with every request that touches it, the loops
that run against it, the websocket from the broadcasting list to the slices it
feeds, the sign-in state of a tab, and the console's pages with their dialogs.

## 1. The system

### Concurrency

Everything in the backend except the ARP scan runs in **one asyncio event
loop**.  HTTP handlers, the monitor loop, the topology loop with its tasks, and
the websocket endpoints interleave at `await`, nowhere else.  MongoDB is used
without transactions, versions or unique indexes, so the unit of atomicity is
one database call.  Two `asyncio.Lock`s exist: `DEVICE_UPDATE_LOCK`
(`configs/constants.py`) and `MonitorController.topology_lock`.  The ARP scan is
a daemon thread that shares one list with the handlers under a
`threading.Lock`.  Nothing but MongoDB survives a restart, and no code recovers
anything at start-up.

A tab of the browser is one thread as well: event handlers, React effects, timers
and the callbacks of requests and sockets run one after the other.  A handler
that awaits a request goes on when the answer arrives, on whatever the page shows
by then.  Tabs share the refresh cookie and `localStorage`.

### Components

| component | state | operations | correct when |
|---|---|---|---|
| **Adoption** (`controllers/AdoptionController.py`) | `available_devices`, appended by the scan thread | `_run_task`, `find_device`, `match_discovered_device` | an adoption uses a pair (MAC, IP) that a scan saw together |
| **Device registry** (`routers/devices.py`, `repositories/device.py`) | `devices` collection, `DEVICE_UPDATE_LOCK` | adopt, edit, delete | a deleted device never returns; MAC, IP and name are unique; the lock has its owner |
| **Networks** (`routers/networks.py`, `repositories/network.py`) | `networks` collection, each document with its list of devices | create, edit, delete, move device, remove device | a device is listed once, and where its `networkId` says; a deleted network stays deleted |
| **Profiles** (`routers/profiles.py`, `repositories/profile.py`) | `profiles` collection | create, edit, delete | no device names a profile that is gone |
| **Monitor loop** (`MonitorController.device_monitor_loop`) | `topology_lock`, device list read at the start of a round | ping, run the profile's actions, write back, broadcast | writes only what a device reported, into that device's document; never stops |
| **Topology loop** (`MonitorController.topology_loop`) | mapping table, one task per network | discover, correct IPs, build graph, broadcast | rounds end; corrections arrive |
| **Websocket manager** (`services/websocket_conn_manager.py`, `routers/monitor.py`) | `active_connections` | connect, disconnect, broadcast | every connected client receives every broadcast once; connections that broke are removed |
| **Websocket client** (`store/middleware/websocketMiddleware.ts`) | socket, reconnect timer, heartbeat | connect, reconnect, disconnect, dispatch | always connected again in the end, by one socket |
| **Slices** (`topologySlice.ts`, `monitorSlice.ts`, `timeseriesSlice.ts`, selectors) | nodes, edges, entities, bounded series | merge of REST and websocket data | what is drawn is the latest message; numbers are in range |
| **Authentication in a tab** (`authSlice.ts`, `apiSlice.ts`, `PersistLogin.tsx`, `AuthForm.tsx`, `Header.tsx`) | name, token, persistence flag, refresh cookie | sign in, restore, log out, refresh and retry after 403 | name and token belong together; every request ends |
| **Table pages** (`pages/Networks.tsx`, `Profiles.tsx`, `Organizations.tsx` and their dialogs) | row handed to the dialog, form, requests under way | create, edit, delete | a request does what the user chose |
| **Devices page** (`pages/Devices.tsx`, `DeviceEditDialog.tsx`, `DeviceAdoptionDialog.tsx`) | the same, and a cache of devices by id | adopt, edit, delete | an edit never mixes two devices |
| **Device configuration** (`DeviceActionExecutor.tsx`, `ConfigController.py`) | queue of actions, results | queue, run, show | a run stops at the first failure; results stand below their actions |
| **Profile's actions** (`ProfileActionsList.tsx`, `ActionDialog.tsx`) | actions by name, form of one action | add, rename, retype, delete | one authentication action; others untouched |
| **Users and organization pages** (`Users.tsx`, `UserList.tsx`, `ManageUserForm.tsx`, `PasswordResetDialog.tsx`, `OrganizationTabs.tsx`) | form of a user, session's user, password dialog | register, edit, delete, change password, join an organization | the session agrees with the backend; no new password without the old one |
| **Organizations, users** (backend routers and repositories) | two collections with mutual references | create, edit, move, delete | membership lists and `organizationId` agree |
| **Connectivity wait** (`shared/utils.py`) | - | `wait_device_connectivity` | terminates |
| **Discovery parsers** (`services/discovery.py`) | - | LLDP, station tables, ARP | pure |

How they meet: a device request reads `available_devices`, writes `devices`, then
the list of its network; a network deletion writes `networks`, then `devices`; a
profile deletion writes `profiles` and is meant to write `devices`.  A monitor
round reads `devices` once, probes for seconds, and writes whole documents back
under `DEVICE_UPDATE_LOCK`, all of it inside `topology_lock`.  A topology task
takes `topology_lock` and inside it `DEVICE_UPDATE_LOCK`.  An edit that changes
an address takes `DEVICE_UPDATE_LOCK` alone.  Both loops broadcast through the
one connection list that the endpoints add to and remove from.  In the console
every request passes through `baseQueryWithReAuth`; the websocket's messages and
the answers of queries write the same slices; signing in and restoring a session
dispatch the middleware's `connect` and `disconnect`.

### What is hard about it

* Handlers read, await, and write what they read (`edit_device`,
  `edit_network_by_id`, the monitor's write back).
* Checks and the writes they guard are separated by many awaits (adoption).
* Two collections refer to each other and are updated one after the other; a
  request may fail, or another one run, in between.
* `broadcast` iterates over a list that other coroutines change during its
  awaits, and removes from it itself.
* Two locks, three kinds of coroutine, exceptions inside the locked regions.
* Sockets that were replaced still call back, and their callbacks act on the
  current socket's timers.
* Several requests meet an expired token at once, while another flow or another
  tab signs in or out.
* Dialogs outlive their closing, effects refill their forms, and answers arrive
  when the page shows something else.

`PROJECT.json` lists these as hazards, each at its line, with the properties
that cover it.

## 2. The modules

| module | models | composed of |
|---|---|---|
| `DeviceLifecycle` | what the registry promises about one device record: unborn, live, gone | |
| `DeviceRegistry` | adoption, device, network and profile requests, scan thread | instantiates `DeviceLifecycle` |
| `MonitoredRegistry` | the monitor and topology loops | extends `DeviceRegistry`: all requests interleave with the loops |
| `Broadcast` | connection list, endpoints, both broadcasting loops | |
| `WebsocketClient` | the middleware's sockets and timers, monitor and timeseries slices | stands at the other end of `Broadcast` |
| `TopologyStore` | topology slice, its two writers, the dashboard's selectors | |
| `Session` | the sign-in state of a tab and the flows that write it | |
| `RowDialogs` | the three pages with a table, a dialog and a confirmation | |
| `DevicesPage` | the page of the devices, with the query cache of its edit dialog | |
| `DeviceActions` | the queue of management actions and the controller that runs it | |
| `ProfileEditor` | the list of a profile's actions and the dialog of one action | |
| `UserPages` | users, one user, password dialog, organization tabs | |
| `Pages` | the router: one page is shown, and mounted afresh | extends `RowDialogs`, instantiates the four modules above it |
| `DeviceRegistryProofs`, `BroadcastProofs`, `WebsocketClientProofs`, `TopologyStoreProofs`, `SessionProofs`, `RowDialogsProofs` | theorems | each extends its component |
| `MonitoredRegistryProofs` | theorems about the loops and the registry together | extends `MonitoredRegistry` and `DeviceRegistryProofs` |
| `PagesProofs` | theorems about the pages that `Pages` instantiates | extends `Pages` |
| `MC...` | constants for TLC | |

### DeviceRegistry

`devices_collection`, `networks_collection` and `profiles_collection` are the
Mongo collections.  Of a device it keeps `mac_address`, `ip_address`, `name`,
`networkId` and `profileId`; `name` stands for everything the driver reports
(name, model, firmware, location).  User, password and `is_active` decide
nothing here and are left out.  Of a network it keeps the list of devices, with
each id's form: `move_device_to_network` stores ObjectIds, `edit_network_by_id`
writes strings back (the request model turned them into strings), and MongoDB
does not match one with the other.

A handler is a process `h` with a program counter `pc[h]` and local variables
`local[h]`.  **One action is the code from one await on the database to the
next**: `AdoptDevice`, `AdoptCheck`, `AdoptFind`, `AdoptProfile`, `AdoptUnique`
(three reads), `AdoptInsert`, `AdoptTarget`, `AdoptPush` are `adopt_device` with
everything it calls; `EditDevice` to `EditWrite` are `edit_device`, and so on.
Early returns and exceptions are `Reply(h)`.  Some decisions:

* `find_device` calls `wait_device_connectivity`, which polls with `time.sleep`:
  it blocks the event loop, so scan lookup and poll are one step with two
  outcomes.
* Whether the driver yields a complete name is nondeterministic; which name it
  yields is `NameAt[ip]`, the name of the box that answers at that address.
* Adoption without a profile ends in an error (`get_profile_by` finds none), so
  only requests with a profile are enumerated.  Requests that the first read
  rejects change nothing and are not steps.
* `delete_many` is one step.  `bulk_write(...).acknowledged` is always true with
  the default write concern, so the roll back at `routers/devices.py:102-104`
  is unreachable and has no action.
* `find_one_and_update` on a document that is gone changes nothing; the error
  this causes is a reply.
* `remove_devices_profile` addresses the profiles collection, where no document
  has a `profileId`: `ProfileClear` changes nothing.
* The organization that `delete_network` updates is not part of this module;
  the call reports success also when the organization is gone, so the devices
  are removed in any case.
* A request's calls on MongoDB answer.  An outage or a restart between two
  writes of one request leaves the first one in place; nothing repairs it, and
  it is not modelled.  (`MonitorFail` models failing reads of the monitor, whose
  handler is there for them.)

Bounds: `MaxDevices` caps the documents ever inserted (the guard of
`AdoptDevice` counts adoptions under way, so no accepted request is stuck).

### MonitoredRegistry

`monitor` is the coroutine `device_monitor_loop`: `MonitorAcquire` takes
`topology_lock`, `MonitorList` reads the devices, `MonitorProbe` is the ping
loop and all `get` actions (results are nondeterministic), `MonitorSyncLock` and
`MonitorSyncWrite` write one result back, `MonitorBroadcast`, `MonitorSkip` and
`MonitorFail` end the round.  The ping loop leaves `dev_id_str` at the last
device of the list and the second loop uses it for every result; `MonitorProbe`
keeps that.  `task[n]` is `__single_network_discovery` for network `n`;
`TaskUpdate` is `update_device_ip`, whose query contains an `IPv4Address` object
that the driver cannot encode, so it never writes.  (The driver is external;
this is how it treats types it does not know.)

### Broadcast and WebsocketClient

`active_connections` is the Python list.  An iterator over a Python list is an
index into it: `Advance` reads the list as it is when the iterator is resumed,
so a removal at or before the index makes it pass over an element and an append
makes it go on.  `SendFails` is the except branch of `broadcast` with its call
of `disconnect`; `SendFailsTwice` is the same when the connection is gone
already and `list.remove` raises out of the handler.  The monitor loop catches
that, the topology loop has no handler and ends.  `PeerLeaves` is the outside
world.

At the other end, `current` is the closure variable `socket` of the middleware
and `sock` holds the `readyState` of every socket that exists: the ones it has
dropped live on with their callbacks.  `Connect` is the case `websocket/connect`,
dispatched by the sign-in (`SignInConnects`) and by the timer (`ReconnectFires`);
`Restart` is `websocket/disconnect` followed by `websocket/connect`, as
`useRefreshUserInfo` dispatches them.  `Opened` and `Closed` run for any socket:
`onopen` starts the heartbeat for the socket that is current by then, `onclose`
clears the heartbeat and sets the reconnect timer even when `disconnect` has just
cleared it.  `Received` is `onmessage` for one device and one metric, with
`bulkUpsertDevices` and `pushPoint`.  A closed socket is collected and its number
used again, so reconnecting goes on for ever in a finite model.

### TopologyStore

`SetInitialNetworkDevices` and `MergeTopology` are the two reducers that write
the graph; the first runs from an effect when the device collection has been
fetched, the second for each topology message, and nothing orders them.  A
discovery that raised sends a message without nodes (`ErrorMessage`).  The
throughput of a station is a difference of counters over a difference of times;
the counter may restart and `Date.now()` may stand still.  The operators at the
end are the selectors, in integers as far as the properties need them.

`With` and `Without` are the reducer's `filter` over the existing nodes: what is
kept stays in its order.  They say so by the place of each kept node, where
`SelectSeq` would compute the same, because the provers know nothing of `SelectSeq`.

### Session

A flow (sign-in form, logout, a check of `PersistLogin`, a query) has at most one
request under way: it is sent, with the answer that the server will give fixed at
that time, and its answer is received later, or an error instead of it (`Lost`).
`Refresh`, `Resend` and `GiveUp` are `baseQueryWithReAuth`; `ByToken` is the
verdict of `services/oauth.py`: 403 for an expired token, which is refreshed, 401
for a missing one, which is not.

`guard` is the effect of `PersistLogin`: its `isMounted` is `false` by the time an
answer arrives, so `isLoading` is never set back by it; a changed token makes the
effect run again (`SetAuth`).  An error ends a check in one of two ways: with a
JSON body the hooks turn it into `false` and nothing follows (`RestoreFails`);
with another body `normalizeApiError` and the hooks throw, and the catch of
`PersistLogin` logs out and goes to the form (`RestoreThrows`).  A check goes on
when its page is left, and coming back starts another, so there are several
(`Checks`).  `guard = "refused"` is a ghost of `"waiting"`: a check has failed
since.  `Reload`, `BrowserRestart` and `OtherTab` are what happens to a tab from
outside.

### The pages

The pages follow one pattern and share its hazards.  A dialog stays mounted while
it is closed; an effect on the row it is handed, and on its open flag, refills
its form (`Refill`); a handler runs on when its request is answered (`Saved`,
`Deleted`, `EditSaved`, ...), whatever dialog is open by then.  A page keeps the
components it consists of as variables; the backend serves or refuses each
request once (`Serve`, `Refuse`), and `Refuse` includes an answer that got lost.
Of the handlers in `routers/` the pages see no more than that; what the requests
about devices and networks do step by step is in `DeviceRegistry`.
Of a field's value only its origin is kept: whose data filled it, or that the
user typed it.

* `RowDialogs`: `Networks.tsx`, `Profiles.tsx` and `Organizations.tsx` differ in
  the fields of their forms and in what `setDefaultState` clears, which `Fields`,
  `Required` and `DefaultState` select by `kind`.  `intent` is a ghost: what the
  user asked for since choosing a row or a new document.
* `DevicesPage`: the edit dialog asks for its device by id, and while the answer
  is under way RTK Query still returns the device shown before.  `entries` is
  the cache, which no tag invalidates; a visit may find devices in it that an
  earlier one or the configuration page has fetched.
* `DeviceActions`: `StartReading` and `FileRead` are the two halves of the
  handler that awaits `FileReader`; the second uses the queue of the first.
  `ExecuteAction` is one turn of the loop of `ConfigController`, which does not
  know whether its answer will be read (`AnswerLost`).
* `ProfileEditor`: the cross clears the form, cancel and a saved action do not;
  what is typed into the inputs of a mapping may therefore come from before, in
  both of its inputs or in one.  The stored actions are those the backend accepts
  (`Stored`): `models/Profile.py` knows no `ActionSchema`, so details may be missing
  and authentication may go over SSH.
* `UserPages`: `ManageUserForm` takes its fields when mounted, and the link to
  the own account in the header changes the address under it.  The session's
  user in the store is written by whichever update is answered.  `edit_user` is
  two steps, its checks (`CheckUpdate`) and its write (`WriteUpdate`), between which
  the user may be deleted and other updates written.
* `Pages` is the router.  It lets one page take all steps; the others keep the
  state they would be mounted with.  A visit never returns to a page with state
  left over because leaving unmounts it; what survives leaving (the session's
  user, requests under way) is inside `UserPages`, which has the navigation
  between its pages itself.

## 3. What the runs check

| run | instance | states | shows |
|---|---|---|---|
| `RegistrySerial` | 1 request at a time, 2 hosts, 2 networks, all requests | 2.6 M | `TypeOK`; `UniqueDevices` and `NoDanglingNetwork` hold when requests do not overlap |
| `RegistryEdits` | 2 overlapping requests: adopt, edit, delete | 2.9 M | `UpdateLockOwner`, `AdoptsDiscoveredHost`, and the refinement `LifecycleSpec` |
| `RegistryNetworks` | 2 overlapping requests: adopt, delete, edit and delete of networks | 91 k | `ListedOnce`, `DeletedNetworkStaysDeleted` |
| `MonitorLoops` | both loops, one request at a time (edit, delete), 2 devices | 81 k | `LockOwners`, `LifecycleSpec`; under fairness `MonitorRepeats`, `RequestsAnswered`, `TopologyRoundEnds` |
| `Broadcast` | 2 sockets, 2 loops | 30 k | `SentOnce`, `ReachedUnlessSomeoneLeft`; under fairness `GoneAreRemoved`, `MonitorSurvives` |
| `FeedReconnects` | 4 socket numbers, 3 reports, 2 points | 328 k | `NeverStranded`, `OneFeedUnlessRaced`, `SeriesOrdered`; under fairness `Reconnects` |
| `DashboardGraph` | 2 devices, 1 station, 1 neighbour, 3 clock values | 201 k | `GraphOfLastMessage`, `LinksDrawn`, `HealthInRange`, `RatesFromConsecutiveMessages` |
| `SessionTab` | 2 users, 1 query, 2 checks, 3 events, 2 flows at once | 98 k | `CredentialsWhole`, `MixedOnlyByRetry`; under fairness `RequestsSettle`, `SpinnerEndsUnlessRefused` |
| `Pages` | every page: 2 rows, 2 devices, 2 networks, 3 actions to queue, 2 action names, 2 users, 1 organization | 1.4 M | one to three properties per page, listed below |

| property of `Pages` | page | what it excludes |
|---|---|---|
| `RequestsMatchChoice` | table pages | an answer that arrives in between turns an update into a creation, or onto another row |
| `NewStartsEmpty` | table pages | a new document starts with the data of a row, except after a deletion |
| `EditsOneDevice` | devices | data of one device saved to another |
| `PayloadOfItsAction`, `ResultsLineUp` | configuration | a payload given for another action; a result shown below the wrong action |
| `AuthStaysSingle`, `SavesOneAction`, `FreshDraft` | profile's actions | a second authentication action; a save that changes another action; mappings of another action in a new one |
| `SavesShownUser`, `SecondStepAfterCheck`, `SessionOrganization` | users | one user's data saved to another; a new password without the old one; a session that disagrees with the backend |

Several of these name the one way around that the code leaves
(`leftover`, `switched`, `stray`, `overlapped`, `raced` are history variables
that record it): the property says that nothing else leads there.  `PROJECT.json`
does not count a hazard as covered where it is just that way around.

Three runs end in a counterexample: each states what the code's own comment says
and shows that the code does something else.

| run | counterexample |
|---|---|
| `AdoptedTwice` | two adoptions of one host both pass `routers/devices.py:79-87` before either inserts; both insert |
| `MonitorStaleWrite` | an edit during a monitor round is overwritten with the address from before |
| `SpinnerStays` | a persisted session is restored, the refresh is refused with a JSON body, nobody signs the tab out: the spinner stays over the private pages |

Disagreements that the actions show by themselves and that have no run:

* Backend.  `edit_network_by_id` leaves strings in the list of devices, so the
  deletion of a device finds no entry (`NetworkWrite`, `DeletePull`).  With two
  devices, the monitor's results go into the last device's document
  (`MonitorProbe`).  A broken client's removal makes `broadcast` pass over the
  next one (`Advance`, `SendFails`), and a second removal ends the topology loop
  (`SendFailsTwice`).  `remove_devices_profile` clears nothing (`ProfileClear`);
  `update_device_ip` never writes (`TaskUpdate`); with both addresses in an edit,
  one discovered address is enough (`Matches`), although `routers/devices.py:147`
  wants each new address discovered.
* Console.  The row of a deletion stays in the form that the next new document is
  typed into (`DeleteConfirmationRequired`, `Deleted`).  An edit whose device has
  not arrived is saved to the device edited before (`SubmitEdit`).  An
  authentication action cannot be renamed, because the check for a second one
  compares names (`AnotherAuth`).  A check that is answered after the password
  dialog was closed moves the closed dialog to its second step (`Checked`).
  Saving another user makes that user the session's (`UserUpdated`).  The
  header's link changes the user to save under a mounted form (`MyAccount`).
  Items queued while a file is read are lost (`FileRead`).  A device that was
  deleted stays in the graph (`MergedNodes`).

### Bounds

Two hosts and two documents are enough for every clash between two records, one
name and one address taken by another device, and for a device moved to the
other's address.  Two overlapping requests cover each pair of handlers, which is
how the races above arise: every check in the code concerns one other writer.
The scans of `MCDeviceRegistry` let both hosts appear, one alone, and the first
host at the second's address; `MCFewSweeps` keeps the two essential ones where
requests overlap.  `RegistryEdits` has no networks and `RegistryNetworks` no
edits of devices, because the lists of networks are not touched by the latter;
`RegistrySerial` has both.

`Broadcast`: two sockets give each broadcast a connection before or after the
point where the list changes, and both loops one connection to remove twice.
`FeedReconnects`: a page starts connections by itself while fewer than
`MaxLive` = 2 are not closed, and the timer may start one more, so that an old,
a replaced and a new socket exist at once; with `MaxSockets` = 4 a free number is
always left.  Three reports and `MaxPoints` = 2 make the series overflow.
`DashboardGraph`: three clock values let two intervals pass or a clock stand still,
two counter values let a counter rise or restart, one station may leave and come
back.  `SessionTab`: `MaxEvents` = 3 allows a sign-in, an expiry and an act of
another tab, or two expiries and a reload, in one behaviour; `MaxCalls` = 2 lets
each pair of flows overlap, two checks among them.  `Pages`: two rows tell the chosen row from another;
`MaxRequests` = 2 lets one answer arrive while another request is under way;
`MaxCalls` = 1 suffices on the devices page because its hazard is between the
cache and the form, not between requests; `MaxItems` = 2 and `MaxRuns` = 2 let a
run be lost and another be started; `MaxUpdates` = 2 lets two updates overlap.
All bounds are guards of the action that starts something new; nothing under way
is ever cut off.

`CHECK_DEADLOCK FALSE` stands where the system may really stop.  In the registry
configurations, once `MaxDevices` ids are given out, all devices and networks
deleted and the scan list full, clients have nothing left to ask.  In
`SessionTab` and `SpinnerStays` a tab may stand still: a spinner that nothing
takes away, or a page nobody touches once the events are used up.  In `Pages` a user who was logged out by
the timer leaves the pages modelled.  The monitor, broadcast, feed and dashboard
runs check deadlock.

Mutants: each property is checked to fail if a mapped definition is replaced by
one with a plausible bug (an upsert, a lock kept on an exception, a form that is
not cleared, a forgotten operation).  They stand in the modules before the
definition they change, marked "Mutant", and are not part of `Next`.

### Fairness

* Registry and loops: `SF` for each accepted request, for the monitor and for
  each topology task: `asyncio.Lock` wakes waiters in the order of arrival, so a
  coroutine that waits for a lock that is free again and again gets it.  Arrivals
  of requests have no fairness.  `WF` for the start and the end of topology
  rounds: timers fire.  That a driver's call answers is an assumption: the drivers
  have time-outs.
* Broadcast: `WF` for each loop and each endpoint: sends, reads of the database
  and receives answer or raise.  `PeerLeaves` and `Connect` have none.
* Websocket client: `WF` for the reconnect timer, for an attempt (it opens or
  fails), for the end of a closing handshake and for the delivery of messages.
  `SF` for the opening of the current socket: a server that is tried again and
  again answers in the end.  Without it nothing could be promised; sockets may
  still break as often as they like.
* Session: `WF` for each flow's answer (the browser turns a lost one into an
  error), for React's effect and for the redirect.  Nobody has to click, no
  token has to expire.

`Pages` and `TopologyStore` have no liveness properties: nothing in them waits
for anything but the user or an answer.

## 4. What is proved

Every invariant and every action property that a passing run checks, and the
refinement, is also a theorem, for every value of the constants that the module's
assumption allows.  Each inductive invariant named below was given to TLC as an
invariant of the component's instance before it was proved.  The steps are proved
action by action; the lemmas carry the name of the action or of its group.

Assumptions on constants say only what they are: their types, that the value for
"none" is none of the others, that a set of names or devices is finite where it is
counted or listed.  The two theorems about serial executions have a hypothesis of
their own, below.

### DeviceRegistryProofs

For every number of hosts, networks, profiles, ids and overlapping requests, from
`RegistryAssumption`: the constants have their types, the initial documents are
complete, `NULL` is none of the values, and background tasks are not requests.

| theorem | states |
|---|---|
| `TypeInvariant` | `Spec => []TypeInv` |
| `TypeCorrect` | `Spec => []TypeOK` |
| `LockCorrect` | `Spec => []UpdateLockOwner` |
| `AdoptionCorrect` | `Spec => []AdoptsDiscoveredHost` |
| `LifecycleRefined` | `Spec => LifecycleSpec` |
| `NetworksStayDeleted` | `Spec => DeletedNetworkStaysDeleted` |
| `DevicesListedOnce` | `Spec => []ListedOnce` |
| `SerialUnique` | `Serial` implies `Spec => []UniqueDevices` |
| `SerialNoDangling` | `Serial` implies `Spec => []NoDanglingNetwork` |

`TypeOK` is not inductive.  `AdoptInsert` builds a document from local variables
that may be `NULL` in general, and `EditWrite` from a document that was read.
`TypeInv` therefore adds `LocalsOK`, which says for each program counter which
locals are present (an adoption past `adopt_find` has both addresses, an edit
has its device and a complete document), and `FreshIds`, that ids above
`inserted` have no document.  `LifecycleRefined` needs the latter: an id goes from
unborn to live in `AdoptInsert` alone, and the stale write of an edit, whose
device was live when it was read, cannot touch an unborn or a gone one.
`UpdateLockOwner` needs that a request which waits for the lock is one that will
release it (`LockInv`): only an edit that changes an address reaches
`edit_lock`, and only such an edit resets the lock in `EditWrite`.  `AdoptsDiscoveredHost` is
inductive because `ArpScan` only appends.  `NetworksStayDeleted` is an action
property from `TypeInv`.

`ListedOnce` holds although `edit_network_by_id` writes back a list it read some
awaits ago.  `ListInv` says why: it counts the list in the hands of an edit of a
network among the lists (`Lists`), so no device may be in one network's stored
list and in another's list in flight; and a device whose adoption has not come to
its last write (`Adopting`) is in no list of either sort, so that write, the only
one that adds an entry, adds a new one.  Nothing in the code moves a device from
one list to another; `ListInv` would have to change if something did.

`UniqueDevices` and `NoDanglingNetwork` are false when requests overlap
(`AdoptedTwice` is a counterexample to the first).  `Serial` is the condition under
which they hold: one request at a time, and initial documents that differ in
their MACs, IPs and names.  `RegistrySerial` is an instance of it.  The proof is
the sequential argument that the code's checks rely on: `Checked` lists
for each program counter what the reads so far have established (a value read as
free is free, the network is there, the document read is the stored one), and the
write uses all of it.

### MonitoredRegistryProofs

The two loops run together with any number of requests, from `RegistryAssumption`
and `MonitoredAssumption` (the monitor and the networks' tasks are the background
tasks).

| theorem | states |
|---|---|
| `MonitoredInvariant` | `MonitoredSpec => []MonitoredInv` |
| `LockOwnersCorrect` | `MonitoredSpec => []LockOwners` |
| `MonitoredLockCorrect` | `MonitoredSpec => []UpdateLockOwner` |
| `MonitoredLifecycle` | `MonitoredSpec => LifecycleSpec` |

A request's step is a step of `DeviceRegistry` and keeps `TypeInv` and `LockInv` by
the lemmas there; the loops change stored documents but no request's locals.
`LockOwners` says of both locks that the holder is the coroutine between its
acquire and its release and nobody else.  It needs `RoundOK`: a new topology round
resets all tasks, which would orphan a lock if one of them still held it; a round
starts only when the last one's tasks are done, because of the `gather`.
`MonitoredLifecycle` needs `MonitorOK`: what the monitor writes back it has read,
and `find_one_and_update` revives no device that was deleted meanwhile.

### BroadcastProofs

For any set of sockets and of loops that broadcast, from `BroadcastAssumption`.

| theorem | states |
|---|---|
| `BroadcastInvariant` | `Spec => []BroadcastInv` |
| `NobodyTwice` | `Spec => []SentOnce` |
| `EverybodyReached` | `Spec => []ReachedUnlessSomeoneLeft` |

The list may change during a broadcast in two ways, and the iterator is an index.
`LoopInv` has the argument: whoever was sent to is not at or behind the index
(`Ahead`), since a removal moves everybody to lower indices and an append adds a
connection that is new; and the connections a broadcast began with stand before
the ones that came later (`First`), so that as long as all of them are still in
the list they are either served or ahead.  `Distinct` is part of the invariant:
an endpoint connects once.

### WebsocketClientProofs

For every number of sockets and reports and every `maxPoints`, from
`WebsocketAssumption` (the bounds are positive, `None` is no socket).

| theorem | states |
|---|---|
| `SocketInvariant` | `Spec => []SocketInv` |
| `TimerCorrect` | `Spec => []NeverStranded` |
| `FeedCorrect` | `Spec => []OneFeedUnlessRaced` |
| `SeriesCorrect` | `Spec => []SeriesOrdered` |

`SocketInv` adds to `NeverStranded` the types of the sockets and `OthersEnding`:
unless a socket was replaced while connecting, every socket but the middleware's
own is closing or closed.  `OneFeedUnlessRaced` alone would not survive `Opened`,
which needs to know that no *other* socket is still connecting or open.
`SeriesOrdered` needs `FeedOK`: reports wait only at sockets that are not new,
those at the one open socket are in the order of their numbers and all newer
than what is shown, and what is shown is at least as new as every point.  A
socket that closes drops its reports, and its successor starts without any:
this is why a reconnect cannot bring an older report after a newer one.
`PushedKeeps` is the lemma about `pushPoint`.

### TopologyStoreProofs

For all finite sets of devices, stations and neighbours, from `TopologyAssumption`
and `NoneAssumption` (`None` is neither a number nor a list of nodes).

| theorem | states |
|---|---|
| `GraphInvariant` | `Spec => []GraphInv` |
| `OneNodePerId` | `Spec => []GraphOfLastMessage` |
| `LinksHaveEnds` | `Spec => []LinksDrawn` |
| `RatesAreRecent` | `Spec => RatesFromConsecutiveMessages` |
| `HealthIsPercentage` | `Spec => []HealthInRange` |

`Merged` and `Loaded` are the lemmas about the two reducers: given a list of nodes
with distinct ids, each returns one, with these members.  They rest on lemmas about
the sequence operators (`Listed`, `Ranked`, `PickedNodes`, `Joined`).  `GraphInv`
then says that the nodes which are no devices are those of the last message,
whichever of the two writers ran since, that a station carries the time of the
last message, and that the links have both their ends.  `RatesFromConsecutiveMessages`
needs the second part: the time a throughput is divided by is the time since the
previous message, as a station that was missing from one is a new node.

`HealthInRange` is about sums over the devices.  `SumDefined` proves that the
recursive function behind such a sum exists and `SumIsInt` that its value is
an integer; the library's induction rules are out of reach, so the induction is
spelt out: a least set for which it fails (`Least`, from the well-foundedness of
the natural numbers) has a part for which it holds.  `Share` is the lemma about
`Math.round` of a quotient, `Clamped` the one about the final `Math.min` and `Math.max`.

### SessionProofs

For any users, any queries and checks and any number of requests under way, from
`SessionAssumption` (`None` is no user and no token, queries and checks are
different and none of the named flows).

| theorem | states |
|---|---|
| `SessionInvariant` | `Spec => []Inv` |
| `CredentialsStayWhole` | `Spec => []CredentialsWhole` |
| `MixedOnlyByARetry` | `Spec => MixedOnlyByRetry` |

The invariant describes the requests under way (`CallOK`): the answer to a refresh
that succeeds names the user of the cookie it was sent with (`RefreshNamed`), and a
sign-in in its second request still knows for whom it signs in (`LoginNamed`).
`NamedAlike` is the action of `MixedOnlyByRetry`, proved for each answer: only the
renewal of a token for a request that is retried writes a token without a name, so
only it can put the token of one user beside the name of another.

### RowDialogsProofs

For any number of rows and of requests under way, for all three pages, from
`RowDialogsAssumption` (both bounds are natural numbers).

| theorem | states |
|---|---|
| `DialogInvariant` | `Spec => []DialogInv` |
| `ChoiceCorrect` | `Spec => []RequestsMatchChoice` |
| `NewCorrect` | `Spec => []NewStartsEmpty` |

Neither property is inductive.  `Choice` says how the page's state agrees with
what the user chose: an open dialog that edits holds the chosen row, and the form
holds that row with what was typed since; an open confirmation holds the chosen
row or, after an answer has taken it away, none, in which case nothing is sent.
`Leftovers` says that a closed dialog no deletion has touched is clear and has no
row, so that opening it for a new document refills nothing.

The theorems are stated of the module's own `Spec`.

### PagesProofs

For any devices, networks, users, organizations and actions, from
`PagesAssumption`: the names of actions are finitely many, the session's user is a
user and its organization an organization, `NONE` is no device.

| theorem | states |
|---|---|
| `PagesCompose` | `PagesSpec` implies the specification of each of the four instantiated pages |
| `EditNeverMixes` | `PagesSpec => EditsOneDevice` |
| `EditorInvariant` | `PagesSpec => []EditorInv` |
| `DraftIsFresh` | `PagesSpec => []FreshDraft` |
| `SubmitSavesOne` | `PagesSpec => SavesOneAction` |
| `OneAuthOnly` | `PagesSpec => AuthStaysSingle` |
| `ExecutorInvariant` | `PagesSpec => []ExecutorInv` |
| `PayloadsStayTheirs` | `PagesSpec => []PayloadOfItsAction` |
| `ResultsStayInLine` | `PagesSpec => []ResultsLineUp` |
| `UsersInvariant` | `PagesSpec => []UsersInv` |
| `SaveIsOfShown` | `PagesSpec => []SavesShownUser` |
| `CheckComesFirst` | `PagesSpec => []SecondStepAfterCheck` |
| `SessionKnowsItsOrganization` | `PagesSpec => []SessionOrganization` |

`PagesCompose` reduces each property to its page: a step of `Pages` is a step of
the page shown and a stutter of the others.

* Devices page: `EditInv`.  The edit form is empty or was filled by the device that
  the query returns, and that is the row clicked if it is cached.  What the
  property says of a save follows; the case of a device that is not cached is the
  one it leaves open, as the code does.
* Profile's actions: `DraftInv`.  The draft has the details of its protocol, whatever
  the stored action lacked; it authenticates over SSH only if the stored one did;
  and a draft for a new action holds no mapping typed before.  `AuthsStep` counts
  authentication actions: a submit replaces the entry of one name.
* Device configuration: `RunInStep`.  Until the user changes the queue, the results
  and the rest of a run together stand item by item against the queue, every
  result but the last is a success, and a failure empties the rest (`InStep`).
  A change of the queue sets `changed`, and from then on the positions promise
  nothing.
* Users: `ManageOK` ties the form and the password dialog to the user shown, unless
  the address changed under them (`switched`) or an answer came too late
  (`stray`).  `SessionFollows` is the argument for `SessionOrganization`: as long as
  updates have not overlapped there is at most one, the session agrees with the
  backend until it is served, and afterwards differs by that update alone, which
  its answer then writes.

### Only model-checked

* Liveness: `MonitorRepeats`, `RequestsAnswered`, `TopologyRoundEnds`,
  `GoneAreRemoved`, `MonitorSurvives`, `Reconnects`, `RequestsSettle`,
  `SpinnerEndsUnlessRefused`.  Their proofs need `ENABLED`, which the provers
  cannot reason about.
* That the three runs with a counterexample have one.

## 5. What is not modelled, and the plan

Not modelled:

* The lists of members that `edit_user` and the organization handlers keep: in
  `UserPages` the edit of a user ends with its write, and the other handlers are
  one step.  The stale write of `edit_user` is there, as the way around of
  `SessionOrganization` (`overlapped`).
* A database call that fails, or a process that ends, between two writes of one
  request.  Nothing in the code reacts to it.
* Drivers, SNMP and ARP packets and the parsers of `discovery.py`: they keep no
  state.  The construction of the topology graph in the backend appears as the
  message that `TopologyStore` receives.
* `wait_device_connectivity`: one step of `AdoptFind`, since it blocks the loop.
* Creation of networks and the content of profiles in the backend.
* The recovery of a forgotten password and the registration form: the first sends
  one request per page and keeps nothing; the second is on no route.
* Formats and regular expressions of fields, rendering, layout of the graph,
  deployment.

Next, in this order: the handlers of organizations and users as a module of the
backend, with membership lists and `organizationId` as its
property; an abstract specification of the feed (each report is shown once, in
order) that `Broadcast` and `WebsocketClient` together implement; the part of
`Pages` that crosses pages, the cache of devices by id, as a property of a whole
visit.
