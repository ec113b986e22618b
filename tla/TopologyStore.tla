--------------------------- MODULE TopologyStore ---------------------------
(***************************************************************************)
(* What the dashboard shows of one network: the graph of the topology       *)
(* slice, the entities of the monitor slice, and the selectors computed     *)
(* from both.  The graph is written from two sides that do not wait for     *)
(* each other: the device collection that the page fetches, and the         *)
(* topology messages of the websocket.                                      *)
(***************************************************************************)
EXTENDS Integers, Sequences, FiniteSets, SequencesExt, FiniteSetsExt

CONSTANTS
  Devices, Stations, Neighbours,   \* ids of adopted devices, wifi stations, LLDP neighbours
  Bytes, Latencies,                \* values of a station's counter and of a ping
  MaxClock,                        \* bound on Date.now()
  None

ASSUME TopologyAssumption ==
  /\ IsFiniteSet(Devices) /\ IsFiniteSet(Stations) /\ IsFiniteSet(Neighbours)
  /\ Devices \cap Stations = {} /\ Devices \cap Neighbours = {} /\ Stations \cap Neighbours = {}
  /\ Bytes \subseteq Nat /\ Latencies \subseteq Nat /\ MaxClock \in Nat
  /\ None \notin Nat

\* Of a node its id is kept, and of a station also its counter (rx_bytes or
\* tx_bytes), its timestamp and its throughput; others carry None.
Ids == Devices \cup Stations \cup Neighbours
Node == [id : Ids, bytes : Nat \cup {None}, time : Nat \cup {None}, rate : Int]

ASSUME NoneAssumption == None \notin Seq(Node)

VARIABLES
  registered,   \* the server's devices of the network
  fetched,      \* deviceCollection: the last answer of the query, None before it
  nodes,        \* the nodes of the network in topologySlice, None before there is an entry
  links,        \* its links
  monitor,      \* per device: its entity in monitorSlice, None if it has none
  clock,        \* Date.now()
  heard,        \* history: the ids of the last topology message
  failed        \* history: that message was a discovery error, without nodes

vars == <<registered, fetched, nodes, links, monitor, clock, heard, failed>>

Kind(i) == IF i \in Devices THEN "adoptedDevice" ELSE IF i \in Stations THEN "wifiStation" ELSE "lldp"

Plain(i) == [id |-> i, bytes |-> None, time |-> None, rate |-> 0]

\* The nodes at the given places of a sequence, in their order: filter of the code.
Rank(places, i) == Cardinality({j \in places : j <= i})
Picked(seq, places) ==
  [k \in 1..Cardinality(places) |-> seq[CHOOSE i \in places : Rank(places, i) = k]]

With(seq, ids) == Picked(seq, {i \in DOMAIN seq : seq[i].id \in ids})
Without(seq, ids) == Picked(seq, {i \in DOMAIN seq : seq[i].id \notin ids})

IdsOf(seq) == {n.id : n \in ToSet(seq)}
Named(seq, i) == CHOOSE n \in ToSet(seq) : n.id = i

Init ==
  /\ registered = {}
  /\ fetched = None
  /\ nodes = None
  /\ links = {}
  /\ monitor = [d \in Devices |-> None]
  /\ clock = 1
  /\ heard = {}
  /\ failed = FALSE

Existing == IF nodes = None THEN <<>> ELSE nodes

-----------------------------------------------------------------------------
(* The server adopts and deletes devices, step by step in DeviceRegistry. *)
RegistryChanges ==
  /\ \E d \in Devices : registered' = SymDiff(registered, {d})
  /\ UNCHANGED <<fetched, nodes, links, monitor, clock, heard, failed>>

(* The page's query of the device collection is answered... *)
CollectionArrives ==
  /\ fetched' = registered
  /\ UNCHANGED <<registered, nodes, links, monitor, clock, heard, failed>>

\* Mutant: the devices replace the whole graph.
SetInitialAlone ==
  /\ fetched # None
  /\ nodes' = SetToSeq({Plain(d) : d \in fetched})
  /\ UNCHANGED <<registered, fetched, links, monitor, clock, heard, failed>>

(* ... and an effect of NetworkGraphWrapper puts its devices into the graph: *)
(* first, in the place of nodes with their id.                               *)
SetInitialNetworkDevices ==
  /\ fetched # None
  /\ nodes' = SetToSeq({Plain(d) : d \in fetched})
              \o Without(Existing, fetched)
  /\ UNCHANGED <<registered, fetched, links, monitor, clock, heard, failed>>

-----------------------------------------------------------------------------
(* A station that is in the graph and in the message: its throughput since   *)
(* the message before.                                                       *)
Rate(old, new) ==
  LET before == IF old.bytes = None THEN 0 ELSE old.bytes
  IN  IF old.time # None /\ new.time > old.time
      THEN ((new.bytes - before) * 8) \div (new.time - old.time) ELSE 0

MergedNode(old, new) ==
  IF Kind(new.id) = "wifiStation" THEN [new EXCEPT !.rate = Rate(old, new)]
  ELSE new

\* Mutants: known nodes are added again; stations that are missing stay.
MergedNodesTwice(existing, incoming) == existing \o incoming

MergedNodesKeepsStations(existing, incoming) ==
  LET merged(n) == IF n.id \in IdsOf(incoming) THEN MergedNode(n, Named(incoming, n.id)) ELSE n
  IN  [i \in DOMAIN existing |-> merged(existing[i])]
      \o Without(incoming, IdsOf(existing))

(* mergeTopology: adopted devices stay, other nodes stay if the message has  *)
(* them, what the message adds comes last.                                   *)
MergedNodes(existing, incoming) ==
  LET merged(n) == IF n.id \in IdsOf(incoming) THEN MergedNode(n, Named(incoming, n.id)) ELSE n
      kept == With(existing, Devices \cup IdsOf(incoming))
  IN  [i \in DOMAIN kept |-> merged(kept[i])]
      \o Without(incoming, IdsOf(existing))

(* The message of a discovery that went well: every device of the network,   *)
(* and the stations and neighbours found, each linked to a device.           *)
TopologyMessage(now) ==
  \E found \in SUBSET (Stations \cup Neighbours), counter \in [Stations -> Bytes] :
    LET station(i) == [Plain(i) EXCEPT !.bytes = counter[i], !.time = now]
        incoming == SetToSeq({Plain(d) : d \in registered})
                    \o SetToSeq({IF i \in Stations THEN station(i) ELSE Plain(i) : i \in found})
    IN  /\ registered = {} => found = {}
        /\ nodes' = MergedNodes(Existing, incoming)
        /\ \E parent \in [found -> registered] : links' = {<<parent[i], i>> : i \in found}
        /\ heard' = IdsOf(incoming)
        /\ failed' = FALSE

(* A discovery that raised: neither nodes nor links in the message. *)
ErrorMessage ==
  /\ nodes' = MergedNodes(Existing, <<>>)
  /\ heard' = {}
  /\ failed' = TRUE
  /\ UNCHANGED links

MergeTopology ==
  /\ \E now \in {clock, clock + 1} :
       /\ now <= MaxClock
       /\ clock' = now
       /\ TopologyMessage(now) \/ ErrorMessage
  /\ UNCHANGED <<registered, fetched, monitor>>

(* bulkUpsertDevices, for the devices of the monitor's round. *)
MonitorMessage ==
  /\ \E seen \in SUBSET registered : \E ping \in [seen -> Latencies \cup {None}] :
       monitor' = [d \in Devices |-> IF d \in seen THEN [online |-> ping[d] # None, latency |-> ping[d]]
                                     ELSE monitor[d]]
  /\ UNCHANGED <<registered, fetched, nodes, links, clock, heard, failed>>

Next == RegistryChanges \/ CollectionArrives \/ SetInitialNetworkDevices \/ MergeTopology \/ MonitorMessage

Spec == Init /\ [][Next]_vars

-----------------------------------------------------------------------------
(* The selectors. *)

TopologyDeviceIds == {i \in IdsOf(Existing) : Kind(i) = "adoptedDevice"}
DevicesForNetwork == {d \in TopologyDeviceIds : monitor[d] # None}

OnlineOfflineStats ==
  LET online == Cardinality({d \in DevicesForNetwork : monitor[d].online})
      total == Cardinality(DevicesForNetwork)
  IN  [total |-> total, online |-> online, offline |-> total - online]

StationsOf(seq) == {n \in ToSet(seq) : Kind(n.id) = "wifiStation"}
StationsCount == Cardinality(StationsOf(Existing))

AverageLatency ==
  LET timed == {d \in DevicesForNetwork : monitor[d].latency # None}
  IN  IF timed = {} THEN 0
      ELSE SumFunction([d \in timed |-> monitor[d].latency]) \div Cardinality(timed)

(* Download and upload together, in bits per second. *)
NetworkThroughput == SumFunction([n \in StationsOf(Existing) |-> n.rate])

\* Mutant: only the upper bound.
ClampTop(x, top) == IF x > top THEN top ELSE x

Clamp(x, top) == IF x < 0 THEN 0 ELSE IF x > top THEN top ELSE x

(* The score in percent, each term rounded down; five Mbps are expected of a *)
(* station and a ping of 200 ms is worth nothing.                            *)
NetworkHealth ==
  LET stats == OnlineOfflineStats
      availability == (50 * stats.online) \div stats.total
      latency == IF stats.online = 0 THEN 0 ELSE (30 * Clamp(200 - AverageLatency, 200)) \div 200
      expected == 5000000 * StationsCount
      throughput == IF stats.online = 0 \/ StationsCount = 0 THEN 0
                    ELSE (20 * Clamp(NetworkThroughput, expected)) \div expected
  IN  IF stats.total = 0 THEN 0 ELSE availability + latency + throughput

(* getLayoutedElements: the edges whose ends are both nodes.                 *)
DrawnEdges == {l \in links : {l[1], l[2]} \subseteq IdsOf(Existing)}
-----------------------------------------------------------------------------
(* The graph has one node per id, however loads of the collection and        *)
(* messages of the websocket follow each other (the viewer's keys are ids),  *)
(* and its stations and neighbours are those of the last message: nothing    *)
(* that left the network stays drawn, and a load of devices drops none.      *)
GraphOfLastMessage ==
  /\ Cardinality(IdsOf(Existing)) = Len(Existing)
  /\ IdsOf(Existing) \ Devices = heard \ Devices

(* Every stored link is drawn unless the last discovery failed: its message  *)
(* takes the stations away and leaves their links.                           *)
LinksDrawn == failed \/ DrawnEdges = links

(* A station gets a throughput only from two consecutive messages: one that  *)
(* comes back after being absent starts at zero, whatever its counter says.  *)
RatesFromConsecutiveMessages ==
  [][\A n \in StationsOf(Existing') :
       (n.rate # 0 /\ n \notin ToSet(Existing)) => n.id \in heard /\ clock' > clock]_vars

(* The health score is a percentage even when counters restarted and the     *)
(* sum of throughputs is negative, or the monitor reported no device.        *)
HealthInRange == NetworkHealth \in 0..100 /\ OnlineOfflineStats.offline >= 0
=============================================================================
