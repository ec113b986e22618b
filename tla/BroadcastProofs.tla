--------------------------- MODULE BroadcastProofs ---------------------------
(***************************************************************************)
(* Proofs about Broadcast, for any number of websockets.                   *)
(*                                                                         *)
(* SentOnce and ReachedUnlessSomeoneLeft say nothing of the position of    *)
(* the iterator, and the list shifts under it.  LoopInv does: nobody ahead *)
(* of the iterator has been sent to, everybody of the audience who is not  *)
(* ahead has, and those who joined during the broadcast come after the     *)
(* audience, so that a removal which makes the iterator pass over one      *)
(* passes over a newcomer or leaves the audience incomplete.               *)
(***************************************************************************)
EXTENDS Broadcast, SequenceTheorems, TLAPS

LoopState == [pc : {"sleep", "send", "dead"}, index : Nat \ {0},
              connection : Sockets \cup {NULL},
              audience : SUBSET Sockets, reached : SUBSET Sockets]

TypeOK == /\ active_connections \in Seq(Sockets)
          /\ endpoint \in [Sockets -> {"none", "lookup", "receive", "closing",
                                       "done", "failed"}]
          /\ loop \in [Loops -> LoopState]

\* Sockets that have connected: none of them connects again.
Met == {s \in Sockets : endpoint[s] # "none"}

Members(list) == {list[k] : k \in DOMAIN list}
Distinct(list) == \A j, k \in DOMAIN list : list[j] = list[k] => j = k

\* Whom an iterator with this index will still come to.
Ahead(list, index) == {list[k] : k \in {j \in DOMAIN list : j >= index}}

\* Members of A come before everybody else.
First(list, A) == \A j, k \in DOMAIN list : list[j] \in A /\ list[k] \notin A => j < k

LoopInv(state, list, met) ==
  /\ state.audience \subseteq met /\ state.reached \subseteq met
  /\ First(list, state.audience)
  /\ state.pc = "send" =>
       /\ state.connection \in met \ state.reached
       /\ Ahead(list, state.index) \cap (state.reached \cup {state.connection}) = {}
       /\ state.audience \subseteq Members(list) =>
            /\ state.audience \subseteq
                 state.reached \cup {state.connection} \cup Ahead(list, state.index)
            /\ state.connection \notin state.audience =>
                 state.audience \subseteq state.reached
  /\ state.pc = "sleep" /\ state.audience \subseteq Members(list) =>
       state.audience \subseteq state.reached

BroadcastInv ==
  /\ TypeOK
  /\ Distinct(active_connections)
  /\ Members(active_connections) \subseteq Met
  /\ \A b \in Loops : LoopInv(loop[b], active_connections, Met)

-----------------------------------------------------------------------------
(* The list and the iterator.                                              *)

\* A new connection goes to the end.
LEMMA AppendMembers ==
  ASSUME NEW S, NEW list \in Seq(S), NEW s \in S
  PROVE  LET new == Append(list, s) IN
         /\ new \in Seq(S) /\ Len(list) \in Nat
         /\ DOMAIN list = 1..Len(list) /\ DOMAIN new = 1..(Len(list) + 1)
         /\ \A k \in DOMAIN list : new[k] = list[k]
         /\ new[Len(list) + 1] = s
         /\ Members(new) = Members(list) \cup {s}
<1> DEFINE new == Append(list, s)
<1>1. /\ new \in Seq(S) /\ Len(list) \in Nat
      /\ DOMAIN list = 1..Len(list) /\ DOMAIN new = 1..(Len(list) + 1)
      /\ \A k \in DOMAIN list : new[k] = list[k]
      /\ new[Len(list) + 1] = s
  OBVIOUS
<1> HIDE DEF new
<1>2. DOMAIN new = DOMAIN list \cup {Len(list) + 1}
  BY <1>1
<1>3. Members(new) = Members(list) \cup {s}
  BY <1>1, <1>2 DEF Members
<1> QED BY <1>1, <1>3 DEF new

\* Removal closes the gap.
LEMMA DropMembers ==
  ASSUME NEW S, NEW list \in Seq(S), NEW i \in DOMAIN list, Distinct(list)
  PROVE  LET new == DropAt(list, i) IN
         /\ new \in Seq(S) /\ Len(list) \in Nat
         /\ DOMAIN list = 1..Len(list) /\ DOMAIN new = 1..(Len(list) - 1)
         /\ \A k \in DOMAIN new : new[k] = IF k < i THEN list[k] ELSE list[k + 1]
         /\ Distinct(new)
         /\ Members(new) = Members(list) \ {list[i]}
<1> DEFINE new == DropAt(list, i)
           n == Len(list) - 1
<1>1. /\ Len(list) \in Nat /\ DOMAIN list = 1..Len(list)
      /\ n \in Nat /\ i \in 1..(n + 1)
      /\ \A k \in DOMAIN list : list[k] \in S
  OBVIOUS
<1>2. /\ new \in [1..n -> S] /\ DOMAIN new = 1..n
      /\ \A k \in 1..n : new[k] = IF k < i THEN list[k] ELSE list[k + 1]
  BY <1>1 DEF DropAt
<1>3. new \in Seq(S)
  BY <1>1, <1>2, SeqDef
<1> HIDE DEF new, n
<1>4. n = Len(list) - 1
  BY DEF n
<1>5. Distinct(new)
  <2>1. SUFFICES ASSUME NEW j \in 1..n, NEW k \in 1..n, new[j] = new[k]
                 PROVE  j = k
    BY <1>2 DEF Distinct
  <2> DEFINE at(m) == IF m < i THEN m ELSE m + 1
  <2>2. /\ at(j) \in DOMAIN list /\ new[j] = list[at(j)]
        /\ at(k) \in DOMAIN list /\ new[k] = list[at(k)]
    BY <1>1, <1>2, <1>4
  <2>3. at(j) = at(k)
    <3> HIDE DEF at
    <3> QED BY <2>1, <2>2 DEF Distinct
  <2> QED BY <1>1, <2>3
<1>6. Members(new) = Members(list) \ {list[i]}
  <2>1. ASSUME NEW k \in 1..n
        PROVE  new[k] \in Members(list) \ {list[i]}
    <3> DEFINE at == IF k < i THEN k ELSE k + 1
    <3>a. at \in DOMAIN list /\ at # i /\ new[k] = list[at]
      BY <1>1, <1>2, <1>4, <2>1
    <3> HIDE DEF at
    <3>1. PICK j \in DOMAIN list : new[k] = list[j] /\ j # i
      BY <3>a
    <3>2. list[j] # list[i]
      BY <3>1 DEF Distinct
    <3> QED BY <3>1, <3>2 DEF Members
  <2>2. ASSUME NEW k \in DOMAIN list, list[k] # list[i]
        PROVE  list[k] \in Members(new)
    <3>1. CASE k < i
      BY <1>1, <1>2, <1>4, <3>1 DEF Members
    <3>2. CASE k > i
      <4>1. k - 1 \in 1..n /\ new[k - 1] = list[k]
        BY <1>1, <1>2, <1>4, <3>2
      <4> QED BY <1>2, <4>1 DEF Members
    <3> QED BY <1>1, <2>2, <3>1, <3>2
  <2> QED BY <1>2, <2>1, <2>2 DEF Members
<1> QED BY <1>1, <1>2, <1>3, <1>4, <1>5, <1>6 DEF new

\* Somebody joins during a broadcast, or between two.
LEMMA JoinKeeps ==
  ASSUME NEW list \in Seq(Sockets), NEW met \in SUBSET Sockets,
         Members(list) \subseteq met, NEW s \in Sockets \ met,
         NEW state \in LoopState, LoopInv(state, list, met)
  PROVE  LoopInv(state, Append(list, s), met \cup {s})
<1> DEFINE new == Append(list, s)
<1>1. /\ Len(list) \in Nat
      /\ DOMAIN list = 1..Len(list) /\ DOMAIN new = 1..(Len(list) + 1)
      /\ \A k \in DOMAIN list : new[k] = list[k]
      /\ new[Len(list) + 1] = s
      /\ Members(new) = Members(list) \cup {s}
  BY AppendMembers
<1>2. s \notin state.audience /\ s \notin state.reached
      /\ (state.pc = "send" => s # state.connection)
  BY DEF LoopInv
<1> HIDE DEF new
<1>3. First(new, state.audience)
  BY <1>1, <1>2 DEF LoopInv, First
<1>4. /\ Ahead(new, state.index) \subseteq Ahead(list, state.index) \cup {s}
      /\ Ahead(list, state.index) \subseteq Ahead(new, state.index)
  BY <1>1 DEF Ahead, LoopState
<1>5. state.audience \subseteq Members(new) => state.audience \subseteq Members(list)
  BY <1>1, <1>2
<1> QED BY <1>2, <1>3, <1>4, <1>5 DEF LoopInv, new

\* Somebody is removed, by the endpoint or by the other broadcast.
LEMMA LeaveKeeps ==
  ASSUME NEW list \in Seq(Sockets), NEW met \in SUBSET Sockets,
         Distinct(list), NEW i \in DOMAIN list,
         NEW state \in LoopState, LoopInv(state, list, met)
  PROVE  LoopInv(state, DropAt(list, i), met)
<1> DEFINE new == DropAt(list, i)
<1>1. /\ Len(list) \in Nat
      /\ DOMAIN list = 1..Len(list) /\ DOMAIN new = 1..(Len(list) - 1)
      /\ \A k \in DOMAIN new : new[k] = IF k < i THEN list[k] ELSE list[k + 1]
      /\ Members(new) = Members(list) \ {list[i]}
  BY DropMembers
<1> HIDE DEF new
<1>2. First(new, state.audience)
  BY <1>1 DEF LoopInv, First
<1>3. Ahead(new, state.index) \subseteq Ahead(list, state.index)
  BY <1>1 DEF Ahead, LoopState
<1>4. ASSUME state.audience \subseteq Members(new)
      PROVE  /\ state.audience \subseteq Members(list)
             /\ state.audience \cap Ahead(list, state.index)
                  \subseteq Ahead(new, state.index)
  <2>1. list[i] \notin state.audience /\ state.audience \subseteq Members(list)
    BY <1>1, <1>4
  <2>2. ASSUME NEW k \in DOMAIN list, k >= state.index, list[k] \in state.audience
        PROVE  list[k] \in Ahead(new, state.index)
    <3>1. k < i
      BY <2>1, <2>2 DEF LoopInv, First
    <3>2. k \in DOMAIN new /\ new[k] = list[k]
      BY <1>1, <3>1
    <3> QED BY <2>2, <3>2 DEF Ahead
  <2> QED BY <2>1, <2>2 DEF Ahead
<1> QED BY <1>2, <1>3, <1>4 DEF LoopInv, new

\* The iterator moves on, or the broadcast ends.
LEMMA AdvanceKeeps ==
  ASSUME NEW list \in Seq(Sockets), NEW met \in SUBSET Sockets,
         Members(list) \subseteq met, Distinct(list),
         NEW state \in LoopState,
         state.audience \subseteq met, state.reached \subseteq met,
         First(list, state.audience),
         Ahead(list, state.index) \cap state.reached = {},
         state.audience \subseteq Members(list) =>
           state.audience \subseteq state.reached \cup Ahead(list, state.index)
  PROVE  /\ Advance(state, list) \in LoopState
         /\ LoopInv(Advance(state, list), list, met)
<1>1. /\ Len(list) \in Nat /\ DOMAIN list = 1..Len(list)
      /\ \A k \in DOMAIN list : list[k] \in Sockets /\ list[k] \in met
      /\ state.index \in Nat \ {0}
  BY DEF Members, LoopState
<1>2. CASE state.index <= Len(list)
  <2> DEFINE next == [state EXCEPT !.pc = "send", !.connection = list[state.index],
                                   !.index = @ + 1]
  <2>1. Advance(state, list) = next
    BY <1>2 DEF Advance
  <2>2. /\ next.pc = "send" /\ next.connection = list[state.index]
        /\ next.index = state.index + 1 /\ next.audience = state.audience
        /\ next.reached = state.reached /\ next \in LoopState
    <3>1. state.index + 1 \in Nat \ {0} /\ list[state.index] \in Sockets
      BY <1>1, <1>2
    <3> QED BY <3>1 DEF LoopState
  <2>3. state.index \in DOMAIN list /\ list[state.index] \in met
    BY <1>1, <1>2
  <2>4. /\ list[state.index] \in Ahead(list, state.index)
        /\ Ahead(list, state.index + 1)
             = Ahead(list, state.index) \ {list[state.index]}
    BY <1>1, <2>3 DEF Ahead, Distinct
  <2>5. list[state.index] \notin state.audience =>
          Ahead(list, state.index) \cap state.audience = {}
    BY <1>1, <2>3 DEF Ahead, First
  <2> HIDE DEF next
  <2>6. LoopInv(next, list, met)
    BY <2>2, <2>3, <2>4, <2>5 DEF LoopInv
  <2> QED BY <2>1, <2>2, <2>6
<1>3. CASE ~(state.index <= Len(list))
  <2> DEFINE next == [state EXCEPT !.pc = "sleep", !.connection = NULL]
  <2>1. Advance(state, list) = next
    BY <1>3 DEF Advance
  <2>2. /\ next.pc = "sleep" /\ next.audience = state.audience
        /\ next.reached = state.reached /\ next \in LoopState
    BY DEF LoopState
  <2>3. Ahead(list, state.index) = {}
    BY <1>1, <1>3 DEF Ahead
  <2> HIDE DEF next
  <2>4. LoopInv(next, list, met)
    BY <2>2, <2>3 DEF LoopInv
  <2> QED BY <2>1, <2>2, <2>4
<1> QED BY <1>2, <1>3

-----------------------------------------------------------------------------
(* The steps.                                                              *)

\* Sockets that have connected stay so, and at most the one that moves joins them.
LEMMA MetGrows ==
  ASSUME TypeOK, NEW s \in Sockets,
         NEW next \in {"lookup", "receive", "closing", "done", "failed"},
         endpoint' = [endpoint EXCEPT ![s] = next]
  PROVE  /\ endpoint' \in [Sockets -> {"none", "lookup", "receive", "closing",
                                      "done", "failed"}]
         /\ Met' = Met \cup {s}
  BY DEF TypeOK, Met

\* A new connection is the last of the list and belongs to no audience.
LEMMA ConnectStep ==
  ASSUME BroadcastInv, NEW s \in Sockets, Connect(s)
  PROVE  BroadcastInv'
<1>1. PICK next \in {"lookup", "closing"} : endpoint' = [endpoint EXCEPT ![s] = next]
  BY DEF Connect
<1>2. Met' = Met \cup {s} /\ s \notin Met /\ Met \in SUBSET Sockets
      /\ endpoint' \in [Sockets -> {"none", "lookup", "receive", "closing",
                                    "done", "failed"}]
  BY <1>1, MetGrows DEF Connect, Met, BroadcastInv
<1>3. /\ active_connections \in Seq(Sockets)
      /\ active_connections' = Append(active_connections, s) /\ loop' = loop
      /\ loop \in [Loops -> LoopState]
  BY DEF Connect, BroadcastInv, TypeOK
<1>4. \A b \in Loops : LoopInv(loop'[b], active_connections', Met')
  BY <1>2, <1>3, JoinKeeps DEF BroadcastInv
<1>5. /\ active_connections' \in Seq(Sockets)
      /\ Members(active_connections') = Members(active_connections) \cup {s}
  BY <1>3, AppendMembers
<1>6. Distinct(active_connections')
  <2>1. /\ DOMAIN active_connections = 1..Len(active_connections)
        /\ Len(active_connections) \in Nat
        /\ DOMAIN active_connections' = 1..(Len(active_connections) + 1)
        /\ \A k \in DOMAIN active_connections :
             active_connections'[k] = active_connections[k]
        /\ active_connections'[Len(active_connections) + 1] = s
    BY <1>3, AppendMembers
  <2>2. \A k \in DOMAIN active_connections : active_connections[k] # s
    BY <1>2 DEF BroadcastInv, Members
  <2> QED BY <2>1, <2>2 DEF BroadcastInv, Distinct
<1> QED
  BY <1>2, <1>3, <1>4, <1>5, <1>6 DEF BroadcastInv, TypeOK

\* What a removal leaves.
LEMMA RemoveStep ==
  ASSUME BroadcastInv, NEW s, Remove(s)
  PROVE  /\ active_connections' \in Seq(Sockets)
         /\ Distinct(active_connections')
         /\ Members(active_connections') = Members(active_connections) \ {s}
         /\ \A b \in Loops : LoopInv(loop[b], active_connections', Met)
<1>1. PICK i \in DOMAIN active_connections :
        /\ active_connections[i] = s
        /\ active_connections' = DropAt(active_connections, i)
  BY DEF Remove
<1>2. active_connections \in Seq(Sockets) /\ loop \in [Loops -> LoopState]
      /\ Met \in SUBSET Sockets
  BY DEF BroadcastInv, TypeOK, Met
<1>3. /\ DropAt(active_connections, i) \in Seq(Sockets)
      /\ Distinct(DropAt(active_connections, i))
      /\ Members(DropAt(active_connections, i))
           = Members(active_connections) \ {active_connections[i]}
  BY <1>2, DropMembers DEF BroadcastInv
<1>4. \A b \in Loops : LoopInv(loop[b], DropAt(active_connections, i), Met)
  BY <1>2, LeaveKeeps DEF BroadcastInv
<1> QED BY <1>1, <1>3, <1>4

\* An endpoint that runs on, or takes its connection from the list.
LEMMA EndpointStep ==
  ASSUME BroadcastInv, NEW s \in Sockets, PeerLeaves(s) \/ EndpointNext(s)
  PROVE  BroadcastInv'
<1>1. /\ loop' = loop /\ loop \in [Loops -> LoopState]
      /\ active_connections \in Seq(Sockets)
  BY DEF PeerLeaves, EndpointNext, Lookup, LookupFails, Disconnect, BroadcastInv,
         TypeOK
<1>2. Met' = Met /\ endpoint' \in [Sockets -> {"none", "lookup", "receive",
                                               "closing", "done", "failed"}]
  BY MetGrows DEF PeerLeaves, EndpointNext, Lookup, LookupFails, Disconnect,
                  BroadcastInv, TypeOK, Met
<1>3. CASE UNCHANGED active_connections
  BY <1>1, <1>2, <1>3 DEF BroadcastInv, TypeOK
<1>4. CASE Remove(s)
  BY <1>1, <1>2, <1>4, RemoveStep DEF BroadcastInv, TypeOK
<1> QED
  BY <1>3, <1>4 DEF PeerLeaves, EndpointNext, Lookup, LookupFails, Disconnect

\* The two loops: begin a broadcast, send, fail to send, end.
LEMMA LoopStep ==
  ASSUME BroadcastInv, NEW b \in Loops, LoopNext(b)
  PROVE  BroadcastInv'
<1>1. /\ endpoint' = endpoint /\ Met' = Met /\ Met \in SUBSET Sockets
      /\ loop \in [Loops -> LoopState] /\ loop[b] \in LoopState
      /\ active_connections \in Seq(Sockets) /\ Distinct(active_connections)
      /\ LoopInv(loop[b], active_connections, Met)
      /\ Members(active_connections) \subseteq Met
  BY DEF LoopNext, Start, Sent, SendFails, SendFailsTwice, BroadcastInv, TypeOK, Met
<1>2. ASSUME NEW state \in LoopState, NEW list \in Seq(Sockets),
             active_connections' = list, Distinct(list), Members(list) \subseteq Met,
             \A c \in Loops : LoopInv(loop[c], list, Met),
             loop' = [loop EXCEPT ![b] = state], LoopInv(state, list, Met)
      PROVE  BroadcastInv'
  BY <1>1, <1>2 DEF BroadcastInv, TypeOK
<1>3. CASE Start(b)
  <2> DEFINE state == [loop[b] EXCEPT !.index = 1, !.audience = Listed, !.reached = {}]
  <2>1. Listed = Members(active_connections)
    BY DEF Listed, Members
  <2>2. Listed \subseteq Sockets
    BY <1>1, <2>1
  <2>3. state \in LoopState /\ state.index = 1 /\ state.audience = Listed
        /\ state.reached = {}
    <3>1. 1 \in Nat \ {0} /\ {} \in SUBSET Sockets /\ Listed \in SUBSET Sockets
      BY <2>2
    <3> QED BY <1>1, <3>1 DEF LoopState
  <2> HIDE DEF state
  <2>4. First(active_connections, Listed)
    BY DEF First, Listed
  <2>5. Listed \subseteq Ahead(active_connections, 1)
    BY <1>1 DEF Listed, Ahead
  <2>6. /\ Advance(state, active_connections) \in LoopState
        /\ LoopInv(Advance(state, active_connections), active_connections, Met)
    BY <1>1, <2>1, <2>3, <2>4, <2>5, AdvanceKeeps
  <2>7. loop' = [loop EXCEPT ![b] = Advance(state, active_connections)]
        /\ active_connections' = active_connections
    BY <1>3 DEF Start, state
  <2> QED BY <1>1, <1>2, <2>6, <2>7 DEF BroadcastInv
<1>4. CASE Sent(b)
  <2> DEFINE old == loop[b]
             state == [old EXCEPT !.reached = old.reached \cup {old.connection}]
  <2>1. loop[b].pc = "send" /\ loop[b].connection \in Met
    BY <1>1, <1>4 DEF Sent, LoopInv
  <2>2. /\ state \in LoopState /\ state.index = loop[b].index
        /\ state.audience = loop[b].audience
        /\ state.reached = loop[b].reached \cup {loop[b].connection}
    BY <1>1, <2>1 DEF LoopState
  <2> HIDE DEF state
  <2>3. /\ Advance(state, active_connections) \in LoopState
        /\ LoopInv(Advance(state, active_connections), active_connections, Met)
    <3>1. /\ state.audience \subseteq Met /\ state.reached \subseteq Met
          /\ First(active_connections, state.audience)
          /\ Ahead(active_connections, state.index) \cap state.reached = {}
          /\ state.audience \subseteq Members(active_connections) =>
               state.audience \subseteq
                 state.reached \cup Ahead(active_connections, state.index)
      BY <1>1, <2>1, <2>2 DEF LoopInv
    <3> QED BY <1>1, <2>2, <3>1, AdvanceKeeps
  <2>4. loop' = [loop EXCEPT ![b] = Advance(state, active_connections)]
        /\ active_connections' = active_connections
    BY <1>4 DEF Sent, state
  <2> QED BY <1>1, <1>2, <2>3, <2>4 DEF BroadcastInv
<1>5. CASE SendFails(b)
  <2> DEFINE list == active_connections'
             state == loop[b]
  <2>1. /\ list \in Seq(Sockets) /\ Distinct(list)
        /\ Members(list) = Members(active_connections) \ {state.connection}
        /\ \A c \in Loops : LoopInv(loop[c], list, Met)
        /\ state.pc = "send"
    BY <1>5, RemoveStep DEF SendFails
  <2>2. loop' = [loop EXCEPT ![b] = Advance(state, list)]
    BY <1>5 DEF SendFails
  <2> HIDE DEF list, state
  <2>3. LoopInv(state, list, Met) /\ state \in LoopState
    BY <1>1, <2>1 DEF state
  <2>4. /\ Advance(state, list) \in LoopState
        /\ LoopInv(Advance(state, list), list, Met)
    <3>1. /\ state.audience \subseteq Met /\ state.reached \subseteq Met
          /\ First(list, state.audience)
          /\ Ahead(list, state.index) \cap state.reached = {}
          /\ state.audience \subseteq Members(list) =>
               state.audience \subseteq state.reached \cup Ahead(list, state.index)
      BY <1>1, <2>1, <2>3 DEF LoopInv
    <3>2. Members(list) \subseteq Met
      BY <1>1, <2>1
    <3> QED BY <1>1, <2>1, <2>3, <3>1, <3>2, AdvanceKeeps
  <2> QED BY <1>1, <1>2, <2>1, <2>2, <2>4 DEF list
<1>6. CASE SendFailsTwice(b)
  <2>1. PICK next \in {"sleep", "dead"} :
          loop' = [loop EXCEPT ![b].pc = next, ![b].connection = NULL]
    BY <1>6 DEF SendFailsTwice
  <2>2. /\ loop[b].pc = "send" /\ loop[b].connection \notin Listed
        /\ active_connections' = active_connections
    BY <1>6 DEF SendFailsTwice
  <2> DEFINE state == [loop[b] EXCEPT !.pc = next, !.connection = NULL]
  <2>3. /\ state \in LoopState /\ state.pc = next
        /\ state.audience = loop[b].audience /\ state.reached = loop[b].reached
        /\ loop' = [loop EXCEPT ![b] = state]
    BY <1>1, <2>1 DEF LoopState
  <2> HIDE DEF state
  <2>4. LoopInv(state, active_connections, Met)
    <3>1. Listed = Members(active_connections)
      BY DEF Listed, Members
    <3> QED BY <1>1, <2>2, <2>3, <3>1 DEF LoopInv
  <2> QED BY <1>1, <1>2, <2>2, <2>3, <2>4 DEF BroadcastInv
<1> QED BY <1>3, <1>4, <1>5, <1>6 DEF LoopNext

-----------------------------------------------------------------------------
(* The theorems.                                                           *)

\* Whatever joins, leaves and breaks while the two loops broadcast, no socket is
\* listed twice and every iterator is where LoopInv says.
THEOREM BroadcastInvariant == Spec => []BroadcastInv
<1>1. Init => BroadcastInv
  <2> SUFFICES ASSUME Init PROVE BroadcastInv
    OBVIOUS
  <2>1. TypeOK
    BY DEF Init, TypeOK, LoopState
  <2>2. active_connections = <<>> /\ Members(active_connections) = {}
        /\ Distinct(active_connections)
    BY DEF Init, Members, Distinct
  <2>3. \A b \in Loops : LoopInv(loop[b], active_connections, Met)
    BY <2>2 DEF Init, LoopInv, First
  <2> QED BY <2>1, <2>2, <2>3 DEF BroadcastInv
<1>2. BroadcastInv /\ [Next]_vars => BroadcastInv'
  <2> SUFFICES ASSUME BroadcastInv, [Next]_vars PROVE BroadcastInv'
    OBVIOUS
  <2>1. CASE UNCHANGED vars
    BY <2>1 DEF vars, BroadcastInv, TypeOK, Met
  <2> QED BY <2>1, ConnectStep, EndpointStep, LoopStep DEF Next
<1> QED BY <1>1, <1>2, PTL DEF Spec

\* A broadcast sends its message to nobody twice, although the list it iterates
\* over loses and gains connections between its sends.
THEOREM NobodyTwice == Spec => []SentOnce
<1>1. BroadcastInv => SentOnce
  BY DEF BroadcastInv, LoopInv, SentOnce
<1> QED BY <1>1, BroadcastInvariant, PTL

\* A broadcast during which nobody of its audience is removed reaches them all,
\* whoever joins and leaves besides.
THEOREM EverybodyReached == Spec => []ReachedUnlessSomeoneLeft
<1>1. BroadcastInv => ReachedUnlessSomeoneLeft
  BY DEF BroadcastInv, LoopInv, ReachedUnlessSomeoneLeft, Listed, Members
<1> QED BY <1>1, BroadcastInvariant, PTL

=============================================================================
