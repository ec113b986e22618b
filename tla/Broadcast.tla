----------------------------- MODULE Broadcast -----------------------------
(***************************************************************************)
(* WebSocketConnectionManager, the endpoint that serves each websocket and *)
(* the two loops of MonitorController that broadcast through it.           *)
(*                                                                         *)
(* All of them are coroutines of one event loop and share the Python list  *)
(* active_connections.  broadcast iterates over the list itself, by index, *)
(* and awaits each send, while endpoints and the other broadcast append to *)
(* the list and remove from it.  list.remove raises ValueError if the      *)
(* connection is no longer there.  The monitor loop catches exceptions of  *)
(* broadcast, the topology loop does not.                                  *)
(***************************************************************************)
EXTENDS Integers, Sequences, FiniteSets

CONSTANTS Sockets,        \* bound: websocket connections ever made
          NULL

Loops == {"monitor", "topology"}

ASSUME BroadcastAssumption == NULL \notin Sockets

VARIABLES
  active_connections,   \* the manager's list
  endpoint,             \* where the handler of each socket is
  peer,                 \* the other end of each socket
  loop                  \* per loop: pc, and the broadcast in progress

vars == <<active_connections, endpoint, peer, loop>>

Listed == {active_connections[i] : i \in DOMAIN active_connections}

\* endpoint is "none", "lookup" (accepted and listed, reading the user),
\* "receive", "closing" (refused, in websocket.close), "done" or "failed" (ended
\* by an exception).  Of a loop, pc is "sleep", "send" or "dead"; index is the
\* next position of the list iterator, connection whom the loop is sending to;
\* audience and reached: who was listed at the start of the latest broadcast,
\* and whom it has sent to.

Init ==
  /\ active_connections = <<>>
  /\ endpoint = [s \in Sockets |-> "none"]
  /\ peer = [s \in Sockets |-> "none"]
  /\ loop = [b \in Loops |-> [pc |-> "sleep", index |-> 1, connection |-> NULL,
                              audience |-> {}, reached |-> {}]]

-----------------------------------------------------------------------------
(* The list.                                                               *)

DropAt(list, i) == [k \in 1..(Len(list) - 1) |->
                      IF k < i THEN list[k] ELSE list[k + 1]]

\* list.remove(s) where s is listed.
Remove(s) == \E i \in DOMAIN active_connections :
               /\ active_connections[i] = s
               /\ \A j \in 1..(i - 1) : active_connections[j] # s
               /\ active_connections' = DropAt(active_connections, i)

-----------------------------------------------------------------------------
(* websocket_endpoint                                                      *)

\* Mutant: the connection is put in front.
ConnectInFront(s) ==
  /\ endpoint[s] = "none"
  /\ active_connections' = <<s>> \o active_connections
  /\ \E next \in {"lookup", "closing"} : endpoint' = [endpoint EXCEPT ![s] = next]
  /\ peer' = [peer EXCEPT ![s] = "open"]
  /\ UNCHANGED loop

\* connect accepts and appends; the token is checked after that, and a missing
\* or bad one starts the close.
Connect(s) ==
  /\ endpoint[s] = "none"
  /\ active_connections' = Append(active_connections, s)
  /\ \E next \in {"lookup", "closing"} : endpoint' = [endpoint EXCEPT ![s] = next]
  /\ peer' = [peer EXCEPT ![s] = "open"]
  /\ UNCHANGED loop

Lookup(s) ==
  /\ endpoint[s] = "lookup"
  /\ \E next \in {"receive", "closing"} : endpoint' = [endpoint EXCEPT ![s] = next]
  /\ UNCHANGED <<active_connections, peer, loop>>

\* The read fails: nothing catches the exception, the server closes the socket
\* and the connection stays in the list.
LookupFails(s) ==
  /\ endpoint[s] = "lookup"
  /\ endpoint' = [endpoint EXCEPT ![s] = "failed"]
  /\ peer' = [peer EXCEPT ![s] = "gone"]
  /\ UNCHANGED <<active_connections, loop>>

\* The client closes, or the network drops it.
PeerLeaves(s) ==
  /\ peer[s] = "open"
  /\ peer' = [peer EXCEPT ![s] = "gone"]
  /\ UNCHANGED <<active_connections, endpoint, loop>>

\* close has been sent, or receive_text has raised WebSocketDisconnect: the
\* endpoint removes its connection; if a broadcast did so before, ValueError.
Disconnect(s) ==
  /\ \/ endpoint[s] = "closing"
     \/ endpoint[s] = "receive" /\ peer[s] = "gone"
  /\ \/ /\ s \in Listed
        /\ Remove(s)
        /\ endpoint' = [endpoint EXCEPT ![s] = "done"]
     \/ /\ s \notin Listed
        /\ endpoint' = [endpoint EXCEPT ![s] = "failed"]
        /\ UNCHANGED active_connections
  /\ peer' = [peer EXCEPT ![s] = "gone"]
  /\ UNCHANGED loop

-----------------------------------------------------------------------------
(* broadcast                                                               *)

\* The iterator yields the next connection of the list as it is now, or ends.
Advance(state, list) ==
  IF state.index <= Len(list)
  THEN [state EXCEPT !.pc = "send", !.connection = list[state.index],
                     !.index = @ + 1]
  ELSE [state EXCEPT !.pc = "sleep", !.connection = NULL]

\* Mutant: the first connection is left out.
StartSecond(b) ==
  /\ loop[b].pc = "sleep"
  /\ loop' = [loop EXCEPT ![b] =
                Advance([@ EXCEPT !.index = 2, !.audience = Listed,
                                  !.reached = {}], active_connections)]
  /\ UNCHANGED <<active_connections, endpoint, peer>>

Start(b) ==
  /\ loop[b].pc = "sleep"
  /\ loop' = [loop EXCEPT ![b] =
                Advance([@ EXCEPT !.index = 1, !.audience = Listed,
                                  !.reached = {}], active_connections)]
  /\ UNCHANGED <<active_connections, endpoint, peer>>

\* A send that began before the socket broke may still succeed, and so does one
\* to a peer whose absence the server has not noticed; only on a socket that the
\* server has closed after an exception none succeeds.
Sent(b) ==
  /\ loop[b].pc = "send"
  /\ endpoint[loop[b].connection] # "failed"
  /\ loop' = [loop EXCEPT ![b] =
                Advance([@ EXCEPT !.reached = loop[b].reached
                                                \cup {loop[b].connection}],
                        active_connections)]
  /\ UNCHANGED <<active_connections, endpoint, peer>>

Broken(s) == peer[s] = "gone" \/ endpoint[s] \in {"closing", "done", "failed"}

\* Mutant: a connection that fails is not removed.
SendFailsKeeps(b) ==
  /\ loop[b].pc = "send"
  /\ Broken(loop[b].connection)
  /\ loop' = [loop EXCEPT ![b] = Advance(@, active_connections)]
  /\ UNCHANGED <<active_connections, endpoint, peer>>

\* send_text raises and the connection is removed from the list being iterated:
\* the iterator passes over the one that takes its place.
SendFails(b) ==
  /\ loop[b].pc = "send"
  /\ Broken(loop[b].connection)
  /\ loop[b].connection \in Listed
  /\ Remove(loop[b].connection)
  /\ loop' = [loop EXCEPT ![b] = Advance(@, active_connections')]
  /\ UNCHANGED <<endpoint, peer>>

\* Mutant: the exception ends either loop.
SendFailsKills(b) ==
  /\ loop[b].pc = "send"
  /\ Broken(loop[b].connection)
  /\ loop[b].connection \notin Listed
  /\ loop' = [loop EXCEPT ![b].pc = "dead", ![b].connection = NULL]
  /\ UNCHANGED <<active_connections, endpoint, peer>>

\* The same when somebody else has removed it: ValueError leaves broadcast.
SendFailsTwice(b) ==
  /\ loop[b].pc = "send"
  /\ Broken(loop[b].connection)
  /\ loop[b].connection \notin Listed
  /\ loop' = [loop EXCEPT ![b].pc = IF b = "monitor" THEN "sleep" ELSE "dead",
                          ![b].connection = NULL]
  /\ UNCHANGED <<active_connections, endpoint, peer>>

-----------------------------------------------------------------------------
EndpointNext(s) == Lookup(s) \/ LookupFails(s) \/ Disconnect(s)
LoopNext(b) == Start(b) \/ Sent(b) \/ SendFails(b) \/ SendFailsTwice(b)

Next == \/ \E s \in Sockets : Connect(s) \/ PeerLeaves(s) \/ EndpointNext(s)
        \/ \E b \in Loops : LoopNext(b)

Spec == Init /\ [][Next]_vars

\* Reads and sends answer, receive_text sees a peer that is gone, timers fire.
Fairness == /\ \A s \in Sockets : WF_vars(EndpointNext(s))
            /\ \A b \in Loops : WF_vars(LoopNext(b))

FairSpec == Spec /\ Fairness

-----------------------------------------------------------------------------
(* Properties.                                                             *)

\* No broadcast sends its message to a client twice, however the list changes
\* under the iterator.
SentOnce ==
  \A b \in Loops : loop[b].pc = "send" => loop[b].connection \notin loop[b].reached

\* A broadcast after which everybody it started with is still listed has
\* reached them all: clients that join meanwhile make it miss nobody.
ReachedUnlessSomeoneLeft ==
  \A b \in Loops :
    loop[b].pc = "sleep" /\ loop[b].audience \subseteq Listed =>
      loop[b].audience \subseteq loop[b].reached

\* A connection whose peer is gone does not stay in the list for ever, even if
\* its endpoint ended without removing it.
GoneAreRemoved == \A s \in Sockets : peer[s] = "gone" ~> s \notin Listed

\* Every broadcast of the monitor loop ends with the loop asleep, ready for the
\* next round: no exception of broadcast ends this loop.
MonitorSurvives == loop["monitor"].pc = "send" ~> loop["monitor"].pc = "sleep"

=============================================================================
