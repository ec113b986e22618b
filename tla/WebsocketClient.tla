-------------------------- MODULE WebsocketClient --------------------------
(***************************************************************************)
(* The browser's end of the feed: the middleware that opens, replaces and   *)
(* reopens the websocket, its two timers, and what the reports it receives  *)
(* do to the monitor and timeseries slices for one device and one metric.   *)
(* The closure variable "socket" of the middleware is current; the sockets  *)
(* it has dropped live on until they close, with their callbacks.           *)
(***************************************************************************)
EXTENDS Naturals, Sequences, FiniteSets

CONSTANTS
  MaxSockets,   \* sockets that exist at once; a closed one is collected and its number used again
  MaxLive,      \* bound: a page connects by itself while fewer than MaxLive are not closed
  MaxReports,   \* bound on the reports of the server
  MaxPoints,    \* maxPoints of the timeseries slice
  None

ASSUME WebsocketAssumption ==
  /\ {MaxSockets, MaxLive, MaxReports, MaxPoints} \subseteq Nat \ {0}
  /\ None \notin Nat

VARIABLES
  sock,       \* readyState of each socket
  current,    \* the middleware's socket
  reconnect,  \* the reconnect timer is set
  heartbeat,  \* the socket that the heartbeat's interval pings, or None
  queue,      \* per socket: reports sent and not yet received
  sent,       \* number of the last report
  shown,      \* the report that the monitor slice holds, 0 for none
  series,     \* the points of the timeseries slice, by report
  raced       \* history: a socket was replaced while it was still connecting

vars == <<sock, current, reconnect, heartbeat, queue, sent, shown, series, raced>>

Sockets == 1..MaxSockets
Report == [id : 1..MaxReports, stats : BOOLEAN]

Live == {s \in Sockets : sock[s] # "closed"}
IsOpen(s) == s # None /\ sock[s] = "open"

Init ==
  /\ sock = [s \in Sockets |-> "closed"]
  /\ current = None
  /\ reconnect = FALSE
  /\ heartbeat = None
  /\ queue = [s \in Sockets |-> <<>>]
  /\ sent = 0
  /\ shown = 0
  /\ series = <<>>
  /\ raced = FALSE

-----------------------------------------------------------------------------
(* A new socket takes a number that nothing refers to any more.              *)
FreeNumbers == {s \in Sockets : sock[s] = "closed" /\ s # heartbeat}
Unused == CHOOSE s \in FreeNumbers : TRUE

(* Mutant: connect returns whenever there is a socket.                       *)
ConnectOnce ==
  \/ current # None /\ UNCHANGED <<sock, current, raced>>
  \/ /\ current = None
     /\ FreeNumbers # {}
     /\ sock' = [sock EXCEPT ![Unused] = "connecting"]
     /\ current' = Unused
     /\ UNCHANGED raced

(* The middleware's 'websocket/connect': nothing while the current socket is *)
(* open; otherwise a new socket, whatever becomes of the old one.            *)
Connect ==
  \/ IsOpen(current) /\ UNCHANGED <<sock, current, raced>>
  \/ /\ ~IsOpen(current)
     /\ FreeNumbers # {}
     /\ sock' = [sock EXCEPT ![Unused] = "connecting"]
     /\ current' = Unused
     /\ raced' = (raced \/ (current # None /\ sock[current] = "connecting"))

(* AuthForm, after a sign-in. *)
SignInConnects ==
  /\ Cardinality(Live) < MaxLive
  /\ Connect
  /\ UNCHANGED <<reconnect, heartbeat, queue, sent, shown, series>>

ReconnectFires ==
  /\ reconnect
  /\ reconnect' = FALSE
  /\ Connect
  /\ UNCHANGED <<heartbeat, queue, sent, shown, series>>

(* Mutant: disconnect forgets to close the socket.                           *)
RestartKeepsSocket ==
  /\ Cardinality(Live) < MaxLive
  /\ FreeNumbers # {}
  /\ sock' = [sock EXCEPT ![Unused] = "connecting"]
  /\ current' = Unused
  /\ reconnect' = FALSE
  /\ heartbeat' = None
  /\ UNCHANGED <<queue, sent, shown, series, raced>>

(* useRefreshUserInfo dispatches 'websocket/disconnect' and then             *)
(* 'websocket/connect': the old socket is closing and its onclose is to come.*)
Restart ==
  /\ Cardinality(Live) < MaxLive
  /\ FreeNumbers # {}
  /\ sock' = [s \in Sockets |-> IF s = Unused THEN "connecting"
                                ELSE IF s = current /\ sock[s] \in {"connecting", "open"} THEN "closing"
                                ELSE sock[s]]
  /\ current' = Unused
  /\ reconnect' = FALSE
  /\ heartbeat' = None
  /\ UNCHANGED <<queue, sent, shown, series, raced>>

(* onopen: the heartbeat is started for the socket that is current by now.   *)
Opened(s) ==
  /\ sock[s] = "connecting"
  /\ sock' = [sock EXCEPT ![s] = "open"]
  /\ heartbeat' = current
  /\ UNCHANGED <<current, reconnect, queue, sent, shown, series, raced>>

(* Mutant: only a connection that was open is tried again.                   *)
ClosedAfterOpen(s) ==
  /\ s \in Live
  /\ sock' = [sock EXCEPT ![s] = "closed"]
  /\ queue' = [queue EXCEPT ![s] = <<>>]
  /\ heartbeat' = None
  /\ reconnect' = (reconnect \/ sock[s] = "open")
  /\ UNCHANGED <<current, sent, shown, series, raced>>

(* onclose, of any socket: the server or the network ended it, an attempt    *)
(* failed, or disconnect closed it.                                          *)
Closed(s) ==
  /\ s \in Live
  /\ sock' = [sock EXCEPT ![s] = "closed"]
  /\ queue' = [queue EXCEPT ![s] = <<>>]
  /\ heartbeat' = None
  /\ reconnect' = TRUE
  /\ UNCHANGED <<current, sent, shown, series, raced>>

-----------------------------------------------------------------------------
(* The broadcast of the monitor loop to every open connection (the list of   *)
(* connections is that of Broadcast).                                        *)
ServerReports ==
  /\ sent < MaxReports
  /\ sent' = sent + 1
  /\ \E b \in BOOLEAN :
       queue' = [s \in Sockets |-> IF sock[s] = "open" THEN Append(queue[s], [id |-> sent + 1, stats |-> b])
                                   ELSE queue[s]]
  /\ UNCHANGED <<sock, current, reconnect, heartbeat, shown, series, raced>>

(* pushPoint: the new point at the end, the oldest ones cut off the front.   *)
Pushed(points, p) ==
  LET all == Append(points, p)
  IN  IF Len(all) > MaxPoints THEN SubSeq(all, Len(all) - MaxPoints + 1, Len(all)) ELSE all

(* onmessage: points are added for a report with stats, the device's entity  *)
(* is replaced by any report.                                                *)
Received(s) ==
  LET report == Head(queue[s])
  IN  /\ sock[s] = "open"
      /\ queue[s] # <<>>
      /\ queue' = [queue EXCEPT ![s] = Tail(@)]
      /\ series' = IF report.stats THEN Pushed(series, report.id) ELSE series
      /\ shown' = report.id
      /\ UNCHANGED <<sock, current, reconnect, heartbeat, sent, raced>>

-----------------------------------------------------------------------------
Next ==
  \/ SignInConnects \/ Restart \/ ReconnectFires
  \/ \E s \in Sockets : Opened(s) \/ Closed(s) \/ Received(s)
  \/ ServerReports

Spec == Init /\ [][Next]_vars

(* Timers fire, messages arrive and a closing handshake ends.  An attempt    *)
(* that is made again and again succeeds: nothing is promised while the      *)
(* server stays unreachable.  Sockets may break as often as they like.       *)
FairSpec ==
  /\ Spec
  /\ WF_vars(ReconnectFires)
  /\ \A s \in Sockets :
       /\ WF_vars(sock[s] = "connecting" /\ (Opened(s) \/ Closed(s)))
       /\ WF_vars(sock[s] = "closing" /\ Closed(s))
       /\ WF_vars(Received(s))
  /\ SF_vars(\E s \in Sockets : s = current /\ Opened(s))

-----------------------------------------------------------------------------
(* Type invariant: sockets, the timers, and the slices' contents. *)
WebsocketTypeOK ==
  /\ sock \in [Sockets -> {"connecting", "open", "closing", "closed"}]
  /\ current \in Sockets \cup {None}
  /\ reconnect \in BOOLEAN
  /\ heartbeat \in Sockets \cup {None}
  /\ \A s \in Sockets : \A i \in DOMAIN queue[s] : queue[s][i] \in Report
  /\ sent \in 0..MaxReports
  /\ shown \in 0..MaxReports
  /\ \A i \in DOMAIN series : series[i] \in 1..MaxReports
  /\ raced \in BOOLEAN

(* Once connected the page never gives up: when its socket has closed, the   *)
(* reconnect timer is set, although disconnect and the onclose of older      *)
(* sockets clear and set the same timer.                                     *)
NeverStranded == current # None /\ sock[current] = "closed" => reconnect

(* Two sockets feed the slices at once only when one was once replaced while *)
(* it was still connecting: connect looks for an open socket only, and       *)
(* disconnect and the reconnect timer leave no second open one behind.       *)
OneFeedUnlessRaced ==
  raced \/ \A s, t \in Sockets : sock[s] = "open" /\ sock[t] = "open" => s = t

(* A series never holds more points than maxPoints, and with one feed they   *)
(* are distinct, in the order of the reports, none newer than what is shown, *)
(* even when connections break with reports under way and are replaced.      *)
SeriesOrdered ==
  /\ Len(series) <= MaxPoints
  /\ ~raced => \A i \in DOMAIN series : \A j \in i..Len(series) :
                 series[i] <= series[j] /\ series[j] <= shown /\ (i # j => series[i] # series[j])

(* A page that has once connected is connected again in the end, whichever   *)
(* sockets break and in whatever order their callbacks run.                  *)
Reconnects == (current # None) ~> IsOpen(current)
=============================================================================
