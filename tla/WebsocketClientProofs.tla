------------------------ MODULE WebsocketClientProofs ------------------------
(***************************************************************************)
(* Proofs about WebsocketClient, for every number of sockets and reports   *)
(* and every length of a series.                                           *)
(***************************************************************************)
EXTENDS WebsocketClient, SequenceTheorems, TLAPS

States == {"connecting", "open", "closing", "closed"}

(* The types that the sockets' proofs need.                                *)
SocketsOK ==
  /\ sock \in [Sockets -> States]
  /\ current \in Sockets \union {None}

(* Until a socket is replaced while it connects, all but the middleware's  *)
(* own are on their way out.                                               *)
OthersEnding ==
  ~raced => \A s \in Sockets : s # current => sock[s] \in {"closing", "closed"}

SocketInv == SocketsOK /\ NeverStranded /\ OthersEnding

Reports == [id : Nat, stats : BOOLEAN]

(* Points or reports in the order of their numbers.                        *)
Increasing(f, n) == \A i, j \in 1..n : i < j => f[i] < f[j]
Fresh(reports) ==
  /\ \A i \in 1..Len(reports) : shown < reports[i].id
  /\ \A i, j \in 1..Len(reports) : i < j => reports[i].id < reports[j].id

(* Reports wait only at sockets that were open; with one feed, what waits  *)
(* there is newer than what is shown, which is not older than any point.   *)
FeedOK ==
  /\ queue \in [Sockets -> Seq(Reports)]
  /\ sent \in Nat /\ shown \in 0..sent
  /\ series \in Seq(Nat) /\ Len(series) <= MaxPoints
  /\ \A s \in Sockets : sock[s] \in {"closed", "connecting"} => queue[s] = <<>>
  /\ \A s \in Sockets : \A i \in 1..Len(queue[s]) : queue[s][i].id <= sent
  /\ ~raced => /\ \A i \in 1..Len(series) : series[i] <= shown
               /\ Increasing(series, Len(series))
               /\ \A s \in Sockets : sock[s] = "open" => Fresh(queue[s])

-----------------------------------------------------------------------------
LEMMA NoneIsNoSocket == None \notin Sockets
  BY WebsocketAssumption DEF Sockets

LEMMA UnusedIsFree ==
  ASSUME FreeNumbers # {}
  PROVE  Unused \in Sockets /\ sock[Unused] = "closed" /\ Unused # heartbeat
  BY DEF Unused, FreeNumbers

(* connect: the page gets a socket that connects, or has one that is open. *)
LEMMA ConnectKeeps ==
  ASSUME SocketInv, Connect
  PROVE  /\ SocketsOK' /\ OthersEnding'
         /\ ~(current' # None /\ sock'[current'] = "closed")
<1>1. CASE IsOpen(current) /\ UNCHANGED <<sock, current, raced>>
  BY <1>1 DEF SocketInv, SocketsOK, OthersEnding, IsOpen
<1>2. CASE /\ ~IsOpen(current)
           /\ FreeNumbers # {}
           /\ sock' = [sock EXCEPT ![Unused] = "connecting"]
           /\ current' = Unused
           /\ raced' = (raced \/ (current # None /\ sock[current] = "connecting"))
  <2>1. Unused \in Sockets /\ sock[Unused] = "closed"
    BY <1>2, UnusedIsFree
  <2>2. SocketsOK' /\ sock'[current'] = "connecting"
    BY <1>2, <2>1 DEF SocketInv, SocketsOK, States
  <2>3. ASSUME ~raced', NEW s \in Sockets, s # current'
        PROVE  sock'[s] \in {"closing", "closed"}
    <3>1. ~raced /\ (current = None \/ sock[current] # "connecting")
      BY <1>2, <2>3
    <3>2. sock'[s] = sock[s]
      BY <1>2, <2>1, <2>3 DEF SocketInv, SocketsOK
    <3>3. CASE s # current
      BY <3>1, <3>2, <3>3 DEF SocketInv, OthersEnding
    <3>4. CASE s = current
      BY <1>2, <3>1, <3>2, <3>4, NoneIsNoSocket DEF SocketInv, SocketsOK, States, IsOpen
    <3> QED
      BY <3>3, <3>4
  <2> QED
    BY <2>2, <2>3 DEF OthersEnding
<1> QED
  BY <1>1, <1>2 DEF Connect

(* disconnect and connect: the old socket is closing, the new one connects.*)
LEMMA RestartKeeps ==
  ASSUME SocketInv, Restart
  PROVE  SocketInv'
<1>1. Unused \in Sockets /\ sock[Unused] = "closed"
  BY UnusedIsFree DEF Restart
<1>2. /\ sock' = [s \in Sockets |-> IF s = Unused THEN "connecting"
                                   ELSE IF s = current /\ sock[s] \in {"connecting", "open"}
                                        THEN "closing" ELSE sock[s]]
      /\ current' = Unused /\ raced' = raced
  BY DEF Restart
<1>3. SocketsOK' /\ sock'[current'] = "connecting"
  BY <1>1, <1>2 DEF SocketInv, SocketsOK, States
<1>4. ASSUME ~raced, NEW s \in Sockets, s # Unused
      PROVE  sock'[s] \in {"closing", "closed"}
  BY <1>2, <1>4 DEF SocketInv, SocketsOK, OthersEnding, States
<1> QED
  BY <1>2, <1>3, <1>4 DEF SocketInv, NeverStranded, OthersEnding

(* The callbacks of a socket, the middleware's own or one it has dropped.  *)
LEMMA CallbacksKeep ==
  ASSUME SocketInv, NEW s \in Sockets, Opened(s) \/ Closed(s)
  PROVE  SocketInv'
<1>1. CASE Opened(s)
  <2>1. sock' = [sock EXCEPT ![s] = "open"] /\ sock[s] = "connecting"
    BY <1>1 DEF Opened
  <2>2. SocketsOK'
    BY <1>1, <2>1 DEF Opened, SocketInv, SocketsOK, States
  <2>3. NeverStranded'
    BY <1>1, <2>1 DEF Opened, SocketInv, SocketsOK, NeverStranded
  <2>4. OthersEnding'
    BY <1>1, <2>1 DEF Opened, SocketInv, SocketsOK, OthersEnding
  <2> QED
    BY <2>2, <2>3, <2>4 DEF SocketInv
<1>2. CASE Closed(s)
  <2>1. sock' = [sock EXCEPT ![s] = "closed"]
    BY <1>2 DEF Closed
  <2>2. SocketsOK'
    BY <1>2, <2>1 DEF Closed, SocketInv, SocketsOK, States
  <2>3. NeverStranded'
    BY <1>2 DEF Closed, NeverStranded
  <2>4. OthersEnding'
    BY <1>2, <2>1 DEF Closed, SocketInv, SocketsOK, OthersEnding
  <2> QED
    BY <2>2, <2>3, <2>4 DEF SocketInv
<1> QED
  BY <1>1, <1>2

(* The sockets agree with the timer and with each other in every state.    *)
THEOREM SocketInvariant == Spec => []SocketInv
<1>1. Init => SocketInv
  BY NoneIsNoSocket DEF Init, SocketInv, SocketsOK, NeverStranded, OthersEnding, States
<1>2. SocketInv /\ [Next]_vars => SocketInv'
  <2> SUFFICES ASSUME SocketInv, [Next]_vars PROVE SocketInv'
    OBVIOUS
  <2>1. CASE SignInConnects \/ ReconnectFires
    <3>1. Connect
      BY <2>1 DEF SignInConnects, ReconnectFires
    <3> QED
      BY <3>1, ConnectKeeps DEF SocketInv, NeverStranded
  <2>2. CASE Restart
    BY <2>2, RestartKeeps
  <2>3. CASE \E s \in Sockets : Opened(s) \/ Closed(s)
    BY <2>3, CallbacksKeep
  <2>4. CASE UNCHANGED <<sock, current, reconnect, raced>>
    BY <2>4 DEF SocketInv, SocketsOK, NeverStranded, OthersEnding
  <2>5. ServerReports \/ (\E s \in Sockets : Received(s)) \/ UNCHANGED vars
          => UNCHANGED <<sock, current, reconnect, raced>>
    BY DEF ServerReports, Received, vars
  <2> QED
    BY <2>1, <2>2, <2>3, <2>4, <2>5 DEF Next
<1> QED
  BY <1>1, <1>2, PTL DEF Spec

(* A page whose socket has closed always has the reconnect timer set.      *)
THEOREM TimerCorrect == Spec => []NeverStranded
<1>1. SocketInv => NeverStranded
  BY DEF SocketInv
<1> QED
  BY <1>1, SocketInvariant, PTL

(* Two sockets are open at once only after one was replaced while it was   *)
(* still connecting.                                                       *)
THEOREM FeedCorrect == Spec => []OneFeedUnlessRaced
<1>1. SocketInv => OneFeedUnlessRaced
  BY DEF SocketInv, OthersEnding, OneFeedUnlessRaced
<1> QED
  BY <1>1, SocketInvariant, PTL

-----------------------------------------------------------------------------
(* The feed.                                                               *)

(* pushPoint keeps the newest points, in order.                            *)
LEMMA PushedKeeps ==
  ASSUME NEW points \in Seq(Nat), NEW p \in Nat, Len(points) <= MaxPoints
  PROVE  /\ Pushed(points, p) \in Seq(Nat) /\ Len(Pushed(points, p)) <= MaxPoints
         /\ (/\ \A i \in 1..Len(points) : points[i] < p
             /\ Increasing(points, Len(points)))
            => /\ \A i \in 1..Len(Pushed(points, p)) : Pushed(points, p)[i] <= p
               /\ Increasing(Pushed(points, p), Len(Pushed(points, p)))
<1> DEFINE all == Append(points, p)
           cut == SubSeq(all, Len(all) - MaxPoints + 1, Len(all))
<1>1. MaxPoints \in Nat \ {0}
  BY WebsocketAssumption
<1>2. /\ all \in Seq(Nat) /\ Len(all) = Len(points) + 1
      /\ \A i \in 1..Len(points) : all[i] = points[i]
      /\ all[Len(points) + 1] = p
      /\ Len(points) \in Nat
  BY AppendProperties, LenProperties
<1>3. ASSUME \A i \in 1..Len(points) : points[i] < p, Increasing(points, Len(points))
      PROVE  /\ \A i \in 1..Len(all) : all[i] <= p
             /\ \A i, j \in 1..Len(all) : i < j => all[i] < all[j]
  <2>1. \A i \in 1..Len(points) : points[i] \in Nat
    BY ElementOfSeq
  <2> QED
    BY <1>2, <1>3, <2>1 DEF Increasing
<1>4. CASE Len(all) > MaxPoints
  <2>1. Pushed(points, p) = cut
    BY <1>4 DEF Pushed
  <2>2. Len(all) = MaxPoints + 1 /\ Len(points) = MaxPoints
    BY <1>1, <1>2, <1>4
  <2>3. cut = SubSeq(all, 2, MaxPoints + 1)
    <3>1. Len(all) - MaxPoints + 1 = 2
      BY <1>1, <2>2
    <3> QED
      BY <2>2, <3>1
  <2>4. \A i \in 2..MaxPoints + 1 : all[i] \in Nat
    <3>1. \A i \in 1..Len(all) : all[i] \in Nat
      BY <1>2, ElementOfSeq
    <3> QED
      BY <1>1, <2>2, <3>1
  <2>5. /\ cut \in Seq(Nat) /\ Len(cut) = MaxPoints
        /\ \A i \in 1..MaxPoints : cut[i] = all[i + 1]
    <3> HIDE DEF cut, all
    <3>1. MaxPoints + 1 \in 1..Len(all) + 1 /\ 2 \in 1..Len(all) + 1 /\ 2 <= MaxPoints + 1
      BY <1>1, <2>2
    <3>2. cut \in Seq(Nat)
      BY <1>1, <2>3, <2>4, SubSeqProperties
    <3>3. Len(cut) = MaxPoints + 1 - 2 + 1
      BY <1>1, <2>3, <2>4, <3>1, SubSeqProperties
    <3>4. \A i \in 1..MaxPoints : cut[i] = all[i + 1]
      BY <1>1, <2>3, <2>4, <3>1, SubSeqProperties
    <3> QED
      BY <1>1, <3>2, <3>3, <3>4
  <2>6. ASSUME \A i \in 1..Len(points) : points[i] < p, Increasing(points, Len(points))
        PROVE  /\ \A i \in 1..Len(cut) : cut[i] <= p
               /\ Increasing(cut, Len(cut))
    <3> HIDE DEF cut, all
    <3>1. \A i \in 1..MaxPoints : i + 1 \in 1..Len(all)
      BY <1>1, <2>2
    <3>2. \A i \in 1..Len(cut) : cut[i] <= p
      BY <1>3, <2>5, <2>6, <3>1
    <3>3. ASSUME NEW i \in 1..Len(cut), NEW j \in 1..Len(cut), i < j
          PROVE  cut[i] < cut[j]
      <4>1. i + 1 \in 1..Len(all) /\ j + 1 \in 1..Len(all) /\ i + 1 < j + 1
        BY <1>1, <2>5, <3>1, <3>3
      <4>2. all[i + 1] < all[j + 1]
        BY <1>3, <2>6, <4>1
      <4> QED
        BY <2>5, <4>2
    <3> QED
      BY <3>2, <3>3 DEF Increasing
  <2> HIDE DEF cut, all
  <2> QED
    BY <1>1, <2>1, <2>5, <2>6
<1>5. CASE ~(Len(all) > MaxPoints)
  <2>1. Pushed(points, p) = all
    BY <1>5 DEF Pushed
  <2>2. Len(all) <= MaxPoints
    BY <1>1, <1>2, <1>5
  <2> HIDE DEF cut, all
  <2> QED
    BY <1>2, <1>3, <2>1, <2>2 DEF Increasing
<1> QED
  BY <1>4, <1>5

(* Opening and replacing sockets leaves what waits for delivery alone.     *)
LEMMA QuietKeeps ==
  ASSUME FeedOK, UNCHANGED <<queue, sent, shown, series>>, raced => raced',
         \A s \in Sockets : sock'[s] \in {"closed", "connecting"} => sock[s] \in {"closed", "connecting"},
         \A s \in Sockets : sock'[s] = "open" => sock[s] \in {"open", "connecting"}
  PROVE  FeedOK'
<1>1. ASSUME ~raced', NEW s \in Sockets, sock'[s] = "open"
      PROVE  Fresh(queue[s])
  <2>1. CASE sock[s] = "open"
    BY <1>1, <2>1 DEF FeedOK
  <2>2. CASE sock[s] = "connecting"
    <3>1. queue[s] = <<>>
      BY <2>2 DEF FeedOK
    <3> QED
      BY <3>1 DEF Fresh
  <2> QED
    BY <1>1, <2>1, <2>2
<1> QED
  BY <1>1 DEF FeedOK, Fresh

(* A socket that closes drops what waits for it.                           *)
LEMMA ClosedKeeps ==
  ASSUME SocketsOK, FeedOK, NEW s \in Sockets, Closed(s)
  PROVE  FeedOK'
<1>1. /\ sock' = [sock EXCEPT ![s] = "closed"]
      /\ queue' = [queue EXCEPT ![s] = <<>>]
      /\ UNCHANGED <<sent, shown, series, raced>>
  BY DEF Closed
<1>2. queue'[s] = <<>> /\ sock'[s] = "closed" /\ <<>> \in Seq(Reports)
  BY <1>1 DEF SocketsOK, FeedOK
<1>3. \A r \in Sockets : r # s => queue'[r] = queue[r] /\ sock'[r] = sock[r]
  BY <1>1 DEF SocketsOK, FeedOK
<1>4. queue' \in [Sockets -> Seq(Reports)]
  BY <1>1, <1>2 DEF FeedOK
<1>5. \A r \in Sockets : sock'[r] \in {"closed", "connecting"} => queue'[r] = <<>>
  BY <1>2, <1>3 DEF FeedOK
<1>6. \A r \in Sockets : \A i \in 1..Len(queue'[r]) : queue'[r][i].id <= sent
  <2> TAKE r \in Sockets
  <2>1. CASE r = s
    BY <1>2, <2>1
  <2>2. CASE r # s
    <3>1. \A i \in 1..Len(queue[r]) : queue[r][i].id <= sent
      BY DEF FeedOK
    <3> QED
      BY <1>3, <2>2, <3>1
  <2> QED
    BY <2>1, <2>2
<1>7. ASSUME ~raced, NEW r \in Sockets, sock'[r] = "open"
      PROVE  Fresh(queue'[r])
  BY <1>1, <1>2, <1>3, <1>7 DEF FeedOK
<1> QED
  BY <1>1, <1>4, <1>5, <1>6, <1>7 DEF FeedOK, Fresh

(* A new report is the newest at every socket that gets it.                *)
LEMMA ReportsKeep ==
  ASSUME FeedOK, ServerReports
  PROVE  FeedOK'
<1>1. UNCHANGED <<sock, shown, series, raced>> /\ sent' = sent + 1 /\ sent \in Nat
  BY DEF ServerReports, FeedOK
<1>2. PICK b \in BOOLEAN :
        queue' = [s \in Sockets |-> IF sock[s] = "open" THEN Append(queue[s], [id |-> sent + 1, stats |-> b])
                                    ELSE queue[s]]
  BY DEF ServerReports
<1> DEFINE new == [id |-> sent + 1, stats |-> b]
<1>3. new \in Reports /\ new.id = sent + 1
  BY <1>1 DEF Reports
<1> HIDE DEF new
<1>4. ASSUME NEW s \in Sockets, sock[s] = "open"
      PROVE  /\ queue'[s] = Append(queue[s], new)
             /\ queue'[s] \in Seq(Reports) /\ Len(queue'[s]) = Len(queue[s]) + 1
             /\ \A i \in 1..Len(queue[s]) : queue'[s][i] = queue[s][i]
             /\ queue'[s][Len(queue[s]) + 1] = new
             /\ Len(queue[s]) \in Nat
  <2>1. queue[s] \in Seq(Reports) /\ queue'[s] = Append(queue[s], new)
    BY <1>2, <1>4 DEF FeedOK, new
  <2> QED
    BY <1>3, <2>1, AppendProperties, LenProperties
<1>5. ASSUME NEW s \in Sockets, sock[s] # "open" PROVE queue'[s] = queue[s]
  BY <1>2, <1>5
<1>6. queue' \in [Sockets -> Seq(Reports)]
  <2>1. \A s \in Sockets : queue'[s] \in Seq(Reports)
    BY <1>4, <1>5 DEF FeedOK
  <2>2. queue' = [s \in Sockets |-> queue'[s]]
    BY <1>2
  <2> QED
    BY <2>1, <2>2
<1>7. ASSUME NEW s \in Sockets, NEW i \in 1..Len(queue[s])
      PROVE  queue[s][i].id \in Nat
  <2>1. queue[s] \in Seq(Reports)
    BY DEF FeedOK
  <2>2. queue[s][i] \in Reports
    BY <2>1, ElementOfSeq
  <2> QED
    BY <2>2 DEF Reports
<1>8. ASSUME NEW s \in Sockets, NEW i \in 1..Len(queue'[s])
      PROVE  queue'[s][i].id <= sent'
  <2>1. CASE sock[s] = "open"
    <3>1. CASE i = Len(queue[s]) + 1
      BY <1>1, <1>3, <1>4, <2>1, <3>1
    <3>2. CASE i # Len(queue[s]) + 1
      <4>1. i \in 1..Len(queue[s])
        BY <1>4, <2>1, <3>2
      <4>2. queue[s][i].id <= sent /\ queue'[s][i] = queue[s][i]
        BY <1>4, <2>1, <4>1 DEF FeedOK
      <4> QED
        BY <1>1, <1>7, <4>1, <4>2
    <3> QED
      BY <3>1, <3>2
  <2>2. CASE sock[s] # "open"
    <3>1. i \in 1..Len(queue[s]) /\ queue'[s] = queue[s]
      BY <1>5, <2>2
    <3>2. queue[s][i].id <= sent
      BY <3>1 DEF FeedOK
    <3> QED
      BY <1>1, <1>7, <3>1, <3>2
  <2> QED
    BY <2>1, <2>2
<1>9. ASSUME ~raced, NEW s \in Sockets, sock[s] = "open"
      PROVE  Fresh(queue[s])'
  <2>1. Fresh(queue[s])
    BY <1>9 DEF FeedOK
  <2>2. shown <= sent /\ shown \in Nat
    BY DEF FeedOK
  <2>3. \A i \in 1..Len(queue[s]) : shown < queue[s][i].id /\ queue[s][i].id <= sent
    BY <2>1 DEF FeedOK, Fresh
  <2>4. ASSUME NEW i \in 1..Len(queue'[s]) PROVE shown < queue'[s][i].id
    <3>1. CASE i = Len(queue[s]) + 1
      <4>1. queue'[s][i] = new
        BY <1>4, <1>9, <3>1
      <4>2. queue'[s][i].id = sent + 1
        BY <1>3, <4>1
      <4> QED
        BY <1>1, <2>2, <4>2
    <3>2. CASE i # Len(queue[s]) + 1
      <4>1. Len(queue'[s]) = Len(queue[s]) + 1 /\ Len(queue[s]) \in Nat
        BY <1>4, <1>9
      <4>2. i \in 1..Len(queue[s])
        BY <2>4, <3>2, <4>1
      <4>3. queue'[s][i] = queue[s][i]
        BY <1>4, <1>9, <4>2
      <4> QED
        BY <2>3, <4>2, <4>3
    <3> QED
      BY <3>1, <3>2
  <2>5. ASSUME NEW i \in 1..Len(queue'[s]), NEW j \in 1..Len(queue'[s]), i < j
        PROVE  queue'[s][i].id < queue'[s][j].id
    <3>1. i \in 1..Len(queue[s]) /\ queue'[s][i] = queue[s][i]
      BY <1>4, <1>9, <2>5
    <3>2. CASE j = Len(queue[s]) + 1
      <4>1. queue'[s][j].id = sent + 1
        BY <1>3, <1>4, <1>9, <3>2
      <4>2. queue[s][i].id <= sent /\ queue[s][i].id \in Nat
        BY <1>7, <2>3, <3>1
      <4> QED
        BY <1>1, <3>1, <4>1, <4>2
    <3>3. CASE j # Len(queue[s]) + 1
      <4>1. j \in 1..Len(queue[s]) /\ queue'[s][j] = queue[s][j]
        BY <1>4, <1>9, <2>5, <3>3
      <4> QED
        BY <2>1, <2>5, <3>1, <4>1 DEF Fresh
    <3> QED
      BY <3>2, <3>3
  <2> QED
    BY <1>1, <2>4, <2>5 DEF Fresh
<1>10. \A s \in Sockets : sock'[s] \in {"closed", "connecting"} => queue'[s] = <<>>
  BY <1>1, <1>5 DEF FeedOK
<1>11. shown' \in 0..sent' /\ sent' \in Nat
  BY <1>1 DEF FeedOK
<1>12. /\ series' \in Seq(Nat) /\ Len(series') <= MaxPoints
       /\ ~raced' => /\ \A i \in 1..Len(series') : series'[i] <= shown'
                     /\ Increasing(series', Len(series'))
  BY <1>1 DEF FeedOK
<1>13. ~raced' => \A s \in Sockets : sock'[s] = "open" => Fresh(queue[s])'
  BY <1>1, <1>9
<1> HIDE DEF Fresh
<1> QED
  BY <1>6, <1>8, <1>10, <1>11, <1>12, <1>13 DEF FeedOK

(* The oldest report of the only feed is newer than what it replaces, and  *)
(* older than all that still waits.                                        *)
LEMMA ReceivedKeeps ==
  ASSUME SocketInv, FeedOK, NEW s \in Sockets, Received(s)
  PROVE  FeedOK'
<1> DEFINE report == Head(queue[s])
           rest == Tail(queue[s])
<1>1. /\ sock[s] = "open" /\ queue[s] # <<>>
      /\ queue' = [queue EXCEPT ![s] = rest]
      /\ series' = IF report.stats THEN Pushed(series, report.id) ELSE series
      /\ shown' = report.id
      /\ UNCHANGED <<sock, sent, raced>>
  BY DEF Received
<1>2. queue[s] \in Seq(Reports) /\ Len(queue[s]) \in Nat
  BY LenProperties DEF FeedOK
<1>3. /\ report \in Reports /\ report = queue[s][1] /\ 1 \in 1..Len(queue[s])
      /\ rest \in Seq(Reports) /\ Len(rest) = Len(queue[s]) - 1
      /\ \A i \in 1..Len(rest) : rest[i] = queue[s][i + 1]
  <2>1. Len(queue[s]) # 0
    BY <1>1, <1>2, EmptySeq
  <2>2. 1 \in 1..Len(queue[s])
    BY <1>2, <2>1
  <2>3. /\ report \in Reports /\ rest \in Seq(Reports) /\ Len(rest) = Len(queue[s]) - 1
        /\ \A i \in 1..Len(rest) : rest[i] = queue[s][i + 1]
    BY <1>1, <1>2, HeadTailProperties
  <2>4. report = queue[s][1]
    BY <1>1, <1>2
  <2> QED
    BY <2>2, <2>3, <2>4
<1>4. report.id \in Nat /\ report.id <= sent /\ report.stats \in BOOLEAN
  <2>1. queue[s][1].id <= sent
    BY <1>3 DEF FeedOK
  <2> QED
    BY <1>3, <2>1 DEF Reports
<1> HIDE DEF report, rest
<1>5. queue' \in [Sockets -> Seq(Reports)] /\ queue'[s] = rest
  BY <1>1, <1>3 DEF FeedOK
<1>6. \A r \in Sockets : r # s => queue'[r] = queue[r]
  BY <1>1 DEF FeedOK
<1>7. \A r \in Sockets : sock'[r] \in {"closed", "connecting"} => queue'[r] = <<>>
  BY <1>1, <1>6 DEF FeedOK
<1>8. \A r \in Sockets : \A i \in 1..Len(queue'[r]) : queue'[r][i].id <= sent
  <2>1. \A i \in 1..Len(rest) : i + 1 \in 1..Len(queue[s])
    BY <1>2, <1>3
  <2>2. \A i \in 1..Len(rest) : rest[i].id <= sent
    <3> TAKE i \in 1..Len(rest)
    <3>1. i + 1 \in 1..Len(queue[s]) /\ rest[i] = queue[s][i + 1]
      BY <1>3, <2>1
    <3> QED
      BY <3>1 DEF FeedOK
  <2> QED
    BY <1>5, <1>6, <2>2 DEF FeedOK
<1>9. series' \in Seq(Nat) /\ Len(series') <= MaxPoints
  BY <1>1, <1>4, PushedKeeps DEF FeedOK
<1>10. ASSUME ~raced
       PROVE  /\ \A i \in 1..Len(series') : series'[i] <= report.id
              /\ Increasing(series', Len(series'))
  <2>1. shown < report.id /\ shown \in Nat
    BY <1>1, <1>3, <1>10 DEF FeedOK, Fresh
  <2>2. \A i \in 1..Len(series) : series[i] \in Nat /\ series[i] <= shown
    BY <1>10, ElementOfSeq DEF FeedOK
  <2>3. \A i \in 1..Len(series) : series[i] < report.id
    BY <1>4, <2>1, <2>2
  <2>4. series \in Seq(Nat) /\ Len(series) <= MaxPoints /\ Increasing(series, Len(series))
    BY <1>10 DEF FeedOK
  <2>5. CASE report.stats
    BY <1>1, <1>4, <2>3, <2>4, <2>5, PushedKeeps
  <2>6. CASE ~report.stats
    <3>1. series' = series
      BY <1>1, <2>6
    <3> QED
      BY <1>4, <2>2, <2>3, <2>4, <3>1
  <2> QED
    BY <2>5, <2>6
<1>11. ASSUME ~raced, NEW r \in Sockets, sock'[r] = "open"
       PROVE  Fresh(queue[r])'
  <2>1. r = s
    BY <1>1, <1>11 DEF SocketInv, OthersEnding
  <2>2. Fresh(queue[s])
    BY <1>1, <1>11 DEF FeedOK
  <2>3. \A i \in 1..Len(rest) : i + 1 \in 1..Len(queue[s]) /\ 1 < i + 1
    BY <1>2, <1>3
  <2>4. ASSUME NEW i \in 1..Len(rest) PROVE report.id < rest[i].id
    <3>1. i + 1 \in 1..Len(queue[s]) /\ 1 < i + 1 /\ rest[i] = queue[s][i + 1]
      BY <1>3, <2>3
    <3>2. report = queue[s][1] /\ 1 \in 1..Len(queue[s])
      BY <1>3
    <3>3. queue[s][1].id < queue[s][i + 1].id
      BY <2>2, <3>1, <3>2 DEF Fresh
    <3> QED
      BY <3>1, <3>2, <3>3
  <2>5. ASSUME NEW i \in 1..Len(rest), NEW j \in 1..Len(rest), i < j
        PROVE  rest[i].id < rest[j].id
    <3>1. /\ i + 1 \in 1..Len(queue[s]) /\ j + 1 \in 1..Len(queue[s]) /\ i + 1 < j + 1
          /\ rest[i] = queue[s][i + 1] /\ rest[j] = queue[s][j + 1]
      BY <1>3, <2>3, <2>5
    <3>2. \A a, b \in 1..Len(queue[s]) : a < b => queue[s][a].id < queue[s][b].id
      BY <2>2 DEF Fresh
    <3>3. queue[s][i + 1].id < queue[s][j + 1].id
      BY <3>1, <3>2
    <3> QED
      BY <3>1, <3>3
  <2> QED
    BY <1>1, <1>5, <2>1, <2>4, <2>5 DEF Fresh
<1>12. shown' \in 0..sent' /\ sent' \in Nat
  BY <1>1, <1>4 DEF FeedOK
<1>13. ~raced' => /\ \A i \in 1..Len(series') : series'[i] <= shown'
                  /\ Increasing(series', Len(series'))
                  /\ \A r \in Sockets : sock'[r] = "open" => Fresh(queue[r])'
  BY <1>1, <1>10, <1>11
<1> QED
  BY <1>1, <1>5, <1>7, <1>8, <1>9, <1>12, <1>13 DEF FeedOK

(* Every step keeps what is shown, what waits and the series in step.      *)
LEMMA StepKeepsFeed ==
  ASSUME SocketInv, FeedOK, [Next]_vars
  PROVE  FeedOK'
<1>1. CASE SignInConnects \/ ReconnectFires
  <2>1. Connect /\ UNCHANGED <<queue, sent, shown, series>>
    BY <1>1 DEF SignInConnects, ReconnectFires
  <2>2. CASE UNCHANGED <<sock, raced>>
    BY <2>1, <2>2, QuietKeeps
  <2>3. CASE /\ FreeNumbers # {}
             /\ sock' = [sock EXCEPT ![Unused] = "connecting"]
             /\ raced => raced'
    <3>1. Unused \in Sockets /\ sock[Unused] = "closed"
      BY <2>3, UnusedIsFree
    <3>2. \A s \in Sockets : sock'[s] = IF s = Unused THEN "connecting" ELSE sock[s]
      BY <2>3, <3>1 DEF SocketInv, SocketsOK
    <3> QED
      BY <2>1, <2>3, <3>1, <3>2, QuietKeeps
  <2> QED
    BY <2>1, <2>2, <2>3 DEF Connect
<1>2. CASE Restart
  <2>1. /\ Unused \in Sockets /\ sock[Unused] = "closed"
        /\ UNCHANGED <<queue, sent, shown, series, raced>>
    BY <1>2, UnusedIsFree DEF Restart
  <2>2. \A s \in Sockets : sock'[s] = IF s = Unused THEN "connecting"
                                      ELSE IF s = current /\ sock[s] \in {"connecting", "open"} THEN "closing"
                                      ELSE sock[s]
    BY <1>2 DEF Restart
  <2> QED
    BY <2>1, <2>2, QuietKeeps
<1>3. CASE \E s \in Sockets : Opened(s)
  <2>1. PICK s \in Sockets : Opened(s)
    BY <1>3
  <2>2. /\ sock[s] = "connecting" /\ UNCHANGED <<queue, sent, shown, series, raced>>
        /\ \A r \in Sockets : sock'[r] = IF r = s THEN "open" ELSE sock[r]
    BY <2>1 DEF Opened, SocketInv, SocketsOK
  <2> QED
    BY <2>2, QuietKeeps
<1>4. CASE \E s \in Sockets : Closed(s)
  BY <1>4, ClosedKeeps DEF SocketInv
<1>5. CASE \E s \in Sockets : Received(s)
  BY <1>5, ReceivedKeeps
<1>6. CASE ServerReports
  BY <1>6, ReportsKeep
<1>7. CASE UNCHANGED vars
  BY <1>7, QuietKeeps DEF vars
<1> QED
  BY <1>1, <1>2, <1>3, <1>4, <1>5, <1>6, <1>7 DEF Next

(* While there is one feed, the points of a series stay in the order of    *)
(* the reports and none is newer than what is shown.                       *)
THEOREM SeriesCorrect == Spec => []SeriesOrdered
<1>1. Init => FeedOK
  BY WebsocketAssumption DEF Init, FeedOK, Increasing, Fresh
<1>2. SocketInv /\ FeedOK /\ [Next]_vars => FeedOK'
  BY StepKeepsFeed
<1>3. FeedOK => SeriesOrdered
  <2> SUFFICES ASSUME FeedOK PROVE SeriesOrdered
    OBVIOUS
  <2>1. DOMAIN series = 1..Len(series) /\ Len(series) \in Nat
    BY LenProperties DEF FeedOK
  <2>2. \A i \in 1..Len(series) : series[i] \in Nat
    BY ElementOfSeq DEF FeedOK
  <2>3. ASSUME ~raced, NEW i \in 1..Len(series), NEW j \in i..Len(series)
        PROVE  series[i] <= series[j] /\ series[j] <= shown /\ (i # j => series[i] # series[j])
    <3>1. j \in 1..Len(series) /\ (i = j \/ i < j)
      BY <2>1, <2>3
    <3>2. series[j] <= shown /\ (i < j => series[i] < series[j])
      BY <2>3, <3>1 DEF FeedOK, Increasing
    <3> QED
      BY <2>1, <2>2, <3>1, <3>2
  <2> QED
    BY <2>1, <2>3 DEF FeedOK, SeriesOrdered
<1> QED
  BY <1>1, <1>2, <1>3, SocketInvariant, PTL DEF Spec
=============================================================================
