------------------------ MODULE TopologyStoreProofs ------------------------
(***************************************************************************)
(* Proofs about TopologyStore, for any number of devices, stations and     *)
(* neighbours, and any order of loads and messages.                        *)
(*                                                                         *)
(* The first sections say what the operators on sequences of nodes return; *)
(* Merged and Loaded are the two writers of the graph, as sets of nodes    *)
(* with their ids.  GraphInv is the invariant.  The score needs that sums  *)
(* over finite sets are numbers (SumIsInt).                                *)
(***************************************************************************)
EXTENDS TopologyStore, FiniteSetTheorems, FunctionTheorems, SequenceTheorems,
        WellFoundedInduction, TLAPS

\* No two nodes of a sequence have the same id.
Distinct(seq) == \A j, k \in DOMAIN seq : seq[j].id = seq[k].id => j = k

-----------------------------------------------------------------------------
(* Sequences made from sets and from parts of sequences.                    *)

\* SetToSeq lists a set, each element once.
LEMMA Listed ==
  ASSUME NEW S, IsFiniteSet(S)
  PROVE  /\ SetToSeq(S) \in Seq(S)
         /\ ToSet(SetToSeq(S)) = S
         /\ \A j, k \in DOMAIN SetToSeq(S) : SetToSeq(S)[j] = SetToSeq(S)[k] => j = k
<1> DEFINE n == Cardinality(S)
<1>1. n \in Nat /\ ExistsBijection(1..n, S)
  BY FS_CardinalityType
<1>2. PICK f : f \in Bijection(1..n, S)
  BY <1>1, Fun_ExistsBij
<1>3. f \in [1..n -> S] /\ IsInjective(f)
  BY <1>2, Fun_BijectionProperties DEF Injection
<1> DEFINE s == SetToSeq(S)
<1>4. s \in [1..n -> S] /\ IsInjective(s)
  BY <1>3 DEF SetToSeq
<1>5. s \in Injection(1..n, S)
  BY <1>4 DEF Injection
<1>6. Cardinality(1..n) = n /\ IsFiniteSet(1..n)
  BY <1>1, FS_Interval
<1>7. s \in Surjection(1..n, S)
  BY <1>5, <1>6, FS_Injection
<1>8. \A x \in S : \E k \in 1..n : s[k] = x
  BY <1>7 DEF Surjection
<1> HIDE DEF s, n
<1>9. s \in Seq(S) /\ DOMAIN s = 1..n
  BY <1>1, <1>4
<1>10. ToSet(s) = S
  BY <1>4, <1>8, <1>9 DEF ToSet
<1>11. \A j, k \in DOMAIN s : s[j] = s[k] => j = k
  BY <1>4 DEF IsInjective
<1> QED BY <1>9, <1>10, <1>11 DEF s

\* The k-th place exists, for each k up to their number, and is one of its own.
LEMMA Ranked ==
  ASSUME NEW places, IsFiniteSet(places), places \subseteq Int
  PROVE  /\ Cardinality(places) \in Nat
         /\ \A i \in places : Rank(places, i) \in 1..Cardinality(places)
         /\ \A i, j \in places : Rank(places, i) = Rank(places, j) => i = j
         /\ \A k \in 1..Cardinality(places) : \E i \in places : Rank(places, i) = k
<1> DEFINE upto(i) == {j \in places : j <= i}
           n == Cardinality(places)
<1>1. n \in Nat /\ IsFiniteSet(1..n) /\ Cardinality(1..n) = n
  BY FS_CardinalityType, FS_Interval
<1>2. ASSUME NEW i \in places
      PROVE  /\ upto(i) \in SUBSET places /\ i \in upto(i) /\ IsFiniteSet(upto(i))
             /\ Rank(places, i) = Cardinality(upto(i)) /\ Rank(places, i) \in 1..n
  <2>1. upto(i) \in SUBSET places /\ i \in upto(i)
    BY <1>2
  <2>2. /\ IsFiniteSet(upto(i)) /\ Cardinality(upto(i)) <= n
        /\ Cardinality(upto(i)) \in Nat
    BY <2>1, FS_Subset, FS_CardinalityType
  <2>3. Cardinality(upto(i)) # 0
    BY <2>1, <2>2, FS_EmptySet
  <2>4. Rank(places, i) = Cardinality(upto(i))
    BY DEF Rank
  <2> HIDE DEF upto, n
  <2> QED BY <1>1, <2>1, <2>2, <2>3, <2>4
<1>3. ASSUME NEW i \in places, NEW j \in places, i < j
      PROVE  Rank(places, i) # Rank(places, j)
  <2>1. upto(i) \in SUBSET upto(j) /\ j \notin upto(i) /\ j \in upto(j)
    <3>1. ASSUME NEW k \in places, k <= i PROVE k <= j
      <4>1. i \in Int /\ j \in Int /\ k \in Int
        OBVIOUS
      <4> QED BY <1>3, <3>1, <4>1
    <3>2. ~(j <= i) /\ j <= j
      <4>1. i \in Int /\ j \in Int
        OBVIOUS
      <4> QED BY <1>3, <4>1
    <3> QED BY <3>1, <3>2
  <2> HIDE DEF upto
  <2>2. Rank(places, i) = Rank(places, j) => upto(i) = upto(j)
    BY <1>2, <2>1, FS_Subset
  <2> QED BY <2>1, <2>2
<1>4. \A i, j \in places : Rank(places, i) = Rank(places, j) => i = j
  BY <1>3
<1> DEFINE f == [i \in places |-> Rank(places, i)]
<1>5. f \in Injection(places, 1..n)
  BY <1>2, <1>4 DEF Injection, IsInjective
<1>6. f \in Surjection(places, 1..n)
  BY <1>1, <1>5, FS_Injection
<1>7. \A k \in 1..n : \E i \in places : f[i] = k
  BY <1>6 DEF Surjection
<1> QED BY <1>1, <1>2, <1>4, <1>7

\* Picked takes every node at one of the places, and each once.
LEMMA PickedNodes ==
  ASSUME NEW S, NEW seq \in Seq(S), NEW places \in SUBSET DOMAIN seq
  PROVE  /\ Picked(seq, places) \in Seq(S)
         /\ ToSet(Picked(seq, places)) = {seq[i] : i \in places}
         /\ Distinct(seq) => Distinct(Picked(seq, places))
<1> DEFINE n == Cardinality(places)
           at(k) == CHOOSE i \in places : Rank(places, i) = k
           p == Picked(seq, places)
<1>1. IsFiniteSet(places) /\ places \subseteq Int
  <2>1. DOMAIN seq = 1..Len(seq) /\ Len(seq) \in Nat
    OBVIOUS
  <2>2. IsFiniteSet(DOMAIN seq)
    BY <2>1, FS_Interval
  <2> QED BY <2>1, <2>2, FS_Subset
<1>2. n \in Nat
  BY <1>1, FS_CardinalityType
<1>3. ASSUME NEW k \in 1..n PROVE at(k) \in places /\ Rank(places, at(k)) = k
  BY <1>1, Ranked
<1>4. ASSUME NEW i \in places PROVE \E k \in 1..n : at(k) = i
  <2>1. Rank(places, i) \in 1..n
    BY <1>1, Ranked
  <2>2. at(Rank(places, i)) = i
    BY <1>1, <1>3, <2>1, Ranked
  <2> QED BY <2>1, <2>2
<1>5. p = [k \in 1..n |-> seq[at(k)]]
  BY DEF Picked
<1> HIDE DEF at, n, p
<1>6. \A k \in 1..n : seq[at(k)] \in S
  BY <1>3, ElementOfSeq
<1>7. p \in Seq(S) /\ DOMAIN p = 1..n
  BY <1>2, <1>5, <1>6
<1>8. ToSet(p) = {seq[i] : i \in places}
  BY <1>3, <1>4, <1>5, <1>7 DEF ToSet
<1>9. ASSUME Distinct(seq) PROVE Distinct(p)
  <2> SUFFICES ASSUME NEW j \in 1..n, NEW k \in 1..n, p[j].id = p[k].id PROVE j = k
    BY <1>7 DEF Distinct
  <2>1. at(j) = at(k)
    BY <1>3, <1>5, <1>9 DEF Distinct
  <2> QED BY <1>3, <2>1
<1> QED BY <1>7, <1>8, <1>9 DEF p


\* A concatenation has the nodes of both sequences.
LEMMA Joined ==
  ASSUME NEW s \in Seq(Node), NEW t \in Seq(Node)
  PROVE  /\ s \o t \in Seq(Node)
         /\ ToSet(s \o t) = ToSet(s) \cup ToSet(t)
         /\ Distinct(s) /\ Distinct(t) /\ IdsOf(s) \cap IdsOf(t) = {} => Distinct(s \o t)
<1>1. /\ s \o t \in Seq(Node) /\ DOMAIN (s \o t) = 1..Len(s) + Len(t)
      /\ DOMAIN s = 1..Len(s) /\ DOMAIN t = 1..Len(t) /\ Len(s) \in Nat /\ Len(t) \in Nat
  OBVIOUS
<1>2. ASSUME NEW i \in 1..Len(s) + Len(t)
      PROVE  \/ i \in 1..Len(s) /\ (s \o t)[i] = s[i]
             \/ i - Len(s) \in 1..Len(t) /\ (s \o t)[i] = t[i - Len(s)]
  BY <1>1
<1>3. \A i \in 1..Len(s) : i \in 1..Len(s) + Len(t) /\ (s \o t)[i] = s[i]
  BY <1>1
<1>4. \A i \in 1..Len(t) : Len(s) + i \in 1..Len(s) + Len(t) /\ (s \o t)[Len(s) + i] = t[i]
  BY <1>1
<1> DEFINE u == s \o t
<1> HIDE DEF u
<1>5. ToSet(u) \subseteq ToSet(s) \cup ToSet(t)
  BY <1>1, <1>2 DEF u, ToSet
<1>6. ToSet(s) \subseteq ToSet(u) /\ ToSet(t) \subseteq ToSet(u)
  BY <1>1, <1>3, <1>4 DEF u, ToSet
<1>7. ASSUME Distinct(s), Distinct(t), IdsOf(s) \cap IdsOf(t) = {}
      PROVE  Distinct(u)
  <2>1. ASSUME NEW j \in 1..Len(s), NEW k \in 1..Len(t) PROVE s[j].id # t[k].id
    <3>1. s[j].id \in IdsOf(s) /\ t[k].id \in IdsOf(t)
      BY <1>1 DEF IdsOf, ToSet
    <3> QED BY <1>7, <3>1
  <2>2. \A j, k \in 1..Len(s) : s[j].id = s[k].id => j = k
    BY <1>1, <1>7 DEF Distinct
  <2>3. \A j, k \in 1..Len(t) : t[j].id = t[k].id => j = k
    BY <1>1, <1>7 DEF Distinct
  <2> SUFFICES ASSUME NEW j \in 1..Len(s) + Len(t), NEW k \in 1..Len(s) + Len(t),
                      u[j].id = u[k].id
               PROVE  j = k
    BY <1>1 DEF Distinct, u
  <2>4. CASE j \in 1..Len(s) /\ u[j] = s[j] /\ k \in 1..Len(s) /\ u[k] = s[k]
    BY <2>2, <2>4
  <2>5. CASE /\ j - Len(s) \in 1..Len(t) /\ u[j] = t[j - Len(s)]
             /\ k - Len(s) \in 1..Len(t) /\ u[k] = t[k - Len(s)]
    <3>1. j - Len(s) = k - Len(s)
      BY <2>3, <2>5
    <3> QED BY <1>1, <3>1
  <2>6. CASE j \in 1..Len(s) /\ u[j] = s[j] /\ k - Len(s) \in 1..Len(t) /\ u[k] = t[k - Len(s)]
    BY <2>1, <2>6
  <2>7. CASE k \in 1..Len(s) /\ u[k] = s[k] /\ j - Len(s) \in 1..Len(t) /\ u[j] = t[j - Len(s)]
    BY <2>1, <2>7
  <2> QED BY <1>2, <2>4, <2>5, <2>6, <2>7 DEF u
<1> QED BY <1>1, <1>5, <1>6, <1>7 DEF u

\* With and Without.
LEMMA Selected ==
  ASSUME NEW seq \in Seq(Node), NEW ids
  PROVE  /\ With(seq, ids) \in Seq(Node) /\ Without(seq, ids) \in Seq(Node)
         /\ ToSet(With(seq, ids)) = {n \in ToSet(seq) : n.id \in ids}
         /\ ToSet(Without(seq, ids)) = {n \in ToSet(seq) : n.id \notin ids}
         /\ Distinct(seq) => Distinct(With(seq, ids)) /\ Distinct(Without(seq, ids))
<1> DEFINE in == {i \in DOMAIN seq : seq[i].id \in ids}
           out == {i \in DOMAIN seq : seq[i].id \notin ids}
<1>1. in \in SUBSET DOMAIN seq /\ out \in SUBSET DOMAIN seq
  OBVIOUS
<1>2. /\ {seq[i] : i \in in} = {n \in ToSet(seq) : n.id \in ids}
      /\ {seq[i] : i \in out} = {n \in ToSet(seq) : n.id \notin ids}
  BY DEF ToSet
<1>3. With(seq, ids) = Picked(seq, in) /\ Without(seq, ids) = Picked(seq, out)
  BY DEF With, Without
<1> HIDE DEF in, out
<1> QED BY <1>1, <1>2, <1>3, PickedNodes

\* A list of new nodes with the ids of a set.
LEMMA Fresh ==
  ASSUME NEW I, IsFiniteSet(I), NEW N \in SUBSET Node,
         \A i \in I : \E n \in N : n.id = i, \A n \in N : n.id \in I,
         \A m, n \in N : m.id = n.id => m = n
  PROVE  /\ SetToSeq(N) \in Seq(Node)
         /\ ToSet(SetToSeq(N)) = N /\ IdsOf(SetToSeq(N)) = I
         /\ Distinct(SetToSeq(N))
<1> DEFINE f == [n \in N |-> n.id]
<1>1. f \in Injection(N, I)
  BY DEF Injection, IsInjective
<1>2. IsFiniteSet(N)
  BY <1>1, FS_Injection
<1> DEFINE s == SetToSeq(N)
<1>3. s \in Seq(N) /\ ToSet(s) = N /\ \A j, k \in DOMAIN s : s[j] = s[k] => j = k
  BY <1>2, Listed
<1> HIDE DEF s
<1>4. \A j \in DOMAIN s : s[j] \in N
  BY <1>3, ElementOfSeq
<1>5. Distinct(s)
  BY <1>3, <1>4 DEF Distinct
<1>6. IdsOf(s) = I
  BY <1>3 DEF IdsOf
<1>7. s \in Seq(Node)
  BY <1>3
<1> QED BY <1>3, <1>5, <1>6, <1>7 DEF s


-----------------------------------------------------------------------------
(* The writers of the graph.                                                *)

\* Stations have a counter and a time once a message told of them.
Told(seq) == \A n \in ToSet(seq) : n.id \in Stations => n.bytes \in Nat /\ n.time \in Nat

\* A station that is merged is the one of the message, with a throughput.
LEMMA MergedStation ==
  ASSUME NEW old \in Node, NEW new \in Node, old.id = new.id,
         new.id \in Stations => new.bytes \in Nat /\ new.time \in Nat
  PROVE  /\ MergedNode(old, new) \in Node /\ MergedNode(old, new).id = new.id
         /\ MergedNode(old, new).time = new.time
         /\ new.id \notin Stations => MergedNode(old, new) = new
         /\ new.id \in Stations => MergedNode(old, new).rate = Rate(old, new)
<1>1. Kind(new.id) = "wifiStation" <=> new.id \in Stations
  BY TopologyAssumption DEF TopologyAssumption, Kind
<1>2. CASE new.id \notin Stations
  BY <1>1, <1>2 DEF MergedNode
<1>3. CASE new.id \in Stations
  <2>1. new.bytes \in Nat /\ new.time \in Nat /\ old.bytes \in Nat \cup {None}
        /\ old.time \in Nat \cup {None}
    BY <1>3 DEF Node
  <2>2. Rate(old, new) \in Int
    <3> DEFINE before == IF old.bytes = None THEN 0 ELSE old.bytes
               top == (new.bytes - before) * 8
               bottom == new.time - old.time
    <3>1. top \in Int
      BY <2>1
    <3>2. CASE old.time # None /\ new.time > old.time
      <4>1. bottom \in Int /\ bottom > 0 /\ Rate(old, new) = top \div bottom
        BY <2>1, <3>2 DEF Rate
      <4> HIDE DEF top, bottom
      <4> QED BY <3>1, <4>1
    <3>3. CASE ~(old.time # None /\ new.time > old.time)
      BY <3>3 DEF Rate
    <3> QED BY <3>2, <3>3
  <2>3. MergedNode(old, new) = [new EXCEPT !.rate = Rate(old, new)]
    BY <1>1, <1>3 DEF MergedNode
  <2> QED BY <1>3, <2>2, <2>3 DEF Node
<1> QED BY <1>2, <1>3

\* What a message makes of the graph.
LEMMA Merged ==
  ASSUME NEW existing \in Seq(Node), NEW incoming \in Seq(Node),
         Distinct(existing), Distinct(incoming), Told(incoming)
  PROVE  LET all == MergedNodes(existing, incoming)
         IN  /\ all \in Seq(Node) /\ Distinct(all)
             /\ IdsOf(all) = IdsOf(incoming) \cup (IdsOf(existing) \cap Devices)
             /\ \A n \in ToSet(all) :
                  \/ n \in ToSet(existing) /\ n.id \in Devices
                  \/ n \in ToSet(incoming)
                  \/ \E old \in ToSet(existing), new \in ToSet(incoming) :
                       /\ old.id = n.id /\ new.id = n.id /\ n.id \in Stations
                       /\ n = MergedNode(old, new)
<1> DEFINE merged(n) == IF n.id \in IdsOf(incoming) THEN MergedNode(n, Named(incoming, n.id)) ELSE n
           kept == With(existing, Devices \cup IdsOf(incoming))
           old == [i \in DOMAIN kept |-> merged(kept[i])]
           new == Without(incoming, IdsOf(existing))
           Origin(n) ==
             \/ n \in ToSet(existing) /\ n.id \in Devices
             \/ n \in ToSet(incoming)
             \/ \E o \in ToSet(existing), m \in ToSet(incoming) :
                  o.id = n.id /\ m.id = n.id /\ n.id \in Stations /\ n = MergedNode(o, m)
<1>1. \A n \in ToSet(existing) \cup ToSet(incoming) : n \in Node
  BY ElementOfSeq DEF ToSet
<1>2. ASSUME NEW i \in IdsOf(incoming)
      PROVE  Named(incoming, i) \in ToSet(incoming) /\ Named(incoming, i).id = i
  BY DEF IdsOf, Named
<1>3. /\ kept \in Seq(Node) /\ Distinct(kept) /\ new \in Seq(Node) /\ Distinct(new)
      /\ ToSet(kept) = {n \in ToSet(existing) : n.id \in Devices \cup IdsOf(incoming)}
      /\ ToSet(new) = {n \in ToSet(incoming) : n.id \notin IdsOf(existing)}
  BY Selected
<1>4. MergedNodes(existing, incoming) = old \o new
  BY DEF MergedNodes
<1>5. ASSUME NEW n \in ToSet(kept)
      PROVE  merged(n) \in Node /\ merged(n).id = n.id /\ Origin(merged(n))
  <2>1. n \in ToSet(existing) /\ n \in Node
    BY <1>1, <1>3
  <2>2. CASE n.id \in IdsOf(incoming)
    <3> DEFINE m == Named(incoming, n.id)
    <3>1. m \in ToSet(incoming) /\ m \in Node /\ m.id = n.id
      BY <1>1, <1>2, <2>2
    <3>2. merged(n) = MergedNode(n, m)
      BY <2>2
    <3>3. m.id \in Stations => m.bytes \in Nat /\ m.time \in Nat
      BY <3>1 DEF Told
    <3> HIDE DEF m, merged
    <3>4. /\ MergedNode(n, m) \in Node /\ MergedNode(n, m).id = m.id
          /\ m.id \notin Stations => MergedNode(n, m) = m
      BY <2>1, <3>1, <3>3, MergedStation
    <3> QED BY <2>1, <3>1, <3>2, <3>4
  <2>3. CASE n.id \notin IdsOf(incoming)
    BY <1>3, <2>1, <2>3
  <2> QED BY <2>2, <2>3
<1> HIDE DEF merged, kept, new, Origin
<1>6. \A i \in DOMAIN kept : kept[i] \in ToSet(kept) /\ old[i] = merged(kept[i])
  BY DEF ToSet
<1>7. old \in Seq(Node) /\ DOMAIN old = DOMAIN kept
  <2>1. DOMAIN kept = 1..Len(kept) /\ Len(kept) \in Nat
    BY <1>3
  <2> QED BY <1>5, <1>6, <2>1
<1> HIDE DEF old
<1>8. Distinct(old)
  BY <1>3, <1>5, <1>6, <1>7 DEF Distinct
<1>9. ToSet(old) = {merged(n) : n \in ToSet(kept)}
  BY <1>6, <1>7 DEF ToSet
<1>10. IdsOf(old) = IdsOf(kept)
  BY <1>5, <1>9 DEF IdsOf
<1>11. /\ IdsOf(kept) = IdsOf(existing) \cap (Devices \cup IdsOf(incoming))
       /\ IdsOf(new) = IdsOf(incoming) \ IdsOf(existing)
  BY <1>3 DEF IdsOf
<1>12. /\ old \o new \in Seq(Node) /\ ToSet(old \o new) = ToSet(old) \cup ToSet(new)
       /\ Distinct(old \o new)
  BY <1>3, <1>7, <1>8, <1>10, <1>11, Joined
<1>13. IdsOf(old \o new) = IdsOf(incoming) \cup (IdsOf(existing) \cap Devices)
  <2>1. IdsOf(old \o new) = IdsOf(old) \cup IdsOf(new)
    BY <1>12 DEF IdsOf
  <2> QED BY <1>10, <1>11, <2>1
<1>14. \A n \in ToSet(old \o new) : Origin(n)
  <2>1. \A n \in ToSet(new) : Origin(n)
    BY <1>3 DEF Origin
  <2> QED BY <1>5, <1>9, <1>12, <2>1
<1> QED BY <1>4, <1>12, <1>13, <1>14 DEF Origin

\* What a load of devices makes of it.
LEMMA Loaded ==
  ASSUME NEW existing \in Seq(Node), Distinct(existing), NEW F \in SUBSET Devices
  PROVE  LET all == SetToSeq({Plain(d) : d \in F}) \o Without(existing, F)
         IN  /\ all \in Seq(Node) /\ Distinct(all)
             /\ IdsOf(all) = F \cup IdsOf(existing)
             /\ \A n \in ToSet(all) : n.id \in Devices \/ n \in ToSet(existing)
<1> DEFINE N == {Plain(d) : d \in F}
           new == SetToSeq(N)
           old == Without(existing, F)
<1>1. N \subseteq Node
  BY DEF Plain, Node, Ids
<1>2. IsFiniteSet(F)
  BY TopologyAssumption, FS_Subset DEF TopologyAssumption
<1>3. /\ \A i \in F : \E n \in N : n.id = i
      /\ \A n \in N : n.id \in F
      /\ \A m, n \in N : m.id = n.id => m = n
  <2>1. \A d \in F : Plain(d).id = d
    BY DEF Plain
  <2> QED BY <2>1
<1> HIDE DEF N
<1>4. new \in Seq(Node) /\ ToSet(new) = N /\ IdsOf(new) = F /\ Distinct(new)
  BY <1>1, <1>2, <1>3, Fresh
<1>5. /\ old \in Seq(Node) /\ Distinct(old)
      /\ ToSet(old) = {n \in ToSet(existing) : n.id \notin F}
  BY Selected
<1> HIDE DEF new, old
<1>6. IdsOf(old) = IdsOf(existing) \ F
  BY <1>5 DEF IdsOf
<1>7. /\ new \o old \in Seq(Node) /\ Distinct(new \o old)
      /\ ToSet(new \o old) = ToSet(new) \cup ToSet(old)
  BY <1>4, <1>5, <1>6, Joined
<1>8. IdsOf(new \o old) = F \cup IdsOf(existing)
  <2>1. IdsOf(new \o old) = IdsOf(new) \cup IdsOf(old)
    BY <1>7 DEF IdsOf
  <2> QED BY <1>4, <1>6, <2>1
<1>9. \A n \in ToSet(new \o old) : n.id \in Devices \/ n \in ToSet(existing)
  BY <1>3, <1>4, <1>5, <1>7
<1>10. SetToSeq({Plain(d) : d \in F}) \o Without(existing, F) = new \o old
  BY DEF N, new, old
<1> QED BY <1>7, <1>8, <1>9, <1>10


-----------------------------------------------------------------------------
(* The invariant.  RatesFromConsecutiveMessages needs to know that a        *)
(* station's time is that of the last message, since a message in which the *)
(* discovery failed takes the stations away.                                *)
GraphInv ==
  /\ registered \subseteq Devices
  /\ fetched \in {None} \cup SUBSET Devices
  /\ clock \in Nat
  /\ Existing \in Seq(Node) /\ Distinct(Existing)
  /\ IdsOf(Existing) \ Devices = heard \ Devices
  /\ \A n \in ToSet(Existing) : n.id \in Stations => n.time = clock
  /\ ~failed => \A l \in links : {l[1], l[2]} \subseteq IdsOf(Existing)

\* A throughput that the step shows was computed from two messages.
RatesFine ==
  \A n \in StationsOf(Existing') :
    (n.rate # 0 /\ n \notin ToSet(Existing)) => n.id \in heard /\ clock' > clock

\* The graph is empty at first.
LEMMA GraphInit == Init => GraphInv
<1> SUFFICES ASSUME Init PROVE GraphInv
  OBVIOUS
<1>1. Existing = <<>> /\ ToSet(Existing) = {} /\ IdsOf(Existing) = {}
  BY DEF Init, Existing, ToSet, IdsOf
<1> QED BY <1>1 DEF Init, GraphInv, Distinct

\* nodes is set to a sequence, which is the graph then.
LEMMA NodesSet ==
  ASSUME nodes' \in Seq(Node)
  PROVE  Existing' = nodes'
BY NoneAssumption DEF NoneAssumption, Existing

\* The three kinds of nodes are told apart by their ids.
LEMMA IsStation == \A i \in Ids : Kind(i) = "wifiStation" <=> i \in Stations
BY TopologyAssumption DEF TopologyAssumption, Kind

\* Steps that leave the graph alone.
LEMMA GraphKept ==
  ASSUME GraphInv, UNCHANGED <<nodes, links, clock, heard, failed>>,
         registered' \subseteq Devices, fetched' \in {None} \cup SUBSET Devices
  PROVE  GraphInv' /\ RatesFine
<1>1. Existing' = Existing
  BY DEF Existing
<1>2. RatesFine
  BY <1>1 DEF RatesFine, StationsOf
<1> QED BY <1>1, <1>2 DEF GraphInv

\* The devices that the page fetched go into the graph.
LEMMA LoadStep == GraphInv /\ SetInitialNetworkDevices => GraphInv' /\ RatesFine
<1> SUFFICES ASSUME GraphInv, SetInitialNetworkDevices PROVE GraphInv' /\ RatesFine
  OBVIOUS
<1>1. fetched \in SUBSET Devices /\ Existing \in Seq(Node) /\ Distinct(Existing)
  BY DEF SetInitialNetworkDevices, GraphInv
<1> DEFINE all == SetToSeq({Plain(d) : d \in fetched}) \o Without(Existing, fetched)
<1>2. /\ all \in Seq(Node) /\ Distinct(all) /\ IdsOf(all) = fetched \cup IdsOf(Existing)
      /\ \A n \in ToSet(all) : n.id \in Devices \/ n \in ToSet(Existing)
  BY <1>1, Loaded
<1>3. nodes' = all /\ UNCHANGED <<registered, fetched, links, monitor, clock, heard, failed>>
  BY DEF SetInitialNetworkDevices
<1> HIDE DEF all
<1>4. Existing' = all
  BY <1>2, <1>3, NodesSet
<1>5. \A n \in ToSet(all) : n.id \in Stations => n \in ToSet(Existing)
  BY <1>2, TopologyAssumption DEF TopologyAssumption
<1>6. RatesFine
  <2>1. \A n \in ToSet(all) : n \in Node
    BY <1>2, ElementOfSeq DEF ToSet
  <2>2. \A n \in StationsOf(all) : n \in ToSet(Existing)
    BY <1>5, <2>1, IsStation DEF StationsOf, Node
  <2> QED BY <1>4, <2>2 DEF RatesFine
<1>7. /\ IdsOf(all) \ Devices = heard \ Devices
      /\ ~failed => \A l \in links : {l[1], l[2]} \subseteq IdsOf(all)
  BY <1>1, <1>2 DEF GraphInv
<1>8. \A n \in ToSet(all) : n.id \in Stations => n.time = clock
  BY <1>5 DEF GraphInv
<1> QED BY <1>1, <1>2, <1>3, <1>4, <1>6, <1>7, <1>8 DEF GraphInv

\* What a message makes of the graph, in the terms of the invariant: told of
\* when it was sent, it replaces all stations and neighbours.
LEMMA MergeStep ==
  ASSUME GraphInv, NEW incoming \in Seq(Node), Distinct(incoming), Told(incoming),
         NEW now \in Nat, now >= clock, clock' = now,
         \A n \in ToSet(incoming) : n.rate = 0 /\ (n.id \in Stations => n.time = now),
         nodes' = MergedNodes(Existing, incoming), heard' = IdsOf(incoming),
         UNCHANGED <<registered, fetched>>,
         failed' \/ \A l \in links' : {l[1], l[2]} \subseteq IdsOf(incoming)
  PROVE  GraphInv' /\ RatesFine
<1> DEFINE all == MergedNodes(Existing, incoming)
<1>1. Existing \in Seq(Node) /\ Distinct(Existing)
  BY DEF GraphInv
<1>2. /\ all \in Seq(Node) /\ Distinct(all)
      /\ IdsOf(all) = IdsOf(incoming) \cup (IdsOf(Existing) \cap Devices)
      /\ \A n \in ToSet(all) :
           \/ n \in ToSet(Existing) /\ n.id \in Devices
           \/ n \in ToSet(incoming)
           \/ \E old \in ToSet(Existing), new \in ToSet(incoming) :
                /\ old.id = n.id /\ new.id = n.id /\ n.id \in Stations
                /\ n = MergedNode(old, new)
  BY <1>1, Merged
<1>3. nodes' = all
  OBVIOUS
<1> HIDE DEF all
<1>4. Existing' = all
  BY <1>2, <1>3, NodesSet
<1>5. \A n \in ToSet(Existing) \cup ToSet(incoming) : n \in Node
  BY <1>1, ElementOfSeq DEF ToSet
<1>6. ASSUME NEW n \in ToSet(all), n.id \in Stations
      PROVE  /\ n.time = now
             /\ n.rate # 0 => n.id \in heard /\ now > clock
  <2>1. n.id \notin Devices
    BY <1>6, TopologyAssumption DEF TopologyAssumption
  <2>2. CASE n \in ToSet(incoming)
    BY <1>6, <2>2
  <2>3. ASSUME NEW old \in ToSet(Existing), NEW new \in ToSet(incoming),
               old.id = n.id, new.id = n.id, n = MergedNode(old, new)
        PROVE  /\ n.time = now
               /\ n.rate # 0 => n.id \in heard /\ now > clock
    <3>1. old \in Node /\ new \in Node
      BY <1>5
    <3>2. new.bytes \in Nat /\ new.time \in Nat /\ new.time = now
      BY <1>6, <2>3 DEF Told
    <3>3. n.time = now /\ n.rate = Rate(old, new)
      BY <1>6, <2>3, <3>1, <3>2, MergedStation
    <3>4. old.time = clock
      BY <1>6, <2>3 DEF GraphInv
    <3>5. n.rate # 0 => now > clock
      BY <3>2, <3>3, <3>4 DEF Rate
    <3>6. n.id \in heard
      <4>1. n.id \in IdsOf(Existing)
        BY <2>3 DEF IdsOf
      <4> QED BY <2>1, <4>1 DEF GraphInv
    <3> QED BY <3>3, <3>5, <3>6
  <2> QED BY <1>2, <1>6, <2>1, <2>2, <2>3
<1>7. RatesFine
  <2>1. \A n \in ToSet(all) : n \in Node
    BY <1>2, ElementOfSeq DEF ToSet
  <2>2. \A n \in StationsOf(all) : n \in ToSet(all) /\ n.id \in Stations
    BY <2>1, IsStation DEF StationsOf, Node
  <2> QED BY <1>4, <1>6, <2>2 DEF RatesFine
<1>8. IdsOf(all) \ Devices = heard' \ Devices
  BY <1>2
<1>9. ~failed' => \A l \in links' : {l[1], l[2]} \subseteq IdsOf(all)
  BY <1>2
<1> QED BY <1>2, <1>4, <1>6, <1>7, <1>8, <1>9 DEF GraphInv


\* The message of a discovery: devices, stations with a counter and the time,
\* and neighbours.
LEMMA MessageStep ==
  ASSUME GraphInv, NEW now \in {clock, clock + 1}, clock' = now, TopologyMessage(now),
         UNCHANGED <<registered, fetched, monitor>>
  PROVE  GraphInv' /\ RatesFine
<1>1. PICK found \in SUBSET (Stations \cup Neighbours), counter \in [Stations -> Bytes] :
        LET station(i) == [Plain(i) EXCEPT !.bytes = counter[i], !.time = now]
            incoming == SetToSeq({Plain(d) : d \in registered})
                    \o SetToSeq({IF i \in Stations THEN station(i) ELSE Plain(i) : i \in found})
        IN  /\ registered = {} => found = {}
            /\ nodes' = MergedNodes(Existing, incoming)
            /\ \E parent \in [found -> registered] : links' = {<<parent[i], i>> : i \in found}
            /\ heard' = IdsOf(incoming)
            /\ failed' = FALSE
  BY DEF TopologyMessage
<1> DEFINE node(i) == IF i \in Stations
                      THEN [Plain(i) EXCEPT !.bytes = counter[i], !.time = now] ELSE Plain(i)
           D == {Plain(d) : d \in registered}
           N == {node(i) : i \in found}
           incoming == SetToSeq(D) \o SetToSeq(N)
<1>2. /\ nodes' = MergedNodes(Existing, incoming) /\ heard' = IdsOf(incoming)
      /\ \E parent \in [found -> registered] : links' = {<<parent[i], i>> : i \in found}
  BY <1>1
<1>3. now \in Nat /\ now >= clock /\ registered \subseteq Devices
  BY DEF GraphInv
<1>4. ASSUME NEW d \in registered
      PROVE  Plain(d) \in Node /\ Plain(d).id = d /\ Plain(d).rate = 0
  BY <1>3 DEF Plain, Node, Ids
<1>5. ASSUME NEW i \in found
      PROVE  /\ node(i) \in Node /\ node(i).id = i /\ node(i).rate = 0
             /\ i \in Stations => node(i).bytes \in Nat /\ node(i).time = now
  <2>1. CASE i \in Stations
    <3>1. counter[i] \in Nat
      BY <2>1, TopologyAssumption DEF TopologyAssumption
    <3>2. node(i) = [id |-> i, bytes |-> counter[i], time |-> now, rate |-> 0]
      BY <2>1 DEF Plain
    <3> HIDE DEF node
    <3> QED BY <1>3, <2>1, <3>1, <3>2 DEF Node, Ids
  <2>2. CASE i \notin Stations
    BY <2>2 DEF Plain, Node, Ids
  <2> QED BY <2>1, <2>2
<1>6. IsFiniteSet(registered) /\ IsFiniteSet(found)
  <2>1. IsFiniteSet(Stations \cup Neighbours)
    BY TopologyAssumption, FS_Union DEF TopologyAssumption
  <2> QED BY <1>3, <2>1, TopologyAssumption, FS_Subset DEF TopologyAssumption
<1> HIDE DEF node
<1>7. /\ D \subseteq Node /\ N \subseteq Node
      /\ \A i \in registered : \E n \in D : n.id = i
      /\ \A n \in D : n.id \in registered
      /\ \A m, n \in D : m.id = n.id => m = n
  BY <1>4, <1>5
<1>8. /\ \A i \in found : \E n \in N : n.id = i
      /\ \A n \in N : n.id \in found
      /\ \A m, n \in N : m.id = n.id => m = n
  BY <1>5
<1>9. \A n \in D \cup N :
        n.rate = 0 /\ (n.id \in Stations => n.bytes \in Nat /\ n.time = now)
  <2>1. \A n \in D : n.rate = 0 /\ n.id \notin Stations
    BY <1>3, <1>4, TopologyAssumption DEF TopologyAssumption
  <2>2. \A n \in N : n.rate = 0 /\ (n.id \in Stations => n.bytes \in Nat /\ n.time = now)
    BY <1>5
  <2> QED BY <2>1, <2>2
<1> HIDE DEF D, N
<1>10. /\ SetToSeq(D) \in Seq(Node) /\ ToSet(SetToSeq(D)) = D
       /\ IdsOf(SetToSeq(D)) = registered /\ Distinct(SetToSeq(D))
  BY <1>6, <1>7, Fresh
<1>11. /\ SetToSeq(N) \in Seq(Node) /\ ToSet(SetToSeq(N)) = N
       /\ IdsOf(SetToSeq(N)) = found /\ Distinct(SetToSeq(N))
  BY <1>6, <1>7, <1>8, Fresh
<1>12. registered \cap found = {}
  BY <1>3, TopologyAssumption DEF TopologyAssumption
<1>13. /\ incoming \in Seq(Node) /\ ToSet(incoming) = D \cup N /\ Distinct(incoming)
  BY <1>10, <1>11, <1>12, Joined
<1> HIDE DEF incoming
<1>14. IdsOf(incoming) = registered \cup found
  <2>1. IdsOf(SetToSeq(D)) = {n.id : n \in D} /\ IdsOf(SetToSeq(N)) = {n.id : n \in N}
    BY <1>10, <1>11 DEF IdsOf
  <2> QED BY <1>10, <1>11, <1>13, <2>1 DEF IdsOf
<1>15. \A l \in links' : {l[1], l[2]} \subseteq IdsOf(incoming)
  BY <1>2, <1>14
<1>16. Told(incoming)
  BY <1>3, <1>9, <1>13 DEF Told
<1>17. \A n \in ToSet(incoming) : n.rate = 0 /\ (n.id \in Stations => n.time = now)
  BY <1>9, <1>13
<1> QED BY <1>2, <1>3, <1>13, <1>15, <1>16, <1>17, MergeStep

\* The message of a discovery that raised leaves the devices only.
LEMMA ErrorStep ==
  ASSUME GraphInv, NEW now \in {clock, clock + 1}, clock' = now, ErrorMessage,
         UNCHANGED <<registered, fetched, monitor>>
  PROVE  GraphInv' /\ RatesFine
<1>1. /\ <<>> \in Seq(Node) /\ ToSet(<<>>) = {} /\ IdsOf(<<>>) = {}
      /\ Distinct(<<>>) /\ Told(<<>>)
  BY DEF ToSet, IdsOf, Distinct, Told
<1>2. now \in Nat /\ now >= clock
  BY DEF GraphInv
<1>3. nodes' = MergedNodes(Existing, <<>>) /\ heard' = IdsOf(<<>>) /\ failed'
  BY <1>1 DEF ErrorMessage
<1>4. \A n \in ToSet(<<>>) : n.rate = 0 /\ (n.id \in Stations => n.time = now)
  BY <1>1
<1> QED BY <1>1, <1>2, <1>3, <1>4, MergeStep

\* Every step keeps the invariant.
LEMMA GraphStep == GraphInv /\ [Next]_vars => GraphInv' /\ RatesFine
<1> SUFFICES ASSUME GraphInv, [Next]_vars PROVE GraphInv' /\ RatesFine
  OBVIOUS
<1>1. CASE RegistryChanges
  <2>1. registered' \subseteq Devices /\ fetched' \in {None} \cup SUBSET Devices
    BY <1>1 DEF RegistryChanges, SymDiff, GraphInv
  <2> QED BY <1>1, <2>1, GraphKept DEF RegistryChanges
<1>2. CASE CollectionArrives
  <2>1. registered' \subseteq Devices /\ fetched' \in {None} \cup SUBSET Devices
    BY <1>2 DEF CollectionArrives, GraphInv
  <2> QED BY <1>2, <2>1, GraphKept DEF CollectionArrives
<1>3. CASE MonitorMessage \/ UNCHANGED vars
  <2>1. UNCHANGED <<registered, fetched, nodes, links, clock, heard, failed>>
    BY <1>3 DEF MonitorMessage, vars
  <2> QED BY <2>1, GraphKept DEF GraphInv
<1>4. CASE MergeTopology
  BY <1>4, MessageStep, ErrorStep DEF MergeTopology
<1> QED BY <1>1, <1>2, <1>3, <1>4, LoadStep DEF Next

-----------------------------------------------------------------------------
(* The theorems.                                                            *)

\* However loads of the device collection and messages of the websocket follow
\* each other, the graph holds no id twice, its stations and neighbours are
\* those of the last message, and their times are that message's time.
THEOREM GraphInvariant == Spec => []GraphInv
BY GraphInit, GraphStep, PTL DEF Spec

\* The viewer gets one node per id, and of stations and neighbours those of the
\* last message: setInitialNetworkDevices and mergeTopology, in any order,
\* neither draw twice nor keep what has left the network.
THEOREM OneNodePerId == Spec => []GraphOfLastMessage
<1>1. ASSUME GraphInv PROVE GraphOfLastMessage
  <2> DEFINE n == Len(Existing)
             f == [i \in 1..n |-> Existing[i].id]
  <2>1. n \in Nat /\ DOMAIN Existing = 1..n
    BY <1>1 DEF GraphInv
  <2>2. f \in Injection(1..n, IdsOf(Existing)) /\ f \in Surjection(1..n, IdsOf(Existing))
    <3>1. IdsOf(Existing) = {f[i] : i \in 1..n}
      BY <2>1 DEF IdsOf, ToSet
    <3>2. \A j, k \in 1..n : f[j] = f[k] => j = k
      BY <1>1, <2>1 DEF GraphInv, Distinct
    <3>3. f \in [1..n -> IdsOf(Existing)]
      BY <3>1
    <3> HIDE DEF f
    <3> QED BY <3>1, <3>2, <3>3 DEF Injection, Surjection, IsInjective
  <2>3. IsFiniteSet(1..n) /\ Cardinality(1..n) = n
    <3> HIDE DEF n
    <3> QED BY <2>1, FS_Interval
  <2>4. Cardinality(IdsOf(Existing)) = n
    BY <2>2, <2>3, FS_Surjection
  <2> QED BY <1>1, <2>4 DEF GraphInv, GraphOfLastMessage
<1> QED BY <1>1, GraphInvariant, PTL

\* Both ends of every stored link are nodes of the graph, unless the last
\* discovery failed: no load of devices takes away what a link needs.
THEOREM LinksHaveEnds == Spec => []LinksDrawn
<1>1. GraphInv => LinksDrawn
  BY DEF GraphInv, LinksDrawn, DrawnEdges
<1> QED BY <1>1, GraphInvariant, PTL

\* mergeTopology computes a station's throughput from the two last messages
\* only: a station that was away starts at zero, and so does one whose message
\* came at the same time.
THEOREM RatesAreRecent == Spec => RatesFromConsecutiveMessages
<1>1. Spec => [][RatesFine]_vars
  BY GraphInit, GraphStep, PTL DEF Spec
<1> QED BY <1>1 DEF RatesFine, RatesFromConsecutiveMessages


-----------------------------------------------------------------------------
(* Sums over finite sets.  The induction is by least counterexamples.       *)

\* A set of numbers that is not empty has a least member.
LEMMA Least ==
  ASSUME NEW B \in SUBSET Nat, B # {}
  PROVE  \E n \in B : \A m \in B : n <= m
<1>1. PICK n \in B : \A m \in B : ~(<<m, n>> \in OpToRel(<, Nat))
  BY NatLessThanWellFounded, WFMin
<1>2. \A m \in B : ~(m < n)
  BY <1>1 DEF OpToRel
<1> QED BY <1>2

\* One turn of the sum of f over a set.
Some(s) == CHOOSE y \in s : TRUE
Turn(f, g, s) == IF s = {} THEN 0 ELSE f[Some(s)] + g[s \ {Some(s)}]

\* The sum goes through the subsets of the set, one element at a time.
LEMMA SumTurns ==
  ASSUME NEW f, NEW S
  PROVE  SumFunctionOnSet(f, S) =
           (CHOOSE g : g = [s \in SUBSET S |-> Turn(f, g, s)])[S]
BY DEF SumFunctionOnSet, FoldFunctionOnSet, MapThenFoldSet, Turn, Some

\* Each turn goes to a part with one element less.
LEMMA SmallerPart ==
  ASSUME NEW S, IsFiniteSet(S), NEW s \in SUBSET S, s # {}
  PROVE  /\ Some(s) \in s /\ s \ {Some(s)} \in SUBSET S
         /\ Cardinality(s) \in Nat /\ Cardinality(s) # 0
         /\ Cardinality(s \ {Some(s)}) = Cardinality(s) - 1
<1>1. Some(s) \in s
  BY DEF Some
<1>2. IsFiniteSet(s) /\ Cardinality(s) \in Nat
  BY FS_Subset, FS_CardinalityType
<1> QED BY <1>1, <1>2, FS_RemoveElement, FS_EmptySet

\* A function that takes these turns exists, so that CHOOSE finds one: it is built
\* up from the parts with at most n elements to those with n + 1.
LEMMA SumDefined ==
  ASSUME NEW S, IsFiniteSet(S), NEW f, \A x \in S : f[x] \in Int
  PROVE  \E g : g = [s \in SUBSET S |-> Turn(f, g, s)]
<1> DEFINE Good(g, n) == \A s \in SUBSET S : Cardinality(s) <= n => g[s] = Turn(f, g, s)
           B == {n \in Nat : \A g \in [SUBSET S -> Int] : ~Good(g, n)}
<1>1. 0 \notin B
  <2> DEFINE g == [s \in SUBSET S |-> 0]
  <2>1. ASSUME NEW s \in SUBSET S, Cardinality(s) <= 0 PROVE g[s] = Turn(f, g, s)
    <3>1. s = {}
      <4>1. s # {} => Cardinality(s) \in Nat /\ Cardinality(s) # 0
        BY SmallerPart
      <4> QED BY <2>1, <4>1
    <3> QED BY <3>1 DEF Turn
  <2>2. g \in [SUBSET S -> Int]
    OBVIOUS
  <2> HIDE DEF g
  <2>3. Good(g, 0)
    BY <2>1
  <2> QED BY <2>2, <2>3
<1>2. ASSUME NEW n \in Nat, n \notin B PROVE n + 1 \notin B
  <2>1. PICK g \in [SUBSET S -> Int] : Good(g, n)
    BY <1>2
  <2> DEFINE h == [s \in SUBSET S |-> IF Cardinality(s) <= n THEN g[s] ELSE Turn(f, g, s)]
  <2>2. ASSUME NEW s \in SUBSET S PROVE Turn(f, g, s) \in Int
    <3>1. CASE s = {}
      BY <3>1 DEF Turn
    <3>2. CASE s # {}
      <4>1. Some(s) \in S /\ s \ {Some(s)} \in SUBSET S
        BY <3>2, SmallerPart
      <4>2. f[Some(s)] \in Int /\ g[s \ {Some(s)}] \in Int
        BY <4>1
      <4> QED BY <3>2, <4>2 DEF Turn
    <3> QED BY <3>1, <3>2
  <2>3. h \in [SUBSET S -> Int]
    BY <2>2
  <2>4. ASSUME NEW s \in SUBSET S, Cardinality(s) <= n + 1 PROVE h[s] = Turn(f, h, s)
    <3>1. CASE s = {}
      <4>1. Cardinality(s) = 0
        BY <3>1, FS_EmptySet
      <4>2. h[s] = g[s]
        BY <4>1
      <4> QED BY <2>1, <3>1, <4>1, <4>2 DEF Turn
    <3>2. CASE s # {}
      <4> DEFINE t == s \ {Some(s)}
      <4>1. t \in SUBSET S /\ Cardinality(t) = Cardinality(s) - 1 /\ Cardinality(s) \in Nat
        BY <3>2, SmallerPart
      <4>2. h[t] = g[t]
        BY <2>4, <4>1
      <4>3. Turn(f, h, s) = Turn(f, g, s)
        BY <3>2, <4>2 DEF Turn
      <4>4. h[s] = Turn(f, g, s)
        <5>1. CASE Cardinality(s) <= n
          BY <2>1, <5>1
        <5>2. CASE ~(Cardinality(s) <= n)
          BY <5>2
        <5> QED BY <5>1, <5>2
      <4> QED BY <4>3, <4>4
    <3> QED BY <3>1, <3>2
  <2> HIDE DEF h
  <2>5. Good(h, n + 1)
    BY <2>4
  <2> QED BY <2>3, <2>5
<1>3. B = {}
  <2> SUFFICES ASSUME B # {} PROVE FALSE
    OBVIOUS
  <2>1. PICK n \in B : \A m \in B : n <= m
    BY Least
  <2>2. n \in Nat /\ n # 0
    BY <1>1
  <2> HIDE DEF B
  <2>3. n - 1 \in Nat /\ n - 1 \notin B
    BY <2>1, <2>2
  <2>4. (n - 1) + 1 = n
    BY <2>2
  <2> QED BY <1>2, <2>1, <2>3, <2>4
<1>4. Cardinality(S) \in Nat
  BY FS_CardinalityType
<1>5. PICK g \in [SUBSET S -> Int] : Good(g, Cardinality(S))
  BY <1>3, <1>4
<1>6. \A s \in SUBSET S : g[s] = Turn(f, g, s)
  BY <1>5, FS_Subset
<1>7. g = [s \in SUBSET S |-> Turn(f, g, s)]
  BY <1>6
<1> QED BY <1>7

\* The sum of finitely many integers is an integer.
LEMMA SumIsInt ==
  ASSUME NEW S, IsFiniteSet(S), NEW f, \A x \in S : f[x] \in Int
  PROVE  SumFunctionOnSet(f, S) \in Int
<1> DEFINE g == CHOOSE g : g = [s \in SUBSET S |-> Turn(f, g, s)]
<1>1. g = [s \in SUBSET S |-> Turn(f, g, s)]
  BY SumDefined
<1>2. SumFunctionOnSet(f, S) = g[S]
  BY SumTurns
<1> HIDE DEF g
<1>3. \A s \in SUBSET S : g[s] = Turn(f, g, s)
  BY <1>1
<1> DEFINE B == {n \in Nat : \E s \in SUBSET S : Cardinality(s) = n /\ g[s] \notin Int}
<1>4. B = {}
  <2> SUFFICES ASSUME B # {} PROVE FALSE
    OBVIOUS
  <2>1. PICK n \in B : \A m \in B : n <= m
    BY Least
  <2>2. PICK s \in SUBSET S : Cardinality(s) = n /\ g[s] \notin Int
    BY <2>1
  <2>3. s # {}
    <3>1. s = {} => g[s] = 0
      BY <1>3 DEF Turn
    <3> QED BY <2>2, <3>1
  <2> DEFINE t == s \ {Some(s)}
  <2>4. /\ t \in SUBSET S /\ Some(s) \in S
        /\ Cardinality(t) = n - 1 /\ n - 1 \in Nat
    BY <2>2, <2>3, SmallerPart
  <2>5. g[t] \in Int
    BY <2>1, <2>4
  <2>6. g[s] = f[Some(s)] + g[t]
    BY <1>3, <2>3 DEF Turn
  <2> HIDE DEF t
  <2> QED BY <2>2, <2>4, <2>5, <2>6
<1>5. Cardinality(S) \in Nat
  BY FS_CardinalityType
<1> QED BY <1>2, <1>4, <1>5

\* A share of k of which a of b parts are reached, rounded down.
LEMMA Share ==
  ASSUME NEW k \in Nat, NEW a \in Nat, NEW b \in Nat, b > 0, a <= b
  PROVE  (k * a) \div b \in 0..k
<1> DEFINE q == (k * a) \div b
<1>1. q \in Int /\ b * q <= k * a /\ k * a < b * q + b
  <2> DEFINE m == k * a
  <2>1. m \in Int
    OBVIOUS
  <2> HIDE DEF m
  <2> QED BY <2>1
<1>2. k * a <= k * b /\ k * a >= 0
  OBVIOUS
<1> HIDE DEF q
<1>3. q <= k
  <2>1. SUFFICES ASSUME q >= k + 1 PROVE FALSE
    BY <1>1
  <2>2. b * q >= b * (k + 1)
    BY <2>1, <1>1
  <2>3. b * (k + 1) = k * b + b
    OBVIOUS
  <2> QED BY <1>1, <1>2, <2>2, <2>3
<1>4. q >= 0
  <2>1. SUFFICES ASSUME q <= -1 PROVE FALSE
    BY <1>1
  <2>2. b * q <= b * (-1)
    BY <2>1, <1>1
  <2> QED BY <1>1, <1>2, <2>2
<1> QED BY <1>1, <1>3, <1>4 DEF q

-----------------------------------------------------------------------------
(* The health score.                                                        *)

\* What the monitor reported of a device.
MonitorInv ==
  monitor \in [Devices -> {None} \cup [online : BOOLEAN, latency : Nat \cup {None}]]

\* What the monitor reports keeps its type.
LEMMA MonitorStays == MonitorInv /\ [Next]_vars => MonitorInv'
<1> SUFFICES ASSUME MonitorInv, [Next]_vars PROVE MonitorInv'
  OBVIOUS
<1>1. CASE MonitorMessage
  <2>1. PICK seen \in SUBSET registered : \E ping \in [seen -> Latencies \cup {None}] :
          monitor' = [d \in Devices |->
                        IF d \in seen THEN [online |-> ping[d] # None, latency |-> ping[d]]
                        ELSE monitor[d]]
    BY <1>1 DEF MonitorMessage
  <2>2. PICK ping \in [seen -> Latencies \cup {None}] :
          monitor' = [d \in Devices |->
                        IF d \in seen THEN [online |-> ping[d] # None, latency |-> ping[d]]
                        ELSE monitor[d]]
    BY <2>1
  <2>3. ASSUME NEW d \in seen PROVE ping[d] \in Nat \cup {None}
    BY TopologyAssumption DEF TopologyAssumption
  <2> QED BY <2>2, <2>3 DEF MonitorInv
<1>2. CASE UNCHANGED monitor
  BY <1>2 DEF MonitorInv
<1> QED BY <1>1, <1>2 DEF Next, vars, RegistryChanges, CollectionArrives,
       SetInitialNetworkDevices, MergeTopology

\* The devices that are counted, and how many of them are online.
LEMMA Counted ==
  ASSUME GraphInv, MonitorInv
  PROVE  /\ IsFiniteSet(DevicesForNetwork) /\ DevicesForNetwork \subseteq Devices
         /\ \A d \in DevicesForNetwork : monitor[d] \in [online : BOOLEAN, latency : Nat \cup {None}]
         /\ OnlineOfflineStats.total \in Nat /\ OnlineOfflineStats.online \in Nat
         /\ OnlineOfflineStats.online <= OnlineOfflineStats.total
         /\ OnlineOfflineStats.offline = OnlineOfflineStats.total - OnlineOfflineStats.online
<1> DEFINE C == DevicesForNetwork
           O == {d \in C : monitor[d].online}
<1>1. C \subseteq Devices
  BY DEF DevicesForNetwork, TopologyDeviceIds, Kind
<1>2. \A d \in C : monitor[d] \in [online : BOOLEAN, latency : Nat \cup {None}]
  BY <1>1 DEF MonitorInv, DevicesForNetwork
<1>3. IsFiniteSet(C) /\ Cardinality(C) \in Nat
  BY <1>1, TopologyAssumption, FS_Subset, FS_CardinalityType DEF TopologyAssumption
<1> HIDE DEF C
<1>4. O \in SUBSET C
  OBVIOUS
<1>5. OnlineOfflineStats = [total |-> Cardinality(C), online |-> Cardinality(O),
                           offline |-> Cardinality(C) - Cardinality(O)]
  BY DEF OnlineOfflineStats, C
<1> HIDE DEF O
<1>6. IsFiniteSet(O) /\ Cardinality(O) \in Nat /\ Cardinality(O) <= Cardinality(C)
  BY <1>3, <1>4, FS_Subset, FS_CardinalityType
<1>7. /\ OnlineOfflineStats.total = Cardinality(C) /\ OnlineOfflineStats.online = Cardinality(O)
      /\ OnlineOfflineStats.offline = Cardinality(C) - Cardinality(O)
  BY <1>5
<1> QED BY <1>1, <1>2, <1>3, <1>6, <1>7 DEF C

\* The mean of the pings is a number, and so is the sum of throughputs, which may
\* be negative.
LEMMA SumsAreNumbers ==
  ASSUME GraphInv, MonitorInv
  PROVE  AverageLatency \in Int /\ NetworkThroughput \in Int /\ StationsCount \in Nat
<1>1. AverageLatency \in Int
  <2> DEFINE T == {d \in DevicesForNetwork : monitor[d].latency # None}
             f == [d \in T |-> monitor[d].latency]
  <2>1. IsFiniteSet(T) /\ \A d \in T : monitor[d].latency \in Nat
    <3>1. T \in SUBSET DevicesForNetwork
      OBVIOUS
    <3>2. IsFiniteSet(T)
      BY <3>1, Counted, FS_Subset
    <3> QED BY <3>2, Counted
  <2>2. Cardinality(T) \in Nat
    BY <2>1, FS_CardinalityType
  <2>3. AverageLatency = IF T = {} THEN 0 ELSE SumFunction(f) \div Cardinality(T)
    BY DEF AverageLatency
  <2> HIDE DEF T
  <2>4. DOMAIN f = T /\ \A d \in T : f[d] \in Int
    BY <2>1
  <2> HIDE DEF f
  <2>5. SumFunction(f) \in Int
    BY <2>1, <2>4, SumIsInt DEF SumFunction
  <2>6. T # {} => Cardinality(T) # 0
    BY <2>1, FS_EmptySet
  <2> QED BY <2>2, <2>3, <2>5, <2>6
<1>2. NetworkThroughput \in Int /\ StationsCount \in Nat
  <2> DEFINE W == StationsOf(Existing)
             f == [n \in W |-> n.rate]
             m == Len(Existing)
  <2>1. m \in Nat /\ Existing \in [1..m -> Node]
    BY DEF GraphInv
  <2> HIDE DEF m
  <2>2. IsFiniteSet(1..m)
    BY <2>1, FS_Interval
  <2>3. Existing \in Surjection(1..m, ToSet(Existing))
    BY <2>1 DEF Surjection, ToSet
  <2>4. IsFiniteSet(ToSet(Existing)) /\ W \in SUBSET ToSet(Existing)
    BY <2>2, <2>3, FS_Surjection DEF StationsOf
  <2>5. IsFiniteSet(W) /\ Cardinality(W) \in Nat
    BY <2>4, FS_Subset, FS_CardinalityType
  <2>6. \A n \in W : n.rate \in Int
    BY <2>1 DEF StationsOf, ToSet, Node
  <2>7. NetworkThroughput = SumFunction(f) /\ StationsCount = Cardinality(W)
    BY DEF NetworkThroughput, StationsCount
  <2> HIDE DEF W
  <2>8. DOMAIN f = W /\ \A n \in W : f[n] \in Int
    BY <2>6
  <2> HIDE DEF f
  <2>9. SumFunction(f) \in Int
    BY <2>5, <2>8, SumIsInt DEF SumFunction
  <2> QED BY <2>5, <2>7, <2>9
<1> QED BY <1>1, <1>2

\* The terms of the score are clamped before they are scaled.
LEMMA Clamped ==
  ASSUME NEW x \in Int, NEW top \in Nat
  PROVE  Clamp(x, top) \in 0..top
BY DEF Clamp

\* The three terms of the score are at most 50, 30 and 20.
LEMMA HealthyNumbers == ASSUME GraphInv, MonitorInv PROVE HealthInRange
<1> DEFINE stats == OnlineOfflineStats
           availability == (50 * stats.online) \div stats.total
           pings == Clamp(200 - AverageLatency, 200)
           latency == IF stats.online = 0 THEN 0 ELSE (30 * pings) \div 200
           expected == 5000000 * StationsCount
           rates == Clamp(NetworkThroughput, expected)
           throughput == IF stats.online = 0 \/ StationsCount = 0 THEN 0
                         ELSE (20 * rates) \div expected
<1>1. /\ stats.total \in Nat /\ stats.online \in Nat /\ stats.online <= stats.total
      /\ stats.offline = stats.total - stats.online
  BY Counted
<1>2. AverageLatency \in Int /\ NetworkThroughput \in Int /\ StationsCount \in Nat
  BY SumsAreNumbers
<1>3. NetworkHealth = IF stats.total = 0 THEN 0 ELSE availability + latency + throughput
  BY DEF NetworkHealth
<1> HIDE DEF stats
<1>4. stats.total # 0 => availability \in 0..50
  BY <1>1, Share
<1>5. latency \in 0..30
  <2>1. pings \in 0..200
    <3> DEFINE spare == 200 - AverageLatency
    <3>1. spare \in Int
      BY <1>2
    <3> HIDE DEF spare
    <3>2. Clamp(spare, 200) \in 0..200
      BY <3>1, Clamped
    <3> QED BY <3>2 DEF spare
  <2> HIDE DEF pings
  <2> QED BY <2>1
<1>6. throughput \in 0..20
  <2>1. CASE StationsCount = 0
    BY <2>1
  <2>2. CASE StationsCount # 0
    <3>1. expected \in Nat /\ expected > 0
      BY <1>2, <2>2
    <3> HIDE DEF expected
    <3>2. rates \in 0..expected
      BY <1>2, <3>1, Clamped
    <3> HIDE DEF rates
    <3>3. (20 * rates) \div expected \in 0..20
      BY <3>1, <3>2, Share
    <3> QED BY <3>3
  <2> QED BY <2>1, <2>2
<1> HIDE DEF availability, latency, throughput
<1>7. NetworkHealth \in 0..100
  <2>1. CASE stats.total = 0
    BY <1>3, <2>1
  <2>2. CASE stats.total # 0
    <3>1. NetworkHealth = availability + latency + throughput /\ availability \in 0..50
      BY <1>3, <1>4, <2>2
    <3> QED BY <1>5, <1>6, <3>1
  <2> QED BY <2>1, <2>2
<1>8. stats.offline >= 0
  BY <1>1
<1> QED BY <1>7, <1>8 DEF HealthInRange, stats

\* The health score is a percentage whatever the counters of the stations did
\* and however few devices answered, for any number of devices and stations.
THEOREM HealthIsPercentage == Spec => []HealthInRange
<1>1. Init => MonitorInv
  BY DEF Init, MonitorInv
<1>2. Spec => []MonitorInv
  BY <1>1, MonitorStays, PTL DEF Spec
<1> QED BY <1>2, GraphInvariant, HealthyNumbers, PTL

=============================================================================
