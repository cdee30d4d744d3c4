------------------------------ MODULE AgentProofs ------------------------------
(***************************************************************************)
(* Proofs about the agents and the inference lane they share, for any      *)
(* agents, priorities, capacity and answers of the models.  LaneInv is     *)
(* about the lane alone: a caller has one entry in it, waiting or active.  *)
(* GatewayInv ties the entries to their callers, and the agents to their   *)
(* children and to the abort in their inbox.                               *)
(***************************************************************************)
EXTENDS AgentGateway, FunctionTheorems, FiniteSetTheorems, WellFoundedInduction, TLAPS

\* Nobody waits twice in a queue.
Distinct(q) == \A i, j \in DOMAIN q : q[i].id = q[j].id => i = j

\* An interactive call has only reinserted and interactive ones before it.
Ordered(q) ==
  \A i, j \in DOMAIN q :
    i < j /\ Rank[q[j].id] = Interactive => q[i].mode = "reinsert" \/ Rank[q[i].id] = Interactive

\* Nobody holds two slots, or waits while it holds one.
Slots(act) == IsFiniteSet(act) /\ \A x, y \in act : x.id = y.id => x = y
Apart(q, act) == \A i \in DOMAIN q : \A x \in act : q[i].id # x.id

LaneInv ==
  /\ LaneTypeOK
  /\ Distinct(queue) /\ Ordered(queue) /\ Slots(active) /\ Apart(queue, active)
  /\ LaneCapacity /\ NoLostWakeup

\* Caller a has a call of this kind in the lane.
InLane(a, kind) ==
  \/ \E i \in DOMAIN queue : queue[i].id = a /\ queue[i].kind = kind
  \/ \E x \in active : x.id = a /\ x.kind = kind

AgentRec == [pc : Steps, result : Results, calls : Seq(Calls), kids : SUBSET Callers,
             turns : Nat, limit : Nat, spawned : Nat, exceeded : BOOLEAN, unpriced : Nat,
             late : Nat]

\* An agent r that has a call of this kind in the lane waits for it; a stream may
\* still break and fall back.
Awaits(a, r, kind) ==
  r.pc = "waiting" /\ (kind = "stream" => a \in Streamers /\ r.late =< 1)

\* An agent r with an abort in the inbox, or none, works off at most one turn.
Bounded(a, r, aborted) ==
  /\ r.late =< (IF a \in Streamers THEN 2 ELSE 1)
  /\ r.late > 0 => aborted \/ r.pc \in {"final", "done"}
  /\ r.pc = "ready" => r.late = 0
  /\ r.pc = "fallback" => a \in Streamers /\ r.late =< 1

\* An agent awaits the children it dispatched and has no others.
Parent(a, r) ==
  /\ r.pc # "kids" => r.kids = {}
  /\ r.kids \subseteq Kids[a]
  /\ r.pc = "calls" => r.calls # <<>>

GatewayInv ==
  /\ agent \in [Callers -> AgentRec]
  /\ abort \in [Callers -> BOOLEAN] /\ runs \in [Callers -> Nat] /\ upsets \in Nat
  /\ \A a \in Callers : \A kind \in Kinds : InLane(a, kind) => Awaits(a, agent[a], kind)
  /\ \A a \in Callers : Bounded(a, agent[a], abort[a])
  /\ \A a \in Callers : Parent(a, agent[a])
  /\ \A a \in Callers : \A k \in Kids[a] : agent[k].pc # "idle" => k \in agent[a].kids

--------------------------------------------------------------------------------
(* Arranged.                                                                   *)

\* A finite set is arranged in a total order: every member once, in order.
LEMMA ArrangedFacts ==
  ASSUME NEW S, IsFiniteSet(S), NEW R,
         \A i, j \in S : <<i, j>> \in R \/ <<j, i>> \in R,
         \A i, j \in S : <<i, j>> \in R /\ <<j, i>> \in R => i = j,
         \A i, j, k \in S : <<i, j>> \in R /\ <<j, k>> \in R => <<i, k>> \in R
  PROVE  /\ Cardinality(S) \in Nat
         /\ Arranged(S, R) \in [1 .. Cardinality(S) -> S]
         /\ \A p, q \in 1 .. Cardinality(S) :
              Arranged(S, R)[p] = Arranged(S, R)[q] => p = q
         /\ \A i \in S : \E p \in 1 .. Cardinality(S) : Arranged(S, R)[p] = i
         /\ \A p, q \in 1 .. Cardinality(S) :
              p < q => <<Arranged(S, R)[p], Arranged(S, R)[q]>> \in R
  <1> DEFINE n == Cardinality(S)
             Upto(i) == {j \in S : <<j, i>> \in R}
             place == [i \in S |-> Place(S, R, i)]
  <1>1. n \in Nat
    BY FS_CardinalityType
  <1>2. ASSUME NEW i \in S
        PROVE  IsFiniteSet(Upto(i)) /\ Cardinality(Upto(i)) \in 1 .. n
    <2>1. IsFiniteSet(Upto(i)) /\ Cardinality(Upto(i)) =< n
      <3>1. Upto(i) \in SUBSET S OBVIOUS
      <3> QED BY <3>1, FS_Subset
    <2>2. Cardinality(Upto(i)) \in Nat
      BY <2>1, FS_CardinalityType
    <2>3. Cardinality(Upto(i)) # 0
      <3>1. i \in Upto(i) OBVIOUS
      <3> QED BY <2>1, <3>1, FS_EmptySet
    <2> QED BY <1>1, <2>1, <2>2, <2>3
  <1>3. ASSUME NEW i \in S, NEW j \in S, <<i, j>> \in R, i # j
        PROVE  place[i] < place[j]
    <2>1. Upto(i) \in SUBSET Upto(j)
      BY <1>3
    <2>2. j \in Upto(j) /\ j \notin Upto(i)
      BY <1>3
    <2>3. Upto(i) # Upto(j)
      BY <2>2
    <2>4. Cardinality(Upto(i)) =< Cardinality(Upto(j)) /\ Cardinality(Upto(i)) # Cardinality(Upto(j))
      BY <1>2, <2>1, <2>3, FS_Subset
    <2>5. Cardinality(Upto(i)) \in Nat /\ Cardinality(Upto(j)) \in Nat
      BY <1>2, <1>1
    <2>6. place[i] = Cardinality(Upto(i)) /\ place[j] = Cardinality(Upto(j))
      BY DEF Place
    <2> HIDE DEF place, Upto
    <2> QED BY <2>4, <2>5, <2>6
  <1>4. place \in [S -> 1 .. n]
    BY <1>2 DEF Place
  <1>5. ASSUME NEW i \in S, NEW j \in S, place[i] = place[j]
        PROVE  i = j
    <2>1. place[i] \in Nat /\ place[j] \in Nat
      BY <1>1, <1>4
    <2> HIDE DEF place
    <2>2. ~(place[i] < place[j]) /\ ~(place[j] < place[i])
      BY <1>5, <2>1
    <2> QED BY <1>3, <2>2
  <1>6. place \in Surjection(S, 1 .. n)
    <2>1. IsFiniteSet(1 .. n) /\ Cardinality(1 .. n) = n
      BY <1>1, FS_Interval
    <2> HIDE DEF place
    <2>2. place \in Injection(S, 1 .. n)
      BY <1>4, <1>5 DEF Injection, IsInjective
    <2> QED BY <2>1, <2>2, FS_Injection
  <1>7. \A p \in 1 .. n : \E i \in S : place[i] = p
    <2> HIDE DEF place
    <2> QED BY <1>6 DEF Surjection
  <1>8. PICK f : f = Arranged(S, R)
    OBVIOUS
  <1>9. ASSUME NEW p \in 1 .. n
        PROVE  f[p] \in S /\ place[f[p]] = p
    <2>1. \E i \in S : Place(S, R, i) = p
      BY <1>7
    <2>2. f[p] = CHOOSE i \in S : Place(S, R, i) = p
      BY <1>8 DEF Arranged
    <2>3. f[p] \in S /\ Place(S, R, f[p]) = p
      BY <2>1, <2>2
    <2> QED BY <2>3
  <1>10. f \in [1 .. n -> S]
    <2>1. DOMAIN f = 1 .. n /\ f = [p \in 1 .. n |-> f[p]]
      BY <1>8 DEF Arranged
    <2> HIDE DEF n
    <2> QED BY <1>9, <2>1
  <1>11. ASSUME NEW i \in S
         PROVE  \E p \in 1 .. n : f[p] = i
    <2> HIDE DEF place, n
    <2>1. place[i] \in 1 .. n
      BY <1>4
    <2> QED BY <1>5, <1>9, <2>1
  <1>12. ASSUME NEW p \in 1 .. n, NEW q \in 1 .. n, p < q
         PROVE  <<f[p], f[q]>> \in R
    <2>1. f[p] \in S /\ f[q] \in S /\ place[f[p]] = p /\ place[f[q]] = q
      BY <1>9
    <2> HIDE DEF place, n
    <2>2. ~(place[f[q]] < place[f[p]]) /\ f[p] # f[q]
      BY <1>1, <1>12, <2>1
    <2> QED BY <1>3, <2>1, <2>2
  <1>13. \A p, q \in 1 .. n : f[p] = f[q] => p = q
    <2> HIDE DEF place, n
    <2> QED BY <1>9
  <1> QED BY <1>1, <1>8, <1>10, <1>11, <1>12, <1>13

\* The same with the order and the enumeration named, to be applied to other sets.
TotalOn(S, R) ==
  /\ \A i, j \in S : <<i, j>> \in R \/ <<j, i>> \in R
  /\ \A i, j \in S : <<i, j>> \in R /\ <<j, i>> \in R => i = j
  /\ \A i, j, k \in S : <<i, j>> \in R /\ <<j, k>> \in R => <<i, k>> \in R

Lists(f, S, R, n) ==
  /\ f \in [1 .. n -> S]
  /\ \A p, q \in 1 .. n : f[p] = f[q] => p = q
  /\ \A i \in S : \E p \in 1 .. n : f[p] = i
  /\ \A p, q \in 1 .. n : p < q => <<f[p], f[q]>> \in R

LEMMA ArrangedLists ==
  ASSUME NEW S, IsFiniteSet(S), NEW R, TotalOn(S, R)
  PROVE  Cardinality(S) \in Nat /\ Lists(Arranged(S, R), S, R, Cardinality(S))
  <1>1. /\ \A i, j \in S : <<i, j>> \in R \/ <<j, i>> \in R
        /\ \A i, j \in S : <<i, j>> \in R /\ <<j, i>> \in R => i = j
        /\ \A i, j, k \in S : <<i, j>> \in R /\ <<j, k>> \in R => <<i, k>> \in R
    BY DEF TotalOn
  <1> QED BY <1>1, ArrangedFacts DEF Lists

--------------------------------------------------------------------------------
(* The queue.                                                                  *)

LEMMA BucketType ==
  ASSUME NEW e \in LaneEntry
  PROVE  /\ SortBucket(e) \in Nat /\ e.mode \in {"reinsert", "enqueue"}
         /\ e.mode = "reinsert" => SortBucket(e) =< 3
         /\ e.mode = "enqueue" => SortBucket(e) >= 4
         /\ e.mode = "enqueue" /\ Rank[e.id] = Interactive => SortBucket(e) = 4
         /\ e.mode = "enqueue" /\ SortBucket(e) = 4 => Rank[e.id] = Interactive
  <1>1. e.id \in Callers /\ e.mode \in Modes /\ Rank[e.id] \in 0 .. 3
    BY LaneAssumption DEF LaneEntry, Interactive
  <1> QED BY <1>1 DEF SortBucket, Interactive, Modes

\* s holds the first n entries of q, each in one place.
Permuted(s, q, n) ==
  \E f \in [1 .. n -> 1 .. n] :
    /\ \A p, r \in 1 .. n : f[p] = f[r] => p = r
    /\ \A p \in 1 .. n : s[p] = q[f[p]]

\* Sorting permutes the queue.
LEMMA SortFacts ==
  ASSUME NEW q \in Seq(LaneEntry), NEW n \in Nat, n = Len(q), NEW s, s = SortQueue(q)
  PROVE  /\ s \in Seq(LaneEntry) /\ Len(s) = n
         /\ Permuted(s, q, n)
         /\ \A p, r \in 1 .. n : p < r => SortBucket(s[p]) =< SortBucket(s[r])
  <1>1. DOMAIN q = 1 .. n
    OBVIOUS
  <1>2. PICK b : b = [i \in 1 .. n |-> SortBucket(q[i])]
    OBVIOUS
  <1>3. b \in [1 .. n -> Nat]
    <2>1. \A i \in 1 .. n : q[i] \in LaneEntry BY <1>1
    <2> QED BY <1>2, <2>1, BucketType
  <1>4. PICK R : R = Sorted(q)
    OBVIOUS
  <1>5. \A i, j \in 1 .. n : <<i, j>> \in R <=> b[i] < b[j] \/ (b[i] = b[j] /\ i =< j)
    BY <1>1, <1>2, <1>4 DEF Sorted
  <1>6. PICK f : f = Arranged(1 .. n, R)
    OBVIOUS
  <1>7. IsFiniteSet(1 .. n) /\ Cardinality(1 .. n) = n
    <2>1. ASSUME NEW m \in Nat
          PROVE  IsFiniteSet(1 .. m) /\ Cardinality(1 .. m) = m
      <3>1. 1 \in Int /\ m \in Int
        OBVIOUS
      <3>2. IsFiniteSet(1 .. m) /\ Cardinality(1 .. m) = IF 1 > m THEN 0 ELSE m - 1 + 1
        BY <3>1, FS_Interval
      <3> QED BY <3>2
    <2> QED BY <2>1
  <1>8. \A i, j \in 1 .. n : <<i, j>> \in R \/ <<j, i>> \in R
    <2> SUFFICES ASSUME NEW i \in 1 .. n, NEW j \in 1 .. n
                 PROVE  <<i, j>> \in R \/ <<j, i>> \in R
      OBVIOUS
    <2>1. b[i] \in Nat /\ b[j] \in Nat
      BY <1>3
    <2>2. b[i] < b[j] \/ (b[i] = b[j] /\ i =< j) \/ b[j] < b[i] \/ (b[j] = b[i] /\ j =< i)
      BY <2>1
    <2> QED BY <1>5, <2>2
  <1>9. \A i, j \in 1 .. n : <<i, j>> \in R /\ <<j, i>> \in R => i = j
    <2> SUFFICES ASSUME NEW i \in 1 .. n, NEW j \in 1 .. n, <<i, j>> \in R, <<j, i>> \in R
                 PROVE  i = j
      OBVIOUS
    <2>1. b[i] \in Nat /\ b[j] \in Nat
      BY <1>3
    <2>2. b[i] < b[j] \/ (b[i] = b[j] /\ i =< j)
      BY <1>5
    <2>3. b[j] < b[i] \/ (b[j] = b[i] /\ j =< i)
      BY <1>5
    <2> QED BY <2>1, <2>2, <2>3
  <1>10. \A i, j, k \in 1 .. n : <<i, j>> \in R /\ <<j, k>> \in R => <<i, k>> \in R
    <2> SUFFICES ASSUME NEW i \in 1 .. n, NEW j \in 1 .. n, NEW k \in 1 .. n,
                        <<i, j>> \in R, <<j, k>> \in R
                 PROVE  <<i, k>> \in R
      OBVIOUS
    <2>1. b[i] \in Nat /\ b[j] \in Nat /\ b[k] \in Nat
      BY <1>3
    <2>2. b[i] < b[j] \/ (b[i] = b[j] /\ i =< j)
      BY <1>5
    <2>3. b[j] < b[k] \/ (b[j] = b[k] /\ j =< k)
      BY <1>5
    <2>4. b[i] < b[k] \/ (b[i] = b[k] /\ i =< k)
      BY <2>1, <2>2, <2>3
    <2> QED BY <1>5, <2>4
  <1>11. /\ f \in [1 .. n -> 1 .. n]
         /\ \A p, r \in 1 .. n : f[p] = f[r] => p = r
         /\ \A i \in 1 .. n : \E p \in 1 .. n : f[p] = i
         /\ \A p, r \in 1 .. n : p < r => <<f[p], f[r]>> \in R
    <2>1. TotalOn(1 .. n, R)
      BY <1>8, <1>9, <1>10 DEF TotalOn
    <2>2. Lists(f, 1 .. n, R, n)
      BY <1>6, <1>7, <2>1, ArrangedLists
    <2> QED BY <2>2 DEF Lists
  <1>13. s = [p \in 1 .. n |-> q[f[p]]]
    BY <1>1, <1>4, <1>6 DEF SortQueue
  <1>14. s \in Seq(LaneEntry) /\ Len(s) = n
    <2>1. \A p \in 1 .. n : q[f[p]] \in LaneEntry
      BY <1>1, <1>11
    <2> QED BY <1>13, <2>1
  <1>15. ASSUME NEW p \in 1 .. n, NEW r \in 1 .. n, p < r
         PROVE  SortBucket(s[p]) =< SortBucket(s[r])
    <2>1. <<f[p], f[r]>> \in R /\ f[p] \in 1 .. n /\ f[r] \in 1 .. n
      BY <1>11, <1>15
    <2>2. b[f[p]] =< b[f[r]]
      <3>1. PICK i \in 1 .. n, j \in 1 .. n : i = f[p] /\ j = f[r]
        BY <2>1
      <3>2. b[i] \in Nat /\ b[j] \in Nat
        BY <1>3
      <3>3. b[i] < b[j] \/ b[i] = b[j]
        BY <1>5, <2>1, <3>1
      <3> QED BY <3>1, <3>2, <3>3
    <2> QED BY <1>2, <1>13, <2>1, <2>2
  <1>16. \A p \in 1 .. n : s[p] = q[f[p]]
    BY <1>13
  <1>17. Permuted(s, q, n)
    BY <1>11, <1>16 DEF Permuted
  <1> QED BY <1>14, <1>15, <1>17

\* queueEntry adds the entry, keeps the others, and keeps interactive calls from
\* being passed over.
LEMMA QueueEntryFacts ==
  ASSUME NEW q \in Seq(LaneEntry), NEW e \in LaneEntry, Distinct(q), Ordered(q),
         \A i \in DOMAIN q : q[i].id # e.id
  PROVE  /\ QueueEntry(q, e) \in Seq(LaneEntry)
         /\ Distinct(QueueEntry(q, e)) /\ Ordered(QueueEntry(q, e))
         /\ \A p \in DOMAIN QueueEntry(q, e) :
              QueueEntry(q, e)[p] = e \/ \E i \in DOMAIN q : QueueEntry(q, e)[p] = q[i]
  <1>1. PICK s : s = QueueEntry(q, e)
    OBVIOUS
  <1>2. PICK n \in Nat : n = Len(q) /\ DOMAIN q = 1 .. n /\ \A i \in 1 .. n : q[i] \in LaneEntry
    OBVIOUS
  <1>3. CASE e.mode = "reinsert"
    <2> DEFINE lower == {i \in 1 .. Len(q) : Rank[q[i].id] =< Rank[e.id]}
               at == IF lower = {} THEN Len(q) + 1
                     ELSE CHOOSE i \in lower : \A j \in lower : i =< j
    <2>1. lower = {i \in 1 .. Len(q) : Rank[q[i].id] =< Rank[e.id]}
      OBVIOUS
    <2>2. /\ lower = {} => at = Len(q) + 1
          /\ lower # {} => at = CHOOSE i \in lower : \A j \in lower : i =< j
      OBVIOUS
    <2>4. s = SubSeq(q, 1, at - 1) \o <<e>> \o SubSeq(q, at, Len(q))
      BY <1>1, <1>3 DEF QueueEntry, Reinserted
    <2> HIDE DEF lower, at
    <2>3. at \in 1 .. n + 1 /\ \A i \in lower : i >= at
      <3>1. CASE lower = {} BY <1>2, <2>2, <3>1
      <3>2. CASE lower # {}
        <4>1. \E i \in lower : \A j \in lower : i =< j
          <5>1. lower \subseteq Nat
            BY <2>1
          <5>2. PICK i \in lower : \A j \in lower : <<j, i>> \notin OpToRel(<, Nat)
            BY <3>2, <5>1, NatLessThanWellFounded, WFMin
          <5>3. \A j \in lower : ~(j < i)
            BY <5>1, <5>2 DEF OpToRel
          <5> QED BY <5>1, <5>3
        <4>2. at \in lower /\ \A j \in lower : at =< j
          BY <2>2, <3>2, <4>1
        <4> QED BY <1>2, <2>1, <4>2
      <3> QED BY <3>1, <3>2
    <2>5. /\ s \in Seq(LaneEntry) /\ Len(s) = n + 1
          /\ \A p \in 1 .. n + 1 : s[p] = IF p < at THEN q[p] ELSE IF p = at THEN e ELSE q[p - 1]
      <3>1. PICK A : A = SubSeq(q, 1, at - 1)
        OBVIOUS
      <3>2. PICK B : B = SubSeq(q, at, n)
        OBVIOUS
      <3>3. A \in Seq(LaneEntry) /\ Len(A) = at - 1 /\ \A i \in 1 .. at - 1 : A[i] = q[i]
        BY <1>2, <2>3, <3>1
      <3>4. /\ B \in Seq(LaneEntry) /\ Len(B) = n - at + 1
            /\ \A i \in 1 .. n - at + 1 : B[i] = q[at + i - 1]
        BY <1>2, <2>3, <3>2
      <3>5. PICK D : D = A \o <<e>>
        OBVIOUS
      <3>6. /\ D \in Seq(LaneEntry) /\ Len(D) = at
            /\ \A i \in 1 .. at : D[i] = IF i < at THEN q[i] ELSE e
        BY <2>3, <3>3, <3>5
      <3>7. s = D \o B
        BY <1>2, <2>4, <3>1, <3>2, <3>5
      <3>8. s \in Seq(LaneEntry) /\ Len(s) = n + 1
        <4>1. D \in Seq(LaneEntry) /\ B \in Seq(LaneEntry)
          BY <3>4, <3>6
        <4>2. s \in Seq(LaneEntry) /\ Len(s) = Len(D) + Len(B)
          BY <3>7, <4>1
        <4>3. Len(D) = at /\ Len(B) = n - at + 1 /\ at \in Int
          BY <2>3, <3>4, <3>6
        <4> QED BY <4>2, <4>3
      <3>9. ASSUME NEW p \in 1 .. n + 1
            PROVE  s[p] = IF p < at THEN q[p] ELSE IF p = at THEN e ELSE q[p - 1]
        <4>1. CASE p =< at
          BY <2>3, <3>4, <3>6, <3>7, <4>1
        <4>2. CASE p > at
          <5>1. s[p] = B[p - at] /\ p - at \in 1 .. n - at + 1
            BY <2>3, <3>4, <3>6, <3>7, <4>2
          <5>2. at + (p - at) - 1 = p - 1
            BY <2>3
          <5> QED BY <2>3, <3>4, <4>2, <5>1, <5>2
        <4> QED BY <2>3, <4>1, <4>2
      <3> QED BY <3>8, <3>9
    <2>6. Distinct(s)
      <3>1. ASSUME NEW i \in 1 .. n + 1, NEW j \in 1 .. n + 1, s[i].id = s[j].id
            PROVE  i = j
        <4>1. CASE i = at \/ j = at
          <5>1. \A p \in 1 .. n + 1 : p # at => s[p].id # e.id
            <6> SUFFICES ASSUME NEW p \in 1 .. n + 1, p # at PROVE s[p].id # e.id
              OBVIOUS
            <6>1. PICK k \in 1 .. n : s[p] = q[k]
              BY <2>3, <2>5
            <6> QED BY <1>2, <6>1
          <5>2. s[at] = e
            BY <2>3, <2>5
          <5> QED BY <3>1, <4>1, <5>1, <5>2
        <4>2. CASE i # at /\ j # at
          <5>1. PICK k \in 1 .. n, m \in 1 .. n :
                  /\ s[i] = q[k] /\ k = IF i < at THEN i ELSE i - 1
                  /\ s[j] = q[m] /\ m = IF j < at THEN j ELSE j - 1
            BY <2>3, <2>5, <4>2
          <5>2. k = m
            BY <1>2, <3>1, <5>1 DEF Distinct
          <5> QED BY <2>3, <4>2, <5>1, <5>2
        <4> QED BY <4>1, <4>2
      <3> QED BY <2>5, <3>1 DEF Distinct
    <2>7. ASSUME NEW i \in 1 .. n + 1, NEW j \in 1 .. n + 1, i < j, Rank[s[j].id] = Interactive
          PROVE  s[i].mode = "reinsert" \/ Rank[s[i].id] = Interactive
      <3>1. CASE i = at BY <1>3, <2>5, <3>1
      <3>2. CASE i # at /\ j = at
        <4>1. i \in 1 .. n /\ i < at /\ s[j] = e /\ q[i] \in LaneEntry
          BY <1>2, <2>3, <2>5, <2>7, <3>2
        <4>2. Rank[q[i].id] =< Rank[e.id]
          BY <2>7, <4>1, LaneAssumption DEF LaneEntry, Interactive
        <4>3. i \in lower
          BY <1>2, <2>1, <4>1, <4>2
        <4> QED BY <2>3, <4>1, <4>3
      <3>3. CASE i # at /\ j # at
        <4>1. PICK k \in 1 .. n, m \in 1 .. n : k < m /\ s[i] = q[k] /\ s[j] = q[m]
          BY <1>2, <2>3, <2>5, <2>7, <3>3
        <4> QED BY <1>2, <2>7, <4>1 DEF Ordered
      <3> QED BY <3>1, <3>2, <3>3
    <2>8. Ordered(s)
      BY <2>5, <2>7 DEF Ordered
    <2>9. \A p \in DOMAIN s : s[p] = e \/ \E i \in DOMAIN q : s[p] = q[i]
      BY <1>2, <2>3, <2>5
    <2> QED BY <1>1, <2>5, <2>6, <2>8, <2>9
  <1>4. CASE e.mode = "enqueue"
    <2>1. PICK t : t = Append(q, e)
      OBVIOUS
    <2>2. /\ t \in Seq(LaneEntry) /\ Len(t) = n + 1 /\ DOMAIN t = 1 .. n + 1
          /\ \A i \in 1 .. n + 1 : t[i] = IF i = n + 1 THEN e ELSE q[i]
      BY <1>2, <2>1
    <2>3. s = SortQueue(t)
      BY <1>1, <1>4, <2>1 DEF QueueEntry
    <2>4. s \in Seq(LaneEntry) /\ Len(s) = n + 1
      BY <2>2, <2>3, SortFacts
    <2>5. PICK f \in [1 .. n + 1 -> 1 .. n + 1] :
            /\ \A p, r \in 1 .. n + 1 : f[p] = f[r] => p = r
            /\ \A p \in 1 .. n + 1 : s[p] = t[f[p]]
      <3>1. n + 1 \in Nat /\ n + 1 = Len(t) /\ t \in Seq(LaneEntry)
        BY <2>2
      <3>2. Permuted(s, t, n + 1)
        BY <2>3, <3>1, SortFacts
      <3> QED BY <3>2 DEF Permuted
    <2>6. \A i, j \in 1 .. n + 1 : t[i].id = t[j].id => i = j
      BY <1>2, <2>2 DEF Distinct
    <2>7. Distinct(s)
      <3>1. DOMAIN s = 1 .. n + 1
        BY <2>4
      <3>2. ASSUME NEW i \in 1 .. n + 1, NEW j \in 1 .. n + 1, s[i].id = s[j].id
            PROVE  i = j
        <4>1. f[i] \in 1 .. n + 1 /\ f[j] \in 1 .. n + 1 /\ t[f[i]].id = t[f[j]].id
          BY <2>5, <3>2
        <4>2. f[i] = f[j]
          BY <2>6, <4>1
        <4> QED BY <2>5, <4>2
      <3> QED BY <3>1, <3>2 DEF Distinct
    <2>8. ASSUME NEW i \in 1 .. n + 1, NEW j \in 1 .. n + 1, i < j, Rank[s[j].id] = Interactive
          PROVE  s[i].mode = "reinsert" \/ Rank[s[i].id] = Interactive
      <3>1. SortBucket(s[i]) =< SortBucket(s[j])
        <4>1. n + 1 \in Nat /\ n + 1 = Len(t) /\ t \in Seq(LaneEntry)
          BY <2>2
        <4>2. \A p, r \in 1 .. n + 1 : p < r => SortBucket(s[p]) =< SortBucket(s[r])
          BY <2>3, <4>1, SortFacts
        <4> QED BY <2>8, <4>2
      <3>2. s[i] \in LaneEntry /\ s[j] \in LaneEntry
        BY <2>4
      <3>3. s[i].mode \in Modes /\ s[j].mode \in Modes
        BY <3>2 DEF LaneEntry
      <3>4. PICK x \in Nat, y \in Nat : x = SortBucket(s[i]) /\ y = SortBucket(s[j])
        BY <3>2, BucketType
      <3>5. y =< 4
        <4>1. CASE s[j].mode = "reinsert"
          BY <3>2, <3>4, <4>1, BucketType
        <4>2. CASE s[j].mode = "enqueue"
          <5>1. SortBucket(s[j]) = 4
            BY <2>8, <3>2, <4>2, BucketType
          <5> QED BY <3>4, <5>1
        <4> QED BY <3>3, <4>1, <4>2 DEF Modes
      <3>6. x =< 4
        BY <3>1, <3>4, <3>5
      <3>7. CASE s[i].mode = "enqueue"
        <4>1. x >= 4
          BY <3>2, <3>4, <3>7, BucketType
        <4>2. SortBucket(s[i]) = 4
          BY <3>4, <3>6, <4>1
        <4> QED BY <3>2, <3>7, <4>2, BucketType
      <3> QED BY <3>3, <3>7 DEF Modes
    <2>9. Ordered(s)
      BY <2>4, <2>8 DEF Ordered
    <2>10. \A p \in DOMAIN s : s[p] = e \/ \E i \in DOMAIN q : s[p] = q[i]
      <3> SUFFICES ASSUME NEW p \in 1 .. n + 1
                   PROVE  s[p] = e \/ \E i \in 1 .. n : s[p] = q[i]
        BY <1>2, <2>4
      <3>1. PICK i \in 1 .. n + 1 : s[p] = t[i]
        BY <2>5
      <3>2. CASE i = n + 1 BY <2>2, <3>1, <3>2
      <3>3. CASE i # n + 1
        <4>1. i \in 1 .. n BY <3>3
        <4> QED BY <2>2, <3>1, <3>3, <4>1
      <3> QED BY <3>2, <3>3
    <2> QED BY <1>1, <2>4, <2>7, <2>9, <2>10
  <1>5. e.mode \in Modes
    BY DEF LaneEntry
  <1> QED BY <1>3, <1>4, <1>5 DEF Modes

--------------------------------------------------------------------------------
(* schedule().                                                                 *)

LEMMA IntervalSize ==
  ASSUME NEW n \in Nat
  PROVE  IsFiniteSet(1 .. n) /\ Cardinality(1 .. n) = n
  <1>1. 1 \in Int /\ n \in Int
    OBVIOUS
  <1>2. IsFiniteSet(1 .. n) /\ Cardinality(1 .. n) = IF 1 > n THEN 0 ELSE n - 1 + 1
    BY <1>1, FS_Interval
  <1> QED BY <1>2

LEMMA SuffixFacts ==
  ASSUME NEW q \in Seq(LaneEntry), NEW m \in Nat, m = Len(q), NEW a \in 1 .. m + 1
  PROVE  /\ SubSeq(q, a, m) \in Seq(LaneEntry) /\ Len(SubSeq(q, a, m)) = m - a + 1
         /\ \A i \in 1 .. m - a + 1 : SubSeq(q, a, m)[i] = q[a + i - 1]
  OBVIOUS

\* What schedule() leaves in the queue and runs, of a queue q and the slots taken.
Scheduled(q, act, rest, run) ==
  /\ rest \in Seq(LaneEntry) /\ Distinct(rest) /\ Ordered(rest)
  /\ run \in SUBSET ActiveEntry /\ Slots(run) /\ Apart(rest, run)
  /\ Cardinality(run) =< Capacity
  /\ rest # <<>> => Cardinality(run) = Capacity
  /\ \A i \in DOMAIN rest : \E j \in DOMAIN q : rest[i] = q[j]
  /\ \A x \in run : x \in act \/ \E j \in DOMAIN q : x.id = q[j].id /\ x.kind = q[j].kind
  /\ \A x \in run : \A i \in DOMAIN rest :
       Rank[rest[i].id] = Interactive =>
         \/ x \in act \/ Rank[x.id] = Interactive
         \/ \E j \in DOMAIN q : q[j].id = x.id /\ q[j].mode = "reinsert"

\* Every free slot is taken while calls wait, and by the call that waits first.
LEMMA ScheduleFacts ==
  ASSUME NEW q \in Seq(LaneEntry), NEW act \in SUBSET ActiveEntry,
         Distinct(q), Ordered(q), Slots(act), Apart(q, act), Cardinality(act) =< Capacity,
         NEW rest, rest = SubSeq(q, FreeSlots(q, act) + 1, Len(q)),
         NEW run, run = Promote(q, act)
  PROVE  Scheduled(q, act, rest, run)
  <1>1. PICK m \in Nat : m = Len(q) /\ DOMAIN q = 1 .. m /\ \A i \in 1 .. m : q[i] \in LaneEntry
    OBVIOUS
  <1>2. PICK c \in Nat : c = Cardinality(act)
    BY FS_CardinalityType DEF Slots
  <1>3. Capacity \in Nat \ {0}
    BY LaneAssumption
  <1>4. PICK n : n = FreeSlots(q, act)
    OBVIOUS
  <1>5. /\ n \in Nat /\ n =< m /\ c + n =< Capacity
        /\ n < m => c + n = Capacity
    <2>1. n = IF c >= Capacity THEN 0 ELSE IF Capacity - c < m THEN Capacity - c ELSE m
      BY <1>1, <1>2, <1>4 DEF FreeSlots
    <2>2. c =< Capacity
      BY <1>2
    <2> QED BY <1>1, <1>2, <1>3, <2>1, <2>2
  <1>6. /\ rest \in Seq(LaneEntry) /\ Len(rest) = m - n /\ DOMAIN rest = 1 .. m - n
        /\ \A i \in 1 .. m - n : rest[i] = q[n + i]
    <2>1. PICK a : a = n + 1
      OBVIOUS
    <2>2. rest = SubSeq(q, a, m) /\ a \in 1 .. m + 1
      BY <1>1, <1>4, <1>5, <2>1
    <2>3. /\ rest \in Seq(LaneEntry) /\ Len(rest) = m - a + 1
          /\ \A i \in 1 .. m - a + 1 : rest[i] = q[a + i - 1]
      <3>1. m \in Nat /\ m = Len(q) /\ a \in 1 .. m + 1
        BY <1>1, <2>2
      <3>2. /\ SubSeq(q, a, m) \in Seq(LaneEntry) /\ Len(SubSeq(q, a, m)) = m - a + 1
            /\ \A i \in 1 .. m - a + 1 : SubSeq(q, a, m)[i] = q[a + i - 1]
        BY <3>1, SuffixFacts, Zenon
      <3> QED BY <2>2, <3>2, Zenon
    <2>4. m - a + 1 = m - n /\ \A i \in 1 .. m - n : a + i - 1 = n + i
      BY <1>1, <1>5, <2>1
    <2> QED BY <2>3, <2>4
  <1>7. \A i \in 1 .. m - n : n + i \in 1 .. m
    BY <1>1, <1>5
  <1>8. Distinct(rest)
    <2> SUFFICES ASSUME NEW i \in 1 .. m - n, NEW j \in 1 .. m - n, rest[i].id = rest[j].id
                 PROVE  i = j
      BY <1>6 DEF Distinct
    <2>1. n + i = n + j
      <3>1. n + i \in 1 .. m /\ n + j \in 1 .. m /\ q[n + i].id = q[n + j].id
        BY <1>6, <1>7
      <3> QED BY <1>1, <3>1 DEF Distinct
    <2> QED BY <1>5, <2>1
  <1>9. Ordered(rest)
    <2> SUFFICES ASSUME NEW i \in 1 .. m - n, NEW j \in 1 .. m - n, i < j,
                        Rank[rest[j].id] = Interactive
                 PROVE  rest[i].mode = "reinsert" \/ Rank[rest[i].id] = Interactive
      BY <1>6 DEF Ordered
    <2>1. n + i < n + j
      BY <1>5
    <2> QED BY <1>1, <1>6, <1>7, <2>1 DEF Ordered
  <1>10. PICK g : g = [i \in 1 .. n |-> [id |-> q[i].id, kind |-> q[i].kind, preempted |-> FALSE]]
    OBVIOUS
  <1>11. PICK New : New = {[id |-> q[i].id, kind |-> q[i].kind, preempted |-> FALSE] : i \in 1 .. n}
    OBVIOUS
  <1>12. run = New \cup act
    BY <1>4, <1>11 DEF Promote
  <1>13. \A i \in 1 .. n : i \in 1 .. m /\ g[i] \in ActiveEntry /\ g[i].id = q[i].id /\ g[i].kind = q[i].kind
    BY <1>1, <1>5, <1>10 DEF LaneEntry, ActiveEntry
  <1>14. \A x \in New : \E i \in 1 .. n : x = g[i]
    BY <1>10, <1>11
  <1>15. IsFiniteSet(New) /\ Cardinality(New) = n
    <2>1. g \in Surjection(1 .. n, New)
      BY <1>10, <1>11 DEF Surjection
    <2>2. \A i, j \in 1 .. n : g[i] = g[j] => i = j
      BY <1>1, <1>13 DEF Distinct
    <2>3. g \in Injection(1 .. n, New)
      BY <2>1, <2>2 DEF Surjection, Injection, IsInjective
    <2> QED BY <1>5, <2>1, <2>3, IntervalSize, FS_Surjection
  <1>16. \A x \in New : \A y \in act : x.id # y.id
    BY <1>1, <1>13, <1>14 DEF Apart
  <1>17. IsFiniteSet(run) /\ Cardinality(run) = n + c
    <2>1. New \cap act = {}
      BY <1>16
    <2>2. Cardinality({}) = 0
      BY FS_EmptySet
    <2>3. IsFiniteSet(act)
      BY DEF Slots
    <2>4. IsFiniteSet(run) /\ Cardinality(run) = Cardinality(New) + Cardinality(act) - Cardinality({})
      BY <1>12, <1>15, <2>1, <2>3, FS_Union
    <2> QED BY <1>2, <1>5, <1>15, <2>2, <2>4
  <1>18. Slots(run)
    <2> SUFFICES ASSUME NEW x \in run, NEW y \in run, x.id = y.id
                 PROVE  x = y
      BY <1>17 DEF Slots
    <2>1. CASE x \in New /\ y \in New
      <3>1. PICK i \in 1 .. n, j \in 1 .. n : x = g[i] /\ y = g[j]
        BY <1>14, <2>1
      <3>2. i = j
        BY <1>1, <1>13, <3>1 DEF Distinct
      <3> QED BY <3>1, <3>2
    <2>2. CASE x \in act /\ y \in act
      BY <2>2 DEF Slots
    <2> QED BY <1>12, <1>16, <2>1, <2>2
  <1>19. Apart(rest, run)
    <2> SUFFICES ASSUME NEW i \in 1 .. m - n, NEW x \in run PROVE rest[i].id # x.id
      BY <1>6 DEF Apart
    <2>1. CASE x \in act
      BY <1>1, <1>6, <1>7, <2>1 DEF Apart
    <2>2. CASE x \in New
      <3>1. PICK j \in 1 .. n : x = g[j]
        BY <1>14, <2>2
      <3>2. n + i # j
        BY <1>5
      <3> QED BY <1>1, <1>6, <1>7, <1>13, <3>1, <3>2 DEF Distinct
    <2> QED BY <1>12, <2>1, <2>2
  <1>20. run \in SUBSET ActiveEntry
    BY <1>12, <1>13, <1>14
  <1>21. Cardinality(run) =< Capacity
    BY <1>2, <1>3, <1>5, <1>17
  <1>22. rest # <<>> => Cardinality(run) = Capacity
    BY <1>1, <1>2, <1>3, <1>5, <1>6, <1>17
  <1>23. \A i \in DOMAIN rest : \E j \in DOMAIN q : rest[i] = q[j]
    BY <1>1, <1>6, <1>7
  <1>24. \A x \in run : x \in act \/ \E j \in DOMAIN q : x.id = q[j].id /\ x.kind = q[j].kind
    BY <1>1, <1>12, <1>13, <1>14
  <1>25. ASSUME NEW x \in run, NEW i \in DOMAIN rest, Rank[rest[i].id] = Interactive, x \notin act
         PROVE  Rank[x.id] = Interactive \/ \E j \in DOMAIN q : q[j].id = x.id /\ q[j].mode = "reinsert"
    <2>1. PICK j \in 1 .. n : x = g[j]
      BY <1>12, <1>14, <1>25
    <2>2. i \in 1 .. m - n /\ j < n + i
      BY <1>1, <1>5, <1>6
    <2>3. q[j].mode = "reinsert" \/ Rank[q[j].id] = Interactive
      BY <1>1, <1>6, <1>7, <1>13, <1>25, <2>2 DEF Ordered
    <2> QED BY <1>1, <1>13, <2>1, <2>3
  <1> QED BY <1>6, <1>8, <1>9, <1>18, <1>19, <1>20, <1>21, <1>22, <1>23, <1>24, <1>25 DEF Scheduled

\* Preempting a call marks it, and leaves the slots to their holders.
LEMMA PreemptFacts ==
  ASSUME NEW old \in SUBSET ActiveEntry, Slots(old), NEW c, NEW act \in MaybePreempt(old, c)
  PROVE  /\ act \in SUBSET ActiveEntry /\ Slots(act) /\ Cardinality(act) = Cardinality(old)
         /\ \A x \in act : \E y \in old : x.id = y.id /\ x.kind = y.kind
  <1>1. CASE act = old
    BY <1>1
  <1>2. CASE act # old
    <2>1. PICK x \in old : act = (old \ {x}) \cup {[x EXCEPT !.preempted = TRUE]}
      BY <1>2 DEF MaybePreempt
    <2>2. PICK y : y = [x EXCEPT !.preempted = TRUE]
      OBVIOUS
    <2>3. y \in ActiveEntry /\ y.id = x.id /\ y.kind = x.kind
      BY <2>2 DEF ActiveEntry
    <2>4. act = (old \ {x}) \cup {y}
      BY <2>1, <2>2
    <2>5. \A z \in old \ {x} : z.id # x.id
      BY DEF Slots
    <2>6. y \notin old \ {x}
      BY <2>3, <2>5
    <2>7. PICK k \in Nat : k = Cardinality(old)
      BY FS_CardinalityType DEF Slots
    <2>8. IsFiniteSet(old \ {x}) /\ Cardinality(old \ {x}) = k - 1
      BY <2>7, FS_RemoveElement DEF Slots
    <2>9. IsFiniteSet(act) /\ Cardinality(act) = Cardinality(old \ {x}) + 1
      BY <2>4, <2>6, <2>8, FS_AddElement
    <2>10. Cardinality(act) = Cardinality(old)
      BY <2>7, <2>8, <2>9
    <2>11. Slots(act)
      BY <2>3, <2>4, <2>5, <2>9 DEF Slots
    <2> QED BY <2>3, <2>4, <2>10, <2>11
  <1> QED BY <1>1, <1>2

--------------------------------------------------------------------------------
(* The operations of the lane.  Each keeps LaneInv; none puts a call into the   *)
(* lane but Submit; and none gives a slot to a call ahead of an interactive one *)
(* that goes on waiting.                                                        *)

NoneOvertaken ==
  \A x \in active' :
    /\ \A y \in active : y.id # x.id
    /\ \E i \in DOMAIN queue' : Rank[queue'[i].id] = Interactive
    => \/ Rank[x.id] = Interactive
       \/ \E j \in DOMAIN queue : queue[j].id = x.id /\ queue[j].mode = "reinsert"

\* No call enters the lane, and those of caller c leave it.
NothingNew == \A a \in Callers : \A kind \in Kinds : InLane(a, kind)' => InLane(a, kind)
Gone(c) == \A kind \in Kinds : ~InLane(c, kind)'

\* What follows from schedule() whoever calls it.
LEMMA ScheduleStep ==
  ASSUME NEW q \in Seq(LaneEntry), NEW act \in SUBSET ActiveEntry,
         Distinct(q), Ordered(q), Slots(act), Apart(q, act), Cardinality(act) =< Capacity,
         Schedule(q, act), lease' \in Leases \cup {NoLease}, wake' \subseteq Callers
  PROVE  /\ LaneInv'
         /\ \A i \in DOMAIN queue' : \E j \in DOMAIN q : queue'[i] = q[j]
         /\ \A x \in active' : x \in act \/ \E j \in DOMAIN q : x.id = q[j].id /\ x.kind = q[j].kind
         /\ \A x \in active' : \A i \in DOMAIN queue' :
              Rank[queue'[i].id] = Interactive =>
                \/ x \in act \/ Rank[x.id] = Interactive
                \/ \E j \in DOMAIN q : q[j].id = x.id /\ q[j].mode = "reinsert"
  <1>1. PICK rest, run : /\ rest = SubSeq(q, FreeSlots(q, act) + 1, Len(q))
                         /\ run = Promote(q, act) /\ queue' = rest /\ active' = run
    BY DEF Schedule
  <1>2. Scheduled(q, act, rest, run)
    BY <1>1, ScheduleFacts
  <1>3. LaneInv'
    <2>1. queue' = rest /\ active' = run
      BY <1>1
    <2>2. LaneTypeOK'
      BY <1>2, <2>1 DEF LaneTypeOK, Scheduled
    <2>3. LaneCapacity' /\ NoLostWakeup'
      BY <1>2, <2>1 DEF LaneCapacity, NoLostWakeup, Scheduled
    <2>4. Distinct(queue') /\ Ordered(queue') /\ Slots(active') /\ Apart(queue', active')
      BY <1>2, <2>1 DEF Scheduled
    <2> QED BY <2>2, <2>3, <2>4 DEF LaneInv
  <1> QED BY <1>1, <1>2, <1>3 DEF Scheduled

\* schedule() on the queue as it stands.
LEMMA RescheduleStep ==
  ASSUME LaneInv, NEW act \in SUBSET active, Schedule(queue, act),
         lease' \in Leases \cup {NoLease}, wake' \subseteq Callers
  PROVE  /\ LaneInv' /\ NoneOvertaken
         /\ \A c \in Callers : \A kind \in Kinds :
              InLane(c, kind)' => \/ \E x \in act : x.id = c /\ x.kind = kind
                                  \/ \E j \in DOMAIN queue : queue[j].id = c /\ queue[j].kind = kind
  <1>1. /\ queue \in Seq(LaneEntry) /\ act \in SUBSET ActiveEntry /\ Distinct(queue)
        /\ Ordered(queue) /\ IsFiniteSet(active)
    BY DEF LaneInv, LaneTypeOK, Slots
  <1>2. Slots(act) /\ Apart(queue, act)
    BY <1>1, FS_Subset DEF LaneInv, Slots, Apart
  <1>3. Cardinality(act) =< Capacity
    <2>1. Cardinality(act) =< Cardinality(active) /\ IsFiniteSet(act)
      BY <1>1, FS_Subset
    <2>2. Cardinality(act) \in Nat /\ Cardinality(active) \in Nat
      BY <1>1, <2>1, FS_CardinalityType
    <2>3. Cardinality(active) =< Capacity
      BY DEF LaneInv, LaneCapacity
    <2> QED BY <2>1, <2>2, <2>3, LaneAssumption
  <1>4. /\ LaneInv'
        /\ \A i \in DOMAIN queue' : \E j \in DOMAIN queue : queue'[i] = queue[j]
        /\ \A x \in active' : x \in act \/ \E j \in DOMAIN queue : x.id = queue[j].id /\ x.kind = queue[j].kind
        /\ \A x \in active' : \A i \in DOMAIN queue' :
             Rank[queue'[i].id] = Interactive =>
               \/ x \in act \/ Rank[x.id] = Interactive
               \/ \E j \in DOMAIN queue : queue[j].id = x.id /\ queue[j].mode = "reinsert"
    BY <1>1, <1>2, <1>3, ScheduleStep
  <1>5. NoneOvertaken
    BY <1>4 DEF NoneOvertaken
  <1>6. ASSUME NEW c \in Callers, NEW kind \in Kinds, InLane(c, kind)'
        PROVE  \/ \E x \in act : x.id = c /\ x.kind = kind
               \/ \E j \in DOMAIN queue : queue[j].id = c /\ queue[j].kind = kind
    BY <1>4, <1>6 DEF InLane
  <1> QED BY <1>4, <1>5, <1>6

LEMMA SubmitStep ==
  ASSUME LaneInv, NEW c \in Callers, NEW kind \in Kinds, Submit(c, kind),
         \A k \in Kinds : ~InLane(c, k)
  PROVE  /\ LaneInv' /\ NoneOvertaken
         /\ \A a \in Callers : \A k \in Kinds :
              InLane(a, k)' => InLane(a, k) \/ (a = c /\ k = kind)
  <1>1. PICK e : e = [id |-> c, mode |-> "enqueue", kind |-> kind]
    OBVIOUS
  <1>2. e \in LaneEntry /\ e.id = c /\ e.kind = kind /\ e.mode = "enqueue"
    BY <1>1 DEF LaneEntry, Modes
  <1>3. PICK act \in MaybePreempt(active, c) : Schedule(QueueEntry(queue, e), act)
    BY <1>1 DEF Submit
  <1>4. /\ queue \in Seq(LaneEntry) /\ active \in SUBSET ActiveEntry /\ Distinct(queue)
        /\ Ordered(queue) /\ Slots(active) /\ Apart(queue, active)
        /\ Cardinality(active) =< Capacity /\ lease \in Leases \cup {NoLease} /\ wake \subseteq Callers
    BY DEF LaneInv, LaneTypeOK, LaneCapacity
  <1>5. /\ \A i \in DOMAIN queue : queue[i] \in LaneEntry /\ queue[i].kind \in Kinds /\ queue[i].id # c
        /\ \A x \in active : x.kind \in Kinds /\ x.id # c
    <2>1. \A i \in DOMAIN queue : queue[i] \in LaneEntry /\ queue[i].kind \in Kinds
      <3>1. \A i \in DOMAIN queue : queue[i] \in LaneEntry
        BY <1>4
      <3>2. \A e0 \in LaneEntry : e0.kind \in Kinds
        BY DEF LaneEntry
      <3> QED BY <3>1, <3>2
    <2>2. \A x \in active : x.kind \in Kinds
      BY <1>4 DEF ActiveEntry
    <2> QED BY <2>1, <2>2 DEF InLane
  <1>6. PICK q : q = QueueEntry(queue, e)
    OBVIOUS
  <1>7. /\ q \in Seq(LaneEntry) /\ Distinct(q) /\ Ordered(q)
        /\ \A p \in DOMAIN q : q[p] = e \/ \E i \in DOMAIN queue : q[p] = queue[i]
    BY <1>2, <1>4, <1>5, <1>6, QueueEntryFacts
  <1>8. /\ act \in SUBSET ActiveEntry /\ Slots(act) /\ Cardinality(act) = Cardinality(active)
        /\ \A x \in act : \E y \in active : x.id = y.id /\ x.kind = y.kind
    BY <1>4, PreemptFacts
  <1>9. Apart(q, act)
    BY <1>2, <1>4, <1>5, <1>7, <1>8 DEF Apart
  <1>10. lease' \in Leases \cup {NoLease} /\ wake' \subseteq Callers
    BY <1>4 DEF Submit
  <1>11. Cardinality(act) =< Capacity /\ Schedule(q, act)
    BY <1>3, <1>4, <1>6, <1>8
  <1>12. /\ LaneInv'
         /\ \A i \in DOMAIN queue' : \E j \in DOMAIN q : queue'[i] = q[j]
         /\ \A x \in active' : x \in act \/ \E j \in DOMAIN q : x.id = q[j].id /\ x.kind = q[j].kind
         /\ \A x \in active' : \A i \in DOMAIN queue' :
              Rank[queue'[i].id] = Interactive =>
                \/ x \in act \/ Rank[x.id] = Interactive
                \/ \E j \in DOMAIN q : q[j].id = x.id /\ q[j].mode = "reinsert"
    BY <1>7, <1>8, <1>9, <1>10, <1>11, ScheduleStep
  <1>13. NoneOvertaken
    <2> SUFFICES ASSUME NEW x \in active', \A y \in active : y.id # x.id,
                        NEW i \in DOMAIN queue', Rank[queue'[i].id] = Interactive,
                        Rank[x.id] # Interactive
                 PROVE  \E j \in DOMAIN queue : queue[j].id = x.id /\ queue[j].mode = "reinsert"
      BY DEF NoneOvertaken
    <2>1. x \notin act
      BY <1>8
    <2>2. PICK j \in DOMAIN q : q[j].id = x.id /\ q[j].mode = "reinsert"
      BY <1>12, <2>1
    <2>3. q[j] # e
      BY <1>2, <2>2
    <2> QED BY <1>7, <2>2, <2>3
  <1>14. ASSUME NEW a \in Callers, NEW k \in Kinds, InLane(a, k)', ~(a = c /\ k = kind)
         PROVE  InLane(a, k)
    <2>1. CASE \E i \in DOMAIN queue' : queue'[i].id = a /\ queue'[i].kind = k
      BY <1>2, <1>7, <1>12, <1>14, <2>1 DEF InLane
    <2>2. CASE \E x \in active' : x.id = a /\ x.kind = k
      <3>1. PICK x \in active' : x.id = a /\ x.kind = k
        BY <2>2
      <3>2. CASE x \in act
        BY <1>8, <3>1, <3>2 DEF InLane
      <3>3. CASE x \notin act
        BY <1>2, <1>7, <1>12, <1>14, <3>1, <3>3 DEF InLane
      <3> QED BY <3>2, <3>3
    <2> QED BY <1>14, <2>1, <2>2 DEF InLane
  <1> QED BY <1>12, <1>13, <1>14

\* The entry of an active caller, and no other, is its own.
LEMMA ActiveOfFacts ==
  ASSUME LaneInv, NEW c \in Callers, IsActive(c)
  PROVE  /\ ActiveOf(c) \in active /\ ActiveOf(c).id = c /\ ActiveOf(c) \in ActiveEntry
         /\ \A x \in active \ {ActiveOf(c)} : x.id # c
         /\ \A j \in DOMAIN queue : queue[j].id # c
         /\ InLane(c, ActiveOf(c).kind)
  <1>1. ActiveOf(c) \in active /\ ActiveOf(c).id = c
    BY DEF ActiveOf, IsActive
  <1>2. ActiveOf(c) \in ActiveEntry
    BY <1>1 DEF LaneInv, LaneTypeOK
  <1>3. \A x \in active \ {ActiveOf(c)} : x.id # c
    BY <1>1 DEF LaneInv, Slots
  <1>4. \A j \in DOMAIN queue : queue[j].id # c
    BY <1>1 DEF LaneInv, Apart
  <1>5. InLane(c, ActiveOf(c).kind)
    BY <1>1 DEF InLane
  <1> QED BY <1>1, <1>2, <1>3, <1>4, <1>5

LEMMA SettleStep ==
  ASSUME LaneInv, NEW c \in Callers, SettleCall(c)
  PROVE  LaneInv' /\ NoneOvertaken /\ NothingNew /\ Gone(c)
  <1>1. PICK x : x = ActiveOf(c)
    OBVIOUS
  <1>2. /\ x \in active /\ x.id = c /\ \A y \in active \ {x} : y.id # c
        /\ \A j \in DOMAIN queue : queue[j].id # c
    BY <1>1, ActiveOfFacts DEF SettleCall
  <1>3. active' = active \ {x} /\ wake' = wake \cup {c} /\ queue' = queue /\ lease' = lease
    BY <1>1 DEF SettleCall
  <1>4. IsFiniteSet(active') /\ Cardinality(active') =< Capacity
    <2>1. IsFiniteSet(active) /\ Cardinality(active) =< Capacity
      BY DEF LaneInv, Slots, LaneCapacity
    <2>2. active' \in SUBSET active
      BY <1>3
    <2>3. IsFiniteSet(active') /\ Cardinality(active') =< Cardinality(active)
      BY <2>1, <2>2, FS_Subset
    <2> QED BY <2>1, <2>3, FS_CardinalityType, LaneAssumption
  <1>5. LaneInv'
    BY <1>3, <1>4 DEF LaneInv, LaneTypeOK, Distinct, Ordered, Slots, Apart, LaneCapacity, NoLostWakeup
  <1>6. NoneOvertaken
    BY <1>3 DEF NoneOvertaken
  <1>7. NothingNew
    BY <1>3 DEF NothingNew, InLane
  <1>8. Gone(c)
    BY <1>2, <1>3 DEF Gone, InLane
  <1> QED BY <1>5, <1>6, <1>7, <1>8

LEMMA RequeueStep ==
  ASSUME LaneInv, NEW c \in Callers, RequeuePreempted(c)
  PROVE  LaneInv' /\ NoneOvertaken /\ NothingNew
  <1>1. PICK x : x = ActiveOf(c)
    OBVIOUS
  <1>2. /\ x \in active /\ x.id = c /\ x.kind = "invoke" /\ \A y \in active \ {x} : y.id # c
        /\ \A j \in DOMAIN queue : queue[j].id # c
    BY <1>1, ActiveOfFacts DEF RequeuePreempted
  <1>3. PICK e : e = [id |-> c, mode |-> "reinsert", kind |-> "invoke"]
    OBVIOUS
  <1>4. e \in LaneEntry /\ e.id = c /\ e.kind = "invoke"
    BY <1>3 DEF LaneEntry, Modes, Kinds
  <1>5. /\ active' = active \ {x} /\ wake' = wake \cup {c} /\ queue' = QueueEntry(queue, e)
        /\ lease' = lease
    BY <1>1, <1>3 DEF RequeuePreempted
  <1>6. queue \in Seq(LaneEntry) /\ Distinct(queue) /\ Ordered(queue) /\ Apart(queue, active)
    BY DEF LaneInv, LaneTypeOK
  <1>7. /\ queue' \in Seq(LaneEntry) /\ Distinct(queue') /\ Ordered(queue')
        /\ \A p \in DOMAIN queue' : queue'[p] = e \/ \E i \in DOMAIN queue : queue'[p] = queue[i]
    BY <1>2, <1>4, <1>5, <1>6, QueueEntryFacts
  <1>8. IsFiniteSet(active') /\ Cardinality(active') =< Capacity
    <2>1. IsFiniteSet(active) /\ Cardinality(active) =< Capacity
      BY DEF LaneInv, Slots, LaneCapacity
    <2>2. active' \in SUBSET active
      BY <1>5
    <2>3. IsFiniteSet(active') /\ Cardinality(active') =< Cardinality(active)
      BY <2>1, <2>2, FS_Subset
    <2> QED BY <2>1, <2>3, FS_CardinalityType, LaneAssumption
  <1>9. Apart(queue', active')
    BY <1>2, <1>4, <1>5, <1>6, <1>7 DEF Apart
  <1>10. LaneInv'
    BY <1>5, <1>7, <1>8, <1>9 DEF LaneInv, LaneTypeOK, Distinct, Ordered, Slots, LaneCapacity, NoLostWakeup
  <1>11. NoneOvertaken
    BY <1>5 DEF NoneOvertaken
  <1>12. NothingNew
    BY <1>2, <1>4, <1>5, <1>7 DEF NothingNew, InLane
  <1> QED BY <1>10, <1>11, <1>12

LEMMA EndStreamStep ==
  ASSUME LaneInv, NEW c \in Callers, EndStream(c)
  PROVE  LaneInv' /\ NoneOvertaken /\ NothingNew /\ Gone(c)
  <1>1. PICK x : x = ActiveOf(c)
    OBVIOUS
  <1>2. /\ x \in active /\ x.id = c /\ \A y \in active \ {x} : y.id # c
        /\ \A j \in DOMAIN queue : queue[j].id # c
    BY <1>1, ActiveOfFacts DEF EndStream
  <1>3. PICK act \in SUBSET active : act = active \ {x}
    OBVIOUS
  <1>4. Schedule(queue, act) /\ lease' \in Leases \cup {NoLease} /\ wake' \subseteq Callers
    BY <1>1, <1>3 DEF EndStream, LaneInv, LaneTypeOK
  <1>5. /\ LaneInv' /\ NoneOvertaken
        /\ \A a \in Callers : \A kind \in Kinds :
             InLane(a, kind)' => \/ \E y \in act : y.id = a /\ y.kind = kind
                                 \/ \E j \in DOMAIN queue : queue[j].id = a /\ queue[j].kind = kind
    BY <1>4, RescheduleStep
  <1>6. NothingNew
    BY <1>5 DEF NothingNew, InLane
  <1>7. Gone(c)
    BY <1>2, <1>3, <1>5 DEF Gone
  <1> QED BY <1>5, <1>6, <1>7

LEMMA WakeStep ==
  ASSUME LaneInv, Schedule(queue, active), lease' \in Leases \cup {NoLease}, wake' \subseteq Callers
  PROVE  LaneInv' /\ NoneOvertaken /\ NothingNew
  <1>1. /\ LaneInv' /\ NoneOvertaken
        /\ \A c \in Callers : \A kind \in Kinds :
             InLane(c, kind)' => \/ \E x \in active : x.id = c /\ x.kind = kind
                                 \/ \E j \in DOMAIN queue : queue[j].id = c /\ queue[j].kind = kind
    BY RescheduleStep
  <1> QED BY <1>1 DEF NothingNew, InLane

LEMMA LaneUnchanged ==
  ASSUME LaneInv, UNCHANGED <<queue, active, wake>>, lease' \in Leases \cup {NoLease}
  PROVE  LaneInv' /\ NoneOvertaken /\ NothingNew
  <1>1. LaneInv'
    BY DEF LaneInv, LaneTypeOK, LaneCapacity, NoLostWakeup, Distinct, Ordered, Slots, Apart
  <1>2. NoneOvertaken
    BY DEF NoneOvertaken
  <1> QED BY <1>1, <1>2 DEF NothingNew, InLane

--------------------------------------------------------------------------------
(* The agents.                                                                 *)

\* What every step keeps.
Kept == LaneInv' /\ GatewayInv' /\ NoneOvertaken

\* Agent a goes on as r.
Moves(a, r) == r \in AgentRec /\ agent' = [agent EXCEPT ![a] = r]

CountersOK == runs' \in [Callers -> Nat] /\ upsets' \in Nat

LEMMA StillLane ==
  ASSUME LaneInv, UNCHANGED laneVars
  PROVE  LaneInv' /\ NoneOvertaken /\ NothingNew
  <1>1. UNCHANGED <<queue, active, wake, lease>> /\ lease \in Leases \cup {NoLease}
    BY DEF laneVars, LaneInv, LaneTypeOK
  <1> QED BY <1>1, LaneUnchanged

LEMMA FaultFacts ==
  ASSUME GatewayInv, Fault
  PROVE  CountersOK /\ abort' = abort
  BY DEF GatewayInv, Fault, Upset, CountersOK

LEMMA QuietFacts ==
  ASSUME GatewayInv, UNCHANGED Counters
  PROVE  CountersOK /\ abort' = abort
  BY DEF GatewayInv, Counters, CountersOK

\* The step of one agent.
LEMMA MoveStep ==
  ASSUME GatewayInv, NEW a \in Callers, NEW r, Moves(a, r), CountersOK,
         abort' \in [Callers -> BOOLEAN], \A c \in Callers \ {a} : abort'[c] = abort[c],
         \A c \in Callers : \A kind \in Kinds :
           InLane(c, kind)' => \/ c # a /\ InLane(c, kind)
                               \/ c = a /\ Awaits(a, r, kind),
         Bounded(a, r, abort'[a]), Parent(a, r), agent[a].kids \subseteq r.kids,
         agent[a].pc = "idle" /\ r.pc # "idle" => a \in Roots
  PROVE  GatewayInv'
  <1>1. agent \in [Callers -> AgentRec] /\ r \in AgentRec /\ agent' = [agent EXCEPT ![a] = r]
    BY DEF GatewayInv, Moves
  <1>2. agent' \in [Callers -> AgentRec] /\ agent'[a] = r
        /\ \A c \in Callers \ {a} : agent'[c] = agent[c]
    BY <1>1
  <1>3. ASSUME NEW c \in Callers, NEW kind \in Kinds, InLane(c, kind)'
        PROVE  Awaits(c, agent'[c], kind)
    <2>1. CASE c = a
      BY <1>2, <1>3, <2>1
    <2>2. CASE c # a
      <3>1. InLane(c, kind)
        BY <1>3, <2>2
      <3> QED BY <1>2, <2>2, <3>1 DEF GatewayInv
    <2> QED BY <2>1, <2>2
  <1>4. ASSUME NEW c \in Callers
        PROVE  Bounded(c, agent'[c], abort'[c]) /\ Parent(c, agent'[c])
    BY <1>2 DEF GatewayInv
  <1>5. ASSUME NEW c \in Callers, NEW k \in Kids[c], agent'[k].pc # "idle"
        PROVE  k \in agent'[c].kids
    <2>1. k \in Callers \ Roots /\ k # c
      BY GatewayAssumption
    <2>2. agent[k].pc # "idle"
      BY <1>2, <1>5, <2>1
    <2>3. k \in agent[c].kids
      BY <2>2 DEF GatewayInv
    <2> QED BY <1>2, <2>3
  <1>6. \A c \in Callers : \A kind \in Kinds : InLane(c, kind)' => Awaits(c, agent[c], kind)'
    BY <1>3 DEF Awaits
  <1>7. \A c \in Callers : Bounded(c, agent[c], abort[c])' /\ Parent(c, agent[c])'
    BY <1>4 DEF Bounded, Parent
  <1> QED BY <1>2, <1>5, <1>6, <1>7 DEF GatewayInv, CountersOK

\* The step of an agent that has no call in the lane after it.
LEMMA OutsideStep ==
  ASSUME GatewayInv, LaneInv', NoneOvertaken, NothingNew,
         NEW a \in Callers, NEW r, Moves(a, r), CountersOK, abort' = abort,
         Gone(a) \/ agent[a].pc # "waiting",
         Bounded(a, r, abort[a]), Parent(a, r), agent[a].kids \subseteq r.kids,
         agent[a].pc = "idle" /\ r.pc # "idle" => a \in Roots
  PROVE  Kept
  <1>1. \A kind \in Kinds : ~InLane(a, kind)'
    BY DEF Gone, NothingNew, GatewayInv, Awaits
  <1>2. \A c \in Callers : \A kind \in Kinds :
          InLane(c, kind)' => (c # a /\ InLane(c, kind)) \/ (c = a /\ Awaits(a, r, kind))
    BY <1>1 DEF NothingNew
  <1>3. abort' \in [Callers -> BOOLEAN] /\ \A c \in Callers \ {a} : abort'[c] = abort[c]
    BY DEF GatewayInv
  <1>4. GatewayInv'
    BY <1>2, <1>3, MoveStep
  <1> QED BY <1>4 DEF Kept

\* A step of the lane alone.
LEMMA LaneOnlyStep ==
  ASSUME GatewayInv, LaneInv', NoneOvertaken, NothingNew, UNCHANGED gatewayVars
  PROVE  Kept
  <1>1. UNCHANGED <<agent, abort, runs, upsets>>
    BY DEF gatewayVars
  <1>2. \A c \in Callers : \A kind \in Kinds : InLane(c, kind)' => Awaits(c, agent[c], kind)'
    BY <1>1 DEF GatewayInv, NothingNew, Awaits
  <1> QED BY <1>1, <1>2 DEF Kept, GatewayInv, Bounded, Parent

\* The two ways most steps end.
LEMMA GoFacts ==
  ASSUME GatewayInv, NEW a \in Callers, NEW pc \in Steps, Go(a, pc)
  PROVE  \E r : /\ Moves(a, r) /\ r.pc = pc /\ r.late = agent[a].late
                /\ r.kids = agent[a].kids /\ r.calls = agent[a].calls
  <1>1. agent \in [Callers -> AgentRec] /\ agent[a] \in AgentRec
    BY DEF GatewayInv
  <1>2. PICK r : r = [agent[a] EXCEPT !.pc = pc]
    OBVIOUS
  <1>3. /\ r \in AgentRec /\ r.pc = pc /\ r.late = agent[a].late
        /\ r.kids = agent[a].kids /\ r.calls = agent[a].calls
    BY <1>1, <1>2 DEF AgentRec
  <1>4. agent' = [agent EXCEPT ![a] = r]
    BY <1>1, <1>2 DEF Go
  <1> QED BY <1>3, <1>4 DEF Moves

LEMMA EndFacts ==
  ASSUME GatewayInv, NEW a \in Callers, NEW result \in Results, End(a, result)
  PROVE  \E r : /\ Moves(a, r) /\ r.pc = "final" /\ r.late = agent[a].late
                /\ r.kids = agent[a].kids
  <1>1. agent \in [Callers -> AgentRec] /\ agent[a] \in AgentRec
    BY DEF GatewayInv
  <1>2. PICK r : r = [agent[a] EXCEPT !.pc = "final", !.result = result]
    OBVIOUS
  <1>3. r \in AgentRec /\ r.pc = "final" /\ r.late = agent[a].late /\ r.kids = agent[a].kids
    BY <1>1, <1>2 DEF AgentRec, Steps
  <1>4. agent' = [agent EXCEPT ![a] = r]
    BY <1>1, <1>2 DEF End
  <1> QED BY <1>3, <1>4 DEF Moves

\* What holds of an agent that is not at "kids".
LEMMA AgentFacts ==
  ASSUME GatewayInv, NEW a \in Callers
  PROVE  /\ agent[a] \in AgentRec /\ agent[a].late \in Nat
         /\ Bounded(a, agent[a], abort[a]) /\ Parent(a, agent[a])
         /\ agent[a].pc # "kids" => agent[a].kids = {}
  BY DEF GatewayInv, Parent, AgentRec

\* Ending a run: from any step where no children are awaited.
LEMMA EndStep ==
  ASSUME GatewayInv, LaneInv', NoneOvertaken, NothingNew, NEW a \in Callers,
         NEW result \in Results, End(a, result), CountersOK, abort' = abort,
         agent[a].pc \notin {"idle", "kids"}, Gone(a) \/ agent[a].pc # "waiting"
  PROVE  Kept
  <1>1. PICK r : Moves(a, r) /\ r.pc = "final" /\ r.late = agent[a].late /\ r.kids = agent[a].kids
    BY EndFacts
  <1>2. Bounded(a, r, abort[a])
    BY <1>1, AgentFacts DEF Bounded
  <1>3. Parent(a, r)
    BY <1>1, AgentFacts DEF Parent
  <1> QED BY <1>1, <1>2, <1>3, OutsideStep

--------------------------------------------------------------------------------
(* The turn loop.                                                              *)

LEMMA StartRunStep ==
  ASSUME LaneInv, GatewayInv, NEW a \in Callers, StartRun(a)
  PROVE  Kept
  <1>1. LaneInv' /\ NoneOvertaken /\ NothingNew
    BY StillLane DEF StartRun
  <1>2. PICK r : r = Fresh(0)
    OBVIOUS
  <1>3. r \in AgentRec /\ r.pc = "loop" /\ r.late = 0 /\ r.kids = {}
    BY <1>2 DEF Fresh, AgentRec, Steps, Results
  <1>4. Moves(a, r) /\ agent[a].pc = "idle" /\ a \in Roots /\ abort' = abort
    BY <1>2, <1>3 DEF Moves, StartRun, At
  <1>5. CountersOK
    BY DEF CountersOK, StartRun, GatewayInv
  <1>6. Bounded(a, r, abort[a]) /\ Parent(a, r)
    BY <1>3 DEF Bounded, Parent
  <1>7. agent[a].kids \subseteq r.kids
    BY <1>4, AgentFacts
  <1> QED BY <1>1, <1>4, <1>5, <1>6, <1>7, OutsideStep

\* An abort that was counted against the agent ends its run here.
LEMMA DrainStep ==
  ASSUME LaneInv, GatewayInv, NEW a \in Callers, Drain(a)
  PROVE  Kept
  <1>1. LaneInv' /\ NoneOvertaken /\ NothingNew
    BY StillLane DEF Drain
  <1>2. agent[a].pc = "loop"
    BY DEF Drain, At
  <1>3. PICK r : /\ Moves(a, r) /\ r.late = agent[a].late /\ r.kids = agent[a].kids
                 /\ \/ r.pc = "final"
                    \/ r.pc = "ready" /\ ~abort[a]
    <2>1. CASE abort[a]
      BY <2>1, EndFacts DEF Drain, Results
    <2>2. CASE ~abort[a]
      BY <2>2, GoFacts DEF Drain, Steps
    <2> QED BY <2>1, <2>2
  <1>4. agent[a].late \in Nat /\ r.late \in Nat
    BY <1>3, AgentFacts
  <1>5. Bounded(a, r, abort'[a])
    <2>1. CASE r.pc = "final"
      BY <1>3, <2>1, AgentFacts DEF Bounded
    <2>2. CASE r.pc = "ready" /\ ~abort[a]
      <3>1. agent[a].late = 0
        BY <1>2, <1>4, <2>2, AgentFacts DEF Bounded
      <3> QED BY <1>3, <2>2, <3>1 DEF Bounded
    <2> QED BY <1>3, <2>1, <2>2
  <1>6. Parent(a, r) /\ agent[a].kids \subseteq r.kids
    BY <1>2, <1>3, AgentFacts DEF Parent
  <1>7. \A c \in Callers : \A kind \in Kinds :
          InLane(c, kind)' => (c # a /\ InLane(c, kind)) \/ (c = a /\ Awaits(a, r, kind))
    BY <1>1, <1>2 DEF NothingNew, GatewayInv, Awaits
  <1>8. abort' \in [Callers -> BOOLEAN] /\ \A c \in Callers \ {a} : abort'[c] = abort[c]
    BY DEF Drain, GatewayInv
  <1>9. CountersOK
    BY DEF Drain, GatewayInv, CountersOK
  <1>10. GatewayInv'
    BY <1>2, <1>3, <1>5, <1>6, <1>7, <1>8, <1>9, MoveStep
  <1> QED BY <1>1, <1>10 DEF Kept

\* A call with an abort in the inbox is the first such call of the run, or the
\* fallback of the stream that was.
LEMMA CallModelStep ==
  ASSUME LaneInv, GatewayInv, NEW a \in Callers, NEW kind \in Kinds, CallModel(a, kind),
         \/ agent[a].pc = "ready" /\ (kind = "stream" => a \in Streamers)
         \/ agent[a].pc = "fallback" /\ kind = "invoke"
  PROVE  Kept
  <1>1. \A k \in Kinds : ~InLane(a, k)
    BY DEF GatewayInv, Awaits
  <1>2. /\ LaneInv' /\ NoneOvertaken
        /\ \A c \in Callers : \A k \in Kinds :
             InLane(c, k)' => InLane(c, k) \/ (c = a /\ k = kind)
    BY <1>1, SubmitStep DEF CallModel
  <1>3. PICK d \in 0 .. 1 : d = IF abort[a] THEN 1 ELSE 0
    OBVIOUS
  <1>4. PICK r : r = [agent[a] EXCEPT !.pc = "waiting", !.late = agent[a].late + d]
    OBVIOUS
  <1>5. agent[a] \in AgentRec /\ agent[a].late \in Nat /\ agent[a].late + d \in Nat
    BY AgentFacts
  <1>6. /\ r \in AgentRec /\ r.pc = "waiting" /\ r.late = agent[a].late + d
        /\ r.kids = agent[a].kids
    BY <1>4, <1>5 DEF AgentRec, Steps
  <1>7. Moves(a, r)
    BY <1>3, <1>4, <1>6 DEF Moves, CallModel, GatewayInv
  <1>8. CountersOK /\ abort' = abort
    BY QuietFacts DEF CallModel
  <1>9. agent[a].late =< 1 /\ (agent[a].pc = "ready" => agent[a].late = 0)
        /\ (agent[a].pc = "fallback" => a \in Streamers)
    BY <1>5, AgentFacts DEF Bounded
  <1>10. agent[a].late > 0 => abort[a]
    BY AgentFacts DEF Bounded
  <1>11. r.late > 0 => abort[a]
    BY <1>3, <1>5, <1>6, <1>10
  <1>12. r.late =< (IF a \in Streamers THEN 2 ELSE 1)
    BY <1>3, <1>5, <1>6, <1>9
  <1>13. Bounded(a, r, abort'[a])
    BY <1>6, <1>8, <1>11, <1>12 DEF Bounded
  <1>14. Awaits(a, r, kind)
    BY <1>3, <1>5, <1>6, <1>9 DEF Awaits
  <1>15. Parent(a, r) /\ agent[a].kids \subseteq r.kids
    BY <1>6, AgentFacts DEF Parent
  <1>16. \A c \in Callers : \A k \in Kinds :
           InLane(c, k)' => (c # a /\ InLane(c, k)) \/ (c = a /\ Awaits(a, r, k))
    BY <1>1, <1>2, <1>14
  <1>17. abort' \in [Callers -> BOOLEAN] /\ \A c \in Callers \ {a} : abort'[c] = abort[c]
    BY <1>8 DEF GatewayInv
  <1>18. agent[a].pc = "idle" /\ r.pc # "idle" => a \in Roots
    OBVIOUS
  <1>19. GatewayInv'
    BY <1>7, <1>8, <1>13, <1>15, <1>16, <1>17, <1>18, MoveStep
  <1> QED BY <1>2, <1>19 DEF Kept

LEMMA SuspendStep ==
  ASSUME LaneInv, GatewayInv, NEW a \in Callers, Suspend(a), agent[a].pc \in {"ready", "fallback"}
  PROVE  Kept
  <1>1. LaneInv' /\ NoneOvertaken /\ NothingNew
    BY StillLane DEF Suspend
  <1>2. CountersOK /\ abort' = abort
    BY QuietFacts DEF Suspend
  <1>3. End(a, "suspended") /\ "suspended" \in Results
    BY DEF Suspend, Results
  <1> QED BY <1>1, <1>2, <1>3, EndStep

LEMMA ModelStep ==
  ASSUME LaneInv, GatewayInv, NEW a \in Callers, InvokeModel(a) \/ StreamModel(a) \/ Fallback(a)
  PROVE  Kept
  <1>1. CASE InvokeModel(a)
    BY <1>1, CallModelStep, SuspendStep DEF InvokeModel, At, Kinds
  <1>2. CASE Fallback(a)
    BY <1>2, CallModelStep, SuspendStep DEF Fallback, At, Kinds
  <1>3. CASE StreamModel(a) /\ CallModel(a, "stream")
    BY <1>3, CallModelStep DEF StreamModel, At, Kinds
  <1>4. CASE StreamModel(a) /\ Go(a, "fallback") /\ UNCHANGED <<Counters, laneVars>>
    <2>1. agent[a].pc = "ready" /\ a \in Streamers
      BY <1>4 DEF StreamModel, At
    <2>2. LaneInv' /\ NoneOvertaken /\ NothingNew
      BY <1>4, StillLane
    <2>3. CountersOK /\ abort' = abort
      BY <1>4, QuietFacts
    <2>4. PICK r : /\ Moves(a, r) /\ r.pc = "fallback" /\ r.late = agent[a].late
                   /\ r.kids = agent[a].kids
      BY <1>4, GoFacts DEF Steps
    <2>5. Bounded(a, r, abort[a])
      BY <2>1, <2>4, AgentFacts DEF Bounded
    <2>6. Parent(a, r) /\ agent[a].kids \subseteq r.kids
      BY <2>1, <2>4, AgentFacts DEF Parent
    <2> QED BY <2>1, <2>2, <2>3, <2>4, <2>5, <2>6, OutsideStep
  <1> QED BY <1>1, <1>2, <1>3, <1>4 DEF StreamModel

\* Only a stream breaks into a fallback, and it has called once.
LEMMA StreamBrokeStep ==
  ASSUME LaneInv, GatewayInv, NEW a \in Callers, StreamBroke(a)
  PROVE  Kept
  <1>1. LaneInv' /\ NoneOvertaken /\ NothingNew /\ Gone(a)
    BY EndStreamStep DEF StreamBroke
  <1>2. CountersOK /\ abort' = abort
    BY QuietFacts DEF StreamBroke
  <1>3. agent[a].pc = "waiting"
    BY DEF StreamBroke, At
  <1>4. InLane(a, "stream")
    BY ActiveOfFacts DEF StreamBroke, EndStream
  <1>5. a \in Streamers /\ agent[a].late =< 1
    BY <1>4 DEF GatewayInv, Awaits, Kinds
  <1>6. PICK r : /\ Moves(a, r) /\ r.pc = "fallback" /\ r.late = agent[a].late
                 /\ r.kids = agent[a].kids
    BY GoFacts DEF StreamBroke, Steps
  <1>7. Bounded(a, r, abort[a])
    BY <1>3, <1>5, <1>6, AgentFacts DEF Bounded
  <1>8. Parent(a, r) /\ agent[a].kids \subseteq r.kids
    BY <1>3, <1>6, AgentFacts DEF Parent
  <1> QED BY <1>1, <1>2, <1>3, <1>6, <1>7, <1>8, OutsideStep

LEMMA NoProviderStep ==
  ASSUME LaneInv, GatewayInv, NEW a \in Callers, NoProvider(a)
  PROVE  Kept
  <1>1. LaneInv' /\ NoneOvertaken /\ NothingNew
    BY StillLane DEF NoProvider
  <1>2. CountersOK /\ abort' = abort
    BY FaultFacts DEF NoProvider
  <1>3. End(a, "error") /\ "error" \in Results /\ agent[a].pc = "ready"
    BY DEF NoProvider, Results, At
  <1> QED BY <1>1, <1>2, <1>3, EndStep

LEMMA AnsweredStep ==
  ASSUME LaneInv, GatewayInv, NEW a \in Callers, Answered(a)
  PROVE  Kept
  <1>1. LaneInv' /\ NoneOvertaken /\ NothingNew /\ Gone(a)
    BY SettleStep, EndStreamStep DEF Answered
  <1>2. CountersOK /\ abort' = abort
    BY QuietFacts DEF Answered
  <1>3. agent[a].pc = "waiting" /\ agent[a] \in AgentRec
    BY AgentFacts DEF Answered, At
  <1>4. PICK calls \in Answers[a] :
          agent' = [agent EXCEPT
            ![a].pc = IF calls = <<>> THEN "final" ELSE "calls",
            ![a].result = IF calls = <<>> THEN "completed" ELSE "none",
            ![a].turns = IF calls = <<>> THEN agent[a].turns + 1 ELSE agent[a].turns,
            ![a].calls = calls]
    BY DEF Answered, GatewayInv
  <1>5. calls \in Seq(Calls)
    BY GatewayAssumption
  <1>6. PICK r : r = [agent[a] EXCEPT
                        !.pc = IF calls = <<>> THEN "final" ELSE "calls",
                        !.result = IF calls = <<>> THEN "completed" ELSE "none",
                        !.turns = IF calls = <<>> THEN agent[a].turns + 1 ELSE agent[a].turns,
                        !.calls = calls]
    OBVIOUS
  <1>7. agent[a].turns \in Nat /\ agent[a].turns + 1 \in Nat
    BY <1>3 DEF AgentRec
  <1>8. /\ r \in AgentRec /\ r.pc = (IF calls = <<>> THEN "final" ELSE "calls")
        /\ r.late = agent[a].late /\ r.kids = agent[a].kids /\ r.calls = calls
    BY <1>3, <1>5, <1>6, <1>7 DEF AgentRec, Steps, Results
  <1>9. Moves(a, r)
    BY <1>4, <1>6, <1>8 DEF Moves, GatewayInv
  <1>10. Bounded(a, r, abort[a])
    BY <1>3, <1>8, AgentFacts DEF Bounded
  <1>11. Parent(a, r) /\ agent[a].kids \subseteq r.kids
    BY <1>3, <1>8, AgentFacts DEF Parent
  <1> QED BY <1>1, <1>2, <1>3, <1>9, <1>10, <1>11, OutsideStep

LEMMA CallFailedStep ==
  ASSUME LaneInv, GatewayInv, NEW a \in Callers, CallFailed(a)
  PROVE  Kept
  <1>1. LaneInv' /\ NoneOvertaken /\ NothingNew /\ Gone(a)
    BY SettleStep DEF CallFailed
  <1>2. CountersOK /\ abort' = abort
    BY FaultFacts DEF CallFailed
  <1>3. End(a, "error") /\ "error" \in Results /\ agent[a].pc = "waiting"
    BY DEF CallFailed, Results, At
  <1> QED BY <1>1, <1>2, <1>3, EndStep

LEMMA CallPreemptedStep ==
  ASSUME LaneInv, GatewayInv, NEW a \in Callers, CallPreempted(a)
  PROVE  Kept
  BY RequeueStep, LaneOnlyStep DEF CallPreempted

--------------------------------------------------------------------------------
(* Tool calls and children.                                                    *)

LEMMA OtherCallsType ==
  ASSUME NEW calls \in Seq(Calls)
  PROVE  OtherCalls(calls) \in Seq(Calls)
  <1>1. PICK kept : kept = DOMAIN calls \ Dispatches(calls)
    OBVIOUS
  <1>2. kept \subseteq DOMAIN calls /\ kept \subseteq Nat
    BY <1>1
  <1>3. IsFiniteSet(kept)
    <2>1. PICK m \in Nat : DOMAIN calls = 1 .. m
      OBVIOUS
    <2>2. IsFiniteSet(1 .. m)
      BY IntervalSize
    <2> QED BY <1>2, <2>1, <2>2, FS_Subset
  <1>4. PICK R : R = {r \in kept \X kept : r[1] =< r[2]}
    OBVIOUS
  <1>5. \A i, j \in kept : <<i, j>> \in R <=> i =< j
    BY <1>4
  <1>6. PICK order : order = Arranged(kept, R)
    OBVIOUS
  <1>7. \A i, j \in kept : <<i, j>> \in R \/ <<j, i>> \in R
    <2>1. \A i, j \in kept : i =< j \/ j =< i
      BY <1>2
    <2> QED BY <1>5, <2>1
  <1>8. \A i, j \in kept : <<i, j>> \in R /\ <<j, i>> \in R => i = j
    <2>1. \A i, j \in kept : i =< j /\ j =< i => i = j
      BY <1>2
    <2> QED BY <1>5, <2>1
  <1>9. \A i, j, k \in kept : <<i, j>> \in R /\ <<j, k>> \in R => <<i, k>> \in R
    <2>1. \A i, j, k \in kept : i =< j /\ j =< k => i =< k
      BY <1>2
    <2> QED BY <1>5, <2>1
  <1>10. Cardinality(kept) \in Nat /\ order \in [1 .. Cardinality(kept) -> kept]
    <2>1. TotalOn(kept, R)
      BY <1>7, <1>8, <1>9 DEF TotalOn
    <2>2. Cardinality(kept) \in Nat /\ Lists(order, kept, R, Cardinality(kept))
      BY <1>3, <1>6, <2>1, ArrangedLists
    <2> QED BY <2>2 DEF Lists
  <1>11. PICK n \in Nat : n = Cardinality(kept)
    BY <1>10
  <1>12. OtherCalls(calls) = [p \in 1 .. n |-> calls[order[p]]]
    BY <1>1, <1>4, <1>6, <1>10, <1>11 DEF OtherCalls
  <1>13. \A p \in 1 .. n : calls[order[p]] \in Calls
    BY <1>2, <1>10, <1>11
  <1> QED BY <1>12, <1>13

LEMMA IdleFacts == Idle \in AgentRec /\ Idle.pc = "idle" /\ Idle.late = 0 /\ Idle.kids = {}
  <1>1. PICK f : f = Fresh(0)
    OBVIOUS
  <1>2. f \in AgentRec /\ f.late = 0 /\ f.kids = {}
    BY <1>1 DEF Fresh, AgentRec, Steps, Results
  <1>3. Idle = [f EXCEPT !.pc = "idle"]
    BY <1>1 DEF Idle
  <1> QED BY <1>2, <1>3 DEF AgentRec, Steps

LEMMA AfterCallsFacts ==
  ASSUME NEW calls
  PROVE  /\ AfterCalls(calls) \in {"ack", "calls"}
         /\ AfterCalls(calls) = "calls" => calls # <<>>
  BY DEF AfterCalls

LEMMA EmptyCalls == <<>> \in Seq(Calls)
  OBVIOUS

LEMMA TailType ==
  ASSUME NEW calls \in Seq(Calls), calls # <<>>
  PROVE  Tail(calls) \in Seq(Calls)
  OBVIOUS

\* Dispatching children: each of them is a new agent, and a awaits them all.
LEMMA KidsStep ==
  ASSUME LaneInv, GatewayInv, NEW a \in Callers, agent[a].pc = "calls",
         UNCHANGED <<Counters, laneVars>>,
         NEW K \in SUBSET Kids[a], NEW limit \in [K -> Nat],
         NEW r \in AgentRec, r.kids = K, r.late = agent[a].late,
         r.pc \in {"calls", "kids", "ack"}, Parent(a, r),
         agent' = [c \in Callers |-> IF c = a THEN r
                                     ELSE IF c \in K THEN Fresh(limit[c]) ELSE agent[c]]
  PROVE  Kept
  <1>1. LaneInv' /\ NoneOvertaken /\ NothingNew
    BY StillLane
  <1>2. CountersOK /\ abort' = abort
    BY QuietFacts
  <1>3. a \notin K /\ K \subseteq Callers \ Roots /\ agent[a].kids = {}
    BY GatewayAssumption, AgentFacts
  <1>4. \A k \in Kids[a] : agent[k].pc = "idle"
    BY <1>3 DEF GatewayInv
  <1>5. ASSUME NEW k \in K
        PROVE  /\ Fresh(limit[k]) \in AgentRec /\ Fresh(limit[k]).pc = "loop"
               /\ Fresh(limit[k]).late = 0 /\ Fresh(limit[k]).kids = {}
    <2>1. limit[k] \in Nat
      OBVIOUS
    <2> QED BY <2>1 DEF Fresh, AgentRec, Steps, Results
  <1>6. agent' \in [Callers -> AgentRec]
    BY <1>5 DEF GatewayInv
  <1>7. /\ agent'[a] = r
        /\ \A k \in K : agent'[k] = Fresh(limit[k])
        /\ \A c \in Callers : c # a /\ c \notin K => agent'[c] = agent[c]
    BY <1>3
  <1>8. ASSUME NEW c \in Callers, NEW kind \in Kinds, InLane(c, kind)'
        PROVE  Awaits(c, agent'[c], kind)
    <2>1. Awaits(c, agent[c], kind)
      BY <1>1, <1>8 DEF NothingNew, GatewayInv
    <2>2. agent[c].pc = "waiting"
      BY <2>1 DEF Awaits
    <2>3. c # a /\ c \notin K
      BY <1>4, <2>2
    <2> QED BY <1>7, <2>1, <2>3
  <1>9. ASSUME NEW c \in Callers
        PROVE  Bounded(c, agent'[c], abort'[c]) /\ Parent(c, agent'[c])
    <2>1. CASE c = a
      <3>1. Bounded(a, r, abort[a])
        BY AgentFacts DEF Bounded
      <3> QED BY <1>2, <1>7, <2>1, <3>1
    <2>2. CASE c \in K
      BY <1>5, <1>7, <2>2 DEF Bounded, Parent
    <2>3. CASE c # a /\ c \notin K
      BY <1>2, <1>7, <2>3, AgentFacts
    <2> QED BY <2>1, <2>2, <2>3
  <1>10. ASSUME NEW c \in Callers, NEW k \in Kids[c], agent'[k].pc # "idle"
         PROVE  k \in agent'[c].kids
    <2>1. k \in Callers
      BY GatewayAssumption
    <2>2. CASE c = a
      BY <1>3, <1>4, <1>7, <1>10, <2>1, <2>2
    <2>3. CASE c # a
      <3>1. k \notin K
        BY <2>3, GatewayAssumption
      <3>2. agent[k].pc # "idle"
        BY <1>7, <1>10, <2>1, <3>1
      <3>3. k \in agent[c].kids
        BY <3>2 DEF GatewayInv
      <3>4. c \notin K
        BY <1>4, <3>3, AgentFacts
      <3> QED BY <1>7, <2>3, <3>3, <3>4
    <2> QED BY <2>2, <2>3
  <1>11. \A c \in Callers : \A kind \in Kinds : InLane(c, kind)' => Awaits(c, agent[c], kind)'
    BY <1>8 DEF Awaits
  <1>12. \A c \in Callers : Bounded(c, agent[c], abort[c])' /\ Parent(c, agent[c])'
    BY <1>9 DEF Bounded, Parent
  <1>13. GatewayInv'
    BY <1>2, <1>6, <1>10, <1>11, <1>12 DEF GatewayInv, CountersOK
  <1> QED BY <1>1, <1>13 DEF Kept

LEMMA StartBatchStep ==
  ASSUME LaneInv, GatewayInv, NEW a \in Callers, StartBatch(a)
  PROVE  Kept
  <1>1. agent[a].pc = "calls" /\ UNCHANGED <<Counters, laneVars>>
    BY DEF StartBatch, At
  <1>2. PICK R \in SUBSET Kids[a] : \E units \in RequestsFor(R) :
          LET admitted == {k \in R : RequestSpawn(a, units[k])}
              others == OtherCalls(agent[a].calls) IN
          \E K \in SUBSET admitted :
            agent' = [StartKids(a, [k \in K |-> units[k]]) EXCEPT
              ![a].pc = IF K = {} THEN AfterCalls(others) ELSE "kids",
              ![a].calls = others,
              ![a].kids = K,
              ![a].exceeded = @ \/ admitted # R]
    BY DEF StartBatch
  <1>20. PICK units \in RequestsFor(R) :
          LET admitted == {k \in R : RequestSpawn(a, units[k])}
              others == OtherCalls(agent[a].calls) IN
          \E K \in SUBSET admitted :
            agent' = [StartKids(a, [k \in K |-> units[k]]) EXCEPT
              ![a].pc = IF K = {} THEN AfterCalls(others) ELSE "kids",
              ![a].calls = others,
              ![a].kids = K,
              ![a].exceeded = @ \/ admitted # R]
    BY <1>2
  <1>3. PICK admitted \in SUBSET R : admitted = {k \in R : RequestSpawn(a, units[k])}
    OBVIOUS
  <1>4. PICK others : others = OtherCalls(agent[a].calls)
    OBVIOUS
  <1>5. PICK K \in SUBSET admitted :
          agent' = [StartKids(a, [k \in K |-> units[k]]) EXCEPT
              ![a].pc = IF K = {} THEN AfterCalls(others) ELSE "kids",
              ![a].calls = others,
              ![a].kids = K,
              ![a].exceeded = @ \/ admitted # R]
    BY <1>3, <1>4, <1>20
  <1>6. PICK limit : limit = [k \in K |-> units[k]]
    OBVIOUS
  <1>7. K \in SUBSET Kids[a] /\ a \notin K /\ K \subseteq Callers
    BY GatewayAssumption
  <1>8. limit \in [K -> Nat] /\ DOMAIN limit = K
    <2>1. \A k \in R : units[k] \in Estimates[k] /\ Estimates[k] \subseteq Nat
      BY GatewayAssumption DEF RequestsFor
    <2> QED BY <1>6, <2>1
  <1>9. agent[a] \in AgentRec /\ others \in Seq(Calls)
    <2>1. agent[a] \in AgentRec /\ agent[a].calls \in Seq(Calls)
      BY AgentFacts DEF AgentRec
    <2> QED BY <1>4, <2>1, OtherCallsType
  <1>10. PICK pc : pc = IF K = {} THEN AfterCalls(others) ELSE "kids"
    OBVIOUS
  <1>11. /\ pc \in {"calls", "kids", "ack"} /\ (pc # "kids" => K = {})
         /\ pc = "calls" => others # <<>>
    BY <1>10, AfterCallsFacts
  <1>12. PICK r : r = [agent[a] EXCEPT !.pc = pc, !.calls = others, !.kids = K,
                                       !.exceeded = agent[a].exceeded \/ admitted # R]
    OBVIOUS
  <1>14. /\ r \in AgentRec /\ r.kids = K /\ r.late = agent[a].late /\ r.pc = pc
         /\ r.calls = others
    BY <1>7, <1>9, <1>11, <1>12 DEF AgentRec, Steps
  <1>15. Parent(a, r)
    BY <1>7, <1>11, <1>14 DEF Parent
  <1>16. PICK base : base = StartKids(a, limit)
    OBVIOUS
  <1>17. /\ base = [c \in Callers |-> IF c \in K THEN Fresh(limit[c]) ELSE agent[c]]
         /\ base[a] = agent[a]
    BY <1>7, <1>8, <1>16 DEF StartKids
  <1>18. agent' = [base EXCEPT ![a] = r]
    BY <1>5, <1>6, <1>10, <1>12, <1>16, <1>17
  <1>19. agent' = [c \in Callers |-> IF c = a THEN r
                                     ELSE IF c \in K THEN Fresh(limit[c]) ELSE agent[c]]
    BY <1>17, <1>18
  <1> QED BY <1>1, <1>7, <1>8, <1>11, <1>14, <1>15, <1>19, KidsStep

LEMMA DispatchOneStep ==
  ASSUME LaneInv, GatewayInv, NEW a \in Callers, agent[a].pc = "calls", DispatchOne(a)
  PROVE  Kept
  <1>1. UNCHANGED <<Counters, laneVars>>
    BY DEF DispatchOne
  <1>2. PICK k \in Kids[a] : \E units \in Estimates[k] :
          agent' = [StartKids(a, [x \in {k} |-> units]) EXCEPT
                      ![a].pc = "kids", ![a].kids = {k}, ![a].calls = Tail(@)]
    BY DEF DispatchOne
  <1>15. PICK units \in Estimates[k] :
           agent' = [StartKids(a, [x \in {k} |-> units]) EXCEPT
                       ![a].pc = "kids", ![a].kids = {k}, ![a].calls = Tail(@)]
    BY <1>2
  <1>3. k \in Callers /\ k # a /\ units \in Nat
    BY GatewayAssumption
  <1>4. PICK limit : limit = [x \in {k} |-> units]
    OBVIOUS
  <1>5. limit \in [{k} -> Nat] /\ DOMAIN limit = {k} /\ {k} \in SUBSET Kids[a]
    BY <1>3, <1>4
  <1>6. agent[a] \in AgentRec /\ agent[a].calls \in Seq(Calls) /\ agent[a].calls # <<>>
    BY AgentFacts DEF AgentRec, Parent
  <1>7. PICK rest : rest = Tail(agent[a].calls) /\ rest \in Seq(Calls)
    BY <1>6, TailType
  <1>8. PICK r : r = [agent[a] EXCEPT !.pc = "kids", !.kids = {k}, !.calls = rest]
    OBVIOUS
  <1>9. r \in AgentRec /\ r.kids = {k} /\ r.late = agent[a].late /\ r.pc = "kids"
    BY <1>3, <1>6, <1>7, <1>8 DEF AgentRec, Steps
  <1>10. Parent(a, r)
    BY <1>9 DEF Parent
  <1>11. PICK base : base = StartKids(a, limit)
    OBVIOUS
  <1>12. /\ base = [c \in Callers |-> IF c \in {k} THEN Fresh(limit[c]) ELSE agent[c]]
         /\ base[a] = agent[a]
    BY <1>3, <1>5, <1>11 DEF StartKids
  <1>13. agent' = [base EXCEPT ![a] = r]
    BY <1>4, <1>7, <1>8, <1>11, <1>12, <1>15
  <1>14. agent' = [c \in Callers |-> IF c = a THEN r
                                     ELSE IF c \in {k} THEN Fresh(limit[c]) ELSE agent[c]]
    BY <1>12, <1>13
  <1> QED BY <1>1, <1>5, <1>9, <1>10, <1>14, KidsStep

\* A child that returned becomes free, and a awaits the others.
LEMMA CollectKidStep ==
  ASSUME LaneInv, GatewayInv, NEW a \in Callers, NEW k \in Kids[a], CollectKid(a, k)
  PROVE  Kept
  <1>1. /\ agent[a].pc = "kids" /\ k \in agent[a].kids /\ agent[k].pc = "done"
        /\ UNCHANGED laneVars /\ k \in Callers /\ k # a
    BY GatewayAssumption DEF CollectKid, At
  <1>2. LaneInv' /\ NoneOvertaken /\ NothingNew
    BY <1>1, StillLane
  <1>3. PICK charged \in BOOLEAN, extra \in 0 .. ExtraUnits :
          LET units == IF charged THEN UsageUnits(k, extra) ELSE 0 IN
          /\ IF charged THEN UNCHANGED Counters ELSE Fault /\ extra = 0
          /\ agent' = [agent EXCEPT
               ![a].pc = IF agent[a].kids = {k} THEN AfterCalls(agent[a].calls) ELSE "kids",
               ![a].kids = @ \ {k},
               ![a].spawned = @ + units,
               ![a].unpriced = @ + (IF agent[k].limit = 0 THEN units ELSE 0),
               ![k] = Idle]
    BY DEF CollectKid
  <1>4. CountersOK /\ abort' = abort
    BY <1>3, FaultFacts, QuietFacts
  <1>5. agent[a] \in AgentRec /\ agent[k] \in AgentRec
    BY <1>1, AgentFacts
  <1>6. PICK units \in Nat : units = IF charged THEN UsageUnits(k, extra) ELSE 0
    <2>1. agent[k].turns \in Nat /\ agent[k].spawned \in Nat /\ extra \in Nat
      BY <1>5, GatewayAssumption DEF AgentRec
    <2>2. UsageUnits(k, extra) \in Nat
      BY <2>1 DEF UsageUnits
    <2> QED BY <2>2
  <1>7. PICK pc : pc = IF agent[a].kids = {k} THEN AfterCalls(agent[a].calls) ELSE "kids"
    OBVIOUS
  <1>8. PICK u \in Nat : u = IF agent[k].limit = 0 THEN units ELSE 0
    OBVIOUS
  <1>9. PICK r : r = [agent[a] EXCEPT !.pc = pc, !.kids = agent[a].kids \ {k},
                                      !.spawned = agent[a].spawned + units,
                                      !.unpriced = agent[a].unpriced + u]
    OBVIOUS
  <1>10. agent' = [agent EXCEPT ![a] = r, ![k] = Idle]
    BY <1>1, <1>3, <1>6, <1>7, <1>8, <1>9 DEF GatewayInv
  <1>11. /\ pc \in {"ack", "calls", "kids"} /\ (pc # "kids" => agent[a].kids = {k})
         /\ pc = "calls" => agent[a].calls # <<>>
    BY <1>7, AfterCallsFacts
  <1>12. /\ agent[a].spawned + units \in Nat /\ agent[a].unpriced + u \in Nat
         /\ agent[a].kids \in SUBSET Callers
    <2>1. agent[a].spawned \in Nat /\ agent[a].unpriced \in Nat /\ agent[a].kids \in SUBSET Callers
      BY <1>5 DEF AgentRec
    <2> QED BY <2>1
  <1>13. /\ r \in AgentRec /\ r.pc = pc /\ r.kids = agent[a].kids \ {k}
         /\ r.late = agent[a].late /\ r.calls = agent[a].calls
    BY <1>5, <1>9, <1>11, <1>12 DEF AgentRec, Steps
  <1>14. Idle \in AgentRec /\ Idle.pc = "idle" /\ Idle.late = 0 /\ Idle.kids = {}
    BY IdleFacts
  <1>15. /\ agent' \in [Callers -> AgentRec] /\ agent'[a] = r /\ agent'[k] = Idle
         /\ \A c \in Callers : c # a /\ c # k => agent'[c] = agent[c]
    BY <1>1, <1>10, <1>13, <1>14 DEF GatewayInv
  <1>16. agent[k].kids = {} /\ agent[a].kids \subseteq Kids[a]
    BY <1>1, AgentFacts DEF Parent
  <1>17. ASSUME NEW c \in Callers, NEW kind \in Kinds, InLane(c, kind)'
         PROVE  Awaits(c, agent'[c], kind)
    <2>1. Awaits(c, agent[c], kind)
      BY <1>2, <1>17 DEF NothingNew, GatewayInv
    <2>2. c # a /\ c # k
      BY <1>1, <2>1 DEF Awaits
    <2> QED BY <1>15, <2>1, <2>2
  <1>18. ASSUME NEW c \in Callers
         PROVE  Bounded(c, agent'[c], abort'[c]) /\ Parent(c, agent'[c])
    <2>1. CASE c = a
      <3>1. Bounded(a, r, abort[a])
        BY <1>1, <1>11, <1>13, AgentFacts DEF Bounded
      <3>2. Parent(a, r)
        BY <1>11, <1>13, <1>16 DEF Parent
      <3> QED BY <1>4, <1>15, <2>1, <3>1, <3>2
    <2>2. CASE c = k
      BY <1>14, <1>15, <2>2 DEF Bounded, Parent
    <2>3. CASE c # a /\ c # k
      BY <1>4, <1>15, <2>3, AgentFacts
    <2> QED BY <2>1, <2>2, <2>3
  <1>19. ASSUME NEW c \in Callers, NEW x \in Kids[c], agent'[x].pc # "idle"
         PROVE  x \in agent'[c].kids
    <2>1. x \in Callers /\ x # k
      BY <1>14, <1>15, <1>19, GatewayAssumption
    <2>2. agent[x].pc # "idle"
      BY <1>1, <1>15, <1>19, <2>1
    <2>3. x \in agent[c].kids
      BY <2>2 DEF GatewayInv
    <2> QED BY <1>13, <1>15, <1>16, <2>1, <2>3
  <1>20. \A c \in Callers : \A kind \in Kinds : InLane(c, kind)' => Awaits(c, agent[c], kind)'
    BY <1>17 DEF Awaits
  <1>21. \A c \in Callers : Bounded(c, agent[c], abort[c])' /\ Parent(c, agent[c])'
    BY <1>18 DEF Bounded, Parent
  <1>22. abort' \in [Callers -> BOOLEAN]
    BY <1>4 DEF GatewayInv
  <1>23. GatewayInv'
    BY <1>4, <1>15, <1>19, <1>20, <1>21, <1>22 DEF GatewayInv, CountersOK
  <1> QED BY <1>2, <1>23 DEF Kept

\* Agent a at the end of a call, of a turn or of the run goes on as r.
Onward(a, r) ==
  /\ r.late = agent[a].late /\ r.kids = agent[a].kids
  /\ r.pc \in {"calls", "ack", "loop", "final", "done"}
  /\ r.pc = "calls" => r.calls # <<>>
  /\ agent[a].pc = "final" => r.pc = "done"

\* A call that dispatches nothing leaves the other calls, or ends the turn.
LEMMA CallStep ==
  ASSUME LaneInv, GatewayInv, NEW a \in Callers, agent[a].pc \in {"calls", "ack", "final"},
         UNCHANGED laneVars, CountersOK, abort' = abort,
         NEW r, Moves(a, r), Onward(a, r)
  PROVE  Kept
  <1>1. LaneInv' /\ NoneOvertaken /\ NothingNew
    BY StillLane
  <1>2. /\ agent[a].kids = {} /\ agent[a].kids \subseteq r.kids
        /\ agent[a].pc \notin {"idle", "waiting"}
    BY AgentFacts DEF Onward
  <1>3. Bounded(a, r, abort[a])
    <2>1. agent[a].late > 0 => abort[a] \/ agent[a].pc = "final"
      BY AgentFacts DEF Bounded
    <2>2. r.late > 0 => abort[a] \/ r.pc \in {"final", "done"}
      BY <2>1 DEF Onward
    <2> QED BY <2>2, AgentFacts DEF Bounded, Onward
  <1>4. Parent(a, r)
    BY <1>2 DEF Parent, Onward
  <1> QED BY <1>1, <1>2, <1>3, <1>4, OutsideStep

LEMMA DispatchRefusedStep ==
  ASSUME LaneInv, GatewayInv, NEW a \in Callers, agent[a].pc = "calls", DispatchRefused(a)
  PROVE  Kept
  <1>1. UNCHANGED laneVars /\ CountersOK /\ abort' = abort
    BY QuietFacts DEF DispatchRefused
  <1>2. agent \in [Callers -> AgentRec] /\ agent[a] \in AgentRec
    BY DEF GatewayInv
  <1>3. agent' = [agent EXCEPT ![a].pc = "ack", ![a].result = "budget_exhausted",
                               ![a].exceeded = TRUE, ![a].calls = <<>>]
    BY DEF DispatchRefused
  <1>4. PICK none \in Seq(Calls) : none = <<>>
    BY EmptyCalls
  <1>5. PICK r : r = [agent[a] EXCEPT !.pc = "ack", !.result = "budget_exhausted",
                                      !.exceeded = TRUE, !.calls = none]
    OBVIOUS
  <1>6. /\ r \in AgentRec /\ r.pc = "ack" /\ r.late = agent[a].late
        /\ r.kids = agent[a].kids
    BY <1>2, <1>5 DEF AgentRec, Steps, Results
  <1>7. Moves(a, r)
    BY <1>2, <1>3, <1>4, <1>5, <1>6 DEF Moves
  <1>8. Onward(a, r)
    BY <1>6 DEF Onward
  <1> QED BY <1>1, <1>7, <1>8, CallStep

LEMMA FrameOnlyStep ==
  ASSUME LaneInv, GatewayInv, NEW a \in Callers, agent[a].pc = "calls", FrameOnly(a)
  PROVE  Kept
  <1>1. UNCHANGED laneVars /\ CountersOK /\ abort' = abort
    BY QuietFacts DEF FrameOnly
  <1>2. agent \in [Callers -> AgentRec] /\ agent[a] \in AgentRec
    BY DEF GatewayInv
  <1>3. agent[a].calls \in Seq(Calls) /\ agent[a].calls # <<>>
    BY <1>2, AgentFacts DEF AgentRec, Parent
  <1>4. PICK rest : rest = Tail(agent[a].calls) /\ rest \in Seq(Calls)
    BY <1>3, TailType
  <1>5. PICK pc : pc = AfterCalls(rest)
    OBVIOUS
  <1>6. pc \in {"ack", "calls"} /\ (pc = "calls" => rest # <<>>)
    BY <1>5, AfterCallsFacts
  <1>7. PICK r : r = [agent[a] EXCEPT !.calls = rest, !.pc = pc]
    OBVIOUS
  <1>8. /\ r \in AgentRec /\ r.pc = pc /\ r.late = agent[a].late
        /\ r.kids = agent[a].kids /\ r.calls = rest
    BY <1>2, <1>4, <1>6, <1>7 DEF AgentRec, Steps
  <1>9. Moves(a, r)
    BY <1>2, <1>4, <1>5, <1>7, <1>8 DEF Moves, FrameOnly
  <1>10. Onward(a, r)
    BY <1>6, <1>8 DEF Onward
  <1> QED BY <1>1, <1>9, <1>10, CallStep

LEMMA TerminalStep ==
  ASSUME LaneInv, GatewayInv, NEW a \in Callers, agent[a].pc = "calls",
         NEW result \in Results, Terminal(a, result), CountersOK, abort' = abort
  PROVE  Kept
  <1>1. UNCHANGED laneVars
    BY DEF Terminal
  <1>2. agent \in [Callers -> AgentRec] /\ agent[a] \in AgentRec
    BY DEF GatewayInv
  <1>3. PICK none \in Seq(Calls) : none = <<>>
    BY EmptyCalls
  <1>4. PICK r : r = [agent[a] EXCEPT !.pc = "ack", !.result = result, !.calls = none]
    OBVIOUS
  <1>5. r \in AgentRec /\ r.pc = "ack" /\ r.late = agent[a].late /\ r.kids = agent[a].kids
    BY <1>2, <1>4 DEF AgentRec, Steps
  <1>6. Moves(a, r)
    BY <1>2, <1>3, <1>4, <1>5 DEF Moves, Terminal
  <1>7. Onward(a, r)
    BY <1>5 DEF Onward
  <1> QED BY <1>1, <1>6, <1>7, CallStep

LEMMA HandleToolCallStep ==
  ASSUME LaneInv, GatewayInv, NEW a \in Callers, HandleToolCall(a)
  PROVE  Kept
  <1>1. agent[a].pc = "calls" /\ {"completed", "escalated", "error"} \subseteq Results
    BY DEF HandleToolCall, At, Results
  <1>2. CASE FrameOnly(a)
    BY <1>1, <1>2, FrameOnlyStep
  <1>3. CASE DispatchRefused(a)
    BY <1>1, <1>3, DispatchRefusedStep
  <1>4. CASE DispatchOne(a)
    BY <1>1, <1>4, DispatchOneStep
  <1>5. CASE Terminal(a, "completed") /\ UNCHANGED Counters
    BY <1>1, <1>5, QuietFacts, TerminalStep
  <1>6. CASE Terminal(a, "escalated") /\ UNCHANGED Counters
    BY <1>1, <1>6, QuietFacts, TerminalStep
  <1>7. CASE Terminal(a, "error") /\ Fault
    BY <1>1, <1>7, FaultFacts, TerminalStep
  <1> QED BY <1>2, <1>3, <1>4, <1>5, <1>6, <1>7 DEF HandleToolCall

--------------------------------------------------------------------------------
(* The end of the turn and of the run, and the environment.                    *)

LEMMA EndTurnStep ==
  ASSUME LaneInv, GatewayInv, NEW a \in Callers, EndTurn(a)
  PROVE  Kept
  <1>1. UNCHANGED laneVars /\ CountersOK /\ abort' = abort /\ agent[a].pc = "ack"
    BY QuietFacts DEF EndTurn, At
  <1>2. agent \in [Callers -> AgentRec] /\ agent[a] \in AgentRec
    BY DEF GatewayInv
  <1>3. PICK turns : turns = agent[a].turns + 1
    OBVIOUS
  <1>4. PICK result \in Results :
          agent' = [agent EXCEPT ![a].pc = IF result = "none" THEN "loop" ELSE "final",
                                 ![a].turns = turns, ![a].result = result]
    <2>1. agent[a].result \in Results /\ "budget_exhausted" \in Results
      BY <1>2 DEF AgentRec, Results
    <2> QED BY <1>3, <2>1 DEF EndTurn
  <1>5. turns \in Nat
    <2>1. agent[a].turns \in Nat
      BY <1>2 DEF AgentRec
    <2> QED BY <1>3, <2>1
  <1>6. PICK pc \in {"loop", "final"} : pc = IF result = "none" THEN "loop" ELSE "final"
    OBVIOUS
  <1>7. PICK r : r = [agent[a] EXCEPT !.pc = pc, !.turns = turns, !.result = result]
    OBVIOUS
  <1>8. r \in AgentRec /\ r.pc = pc /\ r.late = agent[a].late /\ r.kids = agent[a].kids
    BY <1>2, <1>5, <1>6, <1>7 DEF AgentRec, Steps
  <1>9. Moves(a, r)
    BY <1>2, <1>4, <1>6, <1>7, <1>8 DEF Moves
  <1>10. Onward(a, r)
    BY <1>1, <1>6, <1>8 DEF Onward
  <1> QED BY <1>1, <1>9, <1>10, CallStep

LEMMA AckFailedStep ==
  ASSUME LaneInv, GatewayInv, NEW a \in Callers, AckFailed(a)
  PROVE  Kept
  <1>1. LaneInv' /\ NoneOvertaken /\ NothingNew
    BY StillLane DEF AckFailed
  <1>2. CountersOK /\ abort' = abort
    BY FaultFacts DEF AckFailed
  <1>3. End(a, "error") /\ "error" \in Results /\ agent[a].pc = "ack"
    BY DEF AckFailed, Results, At
  <1> QED BY <1>1, <1>2, <1>3, EndStep

LEMMA FinalizeStep ==
  ASSUME LaneInv, GatewayInv, NEW a \in Callers, Finalize(a)
  PROVE  Kept
  <1>1. UNCHANGED laneVars /\ agent[a].pc = "final" /\ CountersOK /\ abort' = abort
    BY QuietFacts, FaultFacts DEF Finalize, At
  <1>2. agent \in [Callers -> AgentRec] /\ agent[a] \in AgentRec
    BY DEF GatewayInv
  <1>3. PICK result \in Results : Return(a, result)
    <2>1. agent[a].result \in Results /\ "error" \in Results
      BY <1>2 DEF AgentRec, Results
    <2> QED BY <2>1 DEF Finalize
  <1>4. CASE a \in Roots
    <2>1. Moves(a, Idle)
      BY <1>3, <1>4, IdleFacts DEF Moves, Return
    <2>2. LaneInv' /\ NoneOvertaken /\ NothingNew
      BY <1>1, StillLane
    <2>3. Bounded(a, Idle, abort[a]) /\ Parent(a, Idle)
      BY IdleFacts DEF Bounded, Parent
    <2>4. agent[a].kids \subseteq Idle.kids
      BY <1>1, AgentFacts
    <2> QED BY <1>1, <2>1, <2>2, <2>3, <2>4, OutsideStep
  <1>5. CASE a \notin Roots
    <2>1. PICK r : r = [agent[a] EXCEPT !.pc = "done", !.result = result]
      OBVIOUS
    <2>2. r \in AgentRec /\ r.pc = "done" /\ r.late = agent[a].late /\ r.kids = agent[a].kids
      BY <1>2, <2>1 DEF AgentRec, Steps
    <2>3. Moves(a, r)
      BY <1>2, <1>3, <1>5, <2>1, <2>2 DEF Moves, Return
    <2>4. Onward(a, r)
      BY <2>2 DEF Onward
    <2> QED BY <1>1, <2>3, <2>4, CallStep
  <1> QED BY <1>4, <1>5

LEMMA SendAbortStep ==
  ASSUME LaneInv, GatewayInv, NEW a \in Callers, SendAbort(a)
  PROVE  Kept
  <1>1. LaneInv' /\ NoneOvertaken /\ NothingNew
    BY StillLane DEF SendAbort
  <1>2. /\ abort' \in [Callers -> BOOLEAN] /\ abort'[a] = TRUE
        /\ \A c \in Callers \ {a} : abort'[c] = abort[c]
    BY DEF SendAbort, GatewayInv
  <1>3. CountersOK
    BY DEF CountersOK, SendAbort, Upset, GatewayInv
  <1>4. PICK r : r = agent[a]
    OBVIOUS
  <1>5. Moves(a, r)
    <2>1. agent' = agent /\ agent \in [Callers -> AgentRec]
      BY DEF SendAbort, GatewayInv
    <2> QED BY <1>4, <2>1 DEF Moves
  <1>6. Bounded(a, r, abort'[a])
    BY <1>2, <1>4, AgentFacts DEF Bounded
  <1>7. Parent(a, r) /\ agent[a].kids \subseteq r.kids
    BY <1>4, AgentFacts
  <1>8. \A c \in Callers : \A kind \in Kinds :
          InLane(c, kind)' => (c # a /\ InLane(c, kind)) \/ (c = a /\ Awaits(a, r, kind))
    BY <1>1, <1>4 DEF NothingNew, GatewayInv
  <1>9. agent[a].pc = "idle" /\ r.pc # "idle" => a \in Roots
    BY <1>4
  <1>10. GatewayInv'
    BY <1>2, <1>3, <1>5, <1>6, <1>7, <1>8, <1>9, MoveStep
  <1> QED BY <1>1, <1>10 DEF Kept

LEMMA VoiceCallBeginsStep ==
  ASSUME LaneInv, GatewayInv, VoiceCallBegins
  PROVE  Kept
  <1>1. PICK l \in Leases : AcquireLease(l)
    BY DEF VoiceCallBegins
  <1>2. LaneInv' /\ NoneOvertaken /\ NothingNew
    <2>1. UNCHANGED <<queue, active, wake>> /\ lease' \in Leases \cup {NoLease}
      BY <1>1 DEF AcquireLease
    <2> QED BY <2>1, LaneUnchanged
  <1>3. UNCHANGED <<agent, abort, runs>> /\ upsets' \in Nat
    BY DEF VoiceCallBegins, Upset, GatewayInv
  <1>4. \A c \in Callers : \A kind \in Kinds : InLane(c, kind)' => Awaits(c, agent[c], kind)'
    BY <1>2, <1>3 DEF GatewayInv, NothingNew, Awaits
  <1>5. GatewayInv'
    BY <1>3, <1>4 DEF GatewayInv, Bounded, Parent
  <1> QED BY <1>2, <1>5 DEF Kept

LEMMA VoiceCallEndsStep ==
  ASSUME LaneInv, GatewayInv, VoiceCallEnds
  PROVE  Kept
  <1>1. PICK l \in Leases : ReleaseLease(l)
    BY DEF VoiceCallEnds
  <1>2. /\ Schedule(queue, active) /\ lease' \in Leases \cup {NoLease} /\ wake' \subseteq Callers
        /\ UNCHANGED gatewayVars
    BY <1>1 DEF ReleaseLease, LaneInv, LaneTypeOK, VoiceCallEnds
  <1>3. LaneInv' /\ NoneOvertaken /\ NothingNew
    BY <1>2, WakeStep
  <1> QED BY <1>2, <1>3, LaneOnlyStep

LEMMA FinallyScheduleStep ==
  ASSUME LaneInv, GatewayInv, NEW a \in Callers, FinallySchedule(a)
  PROVE  Kept
  <1>1. /\ Schedule(queue, active) /\ lease' \in Leases \cup {NoLease} /\ wake' \subseteq Callers
        /\ UNCHANGED gatewayVars
    BY DEF FinallySchedule, WakeLane, LaneInv, LaneTypeOK
  <1>2. LaneInv' /\ NoneOvertaken /\ NothingNew
    BY <1>1, WakeStep
  <1> QED BY <1>1, <1>2, LaneOnlyStep

--------------------------------------------------------------------------------
(* The invariant and what follows from it.                                     *)

LEMMA InitInv ==
  ASSUME Init
  PROVE  LaneInv /\ GatewayInv
  <1>1. queue = <<>> /\ active = {} /\ lease = NoLease /\ wake = {}
    BY DEF Init, LaneInit
  <1>2. /\ agent = [a \in Callers |-> Idle] /\ abort = [a \in Callers |-> FALSE]
        /\ runs = [a \in Callers |-> 0] /\ upsets = 0
    BY DEF Init
  <1>3. DOMAIN queue = {} /\ queue \in Seq(LaneEntry)
    BY <1>1
  <1>4. LaneTypeOK
    BY <1>1, <1>3 DEF LaneTypeOK
  <1>5. Distinct(queue) /\ Ordered(queue) /\ Apart(queue, active)
    BY <1>3 DEF Distinct, Ordered, Apart
  <1>6. Slots(active) /\ LaneCapacity
    <2>1. IsFiniteSet({}) /\ Cardinality({}) = 0
      BY FS_EmptySet
    <2> QED BY <1>1, <2>1, LaneAssumption DEF Slots, LaneCapacity
  <1>7. LaneInv
    BY <1>1, <1>4, <1>5, <1>6 DEF LaneInv, NoLostWakeup
  <1>8. \A a \in Callers : agent[a] = Idle
    BY <1>2
  <1>9. agent \in [Callers -> AgentRec]
    BY <1>2, IdleFacts
  <1>10. \A a \in Callers : \A kind \in Kinds : ~InLane(a, kind)
    BY <1>1, <1>3 DEF InLane
  <1>11. \A a \in Callers : Bounded(a, agent[a], abort[a]) /\ Parent(a, agent[a])
    BY <1>8, IdleFacts DEF Bounded, Parent
  <1>12. \A a \in Callers : \A k \in Kids[a] : agent[k].pc = "idle"
    BY <1>8, IdleFacts, GatewayAssumption
  <1>13. GatewayInv
    BY <1>2, <1>9, <1>10, <1>11, <1>12 DEF GatewayInv
  <1> QED BY <1>7, <1>13

LEMMA NextInv ==
  ASSUME LaneInv, GatewayInv, [Next]_vars
  PROVE  Kept
  <1>1. ASSUME NEW a \in Callers, AgentStep(a)
        PROVE  Kept
    <2>1. ASSUME NEW k \in Kids[a], CollectKid(a, k)
          PROVE  Kept
      BY <2>1, CollectKidStep
    <2> QED BY <1>1, <2>1, DrainStep, ModelStep, NoProviderStep, AnsweredStep, CallFailedStep,
               CallPreemptedStep, StreamBrokeStep, StartBatchStep, HandleToolCallStep,
               EndTurnStep, AckFailedStep, FinalizeStep
            DEF AgentStep
  <1>2. ASSUME NEW a \in Callers, StartRun(a) \/ SendAbort(a) \/ FinallySchedule(a)
        PROVE  Kept
    BY <1>2, StartRunStep, SendAbortStep, FinallyScheduleStep
  <1>3. CASE VoiceCallBegins \/ VoiceCallEnds
    BY <1>3, VoiceCallBeginsStep, VoiceCallEndsStep
  <1>4. CASE UNCHANGED vars
    <2>1. UNCHANGED laneVars /\ UNCHANGED gatewayVars
      BY <1>4 DEF vars
    <2>2. LaneInv' /\ NoneOvertaken /\ NothingNew
      BY <2>1, StillLane
    <2> QED BY <2>1, <2>2, LaneOnlyStep
  <1> QED BY <1>1, <1>2, <1>3, <1>4 DEF Next

\* The invariant holds throughout: the queue is sorted, a caller is in the lane at
\* most once and only while it waits, and an agent awaits exactly the children it
\* dispatched.
THEOREM AgentInvariant == Spec => [](LaneInv /\ GatewayInv)
  <1>1. Init => LaneInv /\ GatewayInv
    BY InitInv
  <1>2. LaneInv /\ GatewayInv /\ [Next]_vars => (LaneInv /\ GatewayInv)'
    BY NextInv DEF Kept
  <1> QED BY <1>1, <1>2, PTL DEF Spec

\* The state keeps its shape (the lane's entries and the agents' run() frames).
THEOREM TypeCorrect == Spec => []TypeOK
  <1>1. LaneInv /\ GatewayInv => TypeOK
    BY DEF LaneInv, GatewayInv, TypeOK, AgentRec
  <1> QED BY <1>1, AgentInvariant, PTL

\* schedule() never lets more calls run than the lane has slots, whichever of
\* submit, finally, stream end and lease release called it.
THEOREM LaneCapacityCorrect == Spec => []LaneCapacity
  <1>1. LaneInv /\ GatewayInv => LaneCapacity
    BY DEF LaneInv
  <1> QED BY <1>1, AgentInvariant, PTL

\* No call waits in a lane with a free slot unless the schedule() of a finally
\* block is still to come.
THEOREM WakeupCorrect == Spec => []NoLostWakeup
  <1>1. LaneInv /\ GatewayInv => NoLostWakeup
    BY DEF LaneInv
  <1> QED BY <1>1, AgentInvariant, PTL

\* After an abort reached its inbox a run makes at most the call it was about to
\* make, and a stream its fallback.
THEOREM AbortCorrect == Spec => []AbortBoundsWork
  <1>1. LaneInv /\ GatewayInv => AbortBoundsWork
    BY DEF GatewayInv, Bounded, AbortBoundsWork
  <1> QED BY <1>1, AgentInvariant, PTL

\* The comparator of queueEntry and the order of schedule(): an interactive call is
\* passed over only by one that was preempted before.
THEOREM OvertakingCorrect == Spec => NoOvertaking
  <1>1. LaneInv /\ GatewayInv /\ [Next]_vars
          => [\A x \in active' :
                /\ \A y \in active : y.id # x.id
                /\ \E i \in DOMAIN queue' : Rank[queue'[i].id] = Interactive
                => \/ Rank[x.id] = Interactive
                   \/ \E j \in DOMAIN queue : queue[j].id = x.id /\ queue[j].mode = "reinsert"
             ]_laneVars
    BY NextInv DEF Kept, NoneOvertaken
  <1> QED BY <1>1, AgentInvariant, PTL DEF Spec, NoOvertaking

================================================================================
