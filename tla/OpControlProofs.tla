--------------------------- MODULE OpControlProofs ---------------------------
(***************************************************************************)
(* Proofs about operator control, for any set of submissions and any       *)
(* commands.  The invariant is the typing, the coherence of the scope lock *)
(* with the program points, and the facts each submission carries along    *)
(* its path (it has an envelope once received; a late replay has its id in *)
(* the replay store; the witness trail matches the program point).         *)
(***************************************************************************)
EXTENDS OpControl, WellFoundedInduction, TLAPS

\* A submission that was received carries an envelope.
EnvelopeInv == \A s \in Submission : pc[s] # "idle" => env[s] \in Envelope

\* A late replay never passes the lookup of its command id.
ReplayInv ==
    \A s \in Submission : replayed[s] =>
        /\ env[s] \in Envelope
        /\ env[s].id \in usedIds
        /\ \/ pc[s] = "checkId"
           \/ pc[s] = "done" /\ result[s] = "rejected"

\* A submission has a result only when it has returned.
ResultInv == \A s \in Submission : result[s] # "none" => pc[s] = "done"

IInv == TypeOK /\ EnvelopeInv /\ ScopeLockCoherent

\* Ranks are numbers, so strengths can be compared (arbitration.ts).
LEMMA PrecedenceType ==
    \A a \in ControlAction : getPrecedence(a) \in Nat
  BY DEF ControlAction, getPrecedence, PRECEDENCE_ORDER

\* The scope of every command is one the lock is keyed by (resolveScope).
LEMMA KeyType ==
    \A e \in Envelope : resolveScope(e) \in ScopeKey
  BY DEF ScopeKey

\* filter() of a queue without one of its positions: what remains is the rest
\* of the queue, in order, and the queue stays a sequence of submissions.
LEMMA WithoutType ==
    ASSUME NEW q \in Seq(Submission), NEW n \in DOMAIN q
    PROVE  /\ Without(q, n) \in Seq(Submission)
           /\ DOMAIN Without(q, n) = 1 .. Len(q) - 1
           /\ \A j \in 1 .. Len(q) - 1 :
                 Without(q, n)[j] = IF j < n THEN q[j] ELSE q[j + 1]
  <1> DEFINE w == [j \in 1 .. Len(q) - 1 |-> IF j < n THEN q[j] ELSE q[j + 1]]
  <1>1. Len(q) \in Nat /\ DOMAIN q = 1 .. Len(q) /\ n \in 1 .. Len(q)
    OBVIOUS
  <1>2. \A j \in 1 .. Len(q) - 1 :
           (IF j < n THEN q[j] ELSE q[j + 1]) \in Submission
    BY <1>1
  <1>3. w \in [1 .. Len(q) - 1 -> Submission]
    BY <1>2
  <1>4. Len(q) - 1 \in Nat
    BY <1>1
  <1>5. w \in Seq(Submission)
    BY <1>3, <1>4
  <1> QED
    BY <1>5 DEF Without

\* A nonempty set of numbers has a least element.
LEMMA LeastElement ==
    ASSUME NEW T \in SUBSET Nat, T # {}
    PROVE  \E x \in T : \A y \in T : x <= y
  <1>1. PICK x \in T : \A y \in T : ~ (<<y, x>> \in OpToRel(<, Nat))
    BY NatLessThanWellFounded, WFMin
  <1>2. \A y \in T : ~ (y < x)
    BY <1>1 DEF OpToRel
  <1> QED
    BY <1>2

\* release() finds a waiter in a nonempty queue, the strongest and among the
\* equally strong the first.
LEMMA NextWaiterPicks ==
    ASSUME NEW q \in Seq(Submission), q # << >>,
           \A i \in DOMAIN q : env[q[i]] \in Envelope
    PROVE  /\ NextWaiter(q) \in DOMAIN q
           /\ \A j \in DOMAIN q :
                 LET ri == getPrecedence(Action(q[NextWaiter(q)]))
                     rj == getPrecedence(Action(q[j]))
                 IN  ri < rj \/ (ri = rj /\ NextWaiter(q) <= j)
  <1> DEFINE rank(i) == getPrecedence(Action(q[i]))
             R == { rank(i) : i \in DOMAIN q }
  <1>1. \A i \in DOMAIN q : rank(i) \in Nat
    BY PrecedenceType, OpControlAssumption DEF Action
  <1>2. DOMAIN q = 1 .. Len(q) /\ DOMAIN q # {} /\ DOMAIN q \subseteq Nat
    OBVIOUS
  <1>3. PICK r \in R : \A x \in R : r <= x
    <2> HIDE DEF rank
    <2> QED BY <1>1, <1>2, LeastElement
  <1> DEFINE I == { i \in DOMAIN q : rank(i) = r }
  <1>4. PICK n \in I : \A i \in I : n <= i
    <2> HIDE DEF rank
    <2>1. I # {} /\ I \in SUBSET Nat
      BY <1>2, <1>3
    <2> QED BY <2>1, LeastElement
  <1>5. \A j \in DOMAIN q : rank(n) < rank(j) \/ (rank(n) = rank(j) /\ n <= j)
    <2> HIDE DEF rank
    <2> SUFFICES ASSUME NEW j \in DOMAIN q
                 PROVE  rank(n) < rank(j) \/ (rank(n) = rank(j) /\ n <= j)
      OBVIOUS
    <2>1. rank(n) = r /\ rank(n) \in Nat /\ rank(j) \in Nat
      BY <1>1
    <2>2. r <= rank(j)
      BY <1>3
    <2>3. rank(j) = r => n <= j
      BY <1>4
    <2> QED BY <2>1, <2>2, <2>3
  <1>6. n \in DOMAIN q
    OBVIOUS
  <1> QED
    BY <1>5, <1>6 DEF NextWaiter

\* The scope lock stays coherent over a step that leaves it alone and moves no
\* submission in or out of the lock or the queue.
LEMMA LockFrame ==
    ASSUME ScopeLockCoherent, TypeOK,
           UNCHANGED lockVars,
           \A t \in Submission :
               /\ pc'[t] \in Critical <=> pc[t] \in Critical
               /\ pc'[t] = "waiting" <=> pc[t] = "waiting"
               /\ env'[t] = env[t] \/ pc[t] = "idle"
    PROVE  ScopeLockCoherent'
  <1>1. \A t \in Submission : pc[t] \in Critical \/ pc[t] = "waiting" =>
           Key(t)' = Key(t)
    BY DEF Critical, Key
  <1>2. \A k \in ScopeKey : holder[k] # None => holder[k] \in Submission
    BY DEF TypeOK
  <1>3. \A k \in ScopeKey : \A i \in DOMAIN waiters[k] : waiters[k][i] \in Submission
    BY DEF TypeOK
  <1>4. CriticalHolds'
    BY <1>1 DEF ScopeLockCoherent, CriticalHolds, lockVars
  <1>5. HolderCritical'
    BY <1>1, <1>2 DEF ScopeLockCoherent, HolderCritical, lockVars
  <1>6. WaiterQueued'
    BY <1>1 DEF ScopeLockCoherent, WaiterQueued, lockVars
  <1>7. QueueWaits'
    BY <1>1, <1>3 DEF ScopeLockCoherent, QueueWaits, lockVars
  <1>8. FreeIsEmpty'
    BY DEF ScopeLockCoherent, FreeIsEmpty, lockVars
  <1> QED
    BY <1>4, <1>5, <1>6, <1>7, <1>8 DEF ScopeLockCoherent

\* acquire() keeps the scope lock coherent.
LEMMA AcquireCoherent ==
    ASSUME IInv, NEW s \in Submission, Acquire(s)
    PROVE  ScopeLockCoherent'
  <1> USE DEF Goto
  <1> DEFINE k == Key(s)
  <1>1. /\ pc[s] = "arbitrate" /\ env[s] \in Envelope /\ k \in ScopeKey
        /\ UNCHANGED env
    BY KeyType DEF IInv, EnvelopeInv, Acquire, Key
  <1>2. \A t \in Submission : Key(t)' = Key(t)
    BY <1>1 DEF Key
  <1>3. \A x \in ScopeKey : holder[x] # None => holder[x] \in Submission
    BY DEF IInv, TypeOK
  <1>4. \A x \in ScopeKey : waiters[x] \in Seq(Submission)
    BY DEF IInv, TypeOK
  <1>5. pc \in [Submission -> Point] /\ holder \in [ScopeKey -> Submission \cup {None}]
        /\ waiters \in [ScopeKey -> Seq(Submission)] /\ s # None
    BY OpControlAssumption DEF IInv, TypeOK
  <1>6. CASE /\ holder[k] = None
             /\ holder' = [holder EXCEPT ![k] = s]
             /\ pc' = [pc EXCEPT ![s] = "markId"]
             /\ UNCHANGED waiters
    <2>1. waiters[k] = << >>
      BY <1>1, <1>6 DEF IInv, ScopeLockCoherent, FreeIsEmpty
    <2>2. CriticalHolds'
      BY <1>1, <1>2, <1>5, <1>6, OpControlAssumption
      DEF IInv, ScopeLockCoherent, CriticalHolds, Critical
    <2>3. HolderCritical'
      BY <1>1, <1>2, <1>3, <1>5, <1>6 DEF IInv, ScopeLockCoherent, HolderCritical, Critical
    <2>4. WaiterQueued'
      BY <1>1, <1>2, <1>5, <1>6 DEF IInv, ScopeLockCoherent, WaiterQueued
    <2>5. QueueWaits'
      BY <1>1, <1>2, <1>4, <1>5, <1>6 DEF IInv, ScopeLockCoherent, QueueWaits
    <2>6. FreeIsEmpty'
      BY <1>1, <1>5, <1>6 DEF IInv, ScopeLockCoherent, FreeIsEmpty
    <2> QED BY <2>2, <2>3, <2>4, <2>5, <2>6 DEF ScopeLockCoherent
  <1>7. CASE Return(s, "conflict") /\ UNCHANGED lockVars
    <2>1. ScopeLockCoherent /\ TypeOK
      BY DEF IInv
    <2>2. \A t \in Submission :
             /\ pc'[t] \in Critical <=> pc[t] \in Critical
             /\ pc'[t] = "waiting" <=> pc[t] = "waiting"
             /\ env'[t] = env[t] \/ pc[t] = "idle"
      BY <1>1, <1>5, <1>7 DEF Return, Critical
    <2> QED BY <1>7, <2>1, <2>2, LockFrame
  <1>8. CASE /\ holder[k] # None
             /\ waiters' = [waiters EXCEPT ![k] = Append(@, s)]
             /\ pc' = [pc EXCEPT ![s] = "waiting"]
             /\ UNCHANGED holder
    <2>1. CriticalHolds'
      BY <1>1, <1>2, <1>5, <1>8 DEF IInv, ScopeLockCoherent, CriticalHolds, Critical
    <2>2. HolderCritical'
      BY <1>1, <1>2, <1>3, <1>5, <1>8 DEF IInv, ScopeLockCoherent, HolderCritical, Critical
    <2>3. /\ waiters'[k] = Append(waiters[k], s)
          /\ \A x \in ScopeKey : x # k => waiters'[x] = waiters[x]
      BY <1>1, <1>5, <1>8
    <2>4. /\ DOMAIN waiters'[k] = 1 .. Len(waiters[k]) + 1
          /\ DOMAIN waiters[k] = 1 .. Len(waiters[k])
          /\ Len(waiters[k]) \in Nat
          /\ waiters'[k][Len(waiters[k]) + 1] = s
          /\ \A i \in DOMAIN waiters[k] : waiters'[k][i] = waiters[k][i]
      BY <1>1, <1>4, <2>3
    <2>5. WaiterQueued'
      <3> SUFFICES ASSUME NEW t \in Submission, pc'[t] = "waiting"
                   PROVE  \E i \in DOMAIN waiters'[Key(t)] : waiters'[Key(t)][i] = t
        BY <1>2 DEF WaiterQueued
      <3>1. CASE t = s
        BY <3>1, <2>4
      <3>2. CASE t # s
        <4>1. pc[t] = "waiting"
          BY <3>2, <1>5, <1>8
        <4>2. PICK i \in DOMAIN waiters[Key(t)] : waiters[Key(t)][i] = t
          BY <4>1 DEF IInv, ScopeLockCoherent, WaiterQueued
        <4>3. Key(t) \in ScopeKey
          BY <4>1, KeyType DEF IInv, EnvelopeInv, Key
        <4> QED BY <4>2, <4>3, <2>3, <2>4
      <3> QED BY <3>1, <3>2
    <2>6. \A i \in DOMAIN waiters[k] : waiters[k][i] # s
      BY <1>1 DEF IInv, ScopeLockCoherent, QueueWaits
    <2>7. QueueWaits'
      <3> SUFFICES ASSUME NEW x \in ScopeKey, NEW i \in DOMAIN waiters'[x]
                   PROVE  /\ pc'[waiters'[x][i]] = "waiting"
                          /\ resolveScope(env'[waiters'[x][i]]) = x
                          /\ \A j \in DOMAIN waiters'[x] :
                                waiters'[x][i] = waiters'[x][j] => i = j
        BY DEF QueueWaits, Key
      <3>1. \A m \in DOMAIN waiters[x] :
               /\ waiters[x][m] \in Submission
               /\ pc[waiters[x][m]] = "waiting"
               /\ resolveScope(env'[waiters[x][m]]) = x
               /\ \A j \in DOMAIN waiters[x] : waiters[x][m] = waiters[x][j] => m = j
        BY <1>1, <1>4 DEF IInv, ScopeLockCoherent, QueueWaits, Key
      <3>2. CASE x # k
        BY <3>1, <3>2, <2>3, <1>1, <1>2, <1>5, <1>8
      <3>3. CASE x = k
        <4>1. CASE i = Len(waiters[k]) + 1
          BY <3>3, <4>1, <2>4, <2>6, <1>1, <1>5, <1>8 DEF Key
        <4>2. CASE i \in DOMAIN waiters[k]
          BY <3>1, <3>3, <4>2, <2>4, <2>6, <1>1, <1>2, <1>5, <1>8
        <4> QED BY <4>1, <4>2, <3>3, <2>4
      <3> QED BY <3>2, <3>3
    <2>8. FreeIsEmpty'
      BY <1>1, <1>5, <1>8, <2>3 DEF IInv, ScopeLockCoherent, FreeIsEmpty
    <2> QED BY <2>1, <2>2, <2>5, <2>7, <2>8 DEF ScopeLockCoherent
  <1> QED
    BY <1>6, <1>7, <1>8 DEF Acquire

\* release() keeps the scope lock coherent and hands it to a waiter.
LEMMA ReleaseCoherent ==
    ASSUME IInv, NEW s \in Submission, NEW r \in Result,
           pc[s] \in Critical, ReturnAndRelease(s, r), UNCHANGED env
    PROVE  /\ ScopeLockCoherent'
           /\ holder' \in [ScopeKey -> Submission \cup {None}]
           /\ waiters' \in [ScopeKey -> Seq(Submission)]
           /\ pc' \in [Submission -> Point]
           /\ \A t \in Submission : pc'[t] # pc[t] => pc[t] # "idle"
           /\ \A t \in Submission : t # s =>
                 pc'[t] = pc[t] \/ (pc[t] = "waiting" /\ pc'[t] = "markId")
           /\ pc'[s] = "done"
  <1> DEFINE k == Key(s)
             q == waiters[k]
             n == NextWaiter(q)
  <1>1. env[s] \in Envelope /\ k \in ScopeKey /\ holder[k] = s
    BY KeyType DEF IInv, EnvelopeInv, Critical, Key, ScopeLockCoherent, CriticalHolds
  <1>2. /\ pc \in [Submission -> Point]
        /\ holder \in [ScopeKey -> Submission \cup {None}]
        /\ waiters \in [ScopeKey -> Seq(Submission)]
        /\ q \in Seq(Submission)
        /\ None \notin Submission
    BY <1>1, OpControlAssumption DEF IInv, TypeOK
  <1>3. \A x \in ScopeKey : \A i \in DOMAIN waiters[x] :
           /\ waiters[x][i] \in Submission
           /\ pc[waiters[x][i]] = "waiting"
           /\ resolveScope(env[waiters[x][i]]) = x
           /\ \A j \in DOMAIN waiters[x] : waiters[x][i] = waiters[x][j] => i = j
    BY <1>2 DEF IInv, ScopeLockCoherent, QueueWaits, Key
  <1>4. \A i \in DOMAIN q : env[q[i]] \in Envelope
    BY <1>1, <1>3 DEF IInv, EnvelopeInv
  <1>5. \A t \in Submission : pc[t] \in Critical /\ resolveScope(env[t]) = k => t = s
    BY <1>1 DEF IInv, ScopeLockCoherent, CriticalHolds, Key
  <1>6. \A t \in Submission : pc[t] \in Critical \/ pc[t] = "waiting" =>
           resolveScope(env[t]) \in ScopeKey
    BY KeyType DEF IInv, EnvelopeInv, Critical
  <1>7. CASE /\ q = << >>
             /\ holder' = [holder EXCEPT ![k] = None]
             /\ pc' = [pc EXCEPT ![s] = "done"]
             /\ UNCHANGED waiters
    <2>1. CriticalHolds'
      BY <1>1, <1>2, <1>5, <1>6, <1>7
      DEF IInv, ScopeLockCoherent, CriticalHolds, Critical, Key
    <2>2. HolderCritical'
      BY <1>1, <1>2, <1>7 DEF IInv, ScopeLockCoherent, HolderCritical, Key
    <2>3. WaiterQueued'
      BY <1>1, <1>2, <1>7 DEF IInv, ScopeLockCoherent, WaiterQueued, Key
    <2>4. QueueWaits'
      BY <1>1, <1>2, <1>3, <1>7 DEF QueueWaits, Key, Critical
    <2>5. FreeIsEmpty'
      BY <1>1, <1>2, <1>7 DEF IInv, ScopeLockCoherent, FreeIsEmpty
    <2> QED
      BY <1>1, <1>2, <1>7, <2>1, <2>2, <2>3, <2>4, <2>5
      DEF ScopeLockCoherent, Point, Critical
  <1>8. CASE /\ q # << >>
             /\ holder' = [holder EXCEPT ![k] = q[n]]
             /\ waiters' = [waiters EXCEPT ![k] = Without(q, n)]
             /\ pc' = [pc EXCEPT ![s] = "done", ![q[n]] = "markId"]
    <2> DEFINE w == Without(q, n)
    <2>1. n \in DOMAIN q
      BY <1>2, <1>4, <1>8, NextWaiterPicks
    <2>2. /\ w \in Seq(Submission)
          /\ DOMAIN w = 1 .. Len(q) - 1
          /\ \A j \in 1 .. Len(q) - 1 : w[j] = IF j < n THEN q[j] ELSE q[j + 1]
      BY <1>2, <2>1, WithoutType
    <2>3. DOMAIN q = 1 .. Len(q) /\ Len(q) \in Nat
      BY <1>2
    <2> DEFINE v == q[n]
    <2>4. /\ v \in Submission /\ pc[v] = "waiting" /\ v # s
          /\ resolveScope(env[v]) = k
      BY <1>1, <1>3, <2>1 DEF Critical
    <2> HIDE DEF v, w, n, q, k
    <2>5. /\ holder' = [holder EXCEPT ![k] = v]
          /\ waiters' = [waiters EXCEPT ![k] = w]
          /\ pc' = [pc EXCEPT ![s] = "done", ![v] = "markId"]
      BY <1>8 DEF v, w
    <2>6. /\ pc'[s] = "done" /\ pc'[v] = "markId"
          /\ \A t \in Submission : t # s /\ t # v => pc'[t] = pc[t]
          /\ pc' \in [Submission -> Point]
      BY <1>2, <2>4, <2>5 DEF Point, Critical
    <2>7. /\ waiters' \in [ScopeKey -> Seq(Submission)]
          /\ holder' \in [ScopeKey -> Submission \cup {None}]
          /\ waiters'[k] = w /\ holder'[k] = v
          /\ \A x \in ScopeKey : x # k =>
                waiters'[x] = waiters[x] /\ holder'[x] = holder[x]
      BY <1>1, <1>2, <2>2, <2>4, <2>5
    <2>8. \A j \in DOMAIN w : \E i \in DOMAIN q :
             /\ w[j] = q[i] /\ i # n
             /\ i = IF j < n THEN j ELSE j + 1
      BY <2>1, <2>2, <2>3
    <2>9. \A i \in DOMAIN q : i # n => \E j \in DOMAIN w : w[j] = q[i]
      <3> SUFFICES ASSUME NEW i \in DOMAIN q, i # n
                   PROVE  \E j \in DOMAIN w : w[j] = q[i]
        OBVIOUS
      <3>1. CASE i < n
        <4>1. i \in DOMAIN w /\ w[i] = q[i]
          BY <2>1, <2>2, <2>3, <3>1
        <4> QED BY <4>1
      <3>2. CASE i > n
        <4>1. i - 1 \in DOMAIN w /\ w[i - 1] = q[i]
          BY <2>1, <2>2, <2>3, <3>2
        <4> QED BY <4>1
      <3> QED BY <2>1, <2>3, <3>1, <3>2
    <2>10. CriticalHolds'
      <3> SUFFICES ASSUME NEW t \in Submission, pc'[t] \in Critical
                   PROVE  holder'[resolveScope(env[t])] = t
        BY DEF CriticalHolds, Key
      <3>1. CASE t = v
        BY <3>1, <2>4, <2>7
      <3>2. CASE t # v
        <4>1. t # s /\ pc[t] \in Critical
          BY <3>2, <2>6 DEF Critical
        <4>2. resolveScope(env[t]) # k /\ resolveScope(env[t]) \in ScopeKey
          BY <4>1, <1>5, <1>6
        <4>3. holder[resolveScope(env[t])] = t
          BY <4>1 DEF IInv, ScopeLockCoherent, CriticalHolds, Key
        <4> QED BY <4>2, <4>3, <2>7
      <3> QED BY <3>1, <3>2
    <2>11. HolderCritical'
      <3> SUFFICES ASSUME NEW x \in ScopeKey, holder'[x] # None
                   PROVE  /\ pc'[holder'[x]] \in Critical
                          /\ resolveScope(env[holder'[x]]) = x
        BY DEF HolderCritical, Key
      <3>1. CASE x = k
        BY <3>1, <2>4, <2>6, <2>7 DEF Critical
      <3>2. CASE x # k
        <4>1. /\ holder[x] \in Submission
              /\ pc[holder[x]] \in Critical
              /\ resolveScope(env[holder[x]]) = x
          BY <1>2, <2>7, <3>2 DEF IInv, ScopeLockCoherent, HolderCritical, Key
        <4>2. holder[x] # s /\ holder[x] # v
          BY <4>1, <3>2, <2>4 DEF k, Key, Critical
        <4> QED BY <4>1, <4>2, <3>2, <2>6, <2>7
      <3> QED BY <3>1, <3>2
    <2>12. WaiterQueued'
      <3> SUFFICES ASSUME NEW t \in Submission, pc'[t] = "waiting"
                   PROVE  \E j \in DOMAIN waiters'[resolveScope(env[t])] :
                             waiters'[resolveScope(env[t])][j] = t
        BY DEF WaiterQueued, Key
      <3>1. t # s /\ t # v /\ pc[t] = "waiting"
        BY <2>6
      <3>2. PICK i \in DOMAIN waiters[resolveScope(env[t])] :
               waiters[resolveScope(env[t])][i] = t
        BY <3>1 DEF IInv, ScopeLockCoherent, WaiterQueued, Key
      <3>3. resolveScope(env[t]) \in ScopeKey
        BY <3>1, <1>6
      <3>4. CASE resolveScope(env[t]) = k
        <4>1. i \in DOMAIN q /\ q[i] = t /\ i # n
          BY <3>1, <3>2, <3>4 DEF q, v
        <4> QED BY <4>1, <3>4, <2>7, <2>9
      <3>5. CASE resolveScope(env[t]) # k
        BY <3>2, <3>3, <3>5, <2>7
      <3> QED BY <3>4, <3>5
    <2>13. QueueWaits'
      <3> SUFFICES ASSUME NEW x \in ScopeKey, NEW i \in DOMAIN waiters'[x]
                   PROVE  /\ pc'[waiters'[x][i]] = "waiting"
                          /\ resolveScope(env[waiters'[x][i]]) = x
                          /\ \A j \in DOMAIN waiters'[x] :
                                waiters'[x][i] = waiters'[x][j] => i = j
        BY DEF QueueWaits, Key
      <3>1. CASE x # k
        <4>1. /\ waiters'[x] = waiters[x] /\ waiters[x][i] \in Submission
              /\ pc[waiters[x][i]] = "waiting"
              /\ resolveScope(env[waiters[x][i]]) = x
              /\ \A j \in DOMAIN waiters[x] : waiters[x][i] = waiters[x][j] => i = j
          BY <3>1, <1>3, <2>7
        <4>2. waiters[x][i] # v /\ waiters[x][i] # s
          BY <4>1, <3>1, <2>4 DEF Critical
        <4> QED BY <4>1, <4>2, <2>6
      <3>2. CASE x = k
        <4>1. \A m \in DOMAIN q :
                 /\ q[m] \in Submission
                 /\ pc[q[m]] = "waiting"
                 /\ resolveScope(env[q[m]]) = k
                 /\ \A j \in DOMAIN q : q[m] = q[j] => m = j
          BY <1>1, <1>3 DEF q
        <4>2. i \in DOMAIN w /\ waiters'[x] = w
          BY <3>2, <2>7
        <4>3. PICK m \in DOMAIN q : /\ w[i] = q[m] /\ m # n
                                    /\ m = IF i < n THEN i ELSE i + 1
          BY <4>2, <2>8
        <4>4. q[m] # v /\ q[m] # s
          BY <4>1, <4>3, <2>1 DEF v, Critical
        <4>5. pc'[w[i]] = "waiting" /\ resolveScope(env[w[i]]) = x
          BY <4>1, <4>3, <4>4, <3>2, <2>6
        <4>6. ASSUME NEW j \in DOMAIN w, w[i] = w[j] PROVE i = j
          <5>1. PICK mj \in DOMAIN q : /\ w[j] = q[mj]
                                       /\ mj = IF j < n THEN j ELSE j + 1
            BY <2>8
          <5>2. m = mj
            BY <4>1, <4>3, <4>6, <5>1
          <5> QED BY <5>1, <5>2, <4>2, <4>3, <2>1, <2>2, <2>3
        <4> QED BY <4>2, <4>5, <4>6
      <3> QED BY <3>1, <3>2
    <2>14. FreeIsEmpty'
      BY <1>2, <2>4, <2>7 DEF IInv, ScopeLockCoherent, FreeIsEmpty
    <2> QED
      BY <2>4, <2>6, <2>7, <2>10, <2>11, <2>12, <2>13, <2>14
      DEF ScopeLockCoherent, Critical
  <1> QED
    BY <1>7, <1>8 DEF ReturnAndRelease

\* A step that leaves the lock alone keeps the invariant when it keeps the types
\* and moves no submission in or out of the lock or the queue.
LEMMA FrameIInv ==
    ASSUME IInv, TypeOK', UNCHANGED lockVars,
           \A t \in Submission :
               /\ pc'[t] \in Critical <=> pc[t] \in Critical
               /\ pc'[t] = "waiting" <=> pc[t] = "waiting"
               /\ pc[t] # "idle" => env'[t] = env[t]
               /\ pc'[t] # "idle" => env'[t] \in Envelope
    PROVE  IInv'
  BY LockFrame DEF IInv, EnvelopeInv

\* Every action of submitCommand keeps the invariant.
LEMMA StepIInv ==
    ASSUME IInv, NEW s \in Submission, Step(s), UNCHANGED deps
    PROVE  IInv'
  <1> DEFINE Same(t) == /\ pc'[t] \in Critical <=> pc[t] \in Critical
                        /\ pc'[t] = "waiting" <=> pc[t] = "waiting"
                        /\ pc[t] # "idle" => env'[t] = env[t]
                        /\ pc'[t] # "idle" => env'[t] \in Envelope
  <1>1. TypeOK /\ EnvelopeInv /\ ScopeLockCoherent
    BY DEF IInv
  <1>2. pc[s] # "idle" => env[s] \in Envelope
    BY <1>1 DEF EnvelopeInv
  <1> USE DEF Goto, Return, lockVars, replayVars, controlVars
  <1>3. CASE CheckCommandId(s)
    <2>1. TypeOK'
      BY <1>1, <1>2, <1>3 DEF TypeOK, CheckCommandId, Point, Critical, Result,
         CommandId, Nonce, Session
    <2>2. \A t \in Submission : Same(t)
      BY <1>1, <1>2, <1>3 DEF TypeOK, EnvelopeInv, CheckCommandId, Critical
    <2>3. UNCHANGED lockVars
      BY <1>3 DEF CheckCommandId
    <2> QED BY <2>1, <2>2, <2>3, FrameIInv
  <1>4. CASE CheckNonce(s)
    <2>1. TypeOK'
      BY <1>1, <1>2, <1>4 DEF TypeOK, CheckNonce, Point, Critical, Result,
         CommandId, Nonce, Session
    <2>2. \A t \in Submission : Same(t)
      BY <1>1, <1>2, <1>4 DEF TypeOK, EnvelopeInv, CheckNonce, Critical
    <2>3. UNCHANGED lockVars
      BY <1>4 DEF CheckNonce
    <2> QED BY <2>1, <2>2, <2>3, FrameIInv
  <1>5. CASE CheckActorSeq(s)
    <2>1. TypeOK'
      BY <1>1, <1>2, <1>5 DEF TypeOK, CheckActorSeq, Point, Critical, Result,
         CommandId, Nonce, Session
    <2>2. \A t \in Submission : Same(t)
      BY <1>1, <1>2, <1>5 DEF TypeOK, EnvelopeInv, CheckActorSeq, Critical
    <2>3. UNCHANGED lockVars
      BY <1>5 DEF CheckActorSeq
    <2> QED BY <2>1, <2>2, <2>3, FrameIInv
  <1>6. CASE Unconfirmed(s)
    <2>1. TypeOK'
      BY <1>1, <1>2, <1>6 DEF TypeOK, Unconfirmed, Point, Critical, Result,
         CommandId, Nonce, Session
    <2>2. \A t \in Submission : Same(t)
      BY <1>1, <1>2, <1>6 DEF TypeOK, EnvelopeInv, Unconfirmed, Critical
    <2>3. UNCHANGED lockVars
      BY <1>6 DEF Unconfirmed
    <2> QED BY <2>1, <2>2, <2>3, FrameIInv
  <1>7. CASE MarkCommandIdUsed(s)
    <2>1. TypeOK'
      BY <1>1, <1>2, <1>7 DEF TypeOK, MarkCommandIdUsed, Point, Critical, Result,
         CommandId, Nonce, Session
    <2>2. \A t \in Submission : Same(t)
      BY <1>1, <1>2, <1>7 DEF TypeOK, EnvelopeInv, MarkCommandIdUsed, Critical
    <2>3. UNCHANGED lockVars
      BY <1>7 DEF MarkCommandIdUsed
    <2> QED BY <2>1, <2>2, <2>3, FrameIInv
  <1>8. CASE MarkNonceUsed(s)
    <2>1. TypeOK'
      BY <1>1, <1>2, <1>8 DEF TypeOK, MarkNonceUsed, Point, Critical, Result,
         CommandId, Nonce, Session
    <2>2. \A t \in Submission : Same(t)
      BY <1>1, <1>2, <1>8 DEF TypeOK, EnvelopeInv, MarkNonceUsed, Critical
    <2>3. UNCHANGED lockVars
      BY <1>8 DEF MarkNonceUsed
    <2> QED BY <2>1, <2>2, <2>3, FrameIInv
  <1>9. CASE SetActorSeq(s)
    <2>1. TypeOK'
      BY <1>1, <1>2, <1>9, OpControlAssumption DEF TypeOK, SetActorSeq, Point, Critical, Result,
         CommandId, Nonce, Session
    <2>2. \A t \in Submission : Same(t)
      BY <1>1, <1>2, <1>9 DEF TypeOK, EnvelopeInv, SetActorSeq, Critical
    <2>3. UNCHANGED lockVars
      BY <1>9 DEF SetActorSeq
    <2> QED BY <2>1, <2>2, <2>3, FrameIInv
  <1>10. CASE AppendAuthorization(s)
    <2>1. TypeOK'
      BY <1>1, <1>2, <1>10 DEF TypeOK, AppendAuthorization, Point, Critical, Result,
         CommandId, Nonce, Session
    <2>2. \A t \in Submission : Same(t)
      BY <1>1, <1>2, <1>10 DEF TypeOK, EnvelopeInv, AppendAuthorization, Critical
    <2>3. UNCHANGED lockVars
      BY <1>10 DEF AppendAuthorization
    <2> QED BY <2>1, <2>2, <2>3, FrameIInv
  <1>11. CASE AppendCompletion(s)
    <2>1. TypeOK'
      BY <1>1, <1>2, <1>11 DEF TypeOK, AppendCompletion, Point, Critical, Result,
         CommandId, Nonce, Session
    <2>2. \A t \in Submission : Same(t)
      BY <1>1, <1>2, <1>11 DEF TypeOK, EnvelopeInv, AppendCompletion, Critical
    <2>3. UNCHANGED lockVars
      BY <1>11 DEF AppendCompletion
    <2> QED BY <2>1, <2>2, <2>3, FrameIInv
  <1>12. CASE ApplyFirst(s)
    <2>1. TypeOK'
      BY <1>1, <1>2, <1>12, OpControlAssumption DEF TypeOK, ApplyFirst, Point, Critical, Result,
         CommandId, Nonce, Session, Effective
    <2>2. \A t \in Submission : Same(t)
      BY <1>1, <1>2, <1>12 DEF TypeOK, EnvelopeInv, ApplyFirst, Critical, Effective
    <2>3. UNCHANGED lockVars
      BY <1>12 DEF ApplyFirst
    <2> QED BY <2>1, <2>2, <2>3, FrameIInv
  <1>13. CASE ApplySecond(s)
    <2>1. TypeOK'
      BY <1>1, <1>2, <1>13 DEF TypeOK, ApplySecond, Point, Critical, Result,
         CommandId, Nonce, Session
    <2>2. \A t \in Submission : Same(t)
      BY <1>1, <1>2, <1>13 DEF TypeOK, EnvelopeInv, ApplySecond, Critical
    <2>3. UNCHANGED lockVars
      BY <1>13 DEF ApplySecond
    <2> QED BY <2>1, <2>2, <2>3, FrameIInv
  <1>14. CASE Acquire(s)
    <2>0. /\ pc' \in [Submission -> Point]
          /\ result' \in [Submission -> Result]
          /\ holder' \in [ScopeKey -> Submission \cup {None}]
      <3>1. \E p \in {"markId", "done", "waiting"} : pc' = [pc EXCEPT ![s] = p]
        BY <1>14 DEF Acquire
      <3>2. UNCHANGED result \/ result' = [result EXCEPT ![s] = "conflict"]
        BY <1>14 DEF Acquire
      <3>3. UNCHANGED holder \/ holder' = [holder EXCEPT ![Key(s)] = s]
        BY <1>14 DEF Acquire
      <3>4. pc' \in [Submission -> Point]
        BY <1>1, <3>1 DEF TypeOK, Point, Critical
      <3>5. result' \in [Submission -> Result]
        BY <1>1, <3>2 DEF TypeOK, Result
      <3>6. holder' \in [ScopeKey -> Submission \cup {None}]
        BY <1>1, <3>3 DEF TypeOK
      <3> QED BY <3>4, <3>5, <3>6
    <2>1. waiters' \in [ScopeKey -> Seq(Submission)]
      <3>1. /\ waiters \in [ScopeKey -> Seq(Submission)]
            /\ \/ UNCHANGED waiters
               \/ waiters' = [waiters EXCEPT ![Key(s)] = Append(@, s)]
        BY <1>1, <1>14 DEF TypeOK, Acquire
      <3>2. \A q \in Seq(Submission) : Append(q, s) \in Seq(Submission)
        OBVIOUS
      <3> QED BY <3>1, <3>2
    <2>2. TypeOK'
      BY <1>1, <1>14, <2>0, <2>1 DEF TypeOK, Acquire
    <2>3. EnvelopeInv'
      BY <1>1, <1>2, <1>14 DEF TypeOK, EnvelopeInv, Acquire
    <2> QED BY <1>14, <2>2, <2>3, AcquireCoherent DEF IInv
  <1>15. ASSUME NEW r \in Result, pc[s] \in Critical, ReturnAndRelease(s, r),
             UNCHANGED <<env, replayed, replayVars, controlVars, late, trail>>
        PROVE  IInv'
    <2>1. /\ ScopeLockCoherent'
          /\ holder' \in [ScopeKey -> Submission \cup {None}]
          /\ waiters' \in [ScopeKey -> Seq(Submission)]
          /\ pc' \in [Submission -> Point]
          /\ \A t \in Submission : pc'[t] # pc[t] => pc[t] # "idle"
      BY <1>15, ReleaseCoherent
    <2>2. result' \in [Submission -> Result]
      BY <1>1, <1>15 DEF ReturnAndRelease, TypeOK
    <2>3. TypeOK'
      BY <1>1, <1>15, <2>1, <2>2 DEF TypeOK
    <2>4. EnvelopeInv'
      BY <1>1, <1>15, <2>1 DEF EnvelopeInv
    <2> QED BY <2>1, <2>3, <2>4 DEF IInv
  <1>16. CASE WitnessWriteFails(s)
    BY <1>15, <1>16 DEF WitnessWriteFails, Critical, Result
  <1>17. CASE Finish(s)
    BY <1>15, <1>17 DEF Finish, Critical, Result
  <1>18. CASE WitnessUnavailable(s)
    <2>1. CASE Action(s) = "hard_stop"
      <3>1. TypeOK'
        BY <1>1, <1>18, <2>1 DEF TypeOK, WitnessUnavailable, Point, Critical
      <3>2. \A t \in Submission : Same(t)
        BY <1>1, <1>2, <1>18, <2>1 DEF TypeOK, EnvelopeInv, WitnessUnavailable, Critical
      <3>3. UNCHANGED lockVars
        BY <1>18, <2>1 DEF WitnessUnavailable
      <3> QED BY <3>1, <3>2, <3>3, FrameIInv
    <2>2. CASE Action(s) # "hard_stop"
      BY <1>15, <1>18, <2>2 DEF WitnessUnavailable, Critical, Result
    <2> QED BY <2>1, <2>2
  <1> QED
    BY <1>3, <1>4, <1>5, <1>6, <1>7, <1>8, <1>9, <1>10, <1>11, <1>12, <1>13, <1>14, <1>16, <1>17, <1>18 DEF Step

\* The invariant holds of a service with empty stores and no call.
LEMMA InitIInv == Init => IInv
  <1> SUFFICES ASSUME Init PROVE IInv
    OBVIOUS
  <1>1. TypeOK
    <2>1. waiters \in [ScopeKey -> Seq(Submission)] /\ deps \in [witness : BOOLEAN, store : BOOLEAN]
      BY DEF Init
    <2>2. replayed \in [Submission -> BOOLEAN] /\ late \in BOOLEAN
      BY DEF Init
    <2> QED BY <2>1, <2>2 DEF Init, TypeOK, Point, Result
  <1>2. EnvelopeInv
    BY DEF Init, EnvelopeInv
  <1>3. ScopeLockCoherent
    BY DEF Init, ScopeLockCoherent, CriticalHolds, HolderCritical, WaiterQueued,
       QueueWaits, FreeIsEmpty, Critical
  <1> QED BY <1>1, <1>2, <1>3 DEF IInv

\* Every step of a submission, a start-lock call or the clock keeps the invariant.
LEMMA NextIInv == IInv /\ [Next]_vars => IInv'
  <1> SUFFICES ASSUME IInv, [Next]_vars PROVE IInv'
    OBVIOUS
  <1> USE DEF callVars, lockVars, replayVars, controlVars
  <1>1. TypeOK /\ EnvelopeInv /\ ScopeLockCoherent
    BY DEF IInv
  <1>2. ASSUME NEW s \in Submission, Step(s), UNCHANGED deps PROVE IInv'
    BY <1>2, StepIInv
  <1>3. ASSUME NEW s \in Submission, NEW e \in Envelope, Receive(s, e), UNCHANGED deps
        PROVE  IInv'
    <2>1. TypeOK'
      BY <1>1, <1>3 DEF TypeOK, Receive, Goto, Return, Point, Result
    <2>2. \A t \in Submission :
             /\ pc'[t] \in Critical <=> pc[t] \in Critical
             /\ pc'[t] = "waiting" <=> pc[t] = "waiting"
             /\ pc[t] # "idle" => env'[t] = env[t]
             /\ pc'[t] # "idle" => env'[t] \in Envelope
      BY <1>1, <1>3 DEF TypeOK, EnvelopeInv, Receive, Goto, Return, Critical
    <2>3. UNCHANGED lockVars
      BY <1>3 DEF Receive
    <2> QED BY <2>1, <2>2, <2>3, FrameIInv
  <1>4. ASSUME TypeOK', UNCHANGED <<callVars, lockVars>> PROVE IInv'
    BY <1>1, <1>4, FrameIInv DEF EnvelopeInv
  <1>5. ASSUME NEW p \in Project, SetStartLock(p), UNCHANGED deps PROVE IInv'
    BY <1>1, <1>4, <1>5 DEF TypeOK, SetStartLock
  <1>6. ASSUME NEW p \in Project, ReleaseStartLock(p), UNCHANGED deps PROVE IInv'
    BY <1>1, <1>4, <1>6 DEF TypeOK, ReleaseStartLock
  <1>7. ASSUME NEW p \in Project, ClearReleased(p), UNCHANGED deps PROVE IInv'
    BY <1>1, <1>4, <1>7 DEF TypeOK, ClearReleased
  <1>8. ASSUME Expire, UNCHANGED deps PROVE IInv'
    BY <1>1, <1>4, <1>8 DEF TypeOK, Expire
  <1>9. CASE UNCHANGED vars
    BY <1>1, <1>4, <1>9 DEF TypeOK, vars
  <1> QED
    BY <1>2, <1>3, <1>5, <1>6, <1>7, <1>8, <1>9 DEF Next

\* Type correctness: every store and every submission keeps its shape, for any
\* number of concurrent submitCommand calls and any commands.
THEOREM TypeCorrect == Spec => []TypeOK
  <1>1. IInv => TypeOK
    BY DEF IInv
  <1> QED
    BY <1>1, InitIInv, NextIInv, PTL DEF Spec

\* Mutual exclusion of the scope lock, and no waiter lost: for any number of
\* concurrent submissions and any scopes, the holder is the one submission
\* between acquire and release, and the queue holds exactly the waiting ones.
THEOREM ScopeLockCorrect == Spec => []ScopeLockCoherent
  <1>1. IInv => ScopeLockCoherent
    BY DEF IInv
  <1> QED
    BY <1>1, InitIInv, NextIInv, PTL DEF Spec

\* What a step of submitCommand may do to the other submissions: release wakes a
\* waiter, nothing else moves.  The witness records and results of others stay.
LEMMA StepFrame ==
    ASSUME IInv, NEW s \in Submission, Step(s)
    PROVE  /\ env' = env /\ replayed' = replayed /\ usedIds \subseteq usedIds'
           /\ pc[s] \notin {"idle", "done", "waiting"}
           /\ \A t \in Submission : t # s =>
                 /\ result'[t] = result[t] /\ trail'[t] = trail[t]
                 /\ pc'[t] = pc[t] \/ (pc[t] = "waiting" /\ pc'[t] = "markId")
  <1> DEFINE Goal == /\ env' = env /\ replayed' = replayed /\ usedIds \subseteq usedIds'
                     /\ pc[s] \notin {"idle", "done", "waiting"}
                     /\ \A t \in Submission : t # s =>
                           /\ result'[t] = result[t] /\ trail'[t] = trail[t]
                           /\ pc'[t] = pc[t] \/ (pc[t] = "waiting" /\ pc'[t] = "markId")
  <1>1. TypeOK
    BY DEF IInv
  <1> USE DEF Goto, Return, replayVars
  <1>2. CASE CheckCommandId(s)
    BY <1>1, <1>2 DEF CheckCommandId, TypeOK
  <1>3. CASE CheckNonce(s)
    BY <1>1, <1>3 DEF CheckNonce, TypeOK
  <1>4. CASE CheckActorSeq(s)
    BY <1>1, <1>4 DEF CheckActorSeq, TypeOK
  <1>5. CASE Unconfirmed(s)
    BY <1>1, <1>5 DEF Unconfirmed, TypeOK
  <1>6. CASE Acquire(s)
    <2>1. \E p \in {"markId", "done", "waiting"} : pc' = [pc EXCEPT ![s] = p]
      BY <1>6 DEF Acquire
    <2>2. UNCHANGED result \/ result' = [result EXCEPT ![s] = "conflict"]
      BY <1>6 DEF Acquire
    <2>3. \A t \in Submission : t # s => pc'[t] = pc[t] /\ result'[t] = result[t]
      BY <1>1, <2>1, <2>2 DEF TypeOK
    <2> QED BY <1>6, <2>3 DEF Acquire
  <1>7. CASE MarkCommandIdUsed(s)
    BY <1>1, <1>7 DEF MarkCommandIdUsed, TypeOK
  <1>8. CASE MarkNonceUsed(s)
    BY <1>1, <1>8 DEF MarkNonceUsed, TypeOK
  <1>9. CASE SetActorSeq(s)
    BY <1>1, <1>9 DEF SetActorSeq, TypeOK
  <1>10. CASE AppendAuthorization(s)
    BY <1>1, <1>10 DEF AppendAuthorization, TypeOK
  <1>11. CASE AppendCompletion(s)
    BY <1>1, <1>11 DEF AppendCompletion, TypeOK
  <1>12. CASE ApplyFirst(s)
    BY <1>1, <1>12 DEF ApplyFirst, TypeOK
  <1>13. CASE ApplySecond(s)
    BY <1>1, <1>13 DEF ApplySecond, TypeOK
  <1>14. ASSUME NEW r \in Result, pc[s] \in Critical, ReturnAndRelease(s, r),
                UNCHANGED <<env, replayed, replayVars, trail>>
         PROVE  Goal
    <2>1. \A t \in Submission : t # s =>
             pc'[t] = pc[t] \/ (pc[t] = "waiting" /\ pc'[t] = "markId")
      BY <1>14, ReleaseCoherent
    <2>2. \A t \in Submission : t # s => result'[t] = result[t]
      BY <1>1, <1>14 DEF ReturnAndRelease, TypeOK
    <2> QED BY <1>14, <2>1, <2>2 DEF Critical
  <1>15. CASE WitnessWriteFails(s)
    BY <1>14, <1>15 DEF WitnessWriteFails, Critical, Result
  <1>16. CASE Finish(s)
    BY <1>14, <1>16 DEF Finish, Critical, Result
  <1>17. CASE WitnessUnavailable(s)
    <2>1. CASE Action(s) = "hard_stop"
      BY <1>1, <1>17, <2>1 DEF WitnessUnavailable, TypeOK
    <2>2. CASE Action(s) # "hard_stop"
      BY <1>14, <1>17, <2>2 DEF WitnessUnavailable, Critical, Result
    <2> QED BY <2>1, <2>2
  <1> QED
    BY <1>2, <1>3, <1>4, <1>5, <1>6, <1>7, <1>8, <1>9, <1>10, <1>11, <1>12,
       <1>13, <1>15, <1>16, <1>17 DEF Step

\* OPCTL-002: a call that begins after its command id was marked is rejected,
\* for any number of overlapping calls.  Only overlapping duplicates can pass.
THEOREM ReplayCorrect == Spec => []LateReplayRejected
  <1>1. Init => ReplayInv
    BY DEF Init, ReplayInv
  <1>2. IInv /\ ReplayInv /\ [Next]_vars => ReplayInv'
    <2> SUFFICES ASSUME IInv, ReplayInv, [Next]_vars PROVE ReplayInv'
      OBVIOUS
    <2>1. ASSUME NEW s \in Submission, Step(s) PROVE ReplayInv'
      <3> SUFFICES ASSUME NEW t \in Submission, replayed'[t]
                   PROVE  /\ env'[t] \in Envelope
                          /\ env'[t].id \in usedIds'
                          /\ \/ pc'[t] = "checkId"
                             \/ pc'[t] = "done" /\ result'[t] = "rejected"
        BY DEF ReplayInv
      <3>1. /\ env' = env /\ replayed' = replayed /\ usedIds \subseteq usedIds'
            /\ pc[s] \notin {"idle", "done", "waiting"}
            /\ t # s => /\ result'[t] = result[t]
                        /\ pc'[t] = pc[t] \/ (pc[t] = "waiting" /\ pc'[t] = "markId")
        BY <2>1, StepFrame
      <3>2. /\ env[t] \in Envelope /\ env[t].id \in usedIds
            /\ pc[t] = "checkId" \/ (pc[t] = "done" /\ result[t] = "rejected")
        BY <3>1 DEF ReplayInv
      <3>3. CASE t # s
        BY <3>1, <3>2, <3>3
      <3>4. CASE t = s
        <4>1. pc[s] = "checkId"
          BY <3>1, <3>2, <3>4
        <4>2. CheckCommandId(s)
          BY <2>1, <4>1
          DEF Step, CheckNonce, CheckActorSeq, Unconfirmed, Acquire, MarkCommandIdUsed,
              MarkNonceUsed, SetActorSeq, AppendAuthorization, AppendCompletion,
              WitnessWriteFails, WitnessUnavailable, ApplyFirst, ApplySecond, Finish
        <4>3. pc'[s] = "done" /\ result'[s] = "rejected"
          BY <3>2, <3>4, <4>2 DEF CheckCommandId, Return, Goto, IInv, TypeOK
        <4> QED BY <3>1, <3>2, <3>4, <4>3
      <3> QED BY <3>3, <3>4
    <2>2. ASSUME NEW s \in Submission, NEW e \in Envelope, Receive(s, e)
          PROVE  ReplayInv'
      BY <2>2 DEF IInv, TypeOK, ReplayInv, Receive, Return, Goto, replayVars
    <2>3. ASSUME UNCHANGED <<callVars, replayVars>> PROVE ReplayInv'
      BY <2>3 DEF ReplayInv, callVars, replayVars
    <2> QED
      BY <2>1, <2>2, <2>3
      DEF Next, SetStartLock, ReleaseStartLock, ClearReleased, Expire, vars
  <1>3. ReplayInv => LateReplayRejected
    BY DEF ReplayInv, LateReplayRejected
  <1> QED
    BY <1>1, <1>2, <1>3, InitIInv, NextIInv, PTL DEF Spec

\* OPCTL-006 and OPCTL-007: whatever the interleaving, no command changes the
\* control state or answers 'applied' before its two witness records exist,
\* except a hard stop of a service that has no witness.
THEOREM WitnessCorrect == Spec => []WitnessedBeforeApply
  <1> DEFINE J == ResultInv /\ WitnessedBeforeApply
  <1>1. Init => J
    BY DEF Init, ResultInv, WitnessedBeforeApply
  <1>2. IInv /\ J /\ [Next]_vars => J'
    <2> SUFFICES ASSUME IInv, J, [Next]_vars PROVE J'
      OBVIOUS
    <2>0. UNCHANGED deps
      BY DEF Next, vars
    <2>1. ASSUME NEW s \in Submission, Step(s) PROVE J'
      <3>1. /\ env' = env
            /\ pc[s] \notin {"idle", "done", "waiting"}
            /\ \A t \in Submission : t # s =>
                  /\ result'[t] = result[t] /\ trail'[t] = trail[t]
                  /\ pc'[t] = pc[t] \/ (pc[t] = "waiting" /\ pc'[t] = "markId")
        BY <2>1, StepFrame
      <3>2. result[s] = "none"
        BY <3>1 DEF ResultInv
      <3>3. /\ result'[s] # "none" => pc'[s] = "done"
            /\ pc'[s] \in {"apply", "apply2", "finish"} \/ result'[s] = "applied" =>
                  \/ trail'[s] = "completed"
                  \/ ~deps.witness /\ env[s].action = "hard_stop"
        <4> DEFINE Goal == /\ result'[s] # "none" => pc'[s] = "done"
                           /\ pc'[s] \in {"apply", "apply2", "finish"} \/ result'[s] = "applied" =>
                                 \/ trail'[s] = "completed"
                                 \/ ~deps.witness /\ env[s].action = "hard_stop"
        <4>1. /\ pc \in [Submission -> Point]
              /\ result \in [Submission -> Result]
              /\ trail \in [Submission -> {"none", "authorized", "completed"}]
          BY DEF IInv, TypeOK
        <4>2. pc[s] \in {"apply", "apply2", "finish"} =>
                 trail[s] = "completed" \/ (~deps.witness /\ env[s].action = "hard_stop")
          BY DEF WitnessedBeforeApply, Action
        <4> USE DEF Goto, Return, Action
        <4>3. CASE \/ CheckCommandId(s) \/ CheckNonce(s) \/ CheckActorSeq(s)
                   \/ Unconfirmed(s)
          BY <3>2, <4>1, <4>3 DEF CheckCommandId, CheckNonce, CheckActorSeq, Unconfirmed
        <4>4. CASE Acquire(s)
          <5>1. \/ pc' = [pc EXCEPT ![s] = "markId"] /\ UNCHANGED result
                \/ pc' = [pc EXCEPT ![s] = "waiting"] /\ UNCHANGED result
                \/ /\ pc' = [pc EXCEPT ![s] = "done"]
                   /\ result' = [result EXCEPT ![s] = "conflict"]
            BY <4>4 DEF Acquire
          <5> QED BY <3>2, <4>1, <5>1
        <4>5. CASE MarkCommandIdUsed(s) \/ MarkNonceUsed(s) \/ SetActorSeq(s)
          BY <3>2, <4>1, <4>5 DEF MarkCommandIdUsed, MarkNonceUsed, SetActorSeq
        <4>6. CASE AppendAuthorization(s) \/ AppendCompletion(s)
          BY <3>2, <4>1, <4>6 DEF AppendAuthorization, AppendCompletion
        <4>7. CASE ApplyFirst(s) \/ ApplySecond(s)
          BY <3>2, <4>1, <4>2, <4>7 DEF ApplyFirst, ApplySecond
        <4>8. ASSUME NEW r \in Result, pc[s] \in Critical, ReturnAndRelease(s, r),
                     UNCHANGED <<env, trail>>,
                     r = "applied" => pc[s] \in {"apply", "finish"}
              PROVE  Goal
          <5>1. pc'[s] = "done"
            BY <4>8, ReleaseCoherent
          <5>2. result'[s] = r
            BY <4>1, <4>8 DEF ReturnAndRelease
          <5> QED BY <4>2, <4>8, <5>1, <5>2
        <4>9. CASE WitnessWriteFails(s)
          BY <4>8, <4>9 DEF WitnessWriteFails, Critical, Result
        <4>10. CASE Finish(s)
          BY <4>8, <4>10 DEF Finish, Critical, Result
        <4>11. CASE WitnessUnavailable(s)
          <5>1. CASE Action(s) = "hard_stop"
            BY <3>2, <4>1, <4>11, <5>1 DEF WitnessUnavailable
          <5>2. CASE Action(s) # "hard_stop"
            BY <4>8, <4>11, <5>2 DEF WitnessUnavailable, Critical, Result
          <5> QED BY <5>1, <5>2
        <4> QED
          BY <2>1, <4>3, <4>4, <4>5, <4>6, <4>7, <4>9, <4>10, <4>11 DEF Step
      <3>4. ASSUME NEW t \in Submission, t # s
            PROVE  /\ result'[t] # "none" => pc'[t] = "done"
                   /\ pc'[t] \in {"apply", "apply2", "finish"} \/ result'[t] = "applied" =>
                         \/ trail'[t] = "completed"
                         \/ ~deps.witness /\ env[t].action = "hard_stop"
        BY <3>1, <3>4 DEF ResultInv, WitnessedBeforeApply, Action
      <3> QED
        BY <2>0, <3>1, <3>3, <3>4 DEF ResultInv, WitnessedBeforeApply, Action
    <2>2. ASSUME NEW s \in Submission, NEW e \in Envelope, Receive(s, e) PROVE J'
      BY <2>0, <2>2
      DEF IInv, TypeOK, Receive, Return, Goto, ResultInv, WitnessedBeforeApply, Action
    <2>3. ASSUME UNCHANGED <<callVars, trail>> PROVE J'
      BY <2>0, <2>3 DEF ResultInv, WitnessedBeforeApply, Action, callVars
    <2> QED
      BY <2>1, <2>2, <2>3
      DEF Next, SetStartLock, ReleaseStartLock, ClearReleased, Expire, vars
  <1>3. J => WitnessedBeforeApply
    OBVIOUS
  <1> QED
    BY <1>1, <1>2, <1>3, InitIInv, NextIInv, PTL DEF Spec

\* hard_stop is the strongest action of PRECEDENCE_ORDER.
LEMMA HardStopStrongest ==
    \A a \in ControlAction : ~ (getPrecedence(a) < getPrecedence("hard_stop"))
  BY DEF ControlAction, getPrecedence, PRECEDENCE_ORDER

\* Results and holders move only where arbitration or release moves them.
LEMMA LockMoves ==
    ASSUME IInv, NEW s \in Submission, Step(s)
    PROVE  \/ Acquire(s)
           \/ \E r \in Result \ {"conflict"} : pc[s] \in Critical /\ ReturnAndRelease(s, r)
           \/ holder' = holder /\ (result'[s] = result[s] \/ result'[s] # "conflict")
  <1>1. TypeOK
    BY DEF IInv
  <1> USE DEF Goto, Return, lockVars
  <1>2. CASE CheckCommandId(s) \/ CheckNonce(s) \/ CheckActorSeq(s) \/ Unconfirmed(s)
    BY <1>1, <1>2 DEF CheckCommandId, CheckNonce, CheckActorSeq, Unconfirmed, TypeOK
  <1>3. CASE MarkCommandIdUsed(s) \/ MarkNonceUsed(s) \/ SetActorSeq(s)
    BY <1>3 DEF MarkCommandIdUsed, MarkNonceUsed, SetActorSeq
  <1>4. CASE AppendAuthorization(s) \/ AppendCompletion(s) \/ ApplyFirst(s) \/ ApplySecond(s)
    BY <1>4 DEF AppendAuthorization, AppendCompletion, ApplyFirst, ApplySecond
  <1>5. CASE WitnessWriteFails(s)
    BY <1>5 DEF WitnessWriteFails, Critical, Result
  <1>6. CASE WitnessUnavailable(s)
    BY <1>6 DEF WitnessUnavailable, Critical, Result
  <1>7. CASE Finish(s)
    BY <1>7 DEF Finish, Critical, Result
  <1> QED
    BY <1>2, <1>3, <1>4, <1>5, <1>6, <1>7 DEF Step

\* OPCTL-005: whatever the interleaving, arbitration turns a command away only
\* for a stronger one that holds its scope, and so never a hard stop.
THEOREM ArbitrationCorrect == Spec => HardStopNotArbitratedAway
  <1> DEFINE A == \A s \in Submission :
                    result[s] # "conflict" /\ result'[s] = "conflict" =>
                        /\ Action(s) # "hard_stop"
                        /\ holder[Key(s)] # None
                        /\ getPrecedence(Action(holder[Key(s)])) < getPrecedence(Action(s))
  <1>1. IInv /\ [Next]_vars => [A]_vars
    <2> SUFFICES ASSUME IInv, Next,
                        NEW t \in Submission, result[t] # "conflict", result'[t] = "conflict"
                 PROVE  /\ Action(t) # "hard_stop"
                        /\ holder[Key(t)] # None
                        /\ getPrecedence(Action(holder[Key(t)])) < getPrecedence(Action(t))
      OBVIOUS
    <2>1. TypeOK
      BY DEF IInv
    <2>2. ASSUME NEW s \in Submission, Step(s) PROVE t = s /\ Acquire(s)
      <3>1. t = s
        BY <2>2, StepFrame
      <3>2. ASSUME NEW r \in Result \ {"conflict"}, ReturnAndRelease(s, r) PROVE FALSE
        BY <2>1, <3>1, <3>2 DEF ReturnAndRelease, TypeOK
      <3> QED BY <2>2, <3>1, <3>2, LockMoves
    <2>3. ASSUME NEW s \in Submission, NEW e \in Envelope, Receive(s, e) PROVE FALSE
      BY <2>1, <2>3 DEF Receive, Return, Goto, TypeOK
    <2>4. Acquire(t)
      BY <2>2, <2>3 DEF Next, SetStartLock, ReleaseStartLock, ClearReleased, Expire, callVars
    <2> DEFINE h == holder[Key(t)]
    <2>5. /\ h # None
          /\ getPrecedence(Action(t)) > getPrecedence(Action(h))
      BY <2>1, <2>4 DEF Acquire, Return, Goto, TypeOK
    <2>6. env[t] \in Envelope /\ Key(t) \in ScopeKey
      BY <2>4, KeyType DEF IInv, EnvelopeInv, Acquire, Key
    <2>7. h \in Submission /\ env[h] \in Envelope
      BY <2>1, <2>5, <2>6 DEF TypeOK, IInv, EnvelopeInv, ScopeLockCoherent, HolderCritical, Critical
    <2>8. Action(t) \in ControlAction /\ Action(h) \in ControlAction
      BY <2>6, <2>7, OpControlAssumption DEF Action
    <2>9. getPrecedence(Action(t)) \in Nat /\ getPrecedence(Action(h)) \in Nat
      BY <2>8, PrecedenceType
    <2>10. getPrecedence(Action(h)) < getPrecedence(Action(t))
      BY <2>5, <2>9
    <2>11. Action(t) # "hard_stop"
      BY <2>8, <2>10, HardStopStrongest
    <2> QED BY <2>5, <2>10, <2>11
  <1> QED
    BY <1>1, InitIInv, NextIInv, PTL DEF Spec, HardStopNotArbitratedAway

\* release() hands every scope over to the strongest waiter, the earliest among
\* equals, whatever was queued while the holder was at work.
THEOREM HandoverCorrect == Spec => HandoverByPrecedence
  <1> DEFINE A == \A k \in ScopeKey :
                    holder[k] # None /\ holder'[k] # holder[k] /\ holder'[k] # None =>
                        \E i \in DOMAIN waiters[k] :
                            /\ waiters[k][i] = holder'[k]
                            /\ \A j \in DOMAIN waiters[k] :
                                  LET ri == getPrecedence(Action(waiters[k][i]))
                                      rj == getPrecedence(Action(waiters[k][j]))
                                  IN  ri < rj \/ (ri = rj /\ i <= j)
             Strongest(k, i) ==
               \A j \in DOMAIN waiters[k] :
                  LET ri == getPrecedence(Action(waiters[k][i]))
                      rj == getPrecedence(Action(waiters[k][j]))
                  IN  ri < rj \/ (ri = rj /\ i <= j)
  <1>1. IInv /\ [Next]_vars => [A]_vars
    <2> SUFFICES ASSUME IInv, Next, NEW k \in ScopeKey,
                        holder[k] # None, holder'[k] # holder[k], holder'[k] # None
                 PROVE  \E i \in DOMAIN waiters[k] :
                            waiters[k][i] = holder'[k] /\ Strongest(k, i)
      OBVIOUS
    <2>1. TypeOK
      BY DEF IInv
    <2>2. PICK s \in Submission : Step(s)
      BY DEF Next, Receive, SetStartLock, ReleaseStartLock, ClearReleased, Expire, lockVars
    <2>3. ASSUME Acquire(s) PROVE FALSE
      BY <2>1, <2>3, KeyType DEF Acquire, TypeOK, lockVars, IInv, EnvelopeInv, Key
    <2>4. PICK r \in Result \ {"conflict"} : pc[s] \in Critical /\ ReturnAndRelease(s, r)
      BY <2>2, <2>3, LockMoves
    <2> DEFINE q == waiters[k]
               n == NextWaiter(q)
    <2>5. k = Key(s) /\ q # << >> /\ holder'[k] = q[n]
      BY <2>1, <2>4 DEF ReturnAndRelease, TypeOK
    <2>6. q \in Seq(Submission)
      BY <2>1 DEF TypeOK
    <2>7. \A i \in DOMAIN q : env[q[i]] \in Envelope
      BY <2>6 DEF IInv, EnvelopeInv, ScopeLockCoherent, QueueWaits
    <2>8. n \in DOMAIN q /\ Strongest(k, n)
      BY <2>5, <2>6, <2>7, NextWaiterPicks
    <2> QED BY <2>5, <2>8
  <1> QED
    BY <1>1, InitIInv, NextIInv, PTL DEF Spec, HandoverByPrecedence

\* START-004: no interleaving lets a project out of hard_stopped but a resume
\* that holds its scope lock, or the direct release.
THEOREM HardStopCorrect == Spec => HardStopSticks
  <1> DEFINE A == \A p \in Project :
                    ControlState(p) = "hard_stopped" /\ ControlState(p)' # "hard_stopped" =>
                        \/ p \in releasing' \/ ~deps.store
                        \/ \E s \in Submission :
                              /\ pc[s] = "apply" /\ holder[Key(s)] = s
                              /\ env[s].project = p /\ Action(s) = "resume"
  <1>1. IInv /\ IInv' /\ [Next]_vars => [A]_vars
    <2> SUFFICES ASSUME IInv, IInv', Next, NEW p \in Project,
                        ControlState(p) = "hard_stopped", ControlState(p)' # "hard_stopped"
                 PROVE  \/ p \in releasing' \/ ~deps.store
                        \/ \E s \in Submission :
                              /\ pc[s] = "apply" /\ holder[Key(s)] = s
                              /\ env[s].project = p /\ Action(s) = "resume"
      OBVIOUS
    <2>1. TypeOK
      BY DEF IInv
    <2>2. p \in startLock
      BY <2>1 DEF ControlState, TypeOK
    <2>3. p \notin startLock'
      BY DEF ControlState
    <2>4. ASSUME NEW s \in Submission, Step(s)
          PROVE  ApplyFirst(s)
      BY <2>2, <2>3, <2>4
      DEF Step, CheckCommandId, CheckNonce, CheckActorSeq, Unconfirmed, Acquire,
          MarkCommandIdUsed, MarkNonceUsed, SetActorSeq, AppendAuthorization,
          AppendCompletion, WitnessWriteFails, WitnessUnavailable, ApplySecond, Finish,
          controlVars
    <2>5. ASSUME NEW s \in Submission, ApplyFirst(s)
          PROVE  /\ pc[s] = "apply" /\ holder[Key(s)] = s
                 /\ env[s].project = p /\ Action(s) = "resume"
      BY <2>2, <2>3, <2>5 DEF ApplyFirst, Critical, IInv, ScopeLockCoherent, CriticalHolds
    <2>6. ASSUME NEW x \in Project, ReleaseStartLock(x)
          PROVE  p \in releasing' \/ ~deps.store
      BY <2>2, <2>3, <2>6 DEF ReleaseStartLock
    <2> QED
      BY <2>2, <2>3, <2>4, <2>5, <2>6
      DEF Next, Receive, SetStartLock, ClearReleased, Expire, controlVars
  <1> QED
    BY <1>1, InitIInv, NextIInv, PTL DEF Spec, HardStopSticks

==============================================================================
