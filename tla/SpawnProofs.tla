------------------------------ MODULE SpawnProofs ------------------------------
(***************************************************************************)
(* Proofs about the spawn budget (BudgetTracker.requestSpawn and           *)
(* consumeSpawn, awaited by handleDispatchBatch).  A batch is admitted     *)
(* against what was spent before it, so the bound is not the ceiling but   *)
(* what a whole batch may take on top.                                     *)
(***************************************************************************)
EXTENDS AgentProofs

\* The children a dispatches dispatch nothing themselves (an orchestrator and its
\* workers): what a child is charged with is then its own turns and extra units.
OneLevel(a) == IsFiniteSet(Kids[a]) /\ \A k \in Kids[a] : Kids[k] = {}

\* A child within its turns, an answer within MaxBatch, and nothing charged to an
\* agent without children.
Frugal(a, r) ==
  /\ r.unpriced =< r.spawned
  /\ Kids[a] = {} => r.spawned = 0
  /\ a \notin Roots /\ r.limit > 0 =>
       r.turns =< r.limit /\ (r.pc \notin {"final", "done"} => r.turns < r.limit)
  /\ Cardinality(Dispatches(r.calls)) =< MaxBatch

\* The children r awaits that came with a budget.
Priced(agents, r) == {k \in r.kids : agents[k].limit > 0}

\* What r has spent on priced children, and D more for each it awaits, is within
\* the bound; D covers the largest of them.
Within(spent, n, D) == spent + n * D =< MaxBatch * (Ceiling + ExtraUnits)
Held(agents, r) ==
  /\ IsFiniteSet(r.kids)
  /\ \E D \in Nat :
       /\ Within(r.spawned - r.unpriced, Cardinality(Priced(agents, r)), D)
       /\ \A k \in Priced(agents, r) : agents[k].limit + ExtraUnits =< D

SpawnInv ==
  \A a \in Callers : Frugal(a, agent[a]) /\ (OneLevel(a) => Held(agent, agent[a]))

--------------------------------------------------------------------------------
(* Counting.                                                                   *)

\* What the assumptions say of the numbers.
LEMMA Numbers ==
  /\ MaxBatch \in Nat /\ MaxBatch >= 1 /\ Ceiling \in Nat /\ ExtraUnits \in Nat
  /\ MaxTurns \in Nat /\ MaxBatch * (Ceiling + ExtraUnits) \in Nat
  /\ MaxTurns >= 1 /\ ChildTurns \in Nat /\ ChildTurns >= 1
  <1>1. /\ MaxBatch \in Nat \ {0} /\ Ceiling \in Nat /\ ExtraUnits \in Nat
        /\ {MaxTurns, ChildTurns} \subseteq Nat \ {0}
    BY GatewayAssumption, BatchAssumption
  <1>2. \A m, s \in Nat : m * s \in Nat
    OBVIOUS
  <1>3. Ceiling + ExtraUnits \in Nat
    BY <1>1
  <1> QED BY <1>1, <1>2, <1>3

\* A batch of n children admitted at p units stays within the bound.
LEMMA BatchWithin ==
  ASSUME NEW p \in Nat, p =< Ceiling, NEW n \in Nat, n =< MaxBatch
  PROVE  Within(p, n, Ceiling - p + ExtraUnits)
  <1>1. PICK m \in Nat, c \in Nat, e \in Nat :
          m = MaxBatch /\ c = Ceiling /\ e = ExtraUnits /\ m >= 1
    BY Numbers
  <1>2. PICK d \in Nat : d = c - p + e
    BY <1>1
  <1>3. \A i, j, x \in Nat : i =< j => i * x =< j * x
    OBVIOUS
  <1>4. n * d =< m * d
    BY <1>1, <1>2, <1>3
  <1>5. p =< m * p
    <2>1. 1 * p =< m * p
      BY <1>1, <1>3
    <2> QED BY <2>1
  <1>6. m * d + m * p = m * (c + e)
    <2>1. d + p = c + e
      BY <1>1, <1>2
    <2>2. \A i, x, y \in Nat : i * x + i * y = i * (x + y)
      OBVIOUS
    <2>3. m * d + m * p = m * (d + p)
      BY <1>2, <2>2
    <2> QED BY <2>1, <2>3
  <1>7. n * d \in Nat /\ m * d \in Nat /\ m * p \in Nat
    OBVIOUS
  <1>8. p + n * d =< m * (c + e)
    <2>1. PICK x \in Nat, y \in Nat, z \in Nat : x = n * d /\ y = m * d /\ z = m * p
      BY <1>7
    <2>2. p + x =< y + z
      BY <1>4, <1>5, <2>1
    <2> QED BY <1>6, <2>1, <2>2
  <1> QED BY <1>1, <1>2, <1>8 DEF Within

\* One child less, charged with at most D.
LEMMA OneLess ==
  ASSUME NEW p \in Nat, NEW n \in Nat, NEW D \in Nat, Within(p, n + 1, D),
         NEW u \in Nat, u =< D
  PROVE  Within(p + u, n, D)
  <1>1. (n + 1) * D = n * D + D /\ n * D \in Nat
    OBVIOUS
  <1>2. PICK x \in Nat, b \in Nat : x = n * D /\ b = MaxBatch * (Ceiling + ExtraUnits)
    BY <1>1, Numbers
  <1>3. p + (x + D) =< b
    BY <1>1, <1>2 DEF Within
  <1>4. p + u + x =< b
    BY <1>3
  <1> QED BY <1>2, <1>4 DEF Within

\* What r spent is within the bound, whoever is still awaited.
LEMMA SpentWithin ==
  ASSUME NEW p \in Nat, NEW n \in Nat, NEW D \in Nat, Within(p, n, D)
  PROVE  p =< MaxBatch * (Ceiling + ExtraUnits) /\ Within(p, 0, 0)
  <1>1. PICK x \in Nat, b \in Nat : x = n * D /\ b = MaxBatch * (Ceiling + ExtraUnits)
    BY Numbers
  <1>2. p + x =< b
    BY <1>1 DEF Within
  <1> QED BY <1>1, <1>2 DEF Within

\* Nothing awaited, nothing more to hold than what was spent.
LEMMA NobodyHeld ==
  ASSUME NEW agents, NEW r, r.kids = {}, r.spawned = 0, r.unpriced = 0
  PROVE  Held(agents, r)
  <1>1. IsFiniteSet({}) /\ Cardinality({}) = 0
    BY FS_EmptySet
  <1>2. Priced(agents, r) = {}
    BY DEF Priced
  <1>3. Within(0, 0, 0)
    BY Numbers DEF Within
  <1>4. Within(r.spawned - r.unpriced, Cardinality(Priced(agents, r)), 0)
    BY <1>1, <1>2, <1>3
  <1> QED BY <1>1, <1>2, <1>4 DEF Held

\* Held looks at the budgets only.
LEMMA HeldFrame ==
  ASSUME NEW f, NEW r, Held(f, r), NEW g, NEW s,
         s.kids = r.kids, s.spawned = r.spawned, s.unpriced = r.unpriced,
         \A k \in r.kids : g[k].limit = f[k].limit
  PROVE  Held(g, s)
  <1>1. Priced(g, s) = Priced(f, r)
    BY DEF Priced
  <1>2. \A k \in Priced(g, s) : g[k].limit = f[k].limit
    BY DEF Priced
  <1> QED BY <1>1, <1>2 DEF Held

--------------------------------------------------------------------------------
(* Calls.                                                                      *)

LEMMA DispatchesFinite ==
  ASSUME NEW calls \in Seq(Calls)
  PROVE  /\ IsFiniteSet(Dispatches(calls)) /\ Cardinality(Dispatches(calls)) \in Nat
         /\ Dispatches(calls) \subseteq DOMAIN calls
  <1>1. PICK n \in Nat : DOMAIN calls = 1 .. n
    OBVIOUS
  <1>2. Dispatches(calls) \in SUBSET (1 .. n)
    BY <1>1 DEF Dispatches
  <1>3. IsFiniteSet(Dispatches(calls))
    BY <1>2, IntervalSize, FS_Subset
  <1> QED BY <1>1, <1>2, <1>3, FS_CardinalityType

LEMMA NoDispatches ==
  ASSUME NEW calls, Dispatches(calls) = {}
  PROVE  Cardinality(Dispatches(calls)) =< MaxBatch
  BY FS_EmptySet, Numbers

LEMMA NoneLeft == Cardinality(Dispatches(<<>>)) =< MaxBatch
  <1>1. Dispatches(<<>>) = {}
    BY DEF Dispatches
  <1> QED BY <1>1, NoDispatches

\* The calls after the first have no more dispatches than all of them.
LEMMA TailDispatches ==
  ASSUME NEW calls \in Seq(Calls), calls # <<>>, Cardinality(Dispatches(calls)) =< MaxBatch
  PROVE  Cardinality(Dispatches(Tail(calls))) =< MaxBatch
  <1>1. PICK rest \in Seq(Calls) : rest = Tail(calls)
    BY TailType
  <1>2. PICK n \in Nat : n = Len(calls) /\ n > 0 /\ DOMAIN calls = 1 .. n
    OBVIOUS
  <1>3. DOMAIN rest = 1 .. n - 1 /\ \A i \in 1 .. n - 1 : rest[i] = calls[i + 1]
    BY <1>1, <1>2
  <1>4. PICK f : f = [i \in Dispatches(rest) |-> i + 1]
    OBVIOUS
  <1>5. ASSUME NEW i \in Dispatches(rest)
        PROVE  i \in Nat /\ i + 1 \in Dispatches(calls)
    BY <1>2, <1>3 DEF Dispatches
  <1>6. f \in Injection(Dispatches(rest), Dispatches(calls))
    <2>1. f \in [Dispatches(rest) -> Dispatches(calls)]
      BY <1>4, <1>5
    <2>2. \A i, j \in Dispatches(rest) : f[i] = f[j] => i = j
      BY <1>4, <1>5
    <2> QED BY <2>1, <2>2 DEF Injection, IsInjective
  <1>7. Cardinality(Dispatches(rest)) =< Cardinality(Dispatches(calls))
    BY <1>6, DispatchesFinite, FS_Injection
  <1>8. Cardinality(Dispatches(rest)) \in Nat /\ Cardinality(Dispatches(calls)) \in Nat
    BY DispatchesFinite
  <1> QED BY <1>1, <1>7, <1>8, Numbers

\* What a batch leaves of its answer dispatches nothing.
LEMMA OthersDispatchNothing ==
  ASSUME NEW calls \in Seq(Calls)
  PROVE  Cardinality(Dispatches(OtherCalls(calls))) =< MaxBatch
  <1>1. PICK kept : kept = DOMAIN calls \ Dispatches(calls)
    OBVIOUS
  <1>2. kept \subseteq DOMAIN calls /\ kept \subseteq Nat
    BY <1>1
  <1>3. IsFiniteSet(kept)
    <2>1. PICK m \in Nat : DOMAIN calls = 1 .. m
      OBVIOUS
    <2>2. IsFiniteSet(1 .. m)
      BY IntervalSize
    <2> QED BY <1>2, <2>1, <2>2, FS_Subset
  <1>4. PICK R : R = {r \in kept \X kept : r[1] =< r[2]}
    OBVIOUS
  <1>5. \A i, j \in kept : <<i, j>> \in R <=> i =< j
    BY <1>4
  <1>6. PICK order : order = Arranged(kept, R)
    OBVIOUS
  <1>7. TotalOn(kept, R)
    <2>1. \A i, j \in kept : i =< j \/ j =< i
      BY <1>2
    <2>2. \A i, j \in kept : i =< j /\ j =< i => i = j
      BY <1>2
    <2>3. \A i, j, k \in kept : i =< j /\ j =< k => i =< k
      BY <1>2
    <2> QED BY <1>5, <2>1, <2>2, <2>3 DEF TotalOn
  <1>8. PICK n \in Nat : n = Cardinality(kept) /\ order \in [1 .. n -> kept]
    BY <1>3, <1>6, <1>7, ArrangedLists DEF Lists
  <1>9. OtherCalls(calls) = [p \in 1 .. n |-> calls[order[p]]]
    BY <1>1, <1>4, <1>6, <1>8 DEF OtherCalls
  <1>10. \A p \in 1 .. n : calls[order[p]] # "dispatch"
    BY <1>1, <1>8 DEF Dispatches
  <1>11. Dispatches(OtherCalls(calls)) = {}
    BY <1>9, <1>10 DEF Dispatches
  <1> QED BY <1>11, NoDispatches

--------------------------------------------------------------------------------
(* Steps of one agent.                                                         *)

\* What of r the invariants look at, as they were before.
Same(a, r) ==
  /\ r.kids = agent[a].kids /\ r.limit = agent[a].limit
  /\ r.spawned = agent[a].spawned /\ r.unpriced = agent[a].unpriced

LEMMA SpawnFacts ==
  ASSUME GatewayInv, SpawnInv, NEW a \in Callers
  PROVE  /\ Frugal(a, agent[a]) /\ (OneLevel(a) => Held(agent, agent[a]))
         /\ agent[a] \in AgentRec /\ Parent(a, agent[a])
         /\ agent[a].turns \in Nat /\ agent[a].limit \in Nat /\ agent[a].spawned \in Nat
         /\ agent[a].unpriced \in Nat /\ agent[a].calls \in Seq(Calls)
  <1>1. agent[a] \in AgentRec /\ Parent(a, agent[a])
    BY AgentFacts
  <1>2. /\ agent[a].turns \in Nat /\ agent[a].limit \in Nat /\ agent[a].spawned \in Nat
        /\ agent[a].unpriced \in Nat /\ agent[a].calls \in Seq(Calls)
    BY <1>1 DEF AgentRec
  <1> QED BY <1>1, <1>2 DEF SpawnInv

\* An agent goes on as r; nobody's child changes its budget.
LEMMA OwnStep ==
  ASSUME GatewayInv, SpawnInv, NEW a \in Callers, NEW r,
         agent' = [agent EXCEPT ![a] = r],
         a \in Roots \/ r.limit = agent[a].limit,
         Frugal(a, r), r.kids \subseteq Kids[a], OneLevel(a) => Held(agent, r)
  PROVE  SpawnInv'
  <1>1. agent'[a] = r /\ \A c \in Callers : c # a => agent'[c] = agent[c]
    BY DEF GatewayInv
  <1>2. ASSUME NEW c \in Callers
        PROVE  Frugal(c, agent'[c]) /\ (OneLevel(c) => Held(agent', agent'[c]))
    <2>1. CASE c = a
      <3>1. \A k \in r.kids : agent'[k].limit = agent[k].limit
        BY <1>1, GatewayAssumption
      <3>2. ASSUME OneLevel(a)
            PROVE  Held(agent', r)
        <4>1. Held(agent, r)
          BY <3>2
        <4>2. PICK f, g : f = agent /\ g = agent'
          OBVIOUS
        <4>3. Held(f, r) /\ \A k \in r.kids : g[k].limit = f[k].limit
          BY <3>1, <4>1, <4>2
        <4>4. Held(g, r)
          BY <4>3, HeldFrame
        <4> QED BY <4>2, <4>4
      <3> QED BY <1>1, <2>1, <3>2
    <2>2. CASE c # a
      <3>1. agent[c].kids \subseteq Callers \ Roots
        BY SpawnFacts, GatewayAssumption DEF Parent
      <3>2. \A k \in agent[c].kids : agent'[k].limit = agent[k].limit
        BY <1>1, <3>1
      <3>3. ASSUME OneLevel(c)
            PROVE  Held(agent', agent[c])
        <4>1. Held(agent, agent[c])
          BY <3>3, SpawnFacts
        <4>2. PICK f, g, s : f = agent /\ g = agent' /\ s = agent[c]
          OBVIOUS
        <4>3. Held(f, s) /\ \A k \in s.kids : g[k].limit = f[k].limit
          BY <3>2, <4>1, <4>2
        <4>4. Held(g, s)
          BY <4>3, HeldFrame
        <4> QED BY <4>2, <4>4
      <3> QED BY <1>1, <2>2, <3>3, SpawnFacts
    <2> QED BY <2>1, <2>2
  <1>3. \A c \in Callers : Frugal(c, agent[c])' /\ (OneLevel(c)' => Held(agent, agent[c])')
    BY <1>2 DEF Frugal, Held, Priced, OneLevel
  <1> QED BY <1>3 DEF SpawnInv

\* r is within the turns of its budget.
InTurns(a, r) ==
  a \notin Roots /\ r.limit > 0 =>
    r.turns =< r.limit /\ (r.pc \notin {"final", "done"} => r.turns < r.limit)

\* A step that neither dispatches nor collects.
LEMMA SameStep ==
  ASSUME GatewayInv, SpawnInv, NEW a \in Callers, NEW r, Same(a, r),
         agent' = [agent EXCEPT ![a] = r],
         Cardinality(Dispatches(r.calls)) =< MaxBatch, InTurns(a, r)
  PROVE  SpawnInv'
  <1>1. Frugal(a, r)
    BY SpawnFacts DEF Same, Frugal, InTurns
  <1>2. r.kids \subseteq Kids[a] /\ r.limit = agent[a].limit
    BY SpawnFacts DEF Same, Parent
  <1>3. ASSUME OneLevel(a)
        PROVE  Held(agent, r)
    <2>1. PICK f, s : f = agent /\ s = agent[a]
      OBVIOUS
    <2>2. /\ Held(f, s) /\ r.kids = s.kids /\ r.spawned = s.spawned
          /\ r.unpriced = s.unpriced
      BY <1>3, <2>1, SpawnFacts DEF Same
    <2>3. Held(f, r)
      BY <2>2, HeldFrame
    <2> QED BY <2>1, <2>3
  <1> QED BY <1>1, <1>2, <1>3, OwnStep

\* The program point changes, and with it fields nobody counts with.
LEMMA GoStep ==
  ASSUME GatewayInv, SpawnInv, NEW a \in Callers, NEW r, Same(a, r),
         agent' = [agent EXCEPT ![a] = r], r.turns = agent[a].turns,
         r.calls = agent[a].calls,
         agent[a].pc \in {"final", "done"} => r.pc \in {"final", "done"}
  PROVE  SpawnInv'
  <1>1. Cardinality(Dispatches(r.calls)) =< MaxBatch
    BY SpawnFacts DEF Frugal
  <1>2. InTurns(a, r)
    BY SpawnFacts DEF Frugal, InTurns, Same
  <1> QED BY <1>1, <1>2, SameStep

LEMMA GoOn ==
  ASSUME GatewayInv, SpawnInv, NEW a \in Callers, NEW pc, Go(a, pc),
         agent[a].pc \notin {"final", "done"}
  PROVE  SpawnInv'
  <1>1. agent[a] \in AgentRec /\ agent \in [Callers -> AgentRec]
    BY DEF GatewayInv
  <1>2. PICK r : r = [agent[a] EXCEPT !.pc = pc]
    OBVIOUS
  <1>3. agent' = [agent EXCEPT ![a] = r]
    BY <1>1, <1>2 DEF Go
  <1>4. Same(a, r) /\ r.turns = agent[a].turns /\ r.calls = agent[a].calls
    BY <1>1, <1>2 DEF Same, AgentRec
  <1> QED BY <1>3, <1>4, GoStep

LEMMA EndRun ==
  ASSUME GatewayInv, SpawnInv, NEW a \in Callers, NEW result, End(a, result)
  PROVE  SpawnInv'
  <1>1. agent[a] \in AgentRec /\ agent \in [Callers -> AgentRec]
    BY DEF GatewayInv
  <1>2. PICK r : r = [agent[a] EXCEPT !.pc = "final", !.result = result]
    OBVIOUS
  <1>3. agent' = [agent EXCEPT ![a] = r]
    BY <1>1, <1>2 DEF End
  <1>4. Same(a, r) /\ r.turns = agent[a].turns /\ r.calls = agent[a].calls /\ r.pc = "final"
    BY <1>1, <1>2 DEF Same, AgentRec
  <1> QED BY <1>3, <1>4, GoStep

\* A run that starts or returns has nothing to hold.
LEMMA RootStep ==
  ASSUME GatewayInv, SpawnInv, NEW a \in Callers, a \in Roots, NEW r, r \in {Fresh(0), Idle},
         agent' = [agent EXCEPT ![a] = r]
  PROVE  SpawnInv'
  <1>1. /\ r.kids = {} /\ r.spawned = 0 /\ r.unpriced = 0 /\ r.calls = <<>>
    BY DEF Fresh, Idle
  <1>2. Held(agent, r)
    BY <1>1, NobodyHeld
  <1>3. Cardinality(Dispatches(r.calls)) =< MaxBatch
    BY <1>1, NoneLeft
  <1>4. Frugal(a, r)
    BY <1>1, <1>3 DEF Frugal
  <1> QED BY <1>1, <1>2, <1>4, OwnStep

LEMMA CallModelSpawn ==
  ASSUME GatewayInv, SpawnInv, NEW a \in Callers, NEW kind, CallModel(a, kind),
         agent[a].pc \in {"ready", "fallback"}
  PROVE  SpawnInv'
  <1>1. agent[a] \in AgentRec /\ agent \in [Callers -> AgentRec]
    BY DEF GatewayInv
  <1>2. PICK late : late = agent[a].late + (IF abort[a] THEN 1 ELSE 0)
    OBVIOUS
  <1>3. PICK r : r = [agent[a] EXCEPT !.pc = "waiting", !.late = late]
    OBVIOUS
  <1>4. agent' = [agent EXCEPT ![a] = r]
    BY <1>1, <1>2, <1>3 DEF CallModel
  <1>5. Same(a, r) /\ r.turns = agent[a].turns /\ r.calls = agent[a].calls
    BY <1>1, <1>3 DEF Same, AgentRec
  <1> QED BY <1>4, <1>5, GoStep

\* The answer of the model: its calls, or the turn and the end of the run.
LEMMA AnsweredSpawn ==
  ASSUME GatewayInv, SpawnInv, NEW a \in Callers, Answered(a)
  PROVE  SpawnInv'
  <1>1. agent[a] \in AgentRec /\ agent \in [Callers -> AgentRec] /\ agent[a].pc = "waiting"
    BY DEF GatewayInv, Answered, At
  <1>2. PICK calls \in Answers[a] :
          agent' = [agent EXCEPT
            ![a].pc = IF calls = <<>> THEN "final" ELSE "calls",
            ![a].result = IF calls = <<>> THEN "completed" ELSE "none",
            ![a].turns = IF calls = <<>> THEN agent[a].turns + 1 ELSE agent[a].turns,
            ![a].calls = calls]
    BY DEF Answered, GatewayInv
  <1>3. PICK pc : pc = IF calls = <<>> THEN "final" ELSE "calls"
    OBVIOUS
  <1>4. PICK result : result = IF calls = <<>> THEN "completed" ELSE "none"
    OBVIOUS
  <1>5. PICK turns : turns = IF calls = <<>> THEN agent[a].turns + 1 ELSE agent[a].turns
    OBVIOUS
  <1>6. PICK r : r = [agent[a] EXCEPT !.pc = pc, !.result = result, !.turns = turns,
                                      !.calls = calls]
    OBVIOUS
  <1>7. agent' = [agent EXCEPT ![a] = r]
    BY <1>1, <1>2, <1>3, <1>4, <1>5, <1>6
  <1>8. Same(a, r) /\ r.turns = turns /\ r.calls = calls /\ r.pc = pc
    BY <1>1, <1>6 DEF Same, AgentRec
  <1>9. Cardinality(Dispatches(r.calls)) =< MaxBatch
    BY <1>8, BatchAssumption
  <1>10. InTurns(a, r)
    <2>1. ASSUME a \notin Roots, agent[a].limit > 0
          PROVE  agent[a].turns < agent[a].limit
      BY <1>1, <2>1, SpawnFacts DEF Frugal
    <2> QED BY <1>3, <1>5, <1>8, <2>1, SpawnFacts DEF InTurns, Same
  <1> QED BY <1>7, <1>8, <1>9, <1>10, SameStep

--------------------------------------------------------------------------------
(* Tool calls.                                                                 *)

\* A call that dispatches nothing, or is refused by the ceiling.
LEMMA CallSpawn ==
  ASSUME GatewayInv, SpawnInv, NEW a \in Callers, agent[a].pc = "calls",
         NEW r, Same(a, r), r.turns = agent[a].turns,
         agent' = [agent EXCEPT ![a] = r],
         r.calls = <<>> \/ r.calls = Tail(agent[a].calls)
  PROVE  SpawnInv'
  <1>1. agent[a].calls \in Seq(Calls) /\ agent[a].calls # <<>>
    BY SpawnFacts DEF Parent
  <1>2. Cardinality(Dispatches(agent[a].calls)) =< MaxBatch
    BY SpawnFacts DEF Frugal
  <1>3. Cardinality(Dispatches(r.calls)) =< MaxBatch
    BY <1>1, <1>2, NoneLeft, TailDispatches
  <1>4. InTurns(a, r)
    BY SpawnFacts DEF Frugal, InTurns, Same
  <1> QED BY <1>3, <1>4, SameStep

LEMMA DispatchRefusedSpawn ==
  ASSUME GatewayInv, SpawnInv, NEW a \in Callers, agent[a].pc = "calls", DispatchRefused(a)
  PROVE  SpawnInv'
  <1>1. agent[a] \in AgentRec /\ agent \in [Callers -> AgentRec]
    BY DEF GatewayInv
  <1>2. agent' = [agent EXCEPT ![a].pc = "ack", ![a].result = "budget_exhausted",
                               ![a].exceeded = TRUE, ![a].calls = <<>>]
    BY DEF DispatchRefused
  <1>3. PICK none : none = <<>>
    OBVIOUS
  <1>4. PICK r : r = [agent[a] EXCEPT !.pc = "ack", !.result = "budget_exhausted",
                                      !.exceeded = TRUE, !.calls = none]
    OBVIOUS
  <1>5. agent' = [agent EXCEPT ![a] = r]
    BY <1>1, <1>2, <1>3, <1>4
  <1>6. Same(a, r) /\ r.turns = agent[a].turns /\ r.calls = none
    BY <1>1, <1>4 DEF Same, AgentRec
  <1> QED BY <1>3, <1>5, <1>6, CallSpawn

LEMMA FrameOnlySpawn ==
  ASSUME GatewayInv, SpawnInv, NEW a \in Callers, agent[a].pc = "calls", FrameOnly(a)
  PROVE  SpawnInv'
  <1>1. agent[a] \in AgentRec /\ agent \in [Callers -> AgentRec]
    BY DEF GatewayInv
  <1>2. PICK rest : rest = Tail(agent[a].calls)
    OBVIOUS
  <1>3. PICK pc : pc = AfterCalls(rest)
    OBVIOUS
  <1>4. PICK r : r = [agent[a] EXCEPT !.calls = rest, !.pc = pc]
    OBVIOUS
  <1>5. agent' = [agent EXCEPT ![a] = r]
    BY <1>1, <1>2, <1>3, <1>4 DEF FrameOnly
  <1>6. Same(a, r) /\ r.turns = agent[a].turns /\ r.calls = rest
    BY <1>1, <1>4 DEF Same, AgentRec
  <1> QED BY <1>2, <1>5, <1>6, CallSpawn

LEMMA TerminalSpawn ==
  ASSUME GatewayInv, SpawnInv, NEW a \in Callers, agent[a].pc = "calls",
         NEW result, Terminal(a, result)
  PROVE  SpawnInv'
  <1>1. agent[a] \in AgentRec /\ agent \in [Callers -> AgentRec]
    BY DEF GatewayInv
  <1>2. PICK none : none = <<>>
    OBVIOUS
  <1>3. PICK r : r = [agent[a] EXCEPT !.pc = "ack", !.result = result, !.calls = none]
    OBVIOUS
  <1>4. agent' = [agent EXCEPT ![a] = r]
    BY <1>1, <1>2, <1>3 DEF Terminal
  <1>5. Same(a, r) /\ r.turns = agent[a].turns /\ r.calls = none
    BY <1>1, <1>3 DEF Same, AgentRec
  <1> QED BY <1>2, <1>4, <1>5, CallSpawn

--------------------------------------------------------------------------------
(* The end of the turn and of the run.                                         *)

\* recordTurn and the check of the turn budget: a run that goes on has turns left.
LEMMA EndTurnSpawn ==
  ASSUME GatewayInv, SpawnInv, NEW a \in Callers, EndTurn(a)
  PROVE  SpawnInv'
  <1>1. agent[a] \in AgentRec /\ agent \in [Callers -> AgentRec] /\ agent[a].pc = "ack"
    BY DEF GatewayInv, EndTurn, At
  <1>2. PICK spent \in BOOLEAN :
          LET turns == agent[a].turns + 1
              out == agent[a].exceeded \/ turns >= TurnLimit(a) \/ spent
              result == IF agent[a].result = "none" /\ out THEN "budget_exhausted"
                        ELSE agent[a].result
          IN  agent' = [agent EXCEPT
                          ![a].pc = IF result = "none" THEN "loop" ELSE "final",
                          ![a].turns = turns,
                          ![a].result = result]
    BY DEF EndTurn
  <1>3. PICK turns : turns = agent[a].turns + 1
    OBVIOUS
  <1>4. PICK result : result = IF /\ agent[a].result = "none"
                                  /\ agent[a].exceeded \/ turns >= TurnLimit(a) \/ spent
                               THEN "budget_exhausted" ELSE agent[a].result
    OBVIOUS
  <1>5. PICK pc : pc = IF result = "none" THEN "loop" ELSE "final"
    OBVIOUS
  <1>6. agent' = [agent EXCEPT ![a].pc = pc, ![a].turns = turns, ![a].result = result]
    BY <1>2, <1>3, <1>4, <1>5
  <1>7. PICK r : r = [agent[a] EXCEPT !.pc = pc, !.turns = turns, !.result = result]
    OBVIOUS
  <1>8. agent' = [agent EXCEPT ![a] = r]
    BY <1>1, <1>6, <1>7
  <1>9. Same(a, r) /\ r.turns = turns /\ r.calls = agent[a].calls /\ r.pc = pc
    BY <1>1, <1>7 DEF Same, AgentRec
  <1>10. InTurns(a, r)
    <2>1. ASSUME a \notin Roots, r.limit > 0
          PROVE  r.turns =< r.limit /\ (r.pc \notin {"final", "done"} => r.turns < r.limit)
      <3>1. agent[a].turns < agent[a].limit /\ agent[a].limit = r.limit
        BY <1>1, <1>9, <2>1, SpawnFacts DEF Frugal, Same
      <3>2. agent[a].turns \in Nat /\ agent[a].limit \in Nat
        BY SpawnFacts
      <3>3. TurnLimit(a) = agent[a].limit
        BY <2>1, <3>1, <3>2 DEF TurnLimit
      <3>4. pc \notin {"final", "done"} => ~(turns >= TurnLimit(a))
        BY <1>4, <1>5
      <3> QED BY <1>3, <1>9, <3>1, <3>2, <3>3, <3>4
    <2> QED BY <2>1 DEF InTurns
  <1>11. Cardinality(Dispatches(r.calls)) =< MaxBatch
    BY <1>9, SpawnFacts DEF Frugal
  <1> QED BY <1>8, <1>9, <1>10, <1>11, SameStep

LEMMA FinalizeSpawn ==
  ASSUME GatewayInv, SpawnInv, NEW a \in Callers, Finalize(a)
  PROVE  SpawnInv'
  <1>1. agent[a] \in AgentRec /\ agent \in [Callers -> AgentRec] /\ agent[a].pc = "final"
    BY DEF GatewayInv, Finalize, At
  <1>2. PICK result : Return(a, result)
    BY DEF Finalize
  <1>3. CASE a \in Roots
    <2>1. agent' = [agent EXCEPT ![a] = Idle]
      BY <1>2, <1>3 DEF Return
    <2> QED BY <1>3, <2>1, RootStep
  <1>4. CASE a \notin Roots
    <2>1. PICK r : r = [agent[a] EXCEPT !.pc = "done", !.result = result]
      OBVIOUS
    <2>2. agent' = [agent EXCEPT ![a] = r]
      BY <1>1, <1>2, <1>4, <2>1 DEF Return
    <2>3. Same(a, r) /\ r.turns = agent[a].turns /\ r.calls = agent[a].calls /\ r.pc = "done"
      BY <1>1, <2>1 DEF Same, AgentRec
    <2> QED BY <2>2, <2>3, GoStep
  <1> QED BY <1>3, <1>4

--------------------------------------------------------------------------------
(* Children.                                                                   *)

\* What a holds for the children K admitted at these units: each of them fits under
\* the ceiling beside what was spent, and they are a batch at most.
LEMMA AdmittedHeld ==
  ASSUME NEW s \in Nat, NEW u \in Nat, u =< s, NEW K, IsFiniteSet(K),
         Cardinality(K) =< MaxBatch, NEW limit \in [K -> Nat],
         \A k \in K : limit[k] = 0 \/ s + limit[k] =< Ceiling,
         NEW f, \A k \in K : f[k].limit = limit[k],
         NEW r, r.kids = K, r.spawned = s, r.unpriced = u,
         s - u =< MaxBatch * (Ceiling + ExtraUnits)
  PROVE  Held(f, r)
  <1>1. PICK P : P = Priced(f, r) /\ P \in SUBSET K /\ \A k \in P : limit[k] > 0
    <2>1. Priced(f, r) = {k \in K : f[k].limit > 0}
      BY DEF Priced
    <2> QED BY <2>1
  <1>2. IsFiniteSet(P) /\ Cardinality(P) \in Nat /\ Cardinality(P) =< MaxBatch
    <2>1. IsFiniteSet(P) /\ Cardinality(P) =< Cardinality(K)
      BY <1>1, FS_Subset
    <2> QED BY <2>1, FS_CardinalityType, Numbers
  <1>3. PICK p \in Nat : p = s - u
    OBVIOUS
  <1>4. CASE P = {}
    <2>1. Cardinality(P) = 0
      BY <1>4, FS_EmptySet
    <2>2. Within(p, 0, 0)
      BY <1>3, Numbers DEF Within
    <2>3. Within(r.spawned - r.unpriced, Cardinality(Priced(f, r)), 0)
      BY <1>1, <1>3, <2>1, <2>2
    <2> QED BY <1>1, <1>4, <2>3 DEF Held
  <1>5. CASE P # {}
    <2>1. s =< Ceiling /\ \A k \in P : s + limit[k] =< Ceiling
      <3>1. \A k \in P : limit[k] \in Nat /\ limit[k] > 0 /\ s + limit[k] =< Ceiling
        BY <1>1
      <3> QED BY <1>5, <3>1, Numbers
    <2>2. PICK D \in Nat : D = Ceiling - p + ExtraUnits
      BY <1>3, <2>1, Numbers
    <2>3. Within(p, Cardinality(P), D)
      BY <1>2, <1>3, <2>1, <2>2, Numbers, BatchWithin
    <2>4. \A k \in P : f[k].limit + ExtraUnits =< D
      <3>1. \A k \in P : f[k].limit = limit[k] /\ limit[k] \in Nat /\ s + limit[k] =< Ceiling
        BY <1>1, <2>1
      <3> QED BY <1>3, <2>2, <3>1, Numbers
    <2>5. Within(r.spawned - r.unpriced, Cardinality(Priced(f, r)), D)
      BY <1>1, <1>3, <2>3
    <2> QED BY <1>1, <2>4, <2>5 DEF Held
  <1> QED BY <1>4, <1>5

LEMMA FreshFrugal ==
  ASSUME NEW c \in Callers, NEW l \in Nat
  PROVE  Frugal(c, Fresh(l)) /\ \A f : Held(f, Fresh(l))
  <1>1. PICK r : r = Fresh(l)
    OBVIOUS
  <1>2. /\ r.kids = {} /\ r.spawned = 0 /\ r.unpriced = 0 /\ r.calls = <<>>
        /\ r.turns = 0 /\ r.limit = l /\ r.pc = "loop"
    BY <1>1 DEF Fresh
  <1>3. Cardinality(Dispatches(r.calls)) =< MaxBatch
    BY <1>2, NoneLeft
  <1>4. Frugal(c, r)
    BY <1>2, <1>3 DEF Frugal
  <1>5. \A f : Held(f, r)
    BY <1>2, NobodyHeld
  <1> QED BY <1>1, <1>4, <1>5

\* A batch at most, each of whose children fits under the ceiling.
BatchOf(a, K) == IsFiniteSet(Kids[a]) => IsFiniteSet(K) /\ Cardinality(K) =< MaxBatch
Admitted(a, K, limit) == \A k \in K : limit[k] = 0 \/ agent[a].spawned + limit[k] =< Ceiling

\* Dispatching children admitted against what was spent before.
LEMMA KidsSpawn ==
  ASSUME GatewayInv, SpawnInv, NEW a \in Callers, agent[a].pc = "calls",
         NEW K \in SUBSET Kids[a], NEW limit \in [K -> Nat],
         Admitted(a, K, limit), BatchOf(a, K),
         NEW r, r.kids = K, r.limit = agent[a].limit, r.spawned = agent[a].spawned,
         r.unpriced = agent[a].unpriced, r.turns = agent[a].turns,
         Cardinality(Dispatches(r.calls)) =< MaxBatch,
         agent' = [c \in Callers |-> IF c = a THEN r
                                     ELSE IF c \in K THEN Fresh(limit[c]) ELSE agent[c]]
  PROVE  SpawnInv'
  <1>1. a \notin K /\ K \subseteq Callers \ Roots
    BY GatewayAssumption
  <1>2. /\ agent'[a] = r
        /\ \A k \in K : agent'[k] = Fresh(limit[k])
        /\ \A c \in Callers : c # a /\ c \notin K => agent'[c] = agent[c]
    BY <1>1
  <1>3. \A k \in K : agent'[k].limit = limit[k]
    <2>1. \A l : Fresh(l).limit = l
      BY DEF Fresh
    <2> QED BY <1>2, <2>1
  <1>4. Frugal(a, r)
    BY SpawnFacts DEF Frugal
  <1>5. ASSUME OneLevel(a)
        PROVE  Held(agent', r)
    <2>1. Held(agent, agent[a])
      BY <1>5, SpawnFacts
    <2>2. PICK p \in Nat : p = agent[a].spawned - agent[a].unpriced
      BY SpawnFacts DEF Frugal
    <2>3. p =< MaxBatch * (Ceiling + ExtraUnits)
      <3>1. PICK D \in Nat : Within(p, Cardinality(Priced(agent, agent[a])), D)
        BY <2>1, <2>2 DEF Held
      <3>2. Cardinality(Priced(agent, agent[a])) \in Nat
        <4>1. IsFiniteSet(agent[a].kids) /\ Priced(agent, agent[a]) \in SUBSET agent[a].kids
          BY <2>1 DEF Held, Priced
        <4> QED BY <4>1, FS_Subset, FS_CardinalityType
      <3> QED BY <3>1, <3>2, SpentWithin
    <2>4. PICK f : f = agent'
      OBVIOUS
    <2>5. IsFiniteSet(K) /\ Cardinality(K) =< MaxBatch
      BY <1>5 DEF OneLevel, BatchOf
    <2>6. PICK s \in Nat, u \in Nat : s = agent[a].spawned /\ u = agent[a].unpriced /\ u =< s
      BY SpawnFacts DEF Frugal
    <2>7. \A k \in K : f[k].limit = limit[k]
      BY <1>3, <2>4
    <2>8. \A k \in K : limit[k] = 0 \/ s + limit[k] =< Ceiling
      BY <2>6 DEF Admitted
    <2>9. r.spawned = s /\ r.unpriced = u /\ s - u =< MaxBatch * (Ceiling + ExtraUnits)
      BY <2>2, <2>3, <2>6
    <2>10. Held(f, r)
      BY <2>5, <2>6, <2>7, <2>8, <2>9, AdmittedHeld
    <2> QED BY <2>4, <2>10
  <1>6. ASSUME NEW c \in Callers
        PROVE  Frugal(c, agent'[c]) /\ (OneLevel(c) => Held(agent', agent'[c]))
    <2>1. CASE c = a
      BY <1>2, <1>4, <1>5, <2>1
    <2>2. CASE c \in K
      <3>1. limit[c] \in Nat /\ agent'[c] = Fresh(limit[c])
        BY <1>2, <2>2
      <3> QED BY <3>1, FreshFrugal
    <2>3. CASE c # a /\ c \notin K
      <3>1. agent[c].kids \subseteq Callers /\ agent[c].kids \cap K = {}
        BY <2>3, SpawnFacts, GatewayAssumption DEF Parent
      <3>2. \A k \in agent[c].kids : agent'[k].limit = agent[k].limit
        BY <1>2, <3>1
      <3>3. ASSUME OneLevel(c)
            PROVE  Held(agent', agent[c])
        <4>1. PICK f, g, s : f = agent /\ g = agent' /\ s = agent[c]
          OBVIOUS
        <4>2. Held(f, s) /\ \A k \in s.kids : g[k].limit = f[k].limit
          BY <3>2, <3>3, <4>1, SpawnFacts
        <4>3. Held(g, s)
          BY <4>2, HeldFrame
        <4> QED BY <4>1, <4>3
      <3> QED BY <1>2, <2>3, <3>3, SpawnFacts
    <2> QED BY <2>1, <2>2, <2>3
  <1>7. \A c \in Callers : Frugal(c, agent[c])' /\ (OneLevel(c)' => Held(agent, agent[c])')
    BY <1>6 DEF Frugal, Held, Priced, OneLevel
  <1> QED BY <1>7 DEF SpawnInv

LEMMA StartBatchSpawn ==
  ASSUME GatewayInv, SpawnInv, NEW a \in Callers, StartBatch(a)
  PROVE  SpawnInv'
  <1>1. agent[a].pc = "calls" /\ agent[a] \in AgentRec /\ agent[a].calls \in Seq(Calls)
    BY SpawnFacts DEF StartBatch, At
  <1>2. PICK R \in SUBSET Kids[a] :
          /\ Cardinality(R) = Cardinality(Dispatches(agent[a].calls))
          /\ \E units \in RequestsFor(R) :
               LET admitted == {k \in R : RequestSpawn(a, units[k])}
                   others == OtherCalls(agent[a].calls) IN
               \E K \in SUBSET admitted :
                 agent' = [StartKids(a, [k \in K |-> units[k]]) EXCEPT
                   ![a].pc = IF K = {} THEN AfterCalls(others) ELSE "kids",
                   ![a].calls = others,
                   ![a].kids = K,
                   ![a].exceeded = @ \/ admitted # R]
    BY DEF StartBatch
  <1>3. PICK units \in RequestsFor(R) :
          LET admitted == {k \in R : RequestSpawn(a, units[k])}
              others == OtherCalls(agent[a].calls) IN
          \E K \in SUBSET admitted :
            agent' = [StartKids(a, [k \in K |-> units[k]]) EXCEPT
              ![a].pc = IF K = {} THEN AfterCalls(others) ELSE "kids",
              ![a].calls = others,
              ![a].kids = K,
              ![a].exceeded = @ \/ admitted # R]
    BY <1>2
  <1>4. PICK admitted \in SUBSET R : admitted = {k \in R : RequestSpawn(a, units[k])}
    OBVIOUS
  <1>5. PICK others : others = OtherCalls(agent[a].calls)
    OBVIOUS
  <1>6. PICK K \in SUBSET admitted :
          agent' = [StartKids(a, [k \in K |-> units[k]]) EXCEPT
              ![a].pc = IF K = {} THEN AfterCalls(others) ELSE "kids",
              ![a].calls = others,
              ![a].kids = K,
              ![a].exceeded = @ \/ admitted # R]
    BY <1>3, <1>4, <1>5
  <1>7. PICK limit : limit = [k \in K |-> units[k]]
    OBVIOUS
  <1>8. K \in SUBSET Kids[a] /\ a \notin K /\ K \subseteq Callers
    BY GatewayAssumption
  <1>9. limit \in [K -> Nat] /\ DOMAIN limit = K
    <2>1. \A k \in R : units[k] \in Estimates[k] /\ Estimates[k] \subseteq Nat
      BY GatewayAssumption DEF RequestsFor
    <2> QED BY <1>7, <2>1
  <1>10. Admitted(a, K, limit)
    BY <1>4, <1>7 DEF RequestSpawn, Admitted
  <1>11. ASSUME IsFiniteSet(Kids[a])
         PROVE  IsFiniteSet(K) /\ Cardinality(K) =< MaxBatch
    <2>1. IsFiniteSet(R) /\ K \in SUBSET R
      BY <1>11, FS_Subset
    <2>2. IsFiniteSet(K) /\ Cardinality(K) =< Cardinality(R)
      BY <2>1, FS_Subset
    <2>3. Cardinality(K) \in Nat /\ Cardinality(R) \in Nat
      BY <2>1, <2>2, FS_CardinalityType
    <2>4. Cardinality(R) =< MaxBatch
      BY <1>2, SpawnFacts DEF Frugal
    <2> QED BY <2>2, <2>3, <2>4, Numbers
  <1>12. PICK pc, over : /\ pc = IF K = {} THEN AfterCalls(others) ELSE "kids"
                         /\ over = (agent[a].exceeded \/ admitted # R)
    OBVIOUS
  <1>13. PICK r : r = [agent[a] EXCEPT !.pc = pc, !.calls = others, !.kids = K,
                                       !.exceeded = over]
    OBVIOUS
  <1>14. /\ r.kids = K /\ r.limit = agent[a].limit /\ r.spawned = agent[a].spawned
         /\ r.unpriced = agent[a].unpriced /\ r.turns = agent[a].turns /\ r.calls = others
    BY <1>1, <1>13 DEF AgentRec
  <1>15. Cardinality(Dispatches(r.calls)) =< MaxBatch
    BY <1>1, <1>5, <1>14, OthersDispatchNothing
  <1>16. PICK base : base = StartKids(a, limit)
    OBVIOUS
  <1>17. /\ base = [c \in Callers |-> IF c \in K THEN Fresh(limit[c]) ELSE agent[c]]
         /\ base[a] = agent[a]
    BY <1>8, <1>9, <1>16 DEF StartKids
  <1>18. agent' = [base EXCEPT ![a] = r]
    BY <1>6, <1>7, <1>12, <1>13, <1>16, <1>17
  <1>19. agent' = [c \in Callers |-> IF c = a THEN r
                                     ELSE IF c \in K THEN Fresh(limit[c]) ELSE agent[c]]
    BY <1>17, <1>18
  <1>20. BatchOf(a, K)
    BY <1>11 DEF BatchOf
  <1> QED BY <1>1, <1>8, <1>9, <1>10, <1>14, <1>15, <1>19, <1>20, KidsSpawn

LEMMA DispatchOneSpawn ==
  ASSUME GatewayInv, SpawnInv, NEW a \in Callers, agent[a].pc = "calls", DispatchOne(a)
  PROVE  SpawnInv'
  <1>1. PICK k \in Kids[a] : \E units \in Estimates[k] :
          /\ RequestSpawn(a, units)
          /\ agent' = [StartKids(a, [x \in {k} |-> units]) EXCEPT
                         ![a].pc = "kids", ![a].kids = {k}, ![a].calls = Tail(@)]
    BY DEF DispatchOne
  <1>2. PICK units \in Estimates[k] :
          /\ RequestSpawn(a, units)
          /\ agent' = [StartKids(a, [x \in {k} |-> units]) EXCEPT
                         ![a].pc = "kids", ![a].kids = {k}, ![a].calls = Tail(@)]
    BY <1>1
  <1>3. k \in Callers /\ k # a /\ units \in Nat
    BY GatewayAssumption
  <1>4. PICK limit : limit = [x \in {k} |-> units]
    OBVIOUS
  <1>5. limit \in [{k} -> Nat] /\ DOMAIN limit = {k} /\ {k} \in SUBSET Kids[a]
    BY <1>3, <1>4
  <1>6. Admitted(a, {k}, limit)
    BY <1>2, <1>4 DEF RequestSpawn, Admitted
  <1>7. BatchOf(a, {k})
    <2>1. IsFiniteSet({k}) /\ Cardinality({k}) = 1
      BY FS_Singleton
    <2> QED BY <2>1, Numbers DEF BatchOf
  <1>8. agent[a] \in AgentRec /\ agent[a].calls \in Seq(Calls) /\ agent[a].calls # <<>>
    BY SpawnFacts DEF Parent
  <1>9. PICK rest : rest = Tail(agent[a].calls)
    OBVIOUS
  <1>10. PICK r : r = [agent[a] EXCEPT !.pc = "kids", !.kids = {k}, !.calls = rest]
    OBVIOUS
  <1>11. /\ r.kids = {k} /\ r.limit = agent[a].limit /\ r.spawned = agent[a].spawned
         /\ r.unpriced = agent[a].unpriced /\ r.turns = agent[a].turns /\ r.calls = rest
    BY <1>8, <1>10 DEF AgentRec
  <1>12. Cardinality(Dispatches(r.calls)) =< MaxBatch
    BY <1>8, <1>9, <1>11, SpawnFacts, TailDispatches DEF Frugal
  <1>13. PICK base : base = StartKids(a, limit)
    OBVIOUS
  <1>14. /\ base = [c \in Callers |-> IF c \in {k} THEN Fresh(limit[c]) ELSE agent[c]]
         /\ base[a] = agent[a]
    BY <1>3, <1>5, <1>13 DEF StartKids
  <1>15. agent' = [base EXCEPT ![a] = r]
    BY <1>2, <1>4, <1>9, <1>10, <1>13, <1>14
  <1>16. agent' = [c \in Callers |-> IF c = a THEN r
                                     ELSE IF c \in {k} THEN Fresh(limit[c]) ELSE agent[c]]
    BY <1>14, <1>15
  <1> QED BY <1>5, <1>6, <1>7, <1>11, <1>12, <1>16, KidsSpawn

\* A finished child is charged with at most what was held for it.
LEMMA ChargeFits ==
  ASSUME GatewayInv, SpawnInv, NEW a \in Callers, NEW k \in Kids[a], OneLevel(a),
         NEW extra \in 0 .. ExtraUnits, NEW D \in Nat,
         agent[k].limit > 0, agent[k].limit + ExtraUnits =< D
  PROVE  UsageUnits(k, extra) =< D
  <1>1. k \in Callers \ Roots /\ Kids[k] = {}
    BY GatewayAssumption DEF OneLevel
  <1>2. PICK t \in Nat, l \in Nat : t = agent[k].turns /\ l = agent[k].limit
    BY <1>1, SpawnFacts
  <1>3. t =< l /\ agent[k].spawned = 0
    BY <1>1, <1>2, SpawnFacts DEF Frugal
  <1>4. UsageUnits(k, extra) = t + 0 + extra
    BY <1>2, <1>3 DEF UsageUnits
  <1>5. l + ExtraUnits =< D /\ extra \in Nat /\ extra =< ExtraUnits
    BY <1>2, Numbers
  <1> QED BY <1>3, <1>4, <1>5, Numbers

\* What a holds after child k is collected with these units.
LEMMA CollectedHeld ==
  ASSUME GatewayInv, SpawnInv, NEW a \in Callers, NEW k \in agent[a].kids, OneLevel(a),
         NEW extra \in 0 .. ExtraUnits, NEW units \in Nat, units \in {0, UsageUnits(k, extra)},
         NEW f, \A x \in agent[a].kids \ {k} : f[x].limit = agent[x].limit,
         NEW r, r.kids = agent[a].kids \ {k}, r.spawned = agent[a].spawned + units,
         r.unpriced = agent[a].unpriced + (IF agent[k].limit = 0 THEN units ELSE 0)
  PROVE  Held(f, r)
  <1>1. Held(agent, agent[a])
    BY SpawnFacts
  <1>2. PICK P : P = Priced(agent, agent[a])
    OBVIOUS
  <1>3. PICK D \in Nat :
          /\ Within(agent[a].spawned - agent[a].unpriced, Cardinality(P), D)
          /\ \A x \in P : agent[x].limit + ExtraUnits =< D
    BY <1>1, <1>2 DEF Held
  <1>4. IsFiniteSet(agent[a].kids) /\ IsFiniteSet(r.kids)
    BY <1>1, FS_RemoveElement DEF Held
  <1>5. IsFiniteSet(P) /\ Cardinality(P) \in Nat
    <2>1. P \in SUBSET agent[a].kids
      BY <1>2 DEF Priced
    <2> QED BY <1>4, <2>1, FS_Subset, FS_CardinalityType
  <1>6. PICK p \in Nat : p = agent[a].spawned - agent[a].unpriced
    BY SpawnFacts DEF Frugal
  <1>7. /\ agent[a].spawned \in Nat /\ agent[a].unpriced \in Nat
        /\ k \in Kids[a] /\ k \in Callers
    BY SpawnFacts, GatewayAssumption DEF Parent
  <1>8. Priced(f, r) = P \ {k}
    <2>1. Priced(f, r) = {x \in agent[a].kids \ {k} : f[x].limit > 0}
      BY DEF Priced
    <2>2. P = {x \in agent[a].kids : agent[x].limit > 0}
      BY <1>2 DEF Priced
    <2> QED BY <2>1, <2>2
  <1>9. \A x \in Priced(f, r) : f[x].limit + ExtraUnits =< D
    BY <1>3, <1>8 DEF Priced
  <1>10. CASE agent[k].limit = 0
    <2>1. Priced(f, r) = P
      BY <1>2, <1>8, <1>10 DEF Priced
    <2>2. r.spawned - r.unpriced = agent[a].spawned - agent[a].unpriced
      BY <1>7, <1>10
    <2>3. Within(r.spawned - r.unpriced, Cardinality(Priced(f, r)), D)
      BY <1>3, <2>1, <2>2
    <2> QED BY <1>4, <1>9, <2>3 DEF Held
  <1>11. CASE agent[k].limit # 0
    <2>1. k \in P /\ agent[k].limit > 0
      <3>1. agent[k].limit \in Nat
        BY <1>7, SpawnFacts
      <3> QED BY <1>2, <1>11, <3>1 DEF Priced
    <2>2. PICK n \in Nat : n = Cardinality(Priced(f, r)) /\ Cardinality(P) = n + 1
      <3>1. IsFiniteSet(P \ {k}) /\ Cardinality(P \ {k}) = Cardinality(P) - 1
        BY <1>5, <2>1, FS_RemoveElement
      <3>2. Cardinality(P \ {k}) \in Nat
        BY <3>1, FS_CardinalityType
      <3> QED BY <1>5, <1>8, <3>1, <3>2
    <2>3. units =< D
      BY <1>3, <1>7, <2>1, ChargeFits
    <2>4. r.spawned - r.unpriced = p + units
      BY <1>6, <1>7, <1>11
    <2>5. Within(p, n + 1, D)
      BY <1>3, <1>6, <2>2
    <2>6. Within(p + units, n, D)
      BY <2>3, <2>5, OneLess
    <2>7. Within(r.spawned - r.unpriced, Cardinality(Priced(f, r)), D)
      BY <2>2, <2>4, <2>6
    <2> QED BY <1>4, <1>9, <2>7 DEF Held
  <1> QED BY <1>10, <1>11

LEMMA CollectKidSpawn ==
  ASSUME GatewayInv, SpawnInv, NEW a \in Callers, NEW k \in Kids[a], CollectKid(a, k)
  PROVE  SpawnInv'
  <1>1. /\ agent[a].pc = "kids" /\ k \in agent[a].kids /\ k \in Callers \ Roots /\ k # a
        /\ agent \in [Callers -> AgentRec] /\ agent[a] \in AgentRec /\ agent[k] \in AgentRec
        /\ Kids[a] # {}
    BY GatewayAssumption DEF CollectKid, At, GatewayInv
  <1>2. PICK charged \in BOOLEAN, extra \in 0 .. ExtraUnits :
          LET units == IF charged THEN UsageUnits(k, extra) ELSE 0 IN
          agent' = [agent EXCEPT
               ![a].pc = IF agent[a].kids = {k} THEN AfterCalls(agent[a].calls) ELSE "kids",
               ![a].kids = @ \ {k},
               ![a].spawned = @ + units,
               ![a].unpriced = @ + (IF agent[k].limit = 0 THEN units ELSE 0),
               ![k] = Idle]
    BY DEF CollectKid
  <1>3. PICK units \in Nat : units = IF charged THEN UsageUnits(k, extra) ELSE 0
    <2>1. agent[k].turns \in Nat /\ agent[k].spawned \in Nat /\ extra \in Nat
      BY <1>1, Numbers DEF AgentRec
    <2>2. UsageUnits(k, extra) \in Nat
      BY <2>1 DEF UsageUnits
    <2> QED BY <2>2
  <1>4. PICK pc : pc = IF agent[a].kids = {k} THEN AfterCalls(agent[a].calls) ELSE "kids"
    OBVIOUS
  <1>5. PICK u \in Nat : u = IF agent[k].limit = 0 THEN units ELSE 0
    OBVIOUS
  <1>6. PICK kids, spawned, unpriced :
          /\ kids = agent[a].kids \ {k} /\ spawned = agent[a].spawned + units
          /\ unpriced = agent[a].unpriced + u
    OBVIOUS
  <1>7. PICK r : r = [agent[a] EXCEPT !.pc = pc, !.kids = kids, !.spawned = spawned,
                                      !.unpriced = unpriced]
    OBVIOUS
  <1>8. agent' = [agent EXCEPT ![a] = r, ![k] = Idle]
    BY <1>1, <1>2, <1>3, <1>4, <1>5, <1>6, <1>7
  <1>9. /\ r.kids = kids /\ r.limit = agent[a].limit /\ r.spawned = spawned
        /\ r.unpriced = unpriced /\ r.turns = agent[a].turns /\ r.calls = agent[a].calls
    BY <1>1, <1>7 DEF AgentRec
  <1>10. /\ agent'[a] = r /\ agent'[k] = Idle
         /\ \A c \in Callers : c # a /\ c # k => agent'[c] = agent[c]
    BY <1>1, <1>8
  <1>11. Frugal(a, r)
    <2>1. unpriced =< spawned
      <3>1. /\ agent[a].unpriced =< agent[a].spawned /\ agent[a].unpriced \in Nat
            /\ agent[a].spawned \in Nat
        BY SpawnFacts DEF Frugal
      <3> QED BY <1>5, <1>6, <3>1
    <2> QED BY <1>1, <1>9, <2>1, SpawnFacts DEF Frugal
  <1>12. ASSUME OneLevel(a)
         PROVE  Held(agent', r)
    <2>1. PICK f : f = agent'
      OBVIOUS
    <2>2. \A x \in agent[a].kids \ {k} : f[x].limit = agent[x].limit
      <3>1. agent[a].kids \subseteq Callers \ {a}
        BY SpawnFacts, GatewayAssumption DEF Parent
      <3> QED BY <1>10, <2>1, <3>1
    <2>3. units \in {0, UsageUnits(k, extra)}
      BY <1>3
    <2>4. /\ r.kids = agent[a].kids \ {k} /\ r.spawned = agent[a].spawned + units
          /\ r.unpriced = agent[a].unpriced + (IF agent[k].limit = 0 THEN units ELSE 0)
      BY <1>5, <1>6, <1>9
    <2>5. Held(f, r)
      BY <1>1, <1>12, <2>2, <2>3, <2>4, CollectedHeld
    <2> QED BY <2>1, <2>5
  <1>13. Frugal(k, Idle) /\ \A f : Held(f, Idle)
    <2>1. PICK i : i = Idle
      OBVIOUS
    <2>2. /\ i.kids = {} /\ i.spawned = 0 /\ i.unpriced = 0 /\ i.calls = <<>> /\ i.limit = 0
      BY <2>1 DEF Idle, Fresh
    <2>3. Cardinality(Dispatches(i.calls)) =< MaxBatch
      BY <2>2, NoneLeft
    <2>4. Frugal(k, i)
      BY <2>2, <2>3 DEF Frugal
    <2>5. \A f : Held(f, i)
      BY <2>2, NobodyHeld
    <2> QED BY <2>1, <2>4, <2>5
  <1>14. ASSUME NEW c \in Callers
         PROVE  Frugal(c, agent'[c]) /\ (OneLevel(c) => Held(agent', agent'[c]))
    <2>1. CASE c = a
      BY <1>10, <1>11, <1>12, <2>1
    <2>2. CASE c = k
      BY <1>10, <1>13, <2>2
    <2>3. CASE c # a /\ c # k
      <3>1. agent[c].kids \subseteq Callers \ {k}
        BY <2>3, SpawnFacts, GatewayAssumption DEF Parent
      <3>2. \A x \in agent[c].kids : agent'[x].limit = agent[x].limit
        BY <1>9, <1>10, <3>1
      <3>3. ASSUME OneLevel(c)
            PROVE  Held(agent', agent[c])
        <4>1. PICK f, g, s : f = agent /\ g = agent' /\ s = agent[c]
          OBVIOUS
        <4>2. Held(f, s) /\ \A x \in s.kids : g[x].limit = f[x].limit
          BY <3>2, <3>3, <4>1, SpawnFacts
        <4>3. Held(g, s)
          BY <4>2, HeldFrame
        <4> QED BY <4>1, <4>3
      <3> QED BY <1>10, <2>3, <3>3, SpawnFacts
    <2> QED BY <2>1, <2>2, <2>3
  <1>15. \A c \in Callers : Frugal(c, agent[c])' /\ (OneLevel(c)' => Held(agent, agent[c])')
    BY <1>14 DEF Frugal, Held, Priced, OneLevel
  <1> QED BY <1>15 DEF SpawnInv

LEMMA HandleToolCallSpawn ==
  ASSUME GatewayInv, SpawnInv, NEW a \in Callers, HandleToolCall(a)
  PROVE  SpawnInv'
  <1>1. agent[a].pc = "calls"
    BY DEF HandleToolCall, At
  <1>2. CASE FrameOnly(a)
    BY <1>1, <1>2, FrameOnlySpawn
  <1>3. CASE DispatchRefused(a)
    BY <1>1, <1>3, DispatchRefusedSpawn
  <1>4. CASE DispatchOne(a)
    BY <1>1, <1>4, DispatchOneSpawn
  <1>5. CASE \E result : Terminal(a, result)
    BY <1>1, <1>5, TerminalSpawn
  <1> QED BY <1>2, <1>3, <1>4, <1>5 DEF HandleToolCall

--------------------------------------------------------------------------------
(* The invariant.                                                              *)

LEMMA StillAgents ==
  ASSUME SpawnInv, agent' = agent
  PROVE  SpawnInv'
  BY DEF SpawnInv, Frugal, Held, Priced, OneLevel

LEMMA AgentStepSpawn ==
  ASSUME GatewayInv, SpawnInv, NEW a \in Callers, AgentStep(a)
  PROVE  SpawnInv'
  <1>1. CASE Drain(a)
    BY <1>1, GoOn, EndRun DEF Drain, At
  <1>2. CASE InvokeModel(a) \/ StreamModel(a) \/ Fallback(a)
    <2>1. agent[a].pc \in {"ready", "fallback"}
      BY <1>2 DEF InvokeModel, StreamModel, Fallback, At
    <2>2. \/ \E kind : CallModel(a, kind)
          \/ \E result : End(a, result)
          \/ Go(a, "fallback")
      BY <1>2 DEF InvokeModel, StreamModel, Fallback, Suspend
    <2> QED BY <2>1, <2>2, CallModelSpawn, EndRun, GoOn
  <1>3. CASE NoProvider(a) \/ CallFailed(a) \/ AckFailed(a)
    BY <1>3, EndRun DEF NoProvider, CallFailed, AckFailed
  <1>4. CASE StreamBroke(a)
    BY <1>4, GoOn DEF StreamBroke, At
  <1>5. CASE CallPreempted(a)
    BY <1>5, StillAgents DEF CallPreempted, gatewayVars
  <1>6. ASSUME NEW k \in Kids[a], CollectKid(a, k)
        PROVE  SpawnInv'
    BY <1>6, CollectKidSpawn
  <1> QED BY <1>1, <1>2, <1>3, <1>4, <1>5, <1>6, AnsweredSpawn, StartBatchSpawn,
             HandleToolCallSpawn, EndTurnSpawn, FinalizeSpawn
          DEF AgentStep

LEMMA NextSpawn ==
  ASSUME GatewayInv, SpawnInv, [Next]_vars
  PROVE  SpawnInv'
  <1>1. ASSUME NEW a \in Callers, StartRun(a)
        PROVE  SpawnInv'
    BY <1>1, RootStep DEF StartRun
  <1>2. ASSUME NEW a \in Callers, SendAbort(a) \/ FinallySchedule(a)
        PROVE  SpawnInv'
    BY <1>2, StillAgents DEF SendAbort, FinallySchedule, gatewayVars
  <1>3. CASE VoiceCallBegins \/ VoiceCallEnds \/ UNCHANGED vars
    BY <1>3, StillAgents DEF VoiceCallBegins, VoiceCallEnds, gatewayVars, vars
  <1> QED BY <1>1, <1>2, <1>3, AgentStepSpawn DEF Next

LEMMA InitSpawn ==
  ASSUME Init
  PROVE  SpawnInv
  <1>1. \A a \in Callers : agent[a] = Idle
    BY DEF Init
  <1>2. PICK i : i = Idle
    OBVIOUS
  <1>3. /\ i.kids = {} /\ i.spawned = 0 /\ i.unpriced = 0 /\ i.calls = <<>> /\ i.limit = 0
    BY <1>2 DEF Idle, Fresh
  <1>4. Cardinality(Dispatches(i.calls)) =< MaxBatch
    BY <1>3, NoneLeft
  <1>5. \A a \in Callers : Frugal(a, i)
    BY <1>3, <1>4 DEF Frugal
  <1>6. Held(agent, i)
    BY <1>3, NobodyHeld
  <1> QED BY <1>1, <1>2, <1>5, <1>6 DEF SpawnInv

\* The budget invariant: an agent whose children dispatch nothing has spent, and
\* holds for the children it awaits, no more than the bound.
THEOREM SpawnInvariant == Spec => []SpawnInv
  <1>1. Init => SpawnInv
    BY InitSpawn
  <1>2. GatewayInv /\ SpawnInv /\ [Next]_vars => SpawnInv'
    BY NextSpawn
  <1> QED BY <1>1, <1>2, AgentInvariant, PTL DEF Spec

\* What is spent is within the bound.
LEMMA SpentBounded ==
  ASSUME GatewayInv, SpawnInv, NEW a \in Callers, OneLevel(a)
  PROVE  agent[a].spawned =< MaxBatch * (Ceiling + ExtraUnits) + agent[a].unpriced
  <1>1. PICK s \in Nat, u \in Nat, b \in Nat, p \in Nat :
          /\ s = agent[a].spawned /\ u = agent[a].unpriced /\ p = s - u
          /\ b = MaxBatch * (Ceiling + ExtraUnits)
    BY SpawnFacts, Numbers DEF Frugal
  <1>2. Held(agent, agent[a])
    BY SpawnFacts
  <1>3. PICK D \in Nat : Within(p, Cardinality(Priced(agent, agent[a])), D)
    BY <1>1, <1>2 DEF Held
  <1>4. Cardinality(Priced(agent, agent[a])) \in Nat
    <2>1. IsFiniteSet(agent[a].kids) /\ Priced(agent, agent[a]) \in SUBSET agent[a].kids
      BY <1>2 DEF Held, Priced
    <2> QED BY <2>1, FS_Subset, FS_CardinalityType
  <1>5. p =< b
    BY <1>1, <1>3, <1>4, SpentWithin
  <1>6. s =< b + u
    BY <1>1, <1>5
  <1> QED BY <1>1, <1>6

\* The spawn ceiling of BudgetTracker: every agent whose children are leaves spends
\* at most a batch of children over it, children dispatched without a budget aside.
THEOREM SpawnCorrect ==
  ASSUME \A a \in Callers : OneLevel(a)
  PROVE  Spec => []SpawnBound
  <1>1. GatewayInv /\ SpawnInv => SpawnBound
    BY SpentBounded DEF SpawnBound
  <1> QED BY <1>1, AgentInvariant, SpawnInvariant, PTL

================================================================================
