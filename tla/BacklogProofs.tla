----------------------------- MODULE BacklogProofs -----------------------------
(***************************************************************************)
(* Proofs about the System backlog queue, for any entries, leases, ranks   *)
(* and capacity.  BacklogInv ties the stored statuses to the calls that    *)
(* are in flight: every active entry has one running execution and every   *)
(* running execution an active entry, an entry a lease's notification has  *)
(* listed is still suspended on that lease, and queued work has somebody   *)
(* who will look at it.                                                    *)
(***************************************************************************)
EXTENDS Backlog, FiniteSetTheorems, WellFoundedInduction, TLAPS

ExecCall == [entry : Entry, slot : Nat, at : {"begin", "run", "store", "finally"},
             prepared : Checkpoint \cup {None}, again : BOOLEAN,
             result : {"resolved", "suspended", None}, on : Lease \cup {None}]

\* Active entries and running executions correspond one to one.
ActiveInv ==
  /\ IsFiniteSet(exec) /\ IsFiniteSet(With("active"))
  /\ Cardinality(With("active")) =< activeCapacity
  /\ \A x \in Running : st[x.entry] = "active"
  /\ \A x, y \in Running : x.entry = y.entry => x = y
  /\ \A e \in With("active") : \E x \in Running : x.entry = e
  /\ \A x \in exec : x.at = "store" => x.result \in {"resolved", "suspended"}

\* What the promotion in flight found out still holds.
PromoterInv ==
  /\ promoter \in {"pick", "activate"} => Cardinality(With("active")) < activeCapacity
  /\ promoter = "activate" => next \in Entry /\ st[next] = "queued"
  /\ sawIdle => promoter = "pick" /\ With("active") = {} /\ With("suspended") = {}

\* The entries a notification has listed wait for it.
TodoInv == \A l \in Lease : \A e \in todo[l] : st[e] = "suspended" /\ detail[e] = l

KickInv == With("queued") # {} => Stirring
WaiterInv == waiting /\ Idle => exec # {}

\* An execution prepares on the ledger as it will find it, and a ledger that has a
\* checkpoint belongs to an entry that was suspended or will not run again.
LedgerInv ==
  /\ \A x \in exec : /\ x.again => x.entry \in deferred
                     /\ x.at = "run" /\ ~x.again /\ x.prepared # None
                          => x.prepared = Prepare(ledger[x.entry])
  /\ \A e \in Entry : ledger[e] # <<>> =>
       \/ e \in deferred \/ st[e] \in {"resolved", "pruned"}
       \/ \E x \in exec : x.entry = e /\ x.at = "store" /\ x.result = "resolved"
  /\ ChainStaysValid

BacklogInv ==
  TypeOK /\ ActiveInv /\ PromoterInv /\ TodoInv /\ KickInv /\ WaiterInv /\ LedgerInv

--------------------------------------------------------------------------------
(* Sets of entries and of executions.                                          *)

\* A call of execute() finds a free slot.
LEMMA FreeSlotType ==
  ASSUME IsFiniteSet(exec), NEW e
  PROVE  FreeSlot(e) \in Nat
  <1> DEFINE n == Cardinality(exec)
             Free == {i \in 1 .. n + 1 : \A x \in exec : x.entry = e => x.slot # i}
  <1>1. n \in Nat
    BY FS_CardinalityType
  <1>2. Free # {}
    <2>1. SUFFICES ASSUME Free = {} PROVE FALSE
      OBVIOUS
    <2>2. \A i \in 1 .. n + 1 : \E x \in exec : x.slot = i
      BY <2>1
    <2> DEFINE f == [i \in 1 .. n + 1 |-> CHOOSE x \in exec : x.slot = i]
    <2>3. \A i \in 1 .. n + 1 : f[i] \in exec /\ f[i].slot = i
      BY <2>2
    <2>4. f \in [1 .. n + 1 -> exec]
      BY <2>3
    <2>5. IsFiniteSet(1 .. n + 1) /\ Cardinality(1 .. n + 1) = n + 1
      BY <1>1, FS_Interval
    <2> HIDE DEF f
    <2>6. \E i, j \in 1 .. n + 1 : i # j /\ f[i] = f[j]
      BY <1>1, <2>4, <2>5, FS_PigeonHole
    <2> QED BY <2>3, <2>6
  <1>3. Free \subseteq Nat
    BY <1>1
  <1>4. PICK i \in Free : \A j \in Free : <<j, i>> \notin OpToRel(<, Nat)
    BY <1>2, <1>3, NatLessThanWellFounded, WFMin
  <1>5. \A j \in Free : ~(j < i)
    BY <1>3, <1>4 DEF OpToRel
  <1>6. \A j \in 1 .. i - 1 : \E x \in exec : x.entry = e /\ x.slot = j
    <2> SUFFICES ASSUME NEW j \in 1 .. i - 1, \A x \in exec : x.entry = e => x.slot # j
                 PROVE  FALSE
      OBVIOUS
    <2>1. j \in 1 .. n + 1 /\ j < i
      BY <1>1, <1>3
    <2> QED BY <1>5, <2>1
  <1>7. \E k \in 1 .. n + 1 : /\ \A x \in exec : x.entry = e => x.slot # k
                              /\ \A j \in 1 .. k - 1 : \E x \in exec : x.entry = e /\ x.slot = j
    BY <1>6
  <1>8. FreeSlot(e) \in 1 .. n + 1
    BY <1>7 DEF FreeSlot
  <1> QED BY <1>1, <1>8

\* The active entries bound the running executions.
LEMMA RunningBound ==
  ASSUME ActiveInv, TypeOK
  PROVE  CapacityRespected
  <1>1. /\ IsFiniteSet(With("active")) /\ Cardinality(With("active")) =< activeCapacity
        /\ \A x \in Running : x.entry \in With("active")
        /\ \A x, y \in Running : x.entry = y.entry => x = y
    BY DEF ActiveInv, TypeOK, With, Running
  <1> DEFINE f == [x \in Running |-> x.entry]
  <1>2. f \in Injection(Running, With("active"))
    BY <1>1 DEF Injection, IsInjective
  <1>3. IsFiniteSet(Running) /\ Cardinality(Running) =< Cardinality(With("active"))
    BY <1>1, <1>2, FS_Injection
  <1>4. Cardinality(Running) \in Nat /\ Cardinality(With("active")) \in Nat /\ activeCapacity \in Nat
    BY <1>1, <1>3, FS_CardinalityType, BacklogAssumption
  <1>5. Cardinality(Running) =< activeCapacity
    BY <1>1, <1>3, <1>4
  <1> QED BY <1>5 DEF CapacityRespected, ActiveInv

\* Statuses and executions that do not change.
LEMMA WithFrame ==
  ASSUME UNCHANGED st
  PROVE  /\ With("queued")' = With("queued") /\ With("active")' = With("active")
         /\ With("suspended")' = With("suspended") /\ (Idle' <=> Idle)
  BY DEF With, Idle

LEMMA QuietFrame ==
  ASSUME ActiveInv, LedgerInv, UNCHANGED <<st, exec, ledger, deferred>>
  PROVE  ActiveInv' /\ LedgerInv'
  BY WithFrame DEF ActiveInv, LedgerInv, Running, ChainStaysValid

\* An execution that goes on, of the same entry.
LEMMA MoveFrame ==
  ASSUME ActiveInv, UNCHANGED st, NEW x \in exec, NEW y, Move(x, y),
         x.at # "finally", y.at # "finally", y.entry = x.entry,
         y.at = "store" => y.result \in {"resolved", "suspended"}
  PROVE  /\ ActiveInv' /\ exec' # {} /\ y \in exec' /\ x \in Running
         /\ \A z \in exec : z # x => z \in exec'
         /\ \A z \in exec' : z = y \/ (z \in exec /\ z # x)
  <1>1. exec' = (exec \ {x}) \cup {y}
    BY DEF Move
  <1>2. IsFiniteSet(exec')
    BY <1>1, FS_AddElement, FS_RemoveElement DEF ActiveInv
  <1>3. /\ Running' = (Running \ {x}) \cup {y} /\ x \in Running
    BY <1>1 DEF Running
  <1>4. /\ \A z \in Running' : st'[z.entry] = "active"
        /\ \A z, w \in Running' : z.entry = w.entry => z = w
        /\ \A z \in exec' : z.at = "store" => z.result \in {"resolved", "suspended"}
    BY <1>1, <1>3 DEF ActiveInv
  <1>5. \A e \in With("active") : \E z \in Running' : z.entry = e
    BY <1>3 DEF ActiveInv
  <1>6. ActiveInv'
    BY <1>2, <1>4, <1>5, WithFrame DEF ActiveInv
  <1> QED BY <1>1, <1>3, <1>6

--------------------------------------------------------------------------------
(* Every action preserves the invariant.                                       *)

LEMMA InvInit == Init => BacklogInv
  <1> SUFFICES ASSUME Init PROVE BacklogInv
    OBVIOUS
  <1> USE DEF Init
  <1>1. With("queued") = {} /\ With("active") = {} /\ With("suspended") = {} /\ Running = {}
    BY DEF With, Running
  <1>2. TypeOK
    <2>1. restarts \in 0 .. MaxRestarts /\ kicks \in Nat
      BY BacklogAssumption
    <2>2. ledger \in [Entry -> Seq(Checkpoint)]
      OBVIOUS
    <2>3. /\ st \in [Entry -> Status] /\ detail \in [Entry -> Lease \cup {None}]
          /\ notify \in [Lease -> {"none", "list", "requeue"}] /\ todo \in [Lease -> SUBSET Entry]
      BY DEF Status
    <2> QED BY <2>1, <2>2, <2>3 DEF TypeOK
  <1>3. ActiveInv
    <2>1. /\ \A x \in Running : st[x.entry] = "active"
          /\ \A x, y \in Running : x.entry = y.entry => x = y
          /\ \A e \in With("active") : \E x \in Running : x.entry = e
          /\ \A x \in exec : x.at = "store" => x.result \in {"resolved", "suspended"}
      BY <1>1
    <2>2. /\ IsFiniteSet(exec) /\ IsFiniteSet(With("active"))
          /\ Cardinality(With("active")) =< activeCapacity
      <3>1. IsFiniteSet(exec) /\ IsFiniteSet(With("active")) /\ Cardinality(With("active")) = 0
        BY <1>1, FS_EmptySet
      <3> QED BY <3>1, BacklogAssumption
    <2> QED BY <2>1, <2>2 DEF ActiveInv
  <1>4. PromoterInv /\ TodoInv /\ KickInv /\ WaiterInv
    BY <1>1 DEF PromoterInv, TodoInv, KickInv, WaiterInv
  <1>5. LedgerInv
    BY DEF LedgerInv, ChainStaysValid, validateChain
  <1> QED BY <1>2, <1>3, <1>4, <1>5 DEF BacklogInv

LEMMA EnqueueInv ==
  ASSUME BacklogInv, NEW e \in Entry, Enqueue(e)
  PROVE  BacklogInv'
  <1> USE DEF BacklogInv
  <1>1. /\ st[e] = "new" /\ st' = [st EXCEPT ![e] = "queued"] /\ kicks' = kicks + 1
        /\ UNCHANGED <<detail, promoteVars, exec, leaseVars, waiting, entryVars>>
    BY DEF Enqueue
  <1> USE DEF promoteVars, leaseVars, entryVars
  <1>2. st \in [Entry -> Status] /\ kicks \in Nat
    BY DEF TypeOK
  <1>3. /\ With("active")' = With("active") /\ With("suspended")' = With("suspended")
        /\ With("queued")' = With("queued") \cup {e}
        /\ \A f \in Entry : f # e => st'[f] = st[f]
    BY <1>1, <1>2 DEF With
  <1>4. TypeOK'
    BY <1>1, <1>2 DEF TypeOK, Status
  <1>5. ActiveInv'
    <2>1. \A x \in Running : x.entry \in Entry /\ x.entry # e
      BY <1>1 DEF ActiveInv, TypeOK, Running
    <2> QED BY <1>1, <1>3, <2>1 DEF ActiveInv, Running
  <1>6. PromoterInv'
    BY <1>1, <1>3 DEF PromoterInv
  <1>7. TodoInv'
    BY <1>1, <1>3 DEF TodoInv, TypeOK
  <1>8. KickInv'
    BY <1>1, <1>2 DEF KickInv, Stirring
  <1>9. WaiterInv'
    BY <1>3 DEF WaiterInv, Idle
  <1>10. LedgerInv'
    BY <1>1, <1>3 DEF LedgerInv, ChainStaysValid
  <1> QED BY <1>4, <1>5, <1>6, <1>7, <1>8, <1>9, <1>10

\* The steps that store nothing and leave the executions alone.
LEMMA QuietInv ==
  ASSUME BacklogInv,
         \/ WhenIdle \/ Promote \/ CheckCapacity \/ Pick \/ releaseLease
         \/ \E l \in Lease : acquireLease(l) \/ ListSuspended(l)
  PROVE  BacklogInv'
  <1> USE DEF BacklogInv
  <1> USE DEF storeVars, promoteVars, leaseVars, entryVars
  <1>1. UNCHANGED <<st, detail, exec, ledger, deferred, restarts>>
    BY DEF WhenIdle, Promote, CheckCapacity, Pick, releaseLease, acquireLease, ListSuspended
  <1>2. ActiveInv' /\ LedgerInv'
    BY <1>1, QuietFrame
  <1>3. /\ With("queued")' = With("queued") /\ With("active")' = With("active")
        /\ With("suspended")' = With("suspended") /\ (Idle' <=> Idle)
    BY <1>1, WithFrame
  <1>4. /\ st \in [Entry -> Status] /\ kicks \in Nat /\ sawIdle \in BOOLEAN /\ waiting \in BOOLEAN
        /\ notify \in [Lease -> {"none", "list", "requeue"}] /\ todo \in [Lease -> SUBSET Entry]
        /\ lease \in leases \cup {None} /\ leases \subseteq Lease
        /\ Cardinality(With("active")) \in Nat /\ activeCapacity \in Nat \ {0}
    BY FS_CardinalityType, BacklogAssumption DEF TypeOK, ActiveInv
  <1>5. CASE WhenIdle
    <2>1. /\ ~Idle /\ waiting' = TRUE
          /\ UNCHANGED <<kicks, promoter, next, sawIdle, lease, leases, notify, todo>>
      BY <1>5 DEF WhenIdle
    <2>2. TypeOK'
      BY <1>1, <2>1 DEF TypeOK
    <2>3. PromoterInv' /\ TodoInv' /\ KickInv' /\ WaiterInv'
      BY <1>1, <1>3, <2>1 DEF PromoterInv, TodoInv, KickInv, Stirring, WaiterInv
    <2> QED BY <1>2, <2>2, <2>3
  <1>6. CASE Promote
    <2>1. /\ kicks > 0 /\ kicks' = kicks - 1
          /\ promoter' = IF promoter = "off" THEN "capacity" ELSE promoter
          /\ UNCHANGED <<next, sawIdle, lease, leases, notify, todo, waiting>>
      BY <1>6 DEF Promote
    <2>2. TypeOK'
      BY <1>1, <1>4, <2>1 DEF TypeOK
    <2>3. PromoterInv' /\ TodoInv' /\ KickInv' /\ WaiterInv'
      BY <1>1, <1>3, <2>1 DEF PromoterInv, TodoInv, KickInv, Stirring, WaiterInv
    <2> QED BY <1>2, <2>2, <2>3
  <1>7. CASE CheckCapacity
    <2>1. /\ promoter = "capacity"
          /\ promoter' = IF Cardinality(With("active")) >= activeCapacity THEN "off" ELSE "pick"
          /\ sawIdle' = (promoter' = "pick" /\ Idle)
          /\ UNCHANGED <<kicks, next, lease, leases, notify, todo, waiting>>
      BY <1>7 DEF CheckCapacity
    <2>2. TypeOK'
      <3>1. sawIdle' \in BOOLEAN
        BY <2>1 DEF Idle
      <3> QED BY <1>1, <2>1, <3>1 DEF TypeOK
    <2>3. PromoterInv' /\ TodoInv' /\ WaiterInv'
      BY <1>1, <1>3, <1>4, <2>1 DEF PromoterInv, TodoInv, WaiterInv, Idle
    \* At its capacity the queue has an active entry, and that has an execution.
    <2>4. promoter' = "off" => exec # {}
      <3>1. promoter' = "off" => With("active") # {}
        <4>1. Cardinality({}) = 0
          BY FS_EmptySet
        <4>2. promoter' = "off" => Cardinality(With("active")) # 0
          BY <1>4, <2>1
        <4> QED BY <4>1, <4>2
      <3> QED BY <3>1 DEF ActiveInv, Running
    <2>5. KickInv'
      BY <1>1, <2>1, <2>4 DEF KickInv, Stirring
    <2> QED BY <1>2, <2>2, <2>3, <2>5
  <1>8. CASE Pick
    <2>1. /\ promoter = "pick" /\ sawIdle' = FALSE
          /\ UNCHANGED <<kicks, lease, leases, notify, todo>>
      BY <1>8 DEF Pick
    <2>2. CASE With("queued") = {} /\ promoter' = "off" /\ waiting' = (waiting /\ ~sawIdle)
               /\ UNCHANGED next
      <3>1. waiting' \in BOOLEAN /\ (waiting' => waiting)
        BY <1>4, <2>2
      <3>2. TypeOK'
        BY <1>1, <2>1, <2>2, <3>1 DEF TypeOK
      <3>3. PromoterInv' /\ TodoInv' /\ KickInv' /\ WaiterInv'
        BY <1>1, <1>3, <2>1, <2>2, <3>1 DEF PromoterInv, TodoInv, KickInv, WaiterInv
      <3> QED BY <1>2, <3>2, <3>3
    <2>3. CASE promoter' = "activate" /\ next' \in First /\ UNCHANGED waiting
      <3>1. next' \in Entry /\ st[next'] = "queued"
        BY <2>3 DEF First, With
      <3>2. TypeOK'
        BY <1>1, <2>1, <2>3, <3>1 DEF TypeOK
      <3>3. PromoterInv' /\ TodoInv' /\ KickInv' /\ WaiterInv'
        BY <1>1, <1>3, <2>1, <2>3, <3>1 DEF PromoterInv, TodoInv, KickInv, Stirring, WaiterInv
      <3> QED BY <1>2, <3>2, <3>3
    <2> QED BY <1>8, <2>2, <2>3 DEF Pick
  <1>9. CASE releaseLease
    <2>1. /\ lease # None /\ lease' = None
          /\ notify' = [notify EXCEPT ![lease] = "list"]
          /\ UNCHANGED <<kicks, promoter, next, sawIdle, leases, todo, waiting>>
      BY <1>9 DEF releaseLease
    <2>2. lease \in Lease /\ notify'[lease] = "list"
      BY <1>4, <2>1
    <2>3. TypeOK'
      BY <1>1, <1>4, <2>1 DEF TypeOK
    <2>4. PromoterInv' /\ TodoInv' /\ WaiterInv'
      BY <1>1, <1>3, <2>1 DEF PromoterInv, TodoInv, WaiterInv
    <2>5. KickInv'
      BY <1>1, <2>2 DEF KickInv, Stirring
    <2> QED BY <1>2, <2>3, <2>4, <2>5
  <1>10. ASSUME NEW l \in Lease, acquireLease(l) PROVE BacklogInv'
    <2>1. /\ lease' = l /\ leases' = leases \cup {l}
          /\ UNCHANGED <<kicks, promoter, next, sawIdle, notify, todo, waiting>>
      BY <1>10 DEF acquireLease
    <2>2. TypeOK'
      BY <1>1, <1>4, <2>1 DEF TypeOK
    <2>3. PromoterInv' /\ TodoInv' /\ KickInv' /\ WaiterInv'
      BY <1>1, <1>3, <2>1 DEF PromoterInv, TodoInv, KickInv, Stirring, WaiterInv
    <2> QED BY <1>2, <2>2, <2>3
  <1>11. ASSUME NEW l \in Lease, ListSuspended(l) PROVE BacklogInv'
    <2> DEFINE M == {e \in With("suspended") : detail[e] = l}
    <2>1. /\ todo' = [todo EXCEPT ![l] = M]
          /\ notify' = [notify EXCEPT ![l] = IF M = {} THEN "none" ELSE "requeue"]
          /\ kicks' = IF M = {} THEN kicks + 1 ELSE kicks
          /\ UNCHANGED <<promoter, next, sawIdle, lease, leases, waiting>>
      BY <1>11 DEF ListSuspended, matchSuspensionCriteria
    <2>2. \A e \in M : e \in Entry /\ st[e] = "suspended" /\ detail[e] = l
      BY DEF With
    <2> HIDE DEF M
    <2>3. TypeOK'
      BY <1>1, <1>4, <2>1, <2>2 DEF TypeOK
    <2>4. PromoterInv' /\ WaiterInv'
      BY <1>1, <1>3, <2>1 DEF PromoterInv, WaiterInv
    <2>5. TodoInv'
      BY <1>1, <1>4, <2>1, <2>2 DEF TodoInv
    <2>6. kicks' > 0 \/ notify'[l] # "none"
      BY <1>4, <2>1
    <2>7. KickInv'
      BY <2>6 DEF KickInv, Stirring
    <2> QED BY <1>2, <2>3, <2>4, <2>5, <2>7
  <1> QED BY <1>5, <1>6, <1>7, <1>8, <1>9, <1>10, <1>11

LEMMA ActivateInv ==
  ASSUME BacklogInv, Activate
  PROVE  BacklogInv'
  <1> USE DEF BacklogInv, storeVars, promoteVars, leaseVars, entryVars
  <1>1. PICK e \in Entry : e = next /\ st[e] = "queued"
    BY DEF Activate, PromoterInv
  <1>2. PICK y : y = [entry |-> e, slot |-> FreeSlot(e), at |-> "begin", prepared |-> None,
                      again |-> FALSE, result |-> None, on |-> None]
    OBVIOUS
  <1>3. /\ st' = [st EXCEPT ![e] = "active"] /\ exec' = exec \cup {y}
        /\ promoter = "activate" /\ promoter' = "capacity" /\ next' = None
        /\ UNCHANGED <<detail, kicks, sawIdle, lease, leases, notify, todo, waiting,
                       ledger, deferred, restarts>>
    BY <1>1, <1>2 DEF Activate
  <1>4. y \in ExecCall /\ y.entry = e /\ y.at = "begin" /\ y.again = FALSE
    BY <1>2, FreeSlotType DEF ExecCall, ActiveInv
  <1>5. st \in [Entry -> Status]
    BY DEF TypeOK
  <1>6. /\ With("active")' = With("active") \cup {e} /\ e \notin With("active")
        /\ With("queued")' = With("queued") \ {e}
        /\ \A f \in Entry : f # e => st'[f] = st[f]
    BY <1>1, <1>3, <1>5 DEF With
  <1>7. TypeOK'
    <2>1. exec' \subseteq ExecCall
      BY <1>3, <1>4 DEF TypeOK, ExecCall
    <2> QED BY <1>3, <1>5, <2>1 DEF TypeOK, Status, ExecCall
  <1>8. ActiveInv'
    <2>1. IsFiniteSet(exec') /\ IsFiniteSet(With("active")')
      BY <1>3, <1>6, FS_AddElement DEF ActiveInv
    <2>2. Cardinality(With("active")') =< activeCapacity
      <3>1. Cardinality(With("active")') = Cardinality(With("active")) + 1
        BY <1>6, FS_AddElement DEF ActiveInv
      <3>2. Cardinality(With("active")) < activeCapacity /\ Cardinality(With("active")) \in Nat
        BY <1>3, FS_CardinalityType DEF ActiveInv, PromoterInv
      <3> QED BY <3>1, <3>2, BacklogAssumption
    <2>3. Running' = Running \cup {y}
      BY <1>3, <1>4 DEF Running
    <2>4. \A x \in Running : x.entry \in Entry /\ x.entry # e
      BY <1>1 DEF ActiveInv, TypeOK, Running
    <2>5. /\ \A x \in Running' : st'[x.entry] = "active"
          /\ \A x, z \in Running' : x.entry = z.entry => x = z
          /\ \A f \in With("active")' : \E x \in Running' : x.entry = f
          /\ \A x \in exec' : x.at = "store" => x.result \in {"resolved", "suspended"}
      BY <1>3, <1>4, <1>5, <1>6, <2>3, <2>4 DEF ActiveInv
    <2> QED BY <2>1, <2>2, <2>5 DEF ActiveInv
  <1>9. PromoterInv'
    BY <1>3 DEF PromoterInv
  <1>10. TodoInv'
    BY <1>1, <1>3, <1>6 DEF TodoInv, TypeOK
  <1>11. KickInv' /\ WaiterInv'
    BY <1>3 DEF KickInv, Stirring, WaiterInv
  <1>12. LedgerInv'
    BY <1>1, <1>3, <1>4, <1>6 DEF LedgerInv, ChainStaysValid
  <1> QED BY <1>7, <1>8, <1>9, <1>10, <1>11, <1>12

\* A committed checkpoint that was prepared on the ledger extends the chain.
LEMMA CommitKeepsChain ==
  ASSUME NEW s \in Seq(Checkpoint), validateChain(s)
  PROVE  /\ validateChain(Commit(s, Prepare(s))) /\ Commit(s, Prepare(s)) \in Seq(Checkpoint)
         /\ Commit(s, Prepare(s)) # <<>>
  <1>1. Prepare(s) \in Checkpoint
    BY DEF Prepare, Checkpoint
  <1>2. /\ Commit(s, Prepare(s)) \in Seq(Checkpoint)
        /\ Len(Commit(s, Prepare(s))) = Len(s) + 1
        /\ Commit(s, Prepare(s))[Len(s) + 1] = Prepare(s)
        /\ \A i \in 1 .. Len(s) : Commit(s, Prepare(s))[i] = s[i]
    BY <1>1 DEF Commit
  <1>3. Len(s) \in Nat /\ (s = <<>> <=> Len(s) = 0) /\ DOMAIN s = 1 .. Len(s)
    OBVIOUS
  <1>4. DOMAIN Commit(s, Prepare(s)) = 1 .. Len(s) + 1
    BY <1>2, <1>3
  <1>5. ASSUME NEW i \in 1 .. Len(s) + 1
        PROVE  Commit(s, Prepare(s))[i] = IF i = 1 THEN NullHash ELSE StateHash
    <2>1. CASE i \in 1 .. Len(s)
      BY <1>2, <1>3, <2>1 DEF validateChain
    <2>2. CASE i = Len(s) + 1
      BY <1>2, <1>3, <2>2 DEF Prepare, getLastCommitted
    <2> QED BY <1>3, <2>1, <2>2
  <1>6. Commit(s, Prepare(s)) # <<>>
    BY <1>2, <1>3
  <1> QED BY <1>2, <1>4, <1>5, <1>6 DEF validateChain

\* An execution that goes on leaves everything but itself and its ledger alone.
LEMMA MoveInv ==
  ASSUME BacklogInv, NEW x \in exec, NEW y \in ExecCall, Move(x, y), Keep,
         x.at # "finally", y.at # "finally", y.entry = x.entry,
         y.at = "store" => y.result \in {"resolved", "suspended"},
         deferred' \subseteq Entry, ledger' \in [Entry -> Seq(Checkpoint)],
         LedgerInv'
  PROVE  BacklogInv'
  <1> USE DEF BacklogInv, Keep, storeVars, promoteVars, leaseVars
  <1>1. /\ ActiveInv' /\ exec' # {}
        /\ \A z \in exec' : z = y \/ (z \in exec /\ z # x)
    BY MoveFrame
  <1>2. exec' \subseteq ExecCall
    BY <1>1 DEF TypeOK, ExecCall
  <1>3. TypeOK'
    BY <1>2 DEF TypeOK, ExecCall
  <1>4. PromoterInv' /\ TodoInv'
    BY WithFrame DEF PromoterInv, TodoInv
  <1>5. KickInv' /\ WaiterInv'
    BY <1>1 DEF KickInv, Stirring, WaiterInv
  <1> QED BY <1>1, <1>3, <1>4, <1>5

\* A running execution prepares and commits alone: nobody else appends to its ledger.
LEMMA AgentInv ==
  ASSUME BacklogInv, NEW x \in exec,
         \/ GateBlocks(x) \/ BeginEntry(x) \/ AgentReturns(x) \/ AgentFails(x)
         \/ AgentMeetsLease(x)
  PROVE  BacklogInv'
  <1> USE DEF BacklogInv
  <1>1. /\ x \in ExecCall /\ x.entry \in Entry /\ x.prepared \in Checkpoint \cup {None}
        /\ ledger \in [Entry -> Seq(Checkpoint)] /\ deferred \subseteq Entry
        /\ lease \in Lease \cup {None}
    BY DEF TypeOK, ExecCall
  <1>2. /\ x.at \in {"begin", "run"} /\ Keep /\ x \in Running
        /\ UNCHANGED st
    BY DEF GateBlocks, BeginEntry, AgentReturns, AgentFails, AgentMeetsLease, Keep, Running,
           storeVars
  <1>3. /\ \A z \in exec : z.again => z.entry \in deferred
        /\ x.at = "run" /\ ~x.again /\ x.prepared # None => x.prepared = Prepare(ledger[x.entry])
        /\ \A e \in Entry : validateChain(ledger[e])
    BY DEF LedgerInv, ChainStaysValid
  \* No other execution of the entry is running.
  <1>4. \A z \in exec : z # x /\ z.at # "finally" => z.entry # x.entry
    BY <1>2 DEF ActiveInv, Running
  <1>5. st[x.entry] = "active"
    BY <1>2 DEF ActiveInv
  <1>6. ASSUME NEW y \in ExecCall, Move(x, y), y.at \in {"run", "store"}, y.entry = x.entry,
               y.at = "store" => y.result \in {"resolved", "suspended"},
               y.again => y.entry \in deferred',
               y.at = "run" /\ ~y.again /\ y.prepared # None => y.prepared = Prepare(ledger'[y.entry]),
               deferred \subseteq deferred', deferred' \subseteq Entry,
               \/ ledger' = ledger
               \/ ledger' = [ledger EXCEPT ![x.entry] = Commit(ledger[x.entry], Prepare(ledger[x.entry]))],
               ledger'[x.entry] # <<>> =>
                  x.entry \in deferred' \/ (y.at = "store" /\ y.result = "resolved")
        PROVE  BacklogInv'
    <2>1. /\ y \in exec' /\ \A z \in exec : z # x => z \in exec'
          /\ \A z \in exec' : z = y \/ (z \in exec /\ z # x)
      BY <1>2, <1>6, MoveFrame
    <2>2. /\ ledger' \in [Entry -> Seq(Checkpoint)]
          /\ \A e \in Entry : validateChain(ledger'[e])
          /\ \A e \in Entry \ {x.entry} : ledger'[e] = ledger[e]
      <3>1. CASE ledger' = ledger
        BY <1>1, <1>3, <3>1
      <3>2. CASE ledger' = [ledger EXCEPT ![x.entry] = Commit(ledger[x.entry], Prepare(ledger[x.entry]))]
        <4>1. PICK s : s = Commit(ledger[x.entry], Prepare(ledger[x.entry]))
          OBVIOUS
        <4>2. s \in Seq(Checkpoint) /\ validateChain(s)
          BY <1>1, <1>3, <4>1, CommitKeepsChain
        <4> QED BY <1>1, <1>3, <3>2, <4>1, <4>2
      <3> QED BY <1>6, <3>1, <3>2
    <2>3. \A z \in exec' :
            /\ z.again => z.entry \in deferred'
            /\ z.at = "run" /\ ~z.again /\ z.prepared # None
                 => z.prepared = Prepare(ledger'[z.entry])
      <3> SUFFICES ASSUME NEW z \in exec', z # y
                   PROVE  /\ z.again => z.entry \in deferred'
                          /\ z.at = "run" /\ ~z.again /\ z.prepared # None
                               => z.prepared = Prepare(ledger'[z.entry])
        BY <1>6
      <3>1. z \in exec /\ z # x /\ z.entry \in Entry
        BY <2>1 DEF TypeOK
      <3>2. z.at = "run" => ledger'[z.entry] = ledger[z.entry]
        BY <1>4, <2>2, <3>1
      <3> QED BY <1>6, <3>1, <3>2 DEF LedgerInv
    <2>4. \A e \in Entry : ledger'[e] # <<>> =>
            \/ e \in deferred' \/ st'[e] \in {"resolved", "pruned"}
            \/ \E z \in exec' : z.entry = e /\ z.at = "store" /\ z.result = "resolved"
      <3> SUFFICES ASSUME NEW e \in Entry, ledger'[e] # <<>>
                   PROVE  \/ e \in deferred' \/ st'[e] \in {"resolved", "pruned"}
                          \/ \E z \in exec' : z.entry = e /\ z.at = "store" /\ z.result = "resolved"
        OBVIOUS
      <3>1. CASE e = x.entry
        BY <1>6, <2>1, <3>1
      <3>2. CASE e # x.entry
        BY <1>2, <1>6, <2>1, <2>2, <3>2 DEF LedgerInv
      <3> QED BY <3>1, <3>2
    <2>5. LedgerInv'
      BY <2>2, <2>3, <2>4 DEF LedgerInv, ChainStaysValid
    <2> QED BY <1>2, <1>6, <2>2, <2>5, MoveInv
  \* Returning, with the checkpoint committed or not.
  <1>7. ASSUME NEW result \in {"resolved", "suspended"}, NEW on \in Lease \cup {None},
               Returns(x, result, on), deferred \subseteq deferred', deferred' \subseteq Entry,
               (CommitPrepared(x) /\ x.at = "run") \/ ledger' = ledger,
               result = "suspended" => x.entry \in deferred'
        PROVE  BacklogInv'
    <2>1. PICK y : y = [x EXCEPT !.at = "store", !.prepared = None, !.again = FALSE,
                                 !.result = result, !.on = on]
      OBVIOUS
    <2>2. /\ y \in ExecCall /\ y.at = "store" /\ y.entry = x.entry /\ y.result = result
          /\ y.again = FALSE
      BY <1>1, <2>1 DEF ExecCall
    <2>3. Move(x, y)
      BY <1>7, <2>1 DEF Returns
    <2>4. \/ ledger' = ledger
          \/ ledger' = [ledger EXCEPT ![x.entry] = Commit(ledger[x.entry], Prepare(ledger[x.entry]))]
      BY <1>3, <1>7 DEF CommitPrepared
    <2> QED BY <1>6, <1>7, <2>2, <2>3, <2>4
  <1>8. CASE GateBlocks(x)
    BY <1>1, <1>7, <1>8 DEF GateBlocks
  <1>9. CASE AgentReturns(x)
    BY <1>1, <1>7, <1>9 DEF AgentReturns
  <1>10. CASE AgentMeetsLease(x)
    BY <1>1, <1>7, <1>10 DEF AgentMeetsLease
  \* A ledger that has a checkpoint belongs to an entry that was suspended.
  <1>11. ledger[x.entry] # <<>> => x.entry \in deferred
    BY <1>1, <1>2, <1>4, <1>5 DEF LedgerInv
  <1>12. CASE BeginEntry(x)
    <2>1. PICK y : y = [x EXCEPT !.at = "run",
                          !.prepared = IF x.entry \in Scoped THEN Prepare(ledger[x.entry]) ELSE None]
      OBVIOUS
    <2>2. /\ y \in ExecCall /\ y.at = "run" /\ y.entry = x.entry /\ y.again = x.again
          /\ y.prepared # None => y.prepared = Prepare(ledger[x.entry])
      BY <1>1, <2>1 DEF ExecCall, Prepare, Checkpoint
    <2>3. Move(x, y) /\ UNCHANGED <<ledger, deferred>>
      BY <1>12, <2>1 DEF BeginEntry
    <2> QED BY <1>1, <1>3, <1>6, <1>11, <2>2, <2>3
  <1>13. CASE AgentFails(x)
    <2>1. x.at = "run" /\ UNCHANGED <<ledger, deferred>>
      BY <1>13 DEF AgentFails
    <2>2. CASE ~x.again /\ RecoveryRun(ledger[x.entry]) = "recovery_completed"
      <3>1. ledger[x.entry] # <<>>
        BY <2>2 DEF RecoveryRun, getLastCommitted
      <3>2. PICK y : y = [x EXCEPT !.again = TRUE]
        OBVIOUS
      <3>3. /\ y \in ExecCall /\ y.at = "run" /\ y.entry = x.entry /\ y.again = TRUE
        BY <1>1, <2>1, <3>2 DEF ExecCall
      <3>4. Move(x, y)
        BY <1>13, <2>2, <3>2 DEF AgentFails
      <3> QED BY <1>1, <1>6, <1>11, <2>1, <3>1, <3>3, <3>4
    <2>3. CASE ~(~x.again /\ RecoveryRun(ledger[x.entry]) = "recovery_completed")
      BY <1>1, <1>7, <1>13, <2>1, <2>3 DEF AgentFails
    <2> QED BY <2>2, <2>3
  <1> QED BY <1>8, <1>9, <1>10, <1>12, <1>13

\* The result of a running execution is stored over an active entry only.
LEMMA StoreResultInv ==
  ASSUME BacklogInv, NEW x \in exec, StoreResult(x)
  PROVE  BacklogInv'
  <1> USE DEF BacklogInv, promoteVars, leaseVars, entryVars
  <1>1. PICK y : y = [x EXCEPT !.at = "finally"]
    OBVIOUS
  <1>2. PICK e : e = x.entry
    OBVIOUS
  <1>3. /\ x.at = "store" /\ st' = [st EXCEPT ![e] = x.result] /\ detail' = [detail EXCEPT ![e] = x.on]
        /\ exec' = (exec \ {x}) \cup {y}
        /\ UNCHANGED <<kicks, promoter, next, sawIdle, lease, leases, notify, todo, waiting,
                       ledger, deferred, restarts>>
    BY <1>1, <1>2 DEF StoreResult, Move
  <1>4. /\ x \in ExecCall /\ e \in Entry /\ x.on \in Lease \cup {None}
        /\ x.result \in {"resolved", "suspended"} /\ x \in Running /\ st[e] = "active"
        /\ st \in [Entry -> Status] /\ detail \in [Entry -> Lease \cup {None}]
    BY <1>2, <1>3 DEF TypeOK, ExecCall, ActiveInv, Running
  <1>5. y \in ExecCall /\ y.entry = e /\ y.at = "finally" /\ y.again = x.again
    BY <1>1, <1>2, <1>4 DEF ExecCall
  <1>6. /\ With("active")' = With("active") \ {e} /\ e \in With("active")
        /\ With("queued")' = With("queued")
        /\ st'[e] = x.result
        /\ \A f \in Entry : f # e => st'[f] = st[f] /\ detail'[f] = detail[f]
    BY <1>3, <1>4 DEF With
  <1>7. TypeOK'
    <2>1. exec' \subseteq ExecCall
      BY <1>3, <1>5 DEF TypeOK, ExecCall
    <2>2. st' \in [Entry -> Status] /\ detail' \in [Entry -> Lease \cup {None}]
      BY <1>3, <1>4 DEF Status
    <2> QED BY <1>3, <2>1, <2>2 DEF TypeOK, ExecCall
  <1>8. /\ IsFiniteSet(exec') /\ IsFiniteSet(With("active")')
        /\ Cardinality(With("active")') < Cardinality(With("active"))
        /\ Cardinality(With("active")') \in Nat /\ Cardinality(With("active")) \in Nat
    <2>1. /\ IsFiniteSet(exec') /\ IsFiniteSet(With("active")')
          /\ Cardinality(With("active")') = Cardinality(With("active")) - 1
      BY <1>3, <1>6, FS_AddElement, FS_RemoveElement DEF ActiveInv
    <2>2. Cardinality(With("active")') \in Nat /\ Cardinality(With("active")) \in Nat
      BY <2>1, FS_CardinalityType DEF ActiveInv
    <2> QED BY <2>1, <2>2
  <1>9. ActiveInv'
    <2>1. Running' = Running \ {x}
      BY <1>3, <1>5 DEF Running
    <2>2. \A z \in Running : z.entry \in Entry /\ (z # x => z.entry # e)
      BY <1>2, <1>4 DEF ActiveInv, TypeOK, Running
    <2>3. /\ \A z \in Running' : st'[z.entry] = "active"
          /\ \A z, w \in Running' : z.entry = w.entry => z = w
          /\ \A f \in With("active")' : \E z \in Running' : z.entry = f
          /\ \A z \in exec' : z.at = "store" => z.result \in {"resolved", "suspended"}
      BY <1>2, <1>3, <1>5, <1>6, <2>1, <2>2 DEF ActiveInv
    <2>4. Cardinality(With("active")') =< activeCapacity
      BY <1>8, BacklogAssumption DEF ActiveInv
    <2> QED BY <1>8, <2>3, <2>4 DEF ActiveInv
  <1>10. PromoterInv'
    <2>1. ~sawIdle
      BY <1>6 DEF PromoterInv
    <2> QED BY <1>3, <1>4, <1>6, <1>8, <2>1, BacklogAssumption DEF PromoterInv
  <1>11. TodoInv'
    BY <1>3, <1>4, <1>6 DEF TodoInv, TypeOK
  <1>12. KickInv' /\ WaiterInv'
    BY <1>3 DEF KickInv, Stirring, WaiterInv
  <1>13. LedgerInv'
    <2>1. \A z \in exec' : /\ z.again => z.entry \in deferred'
                           /\ z.at = "run" /\ ~z.again /\ z.prepared # None
                                => z.prepared = Prepare(ledger'[z.entry])
      BY <1>2, <1>3, <1>5 DEF LedgerInv
    <2>2. ASSUME NEW f \in Entry, ledger'[f] # <<>>
          PROVE  \/ f \in deferred' \/ st'[f] \in {"resolved", "pruned"}
                 \/ \E z \in exec' : z.entry = f /\ z.at = "store" /\ z.result = "resolved"
      <3>1. CASE f = e
        <4>1. \A z \in exec : z.entry = e /\ z.at = "store" => z = x
          BY <1>2, <1>4 DEF ActiveInv, Running
        <4> QED BY <1>3, <1>4, <1>6, <2>2, <3>1, <4>1 DEF LedgerInv
      <3>2. CASE f # e
        BY <1>2, <1>3, <1>6, <2>2, <3>2 DEF LedgerInv
      <3> QED BY <3>1, <3>2
    <2> QED BY <1>3, <2>1, <2>2 DEF LedgerInv, ChainStaysValid
  <1> QED BY <1>7, <1>9, <1>10, <1>11, <1>12, <1>13

LEMMA FinallyInv ==
  ASSUME BacklogInv, NEW x \in exec, Finally(x)
  PROVE  BacklogInv'
  <1> USE DEF BacklogInv, promoteVars, leaseVars, entryVars
  <1>1. /\ x.at = "finally" /\ exec' = exec \ {x} /\ Prune
        /\ waiting' = (waiting /\ ~Idle) /\ kicks' = kicks + 1
        /\ UNCHANGED <<detail, promoter, next, sawIdle, lease, leases, notify, todo,
                       ledger, deferred, restarts>>
    BY DEF Finally
  <1>2. /\ st \in [Entry -> Status] /\ kicks \in Nat /\ waiting \in BOOLEAN
    BY DEF TypeOK
  <1>3. /\ st' \in [Entry -> Status]
        /\ \A e \in Entry : st'[e] = st[e] \/ (st[e] = "resolved" /\ st'[e] = "pruned")
    BY <1>1, <1>2 DEF Prune, With, Status
  <1>4. /\ With("active")' = With("active") /\ With("queued")' = With("queued")
        /\ With("suspended")' = With("suspended")
    BY <1>3 DEF With
  <1>5. TypeOK'
    BY <1>1, <1>2, <1>3 DEF TypeOK
  <1>6. ActiveInv'
    <2>1. Running' = Running
      BY <1>1 DEF Running
    <2>2. IsFiniteSet(exec')
      BY <1>1, FS_RemoveElement DEF ActiveInv
    <2>3. \A z \in Running : z.entry \in Entry /\ st'[z.entry] = st[z.entry]
      BY <1>3 DEF ActiveInv, TypeOK, Running
    <2> QED BY <1>1, <1>4, <2>1, <2>2, <2>3 DEF ActiveInv
  <1>7. PromoterInv'
    <2>1. \A e \in Entry : st[e] = "queued" => st'[e] = "queued"
      BY <1>3
    <2> QED BY <1>1, <1>4, <2>1 DEF PromoterInv
  <1>8. TodoInv'
    <2>1. \A l \in Lease : \A e \in todo[l] : e \in Entry
      BY DEF TypeOK
    <2> QED BY <1>1, <1>3, <2>1 DEF TodoInv
  <1>9. KickInv'
    BY <1>1, <1>2 DEF KickInv, Stirring
  <1>10. WaiterInv'
    BY <1>1, <1>4 DEF WaiterInv, Idle
  <1>11. LedgerInv'
    <2>1. \A e \in Entry : st[e] \in {"resolved", "pruned"} => st'[e] \in {"resolved", "pruned"}
      BY <1>3
    <2> QED BY <1>1, <2>1 DEF LedgerInv, ChainStaysValid
  <1> QED BY <1>5, <1>6, <1>7, <1>8, <1>9, <1>10, <1>11

\* A requeued entry was suspended: it is not active, and no other notification has it.
LEMMA RequeueInv ==
  ASSUME BacklogInv, NEW l \in Lease, Requeue(l)
  PROVE  BacklogInv'
  <1> USE DEF BacklogInv, promoteVars, leaseVars, entryVars
  <1>1. PICK e \in todo[l] :
          /\ st' = [st EXCEPT ![e] = "queued"]
          /\ detail' = [detail EXCEPT ![e] = None]
          /\ todo' = [todo EXCEPT ![l] = todo[l] \ {e}]
          /\ notify' = [notify EXCEPT ![l] = IF todo[l] = {e} THEN "none" ELSE notify[l]]
          /\ kicks' = IF todo[l] = {e} THEN kicks + 1 ELSE kicks
    BY DEF Requeue
  <1>2. /\ notify[l] = "requeue"
        /\ UNCHANGED <<promoter, next, sawIdle, exec, lease, leases, waiting,
                       ledger, deferred, restarts>>
    BY DEF Requeue
  <1>3. /\ st \in [Entry -> Status] /\ kicks \in Nat /\ detail \in [Entry -> Lease \cup {None}]
        /\ notify \in [Lease -> {"none", "list", "requeue"}] /\ todo \in [Lease -> SUBSET Entry]
        /\ e \in Entry /\ st[e] = "suspended" /\ detail[e] = l
    BY <1>1 DEF TypeOK, TodoInv
  <1>4. /\ With("active")' = With("active") /\ With("queued")' = With("queued") \cup {e}
        /\ With("suspended")' = With("suspended") \ {e}
        /\ \A f \in Entry : f # e => st'[f] = st[f] /\ detail'[f] = detail[f]
    BY <1>1, <1>3 DEF With
  <1>5. TypeOK'
    <2>1. /\ st' \in [Entry -> Status] /\ detail' \in [Entry -> Lease \cup {None}]
          /\ kicks' \in Nat
      BY <1>1, <1>3 DEF Status
    <2>2. todo' \in [Lease -> SUBSET Entry] /\ notify' \in [Lease -> {"none", "list", "requeue"}]
      BY <1>1, <1>3
    <2> QED BY <1>2, <2>1, <2>2 DEF TypeOK
  <1>6. ActiveInv'
    <2>1. \A x \in Running : x.entry \in Entry /\ x.entry # e
      BY <1>3 DEF ActiveInv, TypeOK, Running
    <2> QED BY <1>2, <1>4, <2>1 DEF ActiveInv, Running
  <1>7. PromoterInv'
    BY <1>2, <1>3, <1>4 DEF PromoterInv
  <1>8. TodoInv'
    <2> SUFFICES ASSUME NEW m \in Lease, NEW f \in todo'[m]
                 PROVE  st'[f] = "suspended" /\ detail'[f] = m
      BY DEF TodoInv
    <2>1. f \in todo[m] /\ f \in Entry /\ (m = l => f # e)
      BY <1>1, <1>3
    <2>2. st[f] = "suspended" /\ detail[f] = m
      BY <2>1 DEF TodoInv
    <2>3. f # e
      BY <1>3, <2>1, <2>2
    <2> QED BY <1>4, <2>1, <2>2, <2>3
  <1>9. KickInv'
    <2>1. kicks' > 0 \/ notify'[l] # "none"
      BY <1>1, <1>2, <1>3
    <2> QED BY <2>1 DEF KickInv, Stirring
  <1>10. WaiterInv'
    BY <1>4 DEF WaiterInv, Idle
  <1>11. LedgerInv'
    BY <1>2, <1>3, <1>4 DEF LedgerInv, ChainStaysValid
  <1> QED BY <1>5, <1>6, <1>7, <1>8, <1>9, <1>10, <1>11

LEMMA RestartInv ==
  ASSUME BacklogInv, Restart
  PROVE  BacklogInv'
  <1> USE DEF BacklogInv
  <1>1. /\ restarts < MaxRestarts /\ restarts' = restarts + 1
        /\ st' = [e \in Entry |-> IF st[e] = "active" THEN "queued" ELSE st[e]]
        /\ kicks' = 1 /\ exec' = {}
        /\ promoter' = "off" /\ next' = None /\ sawIdle' = FALSE
        /\ lease' = None
        /\ notify' = [l \in Lease |-> "none"] /\ todo' = [l \in Lease |-> {}]
        /\ waiting' = FALSE
        /\ ledger' = [e \in Entry |-> <<>>] /\ deferred' = {}
        /\ UNCHANGED <<detail, leases>>
    BY DEF Restart
  <1>2. st \in [Entry -> Status] /\ restarts \in 0 .. MaxRestarts
    BY DEF TypeOK
  <1>3. With("active")' = {}
    BY <1>1 DEF With
  <1>4. TypeOK'
    <2>1. restarts' \in 0 .. MaxRestarts
      BY <1>1, <1>2, BacklogAssumption
    <2>2. ledger' \in [Entry -> Seq(Checkpoint)] /\ st' \in [Entry -> Status]
      BY <1>1, <1>2 DEF Status
    <2>3. notify' \in [Lease -> {"none", "list", "requeue"}] /\ todo' \in [Lease -> SUBSET Entry]
      BY <1>1
    <2> QED BY <1>1, <2>1, <2>2, <2>3 DEF TypeOK
  <1>5. ActiveInv'
    <2>1. Running' = {}
      BY <1>1 DEF Running
    <2>2. /\ IsFiniteSet(exec') /\ IsFiniteSet(With("active")') /\ Cardinality(With("active")') = 0
      BY <1>1, <1>3, FS_EmptySet
    <2>3. Cardinality(With("active")') =< activeCapacity
      BY <2>2, BacklogAssumption
    <2> QED BY <1>1, <1>3, <2>1, <2>2, <2>3 DEF ActiveInv
  <1>6. PromoterInv' /\ TodoInv' /\ KickInv' /\ WaiterInv'
    BY <1>1 DEF PromoterInv, TodoInv, KickInv, Stirring, WaiterInv
  <1>7. LedgerInv'
    BY <1>1 DEF LedgerInv, ChainStaysValid, validateChain
  <1> QED BY <1>4, <1>5, <1>6, <1>7

LEMMA InvNext == BacklogInv /\ [Next]_vars => BacklogInv'
  <1> SUFFICES ASSUME BacklogInv, [Next]_vars PROVE BacklogInv'
    OBVIOUS
  <1>1. CASE UNCHANGED vars
    <2> USE <1>1 DEF vars, storeVars, promoteVars, leaseVars, entryVars, BacklogInv
    <2>1. ActiveInv' /\ LedgerInv'
      BY QuietFrame
    <2>2. TypeOK' /\ PromoterInv' /\ TodoInv' /\ KickInv' /\ WaiterInv'
      BY WithFrame DEF TypeOK, PromoterInv, TodoInv, KickInv, Stirring, WaiterInv
    <2> QED BY <2>1, <2>2
  <1>2. CASE Next
    BY <1>2, EnqueueInv, QuietInv, ActivateInv, AgentInv, StoreResultInv, FinallyInv,
       RequeueInv, RestartInv
    DEF Next, Promotion, Execution, Notification
  <1> QED BY <1>1, <1>2

LEMMA BacklogInvariant == Spec => []BacklogInv
  BY InvInit, InvNext, PTL DEF Spec

--------------------------------------------------------------------------------
(* The theorems.                                                               *)

\* The state of the queue has the shape its declarations say (backlog-store.ts).
THEOREM TypeCorrect == Spec => []TypeOK
  BY BacklogInvariant, PTL DEF BacklogInv

\* No more than activeCapacity agents run, none twice for an entry, and every running
\* entry is stored as active (backlog-queue.ts, promote and execute).
THEOREM CapacityCorrect == Spec => []CapacityRespected
  <1>1. BacklogInv => CapacityRespected
    BY RunningBound DEF BacklogInv
  <1> QED BY <1>1, BacklogInvariant, PTL

\* A call of promote() that finds a promotion in flight returns, and still no queued
\* or active entry is left with nobody to look at the queue.
THEOREM KickCorrect == Spec => []NoLostKick
  <1>1. BacklogInv => NoLostKick
    <2> SUFFICES ASSUME BacklogInv, ~Stirring
                 PROVE  With("queued") = {} /\ With("active") = {}
      BY DEF NoLostKick
    <2>1. With("queued") = {}
      BY DEF BacklogInv, KickInv
    <2>2. Running = {}
      BY DEF Stirring, Running
    <2>3. With("active") = {}
      BY <2>2 DEF BacklogInv, ActiveInv
    <2> QED BY <2>1, <2>3
  <1> QED BY <1>1, BacklogInvariant, PTL

\* No caller of whenIdle() waits on an idle queue with nothing in flight.
THEOREM WaiterCorrect == Spec => []NoWaiterForgotten
  <1>1. BacklogInv => NoWaiterForgotten
    BY DEF BacklogInv, WaiterInv, NoWaiterForgotten, Stirring, Idle, With
  <1> QED BY <1>1, BacklogInvariant, PTL

\* whenIdle() returns only on an idle queue, although the promoter decides it on
\* analytics that are one store call old.
THEOREM IdleCorrect == Spec => IdleMeansIdle
  <1> DEFINE A == waiting /\ ~waiting' /\ restarts' = restarts =>
                     \A e \in Entry : st[e] \notin {"queued", "active", "suspended"}
  <1>1. BacklogInv /\ [Next]_vars => [A]_vars
    <2> SUFFICES ASSUME BacklogInv, Next, waiting, ~waiting', restarts' = restarts
                 PROVE  Idle
      BY DEF Idle, With
    <2> USE DEF storeVars, promoteVars, leaseVars, entryVars
    <2>1. restarts \in Nat
      BY BacklogAssumption DEF BacklogInv, TypeOK
    <2>2. CASE Pick
      <3>1. With("queued") = {} /\ sawIdle
        BY <2>2 DEF Pick
      <3> QED BY <3>1 DEF BacklogInv, PromoterInv, Idle
    <2>3. CASE \E x \in exec : Finally(x)
      BY <2>3 DEF Finally
    <2>4. CASE Restart
      BY <2>1, <2>4 DEF Restart
    <2>5. CASE WhenIdle \/ Promote \/ CheckCapacity \/ Activate \/ releaseLease
      BY <2>5 DEF WhenIdle, Promote, CheckCapacity, Activate, releaseLease
    <2>6. CASE \E x \in exec : \/ GateBlocks(x) \/ BeginEntry(x) \/ AgentReturns(x)
                               \/ AgentFails(x) \/ AgentMeetsLease(x) \/ StoreResult(x)
      BY <2>6 DEF GateBlocks, BeginEntry, AgentReturns, AgentFails, AgentMeetsLease, StoreResult,
                  Keep
    <2>7. CASE \/ \E e \in Entry : Enqueue(e)
               \/ \E l \in Lease : acquireLease(l) \/ Notification(l)
      BY <2>7 DEF Enqueue, acquireLease, Notification, ListSuspended, Requeue
    <2> QED BY <2>2, <2>3, <2>4, <2>5, <2>6, <2>7 DEF Next, Promotion, Execution
  <1> QED BY <1>1, BacklogInvariant, PTL DEF Spec, IdleMeansIdle

\* A resolved entry is never queued or run again, whatever is requeued, restarted or
\* pruned, and only resolved entries leave the store.
THEOREM ResolvedCorrect == Spec => ResolvedIsFinal
  <1> DEFINE A == \A e \in Entry :
                    /\ st[e] = "resolved" => st'[e] \in {"resolved", "pruned"}
                    /\ st'[e] = "pruned" => st[e] \in {"resolved", "pruned"}
  <1>1. BacklogInv /\ [Next]_vars => [A]_vars
    <2> SUFFICES ASSUME BacklogInv, Next PROVE A
      OBVIOUS
    <2>1. st \in [Entry -> Status]
      BY DEF BacklogInv, TypeOK
    <2> USE DEF storeVars
    <2>2. CASE Activate
      <3>1. st[next] = "queued" /\ st' = [st EXCEPT ![next] = "active"]
        BY <2>2 DEF BacklogInv, PromoterInv, Activate
      <3> QED BY <2>1, <3>1
    <2>3. ASSUME NEW x \in exec, StoreResult(x) PROVE A
      <3>1. /\ st[x.entry] = "active" /\ x.result \in {"resolved", "suspended"}
            /\ st' = [st EXCEPT ![x.entry] = x.result]
        BY <2>3 DEF BacklogInv, ActiveInv, Running, StoreResult
      <3> QED BY <2>1, <3>1
    <2>4. ASSUME NEW l \in Lease, Requeue(l) PROVE A
      <3>1. PICK e \in todo[l] : st' = [st EXCEPT ![e] = "queued"]
        BY <2>4 DEF Requeue
      <3>2. st[e] = "suspended"
        BY <3>1 DEF BacklogInv, TodoInv
      <3> QED BY <2>1, <3>1, <3>2
    <2>5. CASE Restart \/ \E x \in exec : Finally(x)
      BY <2>1, <2>5 DEF Restart, Finally, Prune, With
    <2>6. CASE \E e \in Entry : Enqueue(e)
      BY <2>1, <2>6 DEF Enqueue
    <2>7. CASE \/ WhenIdle \/ Promote \/ CheckCapacity \/ Pick \/ releaseLease
               \/ \E l \in Lease : acquireLease(l) \/ ListSuspended(l)
      BY <2>7 DEF WhenIdle, Promote, CheckCapacity, Pick, releaseLease, acquireLease, ListSuspended
    <2>8. CASE \E x \in exec : \/ GateBlocks(x) \/ BeginEntry(x) \/ AgentReturns(x)
                               \/ AgentFails(x) \/ AgentMeetsLease(x)
      BY <2>8 DEF GateBlocks, BeginEntry, AgentReturns, AgentFails, AgentMeetsLease, Keep
    <2> QED BY <2>2, <2>3, <2>4, <2>5, <2>6, <2>7, <2>8
            DEF Next, Promotion, Execution, Notification
  <1> QED BY <1>1, BacklogInvariant, PTL DEF Spec, ResolvedIsFinal

\* A failed agent is run again only for an entry that was suspended before
\* (cortex-runtime.ts, recovery-orchestrator.ts).
THEOREM RetryCorrect == Spec => []RetryNeedsEarlierCommit
  <1>1. BacklogInv => RetryNeedsEarlierCommit
    BY DEF BacklogInv, LedgerInv, RetryNeedsEarlierCommit
  <1> QED BY <1>1, BacklogInvariant, PTL

\* The checkpoints of the successive executions of an entry form a valid chain
\* (checkpoint-manager.ts), because no two of them overlap.
THEOREM ChainCorrect == Spec => []ChainStaysValid
  <1>1. BacklogInv => ChainStaysValid
    BY DEF BacklogInv, LedgerInv
  <1> QED BY <1>1, BacklogInvariant, PTL

================================================================================
