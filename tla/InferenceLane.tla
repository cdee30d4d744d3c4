----------------------------- MODULE InferenceLane -----------------------------
(***************************************************************************)
(* The inference lane: the queue in front of one model endpoint            *)
(* (self/subcortex/inference-runtime/src/inference-lane.ts).               *)
(*                                                                         *)
(* Every model call of every agent passes through the lane of its          *)
(* provider.  The lane runs at most Capacity calls at a time, in priority  *)
(* order; an interactive call that finds the lane full aborts the active   *)
(* call of lowest priority, which is queued again when its provider gives  *)
(* up.  A voice call leases the lane: new calls are refused while a lease  *)
(* is held, queued and active ones go on.                                  *)
(*                                                                         *)
(* A caller has at most one call in the lane (it awaits the answer), so a  *)
(* lane entry is named by its caller.  This module holds the lane's state  *)
(* and operations; AgentGateway composes them with the callers.            *)
(***************************************************************************)
EXTENDS Naturals, Sequences, FiniteSets

CONSTANTS
  Callers,    \* the agents that call the model
  Rank,       \* PRIORITY_RANK of each caller's agent class
  Capacity,   \* calls the lane runs at the same time (the registry's lanes: 1)
  Leases      \* lease ids a voice call may use

\* PRIORITY_RANK.interactive: the only priority that preempts.
Interactive == 3

ASSUME LaneAssumption ==
  /\ Rank \in [Callers -> 0 .. Interactive]
  /\ Capacity \in Nat \ {0}

NoLease == "no lease"
ASSUME LeaseAssumption == NoLease \notin Leases

VARIABLES
  queue,    \* entries waiting, first to run first
  active,   \* entries that hold a slot, with their preempted flag
  lease,    \* the lease held, or NoLease
  wake      \* callers whose finished call has its finally -> schedule() due

laneVars == <<queue, active, lease, wake>>

\* How the lane runs the call: a promise, or a slot held by a stream's consumer.
Kinds == {"invoke", "stream"}
Modes == {"enqueue", "reinsert"}
LaneEntry == [id : Callers, mode : Modes, kind : Kinds]
ActiveEntry == [id : Callers, kind : Kinds, preempted : BOOLEAN]

LaneTypeOK ==
  /\ queue \in Seq(LaneEntry)
  /\ active \subseteq ActiveEntry
  /\ lease \in Leases \cup {NoLease}
  /\ wake \subseteq Callers

LaneInit ==
  /\ queue = <<>>
  /\ active = {}
  /\ lease = NoLease
  /\ wake = {}

Queued(c) == \E i \in 1 .. Len(queue) : queue[i].id = c
ActiveOf(c) == CHOOSE x \in active : x.id = c
IsActive(c) == \E x \in active : x.id = c

-------------------------------------------------------------------------------
(* queueEntry. *)

\* Faulty: the comparison of the priorities is turned round.
SortBucketReversed(e) ==
  (IF e.mode = "reinsert" THEN 0 ELSE Interactive + 1) + Rank[e.id]

\* The comparator's bucket: reinserted entries first, then higher priority.
\* Within a bucket the comparator orders by time of arrival.  That is the order the
\* queue already has: with the registry's capacity of 1 no two reinserted entries
\* of one priority wait at the same time.
SortBucket(e) ==
  (IF e.mode = "reinsert" THEN 0 ELSE Interactive + 1) + (Interactive - Rank[e.id])

\* The members of S as a sequence in the order R, a set of pairs.
Place(S, R, i) == Cardinality({j \in S : <<j, i>> \in R})
Arranged(S, R) == [p \in 1 .. Cardinality(S) |-> CHOOSE i \in S : Place(S, R, i) = p]

\* Pairs of positions of q the sort leaves in their order or puts into it.
Sorted(q) ==
  {r \in (DOMAIN q) \X (DOMAIN q) :
     \/ SortBucket(q[r[1]]) < SortBucket(q[r[2]])
     \/ SortBucket(q[r[1]]) = SortBucket(q[r[2]]) /\ r[1] =< r[2]}

SortQueue(q) == [p \in DOMAIN q |-> q[Arranged(DOMAIN q, Sorted(q))[p]]]

\* A reinserted entry goes before the first one whose priority is not higher,
\* and the queue is not sorted.
Reinserted(q, e) ==
  LET lower == {i \in 1 .. Len(q) : Rank[q[i].id] =< Rank[e.id]}
      at == IF lower = {} THEN Len(q) + 1
            ELSE CHOOSE i \in lower : \A j \in lower : i =< j
  IN  SubSeq(q, 1, at - 1) \o <<e>> \o SubSeq(q, at, Len(q))

QueueEntry(q, e) ==
  IF e.mode = "reinsert" THEN Reinserted(q, e) ELSE SortQueue(Append(q, e))

(* maybePreempt: the active sets it may leave (ties are broken by the map's
   order, which the callers do not control). *)
MaybePreempt(act, c) ==
  LET lower == {x \in act : Rank[x.id] < Interactive}
      lowest == {x \in lower : \A y \in lower : Rank[x.id] =< Rank[y.id]}
  IN  IF Rank[c] # Interactive \/ Cardinality(act) < Capacity \/ lower = {}
      THEN {act}
      ELSE {(act \ {x}) \cup {[x EXCEPT !.preempted = TRUE]} : x \in lowest}

\* Faulty: one call too many is let in.
FreeSlotsOffByOne(q, act) ==
  IF Cardinality(act) > Capacity THEN 0
  ELSE IF Capacity + 1 - Cardinality(act) < Len(q) THEN Capacity + 1 - Cardinality(act)
  ELSE Len(q)

\* schedule: entries leave the front of the queue while there is a free slot.
FreeSlots(q, act) ==
  IF Cardinality(act) >= Capacity THEN 0
  ELSE IF Capacity - Cardinality(act) < Len(q) THEN Capacity - Cardinality(act)
  ELSE Len(q)

Promote(q, act) ==
  {[id |-> q[i].id, kind |-> q[i].kind, preempted |-> FALSE] :
     i \in 1 .. FreeSlots(q, act)} \cup act

Schedule(q, act) ==
  /\ active' = Promote(q, act)
  /\ queue' = SubSeq(q, FreeSlots(q, act) + 1, Len(q))

-------------------------------------------------------------------------------
(* Operations. *)

\* enqueue() and stream() throw LeaseHeldError.
LeaseHeld == lease # NoLease

\* submit() and acquireSlot(): queueEntry, maybePreempt, schedule, all at once.
Submit(c, kind) ==
  /\ ~LeaseHeld
  /\ LET entry == [id |-> c, mode |-> "enqueue", kind |-> kind]
     IN  \E act \in MaybePreempt(active, c) : Schedule(QueueEntry(queue, entry), act)
  /\ UNCHANGED <<lease, wake>>

\* The call ended with an answer, or with an error that is not a preemption:
\* the slot is freed and the caller is answered.
SettleCall(c) ==
  /\ IsActive(c)
  /\ ActiveOf(c).kind = "invoke"
  /\ active' = active \ {ActiveOf(c)}
  /\ wake' = wake \cup {c}
  /\ UNCHANGED <<queue, lease>>

\* Faulty: the finally of a reinserted call does not schedule.
RequeueQuietly(c) ==
  /\ IsActive(c)
  /\ ActiveOf(c).kind = "invoke"
  /\ ActiveOf(c).preempted
  /\ active' = active \ {ActiveOf(c)}
  /\ queue' = QueueEntry(queue, [id |-> c, mode |-> "reinsert", kind |-> "invoke"])
  /\ UNCHANGED <<lease, wake>>

\* The provider gave up on a preempted call: it is queued again and its caller
\* goes on waiting.
RequeuePreempted(c) ==
  /\ IsActive(c)
  /\ ActiveOf(c).kind = "invoke"
  /\ ActiveOf(c).preempted
  /\ active' = active \ {ActiveOf(c)}
  /\ queue' = QueueEntry(queue, [id |-> c, mode |-> "reinsert", kind |-> "invoke"])
  /\ wake' = wake \cup {c}
  /\ UNCHANGED lease

\* stream()'s finally: release() frees the slot and schedule() runs at once; the
\* hold promise's own finally is still to come.
EndStream(c) ==
  /\ IsActive(c)
  /\ ActiveOf(c).kind = "stream"
  /\ Schedule(queue, active \ {ActiveOf(c)})
  /\ wake' = wake \cup {c}
  /\ UNCHANGED lease

\* The finally of a finished call calls schedule().
WakeLane(c) ==
  /\ c \in wake
  /\ wake' = wake \ {c}
  /\ Schedule(queue, active)
  /\ UNCHANGED lease

\* acquireLease replaces whatever lease is held.
AcquireLease(l) ==
  /\ lease' = l
  /\ UNCHANGED <<queue, active, wake>>

\* releaseLease ignores an id that is not the one held.
ReleaseLease(l) ==
  /\ lease = l
  /\ lease' = NoLease
  /\ Schedule(queue, active)
  /\ UNCHANGED wake

-------------------------------------------------------------------------------
(* What the lane promises. *)

\* The lane never runs more calls than its capacity, whichever of submit,
\* finally, stream end and lease release called schedule().
LaneCapacity == Cardinality(active) =< Capacity

\* No lost wake-up: while calls wait, the lane is full or a finished call still
\* has its schedule() to come.  (reinsertion queues an entry without scheduling)
NoLostWakeup == queue # <<>> => Cardinality(active) = Capacity \/ wake # {}

\* An interactive call is passed over only by a reinserted one: when a call gets
\* a slot while an interactive call stays in the queue, it is interactive too or
\* it had been preempted before.  (The sort puts reinserted entries first, so a
\* preempted background call does run ahead of a later interactive one.)
NoOvertaking ==
  [][\A x \in active' :
       /\ \A y \in active : y.id # x.id
       /\ \E i \in DOMAIN queue' : Rank[queue'[i].id] = Interactive
       => \/ Rank[x.id] = Interactive
          \/ \E j \in DOMAIN queue : queue[j].id = x.id /\ queue[j].mode = "reinsert"
    ]_laneVars

================================================================================
