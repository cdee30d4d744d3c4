------------------------------- MODULE Backlog -------------------------------
(***************************************************************************)
(* The durable System backlog queue (self/cortex/core/gateway-runtime:     *)
(* backlog-queue.ts, backlog-store.ts) with the exclusive lease of an      *)
(* inference lane (self/subcortex/inference-runtime: inference-lane.ts),   *)
(* whose release requeues the entries that were suspended on it.           *)
(*                                                                         *)
(* The document store executes a call when it is made and answers in       *)
(* order (better-sqlite3), so one action stands for one store call with    *)
(* the synchronous code that follows its await.  DocumentBacklogStore's    *)
(* transition is one action: its read finds the entry, for only resolved   *)
(* entries are deleted, and nobody else writes that entry before its put.  *)
(* A refresh of the analytics whose answer only goes to the health sink is *)
(* no step of its own: it delays what follows, which may be late anyway.   *)
(*                                                                         *)
(* executeEntry is executeSystemEntry of the gateway runtime               *)
(* (cortex-runtime.ts): the gate of operator control, the checkpoint, the  *)
(* System agent, and recovery, which may run the agent once more.  The     *)
(* agent itself completes, fails, or is suspended by the lease; how it     *)
(* gets there is the module AgentGateway.  Left out: the analytics other   *)
(* than the counts, and failures of the store itself.                      *)
(***************************************************************************)
EXTENDS Naturals, FiniteSets, Recovery

CONSTANTS
    Entry,          \* ids of the entries that may be submitted
    Rank,           \* Rank[e]: priorityRank
    AcceptedAt,     \* AcceptedAt[e]: acceptedAt
    Scoped,         \* the entries that name a project
    activeCapacity,
    Lease,          \* lease ids, a fresh one for each acquireLease
    MaxRestarts,    \* bound on the number of restarts
    None

ASSUME BacklogAssumption ==
    /\ Rank \in [Entry -> Nat]
    /\ AcceptedAt \in [Entry -> Nat]
    /\ Scoped \subseteq Entry
    /\ activeCapacity \in Nat \ {0}
    /\ MaxRestarts \in Nat
    /\ None \notin Entry /\ None \notin Lease

VARIABLES
    st,         \* stored status of each entry
    detail,     \* the lease id in suspensionDetail of each entry
    kicks,      \* calls that will call promote(), or whose promote() has not
                \* looked at promotionInFlight
    promoter,   \* what the promotion in flight does next; "off": none is
    next,       \* the entry it promotes
    sawIdle,    \* its analytics were those of an idle queue
    exec,       \* the calls of execute() in flight
    lease,      \* the lease held on the lane
    leases,     \* the lease ids given out
    notify,     \* notifyLeaseReleased of each lease: what it does next
    todo,       \* the entries it has listed and not requeued
    waiting,    \* someone waits in whenIdle()
    ledger,     \* the recovery ledger of each entry's run id
    deferred,   \* the entries suspended since the start of the process (history)
    restarts    \* number of restarts

storeVars   == <<st, detail>>
promoteVars == <<promoter, next, sawIdle>>
leaseVars   == <<lease, leases, notify, todo>>
entryVars   == <<ledger, deferred, restarts>>
vars == <<storeVars, kicks, promoteVars, exec, leaseVars, waiting, entryVars>>

\* "new": not submitted, "resolved": completed or failed, "pruned": deleted.
Status == {"new", "queued", "active", "suspended", "resolved", "pruned"}
With(status) == { e \in Entry : st[e] = status }

TypeOK ==
    /\ st \in [Entry -> Status]
    /\ detail \in [Entry -> Lease \cup {None}]
    /\ kicks \in Nat
    /\ promoter \in {"off", "capacity", "pick", "activate"}
    /\ next \in Entry \cup {None}
    /\ sawIdle \in BOOLEAN
    /\ exec \subseteq [entry : Entry, slot : Nat,
                       at : {"begin", "run", "store", "finally"},
                       prepared : Checkpoint \cup {None}, again : BOOLEAN,
                       result : {"resolved", "suspended", None},
                       on : Lease \cup {None}]
    /\ ledger \in [Entry -> Seq(Checkpoint)]
    /\ deferred \subseteq Entry
    /\ lease \in leases \cup {None}
    /\ leases \subseteq Lease
    /\ notify \in [Lease -> {"none", "list", "requeue"}]
    /\ todo \in [Lease -> SUBSET Entry]
    /\ waiting \in BOOLEAN
    /\ restarts \in 0 .. MaxRestarts

Init ==
    /\ st = [e \in Entry |-> "new"]
    /\ detail = [e \in Entry |-> None]
    /\ kicks = 1
    /\ promoter = "off" /\ next = None /\ sawIdle = FALSE
    /\ exec = {}
    /\ lease = None /\ leases = {}
    /\ notify = [l \in Lease |-> "none"]
    /\ todo = [l \in Lease |-> {}]
    /\ waiting = FALSE
    /\ ledger = [e \in Entry |-> <<>>]
    /\ deferred = {}
    /\ restarts = 0
------------------------------------------------------------------------------
\* Faulty: the promoter is not kicked.
EnqueueQuietly(e) ==
    /\ st[e] = "new"
    /\ st' = [st EXCEPT ![e] = "queued"]
    /\ UNCHANGED <<detail, kicks, promoteVars, exec, leaseVars, waiting, entryVars>>

\* enqueue: the entry is stored, then the promoter is kicked.
Enqueue(e) ==
    /\ st[e] = "new"
    /\ st' = [st EXCEPT ![e] = "queued"]
    /\ kicks' = kicks + 1
    /\ UNCHANGED <<detail, promoteVars, exec, leaseVars, waiting, entryVars>>

(***************************************************************************)
(* Idleness.                                                               *)
(***************************************************************************)

\* Faulty: suspended work does not count.
IdleIfSuspended == With("queued") = {} /\ With("active") = {}

Idle == With("queued") = {} /\ With("active") = {} /\ With("suspended") = {}

\* Faulty: the waiter is added whether or not the queue is idle.
WhenIdleAlways ==
    /\ waiting' = TRUE
    /\ UNCHANGED <<storeVars, kicks, promoteVars, exec, leaseVars, entryVars>>

\* whenIdle returns at once when the queue is idle.
WhenIdle ==
    /\ ~Idle
    /\ waiting' = TRUE
    /\ UNCHANGED <<storeVars, kicks, promoteVars, exec, leaseVars, entryVars>>

(***************************************************************************)
(* promote.                                                                *)
(***************************************************************************)

\* A call that finds a promotion in flight returns.
Promote ==
    /\ kicks > 0
    /\ kicks' = kicks - 1
    /\ promoter' = IF promoter = "off" THEN "capacity" ELSE promoter
    /\ UNCHANGED <<storeVars, next, sawIdle, exec, leaseVars, waiting, entryVars>>

\* Faulty: one entry too many is let in.
CheckCapacityOffByOne ==
    /\ promoter = "capacity"
    /\ promoter' = IF Cardinality(With("active")) > activeCapacity
                   THEN "off" ELSE "pick"
    /\ sawIdle' = (promoter' = "pick" /\ Idle)
    /\ UNCHANGED <<storeVars, kicks, next, exec, leaseVars, waiting, entryVars>>

CheckCapacity ==
    /\ promoter = "capacity"
    /\ promoter' = IF Cardinality(With("active")) >= activeCapacity
                   THEN "off" ELSE "pick"
    /\ sawIdle' = (promoter' = "pick" /\ Idle)
    /\ UNCHANGED <<storeVars, kicks, next, exec, leaseVars, waiting, entryVars>>

\* The queued entries that compareBacklogEntries puts first.
First ==
    { e \in With("queued") : \A f \in With("queued") :
        \/ Rank[e] > Rank[f]
        \/ Rank[e] = Rank[f] /\ AcceptedAt[e] <= AcceptedAt[f] }

\* Faulty: the empty queue is not looked out for.
PickFromEmpty ==
    /\ promoter = "pick"
    /\ promoter' = "activate"
    /\ next' \in IF First = {} THEN {None} ELSE First
    /\ UNCHANGED <<storeVars, kicks, sawIdle, exec, leaseVars, waiting, entryVars>>

Pick ==
    /\ promoter = "pick"
    /\ \/ /\ With("queued") = {}
          /\ promoter' = "off"
          /\ waiting' = (waiting /\ ~sawIdle)
          /\ UNCHANGED next
       \/ /\ promoter' = "activate"
          /\ next' \in First
          /\ UNCHANGED waiting
    /\ sawIdle' = FALSE
    /\ UNCHANGED <<storeVars, kicks, exec, leaseVars, entryVars>>

\* Tells apart the calls of execute() for the same entry.
FreeSlot(e) ==
    CHOOSE i \in 1 .. Cardinality(exec) + 1 :
        /\ \A x \in exec : x.entry = e => x.slot # i
        /\ \A j \in 1 .. i - 1 : \E x \in exec : x.entry = e /\ x.slot = j

\* The entry is stored as active, execute() is called, and the loop goes on.
Activate ==
    /\ promoter = "activate"
    /\ st' = [st EXCEPT ![next] = "active"]
    /\ exec' = exec \cup {[entry |-> next, slot |-> FreeSlot(next), at |-> "begin",
                           prepared |-> None, again |-> FALSE,
                           result |-> None, on |-> None]}
    /\ promoter' = "capacity"
    /\ next' = None
    /\ UNCHANGED <<detail, kicks, sawIdle, leaseVars, waiting, entryVars>>

(***************************************************************************)
(* execute.                                                                *)
(***************************************************************************)
Move(x, y) == exec' = (exec \ {x}) \cup {y}

\* executeSystemEntry returns: its own variables are gone.
Returns(x, result, on) ==
    Move(x, [x EXCEPT !.at = "store", !.prepared = None, !.again = FALSE,
                      !.result = result, !.on = on])

Keep == UNCHANGED <<storeVars, kicks, promoteVars, leaseVars, waiting, restarts>>

\* The gate: while its project is paused or stopped an entry of the Principal is
\* answered with an error and not run.
GateBlocks(x) ==
    /\ x.at = "begin" /\ x.entry \in Scoped
    /\ Returns(x, "resolved", None)
    /\ Keep /\ UNCHANGED <<ledger, deferred>>

\* A checkpoint is prepared for an entry that has a project; the agent starts.
BeginEntry(x) ==
    /\ x.at = "begin"
    /\ Move(x, [x EXCEPT !.at = "run",
                         !.prepared = IF x.entry \in Scoped THEN Prepare(ledger[x.entry])
                                      ELSE None])
    /\ Keep /\ UNCHANGED <<ledger, deferred>>

\* The checkpoint of the first run is committed unless it ends with an error; a
\* retry commits nothing.
CommitPrepared(x) ==
    ledger' = IF x.prepared = None \/ x.again THEN ledger
              ELSE [ledger EXCEPT ![x.entry] = Commit(@, x.prepared)]

\* The agent completes, escalates, is aborted or out of budget.
AgentReturns(x) ==
    /\ x.at = "run"
    /\ CommitPrepared(x)
    /\ Returns(x, "resolved", None)
    /\ Keep /\ UNCHANGED deferred

\* The agent fails: recovery allows one more run, or the entry has failed.
AgentFails(x) ==
    /\ x.at = "run"
    /\ IF ~x.again /\ RecoveryRun(ledger[x.entry]) = "recovery_completed"
       THEN Move(x, [x EXCEPT !.again = TRUE])
       ELSE Returns(x, "resolved", None)
    /\ Keep /\ UNCHANGED <<ledger, deferred>>

\* The lane refuses the agent's request; the agent returns 'suspended' with the
\* id of the lease that was held.
AgentMeetsLease(x) ==
    /\ x.at = "run"
    /\ lease # None
    /\ CommitPrepared(x)
    /\ deferred' = deferred \cup {x.entry}
    /\ Returns(x, "suspended", lease)
    /\ Keep

\* The result is stored.
StoreResult(x) ==
    /\ x.at = "store"
    /\ st' = [st EXCEPT ![x.entry] = x.result]
    /\ detail' = [detail EXCEPT ![x.entry] = x.on]
    /\ Move(x, [x EXCEPT !.at = "finally"])
    /\ UNCHANGED <<kicks, promoteVars, leaseVars, waiting, entryVars>>

\* pruneRetained deletes the resolved entries that are old enough.
Prune ==
    \E old \in SUBSET With("resolved") :
        st' = [e \in Entry |-> IF e \in old THEN "pruned" ELSE st[e]]

\* Faulty: the freed capacity is left to the next enqueue.
FinallyQuietly(x) ==
    /\ x.at = "finally"
    /\ exec' = exec \ {x}
    /\ Prune
    /\ waiting' = (waiting /\ ~Idle)
    /\ UNCHANGED <<detail, kicks, promoteVars, leaseVars, entryVars>>

\* The finally block: old entries are pruned (which changes no count), idle
\* waiters are resolved if the fresh analytics say so, the promoter is kicked.
Finally(x) ==
    /\ x.at = "finally"
    /\ exec' = exec \ {x}
    /\ Prune
    /\ waiting' = (waiting /\ ~Idle)
    /\ kicks' = kicks + 1
    /\ UNCHANGED <<detail, promoteVars, leaseVars, entryVars>>

(***************************************************************************)
(* The lease of the lane, and notifyLeaseReleased.                         *)
(***************************************************************************)

\* A lease that is held is replaced; its own release is then ignored.
acquireLease(l) ==
    /\ l \notin leases
    /\ lease' = l
    /\ leases' = leases \cup {l}
    /\ UNCHANGED <<storeVars, kicks, promoteVars, exec, notify, todo,
                   waiting, entryVars>>

\* The listener of bootstrap.ts calls notifyLeaseReleased and does not wait.
releaseLease ==
    /\ lease # None
    /\ lease' = None
    /\ notify' = [notify EXCEPT ![lease] = "list"]
    /\ UNCHANGED <<storeVars, kicks, promoteVars, exec, leases, todo,
                   waiting, entryVars>>

\* Faulty: every suspended entry is requeued, whatever lease it met.
MatchAnySuspended(e, l) == TRUE

matchSuspensionCriteria(e, l) == detail[e] = l

\* The last requeue, or the listing of no entry, is followed by a kick.
ListSuspended(l) ==
    /\ notify[l] = "list"
    /\ LET matching == { e \in With("suspended") : matchSuspensionCriteria(e, l) }
       IN  /\ todo' = [todo EXCEPT ![l] = matching]
           /\ notify' = [notify EXCEPT ![l] = IF matching = {} THEN "none" ELSE "requeue"]
           /\ kicks' = IF matching = {} THEN kicks + 1 ELSE kicks
    /\ UNCHANGED <<storeVars, promoteVars, exec, lease, leases, waiting, entryVars>>

Requeue(l) ==
    /\ notify[l] = "requeue"
    /\ \E e \in todo[l] :
          /\ st' = [st EXCEPT ![e] = "queued"]
          /\ detail' = [detail EXCEPT ![e] = None]
          /\ todo' = [todo EXCEPT ![l] = @ \ {e}]
          /\ notify' = [notify EXCEPT ![l] = IF todo[l] = {e} THEN "none" ELSE @]
          /\ kicks' = IF todo[l] = {e} THEN kicks + 1 ELSE kicks
    /\ UNCHANGED <<promoteVars, exec, lease, leases, waiting, entryVars>>

(***************************************************************************)
(* The process stops and starts again: what is not stored is lost, the     *)
(* active entries are reset to queued before any other call is served, and *)
(* the promoter is kicked.                                                 *)
(***************************************************************************)
Restart ==
    /\ restarts < MaxRestarts
    /\ restarts' = restarts + 1
    /\ st' = [e \in Entry |-> IF st[e] = "active" THEN "queued" ELSE st[e]]
    /\ kicks' = 1 /\ exec' = {}
    /\ promoter' = "off" /\ next' = None /\ sawIdle' = FALSE
    /\ lease' = None
    /\ notify' = [l \in Lease |-> "none"]
    /\ todo' = [l \in Lease |-> {}]
    /\ waiting' = FALSE
    /\ ledger' = [e \in Entry |-> <<>>] /\ deferred' = {}
    /\ UNCHANGED <<detail, leases>>

Execution(x) ==
    \/ GateBlocks(x) \/ BeginEntry(x)
    \/ AgentReturns(x) \/ AgentFails(x) \/ AgentMeetsLease(x)
    \/ StoreResult(x) \/ Finally(x)
Notification(l) == ListSuspended(l) \/ Requeue(l)
Promotion == Promote \/ CheckCapacity \/ Pick \/ Activate

Next ==
    \/ Promotion \/ WhenIdle \/ releaseLease \/ Restart
    \/ \E e \in Entry : Enqueue(e)
    \/ \E x \in exec : Execution(x)
    \/ \E l \in Lease : acquireLease(l) \/ Notification(l)

\* Store calls answer, and every execution of an agent ends (its budget).
Fairness ==
    /\ WF_vars(Promotion)
    /\ \A e \in Entry : WF_vars(\E x \in exec : x.entry = e /\ Execution(x))
    /\ \A l \in Lease : WF_vars(Notification(l))

Spec == Init /\ [][Next]_vars
FairSpec == Spec /\ Fairness
------------------------------------------------------------------------------
\* The executions that have not stored a result.
Running == { x \in exec : x.at # "finally" }

\* The active entries are the work in flight: at most activeCapacity agents run
\* at a time, no entry is run by two of them, and every running entry is stored
\* as active (so a restart finds it), across suspensions and requeues.
CapacityRespected ==
    /\ Cardinality(Running) <= activeCapacity
    /\ \A x \in Running : st[x.entry] = "active"
    /\ \A x, y \in Running : x.entry = y.entry => x = y

\* Somebody has still to look at the queue.
Stirring ==
    \/ kicks > 0 \/ promoter # "off" \/ exec # {}
    \/ \E l \in Lease : notify[l] # "none"

\* No lost wakeup: when nothing is in flight no entry is left queued, although
\* a call of promote() that finds a promotion in flight just returns.
NoLostKick == ~Stirring => With("queued") = {} /\ With("active") = {}

\* Nor is a caller of whenIdle() left waiting on an idle queue.
NoWaiterForgotten ==
    ~Stirring /\ (\A e \in Entry : st[e] \notin {"queued", "active", "suspended"}) =>
        ~waiting

\* whenIdle() returns only when no work is queued, active or suspended, although
\* the promoter decides it on analytics taken one store call earlier.
IdleMeansIdle ==
    [][waiting /\ ~waiting' /\ restarts' = restarts =>
          \A e \in Entry : st[e] \notin {"queued", "active", "suspended"}]_vars

\* A resolved entry is never queued or run again, and an accepted entry leaves
\* the store only when it is resolved, whatever requeues, restarts and prunes.
ResolvedIsFinal ==
    [][\A e \in Entry :
          /\ st[e] = "resolved" => st'[e] \in {"resolved", "pruned"}
          /\ st'[e] = "pruned" => st[e] \in {"resolved", "pruned"}]_vars

\* A failed agent is run again only if an earlier run of the same entry was
\* suspended: the checkpoint of the failing run is not committed, so the first
\* failure of a fresh entry, and of one reset by a restart, is final.
RetryNeedsEarlierCommit == \A x \in exec : x.again => x.entry \in deferred

\* The checkpoints committed by the successive executions of an entry form a
\* valid chain, so recovery is never blocked for review.  (It rests on no two
\* executions of an entry overlapping.)
ChainStaysValid == \A e \in Entry : validateChain(ledger[e])

\* Every queued entry is promoted in the end.
QueuedIsPromoted == \A e \in Entry : st[e] = "queued" ~> st[e] # "queued"

\* 'requeues suspended work when the lease is released': an entry suspended on
\* a lease waits for a lease that is held, or one whose release is being handled.
SuspendedWillBeRequeued ==
    \A e \in With("suspended") :
        lease = detail[e] \/ notify[detail[e]] = "list" \/ e \in todo[detail[e]]
==============================================================================
