------------------------------ MODULE OpControl ------------------------------
(***************************************************************************)
(* Operator control (self/subcortex/opctl).                                *)
(*                                                                         *)
(* Every call of OpctlService.submitCommand is a process, a Submission,    *)
(* that runs from one await to the next; the replay store, the scope lock, *)
(* the start lock and the project control state are shared.  One action    *)
(* stands for one awaited call with the synchronous code that follows it,  *)
(* so all interleavings of concurrent submissions are behaviours.          *)
(*                                                                         *)
(* The witness service is external: its appends succeed or fail.  Payloads *)
(* (signatures, reasons, timestamps) are abstracted: the clock passes one  *)
(* instant, before which the commands of expires_at "soon" must be         *)
(* received, and the confirmation proof of a call is valid or not.         *)
(***************************************************************************)
EXTENDS Naturals, Sequences

CONSTANTS
    Submission,         \* calls of submitCommand
    Envelope,           \* the command envelopes a caller may submit
    Project,            \* project ids
    None                \* JavaScript's null / undefined

\* PRECEDENCE_ORDER of arbitration.ts, the strongest action first.
PRECEDENCE_ORDER ==
    << "hard_stop", "cancel", "pause", "revert_to_previous_state", "revert",
       "resume", "retry_step", "retry", "edit_submitted_prompt", "edit",
       "stop_response" >>

ControlAction == { PRECEDENCE_ORDER[i] : i \in DOMAIN PRECEDENCE_ORDER }

ASSUME OpControlAssumption ==
    /\ None \notin Submission
    /\ None \notin Envelope
    /\ None \notin Project
    /\ \A e \in Envelope : /\ e.action \in ControlAction
                           /\ e.seq \in Nat
                           /\ e.project \in Project \cup {None}

CommandId == { e.id : e \in Envelope }
Nonce     == { e.nonce : e \in Envelope }
Session   == { e.session : e \in Envelope }

\* Rank of an action, lower is stronger.
getPrecedence(action) ==
    CHOOSE i \in DOMAIN PRECEDENCE_ORDER : PRECEDENCE_ORDER[i] = action

\* Confirmation tier of an action.
getRequiredTier(action) ==
    CASE action \in {"hard_stop", "resume"} -> "T3"
      [] action \in {"cancel", "revert_to_previous_state",
                     "edit_submitted_prompt"} -> "T2"
      [] action \in {"pause", "stop_response", "retry_step"} -> "T1"
      [] OTHER -> "T0"

\* The targets a command names, its project when it names none; the scope
\* lock is keyed by (the hash of) this set.
resolveScope(e) ==
    CASE e.targets # {}    -> e.targets
      [] e.targets = {} /\ e.project # None -> {e.project}
      [] OTHER             -> {}

ScopeKey == { resolveScope(e) : e \in Envelope }
------------------------------------------------------------------------------
VARIABLES
    deps,       \* the optional dependencies the service was constructed with
    pc,         \* where each submission is
    env,        \* the envelope it carries
    result,     \* what it returned
    holder,     \* scope lock: the submission holding each scope key
    waiters,    \* scope lock: the queue of each scope key
    usedIds, usedNonces, lastSeq,   \* replay store
    startLock,  \* projects with a start lock
    ctlState,   \* project control state store
    releasing,  \* projects whose direct release has still to clear ctlState
    late,       \* the clock is past the expiry "soon"
    trail,      \* what the witness service has of each submission
    replayed    \* history: the id was in usedIds when the call was made

callVars    == <<pc, env, result, replayed>>
lockVars    == <<holder, waiters>>
replayVars  == <<usedIds, usedNonces, lastSeq>>
controlVars == <<startLock, ctlState, releasing>>
vars == <<deps, callVars, lockVars, replayVars, controlVars, late, trail>>

\* Program points between scopeLockStore.acquire and release.
Critical == {"markId", "markNonce", "setSeq", "authorize", "complete",
             "apply", "apply2", "finish"}
Point == Critical \cup {"idle", "checkId", "checkNonce", "checkSeq",
                        "arbitrate", "waiting", "done"}
Result == {"none", "applied", "rejected", "unconfirmed", "conflict",
           "unwitnessed"}

Key(s) == resolveScope(env[s])
Action(s) == env[s].action

TypeOK ==
    /\ deps \in [witness : BOOLEAN, store : BOOLEAN]
    /\ pc \in [Submission -> Point]
    /\ env \in [Submission -> Envelope \cup {None}]
    /\ result \in [Submission -> Result]
    /\ holder \in [ScopeKey -> Submission \cup {None}]
    /\ waiters \in [ScopeKey -> Seq(Submission)]
    /\ usedIds \subseteq CommandId
    /\ usedNonces \subseteq Nonce
    /\ lastSeq \in [Session -> Nat \cup {None}]
    /\ startLock \subseteq Project
    /\ ctlState \in [Project -> {None, "paused_review", "resuming"}]
    /\ releasing \subseteq Project
    /\ late \in BOOLEAN
    /\ trail \in [Submission -> {"none", "authorized", "completed"}]
    /\ replayed \in [Submission -> BOOLEAN]

Init ==
    /\ deps \in [witness : BOOLEAN, store : BOOLEAN]
    /\ pc = [s \in Submission |-> "idle"]
    /\ env = [s \in Submission |-> None]
    /\ result = [s \in Submission |-> "none"]
    /\ holder = [k \in ScopeKey |-> None]
    /\ waiters = [k \in ScopeKey |-> << >>]
    /\ usedIds = {}
    /\ usedNonces = {}
    /\ lastSeq = [x \in Session |-> None]
    /\ startLock = {}
    /\ ctlState = [p \in Project |-> None]
    /\ releasing = {}
    /\ late = FALSE
    /\ trail = [s \in Submission |-> "none"]
    /\ replayed = [s \in Submission |-> FALSE]

\* The state getProjectControlState reports.
ControlState(p) ==
    CASE p \in startLock -> "hard_stopped"
      [] p \notin startLock /\ ctlState[p] # None -> ctlState[p]
      [] OTHER -> "running"
------------------------------------------------------------------------------
(***************************************************************************)
(* The scope lock.                                                         *)
(***************************************************************************)

\* Faulty: first come, first served.
NextWaiterFifo(q) == 1

\* The queue position of the waiter release() picks: the strongest action,
\* the earliest of them (Array.prototype.sort is stable).
NextWaiter(q) ==
    CHOOSE i \in DOMAIN q : \A j \in DOMAIN q :
        \/ getPrecedence(Action(q[i])) < getPrecedence(Action(q[j]))
        \/ getPrecedence(Action(q[i])) = getPrecedence(Action(q[j])) /\ i <= j

\* queue.filter((w) => w !== next)
Without(q, i) ==
    [j \in 1 .. Len(q) - 1 |-> IF j < i THEN q[j] ELSE q[j + 1]]

\* Submission s goes to point p.
Goto(s, p) == pc' = [pc EXCEPT ![s] = p]

\* Submission s returns r without holding the lock.
Return(s, r) ==
    /\ Goto(s, "done")
    /\ result' = [result EXCEPT ![s] = r]

\* Faulty: release() only deletes the holder.
ReturnAndDropLock(s, r) ==
    /\ Return(s, r)
    /\ holder' = [holder EXCEPT ![Key(s)] = None]
    /\ UNCHANGED waiters

\* Submission s returns r and its finally block releases the scope lock,
\* which goes to the next waiter if there is one.
ReturnAndRelease(s, r) ==
    /\ result' = [result EXCEPT ![s] = r]
    /\ LET k == Key(s)
           q == waiters[k]
           n == NextWaiter(q)
       IN  \/ /\ q = << >>
              /\ holder' = [holder EXCEPT ![k] = None]
              /\ pc' = [pc EXCEPT ![s] = "done"]
              /\ UNCHANGED waiters
           \/ /\ q # << >>
              /\ holder' = [holder EXCEPT ![k] = q[n]]
              /\ waiters' = [waiters EXCEPT ![k] = Without(q, n)]
              /\ pc' = [pc EXCEPT ![s] = "done", ![q[n]] = "markId"]

(***************************************************************************)
(* submitCommand, from await to await.                                     *)
(***************************************************************************)

Expired(e) == late /\ e.expires_at = "soon"

\* The call is made: an expired command is rejected at once.
Receive(s, e) ==
    /\ pc[s] = "idle"
    /\ env' = [env EXCEPT ![s] = e]
    /\ replayed' = [replayed EXCEPT ![s] = e.id \in usedIds]
    /\ \/ Expired(e) /\ Return(s, "rejected")
       \/ ~Expired(e) /\ Goto(s, "checkId") /\ UNCHANGED result
    /\ UNCHANGED <<lockVars, replayVars, controlVars, late, trail>>

\* Faulty: the command id is not looked up.
SkipCommandId(s) ==
    /\ pc[s] = "checkId"
    /\ Goto(s, "checkNonce")
    /\ UNCHANGED <<env, result, replayed, lockVars, replayVars, controlVars,
                   late, trail>>

\* replayStore.isCommandIdUsed
CheckCommandId(s) ==
    /\ pc[s] = "checkId"
    /\ \/ env[s].id \in usedIds /\ Return(s, "rejected")
       \/ env[s].id \notin usedIds /\ Goto(s, "checkNonce") /\ UNCHANGED result
    /\ UNCHANGED <<env, replayed, lockVars, replayVars, controlVars, late, trail>>

\* replayStore.isNonceUsed
CheckNonce(s) ==
    /\ pc[s] = "checkNonce"
    /\ \/ env[s].nonce \in usedNonces /\ Return(s, "rejected")
       \/ env[s].nonce \notin usedNonces /\ Goto(s, "checkSeq") /\ UNCHANGED result
    /\ UNCHANGED <<env, replayed, lockVars, replayVars, controlVars, late, trail>>

\* replayStore.getLastActorSeq
CheckActorSeq(s) ==
    /\ pc[s] = "checkSeq"
    /\ LET last == lastSeq[env[s].session]
           outOfOrder == last # None /\ env[s].seq <= last
       IN  \/ outOfOrder /\ Return(s, "rejected")
           \/ ~outOfOrder /\ Goto(s, "arbitrate") /\ UNCHANGED result
    /\ UNCHANGED <<env, replayed, lockVars, replayVars, controlVars, late, trail>>

\* The confirmation proof is missing, expired or of another command.
Unconfirmed(s) ==
    /\ pc[s] = "arbitrate"
    /\ getRequiredTier(Action(s)) # "T0"
    /\ Return(s, "unconfirmed")
    /\ UNCHANGED <<env, replayed, lockVars, replayVars, controlVars, late, trail>>

\* Faulty: a command as strong as the holder's is turned away too.
AcquireOrFail(s) ==
    /\ pc[s] = "arbitrate"
    /\ \/ /\ holder[Key(s)] = None
          /\ holder' = [holder EXCEPT ![Key(s)] = s]
          /\ Goto(s, "markId")
          /\ UNCHANGED <<waiters, result>>
       \/ /\ holder[Key(s)] # None
          /\ Return(s, "conflict")
          /\ UNCHANGED lockVars
    /\ UNCHANGED <<env, replayed, replayVars, controlVars, late, trail>>

\* The proof is good (or not needed) and scopeLockStore.acquire is called:
\* the free lock is taken, a weaker command than the holder's is turned away,
\* the others queue.
Acquire(s) ==
    /\ pc[s] = "arbitrate"
    /\ LET k == Key(s)
           h == holder[k]
       IN  \/ /\ h = None
              /\ holder' = [holder EXCEPT ![k] = s]
              /\ Goto(s, "markId")
              /\ UNCHANGED <<waiters, result>>
           \/ /\ h # None
              /\ getPrecedence(Action(s)) > getPrecedence(Action(h))
              /\ Return(s, "conflict")
              /\ UNCHANGED lockVars
           \/ /\ h # None
              /\ getPrecedence(Action(s)) <= getPrecedence(Action(h))
              /\ waiters' = [waiters EXCEPT ![k] = Append(@, s)]
              /\ Goto(s, "waiting")
              /\ UNCHANGED <<holder, result>>
    /\ UNCHANGED <<env, replayed, replayVars, controlVars, late, trail>>

MarkCommandIdUsed(s) ==
    /\ pc[s] = "markId"
    /\ usedIds' = usedIds \cup {env[s].id}
    /\ Goto(s, "markNonce")
    /\ UNCHANGED <<env, result, replayed, lockVars, usedNonces, lastSeq,
                   controlVars, late, trail>>

MarkNonceUsed(s) ==
    /\ pc[s] = "markNonce"
    /\ usedNonces' = usedNonces \cup {env[s].nonce}
    /\ Goto(s, "setSeq")
    /\ UNCHANGED <<env, result, replayed, lockVars, usedIds, lastSeq,
                   controlVars, late, trail>>

SetActorSeq(s) ==
    /\ pc[s] = "setSeq"
    /\ lastSeq' = [lastSeq EXCEPT ![env[s].session] = env[s].seq]
    /\ Goto(s, "authorize")
    /\ UNCHANGED <<env, result, replayed, lockVars, usedIds, usedNonces,
                   controlVars, late, trail>>

\* witnessService.appendAuthorization succeeds.
AppendAuthorization(s) ==
    /\ pc[s] = "authorize"
    /\ deps.witness
    /\ trail' = [trail EXCEPT ![s] = "authorized"]
    /\ Goto(s, "complete")
    /\ UNCHANGED <<env, result, replayed, lockVars, replayVars, controlVars, late>>

\* witnessService.appendCompletion succeeds.
AppendCompletion(s) ==
    /\ pc[s] = "complete"
    /\ trail' = [trail EXCEPT ![s] = "completed"]
    /\ Goto(s, "apply")
    /\ UNCHANGED <<env, result, replayed, lockVars, replayVars, controlVars, late>>

\* Faulty: the failure is swallowed.
WitnessFailureIgnored(s) ==
    /\ pc[s] \in {"authorize", "complete"}
    /\ deps.witness
    /\ Goto(s, "apply")
    /\ UNCHANGED <<env, result, replayed, lockVars, replayVars, controlVars,
                   late, trail>>

\* Faulty: the failure returns without the finally block.
WitnessFailureLeaksLock(s) ==
    /\ pc[s] \in {"authorize", "complete"}
    /\ deps.witness
    /\ Return(s, "unwitnessed")
    /\ UNCHANGED <<env, replayed, lockVars, replayVars, controlVars, late, trail>>

\* One of the two appends throws.
WitnessWriteFails(s) ==
    /\ pc[s] \in {"authorize", "complete"}
    /\ deps.witness
    /\ ReturnAndRelease(s, "unwitnessed")
    /\ UNCHANGED <<env, replayed, replayVars, controlVars, late, trail>>

\* Without a witness service only the emergency hard stop proceeds.
WitnessUnavailable(s) ==
    /\ pc[s] = "authorize"
    /\ ~deps.witness
    /\ \/ /\ Action(s) = "hard_stop"
          /\ Goto(s, "apply")
          /\ UNCHANGED <<result, lockVars>>
       \/ /\ Action(s) # "hard_stop"
          /\ ReturnAndRelease(s, "unwitnessed")
    /\ UNCHANGED <<env, replayed, replayVars, controlVars, late, trail>>

\* A command with an effect on the control state of a project.
Effective(e) ==
    /\ e.project # None
    /\ \/ e.action = "hard_stop"
       \/ e.action \in {"pause", "resume"} /\ deps.store

\* First store call of an effective command.
ApplyFirst(s) ==
    /\ pc[s] = "apply"
    /\ Effective(env[s])
    /\ LET p == env[s].project
       IN  \/ /\ Action(s) = "pause"
              /\ ctlState' = [ctlState EXCEPT ![p] = "paused_review"]
              /\ Goto(s, "finish")
              /\ UNCHANGED startLock
           \/ /\ Action(s) = "resume"
              /\ startLock' = startLock \ {p}
              /\ Goto(s, "apply2")
              /\ UNCHANGED ctlState
           \/ /\ Action(s) = "hard_stop"
              /\ startLock' = startLock \cup {p}
              /\ Goto(s, IF deps.store THEN "apply2" ELSE "finish")
              /\ UNCHANGED ctlState
    /\ UNCHANGED <<env, result, replayed, lockVars, replayVars, releasing,
                   late, trail>>

\* Faulty: 'running' is stored where the entry should be deleted.
ApplySecondStoresRunning(s) ==
    /\ pc[s] = "apply2"
    /\ ctlState' = [ctlState EXCEPT ![env[s].project] =
                        IF Action(s) = "resume" THEN "resuming" ELSE "running"]
    /\ Goto(s, "finish")
    /\ UNCHANGED <<env, result, replayed, lockVars, replayVars, startLock,
                   releasing, late, trail>>

\* Second store call of resume and hard_stop.
ApplySecond(s) ==
    /\ pc[s] = "apply2"
    /\ ctlState' = [ctlState EXCEPT ![env[s].project] =
                        IF Action(s) = "resume" THEN "resuming" ELSE None]
    /\ Goto(s, "finish")
    /\ UNCHANGED <<env, result, replayed, lockVars, replayVars, startLock,
                   releasing, late, trail>>

\* submitCommand returns 'applied'.
Finish(s) ==
    /\ \/ pc[s] = "finish"
       \/ pc[s] = "apply" /\ ~Effective(env[s])
    /\ ReturnAndRelease(s, "applied")
    /\ UNCHANGED <<env, replayed, replayVars, controlVars, late, trail>>

(***************************************************************************)
(* setStartLock, the direct call.  A release has a second await, the       *)
(* clearing of the control state; at most one of them is pending per       *)
(* project.  A release by another actor than the Principal throws.         *)
(***************************************************************************)
SetStartLock(p) ==
    /\ startLock' = startLock \cup {p}
    /\ UNCHANGED <<callVars, lockVars, replayVars, ctlState, releasing,
                   late, trail>>

ReleaseStartLock(p) ==
    /\ p \notin releasing
    /\ startLock' = startLock \ {p}
    /\ releasing' = IF deps.store THEN releasing \cup {p} ELSE releasing
    /\ UNCHANGED <<callVars, lockVars, replayVars, ctlState, late, trail>>

\* Faulty: the start lock is dropped by the second store call.
ClearAndUnlock(p) ==
    /\ p \in releasing
    /\ releasing' = releasing \ {p}
    /\ startLock' = startLock \ {p}
    /\ ctlState' = [ctlState EXCEPT ![p] = None]
    /\ UNCHANGED <<callVars, lockVars, replayVars, late, trail>>

ClearReleased(p) ==
    /\ p \in releasing
    /\ releasing' = releasing \ {p}
    /\ ctlState' = [ctlState EXCEPT ![p] = None]
    /\ UNCHANGED <<callVars, lockVars, replayVars, startLock, late, trail>>

\* The clock passes the instant "soon".
Expire ==
    /\ late' = TRUE
    /\ UNCHANGED <<callVars, lockVars, replayVars, controlVars, trail>>

Step(s) ==
    \/ CheckCommandId(s) \/ CheckNonce(s) \/ CheckActorSeq(s)
    \/ Unconfirmed(s) \/ Acquire(s)
    \/ MarkCommandIdUsed(s) \/ MarkNonceUsed(s) \/ SetActorSeq(s)
    \/ AppendAuthorization(s) \/ AppendCompletion(s)
    \/ WitnessWriteFails(s) \/ WitnessUnavailable(s)
    \/ ApplyFirst(s) \/ ApplySecond(s) \/ Finish(s)

Next ==
    /\ \/ \E s \in Submission : Step(s)
       \/ \E s \in Submission, e \in Envelope : Receive(s, e)
       \/ \E p \in Project : \/ SetStartLock(p)
                             \/ ReleaseStartLock(p)
                             \/ ClearReleased(p)
       \/ Expire
    /\ UNCHANGED deps

\* A promise that can resolve does: every await of a submission returns.
Fairness == \A s \in Submission : WF_vars(Step(s) /\ UNCHANGED deps)

Spec == Init /\ [][Next]_vars
FairSpec == Spec /\ Fairness
------------------------------------------------------------------------------
(***************************************************************************)
(* Properties.                                                             *)
(***************************************************************************)

\* The submission between acquire and release on a scope is its holder.
CriticalHolds ==
    \A s \in Submission : pc[s] \in Critical => holder[Key(s)] = s
HolderCritical ==
    \A k \in ScopeKey : holder[k] # None =>
        pc[holder[k]] \in Critical /\ Key(holder[k]) = k

\* A submission whose acquire has not resolved is queued, once, on its scope.
WaiterQueued ==
    \A s \in Submission : pc[s] = "waiting" =>
        \E i \in DOMAIN waiters[Key(s)] : waiters[Key(s)][i] = s
QueueWaits ==
    \A k \in ScopeKey : \A i \in DOMAIN waiters[k] :
        /\ pc[waiters[k][i]] = "waiting"
        /\ Key(waiters[k][i]) = k
        /\ \A j \in DOMAIN waiters[k] : waiters[k][i] = waiters[k][j] => i = j

\* Nobody waits for a free scope.
FreeIsEmpty ==
    \A k \in ScopeKey : holder[k] = None => waiters[k] = << >>

\* The scope lock (InMemoryScopeLockStore) and the submissions agree: one
\* submission at a time is between acquire and release on a scope, and no
\* waiter is forgotten, duplicated or queued on another scope.
ScopeLockCoherent ==
    CriticalHolds /\ HolderCritical /\ WaiterQueued /\ QueueWaits /\ FreeIsEmpty

\* OPCTL-002 for calls that do not overlap: a command submitted after some
\* submission marked its id is rejected, whatever else is in flight.
LateReplayRejected ==
    \A s \in Submission :
        replayed[s] /\ pc[s] = "done" => result[s] = "rejected"

\* OPCTL-006 / OPCTL-007: no command has reached its first control-state write
\* before both witness records exist, except a hard stop of a service that runs
\* without a witness.
WitnessedBeforeApply ==
    \A s \in Submission :
        pc[s] \in {"apply", "apply2", "finish"} \/ result[s] = "applied" =>
            \/ trail[s] = "completed"
            \/ ~deps.witness /\ Action(s) = "hard_stop"

\* OPCTL-005: a hard stop is never turned away by arbitration, and when a
\* command is turned away a stronger one was holding its scope.
HardStopNotArbitratedAway ==
    [][\A s \in Submission :
          result[s] # "conflict" /\ result'[s] = "conflict" =>
              /\ Action(s) # "hard_stop"
              /\ holder[Key(s)] # None
              /\ getPrecedence(Action(holder[Key(s)])) < getPrecedence(Action(s))]_vars

\* Release hands a scope over in precedence order: no waiter left in the queue
\* is stronger than the new holder, and none as strong was queued before it.
HandoverByPrecedence ==
    [][\A k \in ScopeKey :
          holder[k] # None /\ holder'[k] # holder[k] /\ holder'[k] # None =>
              \E i \in DOMAIN waiters[k] :
                  /\ waiters[k][i] = holder'[k]
                  /\ \A j \in DOMAIN waiters[k] :
                        LET ri == getPrecedence(Action(waiters[k][i]))
                            rj == getPrecedence(Action(waiters[k][j]))
                        IN  ri < rj \/ (ri = rj /\ i <= j)]_vars

\* START-004: a hard stop that has answered 'applied' is not undone by the
\* commands of its scope that were in flight with it: a project leaves
\* hard_stopped only by a resume holding its scope lock, or by a direct release.
HardStopSticks ==
    [][\A p \in Project :
          ControlState(p) = "hard_stopped" /\ ControlState(p)' # "hard_stopped" =>
              \/ p \in releasing' \/ ~deps.store
              \/ \E s \in Submission :
                    /\ pc[s] = "apply" /\ holder[Key(s)] = s
                    /\ env[s].project = p /\ Action(s) = "resume"]_vars

\* Every call of submitCommand returns: the lock is released on every path and
\* no waiter starves, however commands of other precedence come and go.
EveryCallReturns ==
    \A s \in Submission : pc[s] # "idle" ~> pc[s] = "done"

\* "Mark as used before apply (idempotency: replay would have been caught
\* above)": a command is applied at most once.
AppliedAtMostOnce ==
    \A s, t \in Submission :
        s # t /\ result[s] = "applied" /\ result[t] = "applied" =>
            env[s].id # env[t].id
==============================================================================
