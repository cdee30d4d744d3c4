------------------------------- MODULE Recovery -------------------------------
(***************************************************************************)
(* The recovery components (self/cortex/core/src/recovery/) as operators   *)
(* on the ledger of one run id: checkpoint-manager.ts,                     *)
(* recovery-ledger-store.ts, recovery-orchestrator.ts and the two policy   *)
(* evaluators.  Backlog composes them with the executions of an entry.     *)
(*                                                                         *)
(* A checkpoint is abstracted to its previous hash: every execution of an  *)
(* entry has the same state hash, that of the entry's payload.  A ledger   *)
(* is the sequence of the committed copies; a prepared record is seen by   *)
(* its own commit only, so the execution that prepared it holds it.        *)
(***************************************************************************)
EXTENDS Naturals, Sequences

NullHash  == "null"
StateHash == "payload hash"
Checkpoint == {NullHash, StateHash}

getLastCommitted(ledger) == ledger # <<>>

\* Faulty: the link to the last committed checkpoint is forgotten.
PrepareUnlinked(ledger) == NullHash

\* prepare: a record whose previous hash is that of the last committed one.
Prepare(ledger) == IF getLastCommitted(ledger) THEN StateHash ELSE NullHash

\* commit: a committed copy of the prepared record is appended.
Commit(ledger, prepared) == Append(ledger, prepared)

validateChain(ledger) ==
    \A i \in DOMAIN ledger :
        ledger[i] = (IF i = 1 THEN NullHash ELSE StateHash)

RetryEvaluate(failure, attempt, budget, evidence) ==
    CASE failure # "retryable_transient" -> "retry_blocked"
      [] failure = "retryable_transient" /\ attempt >= budget -> "escalate"
      [] failure = "retryable_transient" /\ attempt < budget /\ ~evidence -> "retry_blocked"
      [] OTHER -> "allowed"

RollbackEvaluate(effect, operation, sameDomain, escalated) ==
    IF effect = "unknown_external_effect" THEN "review_required"
    ELSE IF operation = "irreversible" THEN "rollback_blocked"
    ELSE IF operation = "compensatable" THEN "compensation_required"
    ELSE IF ~sameDomain /\ ~escalated THEN "rollback_blocked"
    ELSE "allowed"

\* Faulty: a run without a committed checkpoint is retried.
RecoveryAlwaysRetries(ledger) == "recovery_completed"

\* The orchestrator.  All it passes to the evaluators is fixed but the failure
\* class, and its only caller passes 'retryable_transient'.
RecoveryRun(ledger) ==
    LET retry    == RetryEvaluate("retryable_transient", 0, 3, TRUE)
        rollback == RollbackEvaluate("idempotent", "reversible", TRUE, FALSE)
    IN  IF ~validateChain(ledger) THEN "recovery_blocked_review_required"
        ELSE IF ~getLastCommitted(ledger) THEN "recovery_failed_hard_stop"
        ELSE IF retry # "allowed" THEN "recovery_blocked_review_required"
        ELSE IF rollback = "rollback_blocked" THEN "recovery_failed_hard_stop"
        ELSE IF rollback # "allowed" THEN "recovery_blocked_review_required"
        ELSE "recovery_completed"
===============================================================================
