--------------------------------- MODULE Ingress ---------------------------------
(***************************************************************************)
(* The ingress gateway (self/cortex/core/src/ingress/): gateway.ts,        *)
(* idempotency-store.ts and dispatch-admission.ts.                         *)
(*                                                                         *)
(* Callers submit envelopes.  An envelope is validated, its idempotency    *)
(* key is claimed, the project is looked at, a workflow run is started or  *)
(* a task queued, and the claim is committed, or released when anything    *)
(* was refused or failed.  Records of keys expire after Ttl, nonces after  *)
(* Window, and an envelope is refused when it occurred more than Window    *)
(* away from now.                                                          *)
(*                                                                         *)
(* A key is a pair <<source, occurredAt>>: a schedule's idempotency key is *)
(* made of these two, and an event is redelivered with the time it         *)
(* occurred at.  One action per stretch of code between two awaits.        *)
(***************************************************************************)
EXTENDS Naturals, FiniteSets

CONSTANTS
  Caller,    \* who submits; each has one submission under way
  Key,       \* the keys of the envelopes: pairs <<source, occurredAt>>
  TaskSource,   \* the sources whose envelopes carry a task_ref
  Nonce,     \* nonces that are used again; None stands for a fresh one
  Ttl, Window,
  MaxTime,   \* bound on the clock
  None

\* 24 hours and 5 minutes.
ASSUME IngressAssumption ==
  /\ Ttl \in Nat /\ Window \in Nat /\ Ttl > 2 * Window
  /\ MaxTime \in Nat /\ \A k \in Key : k[2] \in 0 .. MaxTime
  /\ None \notin Caller /\ None \notin Nonce

Time == 0 .. MaxTime
OccurredAt(k) == k[2]

VARIABLES
  now,
  dedup,      \* dedup[k]: the record of k, or None
  nonces,     \* the nonces of the sources, with the time they were recorded
  sub,        \* sub[c]: the submission of c
  accepted,   \* accepted[k]: deliveries answered 'accepted_dispatched' (history)
  started,    \* started[k]: runs started and tasks queued (history)
  refused,    \* keys some delivery of which was answered 'rejected' (history)
  dropped     \* claims whose delivery threw (history)

storeVars == <<dedup, nonces>>
historyVars == <<accepted, started, refused, dropped>>
ingressVars == <<now, storeVars, sub, historyVars>>

Answers == {"rejected", "accepted_dispatched", "accepted_already_dispatched", "thrown"}
Record == [status : {"claimed", "committed"}, by : Caller, at : Time]
Submission ==
  [at : {"idle", "received", "duplicate", "admit", "stored", "started", "answered"},
   key : Key \cup {None}, nonce : Nonce \cup {None}, answer : Answers \cup {None}]
NoSubmission == [at |-> "idle", key |-> None, nonce |-> None, answer |-> None]

\* null is no record, no key and no time.
ASSUME NoneAssumption == None \notin Record /\ None \notin Key /\ None \notin Time

IngressTypeOK ==
  /\ now \in Time
  /\ dedup \in [Key -> Record \cup {None}]
  /\ \A n \in nonces : n[2] \in Nonce /\ n[3] \in Time
  /\ sub \in [Caller -> Submission]
  /\ accepted \in [Key -> Nat] /\ started \in [Key -> Nat]
  /\ refused \subseteq Key /\ dropped \subseteq Key

IngressInit ==
  /\ now = 0
  /\ dedup = [k \in Key |-> None]
  /\ nonces = {}
  /\ sub = [c \in Caller |-> NoSubmission]
  /\ accepted = [k \in Key |-> 0] /\ started = [k \in Key |-> 0]
  /\ refused = {} /\ dropped = {}

At(c, step) == sub[c].at = step
KeyOf(c) == sub[c].key
Go(c, step) == sub' = [sub EXCEPT ![c].at = step]
Answer(c, answer) ==
  sub' = [sub EXCEPT ![c] = [NoSubmission EXCEPT !.at = "answered", !.answer = answer]]

Reject(c) ==
  /\ Answer(c, "rejected")
  /\ refused' = refused \cup {KeyOf(c)}
  /\ UNCHANGED <<now, accepted, started, dropped>>

Tick ==
  /\ now < MaxTime
  /\ now' = now + 1
  /\ UNCHANGED <<storeVars, sub, historyVars>>

--------------------------------------------------------------------------------
(* The idempotency store. *)

\* Faulty: keys are forgotten as soon as nonces are.
ExpiredEarly(record) == record # None /\ now - record.at > Window

\* pruneExpired, of a record and of a nonce.
Expired(record) == record # None /\ now - record.at > Ttl
Pruned == [k \in Key |-> IF Expired(dedup[k]) THEN None ELSE dedup[k]]
PrunedNonces == {n \in nonces : now - n[3] =< Window}

Distance(s, t) == IF s < t THEN t - s ELSE s - t

\* Neither too old nor too far ahead, and with a nonce its source did not use.
IsFresh(c) ==
  /\ Distance(now, OccurredAt(KeyOf(c))) =< Window
  /\ \A n \in PrunedNonces : ~(n[1] = KeyOf(c)[1] /\ n[2] = sub[c].nonce)

\* claim() finds a record of the key: the delivery is a duplicate.
ClaimDuplicate(c) ==
  /\ At(c, "received") /\ Pruned[KeyOf(c)] # None
  /\ dedup' = Pruned /\ nonces' = PrunedNonces
  /\ Go(c, "duplicate")
  /\ UNCHANGED <<now, historyVars>>

ClaimReplay(c) ==
  /\ At(c, "received") /\ Pruned[KeyOf(c)] = None /\ ~IsFresh(c)
  /\ dedup' = Pruned /\ nonces' = PrunedNonces
  /\ Reject(c)

ClaimKey(c) ==
  /\ At(c, "received") /\ Pruned[KeyOf(c)] = None /\ IsFresh(c)
  /\ dedup' = [Pruned EXCEPT ![KeyOf(c)] = [status |-> "claimed", by |-> c, at |-> now]]
  /\ nonces' = PrunedNonces \cup
       (IF sub[c].nonce = None THEN {} ELSE {<<KeyOf(c)[1], sub[c].nonce, now>>})
  /\ Go(c, "admit")
  /\ UNCHANGED <<now, historyVars>>

\* The reservation of c is the one on record.
Reserved(c) == dedup[KeyOf(c)] # None /\ dedup[KeyOf(c)].by = c

commitDispatch(c) ==
  dedup' = IF Reserved(c) THEN [dedup EXCEPT ![KeyOf(c)].status = "committed"] ELSE dedup

\* Faulty: the claim is not released.
ReleaseNothing(c) == UNCHANGED dedup

releaseClaim(c) ==
  dedup' = IF Reserved(c) /\ dedup[KeyOf(c)].status = "claimed"
           THEN [dedup EXCEPT ![KeyOf(c)] = None] ELSE dedup

--------------------------------------------------------------------------------
(* The gateway and the admission. *)

\* submit() is called with a fresh envelope.
Submit(c, k, nonce) ==
  /\ At(c, "idle")
  /\ sub' = [sub EXCEPT ![c] = [at |-> "received", key |-> k, nonce |-> nonce, answer |-> None]]

\* The schema, authentication or authorisation refuses the envelope.
Invalid(c) ==
  /\ At(c, "received")
  /\ Reject(c)
  /\ UNCHANGED storeVars

\* waitForCommittedDuplicate: committed, released or out of time, the answer is
\* the same.
AnswerDuplicate(c) ==
  /\ At(c, "duplicate")
  /\ Answer(c, "accepted_already_dispatched")
  /\ UNCHANGED <<now, storeVars, historyVars>>

\* rejectAndRelease
RejectAndRelease(c) ==
  /\ releaseClaim(c)
  /\ Reject(c)
  /\ UNCHANGED nonces

\* The control state, the project, the task or workflow, or admission refuses; or
\* the start throws, or storing the execution record or the task.
AdmissionFails(c) == (At(c, "admit") \/ At(c, "stored")) /\ RejectAndRelease(c)

\* A lookup of the control state, the project or the task throws: no catch is in
\* the way, submit() throws, and the claim stays until it expires.
LookupThrows(c) ==
  /\ At(c, "admit")
  /\ Answer(c, "thrown")
  /\ dropped' = dropped \cup {KeyOf(c)}
  /\ UNCHANGED <<now, storeVars, accepted, started, refused>>

IsTask(c) == KeyOf(c)[1] \in TaskSource

\* Task path: the execution record is stored, then the task is queued.
StoreExecutionRecord(c) ==
  /\ At(c, "admit") /\ IsTask(c)
  /\ Go(c, "stored")
  /\ UNCHANGED <<now, storeVars, historyVars>>

\* workflowEngine.start, or the put of the backlog queue.
Start(c) ==
  /\ At(c, "stored") \/ (At(c, "admit") /\ ~IsTask(c))
  /\ started' = [started EXCEPT ![KeyOf(c)] = @ + 1]
  /\ Go(c, "started")
  /\ UNCHANGED <<now, storeVars, accepted, refused, dropped>>

\* The queue fails after it stored the task (its analytics do): the delivery is
\* rejected although the task will run.
QueueFailsLate(c) == At(c, "started") /\ IsTask(c) /\ RejectAndRelease(c)

CommitAndAccept(c) ==
  /\ At(c, "started")
  /\ commitDispatch(c)
  /\ Answer(c, "accepted_dispatched")
  /\ accepted' = [accepted EXCEPT ![KeyOf(c)] = @ + 1]
  /\ UNCHANGED <<now, nonces, started, refused, dropped>>

IngressStep(c) ==
  \/ ClaimDuplicate(c) \/ ClaimReplay(c) \/ ClaimKey(c) \/ Invalid(c) \/ AnswerDuplicate(c)
  \/ AdmissionFails(c) \/ LookupThrows(c) \/ StoreExecutionRecord(c) \/ Start(c) \/ QueueFailsLate(c)
  \/ CommitAndAccept(c)

--------------------------------------------------------------------------------
(* Properties. *)

\* The delivery of c holds the claim of k, before and after the run was started.
Holding(c, k) == KeyOf(c) = k /\ sub[c].at \in {"admit", "stored"}
Starting(c, k) == KeyOf(c) = k /\ At(c, "started")

\* Every record stands for a delivery under way or one that was accepted, or was
\* left by a lookup that threw.  So, the last case apart, a delivery is told
\* 'already_dispatched' only of a key that was dispatched or was being dispatched
\* when it came (it may still fail: the answer does not wait longer than 25 ms),
\* and a rejected key is free for the next delivery.
RecordsAreLive ==
  \A k \in Key : dedup[k] # None =>
    IF dedup[k].status = "claimed"
    THEN Holding(dedup[k].by, k) \/ Starting(dedup[k].by, k) \/ k \in dropped
    ELSE accepted[k] > 0

================================================================================
