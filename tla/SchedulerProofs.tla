---------------------------- MODULE SchedulerProofs ----------------------------
(***************************************************************************)
(* Proofs about the ingress gateway, its adapter and the scheduler, for    *)
(* any callers, keys, schedules and times.  The heart is ClaimInv: what    *)
(* the records of the idempotency store say about the deliveries under     *)
(* way, and that a key whose record is gone can no longer be fresh.        *)
(***************************************************************************)
EXTENDS Scheduler, WellFoundedInduction, TLAPS

\* The delivery of c works on its key: it has claimed it and is not answered.
Working(c) == sub[c].at \in {"admit", "stored", "started"}

\* A delivery under way has a key.
KeyInv == \A c \in Caller : sub[c].at \notin {"idle", "answered"} => KeyOf(c) \in Key

\* The key is too old to be claimed.
Shut(k) == now > OccurredAt(k) + Window

\* A record was made while its key was fresh.
RecordFresh ==
  \A k \in Key : dedup[k] # None => OccurredAt(k) =< dedup[k].at + Window

\* A working delivery has its claim on record, or its key is too old for anyone.
WorkingClaims ==
  \A c \in Caller : Working(c) =>
    \/ /\ dedup[KeyOf(c)] # None
       /\ dedup[KeyOf(c)].by = c
       /\ dedup[KeyOf(c)].status = "claimed"
    \/ Shut(KeyOf(c))

\* One delivery at a time works on a key.
WorkingAlone ==
  \A c, d \in Caller : Working(c) /\ Working(d) /\ KeyOf(c) = KeyOf(d) => c = d

\* Nobody works on an accepted key.
WorkingUnaccepted ==
  \A c \in Caller : Working(c) => accepted[KeyOf(c)] = 0

\* An accepted key is on record as committed, or too old for anyone.
AcceptedRemembered ==
  \A k \in Key : accepted[k] > 0 =>
    (dedup[k] # None /\ dedup[k].status = "committed") \/ Shut(k)

ClaimInv ==
  /\ RecordFresh /\ WorkingClaims /\ WorkingAlone /\ WorkingUnaccepted
  /\ AcceptedRemembered

GatewayInv == via = "gateway" => ClaimInv

\* The adapter does not use the idempotency store.
StoreUnused == via = "adapter" => \A k \in Key : dedup[k] = None

IngressInv ==
  IngressTypeOK /\ AdapterTypeOK /\ KeyInv /\ GatewayInv /\ StoreUnused /\ RecordsAreLive

\* What was accepted, is being committed or has a receipt was started.
HistoryInv ==
  /\ \A k \in Key : accepted[k] > 0 \/ k \in receipts => started[k] > 0
  /\ \A c \in Caller : At(c, "started") => started[KeyOf(c)] > 0

\* Of a key that no two deliveries had under way together the adapter knows what it
\* did: one delivery at most works on it, none once there is a receipt, and a run
\* was queued by that delivery or is on receipt.
AdapterInv ==
  via = "adapter" => \A k \in Key \ overlapped :
    /\ started[k] =< 1
    /\ \A c, d \in UnderWay(k) : c = d
    /\ k \in receipts => UnderWay(k) = {}
    /\ \A c \in UnderWay(k) : At(c, "admit") => started[k] = 0
    /\ started[k] > 0 => k \in receipts \/ \E c \in Caller : Starting(c, k)

\* What the scheduler's state is made of.
Copies == UNION {[D -> Definition] : D \in SUBSET Schedule}
Pass == [at : {"off", "reconcile", "listDue", "submit", "await"}, ref : Time,
         copies : Copies, todo : SUBSET Schedule]
Wish == [enabled : BOOLEAN, trigger : Trigger]

SchedulerTypes ==
  /\ store \in [Schedule -> Definition \cup {None}]
  /\ pass \in [Caller -> Pass]
  /\ \A p \in Caller : pass[p].todo \subseteq DOMAIN pass[p].copies
  /\ edit \in [op : {"none", "cancel", "upsert"}, s : Schedule \cup {None},
               copy : Definition \cup {None}]
  /\ edit.op # "none" => edit.s \in Stored /\ edit.copy \in Definition
  /\ wanted \in [Schedule -> Wish \cup {None}]
  /\ \A s \in Stored : wanted[s] \in Wish
  /\ raced \in [Schedule -> BOOLEAN]

\* A calendar schedule is due at its execute_at or not at all.
DueAtTrigger(d) == d.trigger # Cron /\ d.due # None => d.due = d.trigger

\* A pass that will save its copy of s: the schedule is enabled in it, it is what the
\* operator asked for unless the edit overlapped, and it is due if it is submitted.
Holds(p, s) == pass[p].at \in {"reconcile", "submit", "await"} /\ s \in pass[p].todo
CopyOK(p, s) ==
  Holds(p, s) =>
    /\ s \in Stored
    /\ pass[p].copies[s].enabled
    /\ DueAtTrigger(pass[p].copies[s])
    /\ pass[p].at # "reconcile" => pass[p].copies[s].due # None
    /\ ~raced[s] => wanted[s].enabled /\ pass[p].copies[s].trigger = wanted[s].trigger
CopyInv == \A p \in Caller, s \in Schedule : CopyOK(p, s)

\* The key's occurrence is not lost: a run was started, or is about to be, or the
\* delivery that did not was rejected or threw.
Settled(k) ==
  \/ started[k] > 0
  \/ via = "gateway" /\ \E c \in Caller : Holding(c, k)
  \/ k \in refused \cup dropped

\* A pass that awaits the gateway has submitted its first schedule, and when it is
\* told so, or is a duplicate, the occurrence is settled.
Submitted(p) == <<First(p), pass[p].copies[First(p)].due>>
AwaitOK(p) ==
  /\ pass[p].at \in {"submit", "await"} => pass[p].todo # {}
  /\ pass[p].at \in {"reconcile", "listDue", "submit"} => At(p, "idle")
  /\ pass[p].at = "await" =>
       /\ ~At(p, "idle")
       /\ ~At(p, "answered") => KeyOf(p) = Submitted(p)
       /\ At(p, "duplicate") \/ (At(p, "answered") /\ sub[p].answer # "thrown")
            => Settled(Submitted(p))
AwaitInv == \A p \in Caller : AwaitOK(p)

\* LastEditHolds, with the gateway's part of it stable.
EditOK(s) ==
  /\ DueAtTrigger(store[s])
  /\ ~raced[s] =>
       /\ store[s].trigger = wanted[s].trigger
       /\ store[s].enabled => wanted[s].enabled
       /\ wanted[s].enabled /\ ~store[s].enabled =>
            wanted[s].trigger # Cron /\ Settled(<<s, wanted[s].trigger>>)
EditInv == \A s \in Stored : EditOK(s)

SchedulerInv ==
  /\ IngressInv /\ HistoryInv /\ AdapterInv
  /\ SchedulerTypes /\ CopyInv /\ AwaitInv /\ EditInv

\* What the rest of the system does to the gateway: a caller that is idle, or takes
\* its answer, submits an envelope or becomes idle.
CallerMoves(c) ==
  /\ sub[c].at \in {"idle", "answered"}
  /\ \E x \in Submission :
       /\ x.at = "idle" \/ (x.at = "received" /\ x.key \in Key)
       /\ sub' = [sub EXCEPT ![c] = x]
  /\ UNCHANGED <<now, storeVars, historyVars, adapterVars>>

--------------------------------------------------------------------------------
(* The idempotency store. *)

\* Times are numbers.
LEMMA TimeType ==
  /\ \A t \in Time : t \in Nat
  /\ Ttl \in Nat /\ Window \in Nat /\ Ttl > 2 * Window
  /\ \A k \in Key : OccurredAt(k) \in Nat
  BY IngressAssumption DEF Time, OccurredAt

\* pruneExpired drops only records of keys that can no longer be claimed: this is
\* where Ttl > 2 * Window (24 hours and 5 minutes) is needed.
LEMMA PrunedIsShut ==
  ASSUME IngressTypeOK, RecordFresh, NEW k \in Key, Expired(dedup[k])
  PROVE  Shut(k)
  <1>1. dedup[k] \in Record /\ dedup[k].at \in Time /\ now \in Time
    BY DEF IngressTypeOK, Expired, Record
  <1>2. OccurredAt(k) =< dedup[k].at + Window /\ now - dedup[k].at > Ttl
    BY DEF RecordFresh, Expired
  <1>3. /\ dedup[k].at \in Nat /\ now \in Nat /\ OccurredAt(k) \in Nat
        /\ Ttl \in Nat /\ Window \in Nat /\ Ttl > 2 * Window
    BY <1>1, TimeType
  <1> QED BY <1>2, <1>3 DEF Shut

\* A fresh envelope is not too old.
LEMMA FreshIsOpen ==
  ASSUME IngressTypeOK, NEW c \in Caller, KeyOf(c) \in Key, IsFresh(c)
  PROVE  ~Shut(KeyOf(c)) /\ OccurredAt(KeyOf(c)) =< now + Window
  BY TimeType DEF IngressTypeOK, IsFresh, Distance, Shut

\* pruneExpired keeps the store's shape, and what is left of it.
LEMMA PrunedType ==
  ASSUME IngressTypeOK
  PROVE  /\ Pruned \in [Key -> Record \cup {None}]
         /\ \A k \in Key : Pruned[k] = dedup[k] \/ (Pruned[k] = None /\ Expired(dedup[k]))
         /\ \A n \in PrunedNonces : n[2] \in Nonce /\ n[3] \in Time
  BY DEF IngressTypeOK, Pruned, PrunedNonces

--------------------------------------------------------------------------------
(* Steps of a delivery through the gateway.                                   *)

\* Every step keeps the shape of the gateway's state, and a delivery under way
\* keeps its key until it is answered.
LEMMA StepTypes ==
  ASSUME IngressTypeOK, AdapterTypeOK, KeyInv, NEW c \in Caller, SubmitStep(c)
  PROVE  /\ IngressTypeOK' /\ AdapterTypeOK' /\ KeyInv'
         /\ now' = now /\ via' = via
         /\ \A d \in Caller \ {c} : sub'[d] = sub[d]
         /\ sub'[c].at \notin {"idle", "answered"} => KeyOf(c)' = KeyOf(c)
         /\ KeyOf(c) \in Key
  <1> DEFINE Goal == /\ IngressTypeOK' /\ AdapterTypeOK' /\ KeyInv'
                     /\ now' = now /\ via' = via
                     /\ \A d \in Caller \ {c} : sub'[d] = sub[d]
                     /\ sub'[c].at \notin {"idle", "answered"} => KeyOf(c)' = KeyOf(c)
                     /\ KeyOf(c) \in Key
  <1>1. /\ sub \in [Caller -> Submission] /\ dedup \in [Key -> Record \cup {None}]
        /\ accepted \in [Key -> Nat] /\ started \in [Key -> Nat]
        /\ refused \subseteq Key /\ dropped \subseteq Key
        /\ now \in Time /\ \A n \in nonces : n[2] \in Nonce /\ n[3] \in Time
    BY DEF IngressTypeOK
  <1>2. sub[c].at \notin {"idle", "answered"} => KeyOf(c) \in Key
    BY DEF KeyInv
  <1>3. ASSUME now' = now, via' = via,
               receipts' \subseteq Key, overlapped' \subseteq Key,
               dedup' \in [Key -> Record \cup {None}],
               \A n \in nonces' : n[2] \in Nonce /\ n[3] \in Time,
               accepted' \in [Key -> Nat], started' \in [Key -> Nat],
               refused' \subseteq Key, dropped' \subseteq Key,
               sub[c].at \notin {"idle", "answered"},
               \/ \E step \in {"duplicate", "admit", "stored", "started"} : Go(c, step)
               \/ \E answer \in Answers : Answer(c, answer)
        PROVE  Goal
    <2>1. /\ sub' \in [Caller -> Submission]
          /\ \A d \in Caller \ {c} : sub'[d] = sub[d]
          /\ sub'[c].at \notin {"idle", "answered"} => sub'[c].key = sub[c].key
      <3>1. CASE \E step \in {"duplicate", "admit", "stored", "started"} : Go(c, step)
        BY <1>1, <3>1 DEF Go, Submission
      <3>2. CASE \E answer \in Answers : Answer(c, answer)
        <4>1. PICK answer \in Answers : Answer(c, answer)
          BY <3>2
        <4> DEFINE x == [NoSubmission EXCEPT !.at = "answered", !.answer = answer]
        <4>2. x \in Submission /\ x.at = "answered"
          BY DEF Submission, NoSubmission
        <4>3. sub' = [sub EXCEPT ![c] = x]
          BY <4>1 DEF Answer
        <4> HIDE DEF x
        <4> QED BY <1>1, <4>2, <4>3
      <3> QED BY <1>3, <3>1, <3>2
    <2>2. KeyInv'
      BY <1>2, <1>3, <2>1 DEF KeyInv, KeyOf
    <2> QED BY <1>1, <1>2, <1>3, <2>1, <2>2 DEF IngressTypeOK, AdapterTypeOK, KeyOf
  <1>4. /\ Pruned \in [Key -> Record \cup {None}]
        /\ \A n \in PrunedNonces : n[2] \in Nonce /\ n[3] \in Time
    BY PrunedType
  <1>5. receipts \subseteq Key /\ overlapped \subseteq Key
    BY DEF AdapterTypeOK
  <1> USE DEF At, Answers, storeVars, historyVars, adapterVars
  <1>6. CASE via = "gateway" /\ IngressStep(c) /\ UNCHANGED adapterVars
    <2>1. CASE ClaimDuplicate(c)
      BY <1>1, <1>3, <1>4, <1>5, <1>6, <2>1 DEF ClaimDuplicate
    <2>2. CASE ClaimReplay(c)
      BY <1>1, <1>2, <1>3, <1>4, <1>5, <1>6, <2>2 DEF ClaimReplay, Reject
    <2>3. CASE ClaimKey(c)
      <3>1. [status |-> "claimed", by |-> c, at |-> now] \in Record
        BY <1>1 DEF Record
      <3>2. dedup' \in [Key -> Record \cup {None}]
        BY <1>1, <1>4, <2>3, <3>1 DEF ClaimKey
      <3>3. sub[c].nonce \in Nonce \cup {None}
        BY <1>1 DEF Submission
      <3>4. \A n \in nonces' : n[2] \in Nonce /\ n[3] \in Time
        BY <1>1, <1>4, <2>3, <3>3 DEF ClaimKey
      <3> QED BY <1>1, <1>3, <1>5, <1>6, <2>3, <3>2, <3>4 DEF ClaimKey
    <2>4. CASE Invalid(c)
      BY <1>1, <1>2, <1>3, <1>5, <1>6, <2>4 DEF Invalid, Reject
    <2>5. CASE AnswerDuplicate(c)
      BY <1>1, <1>3, <1>5, <1>6, <2>5 DEF AnswerDuplicate
    <2>6. CASE AdmissionFails(c) \/ QueueFailsLate(c)
      BY <1>1, <1>2, <1>3, <1>5, <1>6, <2>6
      DEF AdmissionFails, QueueFailsLate, RejectAndRelease, releaseClaim, Reject
    <2>7. CASE LookupThrows(c)
      BY <1>1, <1>2, <1>3, <1>5, <1>6, <2>7 DEF LookupThrows
    <2>8. CASE StoreExecutionRecord(c)
      BY <1>1, <1>3, <1>5, <1>6, <2>8 DEF StoreExecutionRecord
    <2>9. CASE Start(c)
      BY <1>1, <1>2, <1>3, <1>5, <1>6, <2>9 DEF Start
    <2>10. CASE CommitAndAccept(c)
      <3>1. dedup' \in [Key -> Record \cup {None}]
        BY <1>1, <1>2, <2>10 DEF CommitAndAccept, commitDispatch, Reserved, Record
      <3>2. accepted' \in [Key -> Nat]
        <4>1. KeyOf(c) \in Key
          BY <1>2, <2>10 DEF CommitAndAccept
        <4>2. accepted' = [accepted EXCEPT ![KeyOf(c)] = accepted[KeyOf(c)] + 1]
          BY <2>10 DEF CommitAndAccept
        <4> QED BY <1>1, <4>1, <4>2
      <3>3. Answer(c, "accepted_dispatched") /\ sub[c].at = "started"
        BY <2>10 DEF CommitAndAccept
      <3>4. UNCHANGED <<now, nonces, started, refused, dropped, receipts, overlapped, via>>
        BY <1>6, <2>10 DEF CommitAndAccept
      <3> QED BY <1>1, <1>2, <1>3, <1>5, <3>1, <3>2, <3>3, <3>4
    <2> QED
      BY <1>6, <2>1, <2>2, <2>3, <2>4, <2>5, <2>6, <2>7, <2>8, <2>9, <2>10 DEF IngressStep
  <1>7. CASE via = "adapter" /\ AdapterStep(c)
    <2>1. CASE AdapterDuplicate(c)
      BY <1>1, <1>3, <1>5, <2>1 DEF AdapterDuplicate
    <2>2. CASE AdapterLookup(c)
      BY <1>1, <1>2, <1>3, <1>5, <2>2 DEF AdapterLookup
    <2>3. CASE AdapterEnqueue(c)
      BY <1>1, <1>2, <1>3, <1>5, <2>3 DEF AdapterEnqueue
    <2>4. CASE AdapterThrows(c)
      BY <1>1, <1>2, <1>3, <1>5, <2>4 DEF AdapterThrows
    <2>5. CASE AdapterAccept(c)
      BY <1>1, <1>2, <1>3, <1>5, <2>5 DEF AdapterAccept
    <2>6. CASE Invalid(c) /\ UNCHANGED adapterVars
      BY <1>1, <1>2, <1>3, <1>5, <2>6 DEF Invalid, Reject
    <2> QED BY <1>7, <2>1, <2>2, <2>3, <2>4, <2>5, <2>6 DEF AdapterStep
  <1> QED
    BY <1>6, <1>7 DEF SubmitStep

\* A claim stands for a working delivery: RecordsAreLive in these terms.
LEMMA LiveRecord ==
  /\ \A c \in Caller, k \in Key :
       Holding(c, k) \/ Starting(c, k) <=> Working(c) /\ KeyOf(c) = k
  /\ RecordsAreLive <=>
       \A k \in Key : dedup[k] # None =>
         IF dedup[k].status = "claimed"
         THEN (Working(dedup[k].by) /\ KeyOf(dedup[k].by) = k) \/ k \in dropped
         ELSE accepted[k] > 0
  BY DEF Holding, Starting, Working, At, RecordsAreLive

\* Steps that claim and commit nothing, drop at most records of keys too old for
\* anyone, and end a working delivery only if its key is noted as dropped.
LEMMA ClaimFrame ==
  ASSUME IngressTypeOK, KeyInv, ClaimInv, RecordsAreLive,
         \A k \in Key : Shut(k) => Shut(k)',
         accepted' = accepted, dropped \subseteq dropped',
         \A k \in Key : dedup'[k] = dedup[k] \/ (dedup'[k] = None /\ Shut(k)),
         \A d \in Caller : Working(d)' => Working(d) /\ KeyOf(d)' = KeyOf(d),
         \A d \in Caller : Working(d) /\ ~Working(d)' => KeyOf(d) \in dropped'
  PROVE  ClaimInv' /\ RecordsAreLive'
  <1>1. \A d \in Caller : Working(d) => KeyOf(d) \in Key
    BY DEF KeyInv, Working
  <1>2. \A k \in Key : dedup[k] # None => dedup[k].by \in Caller
    BY DEF IngressTypeOK, Record
  <1>3. RecordFresh'
    BY DEF ClaimInv, RecordFresh, OccurredAt
  <1>4. WorkingClaims'
    <2> SUFFICES ASSUME NEW d \in Caller, Working(d)', ~Shut(KeyOf(d))'
                 PROVE  /\ dedup'[KeyOf(d)'] # None
                        /\ dedup'[KeyOf(d)'].by = d
                        /\ dedup'[KeyOf(d)'].status = "claimed"
      BY DEF WorkingClaims
    <2>1. Working(d) /\ KeyOf(d)' = KeyOf(d) /\ KeyOf(d) \in Key
      BY <1>1
    <2>2. ~Shut(KeyOf(d))
      BY <2>1 DEF Shut, OccurredAt
    <2> QED BY <2>1, <2>2 DEF ClaimInv, WorkingClaims
  <1>5. WorkingAlone' /\ WorkingUnaccepted'
    BY DEF ClaimInv, WorkingAlone, WorkingUnaccepted
  <1>6. AcceptedRemembered'
    BY DEF ClaimInv, AcceptedRemembered
  <1>7. RecordsAreLive'
    <2> SUFFICES ASSUME NEW k \in Key, dedup'[k] # None
                 PROVE  IF dedup'[k].status = "claimed"
                        THEN \/ Working(dedup[k].by)' /\ KeyOf(dedup[k].by)' = k
                             \/ k \in dropped'
                        ELSE accepted'[k] > 0
      BY DEF RecordsAreLive, Holding, Starting, Working, At, KeyOf
    <2>1. dedup'[k] = dedup[k] /\ dedup[k].by \in Caller
      BY <1>2
    <2> QED BY <2>1, LiveRecord
  <1> QED BY <1>3, <1>4, <1>5, <1>6, <1>7 DEF ClaimInv

\* Nobody works on a key that claim() finds free and fresh, and it was not
\* accepted before.
LEMMA FreeKey ==
  ASSUME IngressTypeOK, KeyInv, ClaimInv, NEW c \in Caller,
         KeyOf(c) \in Key, Pruned[KeyOf(c)] = None, IsFresh(c)
  PROVE  /\ \A d \in Caller : Working(d) => KeyOf(d) # KeyOf(c)
         /\ accepted[KeyOf(c)] = 0
  <1> DEFINE k == KeyOf(c)
  <1>1. ~Shut(k)
    BY FreshIsOpen
  <1>2. dedup[k] = None
    BY <1>1, PrunedType, PrunedIsShut DEF ClaimInv
  <1>3. accepted[k] \in Nat
    BY DEF IngressTypeOK
  <1> QED BY <1>1, <1>2, <1>3 DEF ClaimInv, WorkingClaims, AcceptedRemembered

\* claim() of a free, fresh key.
LEMMA ClaimKeyInv ==
  ASSUME IngressTypeOK, KeyInv, ClaimInv, RecordsAreLive, NEW c \in Caller, ClaimKey(c)
  PROVE  ClaimInv' /\ RecordsAreLive'
  <1> DEFINE k == KeyOf(c)
             r == [status |-> "claimed", by |-> c, at |-> now]
  <1>1. k \in Key /\ sub[c].at = "received"
    BY DEF ClaimKey, At, KeyInv
  <1>2. /\ r \in Record /\ r # None
        /\ r.by = c /\ r.status = "claimed" /\ r.at = now
    BY NoneAssumption DEF IngressTypeOK, Record
  <1> HIDE DEF r
  <1>3. /\ dedup'[k] = r
        /\ \A x \in Key \ {k} : dedup'[x] = dedup[x] \/ (dedup'[x] = None /\ Shut(x))
    <2>1. dedup' = [Pruned EXCEPT ![k] = r]
      BY DEF ClaimKey, r
    <2> QED BY <1>1, <2>1, PrunedType, PrunedIsShut DEF ClaimInv
  <1>4. /\ \A d \in Caller \ {c} : sub'[d] = sub[d]
        /\ sub'[c].at = "admit" /\ sub'[c].key = k
        /\ now' = now /\ accepted' = accepted /\ dropped' = dropped
    BY DEF ClaimKey, Go, IngressTypeOK, Submission, KeyOf, historyVars
  <1>5. /\ \A d \in Caller \ {c} : (Working(d)' <=> Working(d)) /\ KeyOf(d)' = KeyOf(d)
        /\ Working(c)' /\ KeyOf(c)' = k /\ ~Working(c)
    BY <1>1, <1>4 DEF Working, KeyOf
  <1>6. \A x \in Key : Shut(x)' <=> Shut(x)
    BY <1>4 DEF Shut, OccurredAt
  <1>7. /\ OccurredAt(k) =< now + Window
        /\ \A d \in Caller : Working(d) => KeyOf(d) # k
        /\ accepted[k] = 0
    BY <1>1, FreshIsOpen, FreeKey DEF ClaimKey
  <1>8. \A d \in Caller : Working(d) => KeyOf(d) \in Key
    BY DEF KeyInv, Working
  <1>9. \A x \in Key : dedup[x] # None => dedup[x].by \in Caller
    BY DEF IngressTypeOK, Record
  <1> HIDE DEF k
  <1>10. RecordFresh'
    BY <1>1, <1>2, <1>3, <1>7 DEF ClaimInv, RecordFresh, OccurredAt
  <1>11. WorkingClaims'
    <2> SUFFICES ASSUME NEW d \in Caller, Working(d)', ~Shut(KeyOf(d))'
                 PROVE  /\ dedup'[KeyOf(d)'] # None
                        /\ dedup'[KeyOf(d)'].by = d
                        /\ dedup'[KeyOf(d)'].status = "claimed"
      BY DEF WorkingClaims
    <2>1. CASE d = c
      BY <1>2, <1>3, <1>5, <2>1
    <2>2. CASE d # c
      <3>1. Working(d) /\ KeyOf(d)' = KeyOf(d) /\ KeyOf(d) \in Key /\ KeyOf(d) # k
        BY <1>5, <1>7, <1>8, <2>2
      <3>2. ~Shut(KeyOf(d))
        BY <1>4, <3>1 DEF Shut, OccurredAt
      <3> QED BY <1>3, <3>1, <3>2 DEF ClaimInv, WorkingClaims
    <2> QED BY <2>1, <2>2
  <1>12. WorkingAlone' /\ WorkingUnaccepted'
    BY <1>4, <1>5, <1>7 DEF ClaimInv, WorkingAlone, WorkingUnaccepted
  <1>13. AcceptedRemembered'
    BY <1>3, <1>4, <1>6, <1>7 DEF ClaimInv, AcceptedRemembered
  <1>14. RecordsAreLive'
    <2> SUFFICES ASSUME NEW x \in Key, dedup'[x] # None
                 PROVE  IF dedup'[x].status = "claimed"
                        THEN \/ Working(dedup[x].by)' /\ KeyOf(dedup[x].by)' = x
                             \/ x \in dropped'
                        ELSE accepted'[x] > 0
      BY DEF RecordsAreLive, Holding, Starting, Working, At, KeyOf
    <2>1. CASE x = k
      BY <1>2, <1>3, <1>5, <2>1
    <2>2. CASE x # k
      BY <1>3, <1>4, <1>5, <1>9, <2>2, LiveRecord
    <2> QED BY <2>1, <2>2
  <1> QED BY <1>10, <1>11, <1>12, <1>13, <1>14 DEF ClaimInv

\* rejectAndRelease, of a delivery that works on its key.
LEMMA ReleaseInv ==
  ASSUME IngressTypeOK, KeyInv, ClaimInv, RecordsAreLive, NEW c \in Caller,
         Working(c), RejectAndRelease(c)
  PROVE  ClaimInv' /\ RecordsAreLive'
  <1> DEFINE k == KeyOf(c)
  <1>1. k \in Key /\ accepted[k] = 0
    BY DEF KeyInv, Working, ClaimInv, WorkingUnaccepted
  <1>2. /\ \A x \in Key \ {k} : dedup'[x] = dedup[x]
        /\ \/ dedup'[k] = None
           \/ dedup'[k] = dedup[k] /\ ~(dedup[k].by = c /\ dedup[k].status = "claimed")
    BY <1>1 DEF RejectAndRelease, releaseClaim, Reserved, IngressTypeOK
  <1>3. /\ \A d \in Caller \ {c} : sub'[d] = sub[d]
        /\ sub'[c].at = "answered"
        /\ now' = now /\ accepted' = accepted /\ dropped' = dropped
    BY DEF RejectAndRelease, Reject, Answer, NoSubmission, IngressTypeOK, Submission
  <1>4. /\ \A d \in Caller \ {c} : (Working(d)' <=> Working(d)) /\ KeyOf(d)' = KeyOf(d)
        /\ ~Working(c)'
    BY <1>3 DEF Working, KeyOf
  <1>5. \A d \in Caller : Working(d) => KeyOf(d) \in Key
    BY DEF KeyInv, Working
  <1>6. \A d \in Caller : Working(d)' => d # c /\ KeyOf(d) # k
    BY <1>4 DEF ClaimInv, WorkingAlone
  <1>7. \A x \in Key : dedup[x] # None => dedup[x].by \in Caller
    BY DEF IngressTypeOK, Record
  <1> HIDE DEF k
  <1>8. RecordFresh'
    BY <1>2 DEF ClaimInv, RecordFresh, OccurredAt
  <1>9. WorkingClaims'
    <2> SUFFICES ASSUME NEW d \in Caller, Working(d)', ~Shut(KeyOf(d))'
                 PROVE  /\ dedup'[KeyOf(d)'] # None
                        /\ dedup'[KeyOf(d)'].by = d
                        /\ dedup'[KeyOf(d)'].status = "claimed"
      BY DEF WorkingClaims
    <2>1. Working(d) /\ KeyOf(d)' = KeyOf(d) /\ KeyOf(d) \in Key /\ KeyOf(d) # k
      BY <1>4, <1>5, <1>6
    <2>2. ~Shut(KeyOf(d))
      BY <1>3, <2>1 DEF Shut, OccurredAt
    <2> QED BY <1>2, <2>1, <2>2 DEF ClaimInv, WorkingClaims
  <1>10. WorkingAlone' /\ WorkingUnaccepted'
    BY <1>3, <1>4, <1>6 DEF ClaimInv, WorkingAlone, WorkingUnaccepted
  <1>11. AcceptedRemembered'
    BY <1>1, <1>2, <1>3 DEF ClaimInv, AcceptedRemembered, Shut, OccurredAt
  <1>12. RecordsAreLive'
    <2> SUFFICES ASSUME NEW x \in Key, dedup'[x] # None
                 PROVE  IF dedup'[x].status = "claimed"
                        THEN \/ Working(dedup[x].by)' /\ KeyOf(dedup[x].by)' = x
                             \/ x \in dropped'
                        ELSE accepted'[x] > 0
      BY DEF RecordsAreLive, Holding, Starting, Working, At, KeyOf
    <2>1. dedup'[x] = dedup[x] /\ dedup[x].by \in Caller
      BY <1>2, <1>7
    <2>2. dedup[x].status = "claimed" /\ dedup[x].by = c => x \in dropped \/ (x = k)
      BY <2>1, LiveRecord DEF k
    <2> QED BY <1>2, <1>3, <1>4, <2>1, <2>2, LiveRecord
  <1> QED BY <1>8, <1>9, <1>10, <1>11, <1>12 DEF ClaimInv

\* The dispatch is committed and the delivery accepted.
LEMMA CommitInv ==
  ASSUME IngressTypeOK, KeyInv, ClaimInv, RecordsAreLive, NEW c \in Caller,
         CommitAndAccept(c)
  PROVE  ClaimInv' /\ RecordsAreLive'
  <1> DEFINE k == KeyOf(c)
  <1>1. k \in Key /\ Working(c) /\ accepted[k] = 0
    BY DEF KeyInv, CommitAndAccept, Working, At, ClaimInv, WorkingUnaccepted
  <1>2. dedup \in [Key -> Record \cup {None}] /\ accepted \in [Key -> Nat]
    BY DEF IngressTypeOK
  <1>3. /\ \A x \in Key \ {k} : dedup'[x] = dedup[x]
        /\ dedup[k] # None /\ dedup[k].by = c =>
             /\ dedup'[k] # None /\ dedup'[k].status = "committed"
             /\ dedup'[k].at = dedup[k].at
        /\ ~(dedup[k] # None /\ dedup[k].by = c) => dedup'[k] = dedup[k]
    <2>1. CASE dedup[k] # None /\ dedup[k].by = c
      <3>1. dedup' = [dedup EXCEPT ![k].status = "committed"]
        BY <2>1 DEF CommitAndAccept, commitDispatch, Reserved
      <3>2. dedup[k] \in Record
        BY <1>1, <1>2, <2>1
      <3>3. [dedup[k] EXCEPT !.status = "committed"] \in Record
        BY <3>2 DEF Record
      <3>4. dedup'[k] = [dedup[k] EXCEPT !.status = "committed"]
        BY <1>1, <1>2, <3>1
      <3>5. dedup'[k].status = "committed" /\ dedup'[k].at = dedup[k].at
        BY <3>2, <3>4 DEF Record
      <3>6. \A x \in Key \ {k} : dedup'[x] = dedup[x]
        BY <1>2, <3>1
      <3> QED BY <2>1, <3>3, <3>4, <3>5, <3>6, NoneAssumption
    <2>2. CASE ~(dedup[k] # None /\ dedup[k].by = c)
      BY <2>2 DEF CommitAndAccept, commitDispatch, Reserved
    <2> QED BY <2>1, <2>2
  <1>4. /\ \A d \in Caller \ {c} : sub'[d] = sub[d]
        /\ sub'[c].at = "answered"
        /\ now' = now /\ dropped' = dropped
    BY DEF CommitAndAccept, Answer, NoSubmission, IngressTypeOK, Submission
  <1>5. accepted'[k] = 1 /\ \A x \in Key \ {k} : accepted'[x] = accepted[x]
    BY <1>1, <1>2 DEF CommitAndAccept
  <1>6. /\ \A d \in Caller \ {c} : (Working(d)' <=> Working(d)) /\ KeyOf(d)' = KeyOf(d)
        /\ ~Working(c)'
    BY <1>4 DEF Working, KeyOf
  <1>7. \A d \in Caller : Working(d) => KeyOf(d) \in Key
    BY DEF KeyInv, Working
  <1>8. \A d \in Caller : Working(d)' => d # c /\ KeyOf(d) # k
    BY <1>1, <1>6 DEF ClaimInv, WorkingAlone
  <1>9. \A x \in Key : dedup[x] # None => dedup[x].by \in Caller
    BY DEF IngressTypeOK, Record
  <1>10. dedup[k] = None \/ dedup[k].by = c \/ dedup[k].status = "committed" \/ k \in dropped
    BY <1>1, <1>9, LiveRecord, NoneAssumption, <1>2 DEF ClaimInv, WorkingAlone, Record
  <1>11. (dedup[k] # None /\ dedup[k].by = c) \/ Shut(k)
    BY <1>1 DEF ClaimInv, WorkingClaims
  <1> HIDE DEF k
  <1>12. RecordFresh'
    BY <1>3 DEF ClaimInv, RecordFresh, OccurredAt
  <1>13. WorkingClaims'
    <2> SUFFICES ASSUME NEW d \in Caller, Working(d)', ~Shut(KeyOf(d))'
                 PROVE  /\ dedup'[KeyOf(d)'] # None
                        /\ dedup'[KeyOf(d)'].by = d
                        /\ dedup'[KeyOf(d)'].status = "claimed"
      BY DEF WorkingClaims
    <2>1. Working(d) /\ KeyOf(d)' = KeyOf(d) /\ KeyOf(d) \in Key /\ KeyOf(d) # k
      BY <1>6, <1>7, <1>8
    <2>2. ~Shut(KeyOf(d))
      BY <1>4, <2>1 DEF Shut, OccurredAt
    <2> QED BY <1>3, <2>1, <2>2 DEF ClaimInv, WorkingClaims
  <1>14. WorkingAlone'
    BY <1>6, <1>8 DEF ClaimInv, WorkingAlone
  <1>15. WorkingUnaccepted'
    BY <1>5, <1>6, <1>7, <1>8 DEF ClaimInv, WorkingUnaccepted
  <1>16. AcceptedRemembered'
    BY <1>3, <1>4, <1>5, <1>11 DEF ClaimInv, AcceptedRemembered, Shut, OccurredAt
  <1>17. RecordsAreLive'
    <2> SUFFICES ASSUME NEW x \in Key, dedup'[x] # None
                 PROVE  IF dedup'[x].status = "claimed"
                        THEN \/ Working(dedup[x].by)' /\ KeyOf(dedup[x].by)' = x
                             \/ x \in dropped'
                        ELSE accepted'[x] > 0
      BY DEF RecordsAreLive, Holding, Starting, Working, At, KeyOf
    <2>1. CASE x = k
      BY <1>3, <1>4, <1>5, <1>10, <2>1
    <2>2. CASE x # k
      <3>1. dedup'[x] = dedup[x] /\ dedup[x].by \in Caller
        BY <1>3, <1>9, <2>2
      <3>2. dedup[x].by = c => KeyOf(dedup[x].by) # x
        BY <2>2 DEF k
      <3> QED BY <1>4, <1>5, <1>6, <2>2, <3>1, <3>2, LiveRecord
    <2> QED BY <2>1, <2>2
  <1> QED BY <1>12, <1>13, <1>14, <1>15, <1>16, <1>17 DEF ClaimInv

\* What a step of the gateway does to a delivery and its key, besides the store.
LEMMA GatewayStepInv ==
  ASSUME IngressInv, NEW c \in Caller, via = "gateway", IngressStep(c), UNCHANGED adapterVars
  PROVE  ClaimInv' /\ RecordsAreLive'
  <1>1. IngressTypeOK /\ AdapterTypeOK /\ KeyInv /\ ClaimInv /\ RecordsAreLive
    BY DEF IngressInv, GatewayInv
  <1>2. SubmitStep(c)
    BY DEF SubmitStep
  <1>3. /\ now' = now /\ KeyOf(c) \in Key
        /\ \A d \in Caller \ {c} : sub'[d] = sub[d]
        /\ sub'[c].at \notin {"idle", "answered"} => KeyOf(c)' = KeyOf(c)
    BY <1>1, <1>2, StepTypes
  <1>4. sub \in [Caller -> Submission] /\ dedup \in [Key -> Record \cup {None}]
    BY <1>1 DEF IngressTypeOK
  <1>5. \A k \in Key : Pruned[k] = dedup[k] \/ (Pruned[k] = None /\ Shut(k))
    BY <1>1, PrunedType, PrunedIsShut DEF ClaimInv
  <1>6. \A k \in Key : Shut(k) => Shut(k)'
    BY <1>3 DEF Shut, OccurredAt
  <1>7. ASSUME ~Working(c), ~Working(c)',
               dedup' = dedup \/ dedup' = Pruned, accepted' = accepted, dropped' = dropped
        PROVE  ClaimInv' /\ RecordsAreLive'
    <2>1. \A d \in Caller : /\ Working(d)' => Working(d) /\ KeyOf(d)' = KeyOf(d)
                            /\ ~(Working(d) /\ ~Working(d)')
      BY <1>3, <1>7 DEF Working, KeyOf
    <2> QED BY <1>1, <1>5, <1>6, <1>7, <2>1, ClaimFrame
  <1>8. ASSUME Working(c), \E step \in {"stored", "started"} : Go(c, step),
               dedup' = dedup, accepted' = accepted, dropped' = dropped
        PROVE  ClaimInv' /\ RecordsAreLive'
    <2>1. Working(c)' /\ KeyOf(c)' = KeyOf(c)
      BY <1>3, <1>4, <1>8 DEF Working, Go, Submission
    <2>2. \A d \in Caller : /\ Working(d)' => Working(d) /\ KeyOf(d)' = KeyOf(d)
                            /\ ~(Working(d) /\ ~Working(d)')
      BY <1>3, <1>8, <2>1 DEF Working, KeyOf
    <2> QED BY <1>1, <1>6, <1>8, <2>2, ClaimFrame
  <1> USE DEF At, storeVars, historyVars
  <1>9. CASE ClaimDuplicate(c)
    BY <1>4, <1>7, <1>9 DEF ClaimDuplicate, Go, Working, Submission
  <1>10. CASE ClaimReplay(c) \/ Invalid(c)
    <2>1. ~Working(c) /\ ~Working(c)'
      BY <1>4, <1>10
      DEF ClaimReplay, Invalid, Reject, Answer, NoSubmission, Working, Submission
    <2> QED BY <1>7, <1>10, <2>1 DEF ClaimReplay, Invalid, Reject
  <1>11. CASE AnswerDuplicate(c)
    BY <1>4, <1>7, <1>11 DEF AnswerDuplicate, Answer, NoSubmission, Working, Submission
  <1>12. CASE ClaimKey(c)
    BY <1>1, <1>12, ClaimKeyInv
  <1>13. CASE AdmissionFails(c) \/ QueueFailsLate(c)
    BY <1>1, <1>13, ReleaseInv DEF AdmissionFails, QueueFailsLate, Working
  <1>14. CASE LookupThrows(c)
    <2>1. ~Working(c)' /\ KeyOf(c) \in dropped'
      BY <1>4, <1>14 DEF LookupThrows, Answer, NoSubmission, Working, Submission
    <2>2. \A d \in Caller : /\ Working(d)' => Working(d) /\ KeyOf(d)' = KeyOf(d)
                            /\ Working(d) /\ ~Working(d)' => KeyOf(d) \in dropped'
      BY <1>3, <2>1 DEF Working, KeyOf
    <2>3. accepted' = accepted /\ dropped \subseteq dropped' /\ dedup' = dedup
      BY <1>14 DEF LookupThrows
    <2> QED BY <1>1, <1>6, <2>2, <2>3, ClaimFrame
  <1>15. CASE StoreExecutionRecord(c)
    BY <1>8, <1>15 DEF StoreExecutionRecord, Working
  <1>16. CASE Start(c)
    BY <1>8, <1>16 DEF Start, Working
  <1>17. CASE CommitAndAccept(c)
    BY <1>1, <1>17, CommitInv
  <1> QED
    BY <1>9, <1>10, <1>11, <1>12, <1>13, <1>14, <1>15, <1>16, <1>17 DEF IngressStep

\* The gateway's invariant holds of an empty store.
LEMMA IngressInvInit == IngressInit /\ AdapterInit => IngressInv
  <1> SUFFICES ASSUME IngressInit, AdapterInit PROVE IngressInv
    OBVIOUS
  <1>1. IngressTypeOK
    BY IngressAssumption DEF IngressInit, IngressTypeOK, Time, NoSubmission, Submission
  <1>2. KeyInv /\ \A c \in Caller : ~Working(c)
    BY DEF IngressInit, KeyInv, NoSubmission, Working
  <1>3. ClaimInv
    BY <1>2 DEF IngressInit, ClaimInv, RecordFresh, WorkingClaims, WorkingAlone,
                WorkingUnaccepted, AcceptedRemembered
  <1> QED
    BY <1>1, <1>2, <1>3
    DEF IngressInit, AdapterInit, IngressInv, AdapterTypeOK, GatewayInv, StoreUnused,
        RecordsAreLive

\* A step of either gateway, the clock or a caller keeps it.
LEMMA IngressInvNext ==
  ASSUME IngressInv,
         \/ \E c \in Caller : SubmitStep(c) \/ CallerMoves(c)
         \/ Tick /\ UNCHANGED adapterVars
         \/ UNCHANGED <<ingressVars, adapterVars>>
  PROVE  IngressInv'
  <1>1. IngressTypeOK /\ AdapterTypeOK /\ KeyInv /\ GatewayInv /\ StoreUnused /\ RecordsAreLive
    BY DEF IngressInv
  <1> USE DEF storeVars, historyVars, adapterVars
  <1>2. ASSUME NEW c \in Caller, SubmitStep(c) PROVE IngressInv'
    <2>1. IngressTypeOK' /\ AdapterTypeOK' /\ KeyInv' /\ via' = via
      BY <1>1, <1>2, StepTypes
    <2>2. CASE via = "gateway" /\ IngressStep(c) /\ UNCHANGED adapterVars
      BY <2>1, <2>2, GatewayStepInv DEF IngressInv, GatewayInv, StoreUnused
    <2>3. CASE via = "adapter" /\ AdapterStep(c)
      <3>1. dedup' = dedup
        BY <2>3
        DEF AdapterStep, AdapterDuplicate, AdapterLookup, AdapterEnqueue, AdapterThrows,
            AdapterAccept, Invalid
      <3> QED
        BY <1>1, <2>1, <2>3, <3>1 DEF IngressInv, GatewayInv, StoreUnused, RecordsAreLive
    <2> QED BY <1>2, <2>2, <2>3 DEF SubmitStep
  <1>3. ASSUME now' \in Time, sub' \in [Caller -> Submission], KeyInv',
               UNCHANGED <<storeVars, historyVars, adapterVars>>,
               \A k \in Key : Shut(k) => Shut(k)',
               \A c \in Caller : /\ Working(c)' <=> Working(c)
                                 /\ Working(c) => KeyOf(c)' = KeyOf(c)
        PROVE  IngressInv'
    <2>1. IngressTypeOK' /\ AdapterTypeOK' /\ StoreUnused'
      BY <1>1, <1>3 DEF IngressTypeOK, AdapterTypeOK, StoreUnused
    <2>2. CASE via = "gateway"
      <3>1. ClaimInv' /\ RecordsAreLive'
        BY <1>1, <1>3, <2>2, ClaimFrame DEF GatewayInv
      <3> QED BY <1>3, <2>1, <3>1 DEF IngressInv, GatewayInv
    <2>3. CASE via = "adapter"
      BY <1>1, <1>3, <2>1, <2>3 DEF IngressInv, GatewayInv, StoreUnused, RecordsAreLive
    <2> QED BY <1>1, <2>2, <2>3 DEF AdapterTypeOK
  <1>4. ASSUME NEW c \in Caller, CallerMoves(c) PROVE IngressInv'
    <2>1. PICK x \in Submission : /\ x.at = "idle" \/ (x.at = "received" /\ x.key \in Key)
                                  /\ sub' = [sub EXCEPT ![c] = x]
      BY <1>4 DEF CallerMoves
    <2>2. /\ sub' \in [Caller -> Submission] /\ sub'[c] = x
          /\ \A d \in Caller \ {c} : sub'[d] = sub[d]
      BY <1>1, <2>1 DEF IngressTypeOK
    <2>3. \A d \in Caller : (Working(d)' <=> Working(d)) /\ (Working(d) => KeyOf(d)' = KeyOf(d))
      BY <1>4, <2>1, <2>2 DEF CallerMoves, Working, KeyOf
    <2>4. KeyInv'
      BY <1>1, <2>1, <2>2 DEF KeyInv, KeyOf
    <2> QED
      BY <1>1, <1>3, <1>4, <2>2, <2>3, <2>4 DEF CallerMoves, IngressTypeOK, Shut, OccurredAt
  <1>5. CASE Tick /\ UNCHANGED adapterVars
    <2>1. now' \in Time /\ \A k \in Key : Shut(k) => Shut(k)'
      BY <1>1, <1>5, TimeType, IngressAssumption DEF Tick, IngressTypeOK, Time, Shut, OccurredAt
    <2> QED
      BY <1>1, <1>3, <1>5, <2>1 DEF Tick, IngressTypeOK, KeyInv, Working, KeyOf
  <1>6. CASE UNCHANGED <<ingressVars, adapterVars>>
    BY <1>1, <1>3, <1>6 DEF ingressVars, IngressTypeOK, KeyInv, Working, KeyOf, Shut, OccurredAt
  <1> QED BY <1>2, <1>4, <1>5, <1>6

--------------------------------------------------------------------------------
(* The gateway implements DispatchOnce.                                        *)

\* The phase of a key, from the deliveries that work on it.
LEMMA PhaseOf ==
  ASSUME via = "gateway", NEW k \in Key
  PROVE  /\ KeyPhase[k] = IF accepted[k] > 0 THEN "accepted"
                          ELSE IF \E c \in Caller : Starting(c, k) THEN "started"
                          ELSE IF \E c \in Caller : Holding(c, k) THEN "held" ELSE "free"
         /\ KeyRuns[k] = started[k]
  BY DEF KeyPhase, KeyRuns

\* A step of one delivery changes the phase of its own key only.
LEMMA PhaseMove ==
  ASSUME NEW c \in Caller, NEW k \in Key, KeyOf(c) = k, via = "gateway", via' = via,
         \A d \in Caller \ {c} : sub'[d] = sub[d],
         sub'[c].at \notin {"idle", "answered"} => KeyOf(c)' = k,
         \A x \in Key \ {k} : accepted'[x] = accepted[x] /\ started'[x] = started[x]
  PROVE  /\ KeyPhase' = [KeyPhase EXCEPT ![k] = KeyPhase'[k]]
         /\ KeyRuns' = [KeyRuns EXCEPT ![k] = started'[k]]
         /\ KeyPhase'[k] = IF accepted'[k] > 0 THEN "accepted"
                           ELSE IF \E d \in Caller : Starting(d, k)' THEN "started"
                           ELSE IF \E d \in Caller : Holding(d, k)' THEN "held" ELSE "free"
  <1>1. \A d \in Caller : \A x \in Key \ {k} :
           (Starting(d, x)' <=> Starting(d, x)) /\ (Holding(d, x)' <=> Holding(d, x))
    <2> SUFFICES ASSUME NEW d \in Caller, NEW x \in Key \ {k}
                 PROVE  (Starting(d, x)' <=> Starting(d, x)) /\ (Holding(d, x)' <=> Holding(d, x))
      OBVIOUS
    <2>1. CASE d # c
      BY <2>1 DEF Starting, Holding, At, KeyOf
    <2>2. CASE d = c
      BY <2>2 DEF Starting, Holding, At, KeyOf
    <2> QED BY <2>1, <2>2
  <1>2. \A x \in Key \ {k} : KeyPhase'[x] = KeyPhase[x] /\ KeyRuns'[x] = KeyRuns[x]
    BY <1>1 DEF KeyPhase, KeyRuns
  <1>3. KeyPhase' = [KeyPhase EXCEPT ![k] = KeyPhase'[k]]
    <2> DEFINE f == KeyPhase'
               g == KeyPhase
    <2>1. DOMAIN f = Key /\ DOMAIN g = Key
      BY DEF KeyPhase
    <2>2. f = [x \in Key |-> f[x]] /\ g = [x \in Key |-> g[x]]
      BY DEF KeyPhase
    <2>3. \A x \in Key \ {k} : f[x] = g[x]
      BY <1>2
    <2> HIDE DEF f, g
    <2> QED BY <2>1, <2>2, <2>3 DEF f, g
  <1>4. KeyRuns' = [KeyRuns EXCEPT ![k] = started'[k]]
    BY <1>2 DEF KeyRuns
  <1>5. KeyPhase'[k] = IF accepted'[k] > 0 THEN "accepted"
                       ELSE IF \E d \in Caller : Starting(d, k)' THEN "started"
                       ELSE IF \E d \in Caller : Holding(d, k)' THEN "held" ELSE "free"
    BY DEF KeyPhase
  <1> QED BY <1>3, <1>4, <1>5

\* Every step is a step of DispatchOnce for one key, or changes nothing of it.
LEMMA OnceStep ==
  ASSUME IngressInv, IngressInv',
         \/ \E c \in Caller : SubmitStep(c) \/ CallerMoves(c)
         \/ Tick /\ UNCHANGED adapterVars
         \/ UNCHANGED <<ingressVars, adapterVars>>
  PROVE  Once!OnceNext \/ UNCHANGED <<KeyPhase, KeyRuns>>
  <1> USE DEF storeVars, historyVars, adapterVars
  <1>1. IngressTypeOK /\ AdapterTypeOK /\ KeyInv /\ GatewayInv
    BY DEF IngressInv
  <1>2. ASSUME via = "adapter", via' = via PROVE UNCHANGED <<KeyPhase, KeyRuns>>
    BY <1>2 DEF KeyPhase, KeyRuns
  <1>3. ASSUME via' = via, accepted' = accepted, started' = started,
               \A d \in Caller, x \in Key : /\ Starting(d, x)' <=> Starting(d, x)
                                            /\ Holding(d, x)' <=> Holding(d, x)
        PROVE  UNCHANGED <<KeyPhase, KeyRuns>>
    BY <1>3 DEF KeyPhase, KeyRuns
  <1>4. ASSUME NEW c \in Caller, via = "gateway", IngressStep(c), UNCHANGED adapterVars
        PROVE  Once!OnceNext \/ UNCHANGED <<KeyPhase, KeyRuns>>
    <2>1. SubmitStep(c)
      BY <1>4 DEF SubmitStep
    <2> PICK k \in Key : k = KeyOf(c)
      BY <1>1, <2>1, StepTypes
    <2>2. /\ k \in Key /\ KeyOf(c) = k
          /\ \A d \in Caller \ {c} : sub'[d] = sub[d]
          /\ sub'[c].at \notin {"idle", "answered"} => KeyOf(c)' = k
      BY <1>1, <2>1, StepTypes
    <2>3. /\ ClaimInv /\ sub \in [Caller -> Submission]
          /\ accepted \in [Key -> Nat] /\ started \in [Key -> Nat]
      BY <1>1, <1>4 DEF GatewayInv, IngressTypeOK
    <2>4. /\ KeyPhase[k] = IF accepted[k] > 0 THEN "accepted"
                           ELSE IF \E d \in Caller : Starting(d, k) THEN "started"
                           ELSE IF \E d \in Caller : Holding(d, k) THEN "held" ELSE "free"
          /\ KeyRuns[k] = started[k]
      BY <1>4, <2>2, PhaseOf
    <2> USE DEF At, Once!OnceNext, Once!Claim, Once!StartRun, Once!GiveUp, Once!Accept, Once!Move
    \* A delivery that works on its key is the only one, and the key is not accepted.
    <2>5. Working(c) => /\ accepted[k] = 0
                        /\ \A d \in Caller : Starting(d, k) \/ Holding(d, k) => d = c
      BY <2>2, <2>3, LiveRecord DEF ClaimInv, WorkingAlone, WorkingUnaccepted
    <2>6. \A d \in Caller \ {c} : /\ Starting(d, k)' <=> Starting(d, k)
                                  /\ Holding(d, k)' <=> Holding(d, k)
      BY <2>2 DEF Starting, Holding, KeyOf
    <2>7. ASSUME accepted' = accepted, started' = started
          PROVE  /\ KeyPhase' = [KeyPhase EXCEPT ![k] = KeyPhase'[k]]
                 /\ UNCHANGED KeyRuns
                 /\ KeyPhase'[k] = IF accepted[k] > 0 THEN "accepted"
                                   ELSE IF \E d \in Caller : Starting(d, k)' THEN "started"
                                   ELSE IF \E d \in Caller : Holding(d, k)' THEN "held" ELSE "free"
      BY <1>4, <2>2, <2>7, PhaseMove DEF KeyRuns
    <2>8. ASSUME ~Working(c), ~Working(c)', accepted' = accepted, started' = started
          PROVE  UNCHANGED <<KeyPhase, KeyRuns>>
      <3>1. \A d \in Caller, x \in Key : /\ Starting(d, x)' <=> Starting(d, x)
                                         /\ Holding(d, x)' <=> Holding(d, x)
        BY <2>2, <2>8 DEF Starting, Holding, KeyOf, Working
      <3> QED BY <1>4, <2>8, <3>1 DEF KeyPhase, KeyRuns
    <2>9. CASE ClaimDuplicate(c)
      BY <2>3, <2>8, <2>9 DEF ClaimDuplicate, Go, Working, Submission
    <2>10. CASE ClaimReplay(c) \/ Invalid(c)
      <3>1. ~Working(c) /\ ~Working(c)'
        BY <2>3, <2>10
        DEF ClaimReplay, Invalid, Reject, Answer, NoSubmission, Working, Submission
      <3> QED BY <2>8, <2>10, <3>1 DEF ClaimReplay, Invalid, Reject
    <2>11. CASE AnswerDuplicate(c)
      BY <2>3, <2>8, <2>11 DEF AnswerDuplicate, Answer, NoSubmission, Working, Submission
    <2>12. CASE ClaimKey(c)
      <3>1. accepted' = accepted /\ started' = started /\ Holding(c, k)'
        BY <2>2, <2>3, <2>12 DEF ClaimKey, Go, Holding, KeyOf, Submission
      <3>2. accepted[k] = 0 /\ \A d \in Caller : ~Starting(d, k) /\ ~Holding(d, k)
        BY <1>1, <2>2, <2>3, <2>12, FreeKey, LiveRecord DEF ClaimKey
      <3>3. ~Starting(c, k)'
        BY <2>3, <2>12 DEF ClaimKey, Go, Starting, Submission
      <3>4. KeyPhase[k] = "free" /\ KeyPhase'[k] = "held"
        BY <2>4, <2>6, <2>7, <3>1, <3>2, <3>3
      <3>5. Once!Claim(k)
        BY <2>7, <3>1, <3>4
      <3> QED BY <2>2, <3>5
    <2>13. CASE AdmissionFails(c) \/ QueueFailsLate(c) \/ LookupThrows(c)
      <3>1. accepted' = accepted /\ started' = started /\ Working(c)
        BY <2>13
        DEF AdmissionFails, QueueFailsLate, LookupThrows, RejectAndRelease, Reject, Working
      <3>2. sub'[c].at = "answered"
        BY <2>3, <2>13
        DEF AdmissionFails, QueueFailsLate, LookupThrows, RejectAndRelease, Reject, Answer,
            NoSubmission, Submission
      <3>3. \A d \in Caller : ~Starting(d, k)' /\ ~Holding(d, k)'
        BY <2>5, <2>6, <3>1, <3>2 DEF Starting, Holding
      <3>4. KeyPhase[k] \in {"held", "started"}
        BY <2>2, <2>4, <2>5, <3>1, LiveRecord
      <3>5. KeyPhase'[k] = "free"
        BY <2>3, <2>5, <2>7, <3>1, <3>3
      <3>6. Once!GiveUp(k)
        BY <2>7, <3>1, <3>4, <3>5
      <3> QED BY <2>2, <3>6
    <2>14. CASE StoreExecutionRecord(c)
      <3>1. \A x \in Key : /\ Starting(c, x)' <=> Starting(c, x)
                           /\ Holding(c, x)' <=> Holding(c, x)
        BY <2>2, <2>3, <2>14 DEF StoreExecutionRecord, Go, Starting, Holding, KeyOf, Submission
      <3>2. \A d \in Caller, x \in Key : /\ Starting(d, x)' <=> Starting(d, x)
                                         /\ Holding(d, x)' <=> Holding(d, x)
        BY <2>2, <3>1 DEF Starting, Holding, KeyOf
      <3>3. UNCHANGED <<via, accepted, started>>
        BY <1>4, <2>14 DEF StoreExecutionRecord
      <3> QED BY <3>2, <3>3 DEF KeyPhase, KeyRuns
    <2>15. CASE Start(c)
      <3>1. Working(c) /\ Holding(c, k) /\ accepted' = accepted
        BY <2>15 DEF Start, Working, Holding
      <3>2. Starting(c, k)'
        BY <2>2, <2>3, <2>15 DEF Start, Go, Starting, KeyOf, Submission
      <3>3. \A d \in Caller : ~Starting(d, k)
        BY <2>5, <3>1 DEF Starting, Holding
      <3>4. started' = [started EXCEPT ![k] = started[k] + 1]
        BY <2>15 DEF Start
      <3>5. /\ started'[k] = started[k] + 1
            /\ \A x \in Key \ {k} : started'[x] = started[x]
        BY <2>2, <2>3, <3>4
      <3>6. /\ KeyPhase' = [KeyPhase EXCEPT ![k] = KeyPhase'[k]]
            /\ KeyRuns' = [KeyRuns EXCEPT ![k] = started'[k]]
            /\ KeyPhase'[k] = IF accepted'[k] > 0 THEN "accepted"
                              ELSE IF \E d \in Caller : Starting(d, k)' THEN "started"
                              ELSE IF \E d \in Caller : Holding(d, k)' THEN "held" ELSE "free"
        BY <1>4, <2>2, <3>1, <3>5, PhaseMove
      <3>7. KeyPhase[k] = "held" /\ KeyPhase'[k] = "started"
        BY <2>4, <2>5, <3>1, <3>2, <3>3, <3>6
      <3>8. KeyRuns' = [KeyRuns EXCEPT ![k] = KeyRuns[k] + 1]
        BY <2>4, <3>5, <3>6
      <3>9. Once!StartRun(k)
        BY <3>6, <3>7, <3>8
      <3> QED BY <2>2, <3>9
    <2>16. CASE CommitAndAccept(c)
      <3>1. Working(c) /\ Starting(c, k) /\ started' = started
        BY <2>16 DEF CommitAndAccept, Working, Starting
      <3>2. accepted' = [accepted EXCEPT ![k] = accepted[k] + 1]
        BY <2>16 DEF CommitAndAccept
      <3>3. /\ accepted'[k] = accepted[k] + 1 /\ accepted[k] = 0
            /\ \A x \in Key \ {k} : accepted'[x] = accepted[x]
        BY <2>2, <2>3, <2>5, <3>1, <3>2
      <3>4. /\ KeyPhase' = [KeyPhase EXCEPT ![k] = KeyPhase'[k]]
            /\ KeyPhase'[k] = IF accepted'[k] > 0 THEN "accepted"
                              ELSE IF \E d \in Caller : Starting(d, k)' THEN "started"
                              ELSE IF \E d \in Caller : Holding(d, k)' THEN "held" ELSE "free"
        BY <1>4, <2>2, <3>1, <3>3, PhaseMove
      <3>5. KeyPhase[k] = "started" /\ KeyPhase'[k] = "accepted"
        BY <2>4, <2>5, <3>1, <3>3, <3>4
      <3>6. UNCHANGED KeyRuns
        BY <1>4, <3>1 DEF KeyRuns
      <3>7. Once!Accept(k)
        BY <3>4, <3>5, <3>6
      <3> QED BY <2>2, <3>7
    <2> QED
      BY <1>4, <2>9, <2>10, <2>11, <2>12, <2>13, <2>14, <2>15, <2>16 DEF IngressStep
  <1>5. ASSUME NEW c \in Caller, SubmitStep(c)
        PROVE  Once!OnceNext \/ UNCHANGED <<KeyPhase, KeyRuns>>
    <2>1. via' = via
      BY <1>1, <1>5, StepTypes
    <2> QED BY <1>2, <1>4, <1>5, <2>1 DEF SubmitStep
  <1>6. ASSUME NEW c \in Caller, CallerMoves(c) PROVE UNCHANGED <<KeyPhase, KeyRuns>>
    <2>1. \A d \in Caller, x \in Key : /\ Starting(d, x)' <=> Starting(d, x)
                                       /\ Holding(d, x)' <=> Holding(d, x)
      BY <1>1, <1>6 DEF CallerMoves, Starting, Holding, At, KeyOf, IngressTypeOK
    <2>2. UNCHANGED <<via, accepted, started>>
      BY <1>6 DEF CallerMoves
    <2> QED BY <2>1, <2>2 DEF KeyPhase, KeyRuns
  <1>7. CASE Tick /\ UNCHANGED adapterVars
    BY <1>3, <1>7 DEF Tick, Starting, Holding, At, KeyOf
  <1>8. CASE UNCHANGED <<ingressVars, adapterVars>>
    BY <1>3, <1>8 DEF ingressVars, Starting, Holding, At, KeyOf
  <1> QED BY <1>5, <1>6, <1>7, <1>8

--------------------------------------------------------------------------------
(* What deliveries leave behind, in the gateway and in the adapter.            *)

\* A step of the gateway or of the adapter takes a delivery one step further.
LEMMA DeliveryStep ==
  ASSUME IngressInv, NEW c \in Caller, SubmitStep(c)
  PROVE  /\ sub \in [Caller -> Submission] /\ sub' \in [Caller -> Submission]
         /\ accepted \in [Key -> Nat] /\ started \in [Key -> Nat]
         /\ via' = via /\ KeyOf(c) \in Key
         /\ \A d \in Caller \ {c} : sub'[d] = sub[d]
         /\ sub'[c].at \notin {"idle", "answered"} => KeyOf(c)' = KeyOf(c)
         /\ sub'[c].at # "idle" /\ sub[c].at \notin {"idle", "answered"}
  <1>1. /\ IngressTypeOK /\ AdapterTypeOK /\ KeyInv
    BY DEF IngressInv
  <1>2. /\ IngressTypeOK' /\ via' = via /\ KeyOf(c) \in Key
        /\ \A d \in Caller \ {c} : sub'[d] = sub[d]
        /\ sub'[c].at \notin {"idle", "answered"} => KeyOf(c)' = KeyOf(c)
    BY <1>1, StepTypes
  <1>3. sub \in [Caller -> Submission]
    BY <1>1 DEF IngressTypeOK
  <1> USE DEF Go, Answer, Reject, At, NoSubmission, Submission
  <1>4. sub'[c].at # "idle" /\ sub[c].at \notin {"idle", "answered"}
    <2>1. CASE IngressStep(c)
      BY <1>3, <2>1
      DEF IngressStep, ClaimDuplicate, ClaimReplay, ClaimKey, Invalid, AnswerDuplicate,
          AdmissionFails, LookupThrows, StoreExecutionRecord, Start, QueueFailsLate,
          CommitAndAccept, RejectAndRelease
    <2>2. CASE AdapterStep(c)
      BY <1>3, <2>2
      DEF AdapterStep, AdapterDuplicate, AdapterLookup, AdapterEnqueue, AdapterThrows,
          AdapterAccept, Invalid
    <2> QED BY <2>1, <2>2 DEF SubmitStep
  <1> QED BY <1>1, <1>2, <1>3, <1>4 DEF IngressTypeOK

\* What a step does to the history of its key, and to the claim it works under.
LEMMA DeliveryHistory ==
  ASSUME IngressInv, NEW c \in Caller, SubmitStep(c), NEW k \in Key, KeyOf(c) = k
  PROVE  /\ refused \subseteq refused' /\ dropped \subseteq dropped'
         /\ receipts \subseteq receipts' /\ receipts' \subseteq receipts \cup {k}
         /\ overlapped \subseteq overlapped' /\ overlapped' \subseteq overlapped \cup {k}
         /\ \A x \in Key \ {k} : accepted'[x] = accepted[x] /\ started'[x] = started[x]
         /\ \/ started' = started /\ ~At(c, "started")'
            \/ /\ started' = [started EXCEPT ![k] = started[k] + 1]
               /\ sub[c].at \in {"admit", "stored"} /\ At(c, "started")'
         /\ accepted' # accepted \/ receipts' # receipts => At(c, "started")
         /\ via = "gateway" /\ Holding(c, k) =>
               Holding(c, k)' \/ At(c, "started")' \/ k \in refused' \cup dropped'
  <1>1. /\ sub \in [Caller -> Submission]
        /\ accepted \in [Key -> Nat] /\ started \in [Key -> Nat]
    BY DEF IngressInv, IngressTypeOK
  <1> USE DEF Go, Answer, Reject, At, KeyOf, NoSubmission, Submission, adapterVars, historyVars,
              Holding
  <1>2. CASE via = "gateway" /\ IngressStep(c) /\ UNCHANGED adapterVars
    <2>1. CASE ClaimDuplicate(c) \/ ClaimReplay(c) \/ ClaimKey(c) \/ Invalid(c)
               \/ AnswerDuplicate(c)
      BY <1>1, <1>2, <2>1 DEF ClaimDuplicate, ClaimReplay, ClaimKey, Invalid, AnswerDuplicate
    <2>2. CASE AdmissionFails(c) \/ LookupThrows(c) \/ QueueFailsLate(c)
      <3>1. CASE AdmissionFails(c) \/ QueueFailsLate(c)
        <4>1. /\ UNCHANGED <<accepted, started, dropped>> /\ refused' = refused \cup {k}
              /\ sub'[c].at = "answered"
          BY <1>1, <3>1 DEF AdmissionFails, QueueFailsLate, RejectAndRelease
        <4> QED BY <1>2, <4>1
      <3>2. CASE LookupThrows(c)
        BY <1>1, <1>2, <3>2 DEF LookupThrows
      <3> QED BY <2>2, <3>1, <3>2
    <2>3. CASE StoreExecutionRecord(c) \/ Start(c)
      BY <1>1, <1>2, <2>3 DEF StoreExecutionRecord, Start
    <2>4. CASE CommitAndAccept(c)
      BY <1>1, <1>2, <2>4 DEF CommitAndAccept
    <2> QED BY <1>2, <2>1, <2>2, <2>3, <2>4 DEF IngressStep
  <1>3. CASE via = "adapter" /\ AdapterStep(c)
    <2>1. CASE AdapterDuplicate(c) \/ AdapterLookup(c) \/ (Invalid(c) /\ UNCHANGED adapterVars)
      BY <1>1, <1>3, <2>1 DEF AdapterDuplicate, AdapterLookup, Invalid
    <2>2. CASE AdapterEnqueue(c) \/ AdapterThrows(c)
      <3>1. CASE AdapterEnqueue(c)
        BY <1>1, <1>3, <3>1 DEF AdapterEnqueue
      <3>2. CASE AdapterThrows(c)
        BY <1>1, <1>3, <3>2 DEF AdapterThrows
      <3> QED BY <2>2, <3>1, <3>2
    <2>3. CASE AdapterAccept(c)
      BY <1>1, <1>3, <2>3 DEF AdapterAccept
    <2> QED BY <1>3, <2>1, <2>2, <2>3 DEF AdapterStep
  <1> QED BY <1>2, <1>3 DEF SubmitStep

LEMMA HistoryStep ==
  ASSUME IngressInv, HistoryInv, NEW c \in Caller, SubmitStep(c)
  PROVE  HistoryInv'
  <1>1. /\ sub \in [Caller -> Submission] /\ sub' \in [Caller -> Submission]
        /\ accepted \in [Key -> Nat] /\ started \in [Key -> Nat] /\ KeyOf(c) \in Key
        /\ \A d \in Caller \ {c} : sub'[d] = sub[d]
        /\ sub'[c].at \notin {"idle", "answered"} => KeyOf(c)' = KeyOf(c)
    BY DeliveryStep
  <1>2. PICK k \in Key : k = KeyOf(c)
    BY <1>1
  <1>3. /\ receipts' \subseteq receipts \cup {k}
        /\ \A x \in Key \ {k} : accepted'[x] = accepted[x] /\ started'[x] = started[x]
        /\ \/ started' = started /\ ~At(c, "started")'
           \/ started' = [started EXCEPT ![k] = started[k] + 1]
        /\ accepted' # accepted \/ receipts' # receipts => At(c, "started")
    BY <1>2, DeliveryHistory
  <1>4. /\ \A x \in Key : started'[x] \in Nat /\ started'[x] >= started[x]
        /\ started'[k] = started[k] => ~At(c, "started")'
    BY <1>1, <1>3
  <1>5. \A x \in Key : accepted'[x] > 0 \/ x \in receipts' => started'[x] > 0
    BY <1>1, <1>2, <1>3, <1>4 DEF HistoryInv
  <1>6. \A d \in Caller : At(d, "started")' => started'[KeyOf(d)'] > 0
    <2> SUFFICES ASSUME NEW d \in Caller, At(d, "started")' PROVE started'[KeyOf(d)'] > 0
      OBVIOUS
    <2>1. CASE d = c
      BY <1>1, <1>2, <1>3, <1>4, <2>1 DEF At
    <2>2. CASE d # c
      <3>1. At(d, "started") /\ KeyOf(d)' = KeyOf(d) /\ KeyOf(d) \in Key
        BY <1>1, <2>2 DEF At, KeyOf, IngressInv, KeyInv
      <3> QED BY <1>1, <1>4, <3>1 DEF HistoryInv
    <2> QED BY <2>1, <2>2
  <1> QED BY <1>5, <1>6 DEF HistoryInv

\* What is settled stays settled.
LEMMA SettledStays ==
  ASSUME IngressInv, NEW k \in Key, Settled(k),
         \/ \E c \in Caller : SubmitStep(c) \/ CallerMoves(c)
         \/ Tick /\ UNCHANGED adapterVars
         \/ UNCHANGED <<ingressVars, adapterVars>>
  PROVE  Settled(k)'
  <1>1. ASSUME UNCHANGED <<via, started, refused, dropped>>,
               \A d \in Caller : Holding(d, k) => Holding(d, k)'
        PROVE  Settled(k)'
    BY <1>1 DEF Settled
  <1>2. ASSUME NEW c \in Caller, SubmitStep(c) PROVE Settled(k)'
    <2>1. /\ sub \in [Caller -> Submission] /\ sub' \in [Caller -> Submission]
          /\ started \in [Key -> Nat] /\ via' = via
          /\ \A d \in Caller \ {c} : sub'[d] = sub[d]
      BY <1>2, DeliveryStep
    <2>2. PICK x \in Key : x = KeyOf(c)
      BY <1>2, DeliveryStep
    <2>3. /\ refused \subseteq refused' /\ dropped \subseteq dropped'
          /\ \/ started' = started /\ ~At(c, "started")'
             \/ started' = [started EXCEPT ![x] = started[x] + 1]
          /\ via = "gateway" /\ Holding(c, x) =>
                Holding(c, x)' \/ At(c, "started")' \/ x \in refused' \cup dropped'
      BY <1>2, <2>2, DeliveryHistory
    <2>4. CASE k \in refused \cup dropped
      BY <2>3, <2>4 DEF Settled
    <2>5. CASE started[k] > 0
      <3>1. started'[k] > 0
        BY <2>1, <2>3, <2>5
      <3> QED BY <3>1 DEF Settled
    <2>6. ASSUME NEW d \in Caller, via = "gateway", Holding(d, k) PROVE Settled(k)'
      <3>1. CASE d # c
        <4>1. Holding(d, k)'
          BY <2>1, <2>6, <3>1 DEF Holding, KeyOf
        <4> QED BY <2>1, <2>6, <4>1 DEF Settled
      <3>2. CASE d = c
        <4>1. k = x
          BY <2>2, <2>6, <3>2 DEF Holding
        <4>2. CASE Holding(c, k)'
          BY <2>1, <2>6, <4>2 DEF Settled
        <4>3. CASE At(c, "started")'
          <5>1. started'[k] > 0
            BY <2>1, <2>3, <4>1, <4>3
          <5> QED BY <5>1 DEF Settled
        <4>4. CASE k \in refused' \cup dropped'
          BY <4>4 DEF Settled
        <4> QED BY <2>3, <2>6, <3>2, <4>1, <4>2, <4>3, <4>4
      <3> QED BY <3>1, <3>2
    <2> QED BY <2>4, <2>5, <2>6 DEF Settled
  <1>3. ASSUME NEW c \in Caller, CallerMoves(c) PROVE Settled(k)'
    <2>1. \A d \in Caller : Holding(d, k) => Holding(d, k)'
      BY <1>3 DEF CallerMoves, Holding, KeyOf, IngressInv, IngressTypeOK
    <2> QED BY <1>1, <1>3, <2>1 DEF CallerMoves, historyVars, adapterVars
  <1>4. CASE Tick /\ UNCHANGED adapterVars
    BY <1>1, <1>4 DEF Tick, historyVars, adapterVars, Holding, KeyOf
  <1>5. CASE UNCHANGED <<ingressVars, adapterVars>>
    BY <1>1, <1>5 DEF ingressVars, historyVars, adapterVars, Holding, KeyOf
  <1> QED BY <1>2, <1>3, <1>4, <1>5

\* The adapter's knowledge of a key is not touched by what happens to others.
LEMMA AdapterFrame ==
  ASSUME NEW x \in Key, started'[x] = started[x], x \in receipts' <=> x \in receipts,
         \A d \in Caller :
           (KeyOf(d) = x /\ sub[d].at \in {"admit", "started"}) \/
           (KeyOf(d)' = x /\ sub'[d].at \in {"admit", "started"}) => sub'[d] = sub[d]
  PROVE  /\ UnderWay(x)' = UnderWay(x)
         /\ \A d \in UnderWay(x) : At(d, "admit")' <=> At(d, "admit")
         /\ (\E d \in Caller : Starting(d, x)') <=> (\E d \in Caller : Starting(d, x))
  BY DEF UnderWay, KeyOf, At, Starting

LEMMA AdapterStepInv ==
  ASSUME IngressInv, AdapterInv, NEW c \in Caller, SubmitStep(c)
  PROVE  AdapterInv'
  <1>1. /\ sub \in [Caller -> Submission] /\ sub' \in [Caller -> Submission]
        /\ started \in [Key -> Nat] /\ via' = via /\ KeyOf(c) \in Key
        /\ \A d \in Caller \ {c} : sub'[d] = sub[d]
        /\ sub'[c].at \notin {"idle", "answered"} => KeyOf(c)' = KeyOf(c)
    BY DeliveryStep
  <1>2. PICK k \in Key : k = KeyOf(c)
    BY <1>1
  <1>3. /\ receipts \subseteq receipts' /\ receipts' \subseteq receipts \cup {k}
        /\ overlapped \subseteq overlapped'
        /\ \A x \in Key \ {k} : started'[x] = started[x]
    BY <1>2, DeliveryHistory
  <1> SUFFICES ASSUME via = "adapter", NEW x \in Key, x \notin overlapped'
               PROVE  /\ started'[x] =< 1
                      /\ \A a, b \in UnderWay(x)' : a = b
                      /\ x \in receipts' => UnderWay(x)' = {}
                      /\ \A a \in UnderWay(x)' : At(a, "admit")' => started'[x] = 0
                      /\ started'[x] > 0 => x \in receipts' \/ \E a \in Caller : Starting(a, x)'
    BY <1>1 DEF AdapterInv
  <1>4. /\ started[x] =< 1 /\ started[x] \in Nat
        /\ \A a, b \in UnderWay(x) : a = b
        /\ x \in receipts => UnderWay(x) = {}
        /\ \A a \in UnderWay(x) : At(a, "admit") => started[x] = 0
        /\ started[x] > 0 => x \in receipts \/ \E a \in Caller : Starting(a, x)
    BY <1>1, <1>3 DEF AdapterInv
  <1>5. CASE x # k
    <2>1. \A d \in Caller :
           (KeyOf(d) = x /\ sub[d].at \in {"admit", "started"}) \/
           (KeyOf(d)' = x /\ sub'[d].at \in {"admit", "started"}) => sub'[d] = sub[d]
      BY <1>1, <1>2, <1>5
    <2>2. started'[x] = started[x] /\ (x \in receipts' <=> x \in receipts)
      BY <1>3, <1>5
    <2> QED BY <1>4, <2>1, <2>2, AdapterFrame
  <1>6. CASE x = k
    <2> USE DEF At, KeyOf, UnderWay, Starting, Go, Answer, NoSubmission, Submission, Reject,
                adapterVars, historyVars
    <2>1. CASE AdapterDuplicate(c) \/ (Invalid(c) /\ UNCHANGED adapterVars)
      <3>1. /\ UNCHANGED <<started, receipts>>
            /\ sub[c].at = "received" /\ sub'[c].at = "answered"
        <4>1. CASE AdapterDuplicate(c)
          BY <1>1, <4>1 DEF AdapterDuplicate
        <4>2. CASE Invalid(c) /\ UNCHANGED adapterVars
          BY <1>1, <4>2 DEF Invalid
        <4> QED BY <2>1, <4>1, <4>2
      <3>2. \A d \in Caller :
             (KeyOf(d) = x /\ sub[d].at \in {"admit", "started"}) \/
             (KeyOf(d)' = x /\ sub'[d].at \in {"admit", "started"}) => sub'[d] = sub[d]
        BY <1>1, <3>1
      <3> QED BY <1>4, <3>1, <3>2, AdapterFrame
    <2>2. CASE AdapterLookup(c)
      <3>1. /\ UnderWay(x) = {} /\ x \notin receipts
            /\ UNCHANGED <<started, receipts>> /\ sub'[c].at = "admit" /\ sub[c].at = "received"
        BY <1>1, <1>2, <1>6, <2>2 DEF AdapterLookup
      <3>2. started[x] = 0
        BY <1>4, <3>1
      <3>3. \A a \in UnderWay(x)' : a = c
        BY <1>1, <3>1
      <3> QED BY <3>1, <3>2, <3>3
    <2>3. CASE AdapterEnqueue(c)
      <3>1. /\ c \in UnderWay(x) /\ At(c, "admit") /\ started'[x] = started[x] + 1
            /\ UNCHANGED receipts /\ sub'[c].at = "started" /\ sub'[c].key = x
        BY <1>1, <1>2, <1>6, <2>3 DEF AdapterEnqueue
      <3>2. started'[x] = 1
        BY <1>4, <3>1
      <3>3. UnderWay(x)' = {c} /\ UnderWay(x) = {c} /\ Starting(c, x)'
        BY <1>1, <1>4, <3>1
      <3>4. x \notin receipts'
        BY <1>4, <3>1
      <3> QED BY <3>1, <3>2, <3>3, <3>4
    <2>4. CASE AdapterThrows(c)
      BY <1>2, <1>6, <2>4 DEF AdapterThrows
    <2>5. CASE AdapterAccept(c)
      <3>1. /\ c \in UnderWay(x) /\ x \in receipts' /\ UNCHANGED started
            /\ sub'[c].at = "answered"
        BY <1>1, <1>2, <1>6, <2>5 DEF AdapterAccept
      <3>2. UnderWay(x)' = {}
        BY <1>1, <1>4, <3>1
      <3> QED BY <1>4, <3>1, <3>2
    <2> QED BY <2>1, <2>2, <2>3, <2>4, <2>5 DEF SubmitStep, AdapterStep
  <1> QED BY <1>5, <1>6

\* Callers that come and go leave both as they are.
LEMMA CallersHistory ==
  ASSUME IngressInv, HistoryInv, AdapterInv,
         \/ \E c \in Caller : CallerMoves(c)
         \/ Tick /\ UNCHANGED adapterVars
         \/ UNCHANGED <<ingressVars, adapterVars>>
  PROVE  HistoryInv' /\ AdapterInv'
  <1>1. /\ UNCHANGED <<accepted, started, via, receipts, overlapped>>
        /\ \A d \in Caller :
             sub[d].at \in {"admit", "started"} \/ sub'[d].at \in {"admit", "started"}
               => sub'[d] = sub[d]
    BY DEF CallerMoves, Tick, ingressVars, adapterVars, historyVars, IngressInv, IngressTypeOK
  <1>2. HistoryInv'
    BY <1>1 DEF HistoryInv, At, KeyOf
  <1>3. ASSUME NEW x \in Key
        PROVE  /\ UnderWay(x)' = UnderWay(x)
               /\ \A d \in UnderWay(x) : At(d, "admit")' <=> At(d, "admit")
               /\ (\E d \in Caller : Starting(d, x)') <=> (\E d \in Caller : Starting(d, x))
    BY <1>1, AdapterFrame
  <1>4. AdapterInv'
    BY <1>1, <1>3 DEF AdapterInv
  <1> QED BY <1>2, <1>4

\* A delivery that is taken for a duplicate, or is answered other than by an
\* exception, is settled.
LEMMA AnswerSettles ==
  ASSUME IngressInv, HistoryInv, NEW c \in Caller, SubmitStep(c), NEW k \in Key, KeyOf(c) = k,
         At(c, "duplicate") => Settled(k),
         At(c, "duplicate")' \/ (At(c, "answered")' /\ sub'[c].answer # "thrown")
  PROVE  Settled(k)'
  <1>1. sub \in [Caller -> Submission]
    BY DeliveryStep
  <1>2. Settled(k) => Settled(k)'
    BY SettledStays
  <1>3. At(c, "started") => Settled(k)
    BY DEF HistoryInv, Settled
  <1>4. Reject(c) => Settled(k)'
    BY DEF Reject, Settled
  <1> USE DEF Go, Answer, At, NoSubmission, Submission
  <1>5. CASE via = "gateway" /\ ClaimDuplicate(c)
    <2>1. dedup[k] # None
      BY <1>5 DEF ClaimDuplicate, Pruned
    <2>2. IF dedup[k].status = "claimed"
          THEN Holding(dedup[k].by, k) \/ Starting(dedup[k].by, k) \/ k \in dropped
          ELSE accepted[k] > 0
      BY <2>1 DEF IngressInv, RecordsAreLive
    <2>3. dedup[k].by \in Caller
      BY <2>1 DEF IngressInv, IngressTypeOK, Record
    <2>4. Settled(k)
      BY <1>5, <2>2, <2>3 DEF Settled, HistoryInv, Starting
    <2> QED BY <1>2, <2>4
  <1>6. CASE via = "gateway" /\ IngressStep(c) /\ ~ClaimDuplicate(c)
    <2>1. CASE ClaimKey(c) \/ StoreExecutionRecord(c) \/ Start(c) \/ LookupThrows(c)
      BY <1>1, <2>1 DEF ClaimKey, StoreExecutionRecord, Start, LookupThrows
    <2>2. CASE ClaimReplay(c) \/ Invalid(c) \/ AdmissionFails(c) \/ QueueFailsLate(c)
      BY <1>4, <2>2 DEF ClaimReplay, Invalid, AdmissionFails, QueueFailsLate, RejectAndRelease
    <2>3. CASE AnswerDuplicate(c) \/ CommitAndAccept(c)
      BY <1>2, <1>3, <2>3 DEF AnswerDuplicate, CommitAndAccept
    <2> QED BY <1>6, <2>1, <2>2, <2>3 DEF IngressStep
  <1>7. CASE via = "adapter" /\ AdapterStep(c)
    <2>1. CASE AdapterLookup(c) \/ AdapterEnqueue(c) \/ AdapterThrows(c)
      BY <1>1, <2>1 DEF AdapterLookup, AdapterEnqueue, AdapterThrows
    <2>2. CASE AdapterDuplicate(c)
      BY <1>2, <2>2 DEF AdapterDuplicate, HistoryInv, Settled
    <2>3. CASE AdapterAccept(c) \/ Invalid(c)
      BY <1>2, <1>3, <1>4, <2>3 DEF AdapterAccept, Invalid
    <2> QED BY <1>7, <2>1, <2>2, <2>3 DEF AdapterStep
  <1> QED BY <1>5, <1>6, <1>7 DEF SubmitStep

--------------------------------------------------------------------------------
(* The scheduler.                                                              *)

\* A non-empty set of schedules that are due has a first one.
LEMMA LeastDue ==
  ASSUME NEW f, NEW T, T # {}, \A s \in T : f[s].due \in Nat
  PROVE  \E s \in T : \A t \in T : f[s].due =< f[t].due
  <1> DEFINE D == {f[s].due : s \in T}
  <1>1. D # {} /\ D \subseteq Nat
    OBVIOUS
  <1>2. \E x \in D : \A y \in D : <<y, x>> \notin OpToRel(<, Nat)
    BY <1>1, NatLessThanWellFounded, WFMin
  <1>3. PICK s \in T : \A y \in D : <<y, f[s].due>> \notin OpToRel(<, Nat)
    BY <1>2
  <1>4. \A t \in T : <<f[t].due, f[s].due>> \notin OpToRel(<, Nat)
    BY <1>3
  <1>5. \A t \in T : ~(f[t].due < f[s].due)
    BY <1>4 DEF OpToRel
  <1> QED BY <1>5

\* An occurrence is a time, and with its schedule a key.
LEMMA OccurrenceKey ==
  ASSUME NEW s \in Schedule, NEW o \in Occurrence
  PROVE  <<s, o>> \in Key /\ o \in Nat
  <1>1. <<s, o>> \in Key
    BY SchedulerAssumption
  <1>2. <<s, o>>[2] \in 0 .. MaxTime
    BY <1>1, IngressAssumption
  <1> QED BY <1>1, <1>2, IngressAssumption

\* The schedule a pass submits next is one it holds a due copy of.
LEMMA FirstHeld ==
  ASSUME SchedulerTypes, CopyInv, NEW p \in Caller, pass[p].at \in {"submit", "await"},
         pass[p].todo # {}
  PROVE  /\ First(p) \in pass[p].todo /\ First(p) \in Schedule /\ Holds(p, First(p))
         /\ pass[p].copies[First(p)] \in Definition
         /\ pass[p].copies[First(p)].due \in Occurrence
         /\ Submitted(p) \in Key
  <1>1. /\ pass[p] \in Pass /\ pass[p].todo \subseteq DOMAIN pass[p].copies
    BY DEF SchedulerTypes
  <1>2. /\ pass[p].todo \subseteq Schedule
        /\ \A s \in DOMAIN pass[p].copies : pass[p].copies[s] \in Definition
    BY <1>1 DEF Pass, Copies
  <1>3. \A s \in pass[p].todo : pass[p].copies[s].due \in Occurrence
    BY <1>1, <1>2 DEF CopyInv, CopyOK, Holds, Definition
  <1>4. \A s \in pass[p].todo : pass[p].copies[s].due \in Nat
    BY <1>2, <1>3, OccurrenceKey
  <1>5. First(p) \in pass[p].todo
    <2>1. \E s \in pass[p].todo :
             \A t \in pass[p].todo : pass[p].copies[s].due =< pass[p].copies[t].due
      BY <1>4, LeastDue
    <2> QED BY <2>1 DEF First
  <1> QED BY <1>1, <1>2, <1>3, <1>5, OccurrenceKey DEF Holds, Submitted

\* Every step is a step of a delivery, of a caller at rest, of the clock, or of
\* neither the gateway nor the adapter.
LEMMA NextCases ==
  ASSUME SchedulerTypes, CopyInv, AwaitInv, IngressInv, [Next]_vars
  PROVE  \/ \E c \in Caller : SubmitStep(c) /\ UNCHANGED schedulerVars
         \/ \E c \in Caller : /\ CallerMoves(c)
                              /\ \/ SendEvent(c) \/ TakeAnswer(c) \/ SubmitDue(c)
                                 \/ SaveAdvanced(c) \/ SubmitThrew(c)
         \/ Tick /\ UNCHANGED <<adapterVars, schedulerVars>>
         \/ /\ UNCHANGED <<ingressVars, adapterVars>>
            /\ \/ \E p \in Caller : Begin(p) \/ Reconcile(p) \/ ListDue(p)
               \/ \E s \in Schedule : \/ \E t \in Trigger : Register(s, t)
                                      \/ \E op \in {"cancel", "upsert"} : BeginEdit(op, s)
               \/ \E t \in Trigger, b \in BOOLEAN : SaveEdit(t, b)
               \/ UNCHANGED schedulerVars
  <1>1. sub \in [Caller -> Submission]
    BY DEF IngressInv, IngressTypeOK
  <1>2. ASSUME NEW c \in Caller, NEW k \in Key, NEW n \in Nonce \cup {None}, Submit(c, k, n),
               UNCHANGED <<now, storeVars, historyVars, adapterVars>>
        PROVE  CallerMoves(c)
    <2> DEFINE x == [at |-> "received", key |-> k, nonce |-> n, answer |-> None]
    <2>1. x \in Submission
      BY DEF Submission
    <2> QED BY <1>2, <2>1 DEF Submit, CallerMoves, At
  <1>3. ASSUME NEW c \in Caller, At(c, "answered"), sub' = [sub EXCEPT ![c] = NoSubmission],
               UNCHANGED <<now, storeVars, historyVars, adapterVars>>
        PROVE  CallerMoves(c)
    <2>1. NoSubmission \in Submission
      BY DEF NoSubmission, Submission
    <2> QED BY <1>3, <2>1 DEF CallerMoves, At, NoSubmission
  <1>4. ASSUME NEW c \in Caller, SendEvent(c), UNCHANGED adapterVars PROVE CallerMoves(c)
    BY <1>2, <1>4, SchedulerAssumption DEF SendEvent
  <1>5. ASSUME NEW c \in Caller, TakeAnswer(c) \/ SaveAdvanced(c) \/ SubmitThrew(c),
               UNCHANGED adapterVars
        PROVE  CallerMoves(c)
    BY <1>3, <1>5 DEF TakeAnswer, SaveAdvanced, SubmitThrew
  <1>6. ASSUME NEW c \in Caller, SubmitDue(c), UNCHANGED adapterVars PROVE CallerMoves(c)
    <2>1. Submitted(c) \in Key
      BY <1>6, FirstHeld DEF SubmitDue, AwaitInv, AwaitOK
    <2> QED BY <1>2, <1>6, <2>1 DEF SubmitDue, Submitted
  <1>7. ASSUME NEW c \in Caller, Begin(c) \/ Reconcile(c) \/ ListDue(c) PROVE UNCHANGED ingressVars
    BY <1>7 DEF Begin, Reconcile, ListDue
  <1>8. ASSUME NEW s, NEW t, NEW b, NEW op,
               Register(s, t) \/ BeginEdit(op, s) \/ SaveEdit(t, b) PROVE UNCHANGED ingressVars
    BY <1>8 DEF Register, BeginEdit, SaveEdit
  <1>9. CASE UNCHANGED vars
    BY <1>9 DEF vars
  <1>10. CASE \E c \in Caller : (SendEvent(c) \/ TakeAnswer(c) \/ DispatchDueSchedules(c))
                                /\ UNCHANGED adapterVars
    BY <1>4, <1>5, <1>6, <1>7, <1>10 DEF DispatchDueSchedules
  <1>11. CASE (\E s \in Schedule : \/ \E t \in Trigger : Register(s, t)
                                   \/ \E op \in {"cancel", "upsert"} : BeginEdit(op, s))
              /\ UNCHANGED adapterVars
    BY <1>8, <1>11
  <1>12. CASE (\E t \in Trigger, b \in BOOLEAN : SaveEdit(t, b)) /\ UNCHANGED adapterVars
    BY <1>8, <1>12
  <1> QED BY <1>9, <1>10, <1>11, <1>12 DEF Next

\* The due times the scheduler computes.
LEMMA DueTypes ==
  ASSUME NEW d \in Definition, NEW ref, NEW answer
  PROVE  /\ InitialDue(d, ref) \in Occurrence \cup {None}
         /\ d.trigger # Cron => InitialDue(d, ref) \in {None, d.trigger}
         /\ NextCron(ref) \in Occurrence \cup {None}
         /\ ref \in Time => Advance(d, ref, answer) \in Definition
         /\ DueAtTrigger(Advance(d, ref, answer))
         /\ Advance(d, ref, answer).trigger = d.trigger
         /\ Advance(d, ref, answer).enabled <=> d.enabled /\ d.trigger = Cron
  <1>1. NextCron(ref) \in Occurrence \cup {None}
    BY DEF NextCron
  <1>2. d.trigger # Cron => d.trigger \in Occurrence
    BY SchedulerAssumption DEF Definition
  <1>3. /\ InitialDue(d, ref) \in Occurrence \cup {None}
        /\ d.trigger # Cron => InitialDue(d, ref) \in {None, d.trigger}
    BY <1>1, <1>2 DEF InitialDue
  <1>4. /\ ref \in Time => Advance(d, ref, answer) \in Definition
        /\ DueAtTrigger(Advance(d, ref, answer))
        /\ Advance(d, ref, answer).trigger = d.trigger
        /\ Advance(d, ref, answer).enabled <=> d.enabled /\ d.trigger = Cron
    BY <1>1 DEF Advance, Definition, DueAtTrigger
  <1> QED BY <1>1, <1>3, <1>4

\* What does not move keeps its invariant.
LEMMA CopyFrame ==
  ASSUME NEW p \in Caller, NEW s \in Schedule, CopyOK(p, s), pass'[p] = pass[p],
         store[s] # None => store'[s] # None,
         wanted'[s] = wanted[s], raced'[s] = raced[s]
  PROVE  CopyOK(p, s)'
  BY DEF CopyOK, Holds, Stored, DueAtTrigger

LEMMA AwaitFrame ==
  ASSUME SchedulerTypes, CopyInv, NEW p \in Caller, AwaitOK(p),
         pass'[p] = pass[p], sub'[p] = sub[p],
         \A k \in Key : Settled(k) => Settled(k)'
  PROVE  AwaitOK(p)'
  <1>1. First(p)' = First(p)
    BY DEF First
  <1>2. Submitted(p)' = Submitted(p)
    BY <1>1 DEF Submitted
  <1>3. pass[p].at = "await" => Submitted(p) \in Key
    BY FirstHeld DEF AwaitOK
  <1>4. ASSUME pass[p].at = "await", Settled(Submitted(p)) PROVE Settled(Submitted(p))'
    <2>1. PICK k \in Key : k = Submitted(p)
      BY <1>3, <1>4
    <2>2. Settled(k)'
      BY <1>4, <2>1
    <2>3. Submitted(p)' = k
      BY <1>2, <2>1
    <2> QED BY <2>2, <2>3 DEF Settled, Holding, KeyOf
  <1> QED BY <1>2, <1>4 DEF AwaitOK, At, KeyOf

LEMMA EditFrame ==
  ASSUME SchedulerTypes, NEW s \in Stored, EditOK(s),
         store'[s] = store[s], wanted'[s] = wanted[s], raced'[s] = raced[s],
         \A k \in Key : Settled(k) => Settled(k)'
  PROVE  EditOK(s)'
  <1>1. wanted[s] \in Wish /\ s \in Schedule
    BY DEF SchedulerTypes, Stored
  <1>2. wanted[s].trigger # Cron => <<s, wanted[s].trigger>> \in Key
    BY <1>1, OccurrenceKey, SchedulerAssumption DEF Wish
  <1>3. PICK w : w = wanted[s]
    OBVIOUS
  <1>4. w.trigger # Cron /\ Settled(<<s, w.trigger>>) => Settled(<<s, w.trigger>>)'
    BY <1>2, <1>3
  <1> QED BY <1>3, <1>4 DEF EditOK, DueAtTrigger, Settled, Holding, KeyOf

\* No pass is a pass that is off.
LEMMA NoPassType ==
  NoPass \in Pass /\ NoPass.todo \subseteq DOMAIN NoPass.copies /\ << >> \in Copies
  <1>1. << >> \in [{} -> Definition]
    OBVIOUS
  <1>2. << >> \in Copies
    BY <1>1 DEF Copies
  <1>3. 0 \in Time
    BY IngressAssumption DEF Time
  <1> QED BY <1>2, <1>3 DEF NoPass, Pass

SchedulerPart == SchedulerTypes /\ CopyInv /\ AwaitInv /\ EditInv

\* A delivery's step: the scheduler is as it was, and its own submission is one step
\* further.
LEMMA SchedulerDelivery ==
  ASSUME SchedulerInv, NEW c \in Caller, SubmitStep(c), UNCHANGED schedulerVars
  PROVE  SchedulerPart'
  <1> USE DEF SchedulerInv, schedulerVars
  <1>1. \A k \in Key : Settled(k) => Settled(k)'
    BY SettledStays
  <1>2. /\ \A d \in Caller \ {c} : sub'[d] = sub[d]
        /\ sub'[c].at \notin {"idle", "answered"} => KeyOf(c)' = KeyOf(c)
        /\ sub'[c].at # "idle" /\ sub[c].at \notin {"idle", "answered"}
    BY DeliveryStep
  <1>3. SchedulerTypes'
    BY DEF SchedulerTypes, Stored
  <1>4. CopyInv'
    BY CopyFrame DEF CopyInv
  <1>5. AwaitInv'
    <2> SUFFICES ASSUME NEW p \in Caller PROVE AwaitOK(p)'
      BY DEF AwaitInv
    <2>1. AwaitOK(p)
      BY DEF AwaitInv
    <2>2. CASE p # c
      BY <1>1, <1>2, <2>1, <2>2, AwaitFrame
    <2>3. CASE p = c /\ pass[p].at # "await"
      BY <1>2, <2>1, <2>3 DEF AwaitOK, At
    <2>4. CASE p = c /\ pass[p].at = "await"
      <3>1. Submitted(c) \in Key
        BY <2>1, <2>4, FirstHeld DEF AwaitOK
      <3>2. PICK k \in Key : k = Submitted(c)
        BY <3>1
      <3>3. First(c)' = First(c)
        BY DEF First
      <3>4. Submitted(c)' = k
        BY <3>2, <3>3 DEF Submitted
      <3>5. KeyOf(c) = k /\ (At(c, "duplicate") => Settled(k))
        BY <1>2, <2>1, <2>4, <3>2 DEF AwaitOK, At
      <3>6. At(c, "duplicate")' \/ (At(c, "answered")' /\ sub'[c].answer # "thrown")
              => Settled(k)'
        BY <3>5, AnswerSettles
      <3>7. At(c, "duplicate")' \/ (At(c, "answered")' /\ sub'[c].answer # "thrown")
              => Settled(Submitted(c))'
        BY <3>4, <3>6 DEF Settled, Holding, KeyOf
      <3> QED BY <1>2, <2>1, <2>4, <3>4, <3>5, <3>7 DEF AwaitOK, At
    <2> QED BY <2>2, <2>3, <2>4
  <1>6. EditInv'
    BY <1>1, EditFrame DEF EditInv, Stored
  <1> QED BY <1>3, <1>4, <1>5, <1>6 DEF SchedulerPart

\* The steps of the scheduler that store nothing.
LEMMA SchedulerQuiet ==
  ASSUME SchedulerInv, NEW c \in Caller,
         \A k \in Key : Settled(k) => Settled(k)',
         UNCHANGED <<store, wanted, raced>>,
         \A p \in Caller \ {c} : pass'[p] = pass[p] /\ sub'[p] = sub[p],
         SchedulerTypes', AwaitOK(c)', \A s \in Schedule : CopyOK(c, s)'
  PROVE  SchedulerPart'
  <1> USE DEF SchedulerInv
  <1>1. CopyInv'
    BY CopyFrame DEF CopyInv
  <1>2. AwaitInv'
    BY AwaitFrame DEF AwaitInv
  <1>3. EditInv'
    BY EditFrame DEF EditInv, Stored
  <1> QED BY <1>1, <1>2, <1>3 DEF SchedulerPart

\* Events and their answers, the submission of a pass and an exception that ends it.
LEMMA SchedulerCallers ==
  ASSUME SchedulerInv, NEW c \in Caller, CallerMoves(c),
         SendEvent(c) \/ TakeAnswer(c) \/ SubmitDue(c) \/ SubmitThrew(c)
  PROVE  SchedulerPart'
  <1> USE DEF SchedulerInv
  <1>1. \A k \in Key : Settled(k) => Settled(k)'
    BY SettledStays
  <1>2. /\ sub \in [Caller -> Submission] /\ pass \in [Caller -> Pass]
        /\ AwaitOK(c) /\ \A s \in Schedule : CopyOK(c, s)
    BY DEF IngressInv, IngressTypeOK, SchedulerTypes, AwaitInv, CopyInv
  <1>3. \A p \in Caller \ {c} : sub'[p] = sub[p]
    BY <1>2 DEF CallerMoves
  <1>4. CASE SendEvent(c) \/ TakeAnswer(c)
    <2>1. UNCHANGED <<store, pass, edit, wanted, raced>> /\ pass[c].at = "off"
      BY <1>4 DEF SendEvent, TakeAnswer, schedulerVars
    <2>2. SchedulerTypes'
      BY <2>1 DEF SchedulerTypes, Stored
    <2>3. AwaitOK(c)' /\ \A s \in Schedule : CopyOK(c, s)'
      BY <1>2, <2>1 DEF AwaitOK, CopyOK, Holds
    <2> QED BY <1>1, <1>3, <2>1, <2>2, <2>3, SchedulerQuiet
  <1>5. CASE SubmitDue(c)
    <2>1. /\ UNCHANGED <<store, edit, wanted, raced>>
          /\ pass[c].at = "submit" /\ pass' = [pass EXCEPT ![c].at = "await"]
      BY <1>5 DEF SubmitDue
    <2>2. /\ pass'[c].at = "await" /\ pass'[c].todo = pass[c].todo
          /\ pass'[c].copies = pass[c].copies
          /\ \A p \in Caller \ {c} : pass'[p] = pass[p]
          /\ pass' \in [Caller -> Pass]
      BY <1>2, <2>1 DEF Pass
    <2>3. SchedulerTypes'
      BY <2>1, <2>2 DEF SchedulerTypes, Stored
    <2>4. \A s \in Schedule : CopyOK(c, s)'
      BY <1>2, <2>1, <2>2 DEF CopyOK, Holds, Stored, DueAtTrigger
    <2>5. First(c)' = First(c)
      BY <2>2 DEF First
    <2>6. Submitted(c)' = Submitted(c)
      BY <2>2, <2>5 DEF Submitted
    <2>7. sub'[c].at = "received" /\ sub'[c].key = Submitted(c)
      BY <1>2, <1>5 DEF SubmitDue, Submit, Submitted
    <2>8. AwaitOK(c)'
      BY <1>2, <2>1, <2>2, <2>6, <2>7 DEF AwaitOK, At, KeyOf
    <2> QED BY <1>1, <1>3, <2>1, <2>2, <2>3, <2>4, <2>8, SchedulerQuiet
  <1>6. CASE SubmitThrew(c)
    <2>1. /\ UNCHANGED <<store, edit, wanted, raced>>
          /\ pass' = [pass EXCEPT ![c] = NoPass]
      BY <1>6 DEF SubmitThrew
    <2>2. /\ pass'[c] = NoPass /\ \A p \in Caller \ {c} : pass'[p] = pass[p]
          /\ pass' \in [Caller -> Pass] /\ NoPass.todo \subseteq DOMAIN NoPass.copies
      BY <1>2, <2>1, NoPassType
    <2>3. SchedulerTypes'
      BY <2>1, <2>2 DEF SchedulerTypes, Stored
    <2>4. AwaitOK(c)' /\ \A s \in Schedule : CopyOK(c, s)'
      BY <2>2 DEF AwaitOK, CopyOK, Holds, NoPass
    <2> QED BY <1>1, <1>3, <2>1, <2>2, <2>3, <2>4, SchedulerQuiet
  <1> QED BY <1>4, <1>5, <1>6

\* A step that stores one schedule leaves the edits of the others as they are.
LEMMA EditStore ==
  ASSUME SchedulerTypes, EditInv, NEW s \in Schedule, NEW d \in Definition,
         \A k \in Key : Settled(k) => Settled(k)',
         store' = [store EXCEPT ![s] = d],
         \A t \in Schedule \ {s} : wanted'[t] = wanted[t] /\ raced'[t] = raced[t],
         EditOK(s)'
  PROVE  /\ EditInv' /\ store' \in [Schedule -> Definition \cup {None}]
         /\ Stored' = Stored \cup {s}
         /\ \A t \in Schedule : store[t] # None => store'[t] # None
  <1>1. /\ store \in [Schedule -> Definition \cup {None}] /\ d # None
    BY DefinitionAssumption DEF SchedulerTypes
  <1>2. /\ store' \in [Schedule -> Definition \cup {None}] /\ Stored' = Stored \cup {s}
        /\ \A t \in Schedule \ {s} : store'[t] = store[t]
        /\ \A t \in Schedule : store[t] # None => store'[t] # None
    BY <1>1 DEF Stored
  <1>3. ASSUME NEW t \in Stored', t # s PROVE EditOK(t)'
    <2>1. t \in Stored /\ t \in Schedule
      BY <1>2, <1>3 DEF Stored
    <2> QED BY <1>2, <1>3, <2>1, EditFrame DEF EditInv
  <1>4. EditInv'
    BY <1>3 DEF EditInv
  <1> QED BY <1>2, <1>4

\* A pass saves its copy, advanced: a calendar schedule ends here, and its
\* occurrence is settled.
LEMMA SchedulerSaves ==
  ASSUME SchedulerInv, NEW c \in Caller, CallerMoves(c), SaveAdvanced(c)
  PROVE  SchedulerPart'
  <1> USE DEF SchedulerInv
  <1>1. \A k \in Key : Settled(k) => Settled(k)'
    BY SettledStays
  <1>2. /\ sub \in [Caller -> Submission] /\ pass \in [Caller -> Pass] /\ pass[c] \in Pass
        /\ AwaitOK(c) /\ \A s \in Schedule : CopyOK(c, s)
        /\ raced \in [Schedule -> BOOLEAN]
    BY DEF IngressInv, IngressTypeOK, SchedulerTypes, AwaitInv, CopyInv
  <1>3. /\ pass[c].at = "await" /\ pass[c].todo # {} /\ Settled(Submitted(c))
    BY <1>2 DEF SaveAdvanced, AwaitOK
  <1>4. /\ First(c) \in pass[c].todo /\ First(c) \in Schedule /\ Holds(c, First(c))
        /\ pass[c].copies[First(c)] \in Definition
        /\ Submitted(c) \in Key
    BY <1>3, FirstHeld
  <1>5. PICK s \in Schedule : s = First(c)
    BY <1>4
  <1>6. PICK x \in Definition : x = pass[c].copies[s]
    BY <1>4, <1>5
  <1>7. PICK d : d = Advance(x, pass[c].ref, sub[c].answer)
    OBVIOUS
  <1>8. /\ store' = [store EXCEPT ![s] = d]
        /\ pass' = [pass EXCEPT ![c] = IF pass[c].todo = {s} THEN NoPass
                       ELSE [pass[c] EXCEPT !.at = "submit", !.todo = pass[c].todo \ {s}]]
        /\ UNCHANGED <<edit, wanted, raced>>
        /\ sub' = [sub EXCEPT ![c] = NoSubmission]
    <2>1. /\ store' = [store EXCEPT
                 ![First(c)] = Advance(pass[c].copies[First(c)], pass[c].ref, sub[c].answer)]
          /\ pass' = [pass EXCEPT ![c] = IF pass[c].todo = {First(c)} THEN NoPass
                 ELSE [pass[c] EXCEPT !.at = "submit", !.todo = pass[c].todo \ {First(c)}]]
          /\ UNCHANGED <<edit, wanted, raced>>
          /\ sub' = [sub EXCEPT ![c] = NoSubmission]
      <3> HIDE DEF SchedulerInv
      <3> QED BY DEF SaveAdvanced
    <2> QED BY <1>5, <1>6, <1>7, <2>1
  <1>9. /\ d \in Definition /\ DueAtTrigger(d) /\ d.trigger = x.trigger
        /\ d.enabled <=> x.enabled /\ x.trigger = Cron
    <2>1. pass[c].ref \in Time
      BY <1>2 DEF Pass
    <2> QED BY <1>7, <2>1, DueTypes
  <1>10. /\ s \in Stored /\ x.enabled /\ DueAtTrigger(x) /\ x.due # None
         /\ ~raced[s] => wanted[s].enabled /\ x.trigger = wanted[s].trigger
    BY <1>2, <1>3, <1>4, <1>5, <1>6 DEF CopyOK
  <1>11. x.trigger # Cron => Settled(<<s, x.trigger>>)'
    <2>1. PICK k \in Key : k = Submitted(c)
      BY <1>4
    <2>2. Settled(k)'
      BY <1>1, <1>3, <2>1
    <2>3. k = <<s, x.due>>
      BY <1>5, <1>6, <2>1 DEF Submitted
    <2> QED BY <1>10, <2>2, <2>3 DEF DueAtTrigger
  <1>12. store'[s] = d /\ wanted'[s] = wanted[s] /\ raced'[s] = raced[s]
    BY <1>8 DEF SchedulerTypes
  <1>13. EditOK(s)'
    <2>1. PICK w : w = wanted[s]
      OBVIOUS
    <2>2. /\ ~raced[s] => d.trigger = w.trigger /\ w.enabled
          /\ ~raced[s] /\ ~d.enabled => w.trigger # Cron /\ Settled(<<s, w.trigger>>)'
      BY <1>9, <1>10, <1>11, <2>1
    <2>3. wanted'[s] = w
      BY <1>12, <2>1
    <2> QED BY <1>9, <1>12, <2>2, <2>3 DEF EditOK, DueAtTrigger, Settled, Holding, KeyOf
  <1>14. /\ EditInv' /\ store' \in [Schedule -> Definition \cup {None}]
         /\ Stored' = Stored \cup {s}
         /\ \A t \in Schedule : store[t] # None => store'[t] # None
    BY <1>1, <1>8, <1>9, <1>13, EditStore
  <1>15. /\ pass' \in [Caller -> Pass] /\ pass'[c].todo \subseteq DOMAIN pass'[c].copies
         /\ \A p \in Caller \ {c} : pass'[p] = pass[p]
         /\ \/ pass'[c] = NoPass
            \/ /\ pass'[c].at = "submit" /\ pass'[c].copies = pass[c].copies
               /\ pass'[c].todo = pass[c].todo \ {s} /\ pass'[c].todo # {}
    <2>1. pass[c].todo \subseteq DOMAIN pass[c].copies
      BY DEF SchedulerTypes
    <2>2. CASE pass[c].todo = {s}
      BY <1>2, <1>8, <2>2, NoPassType
    <2>3. CASE pass[c].todo # {s}
      BY <1>2, <1>4, <1>5, <1>8, <2>1, <2>3 DEF Pass
    <2> QED BY <2>2, <2>3
  <1>16. SchedulerTypes'
    BY <1>8, <1>10, <1>14, <1>15 DEF SchedulerTypes
  <1>17. CopyInv'
    <2> SUFFICES ASSUME NEW p \in Caller, NEW t \in Schedule PROVE CopyOK(p, t)'
      BY DEF CopyInv
    <2>1. CopyOK(p, t)
      BY DEF CopyInv
    <2>2. CASE p # c
      BY <1>8, <1>14, <1>15, <2>1, <2>2, CopyFrame
    <2>3. CASE p = c
      BY <1>3, <1>8, <1>14, <1>15, <2>1, <2>3
      DEF CopyOK, Holds, DueAtTrigger, NoPass, Stored
    <2> QED BY <2>2, <2>3
  <1>18. AwaitInv'
    <2>1. \A p \in Caller \ {c} : sub'[p] = sub[p]
      BY <1>2, <1>8
    <2>2. AwaitOK(c)'
      <3>1. sub'[c].at = "idle"
        BY <1>2, <1>8 DEF NoSubmission
      <3>2. pass'[c].at \in {"off", "submit"} /\ (pass'[c].at = "submit" => pass'[c].todo # {})
        BY <1>15 DEF NoPass
      <3> QED BY <3>1, <3>2 DEF AwaitOK, At
    <2> QED BY <1>1, <1>15, <2>1, <2>2, AwaitFrame DEF AwaitInv
  <1> QED BY <1>14, <1>16, <1>17, <1>18 DEF SchedulerPart

\* The copies a pass makes of enabled schedules are good copies.
LEMMA FreshCopy ==
  ASSUME SchedulerTypes, EditInv, NEW s \in Stored, store[s].enabled
  PROVE  /\ store[s] \in Definition /\ DueAtTrigger(store[s]) /\ s \in Schedule
         /\ ~raced[s] => wanted[s].enabled /\ store[s].trigger = wanted[s].trigger
  BY DEF SchedulerTypes, EditInv, EditOK, Stored

\* A pass begins and lists the schedules.
LEMMA SchedulerLists ==
  ASSUME SchedulerInv, UNCHANGED <<ingressVars, adapterVars>>, NEW p \in Caller,
         Begin(p) \/ ListDue(p)
  PROVE  SchedulerPart'
  <1> USE DEF SchedulerInv
  <1>1. \A k \in Key : Settled(k) => Settled(k)'
    BY SettledStays
  <1>2. /\ pass \in [Caller -> Pass] /\ pass[p] \in Pass /\ AwaitOK(p)
        /\ store \in [Schedule -> Definition \cup {None}] /\ now \in Time
    BY DEF SchedulerTypes, AwaitInv, IngressInv, IngressTypeOK
  <1>3. UNCHANGED <<store, edit, wanted, raced, sub>>
    BY DEF Begin, ListDue, ingressVars
  <1>4. ASSUME NEW T \in SUBSET Stored, NEW x \in Pass, pass' = [pass EXCEPT ![p] = x],
               x.todo = T, x.copies = [s \in T |-> store[s]], x.at # "await",
               At(p, "idle"), x.at = "submit" => T # {},
               \A s \in T : store[s].enabled,
               x.at = "submit" => \A s \in T : store[s].due # None
        PROVE  SchedulerPart'
    <2>1. /\ pass' \in [Caller -> Pass] /\ pass'[p] = x
          /\ \A q \in Caller \ {p} : pass'[q] = pass[q]
      BY <1>2, <1>4
    <2>2. SchedulerTypes'
      BY <1>3, <1>4, <2>1 DEF SchedulerTypes, Stored
    <2>3. AwaitOK(p)'
      BY <1>3, <1>4, <2>1 DEF AwaitOK, At
    <2>4. ASSUME NEW s \in Schedule PROVE CopyOK(p, s)'
      BY <1>3, <1>4, <2>1, FreshCopy DEF CopyOK, Holds, Stored, DueAtTrigger
    <2>5. \A q \in Caller \ {p} : pass'[q] = pass[q] /\ sub'[q] = sub[q]
      BY <1>3, <2>1
    <2> QED BY <1>1, <1>3, <2>2, <2>3, <2>4, <2>5, SchedulerQuiet
  <1>5. ASSUME NEW T \in SUBSET Stored PROVE [s \in T |-> store[s]] \in Copies
    <2>1. T \in SUBSET Schedule /\ \A s \in T : store[s] \in Definition
      BY <1>2 DEF Stored
    <2> QED BY <2>1 DEF Copies
  <1>6. CASE Begin(p)
    <2> DEFINE T == Unreconciled(ListAll)
               x == [at |-> IF T = {} THEN "listDue" ELSE "reconcile", ref |-> now,
                     copies |-> [s \in T |-> store[s]], todo |-> T]
    <2>1. T \in SUBSET Stored /\ \A s \in T : store[s].enabled
      BY DEF Unreconciled, ListAll
    <2>2. x \in Pass
      BY <1>2, <1>5, <2>1 DEF Pass, Stored
    <2>3. pass' = [pass EXCEPT ![p] = x] /\ At(p, "idle")
      BY <1>6 DEF Begin
    <2> HIDE DEF T
    <2> QED BY <1>4, <2>1, <2>2, <2>3
  <1>7. CASE ListDue(p)
    <2> DEFINE T == {s \in Stored : /\ store[s].enabled
                                    /\ store[s].due # None
                                    /\ store[s].due =< pass[p].ref}
               x == [pass[p] EXCEPT !.at = "submit", !.todo = T,
                                    !.copies = [s \in T |-> store[s]]]
    <2>1. /\ T \in SUBSET Stored /\ \A s \in T : store[s].enabled /\ store[s].due # None
      OBVIOUS
    <2>2. pass' = [pass EXCEPT ![p] = IF T = {} THEN NoPass ELSE x] /\ At(p, "idle")
      BY <1>2, <1>7 DEF ListDue, AwaitOK
    <2>3. /\ x \in Pass /\ x.todo = T /\ x.copies = [s \in T |-> store[s]] /\ x.at = "submit"
      <3>1. [s \in T |-> store[s]] \in Copies
        BY <1>5, <2>1
      <3>2. T \in SUBSET Schedule
        BY DEF Stored
      <3> HIDE DEF T
      <3> QED BY <1>2, <3>1, <3>2 DEF Pass
    <2>4. CASE T # {}
      <3> HIDE DEF T, x
      <3> QED BY <1>4, <2>1, <2>2, <2>3, <2>4
    <2>5. CASE T = {}
      <3>1. /\ pass' \in [Caller -> Pass] /\ pass'[p] = NoPass
            /\ \A q \in Caller \ {p} : pass'[q] = pass[q] /\ sub'[q] = sub[q]
        BY <1>2, <1>3, <2>2, <2>5, NoPassType
      <3>2. SchedulerTypes'
        BY <1>3, <3>1, NoPassType DEF SchedulerTypes, Stored
      <3>3. AwaitOK(p)' /\ \A s \in Schedule : CopyOK(p, s)'
        BY <3>1 DEF AwaitOK, CopyOK, Holds, NoPass
      <3> QED BY <1>1, <1>3, <3>1, <3>2, <3>3, SchedulerQuiet
    <2> QED BY <2>4, <2>5
  <1> QED BY <1>6, <1>7

\* reconcileTimeSchedules saves a copy with its due time computed anew.
LEMMA SchedulerReconciles ==
  ASSUME SchedulerInv, UNCHANGED <<ingressVars, adapterVars>>, NEW p \in Caller, Reconcile(p)
  PROVE  SchedulerPart'
  <1> USE DEF SchedulerInv
  <1>1. \A k \in Key : Settled(k) => Settled(k)'
    BY SettledStays
  <1>2. /\ pass \in [Caller -> Pass] /\ pass[p] \in Pass /\ AwaitOK(p)
        /\ pass[p].todo \subseteq Schedule /\ pass[p].todo \subseteq DOMAIN pass[p].copies
    BY DEF SchedulerTypes, AwaitInv, Pass
  <1>3. UNCHANGED <<edit, wanted, raced, sub>> /\ pass[p].at = "reconcile"
    BY DEF Reconcile, ingressVars
  <1>4. PICK s \in pass[p].todo :
          LET copy == pass[p].copies[s]
              ref == IF copy.last # None THEN copy.last ELSE pass[p].ref
          IN  /\ store' = [store EXCEPT ![s] = [copy EXCEPT !.due = InitialDue(copy, ref)]]
              /\ pass' = [pass EXCEPT ![p] =
                   IF pass[p].todo = {s}
                   THEN [pass[p] EXCEPT !.at = "listDue", !.copies = << >>, !.todo = {}]
                   ELSE [pass[p] EXCEPT !.todo = pass[p].todo \ {s}]]
    BY DEF Reconcile
  <1>5. s \in Schedule /\ pass[p].copies[s] \in Definition
    BY <1>2, <1>4 DEF Pass, Copies
  <1>6. PICK x \in Definition : x = pass[p].copies[s]
    BY <1>5
  <1>7. PICK ref : store' = [store EXCEPT ![s] = [x EXCEPT !.due = InitialDue(x, ref)]]
    BY <1>4, <1>6
  <1>8. PICK d : d = [x EXCEPT !.due = InitialDue(x, ref)]
    OBVIOUS
  <1>9. /\ d \in Definition /\ DueAtTrigger(d) /\ d.trigger = x.trigger /\ d.enabled = x.enabled
    BY <1>8, DueTypes DEF Definition, DueAtTrigger
  <1>10. /\ s \in Stored /\ x.enabled
         /\ ~raced[s] => wanted[s].enabled /\ x.trigger = wanted[s].trigger
    BY <1>3, <1>4, <1>5, <1>6 DEF CopyInv, CopyOK, Holds
  <1>11. store'[s] = d
    BY <1>5, <1>7, <1>8 DEF SchedulerTypes
  <1>12. EditOK(s)'
    BY <1>3, <1>9, <1>10, <1>11 DEF EditOK
  <1>13. /\ EditInv' /\ store' \in [Schedule -> Definition \cup {None}]
         /\ Stored' = Stored \cup {s}
         /\ \A t \in Schedule : store[t] # None => store'[t] # None
    BY <1>1, <1>3, <1>5, <1>7, <1>8, <1>9, <1>12, EditStore
  <1>14. /\ pass' \in [Caller -> Pass] /\ pass'[p].todo \subseteq DOMAIN pass'[p].copies
         /\ \A q \in Caller \ {p} : pass'[q] = pass[q]
         /\ \/ pass'[p].at = "listDue"
            \/ /\ pass'[p].at = "reconcile" /\ pass'[p].copies = pass[p].copies
               /\ pass'[p].todo = pass[p].todo \ {s}
    <2>1. CASE pass[p].todo = {s}
      BY <1>2, <1>4, <2>1, NoPassType DEF Pass
    <2>2. CASE pass[p].todo # {s}
      BY <1>2, <1>3, <1>4, <2>2 DEF Pass
    <2> QED BY <2>1, <2>2
  <1>15. SchedulerTypes'
    BY <1>3, <1>10, <1>13, <1>14 DEF SchedulerTypes
  <1>16. CopyInv'
    <2> SUFFICES ASSUME NEW q \in Caller, NEW t \in Schedule PROVE CopyOK(q, t)'
      BY DEF CopyInv
    <2>1. CopyOK(q, t)
      BY DEF CopyInv
    <2>2. CASE q # p
      BY <1>3, <1>13, <1>14, <2>1, <2>2, CopyFrame
    <2>3. CASE q = p
      BY <1>3, <1>13, <1>14, <2>1, <2>3 DEF CopyOK, Holds, DueAtTrigger, Stored
    <2> QED BY <2>2, <2>3
  <1>17. AwaitInv'
    <2>1. AwaitOK(p)'
      BY <1>2, <1>3, <1>14 DEF AwaitOK, At
    <2> QED BY <1>1, <1>3, <1>14, <2>1, AwaitFrame DEF AwaitInv
  <1> QED BY <1>13, <1>15, <1>16, <1>17 DEF SchedulerPart

\* The operator's calls save what was asked for: register,
LEMMA SchedulerRegisters ==
  ASSUME SchedulerInv, UNCHANGED <<ingressVars, adapterVars>>, NEW s \in Schedule,
         NEW t \in Trigger, Register(s, t)
  PROVE  SchedulerPart'
  <1> USE DEF SchedulerInv
  <1>1. \A k \in Key : Settled(k) => Settled(k)'
    BY SettledStays
  <1>2. UNCHANGED <<pass, edit, raced, sub>> /\ store[s] = None
    BY DEF Register, ingressVars
  <1> DEFINE x == [enabled |-> TRUE, trigger |-> t, due |-> None, last |-> None]
  <1>3. x \in Definition
    BY DEF Definition
  <1>4. PICK d : d = [x EXCEPT !.due = InitialDue(x, now)]
    OBVIOUS
  <1>5. d \in Definition /\ DueAtTrigger(d) /\ d.trigger = t /\ d.enabled = TRUE
    <2>1. /\ InitialDue(x, now) \in Occurrence \cup {None}
          /\ t # Cron => InitialDue(x, now) \in {None, t}
      BY <1>3, DueTypes
    <2> QED BY <1>4, <2>1 DEF Definition, DueAtTrigger
  <1>6. /\ store' = [store EXCEPT ![s] = d]
        /\ wanted' = [wanted EXCEPT ![s] = [enabled |-> TRUE, trigger |-> t]]
    BY <1>4 DEF Register
  <1>7. /\ store'[s] = d /\ wanted'[s] = [enabled |-> TRUE, trigger |-> t]
        /\ wanted' \in [Schedule -> Wish \cup {None}] /\ wanted'[s] \in Wish
        /\ \A r \in Schedule \ {s} : wanted'[r] = wanted[r]
    BY <1>6 DEF SchedulerTypes, Wish
  <1>8. EditOK(s)'
    BY <1>5, <1>7 DEF EditOK
  <1>9. /\ EditInv' /\ store' \in [Schedule -> Definition \cup {None}]
        /\ Stored' = Stored \cup {s}
        /\ \A r \in Schedule : store[r] # None => store'[r] # None
    BY <1>1, <1>2, <1>5, <1>6, <1>7, <1>8, EditStore
  <1>10. SchedulerTypes'
    BY <1>2, <1>7, <1>9 DEF SchedulerTypes, Stored
  <1>11. CopyInv'
    <2> SUFFICES ASSUME NEW p \in Caller, NEW r \in Schedule PROVE CopyOK(p, r)'
      BY DEF CopyInv
    <2>1. CopyOK(p, r)
      BY DEF CopyInv
    <2>2. CASE r # s
      BY <1>2, <1>7, <1>9, <2>1, <2>2, CopyFrame
    <2>3. CASE r = s
      BY <1>2, <2>1, <2>3 DEF CopyOK, Holds, Stored
    <2> QED BY <2>2, <2>3
  <1>12. AwaitInv'
    BY <1>1, <1>2, AwaitFrame DEF AwaitInv
  <1> QED BY <1>9, <1>10, <1>11, <1>12 DEF SchedulerPart

\* the read of cancel and upsert,
LEMMA SchedulerReads ==
  ASSUME SchedulerInv, UNCHANGED <<ingressVars, adapterVars>>, NEW s \in Schedule,
         NEW op \in {"cancel", "upsert"}, BeginEdit(op, s)
  PROVE  SchedulerPart'
  <1> USE DEF SchedulerInv
  <1>1. \A k \in Key : Settled(k) => Settled(k)'
    BY SettledStays
  <1>2. /\ UNCHANGED <<pass, store, wanted, raced, sub>> /\ store[s] # None
        /\ edit' = [op |-> op, s |-> s, copy |-> store[s]]
    BY DEF BeginEdit, ingressVars
  <1>3. SchedulerTypes'
    BY <1>2 DEF SchedulerTypes, Stored
  <1>4. CopyInv' /\ AwaitInv'
    BY <1>1, <1>2, AwaitFrame, CopyFrame DEF AwaitInv, CopyInv
  <1>5. EditInv'
    BY <1>1, <1>2, EditFrame DEF EditInv, Stored
  <1> QED BY <1>3, <1>4, <1>5 DEF SchedulerPart

\* and their save: unless a pass holds a copy, nothing is left to undo it.
LEMMA SchedulerEdits ==
  ASSUME SchedulerInv, UNCHANGED <<ingressVars, adapterVars>>,
         NEW t \in Trigger, NEW b \in BOOLEAN, SaveEdit(t, b)
  PROVE  SchedulerPart'
  <1> USE DEF SchedulerInv
  <1>1. \A k \in Key : Settled(k) => Settled(k)'
    BY SettledStays
  <1>2. UNCHANGED <<pass, sub>> /\ edit' = NoEdit /\ edit.op # "none"
    BY DEF SaveEdit, ingressVars
  <1>3. PICK s \in Stored : s = edit.s
    BY <1>2 DEF SchedulerTypes
  <1>4. s \in Schedule
    BY DEF Stored
  <1>5. PICK x \in Definition : x = edit.copy
    BY <1>2 DEF SchedulerTypes
  <1>6. PICK d : d = IF edit.op = "cancel" THEN Cancelled(x) ELSE Upserted(x, t, b)
    OBVIOUS
  <1>7. d \in Definition /\ DueAtTrigger(d)
    <2>1. CASE edit.op = "cancel"
      BY <1>6, <2>1 DEF Cancelled, Definition, DueAtTrigger
    <2>2. CASE edit.op # "cancel"
      <3> DEFINE y == [x EXCEPT !.enabled = b, !.trigger = t]
      <3>1. y \in Definition
        BY DEF Definition
      <3>2. PICK ref : d = [y EXCEPT !.due = InitialDue(y, ref)]
        BY <1>6, <2>2 DEF Upserted
      <3>3. /\ InitialDue(y, ref) \in Occurrence \cup {None}
            /\ y.trigger # Cron => InitialDue(y, ref) \in {None, y.trigger}
        BY <3>1, DueTypes
      <3> HIDE DEF y
      <3> QED BY <3>1, <3>2, <3>3 DEF Definition, DueAtTrigger
    <2> QED BY <2>1, <2>2
  <1>8. /\ store' = [store EXCEPT ![s] = d]
        /\ wanted' = [wanted EXCEPT ![s] = [enabled |-> d.enabled, trigger |-> d.trigger]]
        /\ raced' = [raced EXCEPT ![s] = HeldCopy(s)]
    BY <1>3, <1>5, <1>6 DEF SaveEdit
  <1>9. /\ store'[s] = d /\ wanted'[s] = [enabled |-> d.enabled, trigger |-> d.trigger]
        /\ wanted' \in [Schedule -> Wish \cup {None}] /\ wanted'[s] \in Wish
        /\ \A r \in Schedule \ {s} : wanted'[r] = wanted[r]
    BY <1>4, <1>7, <1>8 DEF SchedulerTypes, Wish, Definition
  <1>10. /\ raced' \in [Schedule -> BOOLEAN] /\ (raced'[s] <=> HeldCopy(s))
         /\ \A r \in Schedule \ {s} : raced'[r] = raced[r]
    BY <1>4, <1>8 DEF SchedulerTypes, HeldCopy
  <1>11. EditOK(s)'
    BY <1>7, <1>9 DEF EditOK
  <1>12. /\ EditInv' /\ store' \in [Schedule -> Definition \cup {None}]
         /\ Stored' = Stored \cup {s}
         /\ \A r \in Schedule : store[r] # None => store'[r] # None
    BY <1>1, <1>4, <1>7, <1>8, <1>9, <1>10, <1>11, EditStore
  <1>13. NoEdit \in [op : {"none", "cancel", "upsert"}, s : Schedule \cup {None},
                     copy : Definition \cup {None}] /\ NoEdit.op = "none"
    BY DEF NoEdit
  <1>14. SchedulerTypes'
    BY <1>2, <1>9, <1>10, <1>12, <1>13 DEF SchedulerTypes, Stored
  <1>15. CopyInv'
    <2> SUFFICES ASSUME NEW p \in Caller, NEW r \in Schedule PROVE CopyOK(p, r)'
      BY DEF CopyInv
    <2>1. CopyOK(p, r)
      BY DEF CopyInv
    <2>2. CASE r # s
      BY <1>2, <1>9, <1>10, <1>12, <2>1, <2>2, CopyFrame
    <2>3. CASE r = s
      <3>1. Holds(p, r)' => Holds(p, r) /\ HeldCopy(r)
        BY <1>2 DEF Holds, HeldCopy
      <3> QED BY <1>2, <1>10, <1>12, <2>1, <2>3, <3>1 DEF CopyOK, Stored, DueAtTrigger
    <2> QED BY <2>2, <2>3
  <1>16. AwaitInv'
    BY <1>1, <1>2, AwaitFrame DEF AwaitInv
  <1> QED BY <1>12, <1>14, <1>15, <1>16 DEF SchedulerPart

--------------------------------------------------------------------------------
(* The theorems.                                                               *)

LEMMA SchedulerInvInit == Init => SchedulerInv
  <1> SUFFICES ASSUME Init PROVE SchedulerInv
    OBVIOUS
  <1> USE DEF Init
  <1>1. IngressInv
    BY IngressInvInit
  <1>2. HistoryInv /\ AdapterInv
    BY DEF IngressInit, AdapterInit, HistoryInv, AdapterInv, At, NoSubmission, UnderWay, Starting
  <1>3. Stored = {}
    BY DEF Stored
  <1>4. SchedulerTypes
    BY <1>3, NoPassType DEF SchedulerTypes, NoEdit
  <1>5. CopyInv /\ AwaitInv /\ EditInv
    BY <1>3 DEF CopyInv, CopyOK, Holds, AwaitInv, AwaitOK, EditInv, NoPass
  <1> QED BY <1>1, <1>2, <1>4, <1>5 DEF SchedulerInv

LEMMA SchedulerInvNext ==
  ASSUME SchedulerInv, [Next]_vars
  PROVE  SchedulerInv' /\ (Once!OnceNext \/ UNCHANGED <<KeyPhase, KeyRuns>>)
  <1>1. /\ IngressInv /\ HistoryInv /\ AdapterInv /\ SchedulerTypes /\ CopyInv /\ AwaitInv
        /\ EditInv
    BY DEF SchedulerInv
  <1>2. \/ \E c \in Caller : SubmitStep(c) /\ UNCHANGED schedulerVars
        \/ \E c \in Caller : /\ CallerMoves(c)
                             /\ \/ SendEvent(c) \/ TakeAnswer(c) \/ SubmitDue(c)
                                \/ SaveAdvanced(c) \/ SubmitThrew(c)
        \/ Tick /\ UNCHANGED <<adapterVars, schedulerVars>>
        \/ /\ UNCHANGED <<ingressVars, adapterVars>>
           /\ \/ \E p \in Caller : Begin(p) \/ Reconcile(p) \/ ListDue(p)
              \/ \E s \in Schedule : \/ \E t \in Trigger : Register(s, t)
                                     \/ \E op \in {"cancel", "upsert"} : BeginEdit(op, s)
              \/ \E t \in Trigger, b \in BOOLEAN : SaveEdit(t, b)
              \/ UNCHANGED schedulerVars
    BY <1>1, NextCases
  <1>3. \/ \E c \in Caller : SubmitStep(c) \/ CallerMoves(c)
        \/ Tick /\ UNCHANGED adapterVars
        \/ UNCHANGED <<ingressVars, adapterVars>>
    BY <1>2
  <1>4. IngressInv'
    BY <1>1, <1>3, IngressInvNext
  <1>5. Once!OnceNext \/ UNCHANGED <<KeyPhase, KeyRuns>>
    BY <1>1, <1>3, <1>4, OnceStep
  <1>6. HistoryInv' /\ AdapterInv'
    BY <1>1, <1>3, HistoryStep, AdapterStepInv, CallersHistory
  <1>7. SchedulerPart'
    <2>1. ASSUME UNCHANGED <<schedulerVars, sub>>,
                 \A k \in Key : Settled(k) => Settled(k)'
          PROVE  SchedulerPart'
      <3>1. SchedulerTypes'
        BY <1>1, <2>1 DEF SchedulerTypes, schedulerVars, Stored
      <3>2. CopyInv' /\ AwaitInv'
        BY <1>1, <2>1, AwaitFrame, CopyFrame DEF AwaitInv, CopyInv, schedulerVars
      <3>3. EditInv'
        BY <1>1, <2>1, EditFrame DEF EditInv, Stored, schedulerVars
      <3> QED BY <3>1, <3>2, <3>3 DEF SchedulerPart
    <2>2. \A k \in Key : Settled(k) => Settled(k)'
      BY <1>1, <1>3, SettledStays
    <2>3. CASE Tick /\ UNCHANGED <<adapterVars, schedulerVars>>
      BY <2>1, <2>2, <2>3 DEF Tick
    <2>4. CASE UNCHANGED <<ingressVars, adapterVars>> /\ UNCHANGED schedulerVars
      BY <2>1, <2>2, <2>4 DEF ingressVars
    <2>5. CASE \E c \in Caller : SubmitStep(c) /\ UNCHANGED schedulerVars
      BY <2>5, SchedulerDelivery
    <2>6. CASE \E c \in Caller : /\ CallerMoves(c)
                                 /\ \/ SendEvent(c) \/ TakeAnswer(c) \/ SubmitDue(c)
                                    \/ SaveAdvanced(c) \/ SubmitThrew(c)
      BY <2>6, SchedulerCallers, SchedulerSaves
    <2>7. CASE UNCHANGED <<ingressVars, adapterVars>> /\ ~UNCHANGED schedulerVars
      BY <1>2, <2>2, <2>7, SchedulerLists, SchedulerReconciles, SchedulerRegisters,
         SchedulerReads, SchedulerEdits, SchedulerDelivery, SchedulerCallers, SchedulerSaves
    <2> QED BY <1>2, <2>3, <2>4, <2>5, <2>6, <2>7
  <1> QED BY <1>4, <1>5, <1>6, <1>7 DEF SchedulerInv, SchedulerPart

LEMMA SchedulerInvariant == Spec => []SchedulerInv
  <1>1. SchedulerInv /\ [Next]_vars => SchedulerInv'
    BY SchedulerInvNext
  <1> QED BY <1>1, SchedulerInvInit, PTL DEF Spec

\* The gateway implements DispatchOnce, for any callers, keys, clock and edits: no
\* second run of an idempotency key while a delivery works on it or after one was
\* accepted, although claims expire (idempotency-store.ts, gateway.ts).
THEOREM GatewayRefinesDispatchOnce == Spec => DispatchedOnce
  <1>1. Init => Once!OnceInit
    BY DEF Init, IngressInit, AdapterInit, Once!OnceInit, KeyPhase, KeyRuns, Starting, Holding,
           At, NoSubmission
  <1>2. SchedulerInv /\ [Next]_vars => [Once!OnceNext]_<<KeyPhase, KeyRuns>>
    BY SchedulerInvNext
  <1>3. Spec => Once!OnceInit /\ [][Once!OnceNext]_<<KeyPhase, KeyRuns>>
    BY <1>1, <1>2, SchedulerInvariant, PTL DEF Spec
  <1> QED BY <1>3 DEF DispatchedOnce, Once!OnceSpec, Once!onceVars

\* Every record of the idempotency store stands for a delivery under way, an accepted
\* one or one whose lookup threw: releaseClaim and commitDispatch lose none.
THEOREM RecordsCorrect == Spec => []RecordsAreLive
  <1>1. SchedulerInv => RecordsAreLive
    BY DEF SchedulerInv, IngressInv
  <1> QED BY <1>1, SchedulerInvariant, PTL

\* The adapter queues a key twice only when deliveries of it overlapped or threw
\* (ingress-adapter.ts).
THEOREM AdapterCorrect == Spec => []AdapterQueuesOnce
  <1>1. SchedulerInv => AdapterQueuesOnce
    BY DEF SchedulerInv, AdapterInv, AdapterQueuesOnce
  <1> QED BY <1>1, SchedulerInvariant, PTL

\* A schedule is what the operator's last edit made it, unless the edit overlapped a
\* pass that holds a copy; a calendar schedule ends only when its occurrence was
\* dispatched or refused (scheduler-service.ts).
THEOREM LastEditCorrect == Spec => []LastEditHolds
  <1>1. SchedulerInv => LastEditHolds
    BY DEF SchedulerInv, EditInv, EditOK, LastEditHolds, Settled
  <1> QED BY <1>1, SchedulerInvariant, PTL

================================================================================
