---------------------------- MODULE WitnessLedger ----------------------------
(***************************************************************************)
(* The witness ledger of self/subcortex/witnessd: a hash chain of events,  *)
(* a chain of signed checkpoints over it and the head record, each written *)
(* by its own put to the document store.  WitnessService queues the writers *)
(* behind one another (runExclusive); verify and the receipt it issues are *)
(* not queued and run between any two store operations of a writer.        *)
(*                                                                         *)
(* An event's id is its position in `events', the order of the puts; a     *)
(* checkpoint's id likewise; 0 stands for null.  A hash stands for the     *)
(* record it was computed from, so a hash is an id.  A key pair is the     *)
(* number of the generation that made it.                                  *)
(***************************************************************************)
EXTENDS Naturals, Sequences, FiniteSets, FiniteSetsExt, SequencesExt

CONSTANTS
    Writers,        \* callers of the queued operations
    Interval,       \* checkpointInterval (25 in the code)
    Severity,       \* severities of the invariants that are signalled
    Ranges,         \* verify's fromSequence, 0 when the request has none
    MaxEvents, MaxCheckpoints, MaxEpochs, MaxVerifies, MaxFaults  \* bounds

ASSUME LedgerAssumption ==
    /\ Interval \in Nat \ {0}
    /\ Severity \subseteq {"S0", "S1", "S2"}
    /\ Ranges \subseteq Nat
    /\ {MaxEvents, MaxCheckpoints, MaxEpochs, MaxVerifies, MaxFaults} \subseteq Nat

VARIABLES
    events,         \* the collection witness_events
    checkpoints,    \* the collection witness_checkpoints
    head,           \* the head record
    keys,           \* key epoch -> the key pair on record, 0 when there is none
    op,             \* writer -> the queued operation it is in
    verifier,       \* the verification under way
    report,         \* the last verification report, until the next verification
    acked,          \* history: events whose append returned to its caller
    made,           \* history: key pairs generated so far
    rekeyed,        \* history: a key record was replaced by another pair
    faults,         \* history: restarts and failed store operations
    verifies        \* history: verifications begun

vars == <<events, checkpoints, head, keys, op, verifier, report, acked, made,
          rekeyed, faults, verifies>>

Store == <<events, checkpoints, head, keys>>
KeyStore == <<keys, made, rekeyed>>
Verification == <<verifier, report, verifies>>

FreshHead == [lastSequence |-> 0, lastEvent |-> 0, lastCheckpoint |-> 0,
              checkpointSequence |-> 0, epoch |-> 1]
Idle == [pc |-> "idle"]

Init ==
    /\ events = <<>> /\ checkpoints = <<>> /\ head = FreshHead
    /\ keys = [e \in 1..MaxEpochs + 1 |-> 0]
    /\ op = [w \in Writers |-> Idle]
    /\ verifier = Idle /\ report = Idle
    /\ acked = {} /\ made = 0 /\ rekeyed = FALSE
    /\ faults = 0 /\ verifies = 0

(***************************************************************************)
(* getLedgerHead puts the fresh head when there is none.  The read and     *)
(* that put are one microtask apart, less than any writer needs from its   *)
(* own read to its save, so the head is modelled as there from the start.  *)
(***************************************************************************)
getLedgerHead == head

RunUnqueued(w) == op[w] = Idle

(* An operation starts when the one before it in the queue has settled. *)
runExclusive(w) == \A x \in Writers : op[x] = Idle

(* ensureKeyEpoch's lookup; the pair is generated and put by PutKey. *)
getKeyEpoch(e) == keys[e]

(* The end of ensureKeyEpoch: the pair that was found, or a new one that   *)
(* replaces whatever the record holds by now.                              *)
ensureKeyEpoch(e, found) ==
    IF found # 0
    THEN UNCHANGED KeyStore
    ELSE /\ made' = made + 1
         /\ keys' = [keys EXCEPT ![e] = made + 1]
         /\ rekeyed' = (rekeyed \/ keys[e] # 0)

----------------------------------------------------------------------------
(***************************************************************************)
(* Appending an event.                                                     *)
(***************************************************************************)
BeginAppend(w, stage, ref, severity) ==
    /\ runExclusive(w)
    /\ Len(events) < MaxEvents
    /\ op' = [op EXCEPT ![w] = [pc |-> "put", head |-> getLedgerHead, stage |-> stage,
                                ref |-> ref, severity |-> severity]]
    /\ UNCHANGED <<Store, acked, made, rekeyed, faults, Verification>>

appendAuthorization(w) == BeginAppend(w, "authorization", 0, "none")

(* An authorizationRef that names no event makes appendCompletion throw    *)
(* before it touches the ledger: nothing changes.                          *)
appendCompletion(w) ==
    \E ref \in {i \in acked : events[i].stage = "authorization"} :
        BeginAppend(w, "completion", ref, "none")

appendInvariant(w) == \E s \in Severity : BeginAppend(w, "invariant", 0, s)

(* appendLedgerEvent's first write. *)
PutEvent(w) ==
    /\ op[w].pc = "put"
    /\ events' = Append(events, [sequence |-> op[w].head.lastSequence + 1,
                                 previous |-> op[w].head.lastEvent,
                                 stage |-> op[w].stage, ref |-> op[w].ref,
                                 severity |-> op[w].severity])
    /\ op' = [op EXCEPT ![w] = [pc |-> "save", head |-> op[w].head,
                                event |-> Len(events) + 1]]
    /\ UNCHANGED <<checkpoints, head, keys, acked, made, rekeyed, faults, Verification>>

(* appendLedgerEvent's second write, the head.  The caller gets the event  *)
(* unless an interval checkpoint is due first.                             *)
SaveHead(w) ==
    LET next == [op[w].head EXCEPT !.lastSequence = @ + 1, !.lastEvent = op[w].event]
        due == next.lastSequence % Interval = 0
    IN /\ op[w].pc = "save"
       /\ head' = next
       /\ op' = [op EXCEPT ![w] =
                   IF due THEN [pc |-> "checkpoint", head |-> next, event |-> op[w].event]
                          ELSE Idle]
       /\ acked' = IF due THEN acked ELSE acked \cup {op[w].event}
       /\ UNCHANGED <<events, checkpoints, keys, made, rekeyed, faults, Verification>>

----------------------------------------------------------------------------
(***************************************************************************)
(* Checkpoints.                                                            *)
(***************************************************************************)

FirstCheckpoint ==
    IF checkpoints = <<>> THEN {0}
    ELSE {c \in DOMAIN checkpoints :
            \A d \in DOMAIN checkpoints : checkpoints[c].sequence <= checkpoints[d].sequence}

(* getLatestCheckpoint: a record with the highest checkpointSequence (the  *)
(* query leaves open which one when two share it), 0 when there is none.   *)
getLatestCheckpoint ==
    IF checkpoints = <<>> THEN {0}
    ELSE {c \in DOMAIN checkpoints :
            \A d \in DOMAIN checkpoints : checkpoints[d].sequence <= checkpoints[c].sequence}

StartUncapped(latest, h) == IF latest = 0 THEN 1 ELSE checkpoints[latest].end + 1

startEventSequence(latest, h) ==
    IF latest = 0 THEN 1 ELSE Min({checkpoints[latest].end + 1, h.lastSequence})

(* createCheckpoint on an empty ledger throws once the head is read. *)
createCheckpoint(w) ==
    /\ runExclusive(w)
    /\ Len(checkpoints) < MaxCheckpoints
    /\ op' = [op EXCEPT ![w] = IF getLedgerHead.lastSequence = 0 THEN Idle
                               ELSE [pc |-> "checkpoint", head |-> getLedgerHead, event |-> 0]]
    /\ UNCHANGED <<Store, acked, made, rekeyed, faults, Verification>>

(* createCheckpointInternal up to the key lookup. *)
PrepareCheckpoint(w) ==
    /\ op[w].pc = "checkpoint"
    /\ \E latest \in getLatestCheckpoint :
         op' = [op EXCEPT ![w] = [pc |-> "key", head |-> op[w].head, event |-> op[w].event,
                                  latest |-> latest, key |-> getKeyEpoch(op[w].head.epoch)]]
    /\ UNCHANGED <<Store, acked, made, rekeyed, faults, Verification>>

CheckpointKey(w) ==
    /\ op[w].pc = "key"
    /\ ensureKeyEpoch(op[w].head.epoch, op[w].key)
    /\ op' = [op EXCEPT ![w].pc = "sign",
                        ![w].key = IF @ # 0 THEN @ ELSE made + 1]
    /\ UNCHANGED <<events, checkpoints, head, acked, faults, Verification>>

(* The checkpoint is signed with the pair ensureKeyEpoch returned and put. *)
PutCheckpoint(w) ==
    LET h == op[w].head
    IN /\ op[w].pc = "sign"
       /\ checkpoints' = Append(checkpoints,
            [sequence |-> h.checkpointSequence + 1,
             start |-> startEventSequence(op[w].latest, h), end |-> h.lastSequence,
             previous |-> op[w].latest,
             ledgerHead |-> h.lastEvent, epoch |-> h.epoch, key |-> op[w].key])
       /\ op' = [op EXCEPT ![w].pc = "seal", ![w].latest = Len(checkpoints) + 1]
       /\ UNCHANGED <<events, head, keys, acked, made, rekeyed, faults, Verification>>

(* saveCheckpoint's second write, the head; the operation returns. *)
SealHead(w) ==
    /\ op[w].pc = "seal"
    /\ head' = [op[w].head EXCEPT !.checkpointSequence = @ + 1,
                                  !.lastCheckpoint = op[w].latest]
    /\ acked' = IF op[w].event = 0 THEN acked ELSE acked \cup {op[w].event}
    /\ op' = [op EXCEPT ![w] = Idle]
    /\ UNCHANGED <<events, checkpoints, keys, made, rekeyed, faults, Verification>>

(***************************************************************************)
(* rotateKeyEpoch: the next epoch's key, then the head, then a checkpoint  *)
(* unless the ledger is empty.                                             *)
(***************************************************************************)
rotateKeyEpoch(w) ==
    /\ runExclusive(w)
    /\ getLedgerHead.epoch < MaxEpochs
    /\ Len(checkpoints) < MaxCheckpoints
    /\ op' = [op EXCEPT ![w] = [pc |-> "newkey", head |-> getLedgerHead,
                                key |-> getKeyEpoch(getLedgerHead.epoch + 1)]]
    /\ UNCHANGED <<Store, acked, made, rekeyed, faults, Verification>>

RotateKey(w) ==
    /\ op[w].pc = "newkey"
    /\ ensureKeyEpoch(op[w].head.epoch + 1, op[w].key)
    /\ op' = [op EXCEPT ![w].pc = "rotate"]
    /\ UNCHANGED <<events, checkpoints, head, acked, faults, Verification>>

RotateHead(w) ==
    LET next == [op[w].head EXCEPT !.epoch = @ + 1]
    IN /\ op[w].pc = "rotate"
       /\ head' = next
       /\ op' = [op EXCEPT ![w] = IF next.lastSequence = 0 THEN Idle
                                  ELSE [pc |-> "checkpoint", head |-> next, event |-> 0]]
       /\ UNCHANGED <<events, checkpoints, keys, acked, made, rekeyed, faults, Verification>>

----------------------------------------------------------------------------
(***************************************************************************)
(* Verification.                                                           *)
(***************************************************************************)
NoLater(records, a, b) ==
    \/ records[a].sequence < records[b].sequence
    \/ records[a].sequence = records[b].sequence /\ a <= b

(* The query's orderBy: the record at a position is the one with so many   *)
(* records of its set no later than itself.                                *)
bySequence(records, ids) ==
    [p \in 1..Cardinality(ids) |->
       CHOOSE a \in ids : Cardinality({b \in ids : NoLater(records, b, a)}) = p]

filterEventsByRange(listed, from, to) ==
    {i \in 1..listed : events[i].sequence \in from..to}

filterCheckpointsByRange(from, to) ==
    {c \in DOMAIN checkpoints : checkpoints[c].end >= from /\ checkpoints[c].start <= to}

(* verifyEventChain's two verdicts over the events in sequence order. *)
sequenceContiguous(es) ==
    \A i \in 2..Len(es) : events[es[i]].sequence = events[es[i - 1]].sequence + 1

hashChainValid(es) ==
    \A i \in DOMAIN es : events[es[i]].previous = IF i = 1 THEN 0 ELSE es[i - 1]

(* eventBySequence.get: the last of the listed events with that sequence. *)
EventAt(es, s) ==
    LET at == {i \in DOMAIN es : events[es[i]].sequence = s}
    IN IF at = {} THEN 0 ELSE es[Max(at)]

(* verifyCheckpointChain without the signatures. *)
checkpointChainValid(cs, es) ==
    \A i \in DOMAIN cs : LET c == checkpoints[cs[i]] IN
        /\ i > 1 => c.sequence = checkpoints[cs[i - 1]].sequence + 1
        /\ c.previous = IF i = 1 THEN 0 ELSE cs[i - 1]
        /\ EventAt(es, c.end) = c.ledgerHead

verifyCheckpointSignature(c) == keys[checkpoints[c].epoch] = checkpoints[c].key

(* findEvidenceCompletenessFindings: both codes are of severity S1. *)
EvidenceComplete(es) ==
    LET ids == Range(es)
        Of(stage) == {i \in ids : events[i].stage = stage}
    IN {events[i].ref : i \in Of("completion")} = Of("authorization")

deriveVerificationStatus(sound, complete, severities) ==
    IF ~sound \/ "S0" \in severities THEN "fail"
    ELSE IF ~complete \/ severities \cap {"S1", "S2"} # {} THEN "review"
    ELSE "pass"

(* verify's first query, with the range asked for. *)
ListEvents(from) ==
    /\ verifier = Idle
    /\ verifies < MaxVerifies
    /\ verifier' = [pc |-> "list", from |-> from, listed |-> Len(events)]
    /\ verifies' = verifies + 1
    /\ report' = Idle
    /\ UNCHANGED <<Store, op, acked, made, rekeyed, faults>>

(* Its second query, and the findings.  The key records are read with it;  *)
(* the code reads them one after the other right after it.                 *)
ListCheckpoints ==
    LET all == bySequence(events, 1..verifier.listed)
        from == IF verifier.from # 0 THEN verifier.from
                ELSE IF all = <<>> THEN 0 ELSE events[Head(all)].sequence
        to == IF all = <<>> THEN 0 ELSE events[Last(all)].sequence
        es == bySequence(events, filterEventsByRange(verifier.listed, from, to))
        cs == bySequence(checkpoints, filterCheckpointsByRange(from, to))
        chain == checkpointChainValid(cs, es)
        signed == \A c \in Range(cs) : verifyCheckpointSignature(c)
        codes == {events[i].severity : i \in Range(es)}
    IN /\ verifier.pc = "list"
       /\ verifier' =
            [pc |-> "receipt",
             report |->
               [pc |-> "done", whole |-> verifier.from = 0, to |-> to, checkpoints |-> cs,
                contiguous |-> sequenceContiguous(es), hashes |-> hashChainValid(es),
                chain |-> chain, signatures |-> signed,
                status |-> deriveVerificationStatus(
                              sequenceContiguous(es) /\ hashChainValid(es) /\ chain /\ signed,
                              EvidenceComplete(es), codes)]]
       /\ UNCHANGED <<Store, op, report, acked, made, rekeyed, faults, verifies>>

(* issueAttestationReceipt's reads. *)
ReceiptHead ==
    /\ verifier.pc = "receipt"
    /\ verifier' = [pc |-> "key", report |-> verifier.report, epoch |-> getLedgerHead.epoch,
                    key |-> getKeyEpoch(getLedgerHead.epoch)]
    /\ UNCHANGED <<Store, op, report, acked, made, rekeyed, faults, verifies>>

(* Its key, when it found none; the report is signed and put. *)
PutReport ==
    /\ verifier.pc = "key"
    /\ ensureKeyEpoch(verifier.epoch, verifier.key)
    /\ report' = verifier.report
    /\ verifier' = Idle
    /\ UNCHANGED <<events, checkpoints, head, op, acked, faults, verifies>>

----------------------------------------------------------------------------
(* A store operation of a writer throws: the operation rejects where it    *)
(* stands, and the queue goes on with the next one.                        *)
StoreFails(w) ==
    /\ op[w] # Idle
    /\ faults < MaxFaults
    /\ op' = [op EXCEPT ![w] = Idle]
    /\ faults' = faults + 1
    /\ UNCHANGED <<Store, acked, made, rekeyed, Verification>>

(* The process stops and starts again over the same store. *)
Restart ==
    /\ faults < MaxFaults
    /\ op' = [w \in Writers |-> Idle]
    /\ verifier' = Idle
    /\ faults' = faults + 1
    /\ UNCHANGED <<Store, report, acked, made, rekeyed, verifies>>

Write(w) ==
    \/ appendAuthorization(w) \/ appendCompletion(w) \/ appendInvariant(w)
    \/ PutEvent(w) \/ SaveHead(w)
    \/ createCheckpoint(w) \/ PrepareCheckpoint(w) \/ CheckpointKey(w)
    \/ PutCheckpoint(w) \/ SealHead(w)
    \/ rotateKeyEpoch(w) \/ RotateKey(w) \/ RotateHead(w)
    \/ StoreFails(w)

Next ==
    \/ \E w \in Writers : Write(w)
    \/ \E from \in Ranges : ListEvents(from)
    \/ ListCheckpoints \/ ReceiptHead \/ PutReport
    \/ Restart

Spec == Init /\ [][Next]_vars

----------------------------------------------------------------------------
(* The events of es reached from event i by following previousEventHash:   *)
(* the smallest set that i and the links lead into and not out of.         *)
HoldsChain(es, i, S) == {i} \cup {es[j].previous : j \in S} \subseteq S \cup {0}
ChainTo(es, i) ==
    {j \in DOMAIN es : \A S \in SUBSET DOMAIN es : HoldsChain(es, i, S) => j \in S}

LedgerChain == ChainTo(events, head.lastEvent)

(* An append that returned to its caller is on the chain the head ends,    *)
(* and that chain numbers its events 1 to lastSequence without a gap,      *)
(* whatever restarts and failed writes fell between the put of an event    *)
(* and the save of the head (appendLedgerEvent).                           *)
AcknowledgedOnChain ==
    /\ acked \subseteq LedgerChain
    /\ {events[i].sequence : i \in LedgerChain} = 1..Cardinality(LedgerChain)
    /\ head.lastSequence = Cardinality(LedgerChain)

(* Every checkpoint that was ever put closes with an event of the chain,   *)
(* and the checkpoints leave no event before it unsealed, although a       *)
(* restart between the put of a checkpoint and the save of the head makes  *)
(* the next one reuse its sequence number (createCheckpointInternal).      *)
CheckpointsSealChain ==
    \A c \in Range(checkpoints) :
        /\ c.ledgerHead \in LedgerChain
        /\ events[c.ledgerHead].sequence = c.end
        /\ c.start \in 1..c.end
        /\ \A s \in 1..c.end : \E d \in Range(checkpoints) : s \in d.start..d.end

(* While no store operation failed, verify of the whole ledger finds the   *)
(* events contiguous and linked at whatever step of a writer it lists      *)
(* them; it reports a broken checkpoint chain exactly when a checkpoint    *)
(* put between its two queries reaches past the events it listed, and a    *)
(* bad signature only when two creators of a key epoch overlapped.         *)
VerifyIsExact ==
    (report # Idle /\ report.whole /\ faults = 0) =>
        /\ report.contiguous /\ report.hashes
        /\ report.chain = ~\E i \in DOMAIN report.checkpoints :
                             checkpoints[report.checkpoints[i]].end > report.to
        /\ ~rekeyed => report.signatures
=============================================================================
