----------------------------- MODULE WitnessProofs -----------------------------
(***************************************************************************)
(* Proofs about the witness ledger, for any number of writers, any         *)
(* checkpoint interval and any restarts and failed store operations.       *)
(* WitnessInv says that the queued operation works on the head as it is in *)
(* the store: that is what runExclusive buys, and what makes the event a   *)
(* writer has put the only one that can extend the chain.  RegularInv adds *)
(* what holds while no store operation has failed: records are numbered by *)
(* the order of their puts, so a verification that falls between two steps *)
(* of a writer lists a prefix of each collection.                          *)
(***************************************************************************)
EXTENDS WitnessLedger, FiniteSetTheorems, TLAPS

Event == [sequence : Nat, previous : Nat,
          stage : {"authorization", "completion", "invariant"}, ref : Nat,
          severity : {"none", "S0", "S1", "S2"}]
Checkpoint == [sequence : Nat, start : Nat, end : Nat, previous : Nat, ledgerHead : Nat,
               epoch : Nat, key : Nat]
LedgerHead == [lastSequence : Nat, lastEvent : Nat, lastCheckpoint : Nat,
               checkpointSequence : Nat, epoch : 1 .. MaxEpochs + 1]

AppendOp == [pc : {"put"}, head : LedgerHead,
             stage : {"authorization", "completion", "invariant"}, ref : Nat,
             severity : {"none", "S0", "S1", "S2"}]
EventOp == [pc : {"save", "checkpoint"}, head : LedgerHead, event : Nat]
SealOp == [pc : {"key", "sign", "seal"}, head : LedgerHead, event : Nat, latest : Nat,
           key : Nat]
RotateOp == [pc : {"newkey", "rotate"}, head : LedgerHead, key : Nat]
Operation == {Idle} \cup AppendOp \cup EventOp \cup SealOp \cup RotateOp

WitnessTypes ==
  /\ events \in Seq(Event)
  /\ checkpoints \in Seq(Checkpoint)
  /\ head \in LedgerHead
  /\ keys \in [1 .. MaxEpochs + 1 -> Nat]
  /\ made \in Nat
  /\ op \in [Writers -> Operation]
  /\ acked \subseteq Nat

\* What the operation in the queue read before its awaits is still so.
WorkInv(o) ==
  /\ o.head = head
  /\ o.pc = "save" => /\ o.event = Len(events) /\ o.event # 0
                      /\ events[o.event].sequence = head.lastSequence + 1
                      /\ events[o.event].previous = head.lastEvent
  /\ o.pc \in {"checkpoint", "key", "sign", "seal"} =>
       head.lastSequence # 0 /\ o.event \in {0, head.lastEvent}
  /\ o.pc \in {"key", "sign"} => o.latest \in 0 .. Len(checkpoints)
  /\ o.pc \in {"newkey", "rotate"} => head.epoch < MaxEpochs

QueueInv ==
  /\ \A w, x \in Writers : op[w] # Idle /\ op[x] # Idle => w = x
  /\ \A w \in Writers : op[w] # Idle => WorkInv(op[w])

\* An event links to an earlier one, and the head to the event it counts.
Linked(es) == \A i \in DOMAIN es : es[i].previous < i

ChainInv ==
  /\ Linked(events)
  /\ head.lastEvent \in 0 .. Len(events)
  /\ head.lastEvent = 0 <=> head.lastSequence = 0
  /\ head.lastEvent # 0 => events[head.lastEvent].sequence = head.lastSequence
  /\ AcknowledgedOnChain

WitnessInv == WitnessTypes /\ QueueInv /\ ChainInv /\ CheckpointsSealChain

--------------------------------------------------------------------------------
(* The chain of an event.                                                      *)

\* An event links to an earlier one, or to none.
LEMMA LinkType ==
  ASSUME NEW es \in Seq(Event), Linked(es), NEW j \in DOMAIN es
  PROVE  j \in 1 .. Len(es) /\ es[j].previous \in 0 .. j - 1
  <1>1. j \in 1 .. Len(es) /\ es[j] \in Event
    OBVIOUS
  <1>2. es[j].previous \in Nat
    BY <1>1 DEF Event
  <1>3. es[j].previous < j
    BY DEF Linked
  <1> QED BY <1>1, <1>2, <1>3

\* The chain of no event is empty.
LEMMA ChainOfNone ==
  ASSUME NEW es \in Seq(Event)
  PROVE  ChainTo(es, 0) = {}
  <1>1. HoldsChain(es, 0, {}) /\ {} \in SUBSET DOMAIN es
    BY DEF HoldsChain
  <1> QED BY <1>1 DEF ChainTo

\* The chain of an event holds no later event.
LEMMA ChainBelow ==
  ASSUME NEW es \in Seq(Event), Linked(es), NEW i \in 0 .. Len(es)
  PROVE  ChainTo(es, i) \subseteq 1 .. i
  <1>1. 1 .. i \in SUBSET DOMAIN es
    OBVIOUS
  <1>2. \A j \in 1 .. i : es[j].previous \in 1 .. i \cup {0}
    BY LinkType
  <1>3. HoldsChain(es, i, 1 .. i)
    BY <1>2 DEF HoldsChain
  <1> QED BY <1>1, <1>3 DEF ChainTo

\* It is the event and the chain of the event it links to.
LEMMA ChainStep ==
  ASSUME NEW es \in Seq(Event), Linked(es), NEW i \in 1 .. Len(es)
  PROVE  ChainTo(es, i) = {i} \cup ChainTo(es, es[i].previous)
  <1> DEFINE p == es[i].previous
             C == {i} \cup ChainTo(es, p)
  <1>1. C \in SUBSET DOMAIN es
    BY DEF ChainTo
  <1>2. p \in 0 .. Len(es) /\ p < i
    BY LinkType
  <1>3. ASSUME NEW j \in C
        PROVE  es[j].previous \in C \cup {0}
    <2>1. CASE j = i
      <3>1. CASE p = 0 BY <2>1, <3>1
      <3>2. CASE p # 0
        <4>1. p \in DOMAIN es BY <1>2, <3>2
        <4>2. \A S \in SUBSET DOMAIN es : HoldsChain(es, p, S) => p \in S
          BY <3>2 DEF HoldsChain
        <4> QED BY <2>1, <4>1, <4>2 DEF ChainTo
      <3> QED BY <3>1, <3>2
    <2>2. CASE j # i
      <3>1. j \in DOMAIN es
        BY <1>1
      <3>2. CASE es[j].previous = 0 BY <3>2
      <3>3. CASE es[j].previous # 0
        <4>1. es[j].previous \in DOMAIN es
          <5>1. DOMAIN es = 1 .. Len(es) /\ Len(es) \in Nat
            OBVIOUS
          <5>2. j \in 1 .. Len(es)
            BY <3>1, <5>1
          <5>3. es[j].previous \in 0 .. Len(es)
            BY <5>2, LinkType
          <5> QED BY <3>3, <5>1, <5>3
        <4>2. ASSUME NEW S \in SUBSET DOMAIN es, HoldsChain(es, p, S)
              PROVE  es[j].previous \in S
          <5>1. j \in S BY <2>2, <4>2 DEF ChainTo
          <5> QED BY <3>3, <4>2, <5>1 DEF HoldsChain
        <4> QED BY <4>1, <4>2 DEF ChainTo
      <3> QED BY <3>2, <3>3
    <2> QED BY <2>1, <2>2
  <1>4. HoldsChain(es, i, C)
    BY <1>3 DEF HoldsChain
  <1>5. ChainTo(es, i) \subseteq C
    BY <1>1, <1>4 DEF ChainTo
  <1>6. ASSUME NEW j \in C, NEW S \in SUBSET DOMAIN es, HoldsChain(es, i, S)
        PROVE  j \in S
    <2>1. i \in S
      BY <1>6 DEF HoldsChain
    <2>2. HoldsChain(es, p, S)
      BY <1>6, <2>1 DEF HoldsChain
    <2> QED BY <2>1, <2>2 DEF ChainTo
  <1>7. C \subseteq ChainTo(es, i)
    BY <1>1, <1>6 DEF ChainTo
  <1> QED BY <1>5, <1>7

\* A later event leaves the chain of an earlier one as it is.
LEMMA ChainOfPrefix ==
  ASSUME NEW es \in Seq(Event), Linked(es), NEW e \in Event, NEW i \in 0 .. Len(es)
  PROVE  ChainTo(Append(es, e), i) = ChainTo(es, i)
  <1>1. PICK fs : fs = Append(es, e)
    OBVIOUS
  <1>2. DOMAIN es \subseteq DOMAIN fs /\ \A j \in DOMAIN es : fs[j] = es[j]
    BY <1>1
  <1>3. \A j \in DOMAIN es : es[j].previous \in DOMAIN es \cup {0}
    BY LinkType
  <1>4. HoldsChain(fs, i, DOMAIN es)
    BY <1>2, <1>3 DEF HoldsChain
  <1>5. ChainTo(fs, i) \subseteq DOMAIN es
    BY <1>2, <1>4 DEF ChainTo
  <1>6. ASSUME NEW S \in SUBSET DOMAIN es, HoldsChain(es, i, S)
        PROVE  S \in SUBSET DOMAIN fs /\ HoldsChain(fs, i, S)
    BY <1>2, <1>6 DEF HoldsChain
  <1>7. ChainTo(fs, i) \subseteq ChainTo(es, i)
    BY <1>5, <1>6 DEF ChainTo
  <1>8. ASSUME NEW S \in SUBSET DOMAIN fs, HoldsChain(fs, i, S)
        PROVE  HoldsChain(es, i, S \cap DOMAIN es)
    <2>1. i \in (S \cap DOMAIN es) \cup {0}
      BY <1>8 DEF HoldsChain
    <2>2. ASSUME NEW j \in S \cap DOMAIN es
          PROVE  es[j].previous \in (S \cap DOMAIN es) \cup {0}
      <3>1. fs[j].previous \in S \cup {0}
        BY <1>8 DEF HoldsChain
      <3> QED BY <1>2, <1>3, <3>1
    <2> QED BY <2>1, <2>2 DEF HoldsChain
  <1>9. ASSUME NEW j \in ChainTo(es, i), NEW S \in SUBSET DOMAIN fs, HoldsChain(fs, i, S)
        PROVE  j \in S
    <2>1. S \cap DOMAIN es \in SUBSET DOMAIN es
      OBVIOUS
    <2> QED BY <1>8, <1>9, <2>1 DEF ChainTo
  <1>10. ChainTo(es, i) \subseteq ChainTo(fs, i)
    BY <1>2, <1>9 DEF ChainTo
  <1> QED BY <1>1, <1>7, <1>10

--------------------------------------------------------------------------------
(* Operations.                                                                 *)

\* The step an operation stands at tells what it carries.
LEMMA OperationKinds ==
  ASSUME NEW o \in Operation
  PROVE  /\ o # Idle <=> o.pc # "idle"
         /\ o.pc = "put" => o \in AppendOp
         /\ o.pc \in {"save", "checkpoint"} => o \in EventOp
         /\ o.pc \in {"key", "sign", "seal"} => o \in SealOp
         /\ o.pc \in {"newkey", "rotate"} => o \in RotateOp
         /\ o # Idle => o.head \in LedgerHead
  BY DEF Operation, Idle, AppendOp, EventOp, SealOp, RotateOp

\* While a writer's operation runs, every other one waits in the queue.
LEMMA OneAtATime ==
  ASSUME QueueInv, NEW w \in Writers, op[w] # Idle
  PROVE  \A x \in Writers \ {w} : op[x] = Idle
  BY DEF QueueInv

\* The operation that runs takes a step and leaves a state it can go on from.
LEMMA OperationStep ==
  ASSUME WitnessTypes, NEW w \in Writers, \A x \in Writers \ {w} : op[x] = Idle,
         NEW o \in Operation, op' = [op EXCEPT ![w] = o],
         o # Idle => WorkInv(o)'
  PROVE  op' \in [Writers -> Operation] /\ QueueInv'
  <1>1. op' \in [Writers -> Operation]
    BY DEF WitnessTypes
  <1>2. op'[w] = o /\ \A x \in Writers \ {w} : op'[x] = Idle
    BY DEF WitnessTypes
  <1>3. ASSUME NEW x \in Writers, op'[x] # Idle
        PROVE  x = w /\ WorkInv(op[x])'
    <2>1. x = w BY <1>2, <1>3
    <2>2. op'[x] = o /\ o # Idle BY <1>2, <1>3, <2>1
    <2> QED BY <2>1, <2>2 DEF WorkInv
  <1> QED BY <1>1, <1>3 DEF QueueInv

\* The chain and its seals depend on the events, the checkpoints, the event the
\* head names, and the acknowledgements alone.
LEMMA ChainKept ==
  ASSUME ChainInv, CheckpointsSealChain, UNCHANGED <<events, checkpoints, acked>>,
         head'.lastEvent = head.lastEvent, head'.lastSequence = head.lastSequence
  PROVE  ChainInv' /\ CheckpointsSealChain'
  <1>1. LedgerChain' = LedgerChain
    BY DEF LedgerChain, ChainTo, HoldsChain
  <1> QED BY <1>1 DEF ChainInv, AcknowledgedOnChain, CheckpointsSealChain, Linked, Range

\* Facts about the chain the head ends.
LEMMA LedgerChainFacts ==
  ASSUME WitnessTypes, ChainInv
  PROVE  /\ LedgerChain \subseteq 1 .. head.lastEvent
         /\ LedgerChain \subseteq DOMAIN events
         /\ IsFiniteSet(LedgerChain) /\ Cardinality(LedgerChain) \in Nat
         /\ head.lastEvent # 0 => head.lastEvent \in LedgerChain
  <1>1. events \in Seq(Event) /\ Linked(events) /\ head.lastEvent \in 0 .. Len(events)
    BY DEF WitnessTypes, ChainInv
  <1>2. LedgerChain \subseteq 1 .. head.lastEvent
    BY <1>1, ChainBelow DEF LedgerChain
  <1>3. LedgerChain \subseteq DOMAIN events
    BY DEF LedgerChain, ChainTo
  <1>4. IsFiniteSet(1 .. head.lastEvent)
    BY <1>1, FS_Interval
  <1>5. IsFiniteSet(LedgerChain)
    BY <1>2, <1>4, FS_Subset
  <1>6. ASSUME head.lastEvent # 0
        PROVE  head.lastEvent \in LedgerChain
    BY <1>1, <1>6, ChainStep DEF LedgerChain
  <1> QED BY <1>2, <1>3, <1>5, <1>6, FS_CardinalityType

LEMMA InitInv == Init => WitnessInv
  <1> SUFFICES ASSUME Init PROVE WitnessInv
    OBVIOUS
  <1>1. WitnessTypes
    <2>1. head \in LedgerHead
      BY LedgerAssumption DEF Init, FreshHead, LedgerHead
    <2>2. op \in [Writers -> Operation]
      BY DEF Init, Operation
    <2> QED BY <2>1, <2>2, LedgerAssumption DEF Init, WitnessTypes
  <1>2. QueueInv
    BY DEF Init, QueueInv
  <1>3. LedgerChain = {}
    BY <1>1, ChainOfNone DEF Init, FreshHead, LedgerChain, WitnessTypes
  <1>4. Cardinality({}) = 0
    BY FS_EmptySet
  <1>5. ChainInv
    <2>1. AcknowledgedOnChain
      BY <1>3, <1>4 DEF Init, FreshHead, AcknowledgedOnChain
    <2> QED BY <2>1 DEF Init, FreshHead, ChainInv, Linked
  <1>6. CheckpointsSealChain
    BY DEF Init, CheckpointsSealChain, Range
  <1> QED BY <1>1, <1>2, <1>5, <1>6 DEF WitnessInv

--------------------------------------------------------------------------------
(* The steps that write to no collection.                                      *)

\* The key store keeps its type whoever makes a key.
LEMMA KeysStep ==
  ASSUME WitnessTypes, NEW e, NEW found, ensureKeyEpoch(e, found)
  PROVE  keys' \in [1 .. MaxEpochs + 1 -> Nat] /\ made' \in Nat
  BY DEF WitnessTypes, ensureKeyEpoch, KeyStore

\* A step of the operation that runs, before it writes to the ledger.
LEMMA ReadStep ==
  ASSUME WitnessInv, NEW w \in Writers, \A x \in Writers \ {w} : op[x] = Idle,
         NEW o \in Operation, op' = [op EXCEPT ![w] = o], o # Idle => WorkInv(o),
         UNCHANGED <<events, checkpoints, head, acked>>,
         keys' \in [1 .. MaxEpochs + 1 -> Nat], made' \in Nat
  PROVE  WitnessInv'
  <1>1. o # Idle => WorkInv(o)'
    BY DEF WorkInv
  <1>2. op' \in [Writers -> Operation] /\ QueueInv'
    BY <1>1, OperationStep DEF WitnessInv
  <1>3. ChainInv' /\ CheckpointsSealChain'
    BY ChainKept DEF WitnessInv
  <1> QED BY <1>2, <1>3 DEF WitnessInv, WitnessTypes

LEMMA BeginAppendStep ==
  ASSUME WitnessInv, NEW w \in Writers,
         NEW stage \in {"authorization", "completion", "invariant"}, NEW ref \in Nat,
         NEW severity \in {"none", "S0", "S1", "S2"},
         BeginAppend(w, stage, ref, severity)
  PROVE  WitnessInv'
  <1>1. PICK o : o = [pc |-> "put", head |-> head, stage |-> stage, ref |-> ref,
                      severity |-> severity]
    OBVIOUS
  <1>2. o \in Operation /\ o.pc = "put" /\ o.head = head
    BY <1>1 DEF WitnessInv, WitnessTypes, Operation, AppendOp
  <1>3. WorkInv(o)
    BY <1>2 DEF WorkInv
  <1>4. op' = [op EXCEPT ![w] = o]
    BY <1>1 DEF BeginAppend, getLedgerHead
  <1>5. \A x \in Writers \ {w} : op[x] = Idle
    BY DEF BeginAppend, runExclusive
  <1>6. UNCHANGED <<events, checkpoints, head, acked, keys, made>>
    BY DEF BeginAppend, Store
  <1> QED BY <1>2, <1>3, <1>4, <1>5, <1>6, ReadStep DEF WitnessInv, WitnessTypes

LEMMA AppendStep ==
  ASSUME WitnessInv, NEW w \in Writers,
         appendAuthorization(w) \/ appendCompletion(w) \/ appendInvariant(w)
  PROVE  WitnessInv'
  <1>1. CASE appendAuthorization(w)
    BY <1>1, BeginAppendStep DEF appendAuthorization
  <1>2. CASE appendCompletion(w)
    <2>1. PICK ref \in acked : BeginAppend(w, "completion", ref, "none")
      BY <1>2 DEF appendCompletion
    <2>2. ref \in Nat
      BY DEF WitnessInv, WitnessTypes
    <2> QED BY <2>1, <2>2, BeginAppendStep
  <1>3. CASE appendInvariant(w)
    <2>1. PICK s \in Severity : BeginAppend(w, "invariant", 0, s)
      BY <1>3 DEF appendInvariant
    <2>2. s \in {"none", "S0", "S1", "S2"}
      BY LedgerAssumption
    <2> QED BY <2>1, <2>2, BeginAppendStep
  <1> QED BY <1>1, <1>2, <1>3

LEMMA CreateCheckpointStep ==
  ASSUME WitnessInv, NEW w \in Writers, createCheckpoint(w)
  PROVE  WitnessInv'
  <1>1. PICK o : o = IF head.lastSequence = 0 THEN Idle
                     ELSE [pc |-> "checkpoint", head |-> head, event |-> 0]
    OBVIOUS
  <1>2. o \in Operation
    BY <1>1 DEF WitnessInv, WitnessTypes, Operation, EventOp
  <1>3. o # Idle => WorkInv(o)
    BY <1>1 DEF WorkInv
  <1>4. op' = [op EXCEPT ![w] = o]
    BY <1>1 DEF createCheckpoint, getLedgerHead
  <1>5. \A x \in Writers \ {w} : op[x] = Idle
    BY DEF createCheckpoint, runExclusive
  <1>6. UNCHANGED <<events, checkpoints, head, acked, keys, made>>
    BY DEF createCheckpoint, Store
  <1> QED BY <1>2, <1>3, <1>4, <1>5, <1>6, ReadStep DEF WitnessInv, WitnessTypes

LEMMA RotateKeyEpochStep ==
  ASSUME WitnessInv, NEW w \in Writers, rotateKeyEpoch(w)
  PROVE  WitnessInv'
  <1>1. PICK o : o = [pc |-> "newkey", head |-> head, key |-> keys[head.epoch + 1]]
    OBVIOUS
  <1>2. head.epoch < MaxEpochs /\ head.epoch \in 1 .. MaxEpochs + 1 /\ MaxEpochs \in Nat
    BY LedgerAssumption DEF WitnessInv, WitnessTypes, LedgerHead, rotateKeyEpoch, getLedgerHead
  <1>3. keys[head.epoch + 1] \in Nat
    BY <1>2 DEF WitnessInv, WitnessTypes
  <1>4. o \in Operation
    BY <1>1, <1>3 DEF WitnessInv, WitnessTypes, Operation, RotateOp
  <1>5. WorkInv(o)
    BY <1>1, <1>2 DEF WorkInv
  <1>6. op' = [op EXCEPT ![w] = o]
    BY <1>1 DEF rotateKeyEpoch, getLedgerHead, getKeyEpoch
  <1>7. \A x \in Writers \ {w} : op[x] = Idle
    BY DEF rotateKeyEpoch, runExclusive
  <1>8. UNCHANGED <<events, checkpoints, head, acked, keys, made>>
    BY DEF rotateKeyEpoch, Store
  <1> QED BY <1>4, <1>5, <1>6, <1>7, <1>8, ReadStep DEF WitnessInv, WitnessTypes

\* What holds of the operation that runs.
LEMMA RunningFacts ==
  ASSUME WitnessInv, NEW w \in Writers, op[w].pc # "idle"
  PROVE  /\ op[w] \in Operation /\ op[w] # Idle
         /\ WorkInv(op[w]) /\ op[w].head = head
         /\ \A x \in Writers \ {w} : op[x] = Idle
  <1>1. op[w] \in Operation
    BY DEF WitnessInv, WitnessTypes
  <1>2. op[w] # Idle
    BY DEF Idle
  <1>3. WorkInv(op[w])
    BY <1>2 DEF WitnessInv, QueueInv
  <1>4. op[w].head = head
    BY <1>3 DEF WorkInv
  <1> QED BY <1>1, <1>2, <1>3, <1>4, OneAtATime DEF WitnessInv

LEMMA PrepareStep ==
  ASSUME WitnessInv, NEW w \in Writers, PrepareCheckpoint(w)
  PROVE  WitnessInv'
  <1>1. op[w].pc = "checkpoint"
    BY DEF PrepareCheckpoint
  <1>2. op[w] \in EventOp /\ op[w].event \in Nat
    BY <1>1, RunningFacts, OperationKinds DEF EventOp
  <1>3. PICK latest \in getLatestCheckpoint :
          op' = [op EXCEPT ![w] = [pc |-> "key", head |-> op[w].head, event |-> op[w].event,
                                   latest |-> latest, key |-> getKeyEpoch(op[w].head.epoch)]]
    BY DEF PrepareCheckpoint
  <1>4. latest \in 0 .. Len(checkpoints)
    BY DEF getLatestCheckpoint, WitnessInv, WitnessTypes
  <1>5. keys[head.epoch] \in Nat
    BY DEF WitnessInv, WitnessTypes, LedgerHead
  <1>6. PICK o : o = [pc |-> "key", head |-> head, event |-> op[w].event,
                      latest |-> latest, key |-> keys[head.epoch]]
    OBVIOUS
  <1>7. o \in Operation
    BY <1>2, <1>4, <1>5, <1>6 DEF WitnessInv, WitnessTypes, Operation, SealOp
  <1>8. WorkInv(o)
    BY <1>1, <1>4, <1>6, RunningFacts DEF WorkInv
  <1>9. op' = [op EXCEPT ![w] = o]
    BY <1>1, <1>3, <1>6, RunningFacts DEF getKeyEpoch
  <1>10. UNCHANGED <<events, checkpoints, head, acked, keys, made>>
    BY DEF PrepareCheckpoint, Store
  <1> QED BY <1>1, <1>7, <1>8, <1>9, <1>10, RunningFacts, ReadStep DEF WitnessInv, WitnessTypes

LEMMA CheckpointKeyStep ==
  ASSUME WitnessInv, NEW w \in Writers, CheckpointKey(w)
  PROVE  WitnessInv'
  <1>1. op[w].pc = "key"
    BY DEF CheckpointKey
  <1>2. op[w] \in SealOp
    BY <1>1, RunningFacts, OperationKinds
  <1>3. PICK k : k = IF op[w].key # 0 THEN op[w].key ELSE made + 1
    OBVIOUS
  <1>4. k \in Nat
    BY <1>2, <1>3 DEF SealOp, WitnessInv, WitnessTypes
  <1>5. PICK o : o = [op[w] EXCEPT !.pc = "sign", !.key = k]
    OBVIOUS
  <1>6. /\ o \in SealOp /\ o.pc = "sign"
        /\ o.head = op[w].head /\ o.event = op[w].event /\ o.latest = op[w].latest
    BY <1>2, <1>4, <1>5 DEF SealOp
  <1>7. o \in Operation
    BY <1>6 DEF Operation
  <1>8. WorkInv(o)
    BY <1>1, <1>6, RunningFacts DEF WorkInv
  <1>9. op' = [op EXCEPT ![w] = o]
    BY <1>3, <1>5 DEF CheckpointKey, WitnessInv, WitnessTypes
  <1>10. UNCHANGED <<events, checkpoints, head, acked>>
    BY DEF CheckpointKey
  <1>11. keys' \in [1 .. MaxEpochs + 1 -> Nat] /\ made' \in Nat
    BY KeysStep DEF CheckpointKey, WitnessInv
  <1> QED BY <1>1, <1>7, <1>8, <1>9, <1>10, <1>11, RunningFacts, ReadStep

LEMMA RotateKeyStep ==
  ASSUME WitnessInv, NEW w \in Writers, RotateKey(w)
  PROVE  WitnessInv'
  <1>1. op[w].pc = "newkey"
    BY DEF RotateKey
  <1>2. op[w] \in RotateOp
    BY <1>1, RunningFacts, OperationKinds
  <1>3. PICK o : o = [op[w] EXCEPT !.pc = "rotate"]
    OBVIOUS
  <1>4. o \in RotateOp /\ o.pc = "rotate" /\ o.head = op[w].head
    BY <1>2, <1>3 DEF RotateOp
  <1>5. o \in Operation
    BY <1>4 DEF Operation
  <1>6. WorkInv(o)
    BY <1>1, <1>4, RunningFacts DEF WorkInv
  <1>7. op' = [op EXCEPT ![w] = o]
    BY <1>3 DEF RotateKey
  <1>8. UNCHANGED <<events, checkpoints, head, acked>>
    BY DEF RotateKey
  <1>9. keys' \in [1 .. MaxEpochs + 1 -> Nat] /\ made' \in Nat
    BY KeysStep DEF RotateKey, WitnessInv
  <1> QED BY <1>1, <1>5, <1>6, <1>7, <1>8, <1>9, RunningFacts, ReadStep

\* A store operation that throws, and a restart, drop the operation where it stands.
LEMMA StoreFailsStep ==
  ASSUME WitnessInv, NEW w \in Writers, StoreFails(w)
  PROVE  WitnessInv'
  <1>1. \A x \in Writers \ {w} : op[x] = Idle
    BY OneAtATime DEF StoreFails, WitnessInv
  <1>2. Idle \in Operation
    BY DEF Operation
  <1>3. UNCHANGED <<events, checkpoints, head, acked, keys, made>>
    BY DEF StoreFails, Store
  <1> QED BY <1>1, <1>2, <1>3, ReadStep DEF StoreFails, WitnessInv, WitnessTypes

LEMMA RestartStep ==
  ASSUME WitnessInv, Restart
  PROVE  WitnessInv'
  <1>1. op' \in [Writers -> Operation] /\ \A w \in Writers : op'[w] = Idle
    BY DEF Restart, Operation
  <1>2. UNCHANGED <<events, checkpoints, head, acked, keys, made>>
    BY DEF Restart, Store
  <1>3. QueueInv'
    BY <1>1 DEF QueueInv
  <1>4. ChainInv' /\ CheckpointsSealChain'
    BY <1>2, ChainKept DEF WitnessInv
  <1> QED BY <1>1, <1>2, <1>3, <1>4 DEF WitnessInv, WitnessTypes

\* A verification reads the ledger and may make a key, and leaves the rest alone.
LEMMA VerifyStep ==
  ASSUME WitnessInv,
         (\E from \in Ranges : ListEvents(from)) \/ ListCheckpoints \/ ReceiptHead \/ PutReport
  PROVE  WitnessInv'
  <1>1. UNCHANGED <<events, checkpoints, head, acked, op>>
    BY DEF ListEvents, ListCheckpoints, ReceiptHead, PutReport, Store
  <1>2. keys' \in [1 .. MaxEpochs + 1 -> Nat] /\ made' \in Nat
    <2>1. CASE PutReport
      BY <2>1, KeysStep DEF PutReport, WitnessInv
    <2>2. CASE ~PutReport
      BY <2>2 DEF ListEvents, ListCheckpoints, ReceiptHead, Store, WitnessInv, WitnessTypes
    <2> QED BY <2>1, <2>2
  <1>3. QueueInv'
    BY <1>1 DEF WitnessInv, QueueInv, WorkInv
  <1>4. ChainInv' /\ CheckpointsSealChain'
    BY <1>1, ChainKept DEF WitnessInv
  <1> QED BY <1>1, <1>2, <1>3, <1>4 DEF WitnessInv, WitnessTypes

--------------------------------------------------------------------------------
(* The steps that write to the ledger.                                         *)

\* An event that is put and not yet saved in the head is on no chain.
LEMMA PutEventStep ==
  ASSUME WitnessInv, NEW w \in Writers, PutEvent(w)
  PROVE  WitnessInv'
  <1>1. op[w].pc = "put"
    BY DEF PutEvent
  <1>2. op[w] \in AppendOp /\ op[w].head = head
    BY <1>1, RunningFacts, OperationKinds
  <1>3. PICK e : e = [sequence |-> head.lastSequence + 1, previous |-> head.lastEvent,
                      stage |-> op[w].stage, ref |-> op[w].ref, severity |-> op[w].severity]
    OBVIOUS
  <1>4. events \in Seq(Event) /\ head \in LedgerHead /\ Linked(events)
    BY DEF WitnessInv, WitnessTypes, ChainInv
  <1>5. e \in Event /\ e.previous = head.lastEvent /\ e.sequence = head.lastSequence + 1
    BY <1>2, <1>3, <1>4 DEF AppendOp, Event, LedgerHead
  <1>6. events' = Append(events, e)
    BY <1>2, <1>3 DEF PutEvent
  <1>7. UNCHANGED <<checkpoints, head, keys, made, acked>>
    BY DEF PutEvent
  <1>8. /\ events' \in Seq(Event) /\ Len(events') = Len(events) + 1
        /\ events'[Len(events) + 1] = e /\ \A i \in DOMAIN events : events'[i] = events[i]
        /\ DOMAIN events' = 1 .. Len(events) + 1 /\ Len(events) \in Nat
    BY <1>4, <1>5, <1>6
  <1>9. head.lastEvent \in 0 .. Len(events)
    BY DEF WitnessInv, ChainInv
  <1>10. QueueInv' /\ op' \in [Writers -> Operation]
    <2>1. PICK o : o = [pc |-> "save", head |-> head, event |-> Len(events) + 1]
      OBVIOUS
    <2>2. o \in Operation
      BY <1>4, <1>8, <2>1 DEF Operation, EventOp
    <2>3. WorkInv(o)'
      BY <1>5, <1>7, <1>8, <2>1 DEF WorkInv
    <2>4. op' = [op EXCEPT ![w] = o]
      BY <1>2, <2>1 DEF PutEvent
    <2> QED BY <1>1, <2>2, <2>3, <2>4, RunningFacts, OperationStep DEF WitnessInv
  <1>11. Linked(events')
    <2> SUFFICES ASSUME NEW i \in DOMAIN events' PROVE events'[i].previous < i
      BY DEF Linked
    <2>1. CASE i = Len(events) + 1
      BY <1>5, <1>8, <1>9, <2>1
    <2>2. CASE i # Len(events) + 1
      <3>1. i \in DOMAIN events BY <1>4, <1>8, <2>2
      <3> QED BY <1>4, <1>8, <3>1 DEF Linked
    <2> QED BY <2>1, <2>2
  <1>12. LedgerChain' = LedgerChain
    BY <1>4, <1>5, <1>6, <1>7, <1>9, ChainOfPrefix DEF LedgerChain
  <1>13. LedgerChain \subseteq DOMAIN events
    BY LedgerChainFacts DEF WitnessInv
  <1>14. \A i \in LedgerChain : events'[i] = events[i]
    BY <1>8, <1>13
  <1>15. AcknowledgedOnChain'
    <2>1. AcknowledgedOnChain
      BY DEF WitnessInv, ChainInv
    <2>2. {events'[i].sequence : i \in LedgerChain} = {events[i].sequence : i \in LedgerChain}
      BY <1>14
    <2> QED BY <1>7, <1>12, <2>1, <2>2 DEF AcknowledgedOnChain
  <1>16. ChainInv'
    <2>1. head.lastEvent # 0 => events'[head.lastEvent] = events[head.lastEvent]
      BY <1>4, <1>8, <1>9
    <2> QED BY <1>7, <1>8, <1>9, <1>11, <1>15, <2>1 DEF WitnessInv, ChainInv
  <1>17. CheckpointsSealChain'
    BY <1>7, <1>12, <1>14 DEF WitnessInv, CheckpointsSealChain
  <1> QED BY <1>7, <1>8, <1>10, <1>16, <1>17 DEF WitnessInv, WitnessTypes

\* Saving the head puts exactly the event of this operation on the chain.
LEMMA SaveHeadStep ==
  ASSUME WitnessInv, NEW w \in Writers, SaveHead(w)
  PROVE  WitnessInv'
  <1>1. op[w].pc = "save"
    BY DEF SaveHead
  <1>2. op[w] \in EventOp /\ op[w].head = head /\ WorkInv(op[w])
    BY <1>1, RunningFacts, OperationKinds
  <1>3. PICK n : n = op[w].event
    OBVIOUS
  <1>4. /\ events \in Seq(Event) /\ head \in LedgerHead /\ Linked(events)
        /\ head.lastEvent \in 0 .. Len(events) /\ head.lastSequence \in Nat
    BY DEF WitnessInv, WitnessTypes, ChainInv, LedgerHead
  <1>5. /\ n \in 1 .. Len(events) /\ events[n].sequence = head.lastSequence + 1
        /\ events[n].previous = head.lastEvent
    BY <1>1, <1>2, <1>3, <1>4 DEF WorkInv
  <1>6. PICK h : h = [head EXCEPT !.lastSequence = head.lastSequence + 1, !.lastEvent = n]
    OBVIOUS
  <1>7. h \in LedgerHead /\ h.lastSequence = head.lastSequence + 1 /\ h.lastEvent = n
    <2>1. n \in Nat /\ head.lastSequence + 1 \in Nat
      BY <1>4, <1>5
    <2> QED BY <1>4, <1>6, <2>1 DEF LedgerHead
  <1>8. head' = h
    BY <1>2, <1>3, <1>4, <1>6 DEF SaveHead
  <1>9. UNCHANGED <<events, checkpoints, keys, made>>
    BY DEF SaveHead
  <1>10. QueueInv' /\ op' \in [Writers -> Operation]
    <2>1. PICK o : /\ op' = [op EXCEPT ![w] = o]
                   /\ o = Idle \/ o = [pc |-> "checkpoint", head |-> h, event |-> n]
      BY <1>2, <1>3, <1>4, <1>6 DEF SaveHead
    <2>2. o \in Operation
      BY <1>5, <1>7, <2>1 DEF Operation, EventOp
    <2>3. o # Idle => WorkInv(o)'
      BY <1>4, <1>7, <1>8, <2>1 DEF WorkInv
    <2> QED BY <1>1, <2>1, <2>2, <2>3, RunningFacts, OperationStep DEF WitnessInv
  <1>11. acked' \subseteq acked \cup {n}
    BY <1>3 DEF SaveHead
  <1>12. LedgerChain' = {n} \cup LedgerChain
    BY <1>4, <1>5, <1>7, <1>8, <1>9, ChainStep DEF LedgerChain
  <1>13. n \notin LedgerChain
    BY <1>4, <1>5, LedgerChainFacts DEF WitnessInv, Linked
  <1>14. IsFiniteSet(LedgerChain) /\ Cardinality(LedgerChain) \in Nat
    BY LedgerChainFacts DEF WitnessInv
  <1>15. Cardinality(LedgerChain') = Cardinality(LedgerChain) + 1
    BY <1>12, <1>13, <1>14, FS_AddElement
  <1>16. AcknowledgedOnChain
    BY DEF WitnessInv, ChainInv
  <1>17. AcknowledgedOnChain'
    <2>1. {events[i].sequence : i \in LedgerChain'}
            = {events[n].sequence} \cup {events[i].sequence : i \in LedgerChain}
      BY <1>12
    <2>2. {events[i].sequence : i \in LedgerChain'} = 1 .. Cardinality(LedgerChain) + 1
      <3>1. PICK m \in Nat : m = Cardinality(LedgerChain)
        BY <1>14
      <3>2. /\ {events[i].sequence : i \in LedgerChain} = 1 .. m
            /\ events[n].sequence = m + 1
        BY <1>5, <1>16, <3>1 DEF AcknowledgedOnChain
      <3>3. {m + 1} \cup 1 .. m = 1 .. m + 1
        OBVIOUS
      <3> QED BY <2>1, <3>1, <3>2, <3>3
    <2> QED BY <1>7, <1>8, <1>9, <1>11, <1>12, <1>15, <1>16, <2>2 DEF AcknowledgedOnChain
  <1>18. ChainInv'
    BY <1>4, <1>5, <1>7, <1>8, <1>9, <1>17 DEF WitnessInv, ChainInv
  <1>19. CheckpointsSealChain'
    BY <1>9, <1>12 DEF WitnessInv, CheckpointsSealChain
  <1>20. acked' \subseteq Nat
    BY <1>5, <1>11 DEF WitnessInv, WitnessTypes
  <1> QED BY <1>7, <1>8, <1>9, <1>10, <1>18, <1>19, <1>20 DEF WitnessInv, WitnessTypes

\* A checkpoint starts no later than the events the ones before it leave unsealed.
LEMMA PutCheckpointStep ==
  ASSUME WitnessInv, NEW w \in Writers, PutCheckpoint(w)
  PROVE  WitnessInv'
  <1>1. op[w].pc = "sign"
    BY DEF PutCheckpoint
  <1>2. op[w] \in SealOp /\ op[w].head = head /\ WorkInv(op[w])
    BY <1>1, RunningFacts, OperationKinds
  <1>3. PICK latest : latest = op[w].latest
    OBVIOUS
  <1>4. /\ checkpoints \in Seq(Checkpoint) /\ head \in LedgerHead
        /\ head.lastSequence \in Nat /\ Len(checkpoints) \in Nat
    BY DEF WitnessInv, WitnessTypes, LedgerHead
  <1>5. latest \in 0 .. Len(checkpoints) /\ head.lastSequence # 0
    BY <1>1, <1>2, <1>3 DEF WorkInv
  <1>6. PICK start : start = startEventSequence(latest, head)
    OBVIOUS
  <1>7. /\ start \in 1 .. head.lastSequence
        /\ latest # 0 => latest \in DOMAIN checkpoints /\ checkpoints[latest].end \in Nat
        /\ start = 1 \/ (latest # 0 /\ start =< checkpoints[latest].end + 1)
    <2>1. CASE latest = 0
      BY <1>4, <1>5, <1>6, <2>1 DEF startEventSequence
    <2>2. CASE latest # 0
      <3>1. latest \in DOMAIN checkpoints /\ checkpoints[latest].end \in Nat
        <4>1. latest \in DOMAIN checkpoints
          BY <1>4, <1>5, <2>2
        <4>2. checkpoints[latest] \in Checkpoint
          BY <1>4, <4>1
        <4> QED BY <4>1, <4>2 DEF Checkpoint
      <3>2. PICK a : a = checkpoints[latest].end + 1
        OBVIOUS
      <3>3. a \in Nat \ {0} /\ head.lastSequence \in Nat \ {0}
        BY <1>4, <1>5, <3>1, <3>2
      <3>4. \E x \in {a, head.lastSequence} : \A y \in {a, head.lastSequence} : x =< y
        BY <3>3
      <3>5. /\ Min({a, head.lastSequence}) \in {a, head.lastSequence}
            /\ Min({a, head.lastSequence}) =< a
            /\ Min({a, head.lastSequence}) =< head.lastSequence
        BY <3>4 DEF Min
      <3>6. start = Min({a, head.lastSequence})
        BY <1>6, <2>2, <3>2 DEF startEventSequence
      <3> QED BY <2>2, <3>1, <3>2, <3>3, <3>5, <3>6
    <2> QED BY <2>1, <2>2
  <1>8. PICK c : c = [sequence |-> head.checkpointSequence + 1, start |-> start,
                      end |-> head.lastSequence, previous |-> latest,
                      ledgerHead |-> head.lastEvent, epoch |-> head.epoch, key |-> op[w].key]
    OBVIOUS
  <1>9. c \in Checkpoint /\ c.start = start /\ c.end = head.lastSequence
          /\ c.ledgerHead = head.lastEvent
    BY <1>2, <1>4, <1>5, <1>7, <1>8 DEF SealOp, LedgerHead, Checkpoint
  <1>10. checkpoints' = Append(checkpoints, c)
    BY <1>2, <1>3, <1>6, <1>8 DEF PutCheckpoint
  <1>11. UNCHANGED <<events, head, keys, made, acked>>
    BY DEF PutCheckpoint
  <1>12. checkpoints' \in Seq(Checkpoint) /\ Range(checkpoints') = Range(checkpoints) \cup {c}
    BY <1>4, <1>9, <1>10 DEF Range
  <1>13. QueueInv' /\ op' \in [Writers -> Operation]
    <2>1. PICK o : o = [op[w] EXCEPT !.pc = "seal", !.latest = Len(checkpoints) + 1]
      OBVIOUS
    <2>2. o \in SealOp /\ o.pc = "seal" /\ o.head = head /\ o.event = op[w].event
      <3>1. Len(checkpoints) + 1 \in Nat
        BY <1>4
      <3> QED BY <1>2, <2>1, <3>1 DEF SealOp
    <2>3. o \in Operation
      BY <2>2 DEF Operation
    <2>4. WorkInv(o)'
      BY <1>1, <1>2, <1>11, <2>2 DEF WorkInv
    <2>5. op' = [op EXCEPT ![w] = o]
      BY <2>1 DEF PutCheckpoint
    <2> QED BY <1>1, <2>3, <2>4, <2>5, RunningFacts, OperationStep DEF WitnessInv
  <1>14. LedgerChain' = LedgerChain
    BY <1>11 DEF LedgerChain
  <1>15. ChainInv'
    BY <1>11, <1>14 DEF WitnessInv, ChainInv, AcknowledgedOnChain
  <1>16. CheckpointsSealChain'
    <2>1. c.ledgerHead \in LedgerChain /\ events[c.ledgerHead].sequence = c.end
      BY <1>5, <1>9, LedgerChainFacts DEF WitnessInv, ChainInv
    <2>2. ASSUME NEW s \in 1 .. c.end
          PROVE  \E d \in Range(checkpoints) \cup {c} : s \in d.start .. d.end
      <3>1. CASE s >= start
        BY <1>4, <1>7, <1>9, <3>1
      <3>2. CASE s < start
        <4>1. latest # 0 /\ s \in 1 .. checkpoints[latest].end
          BY <1>4, <1>7, <1>9, <3>2
        <4>2. checkpoints[latest] \in Range(checkpoints)
          BY <1>7, <4>1 DEF Range
        <4> QED BY <4>1, <4>2 DEF WitnessInv, CheckpointsSealChain
      <3> QED BY <1>4, <1>7, <1>9, <3>1, <3>2
    <2>3. ASSUME NEW b \in Range(checkpoints)
          PROVE  /\ b.ledgerHead \in LedgerChain /\ events[b.ledgerHead].sequence = b.end
                 /\ b.start \in 1 .. b.end
                 /\ \A s \in 1 .. b.end :
                      \E d \in Range(checkpoints) \cup {c} : s \in d.start .. d.end
      BY DEF WitnessInv, CheckpointsSealChain
    <2>4. c.start \in 1 .. c.end
      BY <1>7, <1>9
    <2> QED BY <1>11, <1>12, <1>14, <2>1, <2>2, <2>3, <2>4 DEF CheckpointsSealChain
  <1> QED BY <1>11, <1>12, <1>13, <1>15, <1>16 DEF WitnessInv, WitnessTypes

\* Sealing acknowledges the event that made the checkpoint due.
LEMMA SealHeadStep ==
  ASSUME WitnessInv, NEW w \in Writers, SealHead(w)
  PROVE  WitnessInv'
  <1>1. op[w].pc = "seal"
    BY DEF SealHead
  <1>2. op[w] \in SealOp /\ op[w].head = head /\ WorkInv(op[w])
    BY <1>1, RunningFacts, OperationKinds
  <1>3. head \in LedgerHead
    BY DEF WitnessInv, WitnessTypes
  <1>4. /\ head' \in LedgerHead /\ head'.lastEvent = head.lastEvent
        /\ head'.lastSequence = head.lastSequence
    <2>1. op[w].latest \in Nat /\ head.checkpointSequence + 1 \in Nat
      BY <1>2, <1>3 DEF SealOp, LedgerHead
    <2>2. head' = [head EXCEPT !.checkpointSequence = head.checkpointSequence + 1,
                               !.lastCheckpoint = op[w].latest]
      BY <1>2, <1>3 DEF SealHead
    <2> QED BY <1>3, <2>1, <2>2 DEF LedgerHead
  <1>5. UNCHANGED <<events, checkpoints, keys, made>>
    BY DEF SealHead
  <1>6. Idle \in Operation /\ op' = [op EXCEPT ![w] = Idle]
    BY DEF Operation, SealHead
  <1>7. QueueInv' /\ op' \in [Writers -> Operation]
    BY <1>1, <1>6, RunningFacts, OperationStep DEF WitnessInv
  <1>8. LedgerChain' = LedgerChain
    BY <1>4, <1>5 DEF LedgerChain
  <1>9. acked' \subseteq acked \cup (IF head.lastEvent = 0 THEN {} ELSE {head.lastEvent})
    BY <1>1, <1>2 DEF SealHead, WorkInv
  <1>10. acked' \subseteq LedgerChain
    BY <1>9, LedgerChainFacts DEF WitnessInv, ChainInv, AcknowledgedOnChain
  <1>11. ChainInv'
    BY <1>4, <1>5, <1>8, <1>10 DEF WitnessInv, ChainInv, AcknowledgedOnChain
  <1>12. CheckpointsSealChain'
    BY <1>5, <1>8 DEF WitnessInv, CheckpointsSealChain
  <1>13. acked' \subseteq Nat
    BY <1>3, <1>9 DEF WitnessInv, WitnessTypes, LedgerHead
  <1> QED BY <1>4, <1>5, <1>7, <1>11, <1>12, <1>13 DEF WitnessInv, WitnessTypes

LEMMA RotateHeadStep ==
  ASSUME WitnessInv, NEW w \in Writers, RotateHead(w)
  PROVE  WitnessInv'
  <1>1. op[w].pc = "rotate"
    BY DEF RotateHead
  <1>2. op[w] \in RotateOp /\ op[w].head = head /\ WorkInv(op[w])
    BY <1>1, RunningFacts, OperationKinds
  <1>3. head \in LedgerHead /\ MaxEpochs \in Nat /\ head.epoch < MaxEpochs
    BY <1>1, <1>2, LedgerAssumption DEF WitnessInv, WitnessTypes, WorkInv
  <1>4. PICK h : h = [head EXCEPT !.epoch = head.epoch + 1]
    OBVIOUS
  <1>5. h \in LedgerHead /\ h.lastEvent = head.lastEvent /\ h.lastSequence = head.lastSequence
    BY <1>3, <1>4 DEF LedgerHead
  <1>6. head' = h
    BY <1>2, <1>3, <1>4 DEF RotateHead
  <1>7. UNCHANGED <<events, checkpoints, keys, made, acked>>
    BY DEF RotateHead
  <1>8. QueueInv' /\ op' \in [Writers -> Operation]
    <2>1. PICK o : /\ op' = [op EXCEPT ![w] = o]
                   /\ o = IF h.lastSequence = 0 THEN Idle
                          ELSE [pc |-> "checkpoint", head |-> h, event |-> 0]
      BY <1>2, <1>3, <1>4 DEF RotateHead
    <2>2. o \in Operation
      BY <1>5, <2>1 DEF Operation, EventOp
    <2>3. o # Idle => WorkInv(o)'
      BY <1>5, <1>6, <2>1 DEF WorkInv
    <2> QED BY <1>1, <2>1, <2>2, <2>3, RunningFacts, OperationStep DEF WitnessInv
  <1>9. ChainInv' /\ CheckpointsSealChain'
    BY <1>5, <1>6, <1>7, ChainKept DEF WitnessInv
  <1> QED BY <1>5, <1>6, <1>7, <1>8, <1>9 DEF WitnessInv, WitnessTypes

--------------------------------------------------------------------------------
(* The theorems.                                                               *)

LEMMA NextInv == WitnessInv /\ [Next]_vars => WitnessInv'
  <1> SUFFICES ASSUME WitnessInv, [Next]_vars PROVE WitnessInv'
    OBVIOUS
  <1>1. CASE \E w \in Writers : Write(w)
    <2>1. PICK w \in Writers : Write(w)
      BY <1>1
    <2> QED BY <2>1, AppendStep, PutEventStep, SaveHeadStep, CreateCheckpointStep, PrepareStep,
               CheckpointKeyStep, PutCheckpointStep, SealHeadStep, RotateKeyEpochStep,
               RotateKeyStep, RotateHeadStep, StoreFailsStep DEF Write
  <1>2. CASE \/ \E from \in Ranges : ListEvents(from)
             \/ ListCheckpoints \/ ReceiptHead \/ PutReport
    BY <1>2, VerifyStep
  <1>3. CASE Restart
    BY <1>3, RestartStep
  <1>4. CASE UNCHANGED vars
    <2>1. UNCHANGED <<events, checkpoints, head, keys, made, op, acked>>
      BY <1>4 DEF vars
    <2>2. ChainInv' /\ CheckpointsSealChain'
      BY <2>1, ChainKept DEF WitnessInv
    <2> QED BY <2>1, <2>2 DEF WitnessInv, WitnessTypes, QueueInv, WorkInv
  <1> QED BY <1>1, <1>2, <1>3, <1>4 DEF Next

THEOREM WitnessInvariant == Spec => []WitnessInv
  BY InitInv, NextInv, PTL DEF Spec

\* An append that returned is on the chain the head ends, and that chain is
\* numbered without a gap, whatever restarts and failed writes fall between the
\* two puts of appendLedgerEvent.
THEOREM ChainCorrect == Spec => []AcknowledgedOnChain
  <1>1. WitnessInv => AcknowledgedOnChain
    BY DEF WitnessInv, ChainInv
  <1> QED BY <1>1, WitnessInvariant, PTL

\* The checkpoints close with events of the chain and leave none before the last
\* of them unsealed, whatever restarts fall between a checkpoint and the head.
THEOREM SealCorrect == Spec => []CheckpointsSealChain
  <1>1. WitnessInv => CheckpointsSealChain
    BY DEF WitnessInv
  <1> QED BY <1>1, WitnessInvariant, PTL

--------------------------------------------------------------------------------
(* Verification while no store operation has failed.                           *)

\* Sorting records that are numbered from 1 without a gap leaves them in place.
LEMMA SortedInPlace ==
  ASSUME NEW n \in Nat, NEW records, \A a \in 1 .. n : records[a].sequence = a
  PROVE  bySequence(records, 1 .. n) = [p \in 1 .. n |-> p]
  <1>1. Cardinality(1 .. n) = n
    BY FS_Interval
  <1>2. ASSUME NEW a \in 1 .. n
        PROVE  Cardinality({b \in 1 .. n : NoLater(records, b, a)}) = a
    <2>1. {b \in 1 .. n : NoLater(records, b, a)} = 1 .. a
      BY DEF NoLater
    <2>2. Cardinality(1 .. a) = a
      BY FS_Interval
    <2> QED BY <2>1, <2>2
  <1>3. ASSUME NEW p \in 1 .. n
        PROVE  (CHOOSE a \in 1 .. n :
                  Cardinality({b \in 1 .. n : NoLater(records, b, a)}) = p) = p
    BY <1>2
  <1> QED BY <1>1, <1>3 DEF bySequence

\* A set of positions that holds every position below one of its own is 1 .. m.
LEMMA Prefix ==
  ASSUME NEW n \in Nat, NEW S \in SUBSET (1 .. n),
         \A c \in S : 1 .. c \subseteq S
  PROVE  \E m \in 0 .. n : S = 1 .. m
  <1>1. IsFiniteSet(1 .. n) /\ Cardinality(1 .. n) = n
    BY FS_Interval
  <1>2. IsFiniteSet(S) /\ Cardinality(S) =< n
    BY <1>1, FS_Subset
  <1>3. PICK m \in Nat : m = Cardinality(S)
    BY <1>2, FS_CardinalityType
  <1>4. S \subseteq 1 .. m
    <2> SUFFICES ASSUME NEW c \in S PROVE c \in 1 .. m
      OBVIOUS
    <2>1. 1 .. c \in SUBSET S /\ c \in 1 .. n
      OBVIOUS
    <2>2. Cardinality(1 .. c) = c
      BY <2>1, FS_Interval
    <2>3. Cardinality(1 .. c) =< Cardinality(S)
      BY <1>2, <2>1, FS_Subset
    <2> QED BY <1>3, <2>1, <2>2, <2>3
  <1>5. IsFiniteSet(1 .. m) /\ Cardinality(1 .. m) = m
    BY FS_Interval
  <1>6. S = 1 .. m
    BY <1>3, <1>4, <1>5, FS_Subset
  <1> QED BY <1>2, <1>3, <1>6

Saving == \E w \in Writers : op[w].pc = "save"
Sealing == \E w \in Writers : op[w].pc = "seal"

\* Every event and every checkpoint is numbered by its position and links to the
\* one before it; the head counts them all, but the one being put.
EventsRegular ==
  /\ \A i \in DOMAIN events : events[i].sequence = i /\ events[i].previous = i - 1
  /\ head.lastSequence = head.lastEvent
  /\ Len(events) = head.lastEvent + (IF Saving THEN 1 ELSE 0)

Numbered(c) ==
  /\ checkpoints[c].sequence = c /\ checkpoints[c].previous = c - 1
  /\ checkpoints[c].end = checkpoints[c].ledgerHead
  /\ checkpoints[c].start \in 1 .. checkpoints[c].end
  /\ checkpoints[c].end =< head.lastSequence

CheckpointsRegular ==
  /\ \A c \in DOMAIN checkpoints : Numbered(c)
  /\ \A c, d \in DOMAIN checkpoints : c =< d => checkpoints[c].start =< checkpoints[d].start
  /\ Len(checkpoints) = head.checkpointSequence + (IF Sealing THEN 1 ELSE 0)
  /\ \A w \in Writers : op[w].pc \in {"key", "sign"} => op[w].latest = Len(checkpoints)

\* Unless a key record was replaced, a checkpoint was signed with the pair on
\* record, and so will be the one under way.
KeysInv ==
  rekeyed \/ /\ \A c \in DOMAIN checkpoints :
                  /\ checkpoints[c].epoch \in 1 .. MaxEpochs + 1
                  /\ checkpoints[c].key # 0 /\ keys[checkpoints[c].epoch] = checkpoints[c].key
             /\ \A w \in Writers :
                  /\ op[w].pc = "key" => op[w].key \in {0, keys[head.epoch]}
                  /\ op[w].pc = "sign" => op[w].key # 0 /\ op[w].key = keys[head.epoch]

\* What VerifyIsExact says of a report, and what makes it stay so.
Exact(r) ==
  /\ r.contiguous /\ r.hashes
  /\ \A i \in DOMAIN r.checkpoints : r.checkpoints[i] \in DOMAIN checkpoints
  /\ r.chain = ~\E i \in DOMAIN r.checkpoints : checkpoints[r.checkpoints[i]].end > r.to
  /\ ~rekeyed => r.signatures

VerifierInv ==
  /\ verifier.pc = "list" => verifier.listed \in 0 .. Len(events)
  /\ verifier.pc \in {"receipt", "key"} => (verifier.report.whole => Exact(verifier.report))
  /\ report # Idle => (report.whole => Exact(report))

RegularInv ==
  /\ KeysInv
  /\ faults \in Nat
  /\ faults = 0 => EventsRegular /\ CheckpointsRegular /\ VerifierInv

\* The numbers from 1 to n, which is how a verification lists n records.
UpTo(n) == [p \in 1 .. n |-> p]

LEMMA UpToSeq ==
  ASSUME NEW n \in Nat
  PROVE  /\ UpTo(n) \in Seq(Nat) /\ Len(UpTo(n)) = n /\ DOMAIN UpTo(n) = 1 .. n
         /\ \A i \in 1 .. n : UpTo(n)[i] = i
         /\ UpTo(n) = <<>> <=> n = 0
         /\ n # 0 => Head(UpTo(n)) = 1 /\ Last(UpTo(n)) = n
  <1>1. /\ UpTo(n) \in Seq(Nat) /\ Len(UpTo(n)) = n /\ DOMAIN UpTo(n) = 1 .. n
        /\ \A i \in 1 .. n : UpTo(n)[i] = i
    BY DEF UpTo
  <1>2. UpTo(n) = <<>> <=> n = 0
    BY <1>1
  <1>3. n # 0 => Head(UpTo(n)) = 1 /\ Last(UpTo(n)) = n
    BY <1>1 DEF Last
  <1> QED BY <1>1, <1>2, <1>3

\* The events listed are contiguous and linked.
LEMMA EventsVerdict ==
  ASSUME WitnessInv, EventsRegular, NEW n \in 0 .. Len(events)
  PROVE  /\ bySequence(events, 1 .. n) = UpTo(n)
         /\ filterEventsByRange(n, 1, n) = 1 .. n
         /\ sequenceContiguous(UpTo(n)) /\ hashChainValid(UpTo(n))
         /\ \A s \in Nat : s # 0 => EventAt(UpTo(n), s) = IF s =< n THEN s ELSE 0
  <1>1. n \in Nat /\ Len(events) \in Nat /\ events \in Seq(Event)
    BY DEF WitnessInv, WitnessTypes
  <1>2. \A i \in 1 .. n : events[i].sequence = i /\ events[i].previous = i - 1
    BY <1>1 DEF EventsRegular
  <1>3. bySequence(events, 1 .. n) = UpTo(n)
    BY <1>1, <1>2, SortedInPlace DEF UpTo
  <1>4. filterEventsByRange(n, 1, n) = 1 .. n
    BY <1>1, <1>2 DEF filterEventsByRange
  <1>5. /\ Len(UpTo(n)) = n /\ DOMAIN UpTo(n) = 1 .. n
        /\ \A i \in 1 .. n : UpTo(n)[i] = i
    BY <1>1, UpToSeq
  <1>6. sequenceContiguous(UpTo(n))
    BY <1>1, <1>2, <1>5 DEF sequenceContiguous
  <1>7. hashChainValid(UpTo(n))
    BY <1>1, <1>2, <1>5 DEF hashChainValid
  <1>8. ASSUME NEW s \in Nat, s # 0
        PROVE  EventAt(UpTo(n), s) = IF s =< n THEN s ELSE 0
    <2>1. {i \in DOMAIN UpTo(n) : events[UpTo(n)[i]].sequence = s}
            = IF s =< n THEN {s} ELSE {}
      BY <1>1, <1>2, <1>5, <1>8
    <2>2. CASE s =< n
      <3>1. Max({s}) = s
        BY DEF Max
      <3>2. s \in 1 .. n
        BY <1>1, <1>8, <2>2
      <3> QED BY <1>5, <2>1, <2>2, <3>1, <3>2 DEF EventAt
    <2>3. CASE ~(s =< n)
      BY <2>1, <2>3 DEF EventAt
    <2> QED BY <2>2, <2>3
  <1> QED BY <1>3, <1>4, <1>6, <1>7, <1>8

\* The checkpoints in range are the first ones, and their chain is broken exactly
\* when one of them reaches past the events listed.
LEMMA CheckpointsVerdict ==
  ASSUME WitnessInv, EventsRegular, CheckpointsRegular,
         NEW n \in 0 .. Len(events), NEW from \in {0, 1}
  PROVE  \E m \in 0 .. Len(checkpoints) :
           /\ bySequence(checkpoints, filterCheckpointsByRange(from, n)) = UpTo(m)
           /\ checkpointChainValid(UpTo(m), UpTo(n))
                <=> ~\E i \in 1 .. m : checkpoints[i].end > n
  <1>1. n \in Nat /\ checkpoints \in Seq(Checkpoint) /\ Len(checkpoints) \in Nat
    BY DEF WitnessInv, WitnessTypes
  <1>2. \A c \in 1 .. Len(checkpoints) : Numbered(c) /\ checkpoints[c] \in Checkpoint
    BY <1>1 DEF CheckpointsRegular
  <1>3. \A c \in 1 .. Len(checkpoints) :
          /\ checkpoints[c].sequence = c /\ checkpoints[c].previous = c - 1
          /\ checkpoints[c].ledgerHead = checkpoints[c].end
          /\ checkpoints[c].start \in Nat \ {0} /\ checkpoints[c].end \in Nat \ {0}
          /\ checkpoints[c].start =< checkpoints[c].end
    BY <1>2 DEF Numbered, Checkpoint
  <1>4. PICK S : S = filterCheckpointsByRange(from, n)
    OBVIOUS
  <1>5. S = {c \in 1 .. Len(checkpoints) : checkpoints[c].start =< n}
    BY <1>1, <1>3, <1>4 DEF filterCheckpointsByRange
  <1>6. \A c \in S : 1 .. c \subseteq S
    <2> SUFFICES ASSUME NEW c \in S, NEW b \in 1 .. c PROVE b \in S
      OBVIOUS
    <2>1. c \in 1 .. Len(checkpoints) /\ checkpoints[c].start =< n
      BY <1>5
    <2>2. b \in 1 .. Len(checkpoints) /\ b =< c
      BY <1>1, <2>1
    <2>3. checkpoints[b].start =< checkpoints[c].start
      BY <1>1, <2>1, <2>2 DEF CheckpointsRegular
    <2>4. checkpoints[b].start \in Nat /\ checkpoints[c].start \in Nat
      BY <1>3, <2>1, <2>2
    <2> QED BY <1>1, <1>5, <2>1, <2>2, <2>3, <2>4
  <1>7. PICK m \in 0 .. Len(checkpoints) : S = 1 .. m
    BY <1>1, <1>5, <1>6, Prefix
  <1>8. bySequence(checkpoints, S) = UpTo(m)
    <2>1. m \in Nat /\ \A c \in 1 .. m : checkpoints[c].sequence = c
      BY <1>1, <1>3, <1>7
    <2> QED BY <1>7, <2>1, SortedInPlace DEF UpTo
  <1>9. /\ m \in Nat /\ DOMAIN UpTo(m) = 1 .. m /\ \A i \in 1 .. m : UpTo(m)[i] = i
        /\ 1 .. m \subseteq 1 .. Len(checkpoints)
    BY <1>1, <1>7, UpToSeq
  <1>10. ASSUME NEW i \in 1 .. m
         PROVE  /\ i > 1 => checkpoints[i].sequence = checkpoints[UpTo(m)[i - 1]].sequence + 1
                /\ checkpoints[i].previous = IF i = 1 THEN 0 ELSE UpTo(m)[i - 1]
                /\ EventAt(UpTo(n), checkpoints[i].end) = checkpoints[i].ledgerHead
                     <=> ~(checkpoints[i].end > n)
    <2>1. i \in 1 .. Len(checkpoints) /\ i \in Nat
      BY <1>9
    <2>2. i > 1 => /\ i - 1 \in 1 .. Len(checkpoints) /\ UpTo(m)[i - 1] = i - 1
                   /\ checkpoints[i - 1].sequence = i - 1
      <3>1. i > 1 => i - 1 \in 1 .. m
        BY <1>9, <2>1
      <3> QED BY <1>3, <1>9, <3>1
    <2>3. /\ checkpoints[i].end \in Nat /\ checkpoints[i].end # 0
          /\ checkpoints[i].ledgerHead = checkpoints[i].end
          /\ checkpoints[i].sequence = i /\ checkpoints[i].previous = i - 1
      BY <1>3, <2>1
    <2>4. EventAt(UpTo(n), checkpoints[i].end)
            = IF checkpoints[i].end =< n THEN checkpoints[i].end ELSE 0
      BY <2>3, EventsVerdict
    <2>5. EventAt(UpTo(n), checkpoints[i].end) = checkpoints[i].ledgerHead
            <=> ~(checkpoints[i].end > n)
      BY <1>1, <2>3, <2>4
    <2>6. i = 1 \/ i > 1
      BY <2>1
    <2> QED BY <2>1, <2>2, <2>3, <2>5, <2>6
  <1>11. checkpointChainValid(UpTo(m), UpTo(n)) <=> ~\E i \in 1 .. m : checkpoints[i].end > n
    BY <1>9, <1>10 DEF checkpointChainValid
  <1> QED BY <1>4, <1>8, <1>11

\* The report over the whole ledger is exact when it is drawn up.
LEMMA ReportIsExact ==
  ASSUME WitnessInv, RegularInv, faults = 0, ListCheckpoints, verifier.from = 0
  PROVE  Exact(verifier'.report)
  <1> DEFINE n == verifier.listed
             all == bySequence(events, 1 .. n)
             from == IF verifier.from # 0 THEN verifier.from
                     ELSE IF all = <<>> THEN 0 ELSE events[Head(all)].sequence
             to == IF all = <<>> THEN 0 ELSE events[Last(all)].sequence
             es == bySequence(events, filterEventsByRange(n, from, to))
             cs == bySequence(checkpoints, filterCheckpointsByRange(from, to))
             chain == checkpointChainValid(cs, es)
             signed == \A c \in Range(cs) : verifyCheckpointSignature(c)
             codes == {events[i].severity : i \in Range(es)}
  <1>1. /\ EventsRegular /\ CheckpointsRegular /\ n \in 0 .. Len(events)
        /\ n \in Nat /\ events \in Seq(Event)
    BY DEF RegularInv, VerifierInv, ListCheckpoints, WitnessInv, WitnessTypes
  <1>2. PICK r : /\ r = verifier'.report
                 /\ r.contiguous = sequenceContiguous(es) /\ r.hashes = hashChainValid(es)
                 /\ r.checkpoints = cs /\ r.to = to
                 /\ r.chain = chain /\ r.signatures = signed
    <2> DEFINE R == [pc |-> "done", whole |-> verifier.from = 0, to |-> to,
                    checkpoints |-> cs,
                    contiguous |-> sequenceContiguous(es), hashes |-> hashChainValid(es),
                    chain |-> chain, signatures |-> signed,
                    status |-> deriveVerificationStatus(
                       sequenceContiguous(es) /\ hashChainValid(es) /\ chain /\ signed,
                       EvidenceComplete(es), codes)]
    <2>1. verifier' = [pc |-> "receipt", report |-> R]
      BY Zenon DEF ListCheckpoints
    <2>2. R.contiguous = sequenceContiguous(es) /\ R.hashes = hashChainValid(es)
      OBVIOUS
    <2>3. R.checkpoints = cs /\ R.to = to
      OBVIOUS
    <2>4. R.chain = chain /\ R.signatures = signed
      OBVIOUS
    <2>5. verifier'.report = R
      BY <2>1
    <2> HIDE DEF R
    <2> QED BY <2>2, <2>3, <2>4, <2>5, Zenon
  <1>3. all = UpTo(n)
    BY <1>1, EventsVerdict
  <1>4. to = n /\ from = IF n = 0 THEN 0 ELSE 1
    <2>1. CASE n = 0
      BY <1>1, <1>3, <2>1, UpToSeq
    <2>2. CASE n # 0
      <3>1. all # <<>> /\ Head(all) = 1 /\ Last(all) = n
        BY <1>1, <1>3, <2>2, UpToSeq
      <3>2. events[1].sequence = 1 /\ events[n].sequence = n
        BY <1>1, <2>2 DEF EventsRegular
      <3> QED BY <2>2, <3>1, <3>2
    <2> QED BY <2>1, <2>2
  <1> HIDE DEF n, all, from, to
  <1>5. filterEventsByRange(n, from, to) = 1 .. n
    <2>1. CASE n = 0
      BY <1>1, <1>4, <2>1 DEF filterEventsByRange
    <2>2. CASE n # 0
      BY <1>1, <1>4, <2>2, EventsVerdict
    <2> QED BY <2>1, <2>2
  <1>6. es = UpTo(n)
    BY <1>1, <1>5, EventsVerdict
  <1>7. sequenceContiguous(es) /\ hashChainValid(es)
    BY <1>1, <1>6, EventsVerdict
  <1>8. PICK m \in 0 .. Len(checkpoints) :
          /\ cs = UpTo(m)
          /\ checkpointChainValid(UpTo(m), UpTo(n))
               <=> ~\E i \in 1 .. m : checkpoints[i].end > n
    BY <1>1, <1>4, CheckpointsVerdict
  <1>9. /\ m \in Nat /\ DOMAIN cs = 1 .. m /\ \A i \in 1 .. m : cs[i] = i
        /\ 1 .. m \subseteq DOMAIN checkpoints
    <2>1. checkpoints \in Seq(Checkpoint) /\ Len(checkpoints) \in Nat
      BY DEF WitnessInv, WitnessTypes
    <2>2. m \in Nat /\ 1 .. m \subseteq DOMAIN checkpoints
      BY <2>1
    <2> QED BY <1>8, <2>2, UpToSeq
  <1> HIDE DEF es, cs, codes
  <1>10. chain = ~\E i \in DOMAIN cs : checkpoints[cs[i]].end > to
    <2>1. chain <=> ~\E i \in 1 .. m : checkpoints[i].end > n
      BY <1>6, <1>8
    <2>2. (\E i \in 1 .. m : checkpoints[i].end > n)
            <=> \E i \in DOMAIN cs : checkpoints[cs[i]].end > to
      BY <1>4, <1>9
    <2> QED BY <2>1, <2>2 DEF checkpointChainValid
  <1>11. ~rekeyed => signed
    BY <1>9 DEF RegularInv, KeysInv, verifyCheckpointSignature, Range
  <1>12. r = verifier'.report
    BY <1>2
  <1>13. /\ r.contiguous = sequenceContiguous(es) /\ r.hashes = hashChainValid(es)
         /\ r.checkpoints = cs /\ r.to = to
    BY <1>2
  <1>14. r.chain = chain /\ r.signatures = signed
    BY <1>2
  <1>15. UNCHANGED <<checkpoints, rekeyed>>
    BY DEF ListCheckpoints, Store
  <1>16. \A i \in DOMAIN r.checkpoints : r.checkpoints[i] \in DOMAIN checkpoints
    BY <1>9, <1>13
  <1>17. r.chain = ~\E i \in DOMAIN r.checkpoints : checkpoints[r.checkpoints[i]].end > r.to
    <2>1. (\E i \in DOMAIN r.checkpoints : checkpoints[r.checkpoints[i]].end > r.to)
            = (\E i \in DOMAIN cs : checkpoints[cs[i]].end > to)
      BY <1>13
    <2> HIDE DEF chain
    <2> QED BY <1>10, <1>14, <2>1, Zenon
  <1>18. ~rekeyed => r.signatures
    BY <1>11, <1>14
  <1>19. r.contiguous /\ r.hashes
    BY <1>7, <1>13
  <1> QED BY <1>12, <1>16, <1>17, <1>18, <1>19 DEF Exact

\* A report stays exact: checkpoints are only added, and keys only replaced.
LEMMA ExactKept ==
  ASSUME NEW r, Exact(r), rekeyed => rekeyed',
         DOMAIN checkpoints \subseteq DOMAIN checkpoints',
         \A c \in DOMAIN checkpoints : checkpoints'[c] = checkpoints[c]
  PROVE  Exact(r)'
  BY DEF Exact

LEMMA VerifierKept ==
  ASSUME VerifierInv, UNCHANGED <<verifier, report>>, rekeyed => rekeyed',
         Len(events) \in Nat, Len(events') \in Nat, Len(events) =< Len(events'),
         DOMAIN checkpoints \subseteq DOMAIN checkpoints',
         \A c \in DOMAIN checkpoints : checkpoints'[c] = checkpoints[c]
  PROVE  VerifierInv'
  <1>1. PICK r, q : r = report /\ q = verifier.report
    OBVIOUS
  <1>2. (Exact(r) => Exact(r)') /\ (Exact(q) => Exact(q)')
    BY ExactKept
  <1>3. Exact(report) => Exact(report)'
    BY <1>1, <1>2 DEF Exact
  <1>4. Exact(verifier.report) => Exact(verifier.report)'
    BY <1>1, <1>2 DEF Exact
  <1> QED BY <1>3, <1>4 DEF VerifierInv

\* A key record that is there stays, or the ledger is marked as rekeyed.
LEMMA KeysEnsured ==
  ASSUME WitnessTypes, NEW e, NEW found, ensureKeyEpoch(e, found)
  PROVE  /\ rekeyed => rekeyed'
         /\ rekeyed' \/ \A x \in 1 .. MaxEpochs + 1 : keys[x] # 0 => keys'[x] = keys[x]
         /\ found # 0 => keys' = keys
         /\ found = 0 /\ e \in 1 .. MaxEpochs + 1 => keys'[e] = made + 1
  <1>1. keys \in [1 .. MaxEpochs + 1 -> Nat]
    BY DEF WitnessTypes
  <1>2. CASE found # 0
    BY <1>2 DEF ensureKeyEpoch, KeyStore
  <1>3. CASE found = 0
    <2>1. /\ keys' = [keys EXCEPT ![e] = made + 1]
          /\ rekeyed' = (rekeyed \/ keys[e] # 0)
      BY <1>3 DEF ensureKeyEpoch
    <2>2. rekeyed => rekeyed'
      BY <2>1
    <2>3. keys[e] # 0 => rekeyed'
      BY <2>1
    <2>4. \A x \in 1 .. MaxEpochs + 1 : x # e => keys'[x] = keys[x]
      BY <1>1, <2>1
    <2>5. e \in 1 .. MaxEpochs + 1 => keys'[e] = made + 1
      BY <1>1, <2>1
    <2> QED BY <1>3, <2>2, <2>3, <2>4, <2>5
  <1> QED BY <1>2, <1>3

\* The writers that are idle have no say in the parts about the operation.
LEMMA OneRuns ==
  ASSUME WitnessTypes, NEW w \in Writers, \A x \in Writers \ {w} : op[x] = Idle
  PROVE  /\ Saving <=> op[w].pc = "save"
         /\ Sealing <=> op[w].pc = "seal"
  BY DEF Saving, Sealing, Idle, WitnessTypes

LEMMA OneRunsNext ==
  ASSUME WitnessTypes, NEW w \in Writers, \A x \in Writers \ {w} : op[x] = Idle,
         NEW o, op' = [op EXCEPT ![w] = o]
  PROVE  /\ Saving' <=> o.pc = "save"
         /\ Sealing' <=> o.pc = "seal"
         /\ op'[w] = o /\ \A x \in Writers : op'[x].pc # "idle" => x = w
  <1>1. op'[w] = o /\ \A x \in Writers \ {w} : op'[x] = Idle
    BY DEF WitnessTypes
  <1> QED BY <1>1 DEF Saving, Sealing, Idle

\* The part about the keys, for a step of a writer that leaves the checkpoints.
LEMMA KeysStepInv ==
  ASSUME WitnessInv, KeysInv, NEW w \in Writers, \A x \in Writers \ {w} : op[x] = Idle,
         NEW o, op' = [op EXCEPT ![w] = o], UNCHANGED checkpoints, rekeyed => rekeyed',
         rekeyed' \/ \A x \in 1 .. MaxEpochs + 1 : keys[x] # 0 => keys'[x] = keys[x],
         ~rekeyed' => /\ o.pc = "key" => o.key \in {0, keys'[head'.epoch]}
                      /\ o.pc = "sign" => o.key # 0 /\ o.key = keys'[head'.epoch]
  PROVE  KeysInv'
  <1> SUFFICES ASSUME ~rekeyed'
               PROVE  KeysInv'
    BY DEF KeysInv
  <1>1. ~rekeyed
    OBVIOUS
  <1>2. op'[w] = o /\ \A x \in Writers : op'[x].pc # "idle" => x = w
    BY OneRunsNext DEF WitnessInv
  <1>3. \A c \in DOMAIN checkpoints :
          /\ checkpoints[c].epoch \in 1 .. MaxEpochs + 1
          /\ checkpoints[c].key # 0 /\ keys'[checkpoints[c].epoch] = checkpoints[c].key
    BY <1>1 DEF KeysInv
  <1>4. ASSUME NEW x \in Writers
        PROVE  /\ op'[x].pc = "key" => op'[x].key \in {0, keys'[head'.epoch]}
               /\ op'[x].pc = "sign" => op'[x].key # 0 /\ op'[x].key = keys'[head'.epoch]
    <2>1. CASE x = w
      BY <1>2, <2>1
    <2>2. CASE x # w
      BY <1>2, <2>2
    <2> QED BY <2>1, <2>2
  <1> QED BY <1>3, <1>4 DEF KeysInv

\* A step of a writer that puts nothing and counts nothing.
LEMMA ReadRegular ==
  ASSUME WitnessInv, RegularInv, KeysInv', NEW w \in Writers,
         \A x \in Writers \ {w} : op[x] = Idle, op[w].pc \notin {"save", "seal"},
         NEW o, op' = [op EXCEPT ![w] = o], o.pc \notin {"save", "seal"},
         UNCHANGED <<events, checkpoints, verifier, report, faults>>, rekeyed => rekeyed',
         head'.lastEvent = head.lastEvent, head'.lastSequence = head.lastSequence,
         head'.checkpointSequence = head.checkpointSequence,
         faults = 0 /\ o.pc \in {"key", "sign"} => o.latest = Len(checkpoints)
  PROVE  RegularInv'
  <1> SUFFICES ASSUME faults = 0
               PROVE  EventsRegular' /\ CheckpointsRegular' /\ VerifierInv'
    BY DEF RegularInv
  <1>1. ~Saving /\ ~Sealing /\ ~Saving' /\ ~Sealing'
    BY OneRuns, OneRunsNext DEF WitnessInv
  <1>2. EventsRegular'
    BY <1>1 DEF RegularInv, EventsRegular
  <1>3. \A x \in Writers : op'[x].pc \in {"key", "sign"} => op'[x].latest = Len(checkpoints)
    BY OneRunsNext DEF WitnessInv
  <1>4. CheckpointsRegular'
    BY <1>1, <1>3 DEF RegularInv, CheckpointsRegular, Numbered
  <1>5. VerifierInv'
    <2>1. Len(events) \in Nat
      BY DEF WitnessInv, WitnessTypes
    <2> QED BY <2>1, VerifierKept DEF RegularInv
  <1> QED BY <1>2, <1>4, <1>5

\* The first step of an operation.
LEMMA BeginRegular ==
  ASSUME WitnessInv, RegularInv, NEW w \in Writers, runExclusive(w),
         NEW o, op' = [op EXCEPT ![w] = o], o.pc \notin {"save", "seal", "key", "sign"},
         UNCHANGED <<events, checkpoints, head, keys, verifier, report, faults, rekeyed>>
  PROVE  RegularInv'
  <1>1. /\ \A x \in Writers \ {w} : op[x] = Idle
        /\ op[w].pc \notin {"save", "seal"}
    BY DEF runExclusive, Idle
  <1>3. o.pc # "key" /\ o.pc # "sign" /\ o.pc \notin {"save", "seal"}
    OBVIOUS
  <1>4. KeysInv /\ \A x \in 1 .. MaxEpochs + 1 : keys[x] # 0 => keys'[x] = keys[x]
    BY DEF RegularInv
  <1>5. KeysInv'
    BY <1>1, <1>3, <1>4, KeysStepInv
  <1>6. /\ head'.lastEvent = head.lastEvent /\ head'.lastSequence = head.lastSequence
        /\ head'.checkpointSequence = head.checkpointSequence
    OBVIOUS
  <1> QED BY <1>1, <1>3, <1>5, <1>6, ReadRegular

LEMMA BeginningsRegular ==
  ASSUME WitnessInv, RegularInv, NEW w \in Writers,
         \/ appendAuthorization(w) \/ appendCompletion(w) \/ appendInvariant(w)
         \/ createCheckpoint(w) \/ rotateKeyEpoch(w)
  PROVE  RegularInv'
  <1>1. ASSUME NEW stage, NEW ref, NEW severity, BeginAppend(w, stage, ref, severity)
        PROVE  RegularInv'
    BY <1>1, BeginRegular DEF BeginAppend, Store, Verification
  <1>2. CASE appendAuthorization(w) \/ appendCompletion(w) \/ appendInvariant(w)
    BY <1>1, <1>2 DEF appendAuthorization, appendCompletion, appendInvariant
  <1>3. CASE createCheckpoint(w)
    <2>1. PICK o : /\ op' = [op EXCEPT ![w] = o]
                   /\ o = IF getLedgerHead.lastSequence = 0 THEN Idle
                          ELSE [pc |-> "checkpoint", head |-> getLedgerHead, event |-> 0]
      BY <1>3 DEF createCheckpoint
    <2>2. o.pc \in {"idle", "checkpoint"}
      BY <2>1 DEF Idle
    <2> QED BY <1>3, <2>1, <2>2, BeginRegular DEF createCheckpoint, Store, Verification
  <1>4. CASE rotateKeyEpoch(w)
    BY <1>4, BeginRegular DEF rotateKeyEpoch, Store, Verification
  <1> QED BY <1>2, <1>3, <1>4

LEMMA PrepareRegular ==
  ASSUME WitnessInv, RegularInv, NEW w \in Writers, PrepareCheckpoint(w)
  PROVE  RegularInv'
  <1>1. op[w].pc = "checkpoint"
    BY DEF PrepareCheckpoint
  <1>2. PICK latest \in getLatestCheckpoint :
          op' = [op EXCEPT ![w] = [pc |-> "key", head |-> op[w].head, event |-> op[w].event,
                                   latest |-> latest, key |-> getKeyEpoch(op[w].head.epoch)]]
    BY DEF PrepareCheckpoint
  <1>3. PICK o : o = [pc |-> "key", head |-> head, event |-> op[w].event,
                      latest |-> latest, key |-> keys[head.epoch]]
    OBVIOUS
  <1>4. op' = [op EXCEPT ![w] = o]
    BY <1>1, <1>2, <1>3, RunningFacts DEF getKeyEpoch
  <1>5. UNCHANGED <<events, checkpoints, head, keys, verifier, report, faults, rekeyed>>
    BY DEF PrepareCheckpoint, Store, Verification
  <1>6. faults = 0 => latest = Len(checkpoints)
    <2> SUFFICES ASSUME faults = 0 PROVE latest = Len(checkpoints)
      OBVIOUS
    <2>1. /\ checkpoints \in Seq(Checkpoint)
          /\ \A c \in DOMAIN checkpoints : checkpoints[c].sequence = c
      BY DEF RegularInv, CheckpointsRegular, Numbered, WitnessInv, WitnessTypes
    <2>2. CASE checkpoints = <<>>
      BY <2>2 DEF getLatestCheckpoint
    <2>3. CASE checkpoints # <<>>
      <3>1. Len(checkpoints) \in DOMAIN checkpoints /\ DOMAIN checkpoints = 1 .. Len(checkpoints)
        BY <2>1, <2>3
      <3>2. /\ latest \in DOMAIN checkpoints
            /\ \A d \in DOMAIN checkpoints :
                 checkpoints[d].sequence =< checkpoints[latest].sequence
        BY <2>3 DEF getLatestCheckpoint
      <3> QED BY <2>1, <3>1, <3>2
    <2> QED BY <2>2, <2>3
  <1>7. \A x \in Writers \ {w} : op[x] = Idle
    BY <1>1, RunningFacts
  <1>8. o.pc = "key" /\ o.latest = latest /\ o.key = keys[head.epoch]
    BY <1>3
  <1>9. KeysInv'
    BY <1>4, <1>5, <1>7, <1>8, KeysStepInv DEF RegularInv
  <1> QED BY <1>1, <1>4, <1>5, <1>6, <1>7, <1>8, <1>9, ReadRegular

LEMMA CheckpointKeyRegular ==
  ASSUME WitnessInv, RegularInv, NEW w \in Writers, CheckpointKey(w)
  PROVE  RegularInv'
  <1>1. op[w].pc = "key"
    BY DEF CheckpointKey
  <1>2. op[w] \in SealOp /\ op[w].head = head /\ \A x \in Writers \ {w} : op[x] = Idle
    BY <1>1, RunningFacts, OperationKinds
  <1>3. PICK k : k = IF op[w].key # 0 THEN op[w].key ELSE made + 1
    OBVIOUS
  <1>4. PICK o : o = [op[w] EXCEPT !.pc = "sign", !.key = k]
    OBVIOUS
  <1>5. o.pc = "sign" /\ o.latest = op[w].latest /\ o.key = k
    BY <1>2, <1>4 DEF SealOp
  <1>6. op' = [op EXCEPT ![w] = o]
    BY <1>3, <1>4 DEF CheckpointKey, WitnessInv, WitnessTypes
  <1>7. UNCHANGED <<events, checkpoints, head, verifier, report, faults>>
    BY DEF CheckpointKey, Verification
  <1>8. ensureKeyEpoch(head.epoch, op[w].key)
    BY <1>2 DEF CheckpointKey
  <1>9. made \in Nat /\ head.epoch \in 1 .. MaxEpochs + 1
    BY DEF WitnessInv, WitnessTypes, LedgerHead
  <1>10. /\ rekeyed => rekeyed'
         /\ rekeyed' \/ \A x \in 1 .. MaxEpochs + 1 : keys[x] # 0 => keys'[x] = keys[x]
         /\ op[w].key # 0 => keys' = keys
         /\ op[w].key = 0 => keys'[head.epoch] = made + 1
    BY <1>8, <1>9, KeysEnsured DEF WitnessInv
  <1>11. ~rekeyed => op[w].key \in {0, keys[head.epoch]}
    BY <1>1 DEF RegularInv, KeysInv
  <1>12. ~rekeyed' => k # 0 /\ k = keys'[head'.epoch]
    BY <1>3, <1>7, <1>9, <1>10, <1>11
  <1>13. KeysInv'
    BY <1>2, <1>5, <1>6, <1>7, <1>10, <1>12, KeysStepInv DEF RegularInv
  <1>14. faults = 0 => o.latest = Len(checkpoints)
    BY <1>1, <1>5 DEF RegularInv, CheckpointsRegular
  <1> QED BY <1>1, <1>2, <1>5, <1>6, <1>7, <1>10, <1>13, <1>14, ReadRegular

LEMMA RotateKeyRegular ==
  ASSUME WitnessInv, RegularInv, NEW w \in Writers, RotateKey(w)
  PROVE  RegularInv'
  <1>1. op[w].pc = "newkey"
    BY DEF RotateKey
  <1>2. op[w] \in RotateOp /\ \A x \in Writers \ {w} : op[x] = Idle
    BY <1>1, RunningFacts, OperationKinds
  <1>3. PICK o : o = [op[w] EXCEPT !.pc = "rotate"]
    OBVIOUS
  <1>4. o.pc = "rotate" /\ op' = [op EXCEPT ![w] = o]
    BY <1>2, <1>3 DEF RotateKey, RotateOp
  <1>5. UNCHANGED <<events, checkpoints, head, verifier, report, faults>>
    BY DEF RotateKey, Verification
  <1>6. /\ rekeyed => rekeyed'
        /\ rekeyed' \/ \A x \in 1 .. MaxEpochs + 1 : keys[x] # 0 => keys'[x] = keys[x]
    BY KeysEnsured DEF RotateKey, WitnessInv
  <1>7. KeysInv'
    BY <1>2, <1>4, <1>5, <1>6, KeysStepInv DEF RegularInv
  <1> QED BY <1>1, <1>2, <1>4, <1>5, <1>6, <1>7, ReadRegular

LEMMA RotateHeadRegular ==
  ASSUME WitnessInv, RegularInv, NEW w \in Writers, RotateHead(w)
  PROVE  RegularInv'
  <1>1. op[w].pc = "rotate"
    BY DEF RotateHead
  <1>2. op[w].head = head /\ \A x \in Writers \ {w} : op[x] = Idle
    BY <1>1, RunningFacts
  <1>3. PICK h : h = [head EXCEPT !.epoch = head.epoch + 1]
    OBVIOUS
  <1>4. PICK o : /\ op' = [op EXCEPT ![w] = o]
                 /\ o = IF h.lastSequence = 0 THEN Idle
                        ELSE [pc |-> "checkpoint", head |-> h, event |-> 0]
    BY <1>2, <1>3 DEF RotateHead, WitnessInv, WitnessTypes, LedgerHead
  <1>5. o.pc \in {"idle", "checkpoint"}
    BY <1>4 DEF Idle
  <1>6. head' = h
    BY <1>2, <1>3 DEF RotateHead, WitnessInv, WitnessTypes, LedgerHead
  <1>7. /\ head'.lastEvent = head.lastEvent /\ head'.lastSequence = head.lastSequence
        /\ head'.checkpointSequence = head.checkpointSequence
    BY <1>3, <1>6 DEF WitnessInv, WitnessTypes, LedgerHead
  <1>8. UNCHANGED <<events, checkpoints, keys, verifier, report, faults, rekeyed>>
    BY DEF RotateHead, Verification
  <1>9. KeysInv'
    BY <1>2, <1>4, <1>5, <1>8, KeysStepInv DEF RegularInv
  <1> QED BY <1>1, <1>2, <1>4, <1>5, <1>7, <1>8, <1>9, ReadRegular

LEMMA FaultRegular ==
  ASSUME WitnessInv, RegularInv, Restart \/ \E w \in Writers : StoreFails(w)
  PROVE  RegularInv'
  <1>1. faults' \in Nat /\ faults' # 0
    BY DEF RegularInv, Restart, StoreFails
  <1>2. UNCHANGED <<checkpoints, keys, head, rekeyed>>
    BY DEF Restart, StoreFails, Store
  <1>3. \A x \in Writers : op'[x] = op[x] \/ op'[x].pc = "idle"
    BY DEF Restart, StoreFails, Idle, WitnessInv, WitnessTypes
  <1>4. KeysInv'
    BY <1>2, <1>3 DEF RegularInv, KeysInv
  <1> QED BY <1>1, <1>4 DEF RegularInv

LEMMA PutEventRegular ==
  ASSUME WitnessInv, RegularInv, NEW w \in Writers, PutEvent(w)
  PROVE  RegularInv'
  <1>1. op[w].pc = "put"
    BY DEF PutEvent
  <1>2. op[w].head = head /\ \A x \in Writers \ {w} : op[x] = Idle
    BY <1>1, RunningFacts
  <1>3. PICK o : o = [pc |-> "save", head |-> head, event |-> Len(events) + 1]
    OBVIOUS
  <1>4. o.pc = "save" /\ op' = [op EXCEPT ![w] = o]
    BY <1>2, <1>3 DEF PutEvent
  <1>5. UNCHANGED <<checkpoints, head, keys, verifier, report, faults, rekeyed>>
    BY DEF PutEvent, Verification
  <1>6. PICK e : /\ events' = Append(events, e)
                 /\ e.sequence = head.lastSequence + 1 /\ e.previous = head.lastEvent
    BY <1>2 DEF PutEvent
  <1>7. events \in Seq(Event) /\ events' \in Seq(Event) /\ head.lastEvent \in Nat
    BY PutEventStep DEF WitnessInv, WitnessTypes, LedgerHead
  <1>8. /\ Len(events') = Len(events) + 1 /\ events'[Len(events) + 1] = e
        /\ \A i \in DOMAIN events : events'[i] = events[i]
        /\ DOMAIN events = 1 .. Len(events) /\ DOMAIN events' = 1 .. Len(events) + 1
        /\ Len(events) \in Nat
    BY <1>6, <1>7
  <1>9. ~Saving /\ ~Sealing /\ Saving' /\ ~Sealing'
    BY <1>1, <1>2, <1>4, OneRuns, OneRunsNext DEF WitnessInv
  <1>10. KeysInv'
    BY <1>2, <1>4, <1>5, KeysStepInv DEF RegularInv
  <1> SUFFICES ASSUME faults = 0
               PROVE  EventsRegular' /\ CheckpointsRegular' /\ VerifierInv'
    BY <1>5, <1>10 DEF RegularInv
  <1>11. EventsRegular /\ CheckpointsRegular /\ VerifierInv
    BY DEF RegularInv
  <1>12. Len(events) = head.lastEvent /\ head.lastSequence = head.lastEvent
    BY <1>7, <1>9, <1>11 DEF EventsRegular
  <1>13. EventsRegular'
    <2>1. \A i \in 1 .. Len(events) : events'[i].sequence = i /\ events'[i].previous = i - 1
      BY <1>8, <1>11 DEF EventsRegular
    <2>2. e.sequence = Len(events) + 1 /\ e.previous = Len(events)
      BY <1>6, <1>12
    <2>3. \A i \in DOMAIN events' : events'[i].sequence = i /\ events'[i].previous = i - 1
      BY <1>8, <2>1, <2>2
    <2> QED BY <1>5, <1>8, <1>9, <1>12, <2>3 DEF EventsRegular
  <1>14. CheckpointsRegular'
    <2>1. \A x \in Writers : op'[x].pc \notin {"key", "sign"}
      BY <1>2, <1>4, OneRunsNext DEF WitnessInv
    <2> QED BY <1>5, <1>9, <1>11, <2>1 DEF CheckpointsRegular, Numbered
  <1>15. VerifierInv'
    BY <1>5, <1>8, <1>11, VerifierKept
  <1> QED BY <1>13, <1>14, <1>15

LEMMA SaveHeadRegular ==
  ASSUME WitnessInv, RegularInv, NEW w \in Writers, SaveHead(w)
  PROVE  RegularInv'
  <1>1. op[w].pc = "save"
    BY DEF SaveHead
  <1>2. /\ op[w].head = head /\ op[w].event = Len(events)
        /\ \A x \in Writers \ {w} : op[x] = Idle
    BY <1>1, RunningFacts DEF WorkInv
  <1>3. PICK h : h = [head EXCEPT !.lastSequence = head.lastSequence + 1,
                                  !.lastEvent = Len(events)]
    OBVIOUS
  <1>4. head' = h
    BY <1>2, <1>3 DEF SaveHead, WitnessInv, WitnessTypes, LedgerHead
  <1>5. /\ h.lastSequence = head.lastSequence + 1 /\ h.lastEvent = Len(events)
        /\ h.checkpointSequence = head.checkpointSequence
        /\ head.lastSequence \in Nat /\ head.lastEvent \in Nat /\ Len(events) \in Nat
    BY <1>3 DEF WitnessInv, WitnessTypes, LedgerHead
  <1>6. PICK o : /\ op' = [op EXCEPT ![w] = o]
                 /\ o = Idle \/ o = [pc |-> "checkpoint", head |-> h, event |-> Len(events)]
    BY <1>2, <1>3 DEF SaveHead, WitnessInv, WitnessTypes, LedgerHead
  <1>7. o.pc \in {"idle", "checkpoint"}
    BY <1>6 DEF Idle
  <1>8. UNCHANGED <<events, checkpoints, keys, verifier, report, faults, rekeyed>>
    BY DEF SaveHead, Verification
  <1>9. Saving /\ ~Sealing /\ ~Saving' /\ ~Sealing'
    BY <1>1, <1>2, <1>6, <1>7, OneRuns, OneRunsNext DEF WitnessInv
  <1>10. KeysInv'
    BY <1>2, <1>6, <1>7, <1>8, KeysStepInv DEF RegularInv
  <1> SUFFICES ASSUME faults = 0
               PROVE  EventsRegular' /\ CheckpointsRegular' /\ VerifierInv'
    BY <1>8, <1>10 DEF RegularInv
  <1>11. EventsRegular /\ CheckpointsRegular /\ VerifierInv
    BY DEF RegularInv
  <1>12. EventsRegular'
    BY <1>4, <1>5, <1>8, <1>9, <1>11 DEF EventsRegular
  <1>13. CheckpointsRegular'
    <2>1. \A x \in Writers : op'[x].pc \notin {"key", "sign"}
      BY <1>2, <1>6, <1>7, OneRunsNext DEF WitnessInv
    <2>2. \A c \in DOMAIN checkpoints : Numbered(c)'
      <3>1. \A c \in DOMAIN checkpoints : Numbered(c) /\ checkpoints[c].end \in Nat
        <4>1. \A c \in DOMAIN checkpoints : checkpoints[c] \in Checkpoint
          BY DEF WitnessInv, WitnessTypes
        <4> QED BY <1>11, <4>1 DEF CheckpointsRegular, Checkpoint
      <3> QED BY <1>4, <1>5, <1>8, <3>1 DEF Numbered
    <2> QED BY <1>4, <1>5, <1>8, <1>9, <1>11, <2>1, <2>2 DEF CheckpointsRegular
  <1>14. VerifierInv'
    BY <1>5, <1>8, <1>11, VerifierKept
  <1> QED BY <1>12, <1>13, <1>14

\* A checkpoint starts where the one before it does, or later.
LEMMA PutCheckpointRegular ==
  ASSUME WitnessInv, RegularInv, NEW w \in Writers, PutCheckpoint(w)
  PROVE  RegularInv'
  <1>1. op[w].pc = "sign"
    BY DEF PutCheckpoint
  <1>2. /\ op[w] \in SealOp /\ op[w].head = head /\ WorkInv(op[w])
        /\ \A x \in Writers \ {w} : op[x] = Idle
    BY <1>1, RunningFacts, OperationKinds
  <1>3. PICK n \in Nat : n = Len(checkpoints)
    BY DEF WitnessInv, WitnessTypes
  <1>4. PICK latest, start : latest = op[w].latest /\ start = startEventSequence(latest, head)
    OBVIOUS
  <1>5. PICK c : /\ checkpoints' = Append(checkpoints, c)
                 /\ c = [sequence |-> head.checkpointSequence + 1, start |-> start,
                         end |-> head.lastSequence, previous |-> latest,
                         ledgerHead |-> head.lastEvent, epoch |-> head.epoch,
                         key |-> op[w].key]
    BY <1>2, <1>4 DEF PutCheckpoint
  <1>6. PICK o : o = [op[w] EXCEPT !.pc = "seal", !.latest = n + 1]
    OBVIOUS
  <1>7. o.pc = "seal" /\ op' = [op EXCEPT ![w] = o]
    BY <1>2, <1>3, <1>6 DEF PutCheckpoint, SealOp
  <1>8. UNCHANGED <<events, head, keys, verifier, report, faults, rekeyed>>
    BY DEF PutCheckpoint, Verification
  <1>9. /\ DOMAIN checkpoints = 1 .. n /\ DOMAIN checkpoints' = 1 .. n + 1
        /\ Len(checkpoints') = n + 1 /\ checkpoints'[n + 1] = c
        /\ \A b \in 1 .. n : checkpoints'[b] = checkpoints[b]
    BY <1>3, <1>5 DEF WitnessInv, WitnessTypes
  <1>10. ~Saving /\ ~Sealing /\ ~Saving' /\ Sealing'
    BY <1>1, <1>2, <1>7, OneRuns, OneRunsNext DEF WitnessInv
  <1>11. /\ head.lastSequence \in Nat \ {0} /\ head.lastEvent \in Nat
         /\ head.checkpointSequence \in Nat /\ head.epoch \in 1 .. MaxEpochs + 1
    BY <1>1, <1>2 DEF WorkInv, WitnessInv, WitnessTypes, LedgerHead
  <1>12. KeysInv'
    <2> SUFFICES ASSUME ~rekeyed PROVE KeysInv'
      BY <1>8 DEF KeysInv
    <2>1. \A x \in Writers : op'[x].pc \notin {"key", "sign"}
      BY <1>2, <1>7, OneRunsNext DEF WitnessInv
    <2>2. c.epoch = head.epoch /\ c.key = op[w].key
      BY <1>5
    <2>3. c.key # 0 /\ keys[c.epoch] = c.key
      BY <1>1, <2>2 DEF RegularInv, KeysInv
    <2>4. \A b \in 1 .. n : /\ checkpoints[b].epoch \in 1 .. MaxEpochs + 1
                            /\ checkpoints[b].key # 0
                            /\ keys[checkpoints[b].epoch] = checkpoints[b].key
      BY <1>9 DEF RegularInv, KeysInv
    <2>5. \A b \in 1 .. n + 1 : /\ checkpoints'[b].epoch \in 1 .. MaxEpochs + 1
                                /\ checkpoints'[b].key # 0
                                /\ keys[checkpoints'[b].epoch] = checkpoints'[b].key
      <3> SUFFICES ASSUME NEW b \in 1 .. n + 1
                   PROVE  /\ checkpoints'[b].epoch \in 1 .. MaxEpochs + 1
                          /\ checkpoints'[b].key # 0
                          /\ keys[checkpoints'[b].epoch] = checkpoints'[b].key
        OBVIOUS
      <3>1. CASE b = n + 1
        BY <1>9, <1>11, <2>2, <2>3, <3>1
      <3>2. CASE b # n + 1
        <4>1. b \in 1 .. n BY <3>2
        <4> QED BY <1>9, <2>4, <4>1
      <3> QED BY <3>1, <3>2
    <2> QED BY <1>8, <1>9, <2>1, <2>5 DEF KeysInv
  <1> SUFFICES ASSUME faults = 0
               PROVE  EventsRegular' /\ CheckpointsRegular' /\ VerifierInv'
    BY <1>8, <1>12 DEF RegularInv
  <1>13. EventsRegular /\ CheckpointsRegular /\ VerifierInv
    BY DEF RegularInv
  <1>14. EventsRegular'
    BY <1>8, <1>10, <1>13 DEF EventsRegular
  <1>15. \A b \in 1 .. n :
           /\ Numbered(b) /\ checkpoints[b].start \in Nat /\ checkpoints[b].end \in Nat
           /\ checkpoints[b].start =< checkpoints[b].end
           /\ checkpoints[b].end =< head.lastSequence /\ checkpoints[b].start # 0
    <2> SUFFICES ASSUME NEW b \in 1 .. n
                 PROVE  /\ Numbered(b)
                        /\ checkpoints[b].start \in Nat /\ checkpoints[b].end \in Nat
                        /\ checkpoints[b].start =< checkpoints[b].end
                        /\ checkpoints[b].end =< head.lastSequence
                        /\ checkpoints[b].start # 0
      OBVIOUS
    <2>1. checkpoints[b] \in Checkpoint
      BY <1>9 DEF WitnessInv, WitnessTypes
    <2>2. Numbered(b)
      BY <1>9, <1>13 DEF CheckpointsRegular
    <2> QED BY <2>1, <2>2 DEF Numbered, Checkpoint
  <1>16. latest = n /\ n = head.checkpointSequence /\ head.lastEvent = head.lastSequence
    BY <1>1, <1>3, <1>4, <1>10, <1>11, <1>13 DEF CheckpointsRegular, EventsRegular
  <1>17. /\ start \in 1 .. head.lastSequence
         /\ n # 0 => checkpoints[n].start =< start
    <2>1. CASE n = 0
      BY <1>4, <1>11, <1>16, <2>1 DEF startEventSequence
    <2>2. CASE n # 0
      <3>1. n \in 1 .. n
        BY <2>2
      <3>2. PICK a \in Nat : a = checkpoints[n].end + 1
        BY <1>15, <3>1
      <3>3. \E x \in {a, head.lastSequence} : \A y \in {a, head.lastSequence} : x =< y
        BY <1>11, <3>2
      <3>4. Min({a, head.lastSequence}) \in {a, head.lastSequence}
            /\ Min({a, head.lastSequence}) =< head.lastSequence
        BY <3>3 DEF Min
      <3>5. start = Min({a, head.lastSequence})
        BY <1>4, <1>16, <2>2, <3>2 DEF startEventSequence
      <3>6. checkpoints[n].start =< a /\ checkpoints[n].start =< head.lastSequence /\ a # 0
        BY <1>11, <1>15, <3>1, <3>2
      <3> QED BY <1>11, <3>2, <3>4, <3>5, <3>6
    <2> QED BY <2>1, <2>2
  <1>18. \A b \in 1 .. n : checkpoints[b].start =< start
    <2> SUFFICES ASSUME NEW b \in 1 .. n PROVE checkpoints[b].start =< start
      OBVIOUS
    <2>1. n \in 1 .. n /\ b =< n
      OBVIOUS
    <2>2. checkpoints[b].start =< checkpoints[n].start
      BY <1>9, <1>13, <2>1 DEF CheckpointsRegular
    <2>3. checkpoints[b].start \in Nat /\ checkpoints[n].start \in Nat
      BY <1>15, <2>1
    <2> QED BY <1>11, <1>17, <2>1, <2>2, <2>3
  <1>19. CheckpointsRegular'
    <2>1. \A x \in Writers : op'[x].pc \notin {"key", "sign"}
      BY <1>2, <1>7, OneRunsNext DEF WitnessInv
    <2>2. ASSUME NEW b \in 1 .. n + 1
          PROVE  Numbered(b)'
      <3>1. CASE b = n + 1
        BY <1>5, <1>8, <1>9, <1>11, <1>16, <1>17, <3>1 DEF Numbered
      <3>2. CASE b # n + 1
        <4>1. b \in 1 .. n BY <3>2
        <4> QED BY <1>8, <1>9, <1>15, <4>1 DEF Numbered
      <3> QED BY <3>1, <3>2
    <2>3. ASSUME NEW b \in 1 .. n + 1, NEW d \in 1 .. n + 1, b =< d
          PROVE  checkpoints'[b].start =< checkpoints'[d].start
      <3>1. c.start = start
        BY <1>5
      <3>2. CASE d \in 1 .. n
        <4>1. b \in 1 .. n BY <2>3, <3>2
        <4> QED BY <1>9, <1>13, <2>3, <3>2, <4>1 DEF CheckpointsRegular
      <3>3. CASE d = n + 1 /\ b \in 1 .. n
        BY <1>9, <1>18, <3>1, <3>3
      <3>4. CASE d = n + 1 /\ b = n + 1
        BY <1>9, <1>11, <1>17, <3>1, <3>4
      <3> QED BY <3>2, <3>3, <3>4
    <2>4. Len(checkpoints') = head.checkpointSequence + 1
      BY <1>9, <1>16
    <2> QED BY <1>8, <1>9, <1>10, <2>1, <2>2, <2>3, <2>4 DEF CheckpointsRegular
  <1>20. VerifierInv'
    BY <1>8, <1>9, <1>13, VerifierKept DEF WitnessInv, WitnessTypes
  <1> QED BY <1>14, <1>19, <1>20

LEMMA SealHeadRegular ==
  ASSUME WitnessInv, RegularInv, NEW w \in Writers, SealHead(w)
  PROVE  RegularInv'
  <1>1. op[w].pc = "seal"
    BY DEF SealHead
  <1>2. op[w].head = head /\ \A x \in Writers \ {w} : op[x] = Idle
    BY <1>1, RunningFacts
  <1>3. op' = [op EXCEPT ![w] = Idle] /\ Idle.pc = "idle"
    BY DEF SealHead, Idle
  <1>4. head' = [head EXCEPT !.checkpointSequence = head.checkpointSequence + 1,
                             !.lastCheckpoint = op[w].latest]
    BY <1>2 DEF SealHead, WitnessInv, WitnessTypes, LedgerHead
  <1>5. /\ head'.lastSequence = head.lastSequence /\ head'.lastEvent = head.lastEvent
        /\ head'.checkpointSequence = head.checkpointSequence + 1
        /\ head.checkpointSequence \in Nat
    BY <1>4 DEF WitnessInv, WitnessTypes, LedgerHead
  <1>6. UNCHANGED <<events, checkpoints, keys, verifier, report, faults, rekeyed>>
    BY DEF SealHead, Verification
  <1>7. ~Saving /\ Sealing /\ ~Saving' /\ ~Sealing'
    BY <1>1, <1>2, <1>3, OneRuns, OneRunsNext DEF WitnessInv
  <1>8. KeysInv'
    BY <1>2, <1>3, <1>6, KeysStepInv DEF RegularInv
  <1> SUFFICES ASSUME faults = 0
               PROVE  EventsRegular' /\ CheckpointsRegular' /\ VerifierInv'
    BY <1>6, <1>8 DEF RegularInv
  <1>9. EventsRegular'
    BY <1>5, <1>6, <1>7 DEF RegularInv, EventsRegular
  <1>10. CheckpointsRegular'
    <2>1. \A x \in Writers : op'[x].pc \notin {"key", "sign"}
      BY <1>2, <1>3, OneRunsNext DEF WitnessInv
    <2> QED BY <1>5, <1>6, <1>7, <2>1 DEF RegularInv, CheckpointsRegular, Numbered
  <1>11. VerifierInv'
    <2>1. Len(events) \in Nat
      BY DEF WitnessInv, WitnessTypes
    <2> QED BY <1>6, <2>1, VerifierKept DEF RegularInv
  <1> QED BY <1>9, <1>10, <1>11

\* A verification's own steps.
LEMMA VerifyRegular ==
  ASSUME WitnessInv, RegularInv,
         (\E from \in Ranges : ListEvents(from)) \/ ListCheckpoints \/ ReceiptHead \/ PutReport
  PROVE  RegularInv'
  <1>1. UNCHANGED <<events, checkpoints, head, op, faults>>
    BY DEF ListEvents, ListCheckpoints, ReceiptHead, PutReport, Store
  <1>2. /\ rekeyed => rekeyed'
        /\ rekeyed' \/ \A x \in 1 .. MaxEpochs + 1 : keys[x] # 0 => keys'[x] = keys[x]
    <2>1. CASE PutReport
      BY <2>1, KeysEnsured DEF PutReport, WitnessInv
    <2>2. CASE ~PutReport
      BY <2>2 DEF ListEvents, ListCheckpoints, ReceiptHead, Store
    <2> QED BY <2>1, <2>2
  <1>3. KeysInv'
    <2> SUFFICES ASSUME ~rekeyed' PROVE KeysInv'
      BY DEF KeysInv
    <2>1. ~rekeyed /\ \A x \in 1 .. MaxEpochs + 1 : keys[x] # 0 => keys'[x] = keys[x]
      BY <1>2
    <2>2. head.epoch \in 1 .. MaxEpochs + 1
      BY DEF WitnessInv, WitnessTypes, LedgerHead
    <2>3. ASSUME NEW x \in Writers
          PROVE  /\ op[x].pc = "key" => op[x].key \in {0, keys'[head.epoch]}
                 /\ op[x].pc = "sign" => op[x].key # 0 /\ op[x].key = keys'[head.epoch]
      <3>1. /\ op[x].pc = "key" => op[x].key \in {0, keys[head.epoch]}
            /\ op[x].pc = "sign" => op[x].key # 0 /\ op[x].key = keys[head.epoch]
        BY <2>1 DEF RegularInv, KeysInv
      <3> QED BY <2>1, <2>2, <3>1
    <2>4. \A c \in DOMAIN checkpoints :
            /\ checkpoints[c].epoch \in 1 .. MaxEpochs + 1
            /\ checkpoints[c].key # 0 /\ keys'[checkpoints[c].epoch] = checkpoints[c].key
      BY <2>1 DEF RegularInv, KeysInv
    <2> QED BY <1>1, <2>3, <2>4 DEF KeysInv
  <1> SUFFICES ASSUME faults = 0
               PROVE  EventsRegular' /\ CheckpointsRegular' /\ VerifierInv'
    BY <1>1, <1>3 DEF RegularInv
  <1>4. EventsRegular' /\ CheckpointsRegular'
    BY <1>1 DEF RegularInv, EventsRegular, CheckpointsRegular, Numbered, Saving, Sealing
  <1>5. ASSUME NEW r, Exact(r)
        PROVE  Exact(r)'
    BY <1>1, <1>2, <1>5, ExactKept
  <1>6. VerifierInv /\ Len(events) \in Nat
    BY DEF RegularInv, WitnessInv, WitnessTypes
  <1>7. CASE \E from \in Ranges : ListEvents(from)
    <2>1. /\ verifier'.pc = "list" /\ verifier'.listed = Len(events) /\ report' = Idle
      BY <1>7 DEF ListEvents
    <2> QED BY <1>1, <1>4, <1>6, <2>1 DEF VerifierInv
  <1>8. CASE ListCheckpoints
    <2>1. verifier'.pc = "receipt" /\ verifier'.report.whole = (verifier.from = 0)
      BY <1>8, Zenon DEF ListCheckpoints
    <2>2. verifier.from = 0 => Exact(verifier'.report)
      BY <1>8, ReportIsExact
    <2>3. PICK r, q : r = report /\ q = verifier'.report
      OBVIOUS
    <2>4. Exact(report) => Exact(report)'
      BY <1>5, <1>8, <2>3 DEF Exact, ListCheckpoints
    <2>5. Exact(verifier'.report) => Exact(verifier.report)'
      BY <1>5, <2>3 DEF Exact
    <2>6. report' = report
      BY <1>8 DEF ListCheckpoints
    <2>7. VerifierInv'
      BY <1>6, <2>1, <2>2, <2>4, <2>5, <2>6 DEF VerifierInv
    <2> QED BY <1>4, <2>7
  <1>9. CASE ReceiptHead
    <2>1. /\ verifier.pc = "receipt" /\ verifier'.pc = "key"
          /\ verifier'.report = verifier.report /\ report' = report
      BY <1>9 DEF ReceiptHead
    <2>2. PICK r, q : r = report /\ q = verifier.report
      OBVIOUS
    <2>3. Exact(report) => Exact(report)'
      BY <1>5, <2>1, <2>2 DEF Exact
    <2>4. Exact(verifier.report) => Exact(verifier.report)'
      BY <1>5, <2>1, <2>2 DEF Exact
    <2>5. VerifierInv'
      BY <1>6, <2>1, <2>3, <2>4 DEF VerifierInv
    <2> QED BY <1>4, <2>5
  <1>10. CASE PutReport
    <2>1. /\ verifier.pc = "key" /\ verifier'.pc = "idle" /\ report' = verifier.report
      BY <1>10 DEF PutReport, Idle
    <2>2. PICK q : q = verifier.report
      OBVIOUS
    <2>3. Exact(verifier.report) => Exact(report)'
      BY <1>5, <2>1, <2>2 DEF Exact
    <2>4. VerifierInv'
      BY <1>6, <2>1, <2>3 DEF VerifierInv
    <2> QED BY <1>4, <2>4
  <1> QED BY <1>7, <1>8, <1>9, <1>10

LEMMA InitRegular == Init => RegularInv
  <1> SUFFICES ASSUME Init PROVE RegularInv
    OBVIOUS
  <1>1. ~Saving /\ ~Sealing /\ \A w \in Writers : op[w].pc = "idle"
    BY DEF Init, Idle, Saving, Sealing
  <1>2. KeysInv
    BY <1>1 DEF Init, KeysInv
  <1>3. EventsRegular /\ CheckpointsRegular
    BY <1>1 DEF Init, FreshHead, EventsRegular, CheckpointsRegular
  <1>4. VerifierInv
    BY DEF Init, Idle, VerifierInv
  <1> QED BY <1>2, <1>3, <1>4 DEF Init, RegularInv

LEMMA NextRegular == WitnessInv /\ RegularInv /\ [Next]_vars => RegularInv'
  <1> SUFFICES ASSUME WitnessInv, RegularInv, [Next]_vars PROVE RegularInv'
    OBVIOUS
  <1>1. CASE \E w \in Writers : Write(w)
    <2>1. PICK w \in Writers : Write(w)
      BY <1>1
    <2> QED BY <2>1, BeginningsRegular, PutEventRegular, SaveHeadRegular, PrepareRegular,
               CheckpointKeyRegular, PutCheckpointRegular, SealHeadRegular, RotateKeyRegular,
               RotateHeadRegular, FaultRegular DEF Write
  <1>2. CASE \/ \E from \in Ranges : ListEvents(from)
             \/ ListCheckpoints \/ ReceiptHead \/ PutReport
    BY <1>2, VerifyRegular
  <1>3. CASE Restart
    BY <1>3, FaultRegular
  <1>4. CASE UNCHANGED vars
    <2>1. UNCHANGED <<events, checkpoints, head, keys, op, verifier, report, rekeyed, faults>>
      BY <1>4 DEF vars
    <2>2. KeysInv'
      BY <2>1 DEF RegularInv, KeysInv
    <2>3. EventsRegular => EventsRegular'
      BY <2>1 DEF EventsRegular, Saving
    <2>4. CheckpointsRegular => CheckpointsRegular'
      BY <2>1 DEF CheckpointsRegular, Numbered, Sealing
    <2>5. VerifierInv => VerifierInv'
      BY <2>1 DEF VerifierInv, Exact
    <2> QED BY <2>1, <2>2, <2>3, <2>4, <2>5 DEF RegularInv
  <1> QED BY <1>1, <1>2, <1>3, <1>4 DEF Next

\* While no store operation has failed, verify of the whole ledger is exact at
\* whatever step of a writer, of a key creation or of a checkpoint it reads: the
\* events are contiguous and linked, the checkpoint chain is reported broken only
\* when a checkpoint was put between its two queries, and a signature only when
\* two creators of a key epoch overlapped.
THEOREM VerifyCorrect == Spec => []VerifyIsExact
  <1>1. Spec => [](WitnessInv /\ RegularInv)
    BY InitInv, NextInv, InitRegular, NextRegular, PTL DEF Spec
  <1>2. RegularInv => VerifyIsExact
    BY DEF RegularInv, VerifierInv, Exact, VerifyIsExact
  <1> QED BY <1>1, <1>2, PTL

================================================================================
