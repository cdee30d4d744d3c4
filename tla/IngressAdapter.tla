----------------------------- MODULE IngressAdapter -----------------------------
(***************************************************************************)
(* The ingress gateway the server gives its scheduler                      *)
(* (self/cortex/core/src/gateway-runtime/ingress-adapter.ts): envelopes go *)
(* straight to the System backlog.  It keeps a receipt of every key it     *)
(* accepted, for ever, and looks for one before it awaits the backlog.  It *)
(* answers the same callers as Ingress, of which it shares the submissions *)
(* and their history; `via' says which of the two the system was built     *)
(* with.                                                                   *)
(***************************************************************************)
EXTENDS Ingress

VARIABLES
  via,        \* "gateway": IngressGateway; "adapter": this one
  receipts,   \* the keys in the adapter's dedup map
  overlapped  \* the keys of which two deliveries were under way together, or one
              \* of which threw (history)

adapterVars == <<via, receipts, overlapped>>

AdapterTypeOK ==
  /\ via \in {"gateway", "adapter"}
  /\ receipts \subseteq Key /\ overlapped \subseteq Key

AdapterInit == via \in {"gateway", "adapter"} /\ receipts = {} /\ overlapped = {}

UnderWay(k) == {c \in Caller : KeyOf(c) = k /\ sub[c].at \in {"admit", "started"}}

\* A receipt is on record.
AdapterDuplicate(c) ==
  /\ At(c, "received") /\ KeyOf(c) \in receipts
  /\ Answer(c, "accepted_already_dispatched")
  /\ UNCHANGED <<now, storeVars, historyVars, adapterVars>>

\* Faulty: the receipt is not looked for.
AdapterLookupSkipped(c) ==
  /\ At(c, "received")
  /\ Go(c, "admit")
  /\ overlapped' = IF UnderWay(KeyOf(c)) # {} THEN overlapped \cup {KeyOf(c)} ELSE overlapped
  /\ UNCHANGED <<now, storeVars, historyVars, via, receipts>>

\* None is: submitIngressEnvelope is awaited.
AdapterLookup(c) ==
  /\ At(c, "received") /\ KeyOf(c) \notin receipts
  /\ Go(c, "admit")
  /\ overlapped' = IF UnderWay(KeyOf(c)) # {} THEN overlapped \cup {KeyOf(c)} ELSE overlapped
  /\ UNCHANGED <<now, storeVars, historyVars, via, receipts>>

\* The backlog stores the entry.
AdapterEnqueue(c) ==
  /\ At(c, "admit")
  /\ started' = [started EXCEPT ![KeyOf(c)] = @ + 1]
  /\ Go(c, "started")
  /\ UNCHANGED <<now, storeVars, accepted, refused, dropped, adapterVars>>

\* The backlog fails, before or after it stored the entry, and so does submit().
AdapterThrows(c) ==
  /\ At(c, "admit") \/ At(c, "started")
  /\ Answer(c, "thrown")
  /\ overlapped' = overlapped \cup {KeyOf(c)}
  /\ UNCHANGED <<now, storeVars, historyVars, via, receipts>>

AdapterAccept(c) ==
  /\ At(c, "started")
  /\ receipts' = receipts \cup {KeyOf(c)}
  /\ Answer(c, "accepted_dispatched")
  /\ accepted' = [accepted EXCEPT ![KeyOf(c)] = @ + 1]
  /\ UNCHANGED <<now, storeVars, started, refused, dropped, via, overlapped>>

AdapterStep(c) ==
  \/ AdapterDuplicate(c) \/ AdapterLookup(c) \/ AdapterEnqueue(c) \/ AdapterThrows(c)
  \/ AdapterAccept(c)
  \/ Invalid(c) /\ UNCHANGED adapterVars

\* Either of the two serves every caller.
SubmitStep(c) ==
  \/ via = "gateway" /\ IngressStep(c) /\ UNCHANGED adapterVars
  \/ via = "adapter" /\ AdapterStep(c)

--------------------------------------------------------------------------------
(* Properties. *)

\* What the state says of each key in the terms of DispatchOnce.  (Of the adapter,
\* which does not keep its promise, nothing is mapped.)
KeyPhase ==
  [k \in Key |-> IF via = "adapter" THEN "free"
                 ELSE IF accepted[k] > 0 THEN "accepted"
                 ELSE IF \E c \in Caller : Starting(c, k) THEN "started"
                 ELSE IF \E c \in Caller : Holding(c, k) THEN "held" ELSE "free"]
KeyRuns == [k \in Key |-> IF via = "adapter" THEN 0 ELSE started[k]]

Once == INSTANCE DispatchOnce WITH phase <- KeyPhase, runs <- KeyRuns

\* The gateway implements DispatchOnce: 'same source_id+idempotency_key never
\* creates a second run', however deliveries overlap, claims expire, admission
\* fails and envelopes are sent again; only a delivery that was rejected or threw
\* leaves the key to another.
DispatchedOnce == Once!OnceSpec

\* The adapter queues a key twice only if two deliveries of it overlapped, or one
\* ended with an exception: overlapping calls of dispatchDueSchedules, and a retry
\* after the backlog stored the entry and failed, both do.  A delivery that comes
\* after an accepted one never does, however long after.
AdapterQueuesOnce ==
  via = "adapter" => \A k \in Key \ overlapped : started[k] =< 1

================================================================================
