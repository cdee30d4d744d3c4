------------------------------ MODULE AgentGateway ------------------------------
(***************************************************************************)
(* Agents and the model lane they share                                    *)
(* (self/cortex/core/src/agent-gateway/, internal-mcp/lifecycle-handlers,  *)
(* gateway-runtime/cortex-runtime.ts for dispatchChild).                   *)
(*                                                                         *)
(* An agent runs turns: drain the inbox, call the model through its lane,  *)
(* handle the tool calls of the answer, acknowledge the turn, look at the  *)
(* budget.  dispatch_* calls run child agents on the same lane while the   *)
(* parent awaits them, several at once when one answer holds several.      *)
(* One action per stretch of code between two awaits.                      *)
(*                                                                         *)
(* Prompts, contexts and tool results are data no property looks at; token *)
(* and time budgets are the free choice "spent" of EndTurn and the extra   *)
(* units of Collect.  The path with maxConcurrent > 1 is not modelled: all *)
(* profiles set it to 1.                                                   *)
(***************************************************************************)
EXTENDS InferenceLane

CONSTANTS
  Roots,       \* the long-lived gateways the runtime calls (Principal, System)
  Kids,        \* Kids[a]: the child gateways a may create by dispatching
  Streamers,   \* agents without tools behind a streaming provider
  Answers,     \* Answers[a]: the tool-call lists its model may answer with
  MaxTurns,    \* DEFAULT_TOP_LEVEL_BUDGET.maxTurns
  ChildTurns,  \* DEFAULT_CHILD_BUDGET.maxTurns, for a request without a budget
  Ceiling,     \* spawnBudgetCeiling
  Estimates,   \* Estimates[k]: units the request for child k may be estimated at;
               \* 0: it has no budget
  ExtraUnits,  \* bound on the token and time units of a child beyond its turns
  MaxBatch,    \* the most dispatch calls in one answer of Answers
  MaxRuns,     \* MaxRuns[a]: bound on the runs of root a
  Abortable,   \* the roots an abort is sent to
  MaxUpsets    \* bound on failures, aborts and voice calls, taken together

Calls == {"tool", "dispatch", "task_complete", "request_escalation", "flag_observation"}

ASSUME GatewayAssumption ==
  /\ Roots \subseteq Callers
  /\ Kids \in [Callers -> SUBSET (Callers \ Roots)]
  /\ \A a, b \in Callers : a # b => Kids[a] \cap Kids[b] = {}
  /\ \A a \in Callers : a \notin Kids[a]
  /\ Streamers \subseteq Callers /\ Abortable \subseteq Roots
  /\ {MaxTurns, ChildTurns} \subseteq Nat \ {0} /\ Ceiling \in Nat /\ ExtraUnits \in Nat
  /\ \A a \in Callers : Estimates[a] \subseteq Nat
  /\ \A a \in Callers : Answers[a] \subseteq Seq(Calls)

VARIABLES
  agent,   \* per agent: where its run() stands, its budget tracker, its result
  abort,   \* abort[a]: an abort message is in the inbox
  runs, upsets   \* counters for the bounds

gatewayVars == <<agent, abort, runs, upsets>>
vars == <<laneVars, gatewayVars>>

Steps == {"idle", "loop", "ready", "fallback", "waiting", "calls", "kids", "ack",
          "final", "done"}
Results == {"none", "completed", "escalated", "aborted", "budget_exhausted", "error",
            "suspended"}

Fresh(limit) ==
  [pc |-> "loop", result |-> "none", calls |-> <<>>, kids |-> {}, turns |-> 0,
   limit |-> limit, spawned |-> 0, exceeded |-> FALSE, unpriced |-> 0, late |-> 0]
Idle == [Fresh(0) EXCEPT !.pc = "idle"]
\* budget.maxTurns of the run; limit = 0: no budget was given.
TurnLimit(a) ==
  IF a \in Roots THEN MaxTurns
  ELSE IF agent[a].limit = 0 THEN ChildTurns ELSE agent[a].limit

\* Sanity of the state's shape.
TypeOK ==
  /\ LaneTypeOK
  /\ agent \in [Callers -> [pc : Steps, result : Results, calls : Seq(Calls),
                            kids : SUBSET Callers, turns : Nat, limit : Nat, spawned : Nat,
                            exceeded : BOOLEAN, unpriced : Nat, late : Nat]]
  /\ abort \in [Callers -> BOOLEAN]
  /\ runs \in [Callers -> Nat]
  /\ upsets \in Nat

Init ==
  /\ LaneInit
  /\ agent = [a \in Callers |-> Idle]
  /\ abort = [a \in Callers |-> FALSE]
  /\ runs = [a \in Callers |-> 0]
  /\ upsets = 0

At(a, pc) == agent[a].pc = pc
\* a's run() goes on at step pc / ends with a result still to be witnessed.
Go(a, pc) == agent' = [agent EXCEPT ![a].pc = pc]
End(a, result) == agent' = [agent EXCEPT ![a].pc = "final", ![a].result = result]
Counters == <<abort, runs, upsets>>

Upset == upsets < MaxUpsets /\ upsets' = upsets + 1
\* A provider, a witness append, an outbox write or a hook that fails.
Fault == Upset /\ UNCHANGED <<abort, runs>>

-------------------------------------------------------------------------------
(* The turn loop. *)

StartRun(a) ==
  /\ a \in Roots /\ At(a, "idle") /\ runs[a] < MaxRuns[a]
  /\ agent' = [agent EXCEPT ![a] = Fresh(0)]
  /\ runs' = [runs EXCEPT ![a] = @ + 1]
  /\ UNCHANGED <<abort, upsets, laneVars>>

\* Faulty: the abort is read, and the turn goes on.
DrainDeaf(a) ==
  /\ At(a, "loop") /\ Go(a, "ready")
  /\ UNCHANGED <<Counters, laneVars>>

\* applyInboxMessages at the head of the loop: the inbox is emptied and an abort
\* ends the run.
Drain(a) ==
  /\ At(a, "loop")
  /\ IF abort[a] THEN End(a, "aborted") ELSE Go(a, "ready")
  /\ abort' = [abort EXCEPT ![a] = FALSE]
  /\ UNCHANGED <<runs, upsets, laneVars>>

\* The call enters the lane; a call made with an abort in the inbox is counted.
CallModel(a, kind) ==
  /\ Submit(a, kind)
  /\ agent' = [agent EXCEPT ![a].pc = "waiting",
                            ![a].late = @ + (IF abort[a] THEN 1 ELSE 0)]
  /\ UNCHANGED Counters

\* LEASE_HELD, thrown by the lane, becomes the result 'suspended'.
Suspend(a) ==
  /\ LeaseHeld
  /\ End(a, "suspended")
  /\ UNCHANGED <<Counters, laneVars>>

InvokeModel(a) ==
  /\ At(a, "ready") /\ a \notin Streamers
  /\ CallModel(a, "invoke") \/ Suspend(a)

\* invokeWithStreaming: any error of the stream, LEASE_HELD included, falls back
\* to invoke().
StreamModel(a) ==
  /\ At(a, "ready") /\ a \in Streamers
  /\ \/ CallModel(a, "stream")
     \/ LeaseHeld /\ Go(a, "fallback") /\ UNCHANGED <<Counters, laneVars>>

StreamBroke(a) ==
  /\ At(a, "waiting") /\ EndStream(a)
  /\ Go(a, "fallback")
  /\ UNCHANGED Counters

Fallback(a) ==
  /\ At(a, "fallback")
  /\ CallModel(a, "invoke") \/ Suspend(a)

\* The router or the provider lookup fails before the call.
NoProvider(a) ==
  /\ At(a, "ready") /\ Fault
  /\ End(a, "error")
  /\ UNCHANGED laneVars

\* The model answers.  An answer without tool calls completes the run; its turn
\* is counted without an acknowledgement.
Answered(a) ==
  /\ At(a, "waiting")
  /\ SettleCall(a) \/ EndStream(a)
  /\ \E calls \in Answers[a] :
       agent' = [agent EXCEPT
         ![a].pc = IF calls = <<>> THEN "final" ELSE "calls",
         ![a].result = IF calls = <<>> THEN "completed" ELSE "none",
         ![a].turns = IF calls = <<>> THEN @ + 1 ELSE @,
         ![a].calls = calls]
  /\ UNCHANGED Counters

\* The provider fails a call that was not preempted; a preempted one is queued
\* again by the lane and a goes on waiting.
CallFailed(a) ==
  /\ At(a, "waiting") /\ SettleCall(a) /\ ~ActiveOf(a).preempted
  /\ End(a, "error")
  /\ Fault

CallPreempted(a) ==
  /\ At(a, "waiting") /\ RequeuePreempted(a)
  /\ UNCHANGED gatewayVars

-------------------------------------------------------------------------------
(* Tool calls: dispatches of an answer with several of them first, together;  *)
(* then the calls in order, up to the first terminal one.                      *)

Dispatches(calls) == {i \in DOMAIN calls : calls[i] = "dispatch"}

\* MaxBatch bounds what an answer dispatches.
ASSUME BatchAssumption ==
  /\ MaxBatch \in Nat \ {0}
  /\ \A a \in Callers : \A calls \in Answers[a] : Cardinality(Dispatches(calls)) =< MaxBatch

\* The other calls, in the order of the answer.
OtherCalls(calls) ==
  LET kept == DOMAIN calls \ Dispatches(calls)
      order == Arranged(kept, {r \in kept \X kept : r[1] =< r[2]})
  IN  [p \in DOMAIN order |-> calls[order[p]]]
IsBatch(a) == Cardinality(Dispatches(agent[a].calls)) > 1

\* BudgetTracker.requestSpawn: the estimate is held against what finished
\* children used; what is running is not counted, and a request without a budget
\* is always admitted.
RequestSpawn(a, units) == units = 0 \/ agent[a].spawned + units =< Ceiling

\* The calls left after one is handled; none left ends the turn.
AfterCalls(calls) == IF calls = <<>> THEN "ack" ELSE "calls"

\* dispatchChild: a new gateway whose turn budget is the request's or the default.
StartKids(a, limit) ==
  [k \in Callers |-> IF k \in DOMAIN limit THEN Fresh(limit[k]) ELSE agent[k]]

\* What the requests for the children in R may be estimated at.
RequestsFor(R) == {u \in [R -> UNION {Estimates[k] : k \in R}] : \A k \in R : u[k] \in Estimates[k]}

\* handleDispatchBatch: every request is admitted against the same spent units,
\* then all of them run; K are those the hooks did not refuse.
StartBatch(a) ==
  /\ At(a, "calls") /\ IsBatch(a)
  /\ \E R \in SUBSET Kids[a] :
       /\ Cardinality(R) = Cardinality(Dispatches(agent[a].calls))
       /\ \E units \in RequestsFor(R) :
            LET admitted == {k \in R : RequestSpawn(a, units[k])}
                others == OtherCalls(agent[a].calls) IN
            \E K \in SUBSET admitted :
              agent' = [StartKids(a, [k \in K |-> units[k]]) EXCEPT
                ![a].pc = IF K = {} THEN AfterCalls(others) ELSE "kids",
                ![a].calls = others,
                ![a].kids = K,
                ![a].exceeded = @ \/ admitted # R]
  /\ UNCHANGED <<Counters, laneVars>>

\* A single dispatch: refused by the ceiling it ends the run, refused by parsing,
\* admission, scope or grants it is an error frame for the model.
DispatchRefused(a) ==
  /\ \E k \in Kids[a] : \E units \in Estimates[k] :
       /\ ~RequestSpawn(a, units)
       /\ agent' = [agent EXCEPT ![a].pc = "ack", ![a].result = "budget_exhausted",
                                 ![a].exceeded = TRUE, ![a].calls = <<>>]
  /\ UNCHANGED <<Counters, laneVars>>

DispatchOne(a) ==
  /\ \E k \in Kids[a] : \E units \in Estimates[k] :
       /\ RequestSpawn(a, units)
       /\ agent' = [StartKids(a, [x \in {k} |-> units]) EXCEPT
                      ![a].pc = "kids", ![a].kids = {k}, ![a].calls = Tail(@)]
  /\ UNCHANGED <<Counters, laneVars>>

\* Faulty: the child's usage is charged by the dispatch and again by its batch.
UsageTwice(k, extra) == 2 * (agent[k].turns + agent[k].spawned + extra)

\* Faulty: only what exceeds the estimate is charged.
UsageOverEstimate(k, extra) == agent[k].turns + agent[k].spawned + extra - agent[k].limit

\* The units a finished child is charged with: estimateUsageUnits of its usage.
UsageUnits(k, extra) == agent[k].turns + agent[k].spawned + extra

\* Faulty: the last child of a batch does not let the parent go on.
CollectKidOnly(a, k) ==
  /\ At(a, "kids") /\ k \in agent[a].kids /\ At(k, "done")
  /\ agent' = [agent EXCEPT
       ![a].pc = IF agent[a].kids = {} THEN AfterCalls(agent[a].calls) ELSE "kids",
       ![a].kids = @ \ {k},
       ![a].spawned = @ + UsageUnits(k, 0),
       ![k] = Idle]
  /\ UNCHANGED <<Counters, laneVars>>

\* A child returned.  Its units are consumed once the dispatch is witnessed;
\* when that append fails they never are.
CollectKid(a, k) ==
  /\ At(a, "kids") /\ k \in agent[a].kids /\ At(k, "done")
  /\ \E charged \in BOOLEAN, extra \in 0 .. ExtraUnits :
       LET units == IF charged THEN UsageUnits(k, extra) ELSE 0 IN
       /\ IF charged THEN UNCHANGED Counters ELSE Fault /\ extra = 0
       /\ agent' = [agent EXCEPT
            ![a].pc = IF agent[a].kids = {k} THEN AfterCalls(agent[a].calls) ELSE "kids",
            ![a].kids = @ \ {k},
            ![a].spawned = @ + units,
            ![a].unpriced = @ + (IF agent[k].limit = 0 THEN units ELSE 0),
            ![k] = Idle]
  /\ UNCHANGED laneVars

\* The call is answered with a frame for the model: a tool result, an observation
\* acknowledged, or the error of a call that failed.
FrameOnly(a) ==
  /\ agent' = [agent EXCEPT ![a].calls = Tail(@), ![a].pc = AfterCalls(Tail(agent[a].calls))]
  /\ UNCHANGED <<Counters, laneVars>>

\* task_complete or request_escalation ends the run; a failing escalation or
\* observation hook ends it with an error.
Terminal(a, result) ==
  /\ agent' = [agent EXCEPT ![a].pc = "ack", ![a].result = result, ![a].calls = <<>>]
  /\ UNCHANGED laneVars

HandleToolCall(a) ==
  /\ At(a, "calls") /\ ~IsBatch(a)
  /\ LET call == Head(agent[a].calls) IN
     \/ FrameOnly(a)
     \/ call = "dispatch" /\ (DispatchRefused(a) \/ DispatchOne(a))
     \/ call = "task_complete" /\ Terminal(a, "completed") /\ UNCHANGED Counters
     \/ call = "request_escalation" /\ Terminal(a, "escalated") /\ UNCHANGED Counters
     \/ call \in {"request_escalation", "flag_observation"} /\ Terminal(a, "error") /\ Fault

-------------------------------------------------------------------------------
(* The end of the turn and of the run. *)

\* emitTurnAck, recordTurn, then the budget; "spent" stands for the token and the
\* time budget.  A failed acknowledgement ends the run with an error, whatever the
\* turn's own result was.
EndTurn(a) ==
  /\ At(a, "ack")
  /\ \E spent \in BOOLEAN :
       LET turns == agent[a].turns + 1
           out == agent[a].exceeded \/ turns >= TurnLimit(a) \/ spent
           result == IF agent[a].result = "none" /\ out THEN "budget_exhausted"
                     ELSE agent[a].result
       IN  agent' = [agent EXCEPT
                       ![a].pc = IF result = "none" THEN "loop" ELSE "final",
                       ![a].turns = turns,
                       ![a].result = result]
  /\ UNCHANGED <<Counters, laneVars>>

AckFailed(a) ==
  /\ At(a, "ack") /\ Fault
  /\ End(a, "error")
  /\ UNCHANGED laneVars

\* run() returns: a child's result is collected by its parent, a root is free for
\* its next run.
Return(a, result) ==
  agent' = [agent EXCEPT ![a] = IF a \in Roots THEN Idle
                                ELSE [@ EXCEPT !.pc = "done", !.result = result]]

\* finalizeTerminalResult: the result is witnessed; if that fails it becomes an
\* error.
Finalize(a) ==
  /\ At(a, "final")
  /\ \/ Return(a, agent[a].result) /\ UNCHANGED Counters
     \/ Return(a, "error") /\ Fault
  /\ UNCHANGED laneVars

-------------------------------------------------------------------------------
(* The environment: inbox handles and voice calls. *)

SendAbort(a) ==
  /\ a \in Abortable /\ Upset
  /\ abort' = [abort EXCEPT ![a] = TRUE]
  /\ UNCHANGED <<agent, runs, laneVars>>

VoiceCallBegins ==
  /\ Upset
  /\ \E l \in Leases : AcquireLease(l)
  /\ UNCHANGED <<agent, abort, runs>>

VoiceCallEnds ==
  /\ \E l \in Leases : ReleaseLease(l)
  /\ UNCHANGED gatewayVars

FinallySchedule(a) == WakeLane(a) /\ UNCHANGED gatewayVars

AgentStep(a) ==
  \/ Drain(a) \/ InvokeModel(a) \/ StreamModel(a) \/ Fallback(a) \/ NoProvider(a)
  \/ Answered(a) \/ CallFailed(a) \/ CallPreempted(a) \/ StreamBroke(a)
  \/ StartBatch(a) \/ HandleToolCall(a)
  \/ \E k \in Kids[a] : CollectKid(a, k)
  \/ EndTurn(a) \/ AckFailed(a) \/ Finalize(a)

Next ==
  \/ \E a \in Callers : AgentStep(a) \/ StartRun(a) \/ SendAbort(a) \/ FinallySchedule(a)
  \/ VoiceCallBegins \/ VoiceCallEnds

Spec == Init /\ [][Next]_vars

\* Promises settle: a provider answers or gives up, hooks and appends return,
\* finally blocks run.  Nothing is assumed of the environment: runs, aborts and
\* voice calls begin and end as they like.  (That some such step is taken is
\* enough: between two steps of the environment no agent can go on for ever.)
AgentProgress == \E a \in Callers : AgentStep(a) \/ FinallySchedule(a)
Fairness == WF_vars(AgentProgress)

LiveSpec == Spec /\ Fairness

-------------------------------------------------------------------------------
(* Properties. *)

\* An abort that reaches a running agent is obeyed at the next loop head: until
\* then at most the call it was about to make, and a stream's fallback, start.
AbortBoundsWork ==
  \A a \in Callers : agent[a].late =< (IF a \in Streamers THEN 2 ELSE 1)

\* The spawn ceiling.  A batch is admitted against what was spent before it, so
\* MaxBatch children, each at most ExtraUnits over its estimate, may overrun the
\* ceiling once; children dispatched without a budget are on top of that.
SpawnBound ==
  \A a \in Callers :
    agent[a].spawned =< MaxBatch * (Ceiling + ExtraUnits) + agent[a].unpriced

\* Every run() returns: nobody waits for ever for the lane, for a child or for an
\* acknowledgement, whatever is preempted, leased or failing around it.  (Only
\* MaxRuns runs begin, so in the end all agents are idle.)
EveryRunReturns == []<>(\A a \in Callers : At(a, "idle"))

================================================================================
