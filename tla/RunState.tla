------------------------------- MODULE RunState -------------------------------
(***************************************************************************)
(* The state of a workflow run and its transitions                         *)
(* (self/subcortex/workflows: run-state.ts, traversal.ts, continuations.ts *)
(* and the node handlers), as operators from run states to run states.     *)
(*                                                                         *)
(* A run state r is a record: the run's status, its node id lists (kept    *)
(* sorted and free of duplicates by the code, sets here), the activated    *)
(* edges and the checkpoint state; and, per node,                          *)
(*    st       status               att      number of attempts            *)
(*    live     activeAttempt # null wait     activeWaitState.kind          *)
(*    branch   selectedBranchKey    parent   parent of the last dispatch   *)
(*                                           lineage ("root": no parent)   *)
(* and of the node's last attempt                                          *)
(*    abranch  selectedBranchKey    aeff     sideEffectStatus              *)
(*    acp      checkpointId                                                *)
(* Timestamps, reason codes, evidence, outputs and joinProgress (written   *)
(* and never read by the runtime) are left out.                            *)
(***************************************************************************)
EXTENDS Naturals, FiniteSets

CONSTANTS
    Graphs,     \* the workflow graphs runs may be started on
    Governed,   \* nodes that governance may deny or defer, it allows the others
    None        \* JavaScript's null / undefined

VARIABLE graph  \* the graph of the run: nodes, edges, type and config of nodes

Terminal == {"completed", "failed", "canceled"}
RunStatus == Terminal \cup {"ready", "running", "waiting", "blocked_review", "paused"}
NodeStatus == {"pending", "ready", "waiting", "blocked", "completed", "failed",
               "skipped"}
WaitKind == {"human_decision", "async_batch", "checkpoint_commit",
             "parallel_join", "loop_backoff", "retry_backoff"}
NodeType == {"model-call", "tool-execution", "transform", "quality-gate",
             "human-decision", "condition", "parallel-split", "parallel-join",
             "loop", "error-handler"}
\* sideEffectStatus: "external" stands for the statuses that are not 'none'; the
\* review that 'unknown_external_effect' asks for is one more way to be refused.
Effect == {"none", "external"}

Resolved == {"completed", "skipped"}

\* What validateWorkflowDefinition lets through: there is a node, every edge joins
\* two nodes, and there is no cycle.
ValidGraph(g) ==
    /\ g.nodes # {} /\ IsFiniteSet(g.nodes) /\ IsFiniteSet(g.edges)
    /\ None \notin g.nodes /\ "root" \notin g.nodes
    /\ g.type \in [g.nodes -> NodeType]
    /\ \A n \in g.nodes : g.config[n].count \in Nat
    /\ \A e \in g.edges : e.from \in g.nodes /\ e.to \in g.nodes
    /\ \A S \in SUBSET g.nodes :
          S # {} => \E n \in S : \A e \in g.edges : e.to = n => e.from \notin S

ASSUME GraphsAssumption == \A g \in Graphs : ValidGraph(g)

\* The branch keys the handlers select.
BranchKey == {"true", "false", "loop", "exit", "error", "timeout"}
ASSUME NullAssumption == None \notin BranchKey \cup WaitKind \cup {"root"}

Node == graph.nodes
Type(n) == graph.type[n]
Out(n) == { e \in graph.edges : e.from = n }
In(n) == { e \in graph.edges : e.to = n }

\* The entry nodes, which the validator requires to be the nodes without
\* inbound edges.
EntryNodes == { n \in Node : In(n) = {} }

\* The function f with the value v on the nodes of S.
Assign(f, S, v) == [n \in DOMAIN f |-> IF n \in S THEN v ELSE f[n]]
------------------------------------------------------------------------------
(***************************************************************************)
(* traversal.ts                                                            *)
(***************************************************************************)

\* Faulty: a branch of a condition is followed whatever key it has.
AllOutboundEdges(n, key) == Out(n)

\* The edges a completed node activates.
getActivatedOutboundEdgeIds(n, key) ==
    { e \in Out(n) : \/ Type(n) = "parallel-split" /\ key = None
                     \/ e.key = None
                     \/ key # None /\ e.key = key }

\* The successors of n that may run: a join as soon as the source of one
\* activated edge has completed, another node when all of them have.
getNextReadyNodeIds(n, completed, activated) ==
    { m \in { e.to : e \in Out(n) \cap activated } \ completed :
        LET sources == { e.from : e \in In(m) \cap activated }
        IN  IF Type(m) = "parallel-join" THEN sources \cap completed # {}
                                         ELSE sources \subseteq completed }

(***************************************************************************)
(* resolveRunStatus                                                        *)
(***************************************************************************)
resolveRunStatus(r) ==
    LET active == IF r.active # {} THEN r.active ELSE r.ready
    IN  IF r.status = "paused" THEN "paused"
        ELSE IF \E n \in Node : r.st[n] = "failed" THEN "failed"
        ELSE IF r.blocked # {} THEN "blocked_review"
        ELSE IF r.waiting # {} \/ r.ckpt # "idle" THEN "waiting"
        ELSE IF /\ active # {} /\ r.ready = {}
                /\ \A n \in active : r.st[n] \in Resolved THEN "completed"
        ELSE IF r.ready # {} /\ r.completed = {} THEN "ready"
        ELSE "running"

Resolve(r) == [r EXCEPT !.status = resolveRunStatus(r)]

(***************************************************************************)
(* activateSuccessors                                                      *)
(***************************************************************************)

\* The successors of n that may run and are in no list become ready.
ActivateReady(r, n, key) ==
    LET activated == r.edges \cup getActivatedOutboundEdgeIds(n, key)
        new == getNextReadyNodeIds(n, r.completed, activated)
                  \ (r.ready \cup r.waiting \cup r.blocked)
    IN  [r EXCEPT !.edges = activated,
                  !.active = @ \cup new,
                  !.ready = @ \cup new,
                  !.st = Assign(@, new, "ready"),
                  !.parent = Assign(@, new, n)]

\* A node dispatched by a loop node that chose to go on brings the loop node
\* back; the nodes its 'loop' edges lead to may run again.
ReactivateLoop(r, n) ==
    LET p == r.parent[n]
        loops == p \in Node /\ Type(p) = "loop" /\ r.branch[p] = "loop"
        body == { e.to : e \in { x \in Out(p) : x.key = "loop" } }
        done == { m \in body : r.st[m] = "completed" }
    IN  IF ~loops THEN r
        ELSE [r EXCEPT !.completed = @ \ (body \cup {p}),
                       !.ready = @ \cup {p},
                       !.active = @ \cup {p},
                       !.st = [Assign(@, done, "pending") EXCEPT ![p] = "ready"],
                       !.live = Assign(@, done \cup {p}, FALSE),
                       !.wait = Assign(@, done \cup {p}, None),
                       !.parent[p] = "root"]

\* Faulty: the join leaves the waiting list and is not queued again.
ForgetJoins(r, n) ==
    LET joins == { j \in r.waiting : /\ Type(j) = "parallel-join"
                                     /\ \E e \in In(j) : e.from = n }
    IN  [r EXCEPT !.waiting = @ \ joins,
                  !.st = Assign(@, joins, "ready"),
                  !.live = Assign(@, joins, FALSE),
                  !.wait = Assign(@, joins, None)]

\* Faulty: a join is evaluated when it is first activated only.
WakeNoJoin(r, n) == r

\* A waiting join is evaluated again when one of its upstream nodes completes.
ReactivateJoins(r, n) ==
    LET joins == { j \in r.waiting : /\ Type(j) = "parallel-join"
                                     /\ \E e \in In(j) : e.from = n }
    IN  [r EXCEPT !.waiting = @ \ joins,
                  !.ready = @ \cup joins,
                  !.st = Assign(@, joins, "ready"),
                  !.live = Assign(@, joins, FALSE),
                  !.wait = Assign(@, joins, None)]

activateSuccessors(r, n, key) ==
    ReactivateJoins(ReactivateLoop(ActivateReady(r, n, key), n), n)

(***************************************************************************)
(* cancelRaceLosers                                                        *)
(***************************************************************************)

\* The nodes the breadth-first search from the siblings of n reaches through
\* unresolved nodes: the least set with the unresolved siblings that is closed
\* under unresolved successors.
RaceLosers(r, n) ==
    LET open == { m \in Node : r.st[m] \notin Resolved }
        siblings == { e.to : e \in Out(r.parent[n]) } \ {n}
        Closed(S) == /\ siblings \cap open \subseteq S
                     /\ \A e \in graph.edges :
                           e.from \in S /\ e.to \in open => e.to \in S
    IN  { m \in open : \A S \in SUBSET open : Closed(S) => m \in S }

\* Faulty: every branch of a race runs to its end.
LetLosersRun(r, n) == r

\* Faulty: the losers keep their attempts and wait states.
SkipLosersOnly(r, n) ==
    LET p == r.parent[n]
        race == /\ p \in Node
                /\ Type(p) = "parallel-split" /\ graph.config[p].mode = "race"
        losers == RaceLosers(r, n)
    IN  IF ~race THEN r
        ELSE [r EXCEPT !.st = Assign(@, losers, "skipped"),
                       !.ready = @ \ losers,
                       !.waiting = @ \ losers,
                       !.blocked = @ \ losers,
                       !.active = @ \ losers]

\* n, a branch of a race, has completed: the other branches are skipped.
cancelRaceLosers(r, n) ==
    LET p == r.parent[n]
        race == /\ p \in Node
                /\ Type(p) = "parallel-split" /\ graph.config[p].mode = "race"
        losers == RaceLosers(r, n)
    IN  IF ~race THEN r
        ELSE [r EXCEPT !.st = Assign(@, losers, "skipped"),
                       !.live = Assign(@, losers, FALSE),
                       !.wait = Assign(@, losers, None),
                       !.ready = @ \ losers,
                       !.waiting = @ \ losers,
                       !.blocked = @ \ losers,
                       !.active = @ \ losers]

(***************************************************************************)
(* applyAttemptOutcome: res is the result of the attempt, whose branch key *)
(* has been stored in abranch.                                             *)
(***************************************************************************)
applyAttemptOutcome(r, n, res) ==
    LET r1 == [r EXCEPT !.ready = @ \ {n},
                        !.waiting = @ \ {n},
                        !.blocked = @ \ {n},
                        !.st[n] = res.outcome,
                        !.wait[n] = res.wait,
                        !.branch[n] = res.branch]
        done == [r1 EXCEPT !.live[n] = FALSE,
                           !.wait[n] = None,
                           !.completed = @ \cup {n}]
    IN  CASE res.outcome = "completed" ->
                activateSuccessors(cancelRaceLosers(done, n), n, r.abranch[n])
          [] res.outcome = "waiting" ->
                [r1 EXCEPT !.live[n] = TRUE, !.waiting = @ \cup {n}]
          [] res.outcome = "blocked" ->
                [r1 EXCEPT !.live[n] = TRUE, !.blocked = @ \cup {n}]
          [] OTHER -> [r1 EXCEPT !.live[n] = FALSE]
------------------------------------------------------------------------------
(***************************************************************************)
(* The exported transitions of run-state.ts; each is applied where its     *)
(* guard holds and throws elsewhere.                                       *)
(***************************************************************************)
createInitialWorkflowRunState ==
    LET All(v) == [n \in Node |-> v]
    IN  [status |-> "ready", ckpt |-> "idle", prep |-> None,
         active |-> EntryNodes, ready |-> EntryNodes,
         waiting |-> {}, blocked |-> {}, completed |-> {}, edges |-> {},
         st |-> Assign(All("pending"), EntryNodes, "ready"),
         att |-> All(0), live |-> All(FALSE), wait |-> All(None),
         branch |-> All(None), parent |-> Assign(All(None), EntryNodes, "root"),
         abranch |-> All(None), aeff |-> All("none"), acp |-> All(None)]

CanPause(r) == r.status \notin Terminal \cup {"paused"}
pauseWorkflowRunState(r) == [r EXCEPT !.status = "paused"]

CanResume(r) == r.status = "paused"
resumeWorkflowRunState(r) == Resolve([r EXCEPT !.status = "running"])

CanCancel(r) == r.status \notin Terminal
cancelWorkflowRunState(r) ==
    LET affected == r.active \cup r.ready \cup r.waiting \cup r.blocked
    IN  [r EXCEPT !.status = "canceled", !.ckpt = "idle",
                  !.live = Assign(@, affected, FALSE),
                  !.wait = Assign(@, affected, None),
                  !.active = {}, !.ready = {}, !.waiting = {}, !.blocked = {}]

CanComplete(r, n) == r.st[n] = "ready"

\* Faulty: the completed node stays in the ready list.
CompleteStillReady(r, n) ==
    LET done == [r EXCEPT !.st[n] = "completed",
                          !.wait[n] = None,
                          !.completed = @ \cup {n}]
    IN  Resolve(activateSuccessors(done, n, r.branch[n]))

completeWorkflowNodeInRunState(r, n) ==
    LET done == [r EXCEPT !.st[n] = "completed",
                          !.wait[n] = None,
                          !.ready = @ \ {n},
                          !.waiting = @ \ {n},
                          !.blocked = @ \ {n},
                          !.completed = @ \cup {n}]
    IN  Resolve(activateSuccessors(done, n, r.branch[n]))

\* An attempt of n has the result res; c is what captureWorkflowCheckpoint
\* returned: the checkpoint state and the id of the prepared checkpoint.
CanRecord(r, n) == r.st[n] = "ready"
recordWorkflowNodeExecution(r, n, res, c) ==
    LET r1 == [r EXCEPT !.att[n] = @ + 1,
                        !.abranch[n] = res.branch,
                        !.aeff[n] = res.effect,
                        !.acp[n] = c.id,
                        !.ckpt = c.state,
                        !.prep = IF c.id # None THEN c.id ELSE @]
    IN  Resolve(applyAttemptOutcome(r1, n, res))

\* The waiting attempt of n is continued with the result res; c is what
\* commitWorkflowCheckpoint returned, None when it was not called.
CanContinue(r, n) == r.live[n]
resolveWorkflowNodeContinuation(r, n, res, c) ==
    LET r1 == [r EXCEPT !.abranch[n] = IF res.branch # None THEN res.branch ELSE @,
                        !.aeff[n] = res.effect,
                        !.acp[n] = IF c # None /\ c.id # None THEN c.id ELSE @,
                        !.ckpt = IF c # None THEN c.state ELSE @,
                        !.prep = IF c # None /\ @ = None THEN c.id ELSE @]
    IN  Resolve(applyAttemptOutcome(r1, n, res))
------------------------------------------------------------------------------
(***************************************************************************)
(* Results of the node handlers (handlers/*.ts) and of continuations.  The *)
(* choices a payload or an external service makes are the members of the   *)
(* sets.                                                                   *)
(***************************************************************************)
Result(outcome, wait, branch, effect) ==
    [outcome |-> outcome, wait |-> wait, branch |-> branch, effect |-> effect]
Completed(branch, effect) == Result("completed", None, branch, effect)
Waiting(kind, branch, effect) == Result("waiting", kind, branch, effect)
Blocked(effect) == Result("blocked", None, None, effect)
Failed(effect) == Result("failed", None, None, effect)

\* Upstream nodes of n, one per inbound edge, with one of the statuses S.
UpstreamIn(r, n, S) == { e \in In(n) : r.st[e.from] \in S }

\* Completed upstream nodes a join waits for.
RequiredCount(n) ==
    CASE graph.config[n].mode = "any" -> 1
      [] graph.config[n].mode = "n-of-m" -> graph.config[n].count
      [] OTHER -> Cardinality(In(n))

JoinConditionMet(r, n) ==
    \/ Cardinality(UpstreamIn(r, n, {"completed"})) >= RequiredCount(n)
    \/ /\ graph.config[n].mode = "all"
       /\ UpstreamIn(r, n, Resolved) = In(n)

ParallelJoinResult(r, n) ==
    IF In(n) = {} \/ RequiredCount(n) > Cardinality(In(n)) THEN Failed("none")
    ELSE IF JoinConditionMet(r, n) THEN Completed(None, "none")
    ELSE Waiting("parallel_join", None, "none")

\* The iteration limit comes before the exit condition.
LoopResults(r, n) ==
    LET exit == Completed("exit", "none")
        again == IF graph.config[n].mode = "backoff"
                 THEN Waiting("loop_backoff", "loop", "none")
                 ELSE Completed("loop", "none")
    IN  IF r.att[n] + 1 > graph.config[n].count THEN {exit} ELSE {exit, again}

\* A task is synchronous or, of executionModel 'async-batch', waits.
ToolResults(n) ==
    IF graph.config[n].mode = "async-batch"
    THEN { Waiting("async_batch", None, "external") }
    ELSE { Completed(None, "external"), Blocked("external"), Failed("external") }

ModelCallResults(n) ==
    { IF graph.config[n].mode = "async-batch"
      THEN Waiting("async_batch", None, "none")
      ELSE Completed(None, "none") }

\* The scope of an error handler is a set of node ids, or its upstream nodes.
ErrorHandlerResult(r, n) ==
    LET scope == IF graph.config[n].mode = "specific"
                 THEN graph.config[n].targets
                 ELSE { e.from : e \in In(n) }
    IN  IF ~(scope \subseteq Node) THEN Failed("none")
        ELSE IF \E m \in scope : r.st[m] = "failed" THEN Completed("error", "none")
        ELSE Completed(None, "none")

HandlerResults(r, n) ==
    CASE Type(n) = "transform"      -> { Completed(None, "none") }
      [] Type(n) = "quality-gate"   -> { Completed(None, "none"), Blocked("none") }
      [] Type(n) = "model-call"     -> ModelCallResults(n)
      [] Type(n) = "tool-execution" -> ToolResults(n)
      [] Type(n) = "human-decision" -> { Waiting("human_decision", None, "none") }
      [] Type(n) = "condition"      -> { Completed(b, "none") : b \in {"true", "false"} }
      [] Type(n) = "parallel-split" -> { IF Out(n) = {} THEN Failed("none")
                                                       ELSE Completed(None, "none") }
      [] Type(n) = "parallel-join"  -> { ParallelJoinResult(r, n) }
      [] Type(n) = "loop"           -> LoopResults(r, n)
      [] Type(n) = "error-handler"  -> { ErrorHandlerResult(r, n) }

\* buildGovernanceOnlyResult: governance denies, or defers to a confirmation
\* or, unless a human decides anyway, a retry.
GovernanceResults(n) ==
    IF n \notin Governed THEN {}
    ELSE { Blocked("none") } \cup
         { Waiting(kind, None, "none") :
              kind \in {"human_decision", "retry_backoff"} \
                       (IF Type(n) = "human-decision" THEN {"retry_backoff"} ELSE {}) }

\* executeWorkflowNode
ExecutionResults(r, n) == GovernanceResults(n) \cup HandlerResults(r, n)

\* resolveWorkflowContinuation, which throws when n is not waiting.
resolveWorkflowContinuation(r, n) ==
    LET kind == r.wait[n]
        effect == r.aeff[n]
        refused == Blocked(effect)                     \* wrong token, hard stop, no review
        held == Waiting(kind, r.abranch[n], effect)    \* paused, resuming
    IN  IF kind = None THEN {}
        ELSE {refused, held} \cup
             CASE kind = "human_decision" -> { Completed(None, effect) }
               [] kind = "async_batch" -> { Completed(r.abranch[n], effect) }
               [] kind = "checkpoint_commit" -> { Completed(r.abranch[n], effect) }
               [] kind = "parallel_join" -> { Completed(b, "none") : b \in {None, "timeout"} }
               [] kind = "loop_backoff" -> { Completed("loop", "none") }
               [] kind = "retry_backoff" -> {}
==============================================================================
