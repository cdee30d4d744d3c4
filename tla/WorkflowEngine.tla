---------------------------- MODULE WorkflowEngine ----------------------------
(***************************************************************************)
(* DeterministicWorkflowEngine (self/subcortex/workflows/workflow-engine.ts,*)
(* execution-coordinator.ts, checkpoint-runtime.ts): one run and the calls *)
(* its clients make.                                                       *)
(*                                                                         *)
(* pause, resume, cancel, completeNode and most calls of continueNode read *)
(* and write the run state without an await in between.  executeReadyNode, *)
(* and continueNode when a checkpoint has to be committed, read it, await  *)
(* governance, handlers and the checkpoint manager, and write a state      *)
(* computed from what they read: a Call keeps that snapshot.               *)
(*                                                                         *)
(* The checkpoint manager is external: its prepare and commit succeed or   *)
(* fail, and it remembers the checkpoints it prepared and committed.       *)
(***************************************************************************)
EXTENDS RunState

CONSTANTS
    Call,               \* calls that can be in flight at the same time
    MaxAttempts,        \* bound: attempts of a node
    MaxCheckpoints      \* bound: checkpoints prepared

ASSUME BoundsAssumption == MaxAttempts \in Nat /\ MaxCheckpoints \in Nat

VARIABLES
    run,        \* this.states: the stored run state
    call,       \* the calls in flight
    prepared,   \* checkpoint manager: number of prepared checkpoints, its ids
    committed,  \* checkpoint manager: committed ids
    outcomes    \* 'workflow:run-completed' events published

vars == <<graph, run, call, prepared, committed, outcomes>>

Idle == [op |-> "none", node |-> None, snap |-> None]

TypeOK ==
    /\ graph \in Graphs
    /\ run.status \in RunStatus
    /\ run.ckpt \in {"idle", "prepare_pending", "commit_pending"}
    /\ run.edges \subseteq graph.edges
    /\ \A S \in {run.active, run.ready, run.waiting, run.blocked, run.completed} :
          S \subseteq Node
    /\ run.st \in [Node -> NodeStatus]
    /\ run.att \in [Node -> 0 .. MaxAttempts]
    /\ run.live \in [Node -> BOOLEAN]
    /\ run.wait \in [Node -> WaitKind \cup {None}]
    /\ run.parent \in [Node -> Node \cup {"root", None}]
    /\ run.aeff \in [Node -> Effect]
    /\ run.acp \in [Node -> 1 .. prepared \cup {None}]
    /\ run.prep \in 1 .. prepared \cup {None}
    /\ prepared \in 0 .. MaxCheckpoints
    /\ committed \subseteq 1 .. prepared
    /\ outcomes \subseteq Terminal
    /\ \A c \in Call : call[c].op \in {"none", "execute", "continue"}

Init ==
    /\ graph \in Graphs
    /\ run = createInitialWorkflowRunState
    /\ call = [c \in Call |-> Idle]
    /\ prepared = 0
    /\ committed = {}
    /\ outcomes = {}

\* states.set and emitRunTerminalIfNeeded; prev is the state the call read.
Store(prev, next) ==
    /\ run' = next
    /\ outcomes' = IF next.status \in Terminal /\ prev.status \notin Terminal
                   THEN outcomes \cup {next.status}
                   ELSE outcomes
------------------------------------------------------------------------------
Pause ==
    /\ CanPause(run)
    /\ run' = pauseWorkflowRunState(run)
    /\ UNCHANGED <<graph, call, prepared, committed, outcomes>>

\* Faulty: the terminal event is left to the call that completed the node.
ResumeSilently ==
    /\ CanResume(run)
    /\ run' = resumeWorkflowRunState(run)
    /\ UNCHANGED <<graph, call, prepared, committed, outcomes>>

Resume ==
    /\ CanResume(run)
    /\ Store(run, resumeWorkflowRunState(run))
    /\ UNCHANGED <<graph, call, prepared, committed>>

Cancel ==
    /\ CanCancel(run)
    /\ Store(run, cancelWorkflowRunState(run))
    /\ UNCHANGED <<graph, call, prepared, committed>>

CompleteNode(n) ==
    /\ CanComplete(run, n)
    /\ Store(run, completeWorkflowNodeInRunState(run, n))
    /\ UNCHANGED <<graph, call, prepared, committed>>

(***************************************************************************)
(* executeReadyNode                                                        *)
(***************************************************************************)

\* The call reads the run state; a node never dispatched is refused.
BeginExecute(c, n) ==
    /\ call[c] = Idle
    /\ run.parent[n] # None
    /\ run.att[n] < MaxAttempts
    /\ call' = [call EXCEPT ![c] = [op |-> "execute", node |-> n, snap |-> run]]
    /\ UNCHANGED <<graph, run, prepared, committed, outcomes>>

Capture(state, id) == [state |-> state, id |-> id]

\* What the checkpoint runtime returns is an object, never null.
ASSUME CaptureAssumption ==
    None \notin [state : {"idle", "prepare_pending", "commit_pending"}, id : Nat \cup {None}]

\* Faulty: commit is called although prepare failed.
CommitUnprepared(effect, capture) ==
    \/ /\ effect = "none"
       /\ capture = Capture("idle", None)
       /\ UNCHANGED <<prepared, committed>>
    \/ /\ effect # "none"
       /\ capture = Capture("idle", prepared + 1)
       /\ committed' = committed \cup {prepared + 1}
       /\ UNCHANGED prepared

\* captureWorkflowCheckpoint after a result of side effect `effect`: nothing to
\* capture, prepare fails, commit is deferred or fails, or both succeed.
CaptureCheckpoint(effect, capture) ==
    \/ /\ effect = "none"
       /\ capture = Capture("idle", None)
       /\ UNCHANGED <<prepared, committed>>
    \/ /\ effect # "none"
       /\ capture = Capture("prepare_pending", None)
       /\ UNCHANGED <<prepared, committed>>
    \/ /\ effect # "none"
       /\ prepared < MaxCheckpoints
       /\ prepared' = prepared + 1
       /\ \/ capture = Capture("commit_pending", prepared') /\ UNCHANGED committed
          \/ /\ capture = Capture("idle", prepared')
             /\ committed' = committed \cup {prepared'}

Captures == { Capture("idle", None), Capture("prepare_pending", None),
              Capture("commit_pending", prepared + 1),
              Capture("idle", prepared + 1) }

\* buildCheckpointPendingResult
CheckpointPending(res) == Waiting("checkpoint_commit", res.branch, res.effect)

\* The call writes the state it computed from its snapshot; it throws, after
\* the awaits, when the node was not ready in it.
FinishExecute(c) ==
    LET n == call[c].node
        snap == call[c].snap
    IN  /\ call[c].op = "execute"
        /\ \E res \in ExecutionResults(snap, n), capture \in Captures :
              /\ CaptureCheckpoint(res.effect, capture)
              /\ LET final == IF /\ res.outcome = "completed"
                                 /\ capture.state = "commit_pending"
                              THEN CheckpointPending(res) ELSE res
                 IN  \/ /\ CanRecord(snap, n)
                        /\ Store(snap, recordWorkflowNodeExecution(snap, n, final, capture))
                     \/ /\ ~CanRecord(snap, n)
                        /\ UNCHANGED <<run, outcomes>>
        /\ call' = [call EXCEPT ![c] = Idle]
        /\ UNCHANGED graph

(***************************************************************************)
(* continueNode                                                            *)
(***************************************************************************)
NeedsCommit(r, n) ==
    r.wait[n] = "checkpoint_commit" \/ r.ckpt = "commit_pending"

\* No checkpoint has to be committed: one step.
ContinueNow(n) ==
    /\ CanContinue(run, n)
    /\ ~NeedsCommit(run, n)
    /\ \E res \in resolveWorkflowContinuation(run, n) :
          Store(run, resolveWorkflowNodeContinuation(run, n, res, None))
    /\ UNCHANGED <<graph, call, prepared, committed>>

BeginContinue(c, n) ==
    /\ call[c] = Idle
    /\ CanContinue(run, n)
    /\ NeedsCommit(run, n)
    /\ call' = [call EXCEPT ![c] = [op |-> "continue", node |-> n, snap |-> run]]
    /\ UNCHANGED <<graph, run, prepared, committed, outcomes>>

\* The checkpoint commitWorkflowCheckpoint commits: the one the request names,
\* else the attempt's, else the last one the run prepared.
CheckpointOf(r, n, named) ==
    IF named # None THEN named ELSE IF r.acp[n] # None THEN r.acp[n] ELSE r.prep

\* Faulty: the result does not depend on the commit.
ContinueWhateverCommitted(r, n, ok) == resolveWorkflowContinuation(r, n)

\* A node that waits for its commit goes on waiting when it fails.
ResultsAfterCommit(r, n, ok) ==
    IF r.wait[n] = "checkpoint_commit" /\ ~ok
    THEN { Waiting("checkpoint_commit", r.abranch[n], r.aeff[n]) }
    ELSE resolveWorkflowContinuation(r, n)

\* The request may name any checkpoint.  The commit succeeds (ok) or fails; then
\* the call writes the state computed from its snapshot, or throws when the node
\* was not waiting in it.
FinishContinue(c) ==
    LET n == call[c].node
        snap == call[c].snap
    IN  /\ call[c].op = "continue"
        /\ \E named \in 1 .. prepared \cup {None} :
              LET id == CheckpointOf(snap, n, named)
              IN  \E ok \in IF id = None THEN {FALSE} ELSE BOOLEAN :
                    LET state == IF id = None THEN snap.ckpt
                                 ELSE IF ok THEN "idle" ELSE "commit_pending"
                    IN  /\ committed' = IF ok THEN committed \cup {id} ELSE committed
                        /\ \/ \E res \in ResultsAfterCommit(snap, n, ok) :
                                 Store(snap, resolveWorkflowNodeContinuation(
                                                snap, n, res, Capture(state, id)))
                           \/ /\ ResultsAfterCommit(snap, n, ok) = {}
                              /\ UNCHANGED <<run, outcomes>>
        /\ call' = [call EXCEPT ![c] = Idle]
        /\ UNCHANGED <<graph, prepared>>

Next ==
    \/ Pause \/ Resume \/ Cancel
    \/ \E n \in Node : CompleteNode(n) \/ ContinueNow(n)
    \/ \E c \in Call : \/ \E n \in Node : BeginExecute(c, n) \/ BeginContinue(c, n)
                       \/ FinishExecute(c) \/ FinishContinue(c)

Spec == Init /\ [][Next]_vars
------------------------------------------------------------------------------
(***************************************************************************)
(* Properties.  Every stored state is computed from a state stored before, *)
(* so the invariants of the run state hold for any number of overlapping   *)
(* calls; what a stale write loses is another matter (CanceledIsTerminal). *)
(***************************************************************************)

\* The node id lists of the run never disagree with the node states: a listed
\* node has the status of its list, so no node is in two lists; and while no
\* cancel has emptied the lists, every ready, waiting, blocked or completed
\* node is listed (a node missing from its list would never be picked up).
ListsMatchStatus ==
    /\ \A n \in run.ready : run.st[n] = "ready"
    /\ \A n \in run.waiting : run.st[n] = "waiting"
    /\ \A n \in run.blocked : run.st[n] = "blocked"
    /\ \A n \in run.completed : run.st[n] = "completed"
    /\ \A n \in Node :
          /\ run.st[n] = "completed" => n \in run.completed
          /\ "canceled" \notin outcomes =>
                /\ run.st[n] = "ready" => n \in run.ready
                /\ run.st[n] = "waiting" => n \in run.waiting
                /\ run.st[n] = "blocked" => n \in run.blocked

\* A node can be continued exactly while it waits: it has an active attempt iff
\* it is waiting or blocked, and a wait kind only while it is waiting.
AttemptMatchesStatus ==
    \A n \in Node :
        /\ run.live[n] => run.st[n] \in {"waiting", "blocked"}
        /\ run.wait[n] # None => run.live[n] /\ run.st[n] = "waiting"
        /\ n \in run.waiting => run.live[n] /\ run.wait[n] # None

\* No lost wakeup of a join: a join left waiting by its handler has not enough
\* completed (or, for 'all', resolved) upstream nodes, in whatever order the
\* branches complete, are skipped by a race, or are completed by hand.
NoJoinForgotten ==
    \A n \in run.waiting :
        run.wait[n] = "parallel_join" => ~JoinConditionMet(run, n)

\* cancelRaceLosers decides a race once: when a branch of a race split has
\* completed by executing, no other branch is still to run.
RaceDecided ==
    \A p \in Node : Type(p) = "parallel-split" /\ graph.config[p].mode = "race" =>
        \A e, f \in Out(p) :
            run.st[e.to] = "completed" /\ run.att[e.to] > 0 =>
                run.st[f.to] \in Resolved

\* A condition or an error handler leads to one of its branches: the branch
\* edges of such a node are not activated under two keys.
OneBranchTaken ==
    \A e, f \in run.edges :
        e.from = f.from /\ Type(e.from) \in {"condition", "error-handler"}
            /\ e.key # None /\ f.key # None => e.key = f.key

\* 'workflow:run-completed' is published for every run that ends, whichever
\* call finds the run at its end (a run may end while it is paused).
EndAnnounced == run.status \in Terminal => outcomes # {}

\* "running: one or more nodes are executing, or the runtime is advancing ready
\* successors": a run that says it is progressing has a node to run.
RunningHasWork ==
    run.status \in {"ready", "running"} /\ "canceled" \notin outcomes =>
        run.ready # {}

\* "If a node is waiting on checkpoint_commit, treat the prepared checkpoint as
\* provisional until the run exposes a committed checkpoint": a node that waits
\* for its commit completes only when the manager has committed the checkpoint
\* its attempt records, whichever the request named.
CommittedBeforeAdvance ==
    [][\A n \in Node :
          run.wait[n] = "checkpoint_commit" /\ run'.st[n] = "completed" =>
              run'.acp[n] \in committed']_vars

\* "branchKey 'loop' for continue, 'exit' for break": a loop of one body node
\* that has taken its exit has left the body.
ExitLeavesLoop ==
    \A l \in run.completed : Type(l) = "loop" /\ run.branch[l] = "exit" =>
        \A e \in Out(l) : e.key = "loop" => e.to \notin run.ready

\* "an additive terminal canceled posture": a canceled run stays canceled.
CanceledIsTerminal == "canceled" \in outcomes => run.status = "canceled"
==============================================================================
