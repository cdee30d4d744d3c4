--------------------------- MODULE WorkflowRunProofs ---------------------------
(***************************************************************************)
(* What a run does as a whole: a run that is ready or running has a node   *)
(* to execute, a race is decided once, and a node that waits for its       *)
(* checkpoint goes on when the checkpoint is committed.  The first two are *)
(* invariants of every state stored or held by a call, for graphs of the   *)
(* shapes named below; the third is about one awaiting call.               *)
(***************************************************************************)
EXTENDS WorkflowProofs

\* The state next was computed from the state prev by one exported transition of
\* run-state.ts.
Moved(prev, next) ==
    \/ next \in {pauseWorkflowRunState(prev), resumeWorkflowRunState(prev)}
    \/ next = cancelWorkflowRunState(prev) /\ "canceled" \in outcomes'
    \/ \E n \in Node : /\ prev.st[n] = "ready"
                       /\ next = completeWorkflowNodeInRunState(prev, n)
    \/ \E n \in Node : \E res : \E c \in CaptureRec(prepared') :
          /\ prev.st[n] = "ready" /\ prev.att[n] < MaxAttempts /\ GoodResult(prev, n, res)
          /\ next = recordWorkflowNodeExecution(prev, n, res, c)
    \/ \E n \in Node : \E res : \E c \in CaptureRec(prepared') \cup {None} :
          /\ prev.live[n] /\ GoodResult(prev, n, res)
          /\ next = resolveWorkflowNodeContinuation(prev, n, res, c)

\* Whatever a step stores was there before, or was computed from what was there.
LEMMA Origin ==
    ASSUME Plain, EngineInv, [Next]_vars
    PROVE  run' \in Snapshots \/ \E prev \in Snapshots : Moved(prev, run')
    <1>0. run \in Snapshots
        BY RunFacts
    <1>1. CASE UNCHANGED vars \/ \E c \in Call, n \in Node : BeginExecute(c, n) \/ BeginContinue(c, n)
        <2>1. run' = run
            BY <1>1 DEF vars, BeginExecute, BeginContinue
        <2> QED BY <1>0, <2>1
    <1>2. CASE Pause \/ Resume
        <2>1. run' \in {pauseWorkflowRunState(run), resumeWorkflowRunState(run)}
            BY <1>2 DEF Pause, Resume, Store
        <2> QED BY <1>0, <2>1 DEF Moved
    <1>3. CASE Cancel
        <2>1. PICK next : next = cancelWorkflowRunState(run)
            OBVIOUS
        <2>2. Store(run, next) /\ run.status \notin Terminal
            BY <1>3, <2>1 DEF Cancel, CanCancel
        <2>3. next.status = "canceled"
            <3>1. Sound(run, outcomes, None) /\ run \in RunRec(prepared)
                BY RunFacts
            <3>2. "canceled" \in outcomes \cup {"canceled"}
                OBVIOUS
            <3> QED BY <2>1, <3>1, <3>2, CancelSound
        <2>4. run' = next /\ "canceled" \in outcomes'
            BY <2>2, <2>3 DEF Store, Terminal
        <2> QED BY <1>0, <2>1, <2>4 DEF Moved
    <1>4. ASSUME NEW n \in Node, CompleteNode(n)
          PROVE  \E prev \in Snapshots : Moved(prev, run')
        <2>1. run.st[n] = "ready" /\ run' = completeWorkflowNodeInRunState(run, n)
            BY <1>4 DEF CompleteNode, CanComplete, Store
        <2> QED BY <1>0, <2>1 DEF Moved
    <1>5. ASSUME NEW n \in Node, ContinueNow(n)
          PROVE  \E prev \in Snapshots : Moved(prev, run')
        <2>1. PICK res \in resolveWorkflowContinuation(run, n) :
                run' = resolveWorkflowNodeContinuation(run, n, res, None)
            BY <1>5 DEF ContinueNow, Store
        <2>2. run.live[n] /\ run.wait[n] # "checkpoint_commit"
            BY <1>5 DEF ContinueNow, CanContinue, NeedsCommit
        <2>3. res \in ResultsAfterCommit(run, n, TRUE)
            BY <2>1 DEF ResultsAfterCommit
        <2>4. GoodResult(run, n, res)
            BY <2>3, RunFacts, ContinuationGood
        <2>5. None \in CaptureRec(prepared') \cup {None}
            OBVIOUS
        <2> QED BY <1>0, <2>1, <2>2, <2>4, <2>5 DEF Moved
    <1>6. ASSUME NEW c \in Call, FinishExecute(c)
          PROVE  run' = run \/ \E prev \in Snapshots : Moved(prev, run')
        <2>1. PICK n, snap : n = call[c].node /\ snap = call[c].snap
            OBVIOUS
        <2>2. call[c].op = "execute"
            BY <1>6 DEF FinishExecute
        <2>3. PICK res \in ExecutionResults(snap, n), capture \in Captures :
                /\ CaptureCheckpoint(res.effect, capture)
                /\ LET final == IF res.outcome = "completed" /\ capture.state = "commit_pending"
                                THEN CheckpointPending(res) ELSE res
                   IN  \/ /\ CanRecord(snap, n)
                          /\ Store(snap, recordWorkflowNodeExecution(snap, n, final, capture))
                       \/ /\ ~CanRecord(snap, n)
                          /\ UNCHANGED <<run, outcomes>>
            BY <1>6, <2>1 DEF FinishExecute
        <2>4. n \in Node /\ snap \in Snapshots /\ snap.att[n] < MaxAttempts /\ graph \in Graphs
            BY <2>1, <2>2, CallFacts, RunFacts
        <2>5. capture \in CaptureRec(prepared')
            BY <2>3, CaptureFacts
        <2>6. PICK final : final = IF res.outcome = "completed" /\ capture.state = "commit_pending"
                                   THEN CheckpointPending(res) ELSE res
            OBVIOUS
        <2>7. GoodResult(snap, n, final)
            BY <2>4, <2>6, ExecutionGood, PendingGood
        <2>8. CASE run' = run
            BY <2>8
        <2>9. CASE CanRecord(snap, n)
                   /\ Store(snap, recordWorkflowNodeExecution(snap, n, final, capture))
            <3>1. snap.st[n] = "ready" /\ run' = recordWorkflowNodeExecution(snap, n, final, capture)
                BY <2>9 DEF CanRecord, Store
            <3> QED BY <2>4, <2>5, <2>7, <3>1 DEF Moved
        <2> QED BY <2>3, <2>6, <2>8, <2>9
    <1>7. ASSUME NEW c \in Call, FinishContinue(c)
          PROVE  run' = run \/ \E prev \in Snapshots : Moved(prev, run')
        <2>1. PICK n, snap : n = call[c].node /\ snap = call[c].snap
            OBVIOUS
        <2>2. call[c].op = "continue" /\ prepared' = prepared
            BY <1>7 DEF FinishContinue
        <2>3. PICK named, id, ok, state :
                /\ named \in 1 .. prepared \cup {None} /\ id = CheckpointOf(snap, n, named)
                /\ state = IF id = None THEN snap.ckpt
                           ELSE IF ok THEN "idle" ELSE "commit_pending"
                /\ \/ \E res \in ResultsAfterCommit(snap, n, ok) :
                        Store(snap, resolveWorkflowNodeContinuation(snap, n, res, Capture(state, id)))
                   \/ UNCHANGED <<run, outcomes>>
            BY <1>7, <2>1 DEF FinishContinue
        <2>4. /\ n \in Node /\ snap \in Snapshots /\ snap \in RunRec(prepared)
              /\ Sound(snap, outcomes, None) /\ snap.live[n] /\ graph \in Graphs
            BY <2>1, <2>2, CallFacts, RunFacts
        <2>5. id \in Checkpoints(prepared)
            <3>1. snap.acp[n] \in Checkpoints(prepared) /\ snap.prep \in Checkpoints(prepared)
                BY <2>4 DEF RunRec
            <3> QED BY <2>3, <3>1 DEF CheckpointOf, Checkpoints
        <2>6. PICK capture : capture = Capture(state, id)
            OBVIOUS
        <2>7. capture \in CaptureRec(prepared') \cup {None}
            <3>1. state \in {"idle", "prepare_pending", "commit_pending"}
                BY <2>3, <2>4 DEF RunRec
            <3> QED BY <2>2, <2>5, <2>6, <3>1 DEF Capture, CaptureRec
        <2>8. CASE run' = run
            BY <2>8
        <2>9. CASE \E res \in ResultsAfterCommit(snap, n, ok) :
                        Store(snap, resolveWorkflowNodeContinuation(snap, n, res, capture))
            <3>1. PICK res \in ResultsAfterCommit(snap, n, ok) :
                    run' = resolveWorkflowNodeContinuation(snap, n, res, capture)
                BY <2>9 DEF Store
            <3>2. GoodResult(snap, n, res)
                BY <2>4, <3>1, ContinuationGood
            <3> QED BY <2>4, <2>7, <3>1, <3>2 DEF Moved
        <2> QED BY <2>3, <2>6, <2>8, <2>9
    <1> QED BY <1>0, <1>1, <1>2, <1>3, <1>4, <1>5, <1>6, <1>7 DEF Next

-------------------------------------------------------------------------------
(* A run that is ready or running has a node to execute.                     *)

\* Edge e is activated, and its source is not resolved, or is the node x that has just
\* completed: when the source completes (again), node n is looked at.
Awaits(r, e, n, x) == e.to = n /\ (r.st[e.from] \notin Resolved \/ e.from = x)

\* The source of an activated edge is active unless it was skipped, and then what it
\* leads to was resolved or skipped with it. A join does not need all its sources, and
\* a loop comes back whatever became of them.
SourcesOK(r) ==
    \A e \in r.edges :
        /\ e.from \in r.active \/ r.st[e.from] = "skipped"
        /\ r.st[e.from] = "skipped" /\ Type(e.to) \notin {"loop", "parallel-join"} =>
              r.st[e.to] \in Resolved

\* resolveRunStatus takes a run for completed when its active nodes are resolved: the
\* open nodes are active, and an active node that is pending is the body of a loop and
\* awaits another node.
WorkOK(r, x) ==
    /\ r.active # {}
    /\ x \in Node => x \in r.active /\ r.st[x] = "completed"
    /\ \A n \in Node :
          /\ r.st[n] \in Open => n \in r.active
          /\ n \in r.active /\ r.st[n] = "pending" =>
                Type(n) # "loop" /\ \E e \in r.edges : Awaits(r, e, n, x)
    /\ SourcesOK(r)

\* Node n was dispatched by its loop with no source skipped.
Entered(r, n) ==
    /\ r.parent[n] \in Node /\ Type(r.parent[n]) = "loop"
    /\ Type(n) \notin {"loop", "parallel-join"}
    => \A e \in r.edges : e.to = n => r.st[e.from] # "skipped"

LEMMA SameWork ==
    ASSUME NEW r, NEW s, SameFields(s, r), NEW x, WorkOK(r, x)
    PROVE  WorkOK(s, x)
    BY DEF WorkOK, SourcesOK, SameFields, Awaits

LEMMA FinishWork ==
    ASSUME graph \in Graphs, NEW p, NEW r \in RunRec(p), NEW n \in Node, NEW b, NEW s,
           r.st[n] \in Open, WorkOK(r, None), Finishes(s, r, n, b)
    PROVE  WorkOK(s, n) /\ Entered(s, n)
    <1>1. s.active = r.active /\ s.edges = r.edges /\ s.st[n] = "completed"
          /\ \A m \in Node \ {n} : s.st[m] = r.st[m]
        BY DEF Finishes, RunRec
    <1>2. \A e \in r.edges : e.from \in Node /\ e.to \in Node /\ e.from # None
        BY GraphFacts DEF RunRec
    <1>3. \A m \in Node : s.st[m] \in Open \cup {"pending"} => s.st[m] = r.st[m]
        BY <1>1 DEF Open
    <1>4. \A m \in Node : \A e \in r.edges : Awaits(r, e, m, None) => Awaits(s, e, m, n)
        BY <1>1, <1>2 DEF Awaits
    <1>5. \A m \in Node : s.st[m] = "skipped" => r.st[m] = "skipped"
        BY <1>1
    <1>6. SourcesOK(s)
        BY <1>1, <1>2, <1>5 DEF SourcesOK, WorkOK, Open, Resolved
    <1>7. Entered(s, n)
        BY <1>1, <1>2, <1>5 DEF Entered, SourcesOK, WorkOK, Open, Resolved
    <1> QED BY <1>1, <1>3, <1>4, <1>6, <1>7 DEF WorkOK

\* A pending node that awaits a loser is a loser.
LEMMA LoserWork ==
    ASSUME graph \in Graphs, NEW p, NEW r \in RunRec(p), NEW n \in Node, NEW s,
           WorkOK(r, n), Skips(s, r, RaceLosers(r, n))
    PROVE  WorkOK(s, n)
    <1>1. PICK losers : losers = RaceLosers(r, n)
        OBVIOUS
    <1>2. /\ losers \subseteq Node
          /\ \A m \in losers : r.st[m] \notin Resolved
          /\ \A e \in graph.edges : e.from \in losers /\ r.st[e.to] \notin Resolved
                 => e.to \in losers
        BY <1>1, LoserFacts
    <1>3. \A m \in Node : s.st[m] = IF m \in losers THEN "skipped" ELSE r.st[m]
        BY <1>1 DEF Skips, Assign, RunRec
    <1>4. s.active = r.active \ losers /\ s.edges = r.edges
        BY <1>1 DEF Skips
    <1>5. n \in s.active /\ s.st[n] = "completed"
        BY <1>2, <1>3, <1>4 DEF WorkOK, Resolved
    <1>6. ASSUME NEW m \in Node
          PROVE  /\ s.st[m] \in Open => m \in s.active
                 /\ m \in s.active /\ s.st[m] = "pending" =>
                       Type(m) # "loop" /\ \E e \in s.edges : Awaits(s, e, m, n)
        <2>1. s.st[m] \in Open => m \in s.active
            BY <1>3, <1>4 DEF WorkOK, Open
        <2>2. ASSUME m \in s.active, s.st[m] = "pending"
              PROVE  Type(m) # "loop" /\ \E e \in s.edges : Awaits(s, e, m, n)
            <3>1. m \notin losers /\ m \in r.active /\ r.st[m] = "pending"
                BY <1>3, <1>4, <2>2
            <3>2. Type(m) # "loop" /\ \E e \in r.edges : Awaits(r, e, m, n)
                BY <3>1 DEF WorkOK
            <3>6. PICK e \in r.edges : Awaits(r, e, m, n)
                BY <3>2
            <3>3. e \in graph.edges /\ e.from \in Node
                BY GraphFacts DEF RunRec
            <3>4. e.from \notin losers
                BY <1>2, <1>5, <3>1, <3>3, <3>6 DEF Awaits, Resolved, WorkOK
            <3>5. Awaits(s, e, m, n)
                BY <1>3, <3>3, <3>4, <3>6 DEF Awaits
            <3> QED BY <1>4, <3>2, <3>5
        <2> QED BY <2>1, <2>2
    <1>7. SourcesOK(s)
        <2> SUFFICES ASSUME NEW e \in r.edges
                     PROVE  /\ e.from \in s.active \/ s.st[e.from] = "skipped"
                            /\ s.st[e.from] = "skipped"
                               /\ Type(e.to) \notin {"loop", "parallel-join"}
                               => s.st[e.to] \in Resolved
            BY <1>4 DEF SourcesOK
        <2>1. e \in graph.edges /\ e.from \in Node /\ e.to \in Node
            BY GraphFacts DEF RunRec
        <2>2. SourcesOK(r)
            BY DEF WorkOK
        <2>3. e.from \in s.active \/ s.st[e.from] = "skipped"
            BY <1>3, <1>4, <2>1, <2>2 DEF SourcesOK
        <2>4. CASE e.from \in losers
            BY <1>2, <1>3, <2>1, <2>3, <2>4 DEF Resolved
        <2>5. CASE e.from \notin losers
            BY <1>3, <2>1, <2>2, <2>3, <2>5 DEF SourcesOK, Resolved
        <2> QED BY <2>4, <2>5
    <1> QED BY <1>5, <1>6, <1>7 DEF WorkOK

\* A pending node that awaited n alone is dispatched; any other awaits a source that is
\* to complete as well.
LEMMA ActivateWork ==
    ASSUME graph \in Graphs, NEW p, NEW r \in RunRec(p), NEW out,
           NEW n \in Node, NEW key, Sound(r, out, n), WorkOK(r, n), Entered(r, n),
           NEW s, NEW new \in SUBSET Node, new = NewReady(r, n, key),
           Dispatches(s, r, n, new, getActivatedOutboundEdgeIds(n, key))
    PROVE  WorkOK(s, None) /\ Entered(s, n)
    <1>1. \A m \in Node : s.st[m] = IF m \in new THEN "ready" ELSE r.st[m]
        BY DEF Dispatches, Assign, RunRec
    <1>2. PICK acts \in SUBSET Out(n) : acts = getActivatedOutboundEdgeIds(n, key)
        BY DEF getActivatedOutboundEdgeIds
    <1>3. s.active = r.active \cup new /\ s.edges = r.edges \cup acts
        BY <1>2 DEF Dispatches
    <1>4. /\ n \in r.active /\ r.st[n] = "completed" /\ SourcesOK(r)
          /\ \A m \in Node : m \in r.completed <=> r.st[m] = "completed"
        BY DEF WorkOK, Sound, ListsOK
    <1>5. \A e \in s.edges :
            /\ e \in graph.edges /\ e.from \in Node /\ e.to \in Node
            /\ e \in r.edges \/ e.from = n
        BY <1>2, <1>3, GraphFacts DEF RunRec, Out
    <1>6. new = { m \in { e.to : e \in Out(n) \cap s.edges } \ r.completed :
                    LET sources == { e.from : e \in In(m) \cap s.edges }
                    IN  IF Type(m) = "parallel-join" THEN sources \cap r.completed # {}
                                                     ELSE sources \subseteq r.completed }
                \ (r.ready \cup r.waiting \cup r.blocked)
        BY <1>2, <1>3 DEF NewReady, getNextReadyNodeIds
    <1>7. n \notin new
        BY <1>4, <1>6
    <1>8. ASSUME NEW m \in Node, m \in s.active, s.st[m] = "pending"
          PROVE  Type(m) # "loop" /\ \E e \in s.edges : Awaits(s, e, m, None)
        <2>1. m \notin new /\ m \in r.active /\ r.st[m] = "pending"
            BY <1>1, <1>3, <1>8
        <2>2. Type(m) # "loop" /\ \E e \in r.edges : Awaits(r, e, m, n)
            BY <2>1 DEF WorkOK
        <2>3. PICK e \in r.edges : Awaits(r, e, m, n)
            BY <2>2
        <2>4. CASE e.from # n
            <3>1. Awaits(s, e, m, None)
                BY <1>1, <1>3, <1>5, <2>3, <2>4 DEF Awaits, Resolved
            <3> QED BY <1>3, <2>2, <3>1
        <2>5. CASE e.from = n
            <3>0. e \in s.edges /\ e \in graph.edges
                BY <1>3, <1>5
            <3>1. e \in Out(n) \cap s.edges /\ e \in In(m) \cap s.edges
                BY <2>3, <2>5, <3>0 DEF Out, In, Awaits
            <3>2. m \notin r.completed \cup r.ready \cup r.waiting \cup r.blocked
                BY <2>1 DEF Sound, ListsOK
            <3>3. PICK sources : sources = { f.from : f \in In(m) \cap s.edges }
                OBVIOUS
            <3>4. m \in { f.to : f \in Out(n) \cap s.edges }
                BY <2>3, <3>1 DEF Awaits
            <3>5. ~IF Type(m) = "parallel-join" THEN sources \cap r.completed # {}
                                                ELSE sources \subseteq r.completed
                BY <1>6, <2>1, <3>2, <3>3, <3>4
            <3>6. n \in sources /\ n \in r.completed
                BY <1>4, <2>5, <3>1, <3>3
            <3>7. Type(m) # "parallel-join" /\ ~(sources \subseteq r.completed)
                BY <3>5, <3>6
            <3>8. PICK f \in In(m) \cap s.edges : f.from \notin r.completed
                BY <3>3, <3>7
            <3>9. f \in r.edges /\ f.to = m /\ f.from \in Node /\ r.st[f.from] # "completed"
                BY <1>4, <1>5, <3>6, <3>8 DEF In
            <3>10. r.st[f.from] # "skipped"
                BY <1>4, <2>1, <2>2, <3>7, <3>9 DEF SourcesOK, Resolved
            <3>11. Awaits(s, f, m, None)
                BY <1>1, <3>9, <3>10 DEF Awaits, Resolved
            <3> QED BY <1>3, <2>2, <3>9, <3>11
        <2> QED BY <2>4, <2>5
    <1>9. SourcesOK(s)
        <2> SUFFICES ASSUME NEW e \in s.edges
                     PROVE  /\ e.from \in s.active \/ s.st[e.from] = "skipped"
                            /\ s.st[e.from] = "skipped"
                               /\ Type(e.to) \notin {"loop", "parallel-join"}
                               => s.st[e.to] \in Resolved
            BY DEF SourcesOK
        <2>1. e.from \in s.active \/ s.st[e.from] = "skipped"
            BY <1>1, <1>3, <1>4, <1>5 DEF SourcesOK
        <2>2. ASSUME s.st[e.from] = "skipped", Type(e.to) \notin {"loop", "parallel-join"}
              PROVE  s.st[e.to] \in Resolved
            <3>1. e.from \notin r.completed /\ e.from # n /\ r.st[e.from] = "skipped"
                BY <1>1, <1>4, <1>5, <2>2
            <3>2. e \in r.edges /\ e \in In(e.to) \cap s.edges
                BY <1>5, <3>1 DEF In
            <3>3. e.to \notin new
                BY <1>6, <2>2, <3>1, <3>2
            <3> QED BY <1>1, <1>4, <1>5, <2>2, <3>1, <3>2, <3>3 DEF SourcesOK
        <2> QED BY <2>1, <2>2
    <1>10. Entered(s, n)
        <2>1. s.parent[n] = r.parent[n]
            BY <1>7 DEF Dispatches, Assign, RunRec
        <2>2. \A e \in s.edges : e.to = n => e \in r.edges
            <3> SUFFICES ASSUME NEW e \in s.edges, e.to = n PROVE e \in r.edges
                OBVIOUS
            <3>1. e \in graph.edges /\ (e \in r.edges \/ e.from = n)
                BY <1>5
            <3>2. e.from # e.to
                BY <3>1, NoSelfEdge
            <3> QED BY <3>1, <3>2
        <2> QED BY <1>1, <1>5, <2>1, <2>2 DEF Entered
    <1>11. \A m \in Node : s.st[m] \in Open => m \in s.active
        BY <1>1, <1>3 DEF WorkOK
    <1>12. s.active # {} /\ None \notin Node
        BY <1>3, GraphFacts DEF WorkOK
    <1> QED BY <1>8, <1>9, <1>10, <1>11, <1>12 DEF WorkOK

\* A loop comes back and its body waits for it.
LEMMA LoopWork ==
    ASSUME graph \in Graphs, PlainLoops(graph), NEW p, NEW r \in RunRec(p), NEW out,
           NEW n \in Node, Sound(r, out, n), Finished(r, n), WorkOK(r, None), Entered(r, n),
           NEW l \in Node, l = r.parent[n], Type(l) = "loop", r.branch[l] = "loop",
           NEW s, Repeats(s, r, l, { m \in LoopBody(l) : r.st[m] = "completed" })
    PROVE  WorkOK(s, None)
    <1>1. LoopBody(l) = {n} /\ n # l /\ Type(n) # "loop"
        BY OneBody DEF Deciding
    <1>2. PICK f \in r.edges : f.from = l /\ f.to = n /\ f.key = "loop"
        BY OneBody
    <1>3. { m \in LoopBody(l) : r.st[m] = "completed" } = {n}
        BY <1>1 DEF Finished
    <1>4. \A m \in Node : s.st[m] = IF m = l THEN "ready" ELSE IF m = n THEN "pending" ELSE r.st[m]
        <2>1. s.st = [Assign(r.st, {n}, "pending") EXCEPT ![l] = "ready"]
            BY <1>3 DEF Repeats
        <2>2. DOMAIN r.st = Node
            BY DEF RunRec
        <2> QED BY <1>1, <2>1, <2>2 DEF Assign
    <1>5. s.active = r.active \cup {l} /\ s.edges = r.edges
        BY DEF Repeats
    <1>6. ASSUME NEW m \in Node, m \in s.active, s.st[m] = "pending"
          PROVE  Type(m) # "loop" /\ \E e \in s.edges : Awaits(s, e, m, None)
        <2>1. CASE m = n
            <3>1. Awaits(s, f, m, None)
                BY <1>2, <1>4, <2>1 DEF Awaits, Resolved
            <3> QED BY <1>1, <1>5, <2>1, <3>1
        <2>2. CASE m # n
            <3>1. m \in r.active /\ r.st[m] = "pending"
                BY <1>4, <1>5, <1>6, <2>2
            <3>2. Type(m) # "loop" /\ \E e \in r.edges : Awaits(r, e, m, None)
                BY <3>1 DEF WorkOK
            <3>3. PICK e \in r.edges : Awaits(r, e, m, None)
                BY <3>2
            <3>4. e.from \in Node /\ e.from # None /\ e.from # n
                BY <3>3, GraphFacts DEF RunRec, Awaits, Finished, Resolved
            <3>5. Awaits(s, e, m, None)
                BY <1>4, <3>3, <3>4 DEF Awaits, Resolved
            <3> QED BY <1>5, <3>2, <3>5
        <2> QED BY <2>1, <2>2
    <1>7. \A m \in Node : s.st[m] \in Open => m \in s.active
        BY <1>4, <1>5 DEF WorkOK, Open
    <1>8. s.active # {} /\ None \notin Node
        BY <1>5, GraphFacts
    <1>9. SourcesOK(s)
        <2> SUFFICES ASSUME NEW e \in r.edges
                     PROVE  /\ e.from \in s.active \/ s.st[e.from] = "skipped"
                            /\ s.st[e.from] = "skipped"
                               /\ Type(e.to) \notin {"loop", "parallel-join"}
                               => s.st[e.to] \in Resolved
            BY <1>5 DEF SourcesOK
        <2>1. e.from \in Node /\ e.to \in Node
            BY GraphFacts DEF RunRec
        <2>2. SourcesOK(r) /\ r.st[n] = "completed"
            BY DEF WorkOK, Finished
        <2>3. e.from \in s.active \/ s.st[e.from] = "skipped"
            BY <1>4, <1>5, <2>1, <2>2 DEF SourcesOK
        <2>4. ASSUME s.st[e.from] = "skipped", Type(e.to) \notin {"loop", "parallel-join"}
              PROVE  s.st[e.to] \in Resolved
            <3>1. r.st[e.from] = "skipped"
                BY <1>4, <2>1, <2>4
            <3>2. e.to # n
                BY <2>4, <3>1 DEF Entered
            <3>3. e.to # l
                BY <2>4
            <3> QED BY <1>4, <2>1, <2>2, <2>4, <3>1, <3>2, <3>3 DEF SourcesOK
        <2> QED BY <2>3, <2>4
    <1> QED BY <1>6, <1>7, <1>8, <1>9 DEF WorkOK

LEMMA JoinWork ==
    ASSUME graph \in Graphs, NEW p, NEW r \in RunRec(p), NEW out, NEW n, Sound(r, out, n),
           WorkOK(r, None), NEW s, Wakes(s, r, JoinsAfter(r, n))
    PROVE  WorkOK(s, None)
    <1>1. PICK joins \in SUBSET Node : joins = JoinsAfter(r, n)
        BY DEF JoinsAfter, RunRec
    <1>2. \A m \in joins : r.st[m] = "waiting" /\ Type(m) = "parallel-join"
        BY <1>1 DEF JoinsAfter, Sound, ListsOK
    <1>3. \A m \in Node : s.st[m] = IF m \in joins THEN "ready" ELSE r.st[m]
        BY <1>1 DEF Wakes, Assign, RunRec
    <1>4. s.active = r.active /\ s.edges = r.edges
        BY DEF Wakes
    <1>5. \A e \in r.edges : e.from \in Node /\ e.to \in Node
        BY GraphFacts DEF RunRec
    <1>6. \A m \in Node : \A e \in r.edges : Awaits(r, e, m, None) => Awaits(s, e, m, None)
        BY <1>2, <1>3, <1>5 DEF Awaits, Resolved
    <1>7. \A m \in Node : /\ s.st[m] \in Open => r.st[m] \in Open
                          /\ s.st[m] = "pending" => r.st[m] = "pending"
        BY <1>2, <1>3 DEF Open
    <1>8. SourcesOK(s)
        BY <1>2, <1>3, <1>4, <1>5 DEF WorkOK, SourcesOK
    <1> QED BY <1>4, <1>6, <1>7, <1>8, GraphFacts DEF WorkOK

LEMMA ParkWork ==
    ASSUME graph \in Graphs, NEW p, NEW r \in RunRec(p), NEW n \in Node, NEW s,
           r.st[n] \in Open, WorkOK(r, None), NEW o \in {"waiting", "blocked", "failed"}, NEW k,
           Parks(s, r, n, o, k)
    PROVE  WorkOK(s, None)
    <1>1. s.active = r.active /\ s.edges = r.edges /\ s.st[n] = o
          /\ \A m \in Node \ {n} : s.st[m] = r.st[m]
        BY DEF Parks, RunRec
    <1>2. \A e \in r.edges : e.from \in Node /\ e.to \in Node
        BY GraphFacts DEF RunRec
    <1>3. \A m \in Node : \A e \in r.edges : Awaits(r, e, m, None) => Awaits(s, e, m, None)
        BY <1>1, <1>2 DEF Awaits, Resolved
    <1>4. \A m \in Node : /\ s.st[m] \in Open => r.st[m] \in Open
                          /\ s.st[m] = "pending" => r.st[m] = "pending"
        BY <1>1
    <1>5. SourcesOK(s)
        BY <1>1, <1>2 DEF WorkOK, SourcesOK, Open, Resolved
    <1> QED BY <1>1, <1>3, <1>4, <1>5, GraphFacts DEF WorkOK

LEMMA SuccessorsWork ==
    ASSUME graph \in Graphs, PlainLoops(graph), NEW p, NEW r \in RunRec(p),
           NEW out, NEW n \in Node, NEW key, Sound(r, out, n), JustDone(r, n, key),
           WorkOK(r, n), Entered(r, n), NEW s, s = activateSuccessors(r, n, key)
    PROVE  WorkOK(s, None)
    <1>1. PICK s1 : s1 = ActivateReady(r, n, key)
        OBVIOUS
    <1>2. s1 \in RunRec(p) /\ Sound(s1, out, n) /\ Finished(s1, n) /\ WorkOK(s1, None)
          /\ Entered(s1, n)
        <2>1. PICK new \in SUBSET Node :
                /\ s1 \in RunRec(p)
                /\ new = NewReady(r, n, key)
                /\ new \cap (r.ready \cup r.waiting \cup r.blocked \cup r.completed) = {}
                /\ \A m \in new : \E e \in r.edges \cup getActivatedOutboundEdgeIds(n, key) :
                     e.from = n /\ e.to = m
                /\ Dispatches(s1, r, n, new, getActivatedOutboundEdgeIds(n, key))
            BY <1>1, ActivateFields
        <2>2. Sound(s1, out, n) /\ Finished(s1, n)
            BY <2>1, ActivateSound
        <2>3. WorkOK(s1, None) /\ Entered(s1, n)
            BY <2>1, ActivateWork
        <2> QED BY <2>1, <2>2, <2>3
    <1>5. PICK s2 : s2 = ReactivateLoop(s1, n)
        OBVIOUS
    <1>6. s2 \in RunRec(p) /\ LoopsBack(s2, s1, n)
        BY <1>2, <1>5, LoopFields
    <1>7. Sound(s2, out, n)
        BY <1>2, <1>6, LoopSound DEF LoopsBack
    <1>8. WorkOK(s2, None)
        BY <1>2, <1>6, LoopWork DEF LoopsBack
    <1>9. s = ReactivateJoins(s2, n)
        BY <1>1, <1>5 DEF activateSuccessors
    <1>10. Wakes(s, s2, JoinsAfter(s2, n))
        BY <1>6, <1>9, JoinFields
    <1> QED BY <1>6, <1>7, <1>8, <1>10, JoinWork

LEMMA OutcomeWork ==
    ASSUME graph \in Graphs, PlainLoops(graph), NEW p, NEW r \in RunRec(p),
           NEW out, NEW n \in Node, r.st[n] \in Open, Sound(r, out, None), WorkOK(r, None),
           NEW res, GoodResult(r, n, res), res.branch = "loop" => r.abranch[n] = "loop",
           NEW s, s = applyAttemptOutcome(r, n, res)
    PROVE  WorkOK(s, None)
    <1>1. res \in ResultRec
        BY DEF GoodResult
    <1>2. CASE res.outcome # "completed"
        <2>1. res.outcome \in {"waiting", "blocked", "failed"}
            BY <1>1, <1>2 DEF ResultRec
        <2>2. s \in RunRec(p) /\ Parks(s, r, n, res.outcome, res.wait)
            BY <1>1, <1>2, ParkFields
        <2> QED BY <2>1, <2>2, ParkWork
    <1>3. CASE res.outcome = "completed"
        <2>1. PICK key : key = r.abranch[n]
            OBVIOUS
        <2>2. PICK d \in RunRec(p) : /\ Finishes(d, r, n, res.branch)
                                     /\ s = activateSuccessors(cancelRaceLosers(d, n), n, key)
            BY <1>1, <1>3, <2>1, DoneFields
        <2>3. Sound(d, out, n) /\ JustDone(d, n, key)
            BY <2>1, <2>2, FinishSound
        <2>4. WorkOK(d, n) /\ Entered(d, n)
            BY <2>2, FinishWork
        <2>5. PICK d2 : d2 = cancelRaceLosers(d, n)
            OBVIOUS
        <2>6. d2 \in RunRec(p)
              /\ IF Race(d.parent[n]) THEN Skips(d2, d, RaceLosers(d, n)) ELSE d2 = d
            BY <2>5, LoserFields
        <2>7. Sound(d2, out, n) /\ JustDone(d2, n, key) /\ WorkOK(d2, n) /\ Entered(d2, n)
            <3>1. CASE d2 = d
                BY <2>3, <2>4, <3>1
            <3>2. CASE Race(d.parent[n]) /\ Skips(d2, d, RaceLosers(d, n))
                <4>1. Sound(d2, out, n)
                      /\ \A m \in Node : d.st[m] = "completed" => d2.st[m] = "completed"
                    BY <2>3, <2>6, <3>2, LoserSound
                <4>2. d2.edges = d.edges /\ d2.branch = d.branch /\ d2.parent = d.parent
                    BY <3>2 DEF Skips
                <4>3. JustDone(d2, n, key)
                    BY <2>3, <4>1, <4>2 DEF JustDone, Finished
                <4>4. WorkOK(d2, n)
                    BY <2>4, <3>2, LoserWork
                <4>5. Entered(d2, n)
                    BY <3>2, <4>2 DEF Entered, Race
                <4> QED BY <4>1, <4>3, <4>4, <4>5
            <3> QED BY <2>6, <3>1, <3>2
        <2>8. s = activateSuccessors(d2, n, key)
            BY <2>2, <2>5
        <2> QED BY <2>6, <2>7, <2>8, SuccessorsWork
    <1> QED BY <1>2, <1>3

\* What the invariant says of a state while no cancel was announced.
Busy(r) == r.status \in {"ready", "running"} => r.ready # {}

\* resolveRunStatus: with nothing ready, waiting or blocked and no failure the run
\* has completed. Of the active nodes that are pending, one awaits none of the others.
LEMMA ResolveBusy ==
    ASSUME graph \in Graphs, NEW p, NEW r \in RunRec(p), NEW out, "canceled" \notin out,
           Sound(r, out, None), WorkOK(r, None), NEW s, s = Resolve(r)
    PROVE  WorkOK(s, None) /\ Busy(s)
    <1>1. s \in RunRec(p) /\ SameFields(s, r)
        BY ResolveFields
    <1>2. s.status = resolveRunStatus(r)
        BY DEF Resolve, RunRec
    <1>3. ASSUME r.ready = {}, resolveRunStatus(r) \in {"ready", "running"} PROVE FALSE
        <2>1. /\ r.blocked = {} /\ r.waiting = {}
              /\ \A n \in Node : r.st[n] # "failed"
              /\ ~\A n \in r.active : r.st[n] \in Resolved
            BY <1>3 DEF resolveRunStatus, WorkOK
        <2>2. PICK n \in r.active : r.st[n] \notin Resolved
            BY <2>1
        <2>3. n \in Node
            BY DEF RunRec
        <2>4. \A m \in Node : r.st[m] \notin Open \cup {"failed"}
            BY <1>3, <2>1 DEF Sound, ListsOK, Open
        <2>5. r.st[n] = "pending"
            <3>1. r.st[n] \in NodeStatus
                BY <2>3 DEF RunRec
            <3> QED BY <2>2, <2>3, <2>4, <3>1 DEF NodeStatus, Resolved, Open
        <2>6. PICK S \in SUBSET Node : S = { m \in r.active : r.st[m] = "pending" }
            BY DEF RunRec
        <2>7. PICK m \in S : \A e \in graph.edges : e.to = m => e.from \notin S
            <3>1. S \in SUBSET graph.nodes /\ S # {}
                BY <2>2, <2>5, <2>6 DEF Node
            <3> QED BY <3>1, GraphsAssumption DEF ValidGraph
        <2>8. PICK e \in r.edges : Awaits(r, e, m, None)
            BY <2>6, <2>7 DEF WorkOK
        <2>9. e \in graph.edges /\ e.from \in Node /\ e.from # None
            BY GraphFacts DEF RunRec
        <2>10. r.st[e.from] = "pending"
            <3>1. r.st[e.from] \in NodeStatus
                BY <2>9 DEF RunRec
            <3> QED BY <2>4, <2>8, <2>9, <3>1 DEF Awaits, NodeStatus, Resolved, Open
        <2>11. e.from \in r.active
            BY <2>10 DEF WorkOK, SourcesOK
        <2> QED BY <2>6, <2>7, <2>8, <2>9, <2>10, <2>11 DEF Awaits
    <1>4. Busy(s)
        BY <1>1, <1>2, <1>3 DEF Busy, SameFields
    <1> QED BY <1>1, <1>4, SameWork

LEMMA RecordBusy ==
    ASSUME graph \in Graphs, PlainLoops(graph), NEW p, NEW r \in RunRec(p),
           NEW out, "canceled" \notin out, Sound(r, out, None), WorkOK(r, None),
           NEW n \in Node, r.st[n] = "ready", r.att[n] < MaxAttempts,
           NEW res, GoodResult(r, n, res), NEW c \in CaptureRec(p),
           NEW s, s = recordWorkflowNodeExecution(r, n, res, c)
    PROVE  WorkOK(s, None) /\ Busy(s)
    <1>1. PICK t \in RunRec(p) :
            /\ SameFields(t, r) /\ t.abranch[n] = res.branch
            /\ t.att = [r.att EXCEPT ![n] = @ + 1]
            /\ s = Resolve(applyAttemptOutcome(t, n, res))
        BY RecordFields
    <1>2. Sound(t, out, None) /\ WorkOK(t, None)
        BY <1>1, SameSound, SameWork
    <1>3. t.st = r.st /\ t.st[n] \in Open
        BY <1>1 DEF SameFields, Open
    <1>4. GoodResult(t, n, res)
        BY <1>3, SameResult
    <1>5. PICK u : u = applyAttemptOutcome(t, n, res)
        OBVIOUS
    <1>6. u \in RunRec(p) /\ Sound(u, out, None)
        BY <1>1, <1>2, <1>3, <1>4, <1>5, OutcomeSound
    <1>7. WorkOK(u, None)
        BY <1>1, <1>2, <1>3, <1>4, <1>5, OutcomeWork
    <1> QED BY <1>1, <1>5, <1>6, <1>7, ResolveBusy

LEMMA ContinueBusy ==
    ASSUME graph \in Graphs, PlainLoops(graph), NEW p, NEW r \in RunRec(p),
           NEW out, "canceled" \notin out, Sound(r, out, None), WorkOK(r, None),
           NEW n \in Node, r.live[n],
           NEW res, GoodResult(r, n, res), NEW c \in CaptureRec(p) \cup {None},
           NEW s, s = resolveWorkflowNodeContinuation(r, n, res, c)
    PROVE  WorkOK(s, None) /\ Busy(s)
    <1>1. PICK t \in RunRec(p) :
            /\ SameFields(t, r)
            /\ res.branch = "loop" => t.abranch[n] = "loop"
            /\ s = Resolve(applyAttemptOutcome(t, n, res))
        BY ContinueFields
    <1>2. Sound(t, out, None) /\ WorkOK(t, None)
        BY <1>1, SameSound, SameWork
    <1>3. t.st = r.st /\ t.st[n] \in Open
        <2>1. n \in r.waiting \cup r.blocked
            BY DEF Sound, AttemptsOK
        <2>2. r.st[n] \in Open
            BY <2>1 DEF Sound, ListsOK, Open
        <2> QED BY <1>1, <2>2 DEF SameFields
    <1>4. GoodResult(t, n, res)
        BY <1>3, SameResult
    <1>5. PICK u : u = applyAttemptOutcome(t, n, res)
        OBVIOUS
    <1>6. u \in RunRec(p) /\ Sound(u, out, None)
        BY <1>1, <1>2, <1>3, <1>4, <1>5, OutcomeSound
    <1>7. WorkOK(u, None)
        BY <1>1, <1>2, <1>3, <1>4, <1>5, OutcomeWork
    <1> QED BY <1>1, <1>5, <1>6, <1>7, ResolveBusy

LEMMA CompleteBusy ==
    ASSUME graph \in Graphs, PlainLoops(graph), NEW p, NEW r \in RunRec(p),
           NEW out, "canceled" \notin out, Sound(r, out, None), WorkOK(r, None),
           NEW n \in Node, r.st[n] = "ready",
           NEW s, s = completeWorkflowNodeInRunState(r, n)
    PROVE  WorkOK(s, None) /\ Busy(s)
    <1>1. PICK key : key = r.branch[n]
        OBVIOUS
    <1>2. PICK d \in RunRec(p) : /\ Finishes(d, r, n, key)
                                /\ s = Resolve(activateSuccessors(d, n, key))
        BY <1>1, CompleteFields
    <1>3. r.st[n] \in Open
        BY DEF Open
    <1>4. Sound(d, out, n) /\ JustDone(d, n, key)
        BY <1>2, <1>3, FinishSound
    <1>5. WorkOK(d, n) /\ Entered(d, n)
        BY <1>2, <1>3, FinishWork
    <1>6. PICK u : u = activateSuccessors(d, n, key)
        OBVIOUS
    <1>7. u \in RunRec(p) /\ Sound(u, out, None)
        BY <1>2, <1>4, <1>6, SuccessorsSound
    <1>8. WorkOK(u, None)
        BY <1>2, <1>4, <1>5, <1>6, SuccessorsWork
    <1> QED BY <1>2, <1>6, <1>7, <1>8, ResolveBusy

LEMMA PauseBusy ==
    ASSUME graph \in Graphs, NEW p, NEW r \in RunRec(p), NEW out, "canceled" \notin out,
           Sound(r, out, None), WorkOK(r, None),
           NEW s, s \in {pauseWorkflowRunState(r), resumeWorkflowRunState(r)}
    PROVE  WorkOK(s, None) /\ Busy(s)
    <1>1. CASE s = pauseWorkflowRunState(r)
        <2>1. s = [r EXCEPT !.status = "paused"] /\ "paused" \in RunStatus
            BY <1>1 DEF pauseWorkflowRunState, RunStatus
        <2>2. SameFields(s, r) /\ s.status = "paused"
            BY <2>1, StatusFields DEF RunRec
        <2> QED BY <2>2, SameWork DEF Busy
    <1>2. CASE s = resumeWorkflowRunState(r)
        <2>1. PICK t : t = [r EXCEPT !.status = "running"]
            OBVIOUS
        <2>2. t \in RunRec(p) /\ SameFields(t, r)
            BY <2>1, StatusFields DEF RunStatus
        <2>3. Sound(t, out, None) /\ WorkOK(t, None)
            BY <2>2, SameSound, SameWork
        <2>4. s = Resolve(t)
            BY <1>2, <2>1 DEF resumeWorkflowRunState
        <2> QED BY <2>2, <2>3, <2>4, ResolveBusy
    <1> QED BY <1>1, <1>2

\* The entry nodes are ready: some node has no inbound edge.
LEMMA InitialBusy ==
    ASSUME graph \in Graphs, NEW r, r = createInitialWorkflowRunState
    PROVE  WorkOK(r, None) /\ Busy(r)
    <1>1. EntryNodes # {} /\ EntryNodes \subseteq Node
        <2>1. Node \in SUBSET graph.nodes /\ Node # {}
            BY GraphsAssumption DEF ValidGraph, Node
        <2>2. PICK n \in Node : \A e \in graph.edges : e.to = n => e.from \notin Node
            BY <2>1, GraphsAssumption DEF ValidGraph
        <2>3. In(n) = {}
            BY <2>2, GraphFacts DEF In
        <2> QED BY <2>3 DEF EntryNodes
    <1>2. r.active = EntryNodes /\ r.ready = EntryNodes
        BY DEF createInitialWorkflowRunState
    <1>3. \A n \in Node : r.st[n] = IF n \in EntryNodes THEN "ready" ELSE "pending"
        BY DEF createInitialWorkflowRunState, Assign
    <1>4. r.edges = {}
        BY DEF createInitialWorkflowRunState
    <1> QED BY <1>1, <1>2, <1>3, <1>4, GraphFacts DEF WorkOK, SourcesOK, Busy, Open

\* While no cancel was announced, every state stored or read by a call has work.
WorkInv == "canceled" \notin outcomes => \A r \in Snapshots : WorkOK(r, None) /\ Busy(r)

LEMMA MovedBusy ==
    ASSUME graph \in Graphs, PlainLoops(graph),
           NEW r \in RunRec(prepared'), Sound(r, outcomes', None), "canceled" \notin outcomes',
           WorkOK(r, None), Busy(r), NEW s, Moved(r, s)
    PROVE  WorkOK(s, None) /\ Busy(s)
    <1>1. CASE s \in {pauseWorkflowRunState(r), resumeWorkflowRunState(r)}
        BY <1>1, PauseBusy
    <1>2. CASE \E n \in Node : r.st[n] = "ready" /\ s = completeWorkflowNodeInRunState(r, n)
        BY <1>2, CompleteBusy
    <1>3. CASE \E n \in Node : \E res : \E c \in CaptureRec(prepared') :
                 /\ r.st[n] = "ready" /\ r.att[n] < MaxAttempts /\ GoodResult(r, n, res)
                 /\ s = recordWorkflowNodeExecution(r, n, res, c)
        <2>1. PICK n \in Node : \E res : \E c \in CaptureRec(prepared') :
                /\ r.st[n] = "ready" /\ r.att[n] < MaxAttempts /\ GoodResult(r, n, res)
                /\ s = recordWorkflowNodeExecution(r, n, res, c)
            BY <1>3
        <2> QED BY <2>1, RecordBusy
    <1>4. CASE \E n \in Node : \E res : \E c \in CaptureRec(prepared') \cup {None} :
                 /\ r.live[n] /\ GoodResult(r, n, res)
                 /\ s = resolveWorkflowNodeContinuation(r, n, res, c)
        <2>1. PICK n \in Node : \E res : \E c \in CaptureRec(prepared') \cup {None} :
                /\ r.live[n] /\ GoodResult(r, n, res)
                /\ s = resolveWorkflowNodeContinuation(r, n, res, c)
            BY <1>4
        <2> QED BY <2>1, ContinueBusy
    <1> QED BY <1>1, <1>2, <1>3, <1>4 DEF Moved

\* A snapshot, seen from the state after a step.
LEMMA SnapshotNext ==
    ASSUME EngineInv, Step, NEW r \in Snapshots
    PROVE  r \in RunRec(prepared') /\ Sound(r, outcomes', None)
    <1>1. prepared \in Nat /\ prepared' \in Nat /\ prepared =< prepared'
        BY BoundsAssumption DEF EngineInv, Step
    <1>2. Stored(r)
        BY DEF EngineInv
    <1>3. r \in RunRec(prepared')
        BY <1>1, <1>2, MoreCheckpoints DEF Stored
    <1>4. Sound(r, outcomes', None)
        <2>1. SameFields(r, r)
            BY DEF SameFields
        <2> QED BY <1>2, <2>1, SameSound DEF Stored, Step
    <1> QED BY <1>3, <1>4

LEMMA WorkStep ==
    ASSUME Plain, EngineInv, WorkInv, [Next]_vars
    PROVE  WorkInv'
    <1>1. Step /\ graph \in Graphs /\ PlainLoops(graph)
        BY NextStep DEF EngineInv, Plain
    <1>2. outcomes \subseteq outcomes' /\ Snapshots' \subseteq Snapshots \cup {run'} /\ graph' = graph
        BY <1>1 DEF Step
    <1> SUFFICES ASSUME "canceled" \notin outcomes', NEW r, r \in Snapshots'
                 PROVE  (WorkOK(r, None) /\ Busy(r))'
        BY DEF WorkInv
    <1>3. \A q \in Snapshots : WorkOK(q, None) /\ Busy(q)
        BY <1>2 DEF WorkInv
    <1>4. WorkOK(run', None) /\ Busy(run')
        <2>1. CASE run' \in Snapshots
            BY <1>3, <2>1
        <2>2. CASE \E prev \in Snapshots : Moved(prev, run')
            <3>1. PICK prev \in Snapshots : Moved(prev, run')
                BY <2>2
            <3>2. PICK s : s = run'
                OBVIOUS
            <3>3. WorkOK(s, None) /\ Busy(s)
                <4>1. prev \in RunRec(prepared') /\ Sound(prev, outcomes', None)
                    BY <1>1, SnapshotNext
                <4> QED BY <1>1, <1>3, <3>1, <3>2, <4>1, MovedBusy
            <3> QED BY <3>2, <3>3
        <2> QED BY <2>1, <2>2, Origin
    <1>5. WorkOK(r, None) /\ Busy(r)
        BY <1>2, <1>3, <1>4
    <1> QED BY <1>2, <1>5 DEF WorkOK, SourcesOK, Awaits, Busy, Node, Type

\* A run that says it is ready or running has a node to execute, unless it was
\* canceled, for every graph whose loops are plain, any number of overlapping calls
\* and any bounds: resolveRunStatus, which looks at the active nodes only, never takes
\* a run with nothing to do for one that goes on.
THEOREM RunsHaveWork == Plain => (Spec => []RunningHasWork)
    <1> SUFFICES ASSUME Plain PROVE Spec => []RunningHasWork
        OBVIOUS
    <1>1. Init => EngineInv /\ WorkInv
        <2> SUFFICES ASSUME Init PROVE WorkInv
            BY InitInv
        <2>1. graph \in Graphs /\ run = createInitialWorkflowRunState /\ call = [c \in Call |-> Idle]
            BY DEF Init
        <2>2. Snapshots = {run}
            BY <2>1 DEF Snapshots, Idle
        <2> QED BY <2>1, <2>2, InitialBusy DEF WorkInv
    <1>2. EngineInv /\ WorkInv /\ [Next]_vars => EngineInv' /\ WorkInv'
        BY NextInv, WorkStep
    <1>3. EngineInv /\ WorkInv => RunningHasWork
        BY RunFacts DEF WorkInv, Busy, RunningHasWork, Snapshots
    <1> QED BY <1>1, <1>2, <1>3, PTL DEF Spec

-------------------------------------------------------------------------------
(* A node that waits for its checkpoint completes when it is committed.      *)

\* No node of S is completed or waits anew.
QuietOn(s, r, S) ==
    /\ s.acp = r.acp
    /\ \A k \in S : /\ s.st[k] = "completed" => r.st[k] = "completed"
                    /\ s.wait[k] # None => s.wait[k] = r.wait[k]

LEMMA QuietTrans ==
    ASSUME NEW S, NEW r, NEW s, NEW t, QuietOn(s, r, S), QuietOn(t, s, S)
    PROVE  QuietOn(t, r, S)
    BY DEF QuietOn

LEMMA QuietWakes ==
    ASSUME NEW p, NEW r \in RunRec(p), NEW n, NEW s, Wakes(s, r, JoinsAfter(r, n))
    PROVE  QuietOn(s, r, Node)
    <1>1. PICK joins \in SUBSET Node : joins = JoinsAfter(r, n)
        BY DEF JoinsAfter, RunRec
    <1>2. \A k \in Node : /\ s.st[k] = IF k \in joins THEN "ready" ELSE r.st[k]
                          /\ s.wait[k] = IF k \in joins THEN None ELSE r.wait[k]
        BY <1>1 DEF Wakes, Assign, RunRec
    <1> QED BY <1>2 DEF QuietOn, Wakes, SameRecord

LEMMA QuietSkips ==
    ASSUME NEW p, NEW r \in RunRec(p), NEW losers, NEW s, Skips(s, r, losers)
    PROVE  QuietOn(s, r, Node)
    <1>1. \A k \in Node : /\ s.st[k] = IF k \in losers THEN "skipped" ELSE r.st[k]
                          /\ s.wait[k] = IF k \in losers THEN None ELSE r.wait[k]
        BY DEF Skips, Assign, RunRec
    <1> QED BY <1>1 DEF QuietOn, Skips, SameRecord

LEMMA QuietDispatches ==
    ASSUME NEW p, NEW r \in RunRec(p), NEW n, NEW new, NEW acts, NEW s,
           Dispatches(s, r, n, new, acts)
    PROVE  QuietOn(s, r, Node)
    <1>1. \A k \in Node : /\ s.st[k] = IF k \in new THEN "ready" ELSE r.st[k]
                          /\ s.wait[k] = r.wait[k]
        BY DEF Dispatches, Assign, RunRec
    <1> QED BY <1>1 DEF QuietOn, Dispatches, SameRecord

LEMMA QuietRepeats ==
    ASSUME NEW p, NEW r \in RunRec(p), NEW l \in Node, NEW done \in SUBSET Node, NEW s,
           Repeats(s, r, l, done)
    PROVE  QuietOn(s, r, Node)
    <1>1. \A k \in Node : s.st[k] = IF k = l THEN "ready" ELSE
                                    IF k \in done THEN "pending" ELSE r.st[k]
        <2>1. DOMAIN r.st = Node
            BY DEF RunRec
        <2> QED BY <2>1 DEF Repeats, Assign
    <1>2. \A k \in Node : s.wait[k] = IF k \in done \cup {l} THEN None ELSE r.wait[k]
        BY DEF Repeats, Assign, RunRec
    <1> QED BY <1>1, <1>2 DEF QuietOn, Repeats, SameRecord

LEMMA QuietSuccessors ==
    ASSUME graph \in Graphs, NEW p, NEW r \in RunRec(p), NEW n \in Node, NEW key,
           NEW s, s = activateSuccessors(r, n, key)
    PROVE  s \in RunRec(p) /\ QuietOn(s, r, Node)
    <1>1. PICK s1 : s1 = ActivateReady(r, n, key)
        OBVIOUS
    <1>2. s1 \in RunRec(p) /\ QuietOn(s1, r, Node)
        BY <1>1, ActivateFields, QuietDispatches
    <1>3. PICK s2 : s2 = ReactivateLoop(s1, n)
        OBVIOUS
    <1>4. s2 \in RunRec(p) /\ LoopsBack(s2, s1, n)
        BY <1>2, <1>3, LoopFields
    <1>5. QuietOn(s2, s1, Node)
        <2>1. CASE s2 = s1
            BY <2>1 DEF QuietOn
        <2>2. CASE s2 # s1
            <3>1. PICK l \in Node : Repeats(s2, s1, l, { m \in LoopBody(l) : s1.st[m] = "completed" })
                BY <1>4, <2>2 DEF LoopsBack
            <3>2. { m \in LoopBody(l) : s1.st[m] = "completed" } \in SUBSET Node
                BY GraphFacts DEF LoopBody, Out
            <3> QED BY <1>2, <3>1, <3>2, QuietRepeats
        <2> QED BY <2>1, <2>2
    <1>6. s = ReactivateJoins(s2, n)
        BY <1>1, <1>3 DEF activateSuccessors
    <1>7. s \in RunRec(p) /\ Wakes(s, s2, JoinsAfter(s2, n))
        BY <1>4, <1>6, JoinFields
    <1>8. QuietOn(s, s2, Node)
        BY <1>4, <1>7, QuietWakes
    <1> QED BY <1>2, <1>5, <1>7, <1>8, QuietTrans

\* Only n completes, or waits, and it does what its result says.
LEMMA QuietOutcome ==
    ASSUME graph \in Graphs, NEW p, NEW r \in RunRec(p), NEW n \in Node,
           NEW res \in ResultRec, NEW s, s = applyAttemptOutcome(r, n, res)
    PROVE  /\ s \in RunRec(p) /\ QuietOn(s, r, Node \ {n})
           /\ res.outcome # "completed" => s.st[n] # "completed" /\ s.wait[n] = res.wait
           /\ res.outcome = "completed" => s.wait[n] = None
    <1>1. CASE res.outcome # "completed"
        <2>1. s \in RunRec(p) /\ Parks(s, r, n, res.outcome, res.wait)
            BY <1>1, ParkFields
        <2>2. /\ s.st[n] = res.outcome /\ s.wait[n] = res.wait
              /\ \A k \in Node \ {n} : s.st[k] = r.st[k] /\ s.wait[k] = r.wait[k]
            BY <2>1 DEF Parks, RunRec
        <2> QED BY <1>1, <2>1, <2>2 DEF QuietOn, Parks, SameRecord
    <1>2. CASE res.outcome = "completed"
        <2>1. PICK d \in RunRec(p) :
                /\ Finishes(d, r, n, res.branch)
                /\ s = activateSuccessors(cancelRaceLosers(d, n), n, r.abranch[n])
            BY <1>2, DoneFields
        <2>2. PICK d2 : d2 = cancelRaceLosers(d, n)
            OBVIOUS
        <2>3. d2 \in RunRec(p) /\ (d2 = d \/ Skips(d2, d, RaceLosers(d, n)))
            BY <2>2, LoserFields
        <2>4. QuietOn(d2, d, Node)
            <3>1. CASE d2 = d
                BY <3>1 DEF QuietOn
            <3>2. CASE Skips(d2, d, RaceLosers(d, n))
                BY <3>2, QuietSkips
            <3> QED BY <2>3, <3>1, <3>2
        <2>5. s \in RunRec(p) /\ QuietOn(s, d2, Node)
            BY <2>1, <2>2, <2>3, QuietSuccessors
        <2>6. QuietOn(s, d, Node)
            BY <2>4, <2>5, QuietTrans
        <2>7. /\ d.wait[n] = None /\ d.acp = r.acp
              /\ \A k \in Node \ {n} : d.st[k] = r.st[k] /\ d.wait[k] = r.wait[k]
            BY <2>1 DEF Finishes, SameRecord, RunRec
        <2> QED BY <1>2, <2>5, <2>6, <2>7 DEF QuietOn
    <1> QED BY <1>1, <1>2

\* Nodes other than n are not completed and do not wait anew.
OthersWait(s, r, n) ==
    \A k \in Node \ {n} : /\ s.st[k] = "completed" => r.st[k] = "completed"
                          /\ s.wait[k] # None => s.wait[k] = r.wait[k]

LEMMA ResolveAcp ==
    ASSUME NEW p, NEW r \in RunRec(p), NEW s, s = Resolve(r)
    PROVE  s.st = r.st /\ s.wait = r.wait /\ s.acp = r.acp
    BY DEF Resolve, RunRec

LEMMA RecordWaits ==
    ASSUME graph \in Graphs, NEW p, NEW r \in RunRec(p), NEW n \in Node,
           r.att[n] < MaxAttempts, NEW res, GoodResult(r, n, res), NEW c \in CaptureRec(p),
           NEW s, s = recordWorkflowNodeExecution(r, n, res, c)
    PROVE  OthersWait(s, r, n)
    <1>1. PICK t \in RunRec(p) : /\ SameFields(t, r) /\ t.abranch[n] = res.branch
                                 /\ t.att = [r.att EXCEPT ![n] = @ + 1]
                                 /\ s = Resolve(applyAttemptOutcome(t, n, res))
        BY RecordFields
    <1>2. PICK u : u = applyAttemptOutcome(t, n, res)
        OBVIOUS
    <1>3. res \in ResultRec
        BY DEF GoodResult
    <1>4. u \in RunRec(p) /\ QuietOn(u, t, Node \ {n})
        BY <1>1, <1>2, <1>3, QuietOutcome
    <1>5. s.st = u.st /\ s.wait = u.wait
        BY <1>1, <1>2, <1>4, ResolveAcp
    <1>6. t.st = r.st /\ t.wait = r.wait
        BY <1>1 DEF SameFields
    <1> QED BY <1>4, <1>5, <1>6 DEF QuietOn, OthersWait

LEMMA ContinueWaits ==
    ASSUME graph \in Graphs, NEW p, NEW r \in RunRec(p), NEW n \in Node,
           NEW res, GoodResult(r, n, res), NEW c \in CaptureRec(p) \cup {None},
           NEW s, s = resolveWorkflowNodeContinuation(r, n, res, c)
    PROVE  /\ OthersWait(s, r, n)
           /\ c # None /\ c.id # None => s.acp[n] = c.id
           /\ s.st[n] = "completed" => res.outcome = "completed"
           /\ s.wait[n] # None => s.wait[n] = res.wait
    <1>1. PICK t \in RunRec(p) : /\ SameFields(t, r)
                                 /\ c # None /\ c.id # None => t.acp[n] = c.id
                                 /\ s = Resolve(applyAttemptOutcome(t, n, res))
        BY ContinueFields
    <1>2. PICK u : u = applyAttemptOutcome(t, n, res)
        OBVIOUS
    <1>3. res \in ResultRec
        BY DEF GoodResult
    <1>4. /\ u \in RunRec(p) /\ QuietOn(u, t, Node \ {n})
          /\ res.outcome # "completed" => u.st[n] # "completed" /\ u.wait[n] = res.wait
          /\ res.outcome = "completed" => u.wait[n] = None
        BY <1>1, <1>2, <1>3, QuietOutcome
    <1>5. s.st = u.st /\ s.wait = u.wait /\ s.acp = u.acp
        BY <1>1, <1>2, <1>4, ResolveAcp
    <1>6. t.st = r.st /\ t.wait = r.wait
        BY <1>1 DEF SameFields
    <1>7. OthersWait(s, r, n) /\ s.acp = t.acp
        BY <1>4, <1>5, <1>6 DEF QuietOn, OthersWait
    <1>8. /\ s.st[n] = "completed" => res.outcome = "completed"
          /\ s.wait[n] # None => s.wait[n] = res.wait
        BY <1>4, <1>5
    <1>9. c # None /\ c.id # None => s.acp[n] = c.id
        BY <1>1, <1>7
    <1> QED BY <1>7, <1>8, <1>9

LEMMA CompleteWaits ==
    ASSUME graph \in Graphs, NEW p, NEW r \in RunRec(p), NEW n \in Node, r.st[n] = "ready",
           NEW out, Sound(r, out, None), NEW s, s = completeWorkflowNodeInRunState(r, n)
    PROVE  OthersWait(s, r, n) /\ s.wait[n] = None
    <1>1. PICK d \in RunRec(p) : /\ Finishes(d, r, n, r.branch[n])
                                 /\ s = Resolve(activateSuccessors(d, n, r.branch[n]))
        BY CompleteFields
    <1>2. PICK u : u = activateSuccessors(d, n, r.branch[n])
        OBVIOUS
    <1>3. u \in RunRec(p) /\ QuietOn(u, d, Node)
        BY <1>1, <1>2, QuietSuccessors
    <1>4. s.st = u.st /\ s.wait = u.wait
        BY <1>1, <1>2, <1>3, ResolveAcp
    <1>5. /\ d.wait[n] = None
          /\ \A k \in Node \ {n} : d.st[k] = r.st[k] /\ d.wait[k] = r.wait[k]
        BY <1>1 DEF Finishes, RunRec
    <1> QED BY <1>3, <1>4, <1>5 DEF QuietOn, OthersWait

\* While the call is in flight no node begins to wait for a commit.
WaitsKnown ==
    \A c \in Call : call[c].op # "none" =>
        \A n \in Node : run.wait[n] = "checkpoint_commit" =>
            call[c].snap.wait[n] = "checkpoint_commit"

\* What a step may do to a node that waits for its commit.
CommitStep ==
    \A n \in Node : run.wait[n] = "checkpoint_commit" /\ run'.st[n] = "completed" =>
        run'.acp[n] \in committed'

\* Nothing new waits for a commit, and what waits goes on waiting or is abandoned.
NoNewCommit ==
    \A n \in Node : /\ run'.wait[n] = "checkpoint_commit" => run.wait[n] = "checkpoint_commit"
                    /\ run.wait[n] = "checkpoint_commit" => run'.st[n] # "completed"

LEMMA NoNewCommitStep ==
    ASSUME NoNewCommit, WaitsKnown, UNCHANGED <<graph, call>>
    PROVE  WaitsKnown' /\ CommitStep
    <1>1. Node' = Node
        BY DEF Node
    <1> QED BY <1>1 DEF NoNewCommit, WaitsKnown, CommitStep

\* A node that waits for its commit is neither ready nor completed.
LEMMA CommitWaits ==
    ASSUME NEW r, NEW out, Sound(r, out, None), NEW n \in Node, r.wait[n] = "checkpoint_commit"
    PROVE  r.st[n] = "waiting"
    <1>1. "checkpoint_commit" # None
        BY NullAssumption DEF WaitKind
    <1>2. n \in r.waiting
        BY <1>1 DEF Sound, AttemptsOK
    <1> QED BY <1>2 DEF Sound, ListsOK

\* pause, resume and cancel leave the statuses alone.
LEMMA ControlQuiet ==
    ASSUME EngineInv, Pause \/ Resume \/ Cancel
    PROVE  NoNewCommit /\ UNCHANGED <<graph, call>>
    <1>1. UNCHANGED <<graph, call>>
        BY DEF Pause, Resume, Cancel
    <1>2. run \in RunRec(prepared) /\ Sound(run, outcomes, None)
        BY RunFacts
    <1>3. \A n \in Node : run'.st[n] = run.st[n] /\ run'.wait[n] \in {None, run.wait[n]}
        <2>1. CASE Pause
            <3>1. run' = [run EXCEPT !.status = "paused"]
                BY <2>1 DEF Pause, pauseWorkflowRunState
            <3> QED BY <1>2, <3>1 DEF RunRec
        <2>2. CASE Resume
            <3>1. PICK t : t = [run EXCEPT !.status = "running"]
                OBVIOUS
            <3>2. t \in RunRec(prepared) /\ SameFields(t, run)
                BY <1>2, <3>1, StatusFields DEF RunStatus
            <3>3. run' = Resolve(t)
                BY <2>2, <3>1 DEF Resume, Store, resumeWorkflowRunState
            <3>4. run'.st = t.st /\ run'.wait = t.wait
                BY <3>2, <3>3 DEF Resolve, RunRec
            <3> QED BY <3>2, <3>4 DEF SameFields
        <2>3. CASE Cancel
            <3>1. run' = cancelWorkflowRunState(run)
                BY <2>3 DEF Cancel, Store
            <3>2. PICK affected : affected = run.active \cup run.ready \cup run.waiting \cup run.blocked
                OBVIOUS
            <3>3. run'.st = run.st /\ run'.wait = Assign(run.wait, affected, None)
                BY <1>2, <3>1, <3>2 DEF cancelWorkflowRunState, RunRec
            <3> QED BY <1>2, <3>3 DEF Assign, RunRec
        <2> QED BY <2>1, <2>2, <2>3
    <1>4. "checkpoint_commit" # None
        BY NullAssumption DEF WaitKind
    <1>5. \A n \in Node : run.wait[n] = "checkpoint_commit" => run.st[n] = "waiting"
        BY <1>2, CommitWaits
    <1> QED BY <1>1, <1>3, <1>4, <1>5 DEF NoNewCommit

LEMMA CompleteQuiet ==
    ASSUME EngineInv, NEW n \in Node, CompleteNode(n)
    PROVE  NoNewCommit /\ UNCHANGED <<graph, call>>
    <1>1. UNCHANGED <<graph, call>>
        BY DEF CompleteNode
    <1>2. run \in RunRec(prepared) /\ Sound(run, outcomes, None) /\ graph \in Graphs
        BY RunFacts
    <1>3. PICK s : s = completeWorkflowNodeInRunState(run, n)
        OBVIOUS
    <1>4. run' = s /\ run.st[n] = "ready"
        BY <1>3 DEF CompleteNode, CanComplete, Store
    <1>5. OthersWait(s, run, n) /\ s.wait[n] = None
        BY <1>2, <1>3, <1>4, CompleteWaits
    <1>6. "checkpoint_commit" # None
        BY NullAssumption DEF WaitKind
    <1>7. \A k \in Node : run.wait[k] = "checkpoint_commit" => run.st[k] = "waiting"
        BY <1>2, CommitWaits
    <1> QED BY <1>1, <1>4, <1>5, <1>6, <1>7 DEF NoNewCommit, OthersWait

\* A node that needs no commit is continued: it goes on waiting for what it waited for.
LEMMA ContinueNowQuiet ==
    ASSUME EngineInv, NEW n \in Node, ContinueNow(n)
    PROVE  NoNewCommit /\ UNCHANGED <<graph, call>>
    <1>1. UNCHANGED <<graph, call>>
        BY DEF ContinueNow
    <1>2. run \in RunRec(prepared) /\ Sound(run, outcomes, None) /\ graph \in Graphs
        BY RunFacts
    <1>3. PICK res \in resolveWorkflowContinuation(run, n) :
            run' = resolveWorkflowNodeContinuation(run, n, res, None)
        BY DEF ContinueNow, Store
    <1>4. run.wait[n] # "checkpoint_commit" /\ "checkpoint_commit" # None
        BY NullAssumption DEF ContinueNow, NeedsCommit, WaitKind
    <1>5. GoodResult(run, n, res)
        <2>1. res \in ResultsAfterCommit(run, n, TRUE)
            BY <1>3 DEF ResultsAfterCommit
        <2> QED BY <1>2, <2>1, ContinuationGood
    <1>6. res.wait \in {None, run.wait[n]}
        <2>1. run.wait[n] \in WaitKind \cup {None} /\ run.wait[n] # None
            BY <1>2, <1>3 DEF RunRec, resolveWorkflowContinuation
        <2>2. \/ res = Blocked(run.aeff[n]) \/ res = Waiting(run.wait[n], run.abranch[n], run.aeff[n])
              \/ \E b, eff : res = Completed(b, eff)
            BY <1>3, <2>1 DEF resolveWorkflowContinuation, WaitKind
        <2> QED BY <2>2 DEF Blocked, Waiting, Completed, Result
    <1>7. PICK s : s = resolveWorkflowNodeContinuation(run, n, res, None)
        OBVIOUS
    <1>8. OthersWait(s, run, n) /\ (s.wait[n] # None => s.wait[n] = res.wait)
        <2>1. None \in CaptureRec(prepared) \cup {None}
            OBVIOUS
        <2> QED BY <1>2, <1>5, <1>7, <2>1, ContinueWaits
    <1>9. \A k \in Node : run.wait[k] = "checkpoint_commit" => run.st[k] = "waiting"
        BY <1>2, CommitWaits
    <1>10. run' = s
        BY <1>3, <1>7
    <1> QED BY <1>1, <1>4, <1>6, <1>8, <1>9, <1>10 DEF NoNewCommit, OthersWait

\* One client awaits one call at a time; pause, resume, cancel, completeNode and the
\* continuations that need no commit may come in between.
OneCall == \A c, d \in Call : c = d

LEMMA BeginCommit ==
    ASSUME EngineInv, OneCall, WaitsKnown, NEW c \in Call, NEW n \in Node,
           BeginExecute(c, n) \/ BeginContinue(c, n)
    PROVE  WaitsKnown' /\ CommitStep
    <1>1. UNCHANGED <<graph, run>>
        BY DEF BeginExecute, BeginContinue
    <1>2. call'[c].snap = run
        BY DEF EngineInv, CallsOK, BeginExecute, BeginContinue
    <1>3. \A d \in Call : d = c
        BY DEF OneCall
    <1>4. WaitsKnown'
        BY <1>1, <1>2, <1>3 DEF WaitsKnown, Node
    <1>5. \A k \in Node : run.wait[k] = "checkpoint_commit" => run.st[k] = "waiting"
        BY RunFacts, CommitWaits
    <1> QED BY <1>1, <1>4, <1>5 DEF CommitStep

LEMMA EndCall ==
    ASSUME EngineInv, OneCall, NEW c \in Call, call' = [call EXCEPT ![c] = Idle]
    PROVE  WaitsKnown'
    BY DEF EngineInv, CallsOK, OneCall, WaitsKnown, Idle

LEMMA ExecuteCommit ==
    ASSUME EngineInv, OneCall, WaitsKnown, NEW c \in Call, FinishExecute(c)
    PROVE  WaitsKnown' /\ CommitStep
    <1>1. PICK n, snap : n = call[c].node /\ snap = call[c].snap
        OBVIOUS
    <1>2. call[c].op = "execute" /\ graph' = graph /\ call' = [call EXCEPT ![c] = Idle]
        BY DEF FinishExecute
    <1>3. WaitsKnown'
        BY <1>2, EndCall
    <1>4. PICK res \in ExecutionResults(snap, n), capture \in Captures :
            /\ CaptureCheckpoint(res.effect, capture)
            /\ LET final == IF res.outcome = "completed" /\ capture.state = "commit_pending"
                            THEN CheckpointPending(res) ELSE res
               IN  \/ /\ CanRecord(snap, n)
                      /\ Store(snap, recordWorkflowNodeExecution(snap, n, final, capture))
                   \/ /\ ~CanRecord(snap, n)
                      /\ UNCHANGED <<run, outcomes>>
        BY <1>1 DEF FinishExecute
    <1>5. /\ n \in Node /\ snap \in RunRec(prepared) /\ Sound(snap, outcomes, None)
          /\ snap.att[n] < MaxAttempts /\ graph \in Graphs
        BY <1>1, <1>2, CallFacts, RunFacts
    <1>6. PICK final : final = IF res.outcome = "completed" /\ capture.state = "commit_pending"
                               THEN CheckpointPending(res) ELSE res
        OBVIOUS
    <1>7. GoodResult(snap, n, final)
        BY <1>5, <1>6, ExecutionGood, PendingGood
    <1>8. prepared' \in prepared .. MaxCheckpoints /\ capture \in CaptureRec(prepared')
        BY <1>4, CaptureFacts
    <1>9. snap \in RunRec(prepared')
        <2>1. prepared \in Nat /\ prepared' \in Nat /\ prepared =< prepared'
            BY <1>8, RunFacts, BoundsAssumption
        <2> QED BY <1>5, <2>1, MoreCheckpoints
    <1>10. ASSUME NEW k \in Node, run.wait[k] = "checkpoint_commit"
           PROVE  run.st[k] = "waiting" /\ snap.st[k] = "waiting"
        <2>1. snap.wait[k] = "checkpoint_commit"
            BY <1>1, <1>2, <1>10 DEF WaitsKnown
        <2> QED BY <1>5, <1>10, <2>1, RunFacts, CommitWaits
    <1>11. CASE UNCHANGED <<run, outcomes>>
        BY <1>3, <1>10, <1>11 DEF CommitStep
    <1>12. CASE /\ CanRecord(snap, n)
                /\ Store(snap, recordWorkflowNodeExecution(snap, n, final, capture))
        <2>1. PICK s : s = recordWorkflowNodeExecution(snap, n, final, capture)
            OBVIOUS
        <2>2. OthersWait(s, snap, n)
            BY <1>5, <1>7, <1>8, <1>9, <2>1, RecordWaits
        <2>3. run' = s /\ snap.st[n] = "ready"
            BY <1>12, <2>1 DEF Store, CanRecord
        <2> QED BY <1>3, <1>10, <2>2, <2>3 DEF CommitStep, OthersWait
    <1> QED BY <1>4, <1>6, <1>11, <1>12

LEMMA ContinueCommit ==
    ASSUME EngineInv, OneCall, WaitsKnown, NEW c \in Call, FinishContinue(c)
    PROVE  WaitsKnown' /\ CommitStep
    <1>1. PICK n, snap : n = call[c].node /\ snap = call[c].snap
        OBVIOUS
    <1>2. /\ call[c].op = "continue" /\ graph' = graph /\ prepared' = prepared
          /\ call' = [call EXCEPT ![c] = Idle]
        BY DEF FinishContinue
    <1>3. WaitsKnown'
        BY <1>2, EndCall
    <1>4. PICK named, id, ok, state :
            /\ named \in 1 .. prepared \cup {None} /\ id = CheckpointOf(snap, n, named)
            /\ ok \in IF id = None THEN {FALSE} ELSE BOOLEAN
            /\ state = IF id = None THEN snap.ckpt ELSE IF ok THEN "idle" ELSE "commit_pending"
            /\ committed' = IF ok THEN committed \cup {id} ELSE committed
            /\ \/ \E res \in ResultsAfterCommit(snap, n, ok) :
                     Store(snap, resolveWorkflowNodeContinuation(snap, n, res, Capture(state, id)))
               \/ UNCHANGED <<run, outcomes>>
        BY <1>1 DEF FinishContinue
    <1>5. /\ n \in Node /\ snap \in RunRec(prepared) /\ Sound(snap, outcomes, None)
          /\ graph \in Graphs
        BY <1>1, <1>2, CallFacts, RunFacts
    <1>6. ASSUME NEW k \in Node, run.wait[k] = "checkpoint_commit"
          PROVE  /\ run.st[k] = "waiting" /\ snap.st[k] = "waiting"
                 /\ snap.wait[k] = "checkpoint_commit"
        <2>1. snap.wait[k] = "checkpoint_commit"
            BY <1>1, <1>2, <1>6 DEF WaitsKnown
        <2> QED BY <1>5, <1>6, <2>1, RunFacts, CommitWaits
    <1>7. CASE UNCHANGED <<run, outcomes>>
        BY <1>3, <1>6, <1>7 DEF CommitStep
    <1>8. CASE \E res \in ResultsAfterCommit(snap, n, ok) :
                 Store(snap, resolveWorkflowNodeContinuation(snap, n, res, Capture(state, id)))
        <2>1. PICK res \in ResultsAfterCommit(snap, n, ok) :
                 Store(snap, resolveWorkflowNodeContinuation(snap, n, res, Capture(state, id)))
            BY <1>8
        <2>2. PICK capture : capture = Capture(state, id)
            OBVIOUS
        <2>3. capture \in CaptureRec(prepared) \cup {None} /\ capture.id = id /\ capture # None
            <3>1. state \in {"idle", "prepare_pending", "commit_pending"}
                BY <1>4, <1>5 DEF RunRec
            <3>2. id \in Checkpoints(prepared)
                BY <1>4, <1>5 DEF RunRec, CheckpointOf, Checkpoints
            <3>3. capture \in CaptureRec(prepared) /\ capture.id = id
                BY <2>2, <3>1, <3>2 DEF Capture, CaptureRec
            <3>4. capture \in [state : {"idle", "prepare_pending", "commit_pending"},
                               id : Nat \cup {None}]
                BY <3>3, RunFacts DEF CaptureRec, Checkpoints
            <3> QED BY <3>3, <3>4, CaptureAssumption
        <2>4. PICK s : s = resolveWorkflowNodeContinuation(snap, n, res, capture)
            OBVIOUS
        <2>5. GoodResult(snap, n, res)
            BY <1>5, <2>1, ContinuationGood
        <2>6. /\ OthersWait(s, snap, n)
              /\ capture # None /\ capture.id # None => s.acp[n] = capture.id
              /\ s.st[n] = "completed" => res.outcome = "completed"
            BY <1>5, <2>3, <2>4, <2>5, ContinueWaits
        <2>7. run' = s
            BY <2>1, <2>2, <2>4 DEF Store
        <2>8. ASSUME run.wait[n] = "checkpoint_commit", s.st[n] = "completed"
              PROVE  s.acp[n] \in committed'
            <3>1. ok
                <4>1. ~ok => res.outcome = "waiting"
                    BY <1>5, <1>6, <2>1, <2>8 DEF ResultsAfterCommit, Waiting, Result
                <4> QED BY <2>6, <2>8, <4>1
            <3>2. id # None /\ id \in committed'
                BY <1>4, <3>1
            <3> QED BY <2>3, <2>6, <3>2
        <2>9. ASSUME NEW k \in Node, k # n, run.wait[k] = "checkpoint_commit"
              PROVE  s.st[k] # "completed"
            BY <1>6, <2>6, <2>9 DEF OthersWait
        <2> QED BY <1>3, <2>7, <2>8, <2>9 DEF CommitStep
    <1> QED BY <1>4, <1>7, <1>8

LEMMA CommitNext ==
    ASSUME EngineInv, OneCall, WaitsKnown, [Next]_vars
    PROVE  WaitsKnown' /\ CommitStep
    <1>1. CASE UNCHANGED vars
        <2>1. UNCHANGED <<graph, run, call>>
            BY <1>1 DEF vars
        <2>2. \A k \in Node : run.wait[k] = "checkpoint_commit" => run.st[k] = "waiting"
            BY RunFacts, CommitWaits
        <2> QED BY <2>1, <2>2 DEF WaitsKnown, CommitStep, Node
    <1>2. CASE Pause \/ Resume \/ Cancel
        BY <1>2, ControlQuiet, NoNewCommitStep
    <1>3. ASSUME NEW n \in Node, CompleteNode(n) PROVE WaitsKnown' /\ CommitStep
        BY <1>3, CompleteQuiet, NoNewCommitStep
    <1>4. ASSUME NEW n \in Node, ContinueNow(n) PROVE WaitsKnown' /\ CommitStep
        BY <1>4, ContinueNowQuiet, NoNewCommitStep
    <1>5. ASSUME NEW c \in Call, NEW n \in Node, BeginExecute(c, n) \/ BeginContinue(c, n)
          PROVE  WaitsKnown' /\ CommitStep
        BY <1>5, BeginCommit
    <1>6. ASSUME NEW c \in Call, FinishExecute(c) PROVE WaitsKnown' /\ CommitStep
        BY <1>6, ExecuteCommit
    <1>7. ASSUME NEW c \in Call, FinishContinue(c) PROVE WaitsKnown' /\ CommitStep
        BY <1>7, ContinueCommit
    <1> QED BY <1>1, <1>2, <1>3, <1>4, <1>5, <1>6, <1>7 DEF Next

\* A node that waits for its commit completes only when the checkpoint its attempt
\* records is committed, whichever checkpoint the request named, for every graph of
\* plain loops and any bounds, as long as one client awaits one call at a time: a
\* second, older call would store a state in which the node was never waiting.
THEOREM CommitsFirst == Plain /\ OneCall => (Spec => CommittedBeforeAdvance)
    <1> SUFFICES ASSUME Plain, OneCall PROVE Spec => CommittedBeforeAdvance
        OBVIOUS
    <1>1. Init => EngineInv /\ WaitsKnown
        <2> SUFFICES ASSUME Init PROVE WaitsKnown
            BY InitInv
        <2>1. call = [c \in Call |-> Idle]
            BY DEF Init
        <2> QED BY <2>1 DEF WaitsKnown, Idle
    <1>2. EngineInv /\ WaitsKnown /\ [Next]_vars => EngineInv' /\ WaitsKnown'
        BY NextInv, CommitNext
    <1>3. EngineInv /\ WaitsKnown /\ [Next]_vars =>
            [\A n \in Node :
                run.wait[n] = "checkpoint_commit" /\ run'.st[n] = "completed" =>
                    run'.acp[n] \in committed']_vars
        BY CommitNext DEF CommitStep
    <1> QED BY <1>1, <1>2, <1>3, PTL DEF Spec, CommittedBeforeAdvance

-------------------------------------------------------------------------------
(* A race is decided once.                                                   *)

Branches(q) == { e.to : e \in Out(q) }

\* The branches of a race are entered from its split only, and a race is not
\* repeated by a loop.
RacesAlone(g) ==
    \A e \in g.edges :
        /\ g.type[e.from] = "parallel-split" /\ g.config[e.from].mode = "race" =>
              \A f \in g.edges : f.to = e.to => f.from = e.from
        /\ g.type[e.to] = "parallel-split" /\ g.config[e.to].mode = "race" =>
              g.type[e.from] # "loop" \/ e.key # "loop"

\* Node b has completed by executing, or is the loop that did and comes back.
Won(r, b) == r.parent[b] = "root" \/ (r.st[b] = "completed" /\ r.att[b] > 0)

\* Node c was skipped, or completed by hand.
Lost(r, c) ==
    \/ r.st[c] = "skipped"
    \/ r.st[c] = "completed" /\ r.att[c] = 0 /\ r.parent[c] # "root"

\* Before a race begins its branches have not run; then all but a branch that won have
\* lost, and a branch that runs was dispatched by the split or is a loop that won.
\* Node x has just completed, node y has just begun an attempt.
RaceAt(r, x, y, q) ==
    IF r.st[q] # "completed" \/ q = x
    THEN \A b \in Branches(q) :
            r.st[b] \in {"pending", "skipped"} /\ r.att[b] = 0 /\ r.parent[b] = None
    ELSE \A b \in Branches(q) :
            /\ r.st[b] \notin {"pending", "skipped"} => r.parent[b] # None
            /\ b # y /\ r.st[b] = "ready" /\ r.att[b] > 0 => r.parent[b] = "root"
            /\ Won(r, b) => \A c \in Branches(q) \ {b} : Lost(r, c)

\* A node that chose a branch, or has an attempt, was executed.
Tried(r) == \A n \in Node : r.branch[n] # None \/ r.live[n] => r.att[n] > 0

LEMMA BranchFacts ==
    ASSUME graph \in Graphs, RacesAlone(graph), NEW q \in Node, Race(q)
    PROVE  /\ Branches(q) \subseteq Node \ {q} /\ None \notin Branches(q)
           /\ \A e \in graph.edges : e.to \in Branches(q) => e.from = q
           /\ \A l \in Node : Type(l) = "loop" => LoopBody(l) \cap (Branches(q) \cup {q}) = {}
    <1>1. Type(q) = "parallel-split" /\ graph.config[q].mode = "race"
        BY DEF Race
    <1>2. ASSUME NEW b \in Branches(q)
          PROVE  /\ b \in Node /\ b # q /\ b # None
                 /\ \A e \in graph.edges : e.to = b => e.from = q
        <2>1. PICK e \in graph.edges : e.from = q /\ e.to = b
            BY <1>2 DEF Branches, Out
        <2>2. b \in Node /\ b # q /\ b # None
            BY <2>1, GraphFacts, NoSelfEdge
        <2>3. \A f \in graph.edges : f.to = b => f.from = q
            BY <1>1, <2>1 DEF RacesAlone, Type
        <2> QED BY <2>2, <2>3
    <1>3. ASSUME NEW l \in Node, Type(l) = "loop", NEW m \in LoopBody(l)
          PROVE  m \notin Branches(q) \cup {q}
        <2>1. PICK e \in graph.edges : e.from = l /\ e.to = m /\ e.key = "loop"
            BY <1>3 DEF LoopBody, Out
        <2>2. m # q
            BY <1>1, <1>3, <2>1 DEF RacesAlone, Type
        <2>3. m \notin Branches(q)
            BY <1>1, <1>2, <1>3, <2>1
        <2> QED BY <2>2, <2>3
    <1> QED BY <1>2, <1>3

LEMMA RaceSkips ==
    ASSUME graph \in Graphs, RacesAlone(graph), NEW q \in Node, Race(q), NEW p,
           NEW r \in RunRec(p), NEW x, NEW y, RaceAt(r, x, y, q), NEW losers, NEW s,
           \A m \in losers : r.st[m] # "completed", Skips(s, r, losers)
    PROVE  RaceAt(s, x, y, q)
    <1>1. Branches(q) \subseteq Node
        BY BranchFacts
    <1>2. \A m \in Node : s.st[m] = IF m \in losers THEN "skipped" ELSE r.st[m]
        BY DEF Skips, Assign, RunRec
    <1>3. s.att = r.att /\ s.parent = r.parent
        BY DEF Skips, SameRecord
    <1>4. (s.st[q] # "completed") <=> (r.st[q] # "completed")
        BY <1>2
    <1>5. \A b \in Branches(q) : (Won(s, b) => Won(r, b)) /\ (Lost(r, b) => Lost(s, b))
        BY <1>1, <1>2, <1>3 DEF Won, Lost
    <1>6. CASE r.st[q] # "completed" \/ q = x
        BY <1>1, <1>2, <1>3, <1>4, <1>6 DEF RaceAt
    <1>7. CASE ~(r.st[q] # "completed" \/ q = x)
        BY <1>1, <1>2, <1>3, <1>4, <1>5, <1>7 DEF RaceAt
    <1> QED BY <1>6, <1>7

\* Node n completes and no branch of q wins by it.
LEMMA RaceFinish ==
    ASSUME graph \in Graphs, RacesAlone(graph), NEW q \in Node, Race(q), NEW p,
           NEW r \in RunRec(p), NEW n \in Node, r.st[n] \in Open, RaceAt(r, None, n, q),
           n \in Branches(q) => r.att[n] = 0 \/ r.parent[n] = "root",
           NEW k, NEW s, Finishes(s, r, n, k)
    PROVE  RaceAt(s, n, None, q)
    <1>1. Branches(q) \subseteq Node \ {q} /\ None \notin Branches(q) /\ q # None
        BY BranchFacts, GraphFacts
    <1>2. s.st[n] = "completed" /\ \A m \in Node \ {n} : s.st[m] = r.st[m]
        BY DEF Finishes, RunRec
    <1>3. s.att = r.att /\ s.parent = r.parent
        BY DEF Finishes, SameRecord
    <1>4. CASE r.st[q] # "completed"
        <2>1. \A b \in Branches(q) : r.st[b] \in {"pending", "skipped"} /\ r.att[b] = 0
                                     /\ r.parent[b] = None
            BY <1>4 DEF RaceAt
        <2>2. n \notin Branches(q)
            BY <2>1 DEF Open
        <2>3. s.st[q] # "completed" \/ q = n
            BY <1>2, <1>4
        <2> QED BY <1>1, <1>2, <1>3, <2>1, <2>2, <2>3 DEF RaceAt
    <1>5. CASE r.st[q] = "completed"
        <2>1. q # n /\ s.st[q] = "completed"
            BY <1>2, <1>5 DEF Open
        <2>2. \A b \in Branches(q) :
                /\ r.st[b] \notin {"pending", "skipped"} => r.parent[b] # None
                /\ b # n /\ r.st[b] = "ready" /\ r.att[b] > 0 => r.parent[b] = "root"
                /\ Won(r, b) => \A c \in Branches(q) \ {b} : Lost(r, c)
            BY <1>1, <1>5 DEF RaceAt
        <2>3. ~Lost(r, n)
            BY DEF Lost, Open
        <2>4. \A b \in Branches(q) \ {n} : /\ Won(s, b) => Won(r, b)
                                           /\ Lost(r, b) => Lost(s, b)
            BY <1>1, <1>2, <1>3 DEF Won, Lost
        <2>5. n \in Branches(q) /\ Won(s, n) => Won(r, n)
            BY <1>3 DEF Won
        <2>6. \A b \in Branches(q) : Won(s, b) => \A c \in Branches(q) \ {b} : Lost(s, c)
            BY <2>2, <2>3, <2>4, <2>5
        <2>7. \A b \in Branches(q) :
                /\ s.st[b] \notin {"pending", "skipped"} => s.parent[b] # None
                /\ s.st[b] = "ready" /\ s.att[b] > 0 => s.parent[b] = "root"
            BY <1>1, <1>2, <1>3, <2>2 DEF Open
        <2> QED BY <2>1, <2>6, <2>7 DEF RaceAt
    <1> QED BY <1>4, <1>5

\* cancelRaceLosers starts from every unresolved sibling.
LEMMA SiblingsLose ==
    ASSUME graph \in Graphs, NEW r, NEW n, NEW c \in Branches(r.parent[n]) \ {n},
           r.st[c] \notin Resolved
    PROVE  c \in RaceLosers(r, n)
    <1> DEFINE open == { m \in Node : r.st[m] \notin Resolved }
               siblings == { e.to : e \in Out(r.parent[n]) } \ {n}
               Closed(S) == /\ siblings \cap open \subseteq S
                            /\ \A e \in graph.edges : e.from \in S /\ e.to \in open => e.to \in S
    <1>1. RaceLosers(r, n) = { m \in open : \A S \in SUBSET open : Closed(S) => m \in S }
        BY DEF RaceLosers
    <1>2. c \in siblings /\ c \in Node
        BY GraphFacts DEF Branches, Out
    <1>3. c \in open
        BY <1>2
    <1>4. \A S : Closed(S) => c \in S
        BY <1>2, <1>3
    <1> QED BY <1>1, <1>3, <1>4

\* Node n, a branch of q, completes by executing: the other branches have lost.
LEMMA RaceWin ==
    ASSUME graph \in Graphs, RacesAlone(graph), NEW q \in Node, Race(q), NEW p,
           NEW r \in RunRec(p), NEW n \in Node, r.st[n] \in Open, r.att[n] > 0,
           RaceAt(r, None, n, q), n \in Branches(q), r.parent[n] = q,
           NEW k, NEW d, Finishes(d, r, n, k), NEW s, Skips(s, d, RaceLosers(d, n))
    PROVE  RaceAt(s, n, None, q)
    <1>1. Branches(q) \subseteq Node \ {q} /\ q # None /\ q # n /\ q # "root"
        BY BranchFacts, GraphFacts
    <1>2. d.st[n] = "completed" /\ \A m \in Node \ {n} : d.st[m] = r.st[m]
        BY DEF Finishes, RunRec
    <1>3. d.att = r.att /\ d.parent = r.parent /\ s.att = d.att /\ s.parent = d.parent
        BY DEF Finishes, Skips, SameRecord
    <1>4. r.st[q] = "completed"
        <2>1. r.st[n] \notin {"pending", "skipped"}
            BY DEF Open
        <2> QED BY <2>1 DEF RaceAt
    <1>5. DOMAIN d.st = Node
        BY DEF Finishes, RunRec
    <1>6. \A m \in Node : s.st[m] = IF m \in RaceLosers(d, n) THEN "skipped" ELSE d.st[m]
        BY <1>5 DEF Skips, Assign
    <1>7. \A m \in RaceLosers(d, n) : d.st[m] \notin Resolved
        BY LoserFacts
    <1>8. s.st[q] = "completed" /\ s.st[n] = "completed"
        BY <1>1, <1>2, <1>4, <1>6, <1>7 DEF Resolved
    <1>9. \A b \in Branches(q) :
            /\ r.st[b] \notin {"pending", "skipped"} => r.parent[b] # None
            /\ Won(r, b) => \A c \in Branches(q) \ {b} : Lost(r, c)
        BY <1>1, <1>4 DEF RaceAt
    <1>10. \A b \in Branches(q) : ~Won(r, b)
        <2>1. ~Lost(r, n) /\ ~Won(r, n)
            BY <1>1 DEF Lost, Won, Open
        <2> QED BY <1>9, <2>1
    <1>11. ASSUME NEW c \in Branches(q) \ {n} PROVE s.st[c] \in Resolved /\ Lost(s, c) /\ ~Won(s, c)
        <2>1. d.st[c] \in Resolved \/ c \in RaceLosers(d, n)
            BY <1>3, <1>11, SiblingsLose
        <2>2. s.st[c] = "skipped" \/ (s.st[c] = "completed" /\ r.st[c] = "completed")
            BY <1>1, <1>2, <1>6, <2>1 DEF Resolved
        <2>3. r.parent[c] # "root" /\ (r.st[c] = "completed" => ~(r.att[c] > 0))
            BY <1>10 DEF Won
        <2>4. r.att[c] \in Nat
            BY <1>1, BoundsAssumption DEF RunRec
        <2> QED BY <1>3, <2>2, <2>3, <2>4 DEF Lost, Won, Resolved
    <1>12. \A b \in Branches(q) :
            /\ s.st[b] \notin {"pending", "skipped"} => s.parent[b] # None
            /\ s.st[b] # "ready"
            /\ Won(s, b) => \A c \in Branches(q) \ {b} : Lost(s, c)
        <2>1. ASSUME NEW b \in Branches(q), b # n
              PROVE  /\ s.st[b] \notin {"pending", "skipped"} => s.parent[b] # None
                     /\ s.st[b] # "ready" /\ ~Won(s, b)
            <3>1. s.st[b] \in Resolved /\ ~Won(s, b)
                BY <1>11, <2>1
            <3>2. s.st[b] = "completed" => r.st[b] = "completed"
                BY <1>1, <1>2, <1>6, <2>1
            <3> QED BY <1>3, <1>9, <3>1, <3>2 DEF Resolved
        <2>2. s.parent[n] # None /\ s.st[n] # "ready"
            BY <1>1, <1>3, <1>8
        <2> QED BY <1>11, <2>1, <2>2
    <1> QED BY <1>1, <1>8, <1>12 DEF RaceAt

\* Node n leads to the nodes of new; no branch of q waits.
LeadsTo(n, new) == \A m \in new : \E e \in graph.edges : e.from = n /\ e.to = m
NoBranchWaits(r, q) == \A b \in Branches(q) : r.st[b] # "waiting"

\* The split of a race begins it; another node leads to no branch of it.
LEMMA RaceDispatch ==
    ASSUME graph \in Graphs, RacesAlone(graph), NEW q \in Node, Race(q), NEW p,
           NEW r \in RunRec(p), NEW out, NEW n \in Node, Sound(r, out, n), r.st[n] = "completed",
           RaceAt(r, n, None, q), NEW new \in SUBSET Node, NEW acts, NEW s,
           new \cap r.completed = {}, LeadsTo(n, new), Dispatches(s, r, n, new, acts)
    PROVE  RaceAt(s, None, None, q) /\ (q = n => NoBranchWaits(s, q))
    <1>1. Branches(q) \subseteq Node \ {q} /\ q # None /\ q # "root" /\ None \notin Branches(q)
          /\ \A e \in graph.edges : e.to \in Branches(q) => e.from = q
        BY BranchFacts, GraphFacts
    <1>2. \A m \in Node : /\ s.st[m] = IF m \in new THEN "ready" ELSE r.st[m]
                          /\ s.parent[m] = IF m \in new THEN n ELSE r.parent[m]
        BY DEF Dispatches, Assign, RunRec
    <1>3. s.att = r.att
        BY DEF Dispatches, SameRecord
    <1>4. \A m \in Node : r.st[m] = "completed" => s.st[m] = "completed"
        BY <1>2 DEF Sound, ListsOK
    <1>5. CASE q = n
        <2>1. \A b \in Branches(q) : r.st[b] \in {"pending", "skipped"} /\ r.att[b] = 0
                                     /\ r.parent[b] = None
            BY <1>5 DEF RaceAt
        <2>2. \A b \in Branches(q) :
                /\ s.st[b] \in {"pending", "skipped", "ready"}
                /\ s.st[b] = "ready" => s.parent[b] = n
                /\ s.parent[b] \in {None, n} /\ s.att[b] = 0
            BY <1>1, <1>2, <1>3, <2>1
        <2>3. None # "root"
            BY NullAssumption
        <2>4. \A b \in Branches(q) : ~Won(s, b)
            BY <1>1, <1>5, <2>2, <2>3 DEF Won
        <2>5. s.st[q] = "completed" /\ q # None
            BY <1>1, <1>4, <1>5
        <2> QED BY <1>1, <1>5, <2>2, <2>4, <2>5 DEF RaceAt, NoBranchWaits
    <1>6. CASE q # n
        <2>1. \A b \in Branches(q) : b \notin new
            BY <1>1, <1>6 DEF LeadsTo
        <2>2. \A b \in Branches(q) : s.st[b] = r.st[b] /\ s.parent[b] = r.parent[b]
            BY <1>1, <1>2, <2>1
        <2>3. (s.st[q] # "completed") <=> (r.st[q] # "completed")
            BY <1>2, <1>4
        <2>4. \A b \in Branches(q) : (Won(s, b) <=> Won(r, b)) /\ (Lost(s, b) <=> Lost(r, b))
            BY <1>3, <2>2 DEF Won, Lost
        <2>5. CASE r.st[q] # "completed"
            BY <1>3, <1>6, <2>2, <2>3, <2>5 DEF RaceAt
        <2>6. CASE r.st[q] = "completed"
            BY <1>1, <1>3, <1>6, <2>2, <2>3, <2>4, <2>6 DEF RaceAt
        <2> QED BY <1>6, <2>5, <2>6
    <1> QED BY <1>5, <1>6

\* A loop that comes back as a branch of a race has won it before.
LEMMA RaceLoop ==
    ASSUME graph \in Graphs, RacesAlone(graph), NEW q \in Node, Race(q), NEW p,
           NEW r \in RunRec(p), Tried(r), NEW l \in Node, r.st[l] = "completed",
           Type(l) = "loop", r.branch[l] = "loop", RaceAt(r, None, None, q), NEW done \in SUBSET Node,
           done \subseteq LoopBody(l), NEW s, Repeats(s, r, l, done)
    PROVE  RaceAt(s, None, None, q)
    <1>1. /\ Branches(q) \subseteq Node \ {q} /\ q # None /\ None \notin Branches(q)
          /\ done \cap (Branches(q) \cup {q}) = {}
        BY BranchFacts, GraphFacts
    <1>2. l # q
        BY DEF Race
    <1>3. \A m \in Node : /\ s.st[m] = IF m = l THEN "ready" ELSE
                                      IF m \in done THEN "pending" ELSE r.st[m]
                          /\ s.parent[m] = IF m = l THEN "root" ELSE r.parent[m]
        <2>1. DOMAIN r.st = Node /\ DOMAIN r.parent = Node
            BY DEF RunRec
        <2> QED BY <2>1 DEF Repeats, Assign
    <1>4. s.att = r.att
        BY DEF Repeats, SameRecord
    <1>5. s.st[q] = r.st[q]
        BY <1>1, <1>2, <1>3
    <1>6. \A b \in Branches(q) \ {l} : /\ s.st[b] = r.st[b] /\ s.parent[b] = r.parent[b]
                                       /\ Won(s, b) <=> Won(r, b)
                                       /\ Lost(s, b) <=> Lost(r, b)
        <2>1. \A b \in Branches(q) \ {l} : s.st[b] = r.st[b] /\ s.parent[b] = r.parent[b]
            BY <1>1, <1>3
        <2> QED BY <1>4, <2>1 DEF Won, Lost
    <1>7. CASE r.st[q] # "completed"
        <2>1. l \notin Branches(q)
            BY <1>7 DEF RaceAt
        <2> QED BY <1>4, <1>5, <1>6, <1>7, <2>1 DEF RaceAt
    <1>8. CASE r.st[q] = "completed"
        <2>1. \A b \in Branches(q) :
                /\ r.st[b] \notin {"pending", "skipped"} => r.parent[b] # None
                /\ r.st[b] = "ready" /\ r.att[b] > 0 => r.parent[b] = "root"
                /\ Won(r, b) => \A c \in Branches(q) \ {b} : Lost(r, c)
            BY <1>1, <1>8 DEF RaceAt
        <2>2. r.att[l] > 0
            BY NullAssumption DEF Tried, BranchKey
        <2>3. Won(r, l) /\ ~Lost(r, l)
            BY <2>2 DEF Won, Lost
        <2>4. s.parent[l] = "root" /\ "root" # None
            BY <1>3, NullAssumption
        <2>5. \A b \in Branches(q) : Won(s, b) => \A c \in Branches(q) \ {b} : Lost(s, c)
            BY <1>6, <2>1, <2>3
        <2>6. \A b \in Branches(q) :
                /\ s.st[b] \notin {"pending", "skipped"} => s.parent[b] # None
                /\ s.st[b] = "ready" /\ s.att[b] > 0 => s.parent[b] = "root"
            BY <1>4, <1>6, <2>1, <2>4
        <2> QED BY <1>1, <1>5, <1>8, <2>5, <2>6 DEF RaceAt
    <1> QED BY <1>7, <1>8

\* A branch that is a join does not wait when its race begins.
LEMMA RaceJoins ==
    ASSUME graph \in Graphs, RacesAlone(graph), NEW q \in Node, Race(q), NEW p,
           NEW r \in RunRec(p), NEW out, NEW n, Sound(r, out, n), RaceAt(r, None, None, q),
           q = n => NoBranchWaits(r, q),
           NEW s, Wakes(s, r, JoinsAfter(r, n))
    PROVE  RaceAt(s, None, None, q)
    <1>1. PICK joins : joins = JoinsAfter(r, n)
        OBVIOUS
    <1>2. /\ Branches(q) \subseteq Node \ {q}
          /\ \A e \in graph.edges : e.to \in Branches(q) => e.from = q
        BY BranchFacts
    <1>3. ASSUME NEW b \in Branches(q) PROVE b \notin joins
        <2>1. b \in r.waiting => r.st[b] = "waiting"
            BY <1>2 DEF Sound, ListsOK
        <2>2. \A e \in In(b) : e.from = q
            BY <1>2 DEF In
        <2> QED BY <1>1, <2>1, <2>2 DEF JoinsAfter, NoBranchWaits
    <1>4. q \notin joins
        BY <1>1 DEF JoinsAfter, Race
    <1>5. \A m \in Node : s.st[m] = IF m \in joins THEN "ready" ELSE r.st[m]
        BY <1>1 DEF Wakes, Assign, RunRec
    <1>6. s.att = r.att /\ s.parent = r.parent
        BY DEF Wakes, SameRecord
    <1>7. s.st[q] = r.st[q] /\ \A b \in Branches(q) : s.st[b] = r.st[b]
        BY <1>2, <1>3, <1>4, <1>5
    <1>8. \A b \in Branches(q) : (Won(s, b) <=> Won(r, b)) /\ (Lost(s, b) <=> Lost(r, b))
        BY <1>6, <1>7 DEF Won, Lost
    <1>9. CASE r.st[q] # "completed" \/ q = None
        BY <1>6, <1>7, <1>9 DEF RaceAt
    <1>10. CASE ~(r.st[q] # "completed" \/ q = None)
        BY <1>6, <1>7, <1>8, <1>10 DEF RaceAt
    <1> QED BY <1>9, <1>10

\* A node that waits, is blocked or fails decides nothing.
LEMMA RacePark ==
    ASSUME graph \in Graphs, RacesAlone(graph), NEW q \in Node, Race(q), NEW p,
           NEW r \in RunRec(p), NEW n \in Node, r.st[n] \in Open, RaceAt(r, None, n, q),
           NEW o \in {"waiting", "blocked", "failed"}, NEW k, NEW s, Parks(s, r, n, o, k)
    PROVE  RaceAt(s, None, None, q)
    <1>1. Branches(q) \subseteq Node \ {q} /\ None \notin Branches(q) /\ q # None
        BY BranchFacts, GraphFacts
    <1>2. s.st[n] = o /\ \A m \in Node \ {n} : s.st[m] = r.st[m]
        BY DEF Parks, RunRec
    <1>3. s.att = r.att /\ s.parent = r.parent
        BY DEF Parks, SameRecord
    <1>4. (s.st[q] = "completed") <=> (r.st[q] = "completed")
        BY <1>2 DEF Open
    <1>5. CASE r.st[q] # "completed"
        <2>1. n \notin Branches(q)
            BY <1>5 DEF RaceAt, Open
        <2> QED BY <1>1, <1>2, <1>3, <1>4, <1>5, <2>1 DEF RaceAt
    <1>6. CASE r.st[q] = "completed"
        <2>1. \A b \in Branches(q) :
                /\ r.st[b] \notin {"pending", "skipped"} => r.parent[b] # None
                /\ b # n /\ r.st[b] = "ready" /\ r.att[b] > 0 => r.parent[b] = "root"
                /\ Won(r, b) => \A c \in Branches(q) \ {b} : Lost(r, c)
            BY <1>1, <1>6 DEF RaceAt
        <2>2. ~Lost(r, n)
            BY DEF Lost, Open
        <2>3. \A b \in Branches(q) \ {n} : (Won(s, b) <=> Won(r, b)) /\ (Lost(s, b) <=> Lost(r, b))
            BY <1>1, <1>2, <1>3 DEF Won, Lost
        <2>4. Won(s, n) => Won(r, n)
            BY <1>2, <1>3 DEF Won
        <2>5. \A b \in Branches(q) : Won(s, b) => \A c \in Branches(q) \ {b} : Lost(s, c)
            BY <2>1, <2>2, <2>3, <2>4
        <2>6. \A b \in Branches(q) :
                /\ s.st[b] \notin {"pending", "skipped"} => s.parent[b] # None
                /\ s.st[b] = "ready" /\ s.att[b] > 0 => s.parent[b] = "root"
            BY <1>1, <1>2, <1>3, <2>1 DEF Open
        <2> QED BY <1>1, <1>4, <1>6, <2>5, <2>6 DEF RaceAt
    <1> QED BY <1>5, <1>6

LEMMA TriedSteps ==
    ASSUME NEW p, NEW r \in RunRec(p), Tried(r), NEW n, NEW s,
           \/ \E new, acts : Dispatches(s, r, n, new, acts)
           \/ \E l, done : Repeats(s, r, l, done)
           \/ \E joins : Wakes(s, r, joins)
           \/ \E losers : Skips(s, r, losers)
    PROVE  Tried(s)
    <1>1. s.att = r.att /\ s.branch = r.branch
        BY DEF Dispatches, Repeats, Wakes, Skips, SameRecord
    <1>2. ASSUME NEW m \in Node, s.live[m] PROVE r.live[m]
        <2>1. DOMAIN r.live = Node
            BY DEF RunRec
        <2>2. s.live = r.live \/ \E S : s.live = Assign(r.live, S, FALSE)
            BY DEF Dispatches, Repeats, Wakes, Skips
        <2> QED BY <1>2, <2>1, <2>2 DEF Assign
    <1> QED BY <1>1, <1>2 DEF Tried

LEMMA SuccessorsRaces ==
    ASSUME graph \in Graphs, PlainLoops(graph), RacesAlone(graph), NEW p, NEW r \in RunRec(p),
           NEW out, NEW n \in Node, NEW key, Sound(r, out, n), JustDone(r, n, key), Tried(r),
           NEW s, s = activateSuccessors(r, n, key)
    PROVE  /\ Tried(s)
           /\ \A q \in Node : Race(q) /\ RaceAt(r, n, None, q) => RaceAt(s, None, None, q)
    <1>1. PICK s1 : s1 = ActivateReady(r, n, key)
        OBVIOUS
    <1>2. PICK new \in SUBSET Node :
            /\ s1 \in RunRec(p)
            /\ new \cap (r.ready \cup r.waiting \cup r.blocked \cup r.completed) = {}
            /\ \A m \in new : \E e \in r.edges \cup getActivatedOutboundEdgeIds(n, key) :
                 e.from = n /\ e.to = m
            /\ Dispatches(s1, r, n, new, getActivatedOutboundEdgeIds(n, key))
        BY <1>1, ActivateFields
    <1>3. s1 \in RunRec(p) /\ Sound(s1, out, n) /\ Finished(s1, n) /\ Tried(s1)
        <2>1. Sound(s1, out, n) /\ Finished(s1, n)
            BY <1>2, ActivateSound
        <2>2. Tried(s1)
            BY <1>2, TriedSteps
        <2> QED BY <1>2, <2>1, <2>2
    <1>4. ASSUME NEW q \in Node, Race(q), RaceAt(r, n, None, q)
          PROVE  RaceAt(s1, None, None, q) /\ (q = n => NoBranchWaits(s1, q))
        <2>1. r.edges \cup getActivatedOutboundEdgeIds(n, key) \subseteq graph.edges
            BY DEF RunRec, getActivatedOutboundEdgeIds, Out
        <2>2. LeadsTo(n, new)
            BY <1>2, <2>1 DEF LeadsTo
        <2>3. r.st[n] = "completed" /\ new \cap r.completed = {}
            BY <1>2 DEF JustDone, Finished
        <2>4. PICK acts : Dispatches(s1, r, n, new, acts)
            BY <1>2
        <2> QED BY <1>4, <2>2, <2>3, <2>4, RaceDispatch
    <1>5. PICK s2 : s2 = ReactivateLoop(s1, n)
        OBVIOUS
    <1>6. s2 \in RunRec(p) /\ LoopsBack(s2, s1, n)
        BY <1>3, <1>5, LoopFields
    <1>7. Sound(s2, out, n)
        BY <1>3, <1>6, LoopSound DEF LoopsBack
    <1>8. /\ Tried(s2)
          /\ \A q \in Node : Race(q) /\ RaceAt(r, n, None, q) =>
                /\ RaceAt(s2, None, None, q)
                /\ q = n => NoBranchWaits(s2, q)
        <2>1. CASE s2 = s1
            BY <1>3, <1>4, <2>1
        <2>2. CASE s2 # s1
            <3>1. PICK l \in Node : /\ l = s1.parent[n] /\ Type(l) = "loop" /\ s1.branch[l] = "loop"
                                    /\ Repeats(s2, s1, l, { m \in LoopBody(l) : s1.st[m] = "completed" })
                BY <1>6, <2>2 DEF LoopsBack
            <3>2. PICK done : done = { m \in LoopBody(l) : s1.st[m] = "completed" }
                OBVIOUS
            <3>3. done \in SUBSET Node /\ done \subseteq LoopBody(l)
                BY <3>2, GraphFacts DEF LoopBody, Out
            <3>4. Tried(s2)
                BY <1>3, <3>1, TriedSteps
            <3>5. s1.st[l] = "completed"
                BY <1>3, <3>1 DEF Finished
            <3>6. LoopBody(l) = {n}
                BY <1>3, <3>1, OneBody
            <3>7. ASSUME NEW q \in Node, Race(q), RaceAt(r, n, None, q)
                  PROVE  RaceAt(s2, None, None, q) /\ q # n
                <4>1. RaceAt(s2, None, None, q)
                    BY <1>3, <1>4, <3>1, <3>2, <3>3, <3>5, <3>7, RaceLoop
                <4>2. q \notin LoopBody(l)
                    BY <3>1, <3>7, BranchFacts
                <4> QED BY <3>6, <4>1, <4>2
            <3> QED BY <3>4, <3>7
        <2> QED BY <2>1, <2>2
    <1>9. s = ReactivateJoins(s2, n)
        BY <1>1, <1>5 DEF activateSuccessors
    <1>10. Wakes(s, s2, JoinsAfter(s2, n))
        BY <1>6, <1>9, JoinFields
    <1>11. Tried(s)
        BY <1>6, <1>8, <1>10, TriedSteps
    <1>12. ASSUME NEW q \in Node, Race(q), RaceAt(r, n, None, q) PROVE RaceAt(s, None, None, q)
        BY <1>6, <1>7, <1>8, <1>10, <1>12, RaceJoins
    <1> QED BY <1>11, <1>12

\* The parent of an open branch of a race that has begun is the split, or the branch
\* is a loop that came back.
LEMMA BranchParent ==
    ASSUME graph \in Graphs, RacesAlone(graph), NEW q \in Node, Race(q), NEW p,
           NEW r \in RunRec(p), NEW out, NEW x, Sound(r, out, x), NEW n \in Branches(q),
           r.st[n] \in Open, NEW y, RaceAt(r, None, y, q)
    PROVE  r.parent[n] \in {q, "root"}
    <1>1. n \in Node /\ \A e \in graph.edges : e.to = n => e.from = q
        BY BranchFacts
    <1>2. r.parent[n] # None
        BY DEF RaceAt, Open
    <1>3. r.parent[n] \in Node => r.parent[n] = q
        <2>1. r.parent[n] \in Node => \E e \in r.edges : e.from = r.parent[n] /\ e.to = n
            BY <1>1 DEF Sound, ParentsOK
        <2> QED BY <1>1, <2>1 DEF RunRec
    <1> QED BY <1>1, <1>2, <1>3 DEF RunRec

LEMMA OutcomeRaces ==
    ASSUME graph \in Graphs, PlainLoops(graph), RacesAlone(graph), NEW p, NEW r \in RunRec(p),
           NEW out, NEW n \in Node, r.st[n] \in Open, Sound(r, out, None), Tried(r),
           r.att[n] > 0, NEW res, GoodResult(r, n, res),
           res.branch = "loop" => r.abranch[n] = "loop",
           NEW s, s = applyAttemptOutcome(r, n, res)
    PROVE  /\ Tried(s)
           /\ \A q \in Node : Race(q) /\ RaceAt(r, None, n, q) => RaceAt(s, None, None, q)
    <1>1. res \in ResultRec
        BY DEF GoodResult
    <1>2. CASE res.outcome # "completed"
        <2>1. res.outcome \in {"waiting", "blocked", "failed"}
            BY <1>1, <1>2 DEF ResultRec
        <2>2. Parks(s, r, n, res.outcome, res.wait)
            BY <1>1, <1>2, ParkFields
        <2>3. Tried(s)
            <3>1. s.att = r.att
                BY <2>2 DEF Parks, SameRecord
            <3>2. \A m \in Node \ {n} : s.branch[m] = r.branch[m]
                BY <2>2 DEF Parks, RunRec
            <3>3. \A m \in Node \ {n} : s.live[m] = r.live[m]
                BY <2>2 DEF Parks, RunRec
            <3> QED BY <3>1, <3>2, <3>3 DEF Tried
        <2> QED BY <2>1, <2>2, <2>3, RacePark
    <1>3. CASE res.outcome = "completed"
        <2>1. PICK key : key = r.abranch[n]
            OBVIOUS
        <2>2. PICK d \in RunRec(p) : /\ Finishes(d, r, n, res.branch)
                                     /\ s = activateSuccessors(cancelRaceLosers(d, n), n, key)
            BY <1>1, <1>3, <2>1, DoneFields
        <2>3. Sound(d, out, n) /\ JustDone(d, n, key)
            BY <2>1, <2>2, FinishSound
        <2>4. Tried(d)
            <3>1. d.att = r.att
                BY <2>2 DEF Finishes, SameRecord
            <3>2. \A m \in Node \ {n} : d.branch[m] = r.branch[m]
                BY <2>2 DEF Finishes, RunRec
            <3>3. \A m \in Node \ {n} : d.live[m] = r.live[m]
                BY <2>2 DEF Finishes, RunRec
            <3> QED BY <3>1, <3>2, <3>3 DEF Tried
        <2>5. PICK d2 : d2 = cancelRaceLosers(d, n)
            OBVIOUS
        <2>6. /\ d2 \in RunRec(p) /\ d.parent = r.parent
              /\ IF Race(r.parent[n]) THEN Skips(d2, d, RaceLosers(d, n)) ELSE d2 = d
            <3>1. d.parent = r.parent
                BY <2>2 DEF Finishes
            <3> QED BY <2>5, <3>1, LoserFields
        <2>7. /\ Sound(d2, out, n) /\ JustDone(d2, n, key) /\ Tried(d2)
            <3>1. CASE d2 = d
                BY <2>3, <2>4, <3>1
            <3>2. CASE Skips(d2, d, RaceLosers(d, n))
                <4>1. Sound(d2, out, n)
                      /\ \A m \in Node : d.st[m] = "completed" => d2.st[m] = "completed"
                    BY <2>3, <2>6, <3>2, LoserSound
                <4>2. d2.edges = d.edges /\ d2.branch = d.branch /\ d2.parent = d.parent
                    BY <3>2 DEF Skips
                <4>3. JustDone(d2, n, key)
                    BY <2>3, <4>1, <4>2 DEF JustDone, Finished
                <4>4. Tried(d2)
                    BY <2>4, <3>2, TriedSteps
                <4> QED BY <4>1, <4>3, <4>4
            <3> QED BY <2>6, <3>1, <3>2
        <2>8. ASSUME NEW q \in Node, Race(q), RaceAt(r, None, n, q) PROVE RaceAt(d2, n, None, q)
            <3>1. CASE n \in Branches(q) /\ r.parent[n] = q
                BY <2>2, <2>6, <2>8, <3>1, RaceWin
            <3>2. CASE ~(n \in Branches(q) /\ r.parent[n] = q)
                <4>1. n \in Branches(q) => r.parent[n] = "root"
                    BY <2>8, <3>2, BranchParent
                <4>2. RaceAt(d, n, None, q)
                    BY <2>2, <2>8, <4>1, RaceFinish
                <4>3. \A m \in RaceLosers(d, n) : d.st[m] # "completed"
                    BY LoserFacts DEF Resolved
                <4> QED BY <2>6, <2>8, <4>2, <4>3, RaceSkips
            <3> QED BY <3>1, <3>2
        <2>9. s = activateSuccessors(d2, n, key)
            BY <2>2, <2>5
        <2>10. /\ Tried(s)
               /\ \A q \in Node : Race(q) /\ RaceAt(d2, n, None, q) => RaceAt(s, None, None, q)
            BY <2>6, <2>7, <2>9, SuccessorsRaces
        <2> QED BY <2>8, <2>10
    <1> QED BY <1>2, <1>3

\* What the invariant says of a state.
RacesOK(r) == Tried(r) /\ \A q \in Node : Race(q) => RaceAt(r, None, None, q)

LEMMA SameRaces ==
    ASSUME graph \in Graphs, NEW r, NEW s, SameFields(s, r), s.att = r.att, NEW n
    PROVE  /\ Tried(r) => Tried(s)
           /\ \A q : RaceAt(r, None, None, q) => RaceAt(s, None, n, q)
    <1>1. s.st = r.st /\ s.parent = r.parent /\ s.branch = r.branch /\ s.live = r.live
        BY DEF SameFields
    <1>2. Tried(r) => Tried(s)
        BY <1>1 DEF Tried
    <1>3. ASSUME NEW q, RaceAt(r, None, None, q) PROVE RaceAt(s, None, n, q)
        <2>1. None \notin Branches(q)
            BY GraphFacts DEF Branches, Out
        <2>2. \A b : (Won(s, b) <=> Won(r, b)) /\ (Lost(s, b) <=> Lost(r, b))
            BY <1>1 DEF Won, Lost
        <2>3. CASE r.st[q] # "completed" \/ q = None
            BY <1>1, <1>3, <2>3 DEF RaceAt
        <2>4. CASE ~(r.st[q] # "completed" \/ q = None)
            BY <1>1, <1>3, <2>1, <2>2, <2>4 DEF RaceAt
        <2> QED BY <2>3, <2>4
    <1> QED BY <1>2, <1>3

LEMMA ResolveRaces ==
    ASSUME graph \in Graphs, NEW p, NEW r \in RunRec(p), RacesOK(r), NEW s, s = Resolve(r)
    PROVE  RacesOK(s)
    <1>1. SameFields(s, r) /\ s.att = r.att
        <2>1. SameFields(s, r)
            BY ResolveFields
        <2>2. s.att = r.att
            BY DEF Resolve, RunRec
        <2> QED BY <2>1, <2>2
    <1> QED BY <1>1, SameRaces DEF RacesOK

LEMMA RecordRaces ==
    ASSUME graph \in Graphs, PlainLoops(graph), RacesAlone(graph), NEW p, NEW r \in RunRec(p),
           NEW out, Sound(r, out, None), RacesOK(r), NEW n \in Node, r.st[n] = "ready",
           r.att[n] < MaxAttempts, NEW res, GoodResult(r, n, res), NEW c \in CaptureRec(p),
           NEW s, s = recordWorkflowNodeExecution(r, n, res, c)
    PROVE  RacesOK(s)
    <1>1. PICK t \in RunRec(p) :
            /\ SameFields(t, r) /\ t.abranch[n] = res.branch
            /\ t.att = [r.att EXCEPT ![n] = @ + 1]
            /\ s = Resolve(applyAttemptOutcome(t, n, res))
        BY RecordFields
    <1>2. Sound(t, out, None)
        BY <1>1, SameSound
    <1>3. t.st = r.st /\ t.st[n] \in Open /\ t.parent = r.parent
        BY <1>1 DEF SameFields, Open
    <1>4. GoodResult(t, n, res)
        BY <1>3, SameResult
    <1>5. /\ t.att[n] > 0
          /\ \A m \in Node \ {n} : t.att[m] = r.att[m]
        <2>1. r.att[n] \in Nat /\ DOMAIN r.att = Node
            BY BoundsAssumption DEF RunRec
        <2> QED BY <1>1, <2>1
    <1>6. Tried(t)
        BY <1>1, <1>5 DEF SameFields, Tried, RacesOK
    <1>7. ASSUME NEW q \in Node, Race(q) PROVE RaceAt(t, None, n, q)
        <2>1. RaceAt(r, None, None, q) /\ Branches(q) \subseteq Node
              /\ q # None /\ None \notin Branches(q)
            BY <1>7, BranchFacts, GraphFacts DEF RacesOK
        <2>2. CASE r.st[q] # "completed"
            <3>1. n \notin Branches(q)
                BY <2>1, <2>2 DEF RaceAt
            <3> QED BY <1>3, <1>5, <2>1, <2>2, <3>1 DEF RaceAt
        <2>3. CASE r.st[q] = "completed"
            <3>1. \A b \in Branches(q) : (Won(t, b) <=> Won(r, b)) /\ (Lost(t, b) <=> Lost(r, b))
                BY <1>3, <1>5, <2>1 DEF Won, Lost
            <3> QED BY <1>3, <1>5, <2>1, <2>3, <3>1 DEF RaceAt
        <2> QED BY <2>2, <2>3
    <1>8. PICK u : u = applyAttemptOutcome(t, n, res)
        OBVIOUS
    <1>9. u \in RunRec(p)
        BY <1>1, <1>2, <1>3, <1>4, <1>8, OutcomeSound
    <1>10. RacesOK(u)
        BY <1>1, <1>2, <1>3, <1>4, <1>5, <1>6, <1>7, <1>8, OutcomeRaces DEF RacesOK
    <1> QED BY <1>1, <1>8, <1>9, <1>10, ResolveRaces

LEMMA ContinueRaces ==
    ASSUME graph \in Graphs, PlainLoops(graph), RacesAlone(graph), NEW p, NEW r \in RunRec(p),
           NEW out, Sound(r, out, None), RacesOK(r), NEW n \in Node, r.live[n],
           NEW res, GoodResult(r, n, res), NEW c \in CaptureRec(p) \cup {None},
           NEW s, s = resolveWorkflowNodeContinuation(r, n, res, c)
    PROVE  RacesOK(s)
    <1>1. PICK t \in RunRec(p) :
            /\ SameFields(t, r) /\ t.att = r.att
            /\ res.branch = "loop" => t.abranch[n] = "loop"
            /\ s = Resolve(applyAttemptOutcome(t, n, res))
        BY ContinueFields
    <1>2. Sound(t, out, None)
        BY <1>1, SameSound
    <1>3. t.st = r.st /\ t.st[n] \in Open
        <2>1. n \in r.waiting \cup r.blocked
            BY DEF Sound, AttemptsOK
        <2>2. r.st[n] \in Open
            BY <2>1 DEF Sound, ListsOK, Open
        <2> QED BY <1>1, <2>2 DEF SameFields
    <1>4. GoodResult(t, n, res)
        BY <1>3, SameResult
    <1>5. t.att[n] > 0
        BY <1>1 DEF RacesOK, Tried
    <1>6. Tried(t) /\ \A q \in Node : Race(q) => RaceAt(t, None, n, q)
        BY <1>1, SameRaces DEF RacesOK
    <1>8. PICK u : u = applyAttemptOutcome(t, n, res)
        OBVIOUS
    <1>9. u \in RunRec(p)
        BY <1>1, <1>2, <1>3, <1>4, <1>8, OutcomeSound
    <1>10. RacesOK(u)
        BY <1>1, <1>2, <1>3, <1>4, <1>5, <1>6, <1>8, OutcomeRaces DEF RacesOK
    <1> QED BY <1>1, <1>8, <1>9, <1>10, ResolveRaces

\* A branch completed by hand was dispatched by the split, and has not run, or won before.
LEMMA CompleteRaces ==
    ASSUME graph \in Graphs, PlainLoops(graph), RacesAlone(graph), NEW p, NEW r \in RunRec(p),
           NEW out, Sound(r, out, None), RacesOK(r), NEW n \in Node, r.st[n] = "ready",
           NEW s, s = completeWorkflowNodeInRunState(r, n)
    PROVE  RacesOK(s)
    <1>1. PICK key : key = r.branch[n]
        OBVIOUS
    <1>2. PICK d \in RunRec(p) : /\ Finishes(d, r, n, key)
                                 /\ s = Resolve(activateSuccessors(d, n, key))
        BY <1>1, CompleteFields
    <1>3. r.st[n] \in Open
        BY DEF Open
    <1>4. Sound(d, out, n) /\ JustDone(d, n, key)
        BY <1>2, <1>3, FinishSound
    <1>5. Tried(d)
        <2>1. d.att = r.att
            BY <1>2 DEF Finishes, SameRecord
        <2>2. \A m \in Node : d.branch[m] = r.branch[m]
            BY <1>1, <1>2 DEF Finishes, RunRec
        <2>3. \A m \in Node \ {n} : d.live[m] = r.live[m]
            BY <1>2 DEF Finishes, RunRec
        <2>4. d.live[n] = FALSE
            BY <1>2 DEF Finishes, RunRec
        <2> QED BY <2>1, <2>2, <2>3, <2>4 DEF Tried, RacesOK
    <1>6. ASSUME NEW q \in Node, Race(q) PROVE RaceAt(d, n, None, q)
        <2>1. RaceAt(r, None, None, q) /\ RaceAt(r, None, n, q)
            <3>1. RaceAt(r, None, None, q)
                BY <1>6 DEF RacesOK
            <3>2. SameFields(r, r)
                BY DEF SameFields
            <3> QED BY <3>1, <3>2, SameRaces
        <2>2. n \in Branches(q) => r.att[n] = 0 \/ r.parent[n] = "root"
            <3>1. r.att[n] \in Nat /\ n # None /\ q # None
                BY BoundsAssumption, GraphFacts DEF RunRec
            <3> QED BY <2>1, <3>1 DEF RaceAt
        <2> QED BY <1>2, <1>3, <1>6, <2>1, <2>2, RaceFinish
    <1>7. PICK u : u = activateSuccessors(d, n, key)
        OBVIOUS
    <1>8. u \in RunRec(p)
        BY <1>2, <1>4, <1>7, SuccessorsSound
    <1>9. RacesOK(u)
        BY <1>2, <1>4, <1>5, <1>6, <1>7, SuccessorsRaces DEF RacesOK
    <1> QED BY <1>2, <1>7, <1>8, <1>9, ResolveRaces

\* pause, resume and cancel change neither statuses nor attempts nor parents.
LEMMA ControlRaces ==
    ASSUME graph \in Graphs, NEW p, NEW r \in RunRec(p), RacesOK(r), NEW s,
           s \in {pauseWorkflowRunState(r), resumeWorkflowRunState(r), cancelWorkflowRunState(r)}
    PROVE  RacesOK(s)
    <1>1. CASE s = pauseWorkflowRunState(r)
        <2>1. s = [r EXCEPT !.status = "paused"]
            BY <1>1 DEF pauseWorkflowRunState
        <2>2. SameFields(s, r) /\ s.att = r.att
            BY <2>1 DEF RunRec, SameFields
        <2> QED BY <2>2, SameRaces DEF RacesOK
    <1>2. CASE s = resumeWorkflowRunState(r)
        <2>1. PICK t : t = [r EXCEPT !.status = "running"]
            OBVIOUS
        <2>2. t \in RunRec(p) /\ SameFields(t, r)
            BY <2>1, StatusFields DEF RunStatus
        <2>3. t.att = r.att
            BY <2>1 DEF RunRec
        <2>4. RacesOK(t)
            BY <2>2, <2>3, SameRaces DEF RacesOK
        <2>5. s = Resolve(t)
            BY <1>2, <2>1 DEF resumeWorkflowRunState
        <2> QED BY <2>2, <2>4, <2>5, ResolveRaces
    <1>3. CASE s = cancelWorkflowRunState(r)
        <2>1. PICK affected : affected = r.active \cup r.ready \cup r.waiting \cup r.blocked
            OBVIOUS
        <2>2. /\ s.st = r.st /\ s.att = r.att /\ s.parent = r.parent /\ s.branch = r.branch
              /\ s.live = Assign(r.live, affected, FALSE)
            BY <1>3, <2>1 DEF cancelWorkflowRunState, RunRec
        <2>3. \A m \in Node : s.live[m] => r.live[m]
            <3>1. DOMAIN r.live = Node
                BY DEF RunRec
            <3> QED BY <2>2, <3>1 DEF Assign
        <2>4. Tried(s)
            BY <2>2, <2>3 DEF RacesOK, Tried
        <2>5. \A q : RaceAt(r, None, None, q) => RaceAt(s, None, None, q)
            <3>1. \A b : (Won(s, b) <=> Won(r, b)) /\ (Lost(s, b) <=> Lost(r, b))
                BY <2>2 DEF Won, Lost
            <3> QED BY <2>2, <3>1 DEF RaceAt
        <2> QED BY <2>4, <2>5 DEF RacesOK
    <1> QED BY <1>1, <1>2, <1>3

LEMMA InitialRaces ==
    ASSUME graph \in Graphs, RacesAlone(graph), NEW r, r = createInitialWorkflowRunState
    PROVE  RacesOK(r)
    <1>1. /\ r.att = [n \in Node |-> 0] /\ r.live = [n \in Node |-> FALSE]
          /\ r.branch = [n \in Node |-> None]
          /\ r.st = Assign([n \in Node |-> "pending"], EntryNodes, "ready")
          /\ r.parent = Assign([n \in Node |-> None], EntryNodes, "root")
        BY DEF createInitialWorkflowRunState
    <1>2. \A n \in Node : /\ r.att[n] = 0 /\ ~r.live[n] /\ r.branch[n] = None
                          /\ r.st[n] = IF n \in EntryNodes THEN "ready" ELSE "pending"
                          /\ r.parent[n] = IF n \in EntryNodes THEN "root" ELSE None
        BY <1>1 DEF Assign
    <1>3. Tried(r)
        BY <1>2 DEF Tried
    <1>4. ASSUME NEW q \in Node, Race(q) PROVE RaceAt(r, None, None, q)
        <2>1. \A b \in Branches(q) : b \in Node /\ b \notin EntryNodes
            <3>1. \A b \in Branches(q) : \E e \in graph.edges : e.to = b
                BY DEF Branches, Out
            <3> QED BY <1>4, <3>1, BranchFacts DEF EntryNodes, In
        <2>2. r.st[q] # "completed"
            BY <1>2
        <2> QED BY <1>2, <2>1, <2>2 DEF RaceAt
    <1> QED BY <1>3, <1>4 DEF RacesOK

LEMMA MovedRaces ==
    ASSUME graph \in Graphs, PlainLoops(graph), RacesAlone(graph),
           NEW r \in RunRec(prepared'), Sound(r, outcomes', None), RacesOK(r),
           NEW s, Moved(r, s)
    PROVE  RacesOK(s)
    <1>1. CASE s \in {pauseWorkflowRunState(r), resumeWorkflowRunState(r), cancelWorkflowRunState(r)}
        BY <1>1, ControlRaces
    <1>2. CASE \E n \in Node : r.st[n] = "ready" /\ s = completeWorkflowNodeInRunState(r, n)
        BY <1>2, CompleteRaces
    <1>3. CASE \E n \in Node : \E res : \E c \in CaptureRec(prepared') :
                 /\ r.st[n] = "ready" /\ r.att[n] < MaxAttempts /\ GoodResult(r, n, res)
                 /\ s = recordWorkflowNodeExecution(r, n, res, c)
        BY <1>3, RecordRaces
    <1>4. CASE \E n \in Node : \E res : \E c \in CaptureRec(prepared') \cup {None} :
                 /\ r.live[n] /\ GoodResult(r, n, res)
                 /\ s = resolveWorkflowNodeContinuation(r, n, res, c)
        BY <1>4, ContinueRaces
    <1> QED BY <1>1, <1>2, <1>3, <1>4 DEF Moved

\* Every state stored or read by a call has decided its races.
RaceInv == \A r \in Snapshots : RacesOK(r)

\* Every race is entered and repeated by nothing else.
RacesApart == \A g \in Graphs : RacesAlone(g)

LEMMA RaceStep ==
    ASSUME Plain, RacesApart, EngineInv, RaceInv, [Next]_vars
    PROVE  RaceInv'
    <1>1. Step /\ graph \in Graphs /\ PlainLoops(graph) /\ RacesAlone(graph)
        BY NextStep DEF EngineInv, Plain, RacesApart
    <1>2. Snapshots' \subseteq Snapshots \cup {run'} /\ graph' = graph
        BY <1>1 DEF Step
    <1>3. RacesOK(run')
        <2>1. CASE run' \in Snapshots
            BY <2>1 DEF RaceInv
        <2>2. CASE \E prev \in Snapshots : Moved(prev, run')
            <3>1. PICK prev \in Snapshots : Moved(prev, run')
                BY <2>2
            <3>2. PICK s : s = run'
                OBVIOUS
            <3>3. prev \in RunRec(prepared') /\ Sound(prev, outcomes', None) /\ RacesOK(prev)
                BY <1>1, SnapshotNext DEF RaceInv
            <3>4. RacesOK(s)
                BY <1>1, <3>1, <3>2, <3>3, MovedRaces
            <3> QED BY <3>2, <3>4
        <2> QED BY <2>1, <2>2, Origin
    <1>4. ASSUME NEW r, r \in Snapshots' PROVE RacesOK(r)'
        <2>1. RacesOK(r)
            BY <1>2, <1>3, <1>4 DEF RaceInv
        <2>2. Node' = Node /\ \A q : Branches(q)' = Branches(q) /\ Race(q)' = Race(q)
            BY <1>2 DEF Node, Type, Race, Branches, Out
        <2> QED BY <2>1, <2>2 DEF RacesOK, Tried, RaceAt, Won, Lost
    <1> QED BY <1>4 DEF RaceInv

\* When a branch of a race has completed by executing, no other branch is still to
\* run, for every graph whose loops are plain and whose races are entered and repeated
\* by nothing else, any number of overlapping calls and any bounds: cancelRaceLosers
\* reaches every open sibling, and none of them is dispatched again.
THEOREM RacesDecided == Plain /\ RacesApart => (Spec => []RaceDecided)
    <1> SUFFICES ASSUME Plain, RacesApart PROVE Spec => []RaceDecided
        OBVIOUS
    <1>1. Init => EngineInv /\ RaceInv
        <2> SUFFICES ASSUME Init PROVE RaceInv
            BY InitInv
        <2>1. graph \in Graphs /\ run = createInitialWorkflowRunState /\ call = [c \in Call |-> Idle]
            BY DEF Init
        <2>2. Snapshots = {run}
            BY <2>1 DEF Snapshots, Idle
        <2> QED BY <2>1, <2>2, InitialRaces DEF RaceInv, RacesApart
    <1>2. EngineInv /\ RaceInv /\ [Next]_vars => EngineInv' /\ RaceInv'
        BY NextInv, RaceStep
    <1>3. ASSUME EngineInv, RaceInv PROVE RaceDecided
        <2> SUFFICES ASSUME NEW q \in Node, Race(q), NEW e \in Out(q), NEW f \in Out(q),
                            run.st[e.to] = "completed", run.att[e.to] > 0
                     PROVE  run.st[f.to] \in Resolved
            BY DEF RaceDecided, Race
        <2>1. RaceAt(run, None, None, q) /\ q # None
            BY <1>3, RunFacts, GraphFacts DEF RaceInv, RacesOK
        <2>2. e.to \in Branches(q) /\ f.to \in Branches(q)
            BY DEF Branches
        <2>3. Won(run, e.to)
            BY DEF Won
        <2>4. \A c \in Branches(q) \ {e.to} : Lost(run, c)
            BY <2>1, <2>2, <2>3 DEF RaceAt
        <2> QED BY <2>2, <2>4 DEF Lost, Resolved
    <1> QED BY <1>1, <1>2, <1>3, PTL DEF Spec
================================================================================
