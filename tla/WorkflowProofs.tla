---------------------------- MODULE WorkflowProofs ----------------------------
(***************************************************************************)
(* Proofs about the workflow engine, for every valid graph whose loops are *)
(* plain, any number of overlapping calls and any bounds.  A state that is *)
(* stored was computed from a state stored before, so the argument is      *)
(* about the operators of RunState: each of them takes a sound run state   *)
(* to a sound run state.                                                   *)
(***************************************************************************)
EXTENDS WorkflowEngine, FiniteSetTheorems, TLAPS

\* The loops the runtime is written for: their edges are keyed ("branchKey 'loop'
\* for continue, 'exit' for break"), one node is their body, and that node decides
\* nothing itself.  The validator does not ask for it; with two body nodes, or a
\* loop in a loop, a loop node can be in two lists.
Deciding == {"loop", "condition", "error-handler"}
PlainLoops(g) ==
    \A e \in g.edges : g.type[e.from] = "loop" =>
        /\ e.key # None
        /\ e.key = "loop" => /\ g.type[e.to] \notin Deciding
                             /\ \A f \in g.edges : f.from = e.from /\ f.key = "loop" => f.to = e.to

Checkpoints(p) == 1 .. p \cup {None}
RunRec(p) ==
    [status : RunStatus, ckpt : {"idle", "prepare_pending", "commit_pending"},
     prep : Checkpoints(p), active : SUBSET Node, ready : SUBSET Node,
     waiting : SUBSET Node, blocked : SUBSET Node, completed : SUBSET Node,
     edges : SUBSET graph.edges, st : [Node -> NodeStatus],
     att : [Node -> 0 .. MaxAttempts], live : [Node -> BOOLEAN],
     wait : [Node -> WaitKind \cup {None}], branch : [Node -> BranchKey \cup {None}],
     parent : [Node -> Node \cup {"root", None}],
     abranch : [Node -> BranchKey \cup {None}], aeff : [Node -> Effect],
     acp : [Node -> Checkpoints(p)]]

Open == {"ready", "waiting", "blocked"}

\* The lists and the statuses agree; once a cancel was announced (the announcements
\* are out) a node may be unlisted.
ListsOK(r, out) ==
    \A n \in Node :
        /\ n \in r.ready => r.st[n] = "ready"
        /\ n \in r.waiting => r.st[n] = "waiting"
        /\ n \in r.blocked => r.st[n] = "blocked"
        /\ n \in r.completed <=> r.st[n] = "completed"
        /\ "canceled" \notin out => /\ r.st[n] = "ready" => n \in r.ready
                                    /\ r.st[n] = "waiting" => n \in r.waiting
                                    /\ r.st[n] = "blocked" => n \in r.blocked

\* An active attempt, and a wait kind, are those of listed nodes.
AttemptsOK(r) ==
    \A n \in Node :
        /\ r.live[n] => n \in r.waiting \cup r.blocked
        /\ r.wait[n] # None => n \in r.waiting
        /\ n \in r.waiting => r.live[n] /\ r.wait[n] # None

\* A join waits while its condition is not met, but for those node x leads to,
\* which are about to be evaluated again.
JoinsOK(r, x) ==
    \A n \in Node : r.wait[n] = "parallel_join" =>
        /\ Type(n) = "parallel-join"
        /\ ~JoinConditionMet(r, n) \/ \E e \in In(n) : e.from = x

\* A node that decides once has completed when a branch of it is activated.
BranchesOK(r) ==
    \A e \in r.edges : Type(e.from) \in {"condition", "error-handler"} /\ e.key # None =>
        /\ r.st[e.from] = "completed"
        /\ \A f \in r.edges : f.from = e.from /\ f.key # None => f.key = e.key

\* A node was dispatched along an activated edge.
ParentsOK(r) ==
    \A n \in Node : r.parent[n] \in Node =>
        \E e \in r.edges : e.from = r.parent[n] /\ e.to = n

\* A loop that has taken its exit is done for good.
ExitsOK(r) ==
    \A e \in r.edges : Type(e.from) = "loop" /\ e.key # "loop" =>
        r.st[e.from] = "completed" /\ r.branch[e.from] # "loop"

\* While a node that a loop dispatched is under way the loop node is completed.
LoopsOK(r) ==
    \A n \in Node :
        r.parent[n] \in Node /\ Type(r.parent[n]) = "loop" /\ r.st[n] \in Open =>
            r.st[r.parent[n]] = "completed"

Sound(r, out, x) ==
    /\ ListsOK(r, out) /\ AttemptsOK(r) /\ JoinsOK(r, x) /\ BranchesOK(r)
    /\ ParentsOK(r) /\ ExitsOK(r) /\ LoopsOK(r)

\* A state that was stored: the invariants, and its end was announced.
Stored(r) ==
    /\ r \in RunRec(prepared)
    /\ Sound(r, outcomes, None)
    /\ r.status \in Terminal => outcomes # {}

\* The stored state and the states the calls in flight have read.
Snapshots == {run} \cup { call[c].snap : c \in { d \in Call : call[d].op # "none" } }

CallsOK ==
    /\ DOMAIN call = Call
    /\ \A c \in Call :
          /\ call[c].op \in {"none", "execute", "continue"}
          /\ call[c].op # "none" => call[c].node \in Node
          /\ call[c].op = "execute" => call[c].snap.att[call[c].node] < MaxAttempts
          /\ call[c].op = "continue" => call[c].snap.live[call[c].node]

EngineInv ==
    /\ graph \in Graphs
    /\ prepared \in 0 .. MaxCheckpoints /\ committed \subseteq 1 .. prepared
    /\ outcomes \subseteq Terminal
    /\ \A r \in Snapshots : Stored(r)
    /\ CallsOK

-------------------------------------------------------------------------------
(* The operators, field by field.                                            *)

LEMMA GraphFacts ==
    ASSUME graph \in Graphs
    PROVE  /\ IsFiniteSet(graph.edges) /\ None \notin Node /\ "root" \notin Node
           /\ \A n \in Node : graph.config[n].count \in Nat
           /\ \A e \in graph.edges : e.from \in Node /\ e.to \in Node
    BY GraphsAssumption DEF ValidGraph, Node

LEMMA NoSelfEdge ==
    ASSUME graph \in Graphs, NEW e \in graph.edges
    PROVE  e.from # e.to
    <1>1. e.from \in graph.nodes /\ {e.from} \in SUBSET graph.nodes /\ {e.from} # {}
        BY GraphFacts DEF Node
    <1>2. PICK n \in {e.from} : \A f \in graph.edges : f.to = n => f.from \notin {e.from}
        BY <1>1, GraphsAssumption DEF ValidGraph
    <1> QED BY <1>2

\* The fields soundness is about, and the active nodes.
SameFields(s, r) ==
    /\ s.ready = r.ready /\ s.waiting = r.waiting /\ s.blocked = r.blocked
    /\ s.completed = r.completed /\ s.edges = r.edges /\ s.st = r.st
    /\ s.live = r.live /\ s.wait = r.wait /\ s.branch = r.branch /\ s.parent = r.parent
    /\ s.active = r.active

\* What only the record of an attempt, a continuation and Resolve change.
SameRecord(s, r) == s.att = r.att /\ s.acp = r.acp /\ s.status = r.status

\* Node n leads to the nodes of new, which no list holds, along edges acts.
Dispatches(s, r, n, new, acts) ==
    /\ s.ready = r.ready \cup new /\ s.waiting = r.waiting /\ s.blocked = r.blocked
    /\ s.completed = r.completed /\ s.edges = r.edges \cup acts
    /\ s.st = Assign(r.st, new, "ready") /\ s.parent = Assign(r.parent, new, n)
    /\ s.live = r.live /\ s.wait = r.wait /\ s.branch = r.branch
    /\ s.active = r.active \cup new /\ SameRecord(s, r)

\* The successors of n that may run and are in no list.
NewReady(r, n, key) ==
    getNextReadyNodeIds(n, r.completed, r.edges \cup getActivatedOutboundEdgeIds(n, key))
        \ (r.ready \cup r.waiting \cup r.blocked)

LEMMA ActivateFields ==
    ASSUME graph \in Graphs, NEW p, NEW r \in RunRec(p), NEW n \in Node, NEW key,
           NEW s, s = ActivateReady(r, n, key)
    PROVE  \E new \in SUBSET Node :
             /\ s \in RunRec(p)
             /\ new = NewReady(r, n, key)
             /\ new \cap (r.ready \cup r.waiting \cup r.blocked \cup r.completed) = {}
             /\ \A m \in new : \E e \in r.edges \cup getActivatedOutboundEdgeIds(n, key) :
                  e.from = n /\ e.to = m
             /\ Dispatches(s, r, n, new, getActivatedOutboundEdgeIds(n, key))
    <1>1. PICK acts \in SUBSET graph.edges : acts = getActivatedOutboundEdgeIds(n, key)
        BY DEF getActivatedOutboundEdgeIds, Out
    <1>2. PICK edges \in SUBSET graph.edges : edges = r.edges \cup acts
        BY DEF RunRec
    <1>3. PICK new : new = getNextReadyNodeIds(n, r.completed, edges)
                              \ (r.ready \cup r.waiting \cup r.blocked)
        OBVIOUS
    <1>4. /\ new \subseteq Node
          /\ new \cap (r.ready \cup r.waiting \cup r.blocked \cup r.completed) = {}
          /\ \A m \in new : \E e \in edges : e.from = n /\ e.to = m
        BY <1>3, GraphFacts DEF getNextReadyNodeIds, Out
    <1>5. PICK st \in [Node -> NodeStatus] : st = Assign(r.st, new, "ready")
        <2>1. r.st \in [Node -> NodeStatus] /\ "ready" \in NodeStatus
            BY DEF RunRec, NodeStatus
        <2>2. Assign(r.st, new, "ready") \in [Node -> NodeStatus]
            BY <2>1 DEF Assign
        <2> QED BY <2>2
    <1>6. PICK parent \in [Node -> Node \cup {"root", None}] : parent = Assign(r.parent, new, n)
        <2>1. r.parent \in [Node -> Node \cup {"root", None}]
            BY DEF RunRec
        <2>2. Assign(r.parent, new, n) \in [Node -> Node \cup {"root", None}]
            BY <2>1 DEF Assign
        <2> QED BY <2>2
    <1>9. PICK ready \in SUBSET Node : ready = r.ready \cup new
        BY <1>4 DEF RunRec
    <1>10. PICK active \in SUBSET Node : active = r.active \cup new
        BY <1>4 DEF RunRec
    <1>11. s = [r EXCEPT !.edges = edges, !.active = active, !.ready = ready, !.st = st,
                         !.parent = parent]
        BY <1>1, <1>2, <1>3, <1>5, <1>6, <1>9, <1>10 DEF ActivateReady, RunRec
    <1>7. s \in RunRec(p)
        BY <1>11 DEF RunRec
    <1>8. Dispatches(s, r, n, new, acts)
        <2>1. /\ s.edges = edges /\ s.active = active /\ s.ready = ready /\ s.st = st
              /\ s.parent = parent /\ s.waiting = r.waiting /\ s.blocked = r.blocked
              /\ s.completed = r.completed /\ s.live = r.live /\ s.wait = r.wait
              /\ s.branch = r.branch
            BY <1>11 DEF RunRec
        <2>2. SameRecord(s, r)
            BY <1>11 DEF RunRec, SameRecord
        <2> QED BY <1>2, <1>5, <1>6, <1>9, <1>10, <2>1, <2>2 DEF Dispatches
    <1>12. new = NewReady(r, n, key)
        BY <1>1, <1>2, <1>3 DEF NewReady
    <1> QED BY <1>1, <1>2, <1>4, <1>7, <1>8, <1>12

LoopBody(l) == { e.to : e \in { x \in Out(l) : x.key = "loop" } }

\* Loop node l comes back, and the nodes of done, which are in its body, may run
\* again.
Repeats(s, r, l, done) ==
    /\ s.ready = r.ready \cup {l} /\ s.waiting = r.waiting /\ s.blocked = r.blocked
    /\ s.completed = r.completed \ (LoopBody(l) \cup {l}) /\ s.edges = r.edges
    /\ s.st = [Assign(r.st, done, "pending") EXCEPT ![l] = "ready"]
    /\ s.live = Assign(r.live, done \cup {l}, FALSE)
    /\ s.wait = Assign(r.wait, done \cup {l}, None)
    /\ s.branch = r.branch /\ s.parent = [r.parent EXCEPT ![l] = "root"]
    /\ s.active = r.active \cup {l} /\ SameRecord(s, r)

\* Nothing happens, or the loop that dispatched n comes back.
LoopsBack(s, r, n) ==
    \/ s = r
    \/ \E l \in Node : /\ l = r.parent[n] /\ Type(l) = "loop" /\ r.branch[l] = "loop"
                       /\ Repeats(s, r, l, { m \in LoopBody(l) : r.st[m] = "completed" })

LEMMA LoopFields ==
    ASSUME graph \in Graphs, NEW p, NEW r \in RunRec(p), NEW n \in Node,
           NEW s, s = ReactivateLoop(r, n)
    PROVE  s \in RunRec(p) /\ LoopsBack(s, r, n)
    <1>1. PICK l : l = r.parent[n]
        OBVIOUS
    <1>2. CASE ~(l \in Node /\ Type(l) = "loop" /\ r.branch[l] = "loop")
        BY <1>1, <1>2 DEF ReactivateLoop, LoopsBack
    <1>3. CASE l \in Node /\ Type(l) = "loop" /\ r.branch[l] = "loop"
        <2>1. PICK body : body = LoopBody(l)
            OBVIOUS
        <2>2. body \subseteq Node
            BY <2>1, GraphFacts DEF LoopBody, Out
        <2>3. PICK done \in SUBSET Node : done = { m \in body : r.st[m] = "completed" }
            BY <2>2
        <2>4. PICK st \in [Node -> NodeStatus] :
                st = [Assign(r.st, done, "pending") EXCEPT ![l] = "ready"]
            <3>1. r.st \in [Node -> NodeStatus] /\ {"ready", "pending"} \subseteq NodeStatus
                BY DEF RunRec, NodeStatus
            <3>2. Assign(r.st, done, "pending") \in [Node -> NodeStatus]
                BY <3>1 DEF Assign
            <3>3. [Assign(r.st, done, "pending") EXCEPT ![l] = "ready"] \in [Node -> NodeStatus]
                BY <1>3, <3>1, <3>2
            <3> QED BY <3>3
        <2>5. PICK live \in [Node -> BOOLEAN] : live = Assign(r.live, done \cup {l}, FALSE)
            <3>1. Assign(r.live, done \cup {l}, FALSE) \in [Node -> BOOLEAN]
                BY DEF RunRec, Assign
            <3> QED BY <3>1
        <2>6. PICK wait \in [Node -> WaitKind \cup {None}] :
                wait = Assign(r.wait, done \cup {l}, None)
            <3>1. Assign(r.wait, done \cup {l}, None) \in [Node -> WaitKind \cup {None}]
                BY DEF RunRec, Assign
            <3> QED BY <3>1
        <2>7. PICK parent \in [Node -> Node \cup {"root", None}] :
                parent = [r.parent EXCEPT ![l] = "root"]
            <3>1. [r.parent EXCEPT ![l] = "root"] \in [Node -> Node \cup {"root", None}]
                BY <1>3 DEF RunRec
            <3> QED BY <3>1
        <2>8. PICK completed \in SUBSET Node : completed = r.completed \ (body \cup {l})
            BY DEF RunRec
        <2>9. PICK ready \in SUBSET Node : ready = r.ready \cup {l}
            BY <1>3 DEF RunRec
        <2>10. PICK active \in SUBSET Node : active = r.active \cup {l}
            BY <1>3 DEF RunRec
        <2>11. s = [r EXCEPT !.completed = completed, !.ready = ready, !.active = active,
                             !.st = st, !.live = live, !.wait = wait, !.parent = parent]
            BY <1>1, <1>3, <2>1, <2>3, <2>4, <2>5, <2>6, <2>7, <2>8, <2>9, <2>10
               DEF ReactivateLoop, LoopBody, RunRec
        <2>12. s \in RunRec(p)
            <3>1. PICK s1 : s1 = [r EXCEPT !.completed = completed, !.ready = ready,
                                           !.active = active, !.st = st]
                OBVIOUS
            <3>2. s1 \in RunRec(p)
                BY <3>1 DEF RunRec
            <3>3. s = [s1 EXCEPT !.live = live, !.wait = wait, !.parent = parent]
                BY <2>11, <3>1 DEF RunRec
            <3> QED BY <3>2, <3>3 DEF RunRec
        <2>13. Repeats(s, r, l, done)
            <3>1. /\ s.completed = completed /\ s.ready = ready /\ s.active = active
                  /\ s.st = st /\ s.live = live /\ s.wait = wait /\ s.parent = parent
                  /\ s.waiting = r.waiting /\ s.blocked = r.blocked /\ s.edges = r.edges
                  /\ s.branch = r.branch
                BY <2>11 DEF RunRec
            <3>2. SameRecord(s, r)
                BY <2>11 DEF RunRec, SameRecord
            <3> QED BY <2>1, <2>4, <2>5, <2>6, <2>7, <2>8, <2>9, <2>10, <3>1, <3>2 DEF Repeats
        <2> QED BY <1>1, <1>3, <2>1, <2>3, <2>12, <2>13 DEF LoopsBack
    <1> QED BY <1>2, <1>3

\* The waiting joins of the set joins are queued again.
Wakes(s, r, joins) ==
    /\ s.ready = r.ready \cup joins /\ s.waiting = r.waiting \ joins /\ s.blocked = r.blocked
    /\ s.completed = r.completed /\ s.edges = r.edges /\ s.st = Assign(r.st, joins, "ready")
    /\ s.live = Assign(r.live, joins, FALSE) /\ s.wait = Assign(r.wait, joins, None)
    /\ s.branch = r.branch /\ s.parent = r.parent /\ s.active = r.active /\ SameRecord(s, r)

JoinsAfter(r, n) ==
    { j \in r.waiting : Type(j) = "parallel-join" /\ \E e \in In(j) : e.from = n }

LEMMA JoinFields ==
    ASSUME NEW p, NEW r \in RunRec(p), NEW n, NEW s, s = ReactivateJoins(r, n)
    PROVE  s \in RunRec(p) /\ Wakes(s, r, JoinsAfter(r, n))
    <1>1. PICK joins \in SUBSET Node : joins = JoinsAfter(r, n)
        BY DEF JoinsAfter, RunRec
    <1>2. PICK st \in [Node -> NodeStatus] : st = Assign(r.st, joins, "ready")
        <2>1. Assign(r.st, joins, "ready") \in [Node -> NodeStatus]
            BY DEF RunRec, Assign, NodeStatus
        <2> QED BY <2>1
    <1>3. PICK live \in [Node -> BOOLEAN] : live = Assign(r.live, joins, FALSE)
        <2>1. Assign(r.live, joins, FALSE) \in [Node -> BOOLEAN]
            BY DEF RunRec, Assign
        <2> QED BY <2>1
    <1>4. PICK wait \in [Node -> WaitKind \cup {None}] : wait = Assign(r.wait, joins, None)
        <2>1. Assign(r.wait, joins, None) \in [Node -> WaitKind \cup {None}]
            BY DEF RunRec, Assign
        <2> QED BY <2>1
    <1>5. PICK ready \in SUBSET Node : ready = r.ready \cup joins
        BY DEF RunRec
    <1>6. PICK waiting \in SUBSET Node : waiting = r.waiting \ joins
        BY DEF RunRec
    <1>7. s = [r EXCEPT !.waiting = waiting, !.ready = ready, !.st = st, !.live = live,
                        !.wait = wait]
        BY <1>1, <1>2, <1>3, <1>4, <1>5, <1>6 DEF ReactivateJoins, JoinsAfter, RunRec
    <1>8. s \in RunRec(p)
        BY <1>7 DEF RunRec
    <1>9. Wakes(s, r, joins)
        <2>1. SameRecord(s, r)
            BY <1>7 DEF RunRec, SameRecord
        <2>2. s.active = r.active /\ s.parent = r.parent /\ s.branch = r.branch
            BY <1>7 DEF RunRec
        <2> QED BY <1>2, <1>3, <1>4, <1>5, <1>6, <1>7, <2>1, <2>2 DEF Wakes, RunRec
    <1> QED BY <1>1, <1>8, <1>9

\* The nodes of losers are skipped.
Skips(s, r, losers) ==
    /\ s.ready = r.ready \ losers /\ s.waiting = r.waiting \ losers
    /\ s.blocked = r.blocked \ losers /\ s.completed = r.completed /\ s.edges = r.edges
    /\ s.st = Assign(r.st, losers, "skipped") /\ s.live = Assign(r.live, losers, FALSE)
    /\ s.wait = Assign(r.wait, losers, None) /\ s.branch = r.branch /\ s.parent = r.parent
    /\ s.active = r.active \ losers /\ SameRecord(s, r)

\* A parallel split of which the first branch to complete wins.
Race(p) == p \in Node /\ Type(p) = "parallel-split" /\ graph.config[p].mode = "race"

LEMMA LoserFields ==
    ASSUME NEW p, NEW r \in RunRec(p), NEW n \in Node, NEW s, s = cancelRaceLosers(r, n)
    PROVE  /\ s \in RunRec(p)
           /\ IF Race(r.parent[n]) THEN Skips(s, r, RaceLosers(r, n)) ELSE s = r
    <1>1. PICK losers \in SUBSET Node : losers = RaceLosers(r, n)
        BY DEF RaceLosers
    <1>2. CASE ~Race(r.parent[n])
        BY <1>2 DEF cancelRaceLosers, Race
    <1>3. CASE Race(r.parent[n])
        <2>1. PICK st \in [Node -> NodeStatus] : st = Assign(r.st, losers, "skipped")
            <3>1. Assign(r.st, losers, "skipped") \in [Node -> NodeStatus]
                BY DEF RunRec, Assign, NodeStatus
            <3> QED BY <3>1
        <2>2. PICK live \in [Node -> BOOLEAN] : live = Assign(r.live, losers, FALSE)
            <3>1. Assign(r.live, losers, FALSE) \in [Node -> BOOLEAN]
                BY DEF RunRec, Assign
            <3> QED BY <3>1
        <2>3. PICK wait \in [Node -> WaitKind \cup {None}] : wait = Assign(r.wait, losers, None)
            <3>1. Assign(r.wait, losers, None) \in [Node -> WaitKind \cup {None}]
                BY DEF RunRec, Assign
            <3> QED BY <3>1
        <2>4. PICK ready \in SUBSET Node : ready = r.ready \ losers
            BY DEF RunRec
        <2>5. PICK waiting \in SUBSET Node : waiting = r.waiting \ losers
            BY DEF RunRec
        <2>6. PICK blocked \in SUBSET Node : blocked = r.blocked \ losers
            BY DEF RunRec
        <2>7. PICK active \in SUBSET Node : active = r.active \ losers
            BY DEF RunRec
        <2>8. s = [r EXCEPT !.st = st, !.live = live, !.wait = wait, !.ready = ready,
                            !.waiting = waiting, !.blocked = blocked, !.active = active]
            BY <1>1, <1>3, <2>1, <2>2, <2>3, <2>4, <2>5, <2>6, <2>7
               DEF cancelRaceLosers, Race, RunRec
        <2>9. s \in RunRec(p)
            <3>1. PICK s1 : s1 = [r EXCEPT !.st = st, !.live = live, !.wait = wait, !.ready = ready]
                OBVIOUS
            <3>2. s1 \in RunRec(p)
                BY <3>1 DEF RunRec
            <3>3. s = [s1 EXCEPT !.waiting = waiting, !.blocked = blocked, !.active = active]
                BY <2>8, <3>1 DEF RunRec
            <3> QED BY <3>2, <3>3 DEF RunRec
        <2>10. Skips(s, r, losers)
            <3>1. SameRecord(s, r)
                BY <2>8 DEF RunRec, SameRecord
            <3>2. s.parent = r.parent /\ s.branch = r.branch /\ s.active = active
                BY <2>8 DEF RunRec
            <3> QED BY <2>1, <2>2, <2>3, <2>4, <2>5, <2>6, <2>7, <2>8, <3>1, <3>2
                    DEF Skips, RunRec
        <2> QED BY <1>1, <1>3, <2>9, <2>10
    <1> QED BY <1>2, <1>3

-------------------------------------------------------------------------------
(* Each operator keeps a run state sound.                                    *)

\* A join whose upstream nodes were completed or resolved by no more nodes before
\* is not met.
LEMMA MetFacts ==
    ASSUME graph \in Graphs, NEW r, NEW s, NEW n \in Node, ~JoinConditionMet(r, n),
           \A e \in In(n) : /\ s.st[e.from] = "completed" => r.st[e.from] = "completed"
                            /\ s.st[e.from] \in Resolved => r.st[e.from] \in Resolved
    PROVE  ~JoinConditionMet(s, n)
    <1>1. IsFiniteSet(In(n)) /\ Cardinality(In(n)) \in Nat
        <2>1. In(n) \in SUBSET graph.edges
            BY DEF In
        <2>2. IsFiniteSet(In(n))
            BY <2>1, GraphFacts, FS_Subset
        <2> QED BY <2>2, FS_CardinalityType
    <1>2. RequiredCount(n) \in Nat
        BY <1>1, GraphFacts DEF RequiredCount
    <1>3. PICK A, B : A = UpstreamIn(r, n, {"completed"}) /\ B = UpstreamIn(s, n, {"completed"})
        OBVIOUS
    <1>4. A \in SUBSET In(n) /\ B \in SUBSET A
        BY <1>3 DEF UpstreamIn
    <1>5. IsFiniteSet(A) /\ IsFiniteSet(B) /\ Cardinality(B) =< Cardinality(A)
        BY <1>1, <1>4, FS_Subset
    <1>6. Cardinality(A) \in Nat /\ Cardinality(B) \in Nat
        BY <1>5, FS_CardinalityType
    <1>7. ~(Cardinality(A) >= RequiredCount(n))
        BY <1>3 DEF JoinConditionMet
    <1>8. ~(Cardinality(B) >= RequiredCount(n))
        BY <1>2, <1>5, <1>6, <1>7
    <1>9. graph.config[n].mode = "all" => UpstreamIn(s, n, Resolved) # In(n)
        <2>1. graph.config[n].mode = "all" => UpstreamIn(r, n, Resolved) # In(n)
            BY DEF JoinConditionMet
        <2>2. UpstreamIn(s, n, Resolved) \subseteq UpstreamIn(r, n, Resolved)
              /\ UpstreamIn(r, n, Resolved) \subseteq In(n)
            BY DEF UpstreamIn
        <2> QED BY <2>1, <2>2
    <1> QED BY <1>3, <1>8, <1>9 DEF JoinConditionMet

\* Waking the joins after n: all joins are settled.
LEMMA JoinSound ==
    ASSUME graph \in Graphs, NEW p, NEW r \in RunRec(p), NEW s \in RunRec(p), NEW out,
           NEW n, Sound(r, out, n), Wakes(s, r, JoinsAfter(r, n))
    PROVE  Sound(s, out, None)
    <1>1. PICK joins \in SUBSET Node : joins = JoinsAfter(r, n)
        BY DEF JoinsAfter, RunRec
    <1>2. joins \subseteq r.waiting /\ \A j \in joins : Type(j) = "parallel-join"
        BY <1>1 DEF JoinsAfter
    <1>3. \A m \in Node :
            /\ s.st[m] = IF m \in joins THEN "ready" ELSE r.st[m]
            /\ s.live[m] = IF m \in joins THEN FALSE ELSE r.live[m]
            /\ s.wait[m] = IF m \in joins THEN None ELSE r.wait[m]
        BY <1>1 DEF Wakes, Assign, RunRec
    <1>4. \A m \in joins : r.st[m] = "waiting"
        BY <1>2 DEF Sound, ListsOK
    <1>5. /\ s.ready = r.ready \cup joins /\ s.waiting = r.waiting \ joins
          /\ s.blocked = r.blocked /\ s.completed = r.completed /\ s.edges = r.edges
          /\ s.branch = r.branch /\ s.parent = r.parent
        BY <1>1 DEF Wakes
    <1>6. ListsOK(s, out)
        BY <1>3, <1>4, <1>5 DEF Sound, ListsOK
    <1>7. AttemptsOK(s)
        BY <1>2, <1>3, <1>4, <1>5 DEF Sound, AttemptsOK, ListsOK
    <1>8. JoinsOK(s, None)
        <2> SUFFICES ASSUME NEW m \in Node, s.wait[m] = "parallel_join"
                     PROVE  Type(m) = "parallel-join" /\ ~JoinConditionMet(s, m)
            BY DEF JoinsOK
        <2>1. m \notin joins /\ r.wait[m] = "parallel_join"
            BY <1>3, NullAssumption DEF WaitKind
        <2>2. Type(m) = "parallel-join" /\ m \in r.waiting
            BY <2>1, NullAssumption DEF Sound, JoinsOK, AttemptsOK, WaitKind
        <2>3. ~JoinConditionMet(r, m)
            BY <1>1, <2>1, <2>2 DEF Sound, JoinsOK, JoinsAfter
        <2>4. \A e \in In(m) : e.from \in Node
            BY GraphFacts DEF In
        <2>5. \A e \in In(m) : /\ s.st[e.from] = "completed" => r.st[e.from] = "completed"
                               /\ s.st[e.from] \in Resolved => r.st[e.from] \in Resolved
            BY <1>3, <2>4 DEF Resolved
        <2> QED BY <2>2, <2>3, <2>5, MetFacts
    <1>9. \A m \in Node : s.st[m] = "completed" <=> r.st[m] = "completed"
        BY <1>3, <1>4
    <1>10. \A e \in r.edges : e.from \in Node
        BY GraphFacts DEF RunRec
    <1>11. BranchesOK(s) /\ ExitsOK(s)
        BY <1>5, <1>9, <1>10 DEF Sound, BranchesOK, ExitsOK
    <1>12. ParentsOK(s)
        BY <1>5 DEF Sound, ParentsOK
    <1>13. LoopsOK(s)
        <2> SUFFICES ASSUME NEW m \in Node, s.parent[m] \in Node, Type(s.parent[m]) = "loop",
                            s.st[m] \in Open
                     PROVE  s.st[s.parent[m]] = "completed"
            BY DEF LoopsOK
        <2>1. r.st[m] \in Open
            BY <1>3, <1>4 DEF Open
        <2>2. r.st[r.parent[m]] = "completed"
            BY <1>5, <2>1 DEF Sound, LoopsOK
        <2> QED BY <1>5, <1>9, <2>2
    <1> QED BY <1>6, <1>7, <1>8, <1>11, <1>12, <1>13 DEF Sound

LEMMA LoserFacts ==
    ASSUME graph \in Graphs, NEW r, NEW n
    PROVE  /\ RaceLosers(r, n) \subseteq Node
           /\ \A m \in RaceLosers(r, n) : r.st[m] \notin Resolved
           /\ \A e \in graph.edges : e.from \in RaceLosers(r, n) /\ r.st[e.to] \notin Resolved
                 => e.to \in RaceLosers(r, n)
    <1> DEFINE open == { m \in Node : r.st[m] \notin Resolved }
               siblings == { e.to : e \in Out(r.parent[n]) } \ {n}
               Closed(S) == /\ siblings \cap open \subseteq S
                            /\ \A e \in graph.edges : e.from \in S /\ e.to \in open => e.to \in S
    <1>1. RaceLosers(r, n) = { m \in open : \A S \in SUBSET open : Closed(S) => m \in S }
        BY DEF RaceLosers
    <1>2. \A e \in graph.edges : e.to \in Node
        BY GraphFacts
    <1>3. ASSUME NEW e \in graph.edges, e.from \in RaceLosers(r, n), e.to \in open
          PROVE  e.to \in RaceLosers(r, n)
        <2>1. \A S \in SUBSET open : Closed(S) => e.from \in S
            BY <1>1, <1>3
        <2>2. \A S \in SUBSET open : Closed(S) => e.to \in S
            BY <2>1, <1>3
        <2> QED BY <1>1, <1>3, <2>2
    <1> QED BY <1>1, <1>2, <1>3

\* Skipping the losers of a race: a waiting join after a loser is a loser itself.
LEMMA LoserSound ==
    ASSUME graph \in Graphs, NEW p, NEW r \in RunRec(p), NEW s \in RunRec(p), NEW out,
           NEW n, Sound(r, out, n), Skips(s, r, RaceLosers(r, n))
    PROVE  /\ Sound(s, out, n)
           /\ \A m \in Node : r.st[m] = "completed" => s.st[m] = "completed"
    <1>1. PICK losers : losers = RaceLosers(r, n)
        OBVIOUS
    <1>2. /\ losers \subseteq Node
          /\ \A m \in losers : r.st[m] \notin Resolved
          /\ \A e \in graph.edges : e.from \in losers /\ r.st[e.to] \notin Resolved
                 => e.to \in losers
        BY <1>1, LoserFacts
    <1>3. \A m \in Node :
            /\ s.st[m] = IF m \in losers THEN "skipped" ELSE r.st[m]
            /\ s.live[m] = IF m \in losers THEN FALSE ELSE r.live[m]
            /\ s.wait[m] = IF m \in losers THEN None ELSE r.wait[m]
        BY <1>1 DEF Skips, Assign, RunRec
    <1>5. /\ s.ready = r.ready \ losers /\ s.waiting = r.waiting \ losers
          /\ s.blocked = r.blocked \ losers /\ s.completed = r.completed
          /\ s.edges = r.edges /\ s.branch = r.branch /\ s.parent = r.parent
        BY <1>1 DEF Skips
    <1>9. \A m \in Node : s.st[m] = "completed" <=> r.st[m] = "completed"
        BY <1>2, <1>3 DEF Resolved
    <1>6. ListsOK(s, out)
        BY <1>3, <1>5, <1>9 DEF Sound, ListsOK
    <1>7. AttemptsOK(s)
        BY <1>3, <1>5 DEF Sound, AttemptsOK
    <1>8. JoinsOK(s, n)
        <2> SUFFICES ASSUME NEW m \in Node, s.wait[m] = "parallel_join",
                            ~\E e \in In(m) : e.from = n
                     PROVE  ~JoinConditionMet(s, m)
            <3>1. \A m \in Node : s.wait[m] = "parallel_join" => r.wait[m] = "parallel_join"
                BY <1>3, NullAssumption DEF WaitKind
            <3> QED BY <3>1 DEF JoinsOK, Sound
        <2>1. m \notin losers /\ r.wait[m] = "parallel_join"
            BY <1>3, NullAssumption DEF WaitKind
        <2>2. m \in r.waiting /\ r.st[m] = "waiting"
            BY <2>1, NullAssumption DEF Sound, AttemptsOK, ListsOK, WaitKind
        <2>3. ~JoinConditionMet(r, m)
            BY <2>1 DEF Sound, JoinsOK
        <2>4. \A e \in In(m) : e.from \in Node /\ e.from \notin losers
            BY <1>2, <2>1, <2>2, GraphFacts DEF In, Resolved
        <2>5. \A e \in In(m) : s.st[e.from] = r.st[e.from]
            BY <1>3, <2>4
        <2> QED BY <2>3, <2>5, MetFacts
    <1>10. \A e \in r.edges : e.from \in Node
        BY GraphFacts DEF RunRec
    <1>11. BranchesOK(s) /\ ExitsOK(s)
        BY <1>5, <1>9, <1>10 DEF Sound, BranchesOK, ExitsOK
    <1>12. ParentsOK(s)
        BY <1>5 DEF Sound, ParentsOK
    <1>13. LoopsOK(s)
        <2> SUFFICES ASSUME NEW m \in Node, s.parent[m] \in Node, Type(s.parent[m]) = "loop",
                            s.st[m] \in Open
                     PROVE  s.st[s.parent[m]] = "completed"
            BY DEF LoopsOK
        <2>1. r.st[m] \in Open
            BY <1>3 DEF Open
        <2>2. r.st[r.parent[m]] = "completed"
            BY <1>5, <2>1 DEF Sound, LoopsOK
        <2> QED BY <1>5, <1>9, <2>2
    <1> QED BY <1>6, <1>7, <1>8, <1>9, <1>11, <1>12, <1>13 DEF Sound

\* Node n is completed, and so is a loop that dispatched it.
Finished(r, n) ==
    /\ r.st[n] = "completed"
    /\ r.parent[n] \in Node /\ Type(r.parent[n]) = "loop" => r.st[r.parent[n]] = "completed"

\* Node n has just completed under the branch key: no branch of it was taken before.
JustDone(r, n, key) ==
    /\ Finished(r, n)
    /\ Type(n) \in {"condition", "error-handler"} =>
          \A e \in r.edges : e.from = n => e.key = None
    /\ r.branch[n] = "loop" => key = "loop"

\* Dispatching the successors of a node that has just completed.
LEMMA ActivateSound ==
    ASSUME graph \in Graphs, PlainLoops(graph), NEW p, NEW r \in RunRec(p),
           NEW s \in RunRec(p), NEW out, NEW n \in Node, NEW key, Sound(r, out, n),
           JustDone(r, n, key), NEW new \in SUBSET Node,
           new \cap (r.ready \cup r.waiting \cup r.blocked \cup r.completed) = {},
           \A m \in new : \E e \in r.edges \cup getActivatedOutboundEdgeIds(n, key) :
              e.from = n /\ e.to = m,
           Dispatches(s, r, n, new, getActivatedOutboundEdgeIds(n, key))
    PROVE  Sound(s, out, n) /\ Finished(s, n)
    <1>1. PICK acts : acts = getActivatedOutboundEdgeIds(n, key)
        OBVIOUS
    <1>2. /\ acts \subseteq graph.edges
          /\ \A e \in acts : /\ e.from = n
                             /\ Type(n) # "parallel-split" => e.key = None \/ e.key = key
        BY <1>1 DEF getActivatedOutboundEdgeIds, Out
    <1>3. \A m \in Node :
            /\ s.st[m] = IF m \in new THEN "ready" ELSE r.st[m]
            /\ s.parent[m] = IF m \in new THEN n ELSE r.parent[m]
        BY DEF Dispatches, Assign, RunRec
    <1>5. /\ s.ready = r.ready \cup new /\ s.waiting = r.waiting /\ s.blocked = r.blocked
          /\ s.completed = r.completed /\ s.edges = r.edges \cup acts
          /\ s.branch = r.branch /\ s.live = r.live /\ s.wait = r.wait
        BY <1>1 DEF Dispatches
    <1>4. n \notin new /\ r.st[n] = "completed" /\ s.st[n] = "completed"
          /\ s.parent[n] = r.parent[n]
        BY <1>3 DEF JustDone, Finished, Sound, ListsOK
    <1>9. \A m \in Node : s.st[m] = "completed" <=> r.st[m] = "completed"
        BY <1>3 DEF Sound, ListsOK
    <1>6. ListsOK(s, out)
        BY <1>3, <1>5, <1>9 DEF Sound, ListsOK
    <1>7. AttemptsOK(s)
        BY <1>5 DEF Sound, AttemptsOK
    <1>8. JoinsOK(s, n)
        <2> SUFFICES ASSUME NEW m \in Node, s.wait[m] = "parallel_join",
                            ~\E e \in In(m) : e.from = n
                     PROVE  ~JoinConditionMet(s, m)
            BY <1>5 DEF JoinsOK, Sound
        <2>3. ~JoinConditionMet(r, m)
            BY <1>5 DEF Sound, JoinsOK
        <2>4. \A e \in In(m) : e.from \in Node
            BY GraphFacts DEF In
        <2>5. \A e \in In(m) : /\ s.st[e.from] = "completed" => r.st[e.from] = "completed"
                               /\ s.st[e.from] \in Resolved => r.st[e.from] \in Resolved
            BY <1>3, <2>4 DEF Resolved
        <2> QED BY <2>3, <2>5, MetFacts
    <1>10. \A e \in r.edges : e.from \in Node
        BY GraphFacts DEF RunRec
    <1>11. BranchesOK(s)
        <2> SUFFICES ASSUME NEW e \in s.edges, Type(e.from) \in {"condition", "error-handler"},
                            e.key # None
                     PROVE  /\ s.st[e.from] = "completed"
                            /\ \A f \in s.edges : f.from = e.from /\ f.key # None => f.key = e.key
            BY DEF BranchesOK
        <2>1. CASE e.from = n
            <3>1. \A f \in s.edges : f.from = n /\ f.key # None => f \in acts
                BY <1>5, <2>1 DEF JustDone
            <3>2. \A f \in s.edges : f.from = n /\ f.key # None => f.key = key
                BY <1>2, <2>1, <3>1
            <3> QED BY <1>4, <2>1, <3>2
        <2>2. CASE e.from # n
            <3>1. \A f \in s.edges : f.from = e.from => f \in r.edges
                BY <1>2, <1>5, <2>2
            <3>2. e \in r.edges
                BY <3>1
            <3> QED BY <1>9, <1>10, <3>1, <3>2 DEF Sound, BranchesOK
        <2> QED BY <2>1, <2>2
    <1>12. ParentsOK(s)
        <2> SUFFICES ASSUME NEW m \in Node, s.parent[m] \in Node
                     PROVE  \E e \in s.edges : e.from = s.parent[m] /\ e.to = m
            BY DEF ParentsOK
        <2>1. CASE m \in new
            BY <1>1, <1>3, <1>5, <2>1
        <2>2. CASE m \notin new
            BY <1>3, <1>5, <2>2 DEF Sound, ParentsOK
        <2> QED BY <2>1, <2>2
    <1>14. ExitsOK(s)
        <2> SUFFICES ASSUME NEW e \in s.edges, Type(e.from) = "loop", e.key # "loop"
                     PROVE  s.st[e.from] = "completed" /\ s.branch[e.from] # "loop"
            BY DEF ExitsOK
        <2>1. CASE e \in r.edges
            BY <1>5, <1>9, <1>10, <2>1 DEF Sound, ExitsOK
        <2>2. CASE e \in acts
            <3>1. e.from = n /\ e.key = key
                BY <1>2, <2>2 DEF PlainLoops, Type
            <3> QED BY <1>4, <1>5, <3>1 DEF JustDone
        <2> QED BY <1>5, <2>1, <2>2
    <1>13. LoopsOK(s)
        <2> SUFFICES ASSUME NEW m \in Node, s.parent[m] \in Node, Type(s.parent[m]) = "loop",
                            s.st[m] \in Open
                     PROVE  s.st[s.parent[m]] = "completed"
            BY DEF LoopsOK
        <2>1. CASE m \in new
            BY <1>3, <1>4, <2>1
        <2>2. CASE m \notin new
            <3>1. r.st[r.parent[m]] = "completed" /\ s.parent[m] = r.parent[m]
                BY <1>3, <2>2 DEF Sound, LoopsOK
            <3> QED BY <1>9, <3>1
        <2> QED BY <2>1, <2>2
    <1>15. Finished(s, n)
        BY <1>4, <1>9 DEF JustDone, Finished
    <1> QED BY <1>6, <1>7, <1>8, <1>11, <1>12, <1>13, <1>14, <1>15 DEF Sound

\* The loop that dispatched a node and chose to go on has that node as its only body.
LEMMA OneBody ==
    ASSUME graph \in Graphs, PlainLoops(graph), NEW p, NEW r \in RunRec(p), NEW out, NEW x,
           Sound(r, out, x), NEW n \in Node, NEW l \in Node, l = r.parent[n],
           Type(l) = "loop", r.branch[l] = "loop"
    PROVE  /\ LoopBody(l) = {n} /\ n # l /\ Type(n) \notin Deciding
           /\ \A f \in graph.edges : f.from = l /\ f.key = "loop" => f.to = n
           /\ \A e \in r.edges : e.from = l => e.key = "loop"
           /\ \E e \in r.edges : e.from = l /\ e.to = n /\ e.key = "loop"
    <1>1. \A e \in r.edges : e \in graph.edges /\ e.from \in Node /\ e.to \in Node
        BY GraphFacts DEF RunRec
    <1>2. \A e \in r.edges : e.from = l => e.key = "loop"
        BY DEF Sound, ExitsOK
    <1>3. PICK e \in r.edges : e.from = l /\ e.to = n
        BY DEF Sound, ParentsOK
    <1>4. e \in graph.edges /\ e.key = "loop" /\ n # l
        BY <1>1, <1>2, <1>3, NoSelfEdge
    <1>5. /\ Type(n) \notin Deciding
          /\ \A f \in graph.edges : f.from = l /\ f.key = "loop" => f.to = n
        BY <1>3, <1>4 DEF PlainLoops, Type
    <1>6. LoopBody(l) = {n}
        BY <1>3, <1>4, <1>5 DEF LoopBody, Out
    <1> QED BY <1>2, <1>3, <1>4, <1>5, <1>6

\* A loop comes back: the node that completed is its only body node.
LEMMA LoopSound ==
    ASSUME graph \in Graphs, PlainLoops(graph), NEW p, NEW r \in RunRec(p),
           NEW s \in RunRec(p), NEW out, NEW n \in Node, Sound(r, out, n), Finished(r, n),
           NEW l \in Node, l = r.parent[n], Type(l) = "loop", r.branch[l] = "loop",
           Repeats(s, r, l, { m \in LoopBody(l) : r.st[m] = "completed" })
    PROVE  Sound(s, out, n)
    <1>1. r.st[n] = "completed" /\ r.st[l] = "completed"
        BY DEF Finished
    <1>2. \A e \in r.edges : e \in graph.edges /\ e.from \in Node /\ e.to \in Node
        BY GraphFacts DEF RunRec
    <1>3. /\ \A e \in r.edges : e.from = l => e.key = "loop"
          /\ LoopBody(l) = {n} /\ n # l /\ Type(n) \notin Deciding
          /\ \A f \in graph.edges : f.from = l /\ f.key = "loop" => f.to = n
        BY OneBody
    <1>4. PICK e \in r.edges : e.from = l /\ e.to = n
        BY OneBody
    <1>5. e \in graph.edges /\ e.key = "loop" /\ n # l
        BY <1>2, <1>3, <1>4
    <1>6. /\ Type(n) \notin Deciding
          /\ \A f \in graph.edges : f.from = l /\ f.key = "loop" => f.to = n
        BY <1>3
    <1>7. LoopBody(l) = {n}
        BY <1>3
    <1>8. /\ s.ready = r.ready \cup {l} /\ s.waiting = r.waiting /\ s.blocked = r.blocked
          /\ s.completed = r.completed \ {n, l} /\ s.edges = r.edges /\ s.branch = r.branch
        BY <1>7 DEF Repeats
    <1>9. \A m \in Node :
            /\ s.st[m] = IF m = l THEN "ready" ELSE IF m = n THEN "pending" ELSE r.st[m]
            /\ s.live[m] = IF m \in {n, l} THEN FALSE ELSE r.live[m]
            /\ s.wait[m] = IF m \in {n, l} THEN None ELSE r.wait[m]
            /\ s.parent[m] = IF m = l THEN "root" ELSE r.parent[m]
        <2>1. { m \in LoopBody(l) : r.st[m] = "completed" } = {n}
            BY <1>1, <1>7
        <2>2. /\ s.st = [Assign(r.st, {n}, "pending") EXCEPT ![l] = "ready"]
              /\ s.live = Assign(r.live, {n} \cup {l}, FALSE)
              /\ s.wait = Assign(r.wait, {n} \cup {l}, None)
              /\ s.parent = [r.parent EXCEPT ![l] = "root"]
            BY <2>1 DEF Repeats
        <2>3. DOMAIN r.st = Node /\ DOMAIN r.live = Node /\ DOMAIN r.wait = Node
              /\ DOMAIN r.parent = Node
            BY DEF RunRec
        <2>4. \A m \in Node : s.st[m] = IF m = l THEN "ready" ELSE IF m = n THEN "pending" ELSE r.st[m]
            BY <2>2, <2>3 DEF Assign
        <2>7. {n} \cup {l} = {n, l}
            OBVIOUS
        <2>8. \A m \in Node : s.live[m] = IF m \in {n, l} THEN FALSE ELSE r.live[m]
            BY <2>2, <2>3, <2>7 DEF Assign
        <2>5. \A m \in Node : s.wait[m] = IF m \in {n, l} THEN None ELSE r.wait[m]
            BY <2>2, <2>3, <2>7 DEF Assign
        <2>6. \A m \in Node : s.parent[m] = IF m = l THEN "root" ELSE r.parent[m]
            BY <2>2, <2>3
        <2> QED BY <2>4, <2>5, <2>6, <2>8
    <1>10. ListsOK(s, out)
        <2>1. ListsOK(r, out)
            BY DEF Sound
        <2>2. \A m \in {n, l} : m \notin r.ready \cup r.waiting \cup r.blocked
            BY <1>1, <2>1 DEF ListsOK
        <2>3. s.st[l] = "ready" /\ s.st[n] = "pending"
              /\ \A m \in Node \ {n, l} : s.st[m] = r.st[m]
            BY <1>5, <1>9
        <2>4. ASSUME NEW m \in Node \ {n, l}
              PROVE  /\ m \in s.ready <=> m \in r.ready
                     /\ m \in s.waiting <=> m \in r.waiting
                     /\ m \in s.blocked <=> m \in r.blocked
                     /\ m \in s.completed <=> m \in r.completed
                     /\ s.st[m] = r.st[m]
            BY <1>8, <2>3
        <2>5. /\ l \in s.ready /\ n \notin s.ready
              /\ \A m \in {n, l} : m \notin s.waiting /\ m \notin s.blocked /\ m \notin s.completed
            BY <1>5, <1>8, <2>2
        <2> QED BY <2>1, <2>3, <2>4, <2>5 DEF ListsOK
    <1>11. AttemptsOK(s)
        <2>1. n \notin r.waiting /\ l \notin r.waiting
            BY <1>1 DEF Sound, ListsOK
        <2> QED BY <1>8, <1>9, <2>1 DEF Sound, AttemptsOK
    <1>12. JoinsOK(s, n)
        <2> SUFFICES ASSUME NEW m \in Node, s.wait[m] = "parallel_join",
                            ~\E f \in In(m) : f.from = n
                     PROVE  ~JoinConditionMet(s, m)
            <3>1. \A m \in Node : s.wait[m] = "parallel_join" => r.wait[m] = "parallel_join"
                BY <1>9, NullAssumption DEF WaitKind
            <3> QED BY <3>1 DEF JoinsOK, Sound
        <2>1. r.wait[m] = "parallel_join"
            BY <1>9, NullAssumption DEF WaitKind
        <2>3. ~JoinConditionMet(r, m)
            BY <2>1 DEF Sound, JoinsOK
        <2>4. \A f \in In(m) : f.from \in Node
            BY GraphFacts DEF In
        <2>5. \A f \in In(m) : /\ s.st[f.from] = "completed" => r.st[f.from] = "completed"
                               /\ s.st[f.from] \in Resolved => r.st[f.from] \in Resolved
            BY <1>9, <2>4 DEF Resolved
        <2> QED BY <2>3, <2>5, MetFacts
    <1>13. BranchesOK(s)
        <2>1. \A f \in r.edges : Type(f.from) \in {"condition", "error-handler"} =>
                 s.st[f.from] = r.st[f.from]
            BY <1>2, <1>6, <1>9 DEF Deciding
        <2> QED BY <1>8, <2>1 DEF Sound, BranchesOK
    <1>14. ParentsOK(s)
        <2> SUFFICES ASSUME NEW m \in Node, s.parent[m] \in Node
                     PROVE  \E f \in s.edges : f.from = s.parent[m] /\ f.to = m
            BY DEF ParentsOK
        <2>1. s.parent[m] = r.parent[m]
            BY <1>9, GraphFacts
        <2> QED BY <1>8, <2>1 DEF Sound, ParentsOK
    <1>15. ExitsOK(s)
        <2>1. \A f \in r.edges : Type(f.from) = "loop" /\ f.key # "loop" =>
                 s.st[f.from] = r.st[f.from]
            BY <1>2, <1>3, <1>6, <1>9 DEF Deciding
        <2> QED BY <1>8, <2>1 DEF Sound, ExitsOK
    <1>16. LoopsOK(s)
        <2> SUFFICES ASSUME NEW m \in Node, s.parent[m] \in Node, Type(s.parent[m]) = "loop",
                            s.st[m] \in Open
                     PROVE  s.st[s.parent[m]] = "completed"
            BY DEF LoopsOK
        <2>1. m # l /\ m # n /\ s.parent[m] = r.parent[m] /\ r.st[m] \in Open
            BY <1>9, GraphFacts DEF Open
        <2>2. r.st[r.parent[m]] = "completed"
            BY <2>1 DEF Sound, LoopsOK
        <2>3. PICK f \in r.edges : f.from = r.parent[m] /\ f.to = m
            BY <2>1 DEF Sound, ParentsOK
        <2>4. r.parent[m] # l
            BY <1>2, <1>3, <1>6, <2>1, <2>3
        <2>5. r.parent[m] # n
            BY <1>6, <2>1 DEF Deciding
        <2> QED BY <1>9, <2>1, <2>2, <2>4, <2>5
    <1> QED BY <1>10, <1>11, <1>12, <1>13, <1>14, <1>15, <1>16 DEF Sound

LEMMA SuccessorsSound ==
    ASSUME graph \in Graphs, PlainLoops(graph), NEW p, NEW r \in RunRec(p), NEW out,
           NEW n \in Node, NEW key, Sound(r, out, n), JustDone(r, n, key),
           NEW s, s = activateSuccessors(r, n, key)
    PROVE  s \in RunRec(p) /\ Sound(s, out, None)
    <1>1. PICK s1 : s1 = ActivateReady(r, n, key)
        OBVIOUS
    <1>2. s1 \in RunRec(p) /\ Sound(s1, out, n) /\ Finished(s1, n)
        <2>1. PICK new \in SUBSET Node :
                /\ s1 \in RunRec(p)
                /\ new \cap (r.ready \cup r.waiting \cup r.blocked \cup r.completed) = {}
                /\ \A m \in new : \E e \in r.edges \cup getActivatedOutboundEdgeIds(n, key) :
                     e.from = n /\ e.to = m
                /\ Dispatches(s1, r, n, new, getActivatedOutboundEdgeIds(n, key))
            BY <1>1, ActivateFields
        <2> QED BY <2>1, ActivateSound
    <1>3. PICK s2 : s2 = ReactivateLoop(s1, n)
        OBVIOUS
    <1>4. s2 \in RunRec(p) /\ LoopsBack(s2, s1, n)
        BY <1>2, <1>3, LoopFields
    <1>5. Sound(s2, out, n)
        BY <1>2, <1>4, LoopSound DEF LoopsBack
    <1>6. s = ReactivateJoins(s2, n)
        BY <1>1, <1>3 DEF activateSuccessors
    <1>7. s \in RunRec(p) /\ Wakes(s, s2, JoinsAfter(s2, n))
        BY <1>4, <1>6, JoinFields
    <1> QED BY <1>4, <1>5, <1>7, JoinSound

\* Node n completes with the branch b.
Finishes(s, r, n, b) ==
    /\ s.ready = r.ready \ {n} /\ s.waiting = r.waiting \ {n} /\ s.blocked = r.blocked \ {n}
    /\ s.completed = r.completed \cup {n} /\ s.edges = r.edges
    /\ s.st = [r.st EXCEPT ![n] = "completed"] /\ s.live = [r.live EXCEPT ![n] = FALSE]
    /\ s.wait = [r.wait EXCEPT ![n] = None] /\ s.branch = [r.branch EXCEPT ![n] = b]
    /\ s.parent = r.parent /\ s.active = r.active /\ SameRecord(s, r)

LEMMA FinishSound ==
    ASSUME graph \in Graphs, NEW p, NEW r \in RunRec(p), NEW s \in RunRec(p), NEW out,
           NEW n \in Node, NEW key, NEW b, b = "loop" => key = "loop",
           r.st[n] \in Open, Sound(r, out, None), Finishes(s, r, n, b)
    PROVE  Sound(s, out, n) /\ JustDone(s, n, key)
    <1>1. r.st[n] # "completed"
        BY DEF Open
    <1>2. /\ s.ready = r.ready \ {n} /\ s.waiting = r.waiting \ {n}
          /\ s.blocked = r.blocked \ {n} /\ s.completed = r.completed \cup {n}
          /\ s.edges = r.edges /\ s.parent = r.parent
        BY DEF Finishes
    <1>3. /\ s.st[n] = "completed" /\ s.live[n] = FALSE /\ s.wait[n] = None /\ s.branch[n] = b
        BY DEF Finishes, RunRec
    <1>4. \A m \in Node \ {n} : /\ s.st[m] = r.st[m] /\ s.wait[m] = r.wait[m]
                               /\ s.branch[m] = r.branch[m]
        BY DEF Finishes, RunRec
    <1>5. \A m \in Node \ {n} : s.live[m] = r.live[m]
        BY DEF Finishes, RunRec
    <1>6. ListsOK(s, out)
        BY <1>2, <1>3, <1>4 DEF Sound, ListsOK
    <1>7. AttemptsOK(s)
        BY <1>2, <1>3, <1>4, <1>5 DEF Sound, AttemptsOK
    <1>8. JoinsOK(s, n)
        <2>1. \A m \in Node : s.wait[m] = "parallel_join" => m # n /\ r.wait[m] = "parallel_join"
            BY <1>3, <1>4, NullAssumption DEF WaitKind
        <2> SUFFICES ASSUME NEW m \in Node, s.wait[m] = "parallel_join",
                            ~\E e \in In(m) : e.from = n
                     PROVE  ~JoinConditionMet(s, m)
            BY <2>1 DEF JoinsOK, Sound
        <2>2. \A e \in In(m) : e.from \in Node \ {n} /\ e.from # None
            BY GraphFacts DEF In
        <2>3. ~JoinConditionMet(r, m)
            BY <2>1, <2>2 DEF Sound, JoinsOK
        <2>4. \A e \in In(m) : s.st[e.from] = r.st[e.from]
            BY <1>4, <2>2
        <2> QED BY <2>3, <2>4, MetFacts
    <1>9. \A e \in r.edges : e.from \in Node
        BY GraphFacts DEF RunRec
    <1>10. \A e \in r.edges : Type(e.from) \in {"condition", "error-handler"} /\ e.key # None
              => e.from # n
        BY <1>1 DEF Sound, BranchesOK
    <1>11. BranchesOK(s)
        BY <1>2, <1>4, <1>9, <1>10 DEF Sound, BranchesOK
    <1>12. ParentsOK(s)
        BY <1>2 DEF Sound, ParentsOK
    <1>13. ExitsOK(s)
        <2>1. \A e \in r.edges : Type(e.from) = "loop" /\ e.key # "loop" => e.from # n
            BY <1>1 DEF Sound, ExitsOK
        <2> QED BY <1>2, <1>4, <1>9, <2>1 DEF Sound, ExitsOK
    <1>14. LoopsOK(s)
        <2> SUFFICES ASSUME NEW m \in Node, s.parent[m] \in Node, Type(s.parent[m]) = "loop",
                            s.st[m] \in Open
                     PROVE  s.st[s.parent[m]] = "completed"
            BY DEF LoopsOK
        <2>1. m # n
            BY <1>3 DEF Open
        <2>2. r.st[r.parent[m]] = "completed"
            BY <1>2, <1>4, <2>1 DEF Sound, LoopsOK
        <2> QED BY <1>2, <1>3, <1>4, <2>2
    <1>15. Finished(s, n)
        <2>1. r.parent[n] \in Node /\ Type(r.parent[n]) = "loop" => r.st[r.parent[n]] = "completed"
            BY DEF Sound, LoopsOK
        <2> QED BY <1>2, <1>3, <1>4, <2>1 DEF Finished
    <1>16. JustDone(s, n, key)
        BY <1>2, <1>3, <1>10, <1>15 DEF JustDone
    <1> QED BY <1>6, <1>7, <1>8, <1>11, <1>12, <1>13, <1>14, <1>16 DEF Sound

\* Node n stops with the status o and the wait kind k: it goes on waiting, is
\* blocked or has failed.
Parks(s, r, n, o, k) ==
    /\ s.ready = r.ready \ {n}
    /\ s.waiting = IF o = "waiting" THEN r.waiting \cup {n} ELSE r.waiting \ {n}
    /\ s.blocked = IF o = "blocked" THEN r.blocked \cup {n} ELSE r.blocked \ {n}
    /\ s.completed = r.completed /\ s.edges = r.edges
    /\ s.st = [r.st EXCEPT ![n] = o] /\ s.live = [r.live EXCEPT ![n] = o # "failed"]
    /\ s.wait = [r.wait EXCEPT ![n] = k] /\ s.parent = r.parent
    /\ s.active = r.active /\ SameRecord(s, r)
    /\ \E b : s.branch = [r.branch EXCEPT ![n] = b]

LEMMA ParkSound ==
    ASSUME graph \in Graphs, NEW p, NEW r \in RunRec(p), NEW s \in RunRec(p), NEW out,
           NEW n \in Node, r.st[n] \in Open, Sound(r, out, None),
           NEW o \in {"waiting", "blocked", "failed"}, NEW k, k # None <=> o = "waiting",
           k = "parallel_join" => Type(n) = "parallel-join" /\ ~JoinConditionMet(r, n),
           Parks(s, r, n, o, k)
    PROVE  Sound(s, out, None)
    <1>1. r.st[n] # "completed" /\ o \notin Resolved /\ o # "completed"
        BY DEF Open, Resolved
    <1>2. /\ s.ready = r.ready \ {n}
          /\ s.waiting = IF o = "waiting" THEN r.waiting \cup {n} ELSE r.waiting \ {n}
          /\ s.blocked = IF o = "blocked" THEN r.blocked \cup {n} ELSE r.blocked \ {n}
          /\ s.completed = r.completed /\ s.edges = r.edges /\ s.parent = r.parent
        BY DEF Parks
    <1>3. s.st[n] = o /\ s.wait[n] = k
        BY DEF Parks, RunRec
    <1>30. s.live[n] = (o # "failed")
        BY DEF Parks, RunRec
    <1>4. \A m \in Node \ {n} : /\ s.st[m] = r.st[m] /\ s.wait[m] = r.wait[m]
                               /\ s.branch[m] = r.branch[m]
        BY DEF Parks, RunRec
    <1>5. \A m \in Node \ {n} : s.live[m] = r.live[m]
        BY DEF Parks, RunRec
    <1>6. ListsOK(s, out)
        BY <1>1, <1>2, <1>3, <1>4 DEF Sound, ListsOK
    <1>7. AttemptsOK(s)
        BY <1>2, <1>3, <1>30, <1>4, <1>5 DEF Sound, AttemptsOK
    <1>8. JoinsOK(s, None)
        <2> SUFFICES ASSUME NEW m \in Node, s.wait[m] = "parallel_join"
                     PROVE  Type(m) = "parallel-join" /\ ~JoinConditionMet(s, m)
            BY DEF JoinsOK
        <2>1. \A e \in In(m) : e.from \in Node /\ e.from # None
            BY GraphFacts DEF In
        <2>2. Type(m) = "parallel-join" /\ ~JoinConditionMet(r, m)
            BY <1>3, <1>4, <2>1 DEF Sound, JoinsOK
        <2>3. \A e \in In(m) : /\ s.st[e.from] = "completed" => r.st[e.from] = "completed"
                               /\ s.st[e.from] \in Resolved => r.st[e.from] \in Resolved
            BY <1>1, <1>3, <1>4, <2>1
        <2> QED BY <2>2, <2>3, MetFacts
    <1>9. \A e \in r.edges : e.from \in Node
        BY GraphFacts DEF RunRec
    <1>11. BranchesOK(s)
        <2>1. \A e \in r.edges : Type(e.from) \in {"condition", "error-handler"} /\ e.key # None
                 => e.from # n
            BY <1>1 DEF Sound, BranchesOK
        <2> QED BY <1>2, <1>4, <1>9, <2>1 DEF Sound, BranchesOK
    <1>12. ParentsOK(s)
        BY <1>2 DEF Sound, ParentsOK
    <1>13. ExitsOK(s)
        <2>1. \A e \in r.edges : Type(e.from) = "loop" /\ e.key # "loop" => e.from # n
            BY <1>1 DEF Sound, ExitsOK
        <2> QED BY <1>2, <1>4, <1>9, <2>1 DEF Sound, ExitsOK
    <1>14. LoopsOK(s)
        <2> SUFFICES ASSUME NEW m \in Node, s.parent[m] \in Node, Type(s.parent[m]) = "loop",
                            s.st[m] \in Open
                     PROVE  s.st[s.parent[m]] = "completed"
            BY DEF LoopsOK
        <2>1. r.st[m] \in Open
            BY <1>4
        <2>2. r.st[r.parent[m]] = "completed"
            BY <1>2, <2>1 DEF Sound, LoopsOK
        <2> QED BY <1>1, <1>2, <1>4, <2>2
    <1> QED BY <1>6, <1>7, <1>8, <1>11, <1>12, <1>13, <1>14 DEF Sound

-------------------------------------------------------------------------------
(* The outcome of an attempt.                                                *)

ResultRec ==
    [outcome : {"completed", "waiting", "blocked", "failed"}, wait : WaitKind \cup {None},
     branch : BranchKey \cup {None}, effect : Effect]

\* What the handlers and the continuations return: a wait kind with the outcome
\* 'waiting' only, and a join only waits while its condition is not met.
GoodResult(r, n, res) ==
    /\ res \in ResultRec
    /\ res.wait # None <=> res.outcome = "waiting"
    /\ res.wait = "parallel_join" => Type(n) = "parallel-join" /\ ~JoinConditionMet(r, n)

\* Node n leaves its list with the outcome of its attempt.
Attempted(r, n, res) ==
    [r EXCEPT !.ready = @ \ {n}, !.waiting = @ \ {n}, !.blocked = @ \ {n},
              !.st[n] = res.outcome, !.wait[n] = res.wait, !.branch[n] = res.branch]

Leaves(s, r, n, res) ==
    /\ s.ready = r.ready \ {n} /\ s.waiting = r.waiting \ {n} /\ s.blocked = r.blocked \ {n}
    /\ s.st = [r.st EXCEPT ![n] = res.outcome] /\ s.wait = [r.wait EXCEPT ![n] = res.wait]
    /\ s.branch = [r.branch EXCEPT ![n] = res.branch] /\ s.completed = r.completed
    /\ s.edges = r.edges /\ s.live = r.live /\ s.parent = r.parent
    /\ s.active = r.active /\ SameRecord(s, r)

LEMMA AttemptFields ==
    ASSUME NEW p, NEW r \in RunRec(p), NEW n \in Node, NEW res \in ResultRec,
           NEW r1, r1 = Attempted(r, n, res)
    PROVE  r1 \in RunRec(p) /\ Leaves(r1, r, n, res)
    <1>1. PICK ready \in SUBSET Node : ready = r.ready \ {n}
        BY DEF RunRec
    <1>2. PICK waiting \in SUBSET Node : waiting = r.waiting \ {n}
        BY DEF RunRec
    <1>3. PICK blocked \in SUBSET Node : blocked = r.blocked \ {n}
        BY DEF RunRec
    <1>4. PICK st \in [Node -> NodeStatus] : st = [r.st EXCEPT ![n] = res.outcome]
        <2>1. r.st \in [Node -> NodeStatus] /\ res.outcome \in NodeStatus
            BY DEF RunRec, NodeStatus, ResultRec
        <2>2. [r.st EXCEPT ![n] = res.outcome] \in [Node -> NodeStatus]
            BY <2>1
        <2> QED BY <2>2
    <1>5. PICK wait \in [Node -> WaitKind \cup {None}] : wait = [r.wait EXCEPT ![n] = res.wait]
        <2>1. r.wait \in [Node -> WaitKind \cup {None}] /\ res.wait \in WaitKind \cup {None}
            BY DEF RunRec, ResultRec
        <2>2. [r.wait EXCEPT ![n] = res.wait] \in [Node -> WaitKind \cup {None}]
            BY <2>1
        <2> QED BY <2>2
    <1>6. PICK branch \in [Node -> BranchKey \cup {None}] :
            branch = [r.branch EXCEPT ![n] = res.branch]
        <2>1. r.branch \in [Node -> BranchKey \cup {None}] /\ res.branch \in BranchKey \cup {None}
            BY DEF RunRec, ResultRec
        <2>2. [r.branch EXCEPT ![n] = res.branch] \in [Node -> BranchKey \cup {None}]
            BY <2>1
        <2> QED BY <2>2
    <1>7. PICK s1 : s1 = [r EXCEPT !.ready = ready, !.waiting = waiting, !.blocked = blocked]
        OBVIOUS
    <1>8. s1 \in RunRec(p)
        BY <1>7 DEF RunRec
    <1>9. r1 = [s1 EXCEPT !.st = st, !.wait = wait, !.branch = branch]
        BY <1>1, <1>2, <1>3, <1>4, <1>5, <1>6, <1>7 DEF RunRec, Attempted
    <1>10. r1 \in RunRec(p)
        BY <1>8, <1>9 DEF RunRec
    <1>11. /\ r1.ready = ready /\ r1.waiting = waiting /\ r1.blocked = blocked /\ r1.st = st
           /\ r1.wait = wait /\ r1.branch = branch /\ r1.completed = r.completed
           /\ r1.edges = r.edges /\ r1.live = r.live /\ r1.parent = r.parent
           /\ r1.active = r.active
        BY <1>7, <1>9 DEF RunRec
    <1>12. SameRecord(r1, r)
        BY <1>7, <1>9 DEF RunRec, SameRecord
    <1> QED BY <1>1, <1>2, <1>3, <1>4, <1>5, <1>6, <1>10, <1>11, <1>12 DEF Leaves

LEMMA DoneFields ==
    ASSUME NEW p, NEW r \in RunRec(p), NEW n \in Node, NEW res \in ResultRec,
           res.outcome = "completed", NEW s, s = applyAttemptOutcome(r, n, res)
    PROVE  \E d \in RunRec(p) :
              /\ Finishes(d, r, n, res.branch)
              /\ s = activateSuccessors(cancelRaceLosers(d, n), n, r.abranch[n])
    <1>1. PICK r1 : r1 = Attempted(r, n, res)
        OBVIOUS
    <1>2. r1 \in RunRec(p) /\ Leaves(r1, r, n, res)
        BY <1>1, AttemptFields
    <1>3. PICK d : d = [r1 EXCEPT !.live[n] = FALSE, !.wait[n] = None, !.completed = @ \cup {n}]
        OBVIOUS
    <1>4. s = activateSuccessors(cancelRaceLosers(d, n), n, r.abranch[n])
        BY <1>1, <1>3 DEF applyAttemptOutcome, Attempted
    <1>5. PICK live \in [Node -> BOOLEAN] : live = [r1.live EXCEPT ![n] = FALSE]
        <2>1. [r1.live EXCEPT ![n] = FALSE] \in [Node -> BOOLEAN]
            BY <1>2 DEF RunRec
        <2> QED BY <2>1
    <1>6. PICK wait \in [Node -> WaitKind \cup {None}] : wait = [r1.wait EXCEPT ![n] = None]
        <2>1. [r1.wait EXCEPT ![n] = None] \in [Node -> WaitKind \cup {None}]
            BY <1>2 DEF RunRec
        <2> QED BY <2>1
    <1>7. PICK completed \in SUBSET Node : completed = r1.completed \cup {n}
        BY <1>2 DEF RunRec
    <1>8. d = [r1 EXCEPT !.live = live, !.wait = wait, !.completed = completed]
        BY <1>2, <1>3, <1>5, <1>6, <1>7 DEF RunRec
    <1>9. d \in RunRec(p)
        BY <1>2, <1>8 DEF RunRec
    <1>10. wait = [r.wait EXCEPT ![n] = None]
        BY <1>2, <1>6 DEF RunRec, Leaves
    <1>11. /\ d.live = live /\ d.wait = wait /\ d.completed = completed /\ d.ready = r1.ready
           /\ d.waiting = r1.waiting /\ d.blocked = r1.blocked /\ d.st = r1.st
           /\ d.branch = r1.branch /\ d.edges = r1.edges /\ d.parent = r1.parent
           /\ d.active = r1.active
        BY <1>2, <1>8 DEF RunRec
    <1>13. SameRecord(d, r1)
        BY <1>2, <1>8 DEF RunRec, SameRecord
    <1>14. SameRecord(d, r)
        BY <1>2, <1>13 DEF Leaves, SameRecord
    <1>12. Finishes(d, r, n, res.branch)
        BY <1>2, <1>5, <1>7, <1>10, <1>11, <1>14 DEF Finishes, Leaves
    <1> QED BY <1>4, <1>9, <1>12

LEMMA ParkFields ==
    ASSUME NEW p, NEW r \in RunRec(p), NEW n \in Node, NEW res \in ResultRec,
           res.outcome # "completed", NEW s, s = applyAttemptOutcome(r, n, res)
    PROVE  s \in RunRec(p) /\ Parks(s, r, n, res.outcome, res.wait)
    <1>1. PICK r1 : r1 = Attempted(r, n, res)
        OBVIOUS
    <1>2. r1 \in RunRec(p) /\ Leaves(r1, r, n, res)
        BY <1>1, AttemptFields
    <1>3. res.outcome \in {"waiting", "blocked", "failed"}
        BY DEF ResultRec
    <1>4. /\ res.outcome = "waiting" => s = [r1 EXCEPT !.live[n] = TRUE, !.waiting = @ \cup {n}]
          /\ res.outcome = "blocked" => s = [r1 EXCEPT !.live[n] = TRUE, !.blocked = @ \cup {n}]
          /\ res.outcome = "failed" => s = [r1 EXCEPT !.live[n] = FALSE]
        BY <1>1 DEF applyAttemptOutcome, Attempted
    <1>5. PICK live \in [Node -> BOOLEAN] : live = [r1.live EXCEPT ![n] = res.outcome # "failed"]
        <2>1. [r1.live EXCEPT ![n] = res.outcome # "failed"] \in [Node -> BOOLEAN]
            BY <1>2 DEF RunRec
        <2> QED BY <2>1
    <1>6. PICK waiting \in SUBSET Node :
            waiting = IF res.outcome = "waiting" THEN r1.waiting \cup {n} ELSE r1.waiting
        BY <1>2 DEF RunRec
    <1>7. PICK blocked \in SUBSET Node :
            blocked = IF res.outcome = "blocked" THEN r1.blocked \cup {n} ELSE r1.blocked
        BY <1>2 DEF RunRec
    <1>8. s = [r1 EXCEPT !.live = live, !.waiting = waiting, !.blocked = blocked]
        <2>1. CASE res.outcome = "waiting"
            <3>1. waiting = r1.waiting \cup {n} /\ blocked = r1.blocked
                BY <1>6, <1>7, <2>1
            <3>2. (res.outcome # "failed") = TRUE
                BY <2>1
            <3>3. live = [r1.live EXCEPT ![n] = TRUE]
                BY <1>5, <3>2
            <3>4. s = [r1 EXCEPT !.live[n] = TRUE, !.waiting = @ \cup {n}]
                BY <1>4, <2>1
            <3>5. s = [r1 EXCEPT !.live = live, !.waiting = waiting]
                BY <1>2, <3>1, <3>3, <3>4 DEF RunRec
            <3> QED BY <1>2, <3>1, <3>5 DEF RunRec
        <2>2. CASE res.outcome = "blocked"
            <3>1. waiting = r1.waiting /\ blocked = r1.blocked \cup {n}
                BY <1>6, <1>7, <2>2
            <3>2. (res.outcome # "failed") = TRUE
                BY <2>2
            <3>3. live = [r1.live EXCEPT ![n] = TRUE]
                BY <1>5, <3>2
            <3>4. s = [r1 EXCEPT !.live[n] = TRUE, !.blocked = @ \cup {n}]
                BY <1>4, <2>2
            <3>5. s = [r1 EXCEPT !.live = live, !.blocked = blocked]
                BY <1>2, <3>1, <3>3, <3>4 DEF RunRec
            <3> QED BY <1>2, <3>1, <3>5 DEF RunRec
        <2>3. CASE res.outcome = "failed"
            <3>1. waiting = r1.waiting /\ blocked = r1.blocked
                BY <1>6, <1>7, <2>3
            <3>2. (res.outcome # "failed") = FALSE
                BY <2>3
            <3>3. live = [r1.live EXCEPT ![n] = FALSE]
                BY <1>5, <3>2
            <3>4. s = [r1 EXCEPT !.live[n] = FALSE]
                BY <1>4, <2>3
            <3>5. s = [r1 EXCEPT !.live = live]
                BY <1>2, <3>1, <3>3, <3>4 DEF RunRec
            <3> QED BY <1>2, <3>1, <3>5 DEF RunRec
        <2> QED BY <1>3, <2>1, <2>2, <2>3
    <1>9. s \in RunRec(p)
        BY <1>2, <1>8 DEF RunRec
    <1>11. /\ s.live = live /\ s.waiting = waiting /\ s.blocked = blocked /\ s.ready = r1.ready
           /\ s.wait = r1.wait /\ s.completed = r1.completed /\ s.st = r1.st
           /\ s.branch = r1.branch /\ s.edges = r1.edges /\ s.parent = r1.parent
           /\ s.active = r1.active
        BY <1>2, <1>8 DEF RunRec
    <1>14. SameRecord(s, r1)
        BY <1>2, <1>8 DEF RunRec, SameRecord
    <1>15. SameRecord(s, r)
        BY <1>2, <1>14 DEF Leaves, SameRecord
    <1>12. /\ waiting = IF res.outcome = "waiting" THEN r.waiting \cup {n} ELSE r.waiting \ {n}
           /\ blocked = IF res.outcome = "blocked" THEN r.blocked \cup {n} ELSE r.blocked \ {n}
        BY <1>2, <1>6, <1>7 DEF Leaves
    <1>13. Parks(s, r, n, res.outcome, res.wait)
        BY <1>2, <1>5, <1>11, <1>12, <1>15 DEF Parks, Leaves
    <1> QED BY <1>9, <1>13

\* The outcome of an attempt on an open node leaves a sound run state.
LEMMA OutcomeSound ==
    ASSUME graph \in Graphs, PlainLoops(graph), NEW p, NEW r \in RunRec(p), NEW out,
           NEW n \in Node, r.st[n] \in Open, Sound(r, out, None), NEW res,
           GoodResult(r, n, res), res.branch = "loop" => r.abranch[n] = "loop",
           NEW s, s = applyAttemptOutcome(r, n, res)
    PROVE  s \in RunRec(p) /\ Sound(s, out, None)
    <1>1. res \in ResultRec
        BY DEF GoodResult
    <1>2. CASE res.outcome # "completed"
        <2>1. res.outcome \in {"waiting", "blocked", "failed"}
            BY <1>1, <1>2 DEF ResultRec
        <2>2. s \in RunRec(p) /\ Parks(s, r, n, res.outcome, res.wait)
            BY <1>1, <1>2, ParkFields
        <2>3. /\ res.wait # None <=> res.outcome = "waiting"
              /\ res.wait = "parallel_join" =>
                    Type(n) = "parallel-join" /\ ~JoinConditionMet(r, n)
            BY DEF GoodResult
        <2> QED BY <2>1, <2>2, <2>3, ParkSound
    <1>3. CASE res.outcome = "completed"
        <2>1. PICK key : key = r.abranch[n]
            OBVIOUS
        <2>2. PICK d \in RunRec(p) : /\ Finishes(d, r, n, res.branch)
                                     /\ s = activateSuccessors(cancelRaceLosers(d, n), n, key)
            BY <1>1, <1>3, <2>1, DoneFields
        <2>3. Sound(d, out, n) /\ JustDone(d, n, key)
            BY <2>1, <2>2, FinishSound
        <2>4. PICK d2 : d2 = cancelRaceLosers(d, n)
            OBVIOUS
        <2>5. d2 \in RunRec(p) /\ (d2 = d \/ Skips(d2, d, RaceLosers(d, n)))
            BY <2>2, <2>4, LoserFields
        <2>6. Sound(d2, out, n) /\ JustDone(d2, n, key)
            <3>1. CASE d2 = d
                BY <2>3, <3>1
            <3>2. CASE Skips(d2, d, RaceLosers(d, n))
                <4>1. Sound(d2, out, n)
                      /\ \A m \in Node : d.st[m] = "completed" => d2.st[m] = "completed"
                    BY <2>3, <2>5, <3>2, LoserSound
                <4>2. d2.edges = d.edges /\ d2.branch = d.branch /\ d2.parent = d.parent
                    BY <3>2 DEF Skips
                <4> QED BY <2>3, <4>1, <4>2 DEF JustDone, Finished
            <3> QED BY <2>5, <3>1, <3>2
        <2>7. s = activateSuccessors(d2, n, key)
            BY <2>2, <2>4
        <2> QED BY <2>5, <2>6, <2>7, SuccessorsSound
    <1> QED BY <1>2, <1>3

\* Soundness is about SameFields; and more announcements ask for less.
LEMMA SameSound ==
    ASSUME NEW r, NEW s, SameFields(s, r), NEW out, NEW more, out \subseteq more, NEW x,
           Sound(r, out, x)
    PROVE  Sound(s, more, x)
    <1>1. ListsOK(s, more) /\ AttemptsOK(s)
        BY DEF SameFields, Sound, ListsOK, AttemptsOK
    <1>2. \A n : JoinConditionMet(s, n) = JoinConditionMet(r, n)
        BY DEF JoinConditionMet, UpstreamIn, SameFields
    <1>3. JoinsOK(s, x)
        BY <1>2 DEF SameFields, Sound, JoinsOK
    <1>4. BranchesOK(s) /\ ParentsOK(s) /\ ExitsOK(s) /\ LoopsOK(s)
        BY DEF SameFields, Sound, BranchesOK, ParentsOK, ExitsOK, LoopsOK
    <1> QED BY <1>1, <1>3, <1>4 DEF Sound

LEMMA ResolveFields ==
    ASSUME NEW p, NEW r \in RunRec(p), NEW s, s = Resolve(r)
    PROVE  s \in RunRec(p) /\ SameFields(s, r)
    <1>1. PICK status \in RunStatus : status = resolveRunStatus(r)
        BY DEF resolveRunStatus, RunStatus, Terminal
    <1>2. s = [r EXCEPT !.status = status]
        BY <1>1 DEF Resolve
    <1> QED BY <1>2 DEF RunRec, SameFields

LEMMA MoreCheckpoints ==
    ASSUME NEW p \in Nat, NEW q \in Nat, p =< q, NEW r \in RunRec(p)
    PROVE  r \in RunRec(q)
    <1>1. Checkpoints(p) \subseteq Checkpoints(q)
        BY DEF Checkpoints
    <1>2. r.prep \in Checkpoints(q) /\ r.acp \in [Node -> Checkpoints(q)]
        BY <1>1 DEF RunRec
    <1> QED BY <1>2 DEF RunRec

\* Any change of status and checkpoint state.
LEMMA StatusFields ==
    ASSUME NEW p, NEW r \in RunRec(p), NEW status \in RunStatus, NEW s,
           s = [r EXCEPT !.status = status]
    PROVE  s \in RunRec(p) /\ SameFields(s, r)
    BY DEF RunRec, SameFields

-------------------------------------------------------------------------------
(* The exported transitions.                                                 *)

CaptureRec(p) ==
    [state : {"idle", "prepare_pending", "commit_pending"}, id : Checkpoints(p)]

\* The result of an attempt is good for every run state with the same statuses.
LEMMA SameResult ==
    ASSUME NEW r, NEW s, s.st = r.st, NEW n, NEW res, GoodResult(r, n, res)
    PROVE  GoodResult(s, n, res)
    <1>1. JoinConditionMet(s, n) = JoinConditionMet(r, n)
        BY DEF JoinConditionMet, UpstreamIn
    <1> QED BY <1>1 DEF GoodResult

LEMMA RecordFields ==
    ASSUME NEW p, NEW r \in RunRec(p), NEW n \in Node, r.att[n] < MaxAttempts,
           NEW res, GoodResult(r, n, res), NEW c \in CaptureRec(p),
           NEW s, s = recordWorkflowNodeExecution(r, n, res, c)
    PROVE  \E t \in RunRec(p) :
              /\ SameFields(t, r) /\ t.abranch[n] = res.branch
              /\ t.att = [r.att EXCEPT ![n] = @ + 1]
              /\ s = Resolve(applyAttemptOutcome(t, n, res))
    <1> DEFINE r1 == [r EXCEPT !.att[n] = @ + 1, !.abranch[n] = res.branch,
                               !.aeff[n] = res.effect, !.acp[n] = c.id, !.ckpt = c.state,
                               !.prep = IF c.id # None THEN c.id ELSE @]
    <1>1. /\ res.branch \in BranchKey \cup {None} /\ res.effect \in Effect
          /\ c.id \in Checkpoints(p) /\ c.state \in {"idle", "prepare_pending", "commit_pending"}
        BY DEF GoodResult, ResultRec, CaptureRec
    <1>2. PICK att \in [Node -> 0 .. MaxAttempts] : att = [r.att EXCEPT ![n] = @ + 1]
        <2>1. r.att \in [Node -> 0 .. MaxAttempts] /\ r.att[n] + 1 \in 0 .. MaxAttempts
            BY BoundsAssumption DEF RunRec
        <2>2. [r.att EXCEPT ![n] = @ + 1] \in [Node -> 0 .. MaxAttempts]
            BY <2>1
        <2> QED BY <2>2
    <1>3. PICK abranch \in [Node -> BranchKey \cup {None}] :
            abranch = [r.abranch EXCEPT ![n] = res.branch]
        <2>1. r.abranch \in [Node -> BranchKey \cup {None}]
            BY DEF RunRec
        <2>2. [r.abranch EXCEPT ![n] = res.branch] \in [Node -> BranchKey \cup {None}]
            BY <1>1, <2>1
        <2> QED BY <2>2
    <1>4. PICK aeff \in [Node -> Effect] : aeff = [r.aeff EXCEPT ![n] = res.effect]
        <2>1. r.aeff \in [Node -> Effect]
            BY DEF RunRec
        <2>2. [r.aeff EXCEPT ![n] = res.effect] \in [Node -> Effect]
            BY <1>1, <2>1
        <2> QED BY <2>2
    <1>5. PICK acp \in [Node -> Checkpoints(p)] : acp = [r.acp EXCEPT ![n] = c.id]
        <2>1. r.acp \in [Node -> Checkpoints(p)]
            BY DEF RunRec
        <2>2. [r.acp EXCEPT ![n] = c.id] \in [Node -> Checkpoints(p)]
            BY <1>1, <2>1
        <2> QED BY <2>2
    <1>6. PICK prep \in Checkpoints(p) : prep = IF c.id # None THEN c.id ELSE r.prep
        BY <1>1 DEF RunRec
    <1>7. PICK ckpt \in {"idle", "prepare_pending", "commit_pending"} : ckpt = c.state
        BY <1>1
    <1>8. r1 = [r EXCEPT !.att = att, !.abranch = abranch, !.aeff = aeff, !.acp = acp,
                         !.ckpt = ckpt, !.prep = prep]
        BY <1>2, <1>3, <1>4, <1>5, <1>6, <1>7 DEF RunRec
    <1>9. PICK t : t = r1
        OBVIOUS
    <1>10. s = Resolve(applyAttemptOutcome(t, n, res))
        BY <1>9 DEF recordWorkflowNodeExecution
    <1>11. t = [r EXCEPT !.att = att, !.abranch = abranch, !.aeff = aeff, !.acp = acp,
                         !.ckpt = ckpt, !.prep = prep]
        BY <1>8, <1>9
    <1> HIDE DEF r1
    <1>12. t \in RunRec(p)
        <2>1. PICK s1 : s1 = [r EXCEPT !.att = att, !.abranch = abranch, !.aeff = aeff]
            OBVIOUS
        <2>2. s1 \in RunRec(p)
            BY <2>1 DEF RunRec
        <2>3. t = [s1 EXCEPT !.acp = acp, !.ckpt = ckpt, !.prep = prep]
            BY <1>11, <2>1 DEF RunRec
        <2> QED BY <2>2, <2>3 DEF RunRec
    <1>13. SameFields(t, r)
        BY <1>11 DEF RunRec, SameFields
    <1>14. t.abranch = abranch /\ t.att = att
        BY <1>11 DEF RunRec
    <1>15. t.abranch[n] = res.branch
        BY <1>3, <1>14 DEF RunRec
    <1> QED BY <1>2, <1>10, <1>12, <1>13, <1>14, <1>15

LEMMA RecordSound ==
    ASSUME graph \in Graphs, PlainLoops(graph), NEW p, NEW r \in RunRec(p), NEW out,
           NEW n \in Node, r.st[n] = "ready", r.att[n] < MaxAttempts, Sound(r, out, None),
           NEW res, GoodResult(r, n, res), NEW c \in CaptureRec(p),
           NEW s, s = recordWorkflowNodeExecution(r, n, res, c)
    PROVE  s \in RunRec(p) /\ Sound(s, out, None)
    <1>1. PICK t \in RunRec(p) :
            /\ SameFields(t, r) /\ t.abranch[n] = res.branch
            /\ t.att = [r.att EXCEPT ![n] = @ + 1]
            /\ s = Resolve(applyAttemptOutcome(t, n, res))
        BY RecordFields
    <1>2. Sound(t, out, None)
        BY <1>1, SameSound
    <1>3. t.st = r.st /\ t.st[n] \in Open
        BY <1>1 DEF SameFields, Open
    <1>4. GoodResult(t, n, res)
        BY <1>3, SameResult
    <1>5. PICK u : u = applyAttemptOutcome(t, n, res)
        OBVIOUS
    <1>6. u \in RunRec(p) /\ Sound(u, out, None)
        BY <1>1, <1>2, <1>3, <1>4, <1>5, OutcomeSound
    <1>7. s \in RunRec(p) /\ SameFields(s, u)
        BY <1>1, <1>5, <1>6, ResolveFields
    <1> QED BY <1>6, <1>7, SameSound

LEMMA ContinueFields ==
    ASSUME NEW p, NEW r \in RunRec(p), NEW n \in Node,
           NEW res, GoodResult(r, n, res), NEW c \in CaptureRec(p) \cup {None},
           NEW s, s = resolveWorkflowNodeContinuation(r, n, res, c)
    PROVE  \E t \in RunRec(p) :
              /\ SameFields(t, r) /\ t.att = r.att
              /\ res.branch = "loop" => t.abranch[n] = "loop"
              /\ c # None /\ c.id # None => t.acp[n] = c.id
              /\ s = Resolve(applyAttemptOutcome(t, n, res))
    <1> DEFINE r1 == [r EXCEPT !.abranch[n] = IF res.branch # None THEN res.branch ELSE @,
                               !.aeff[n] = res.effect,
                               !.acp[n] = IF c # None /\ c.id # None THEN c.id ELSE @,
                               !.ckpt = IF c # None THEN c.state ELSE @,
                               !.prep = IF c # None /\ @ = None THEN c.id ELSE @]
    <1>1. /\ res.branch \in BranchKey \cup {None} /\ res.effect \in Effect
          /\ c # None => /\ c.id \in Checkpoints(p)
                         /\ c.state \in {"idle", "prepare_pending", "commit_pending"}
        BY DEF GoodResult, ResultRec, CaptureRec
    <1>2. PICK b \in BranchKey \cup {None} :
            b = IF res.branch # None THEN res.branch ELSE r.abranch[n]
        BY <1>1 DEF RunRec
    <1>3. PICK abranch \in [Node -> BranchKey \cup {None}] : abranch = [r.abranch EXCEPT ![n] = b]
        <2>1. r.abranch \in [Node -> BranchKey \cup {None}]
            BY DEF RunRec
        <2>2. [r.abranch EXCEPT ![n] = b] \in [Node -> BranchKey \cup {None}]
            BY <2>1
        <2> QED BY <2>2
    <1>4. PICK aeff \in [Node -> Effect] : aeff = [r.aeff EXCEPT ![n] = res.effect]
        <2>1. r.aeff \in [Node -> Effect]
            BY DEF RunRec
        <2>2. [r.aeff EXCEPT ![n] = res.effect] \in [Node -> Effect]
            BY <1>1, <2>1
        <2> QED BY <2>2
    <1>5. PICK k \in Checkpoints(p) : k = IF c # None /\ c.id # None THEN c.id ELSE r.acp[n]
        BY <1>1 DEF RunRec
    <1>20. PICK acp \in [Node -> Checkpoints(p)] : acp = [r.acp EXCEPT ![n] = k]
        <2>1. r.acp \in [Node -> Checkpoints(p)]
            BY DEF RunRec
        <2>2. [r.acp EXCEPT ![n] = k] \in [Node -> Checkpoints(p)]
            BY <2>1
        <2> QED BY <2>2
    <1>6. PICK prep \in Checkpoints(p) :
            prep = IF c # None /\ r.prep = None THEN c.id ELSE r.prep
        BY <1>1 DEF RunRec
    <1>7. PICK ckpt \in {"idle", "prepare_pending", "commit_pending"} :
            ckpt = IF c # None THEN c.state ELSE r.ckpt
        BY <1>1 DEF RunRec
    <1>8. r1 = [r EXCEPT !.abranch = abranch, !.aeff = aeff, !.acp = acp, !.ckpt = ckpt,
                         !.prep = prep]
        BY <1>2, <1>3, <1>4, <1>5, <1>20, <1>6, <1>7 DEF RunRec
    <1>9. PICK t : t = r1
        OBVIOUS
    <1>10. s = Resolve(applyAttemptOutcome(t, n, res))
        BY <1>9 DEF resolveWorkflowNodeContinuation
    <1>11. t = [r EXCEPT !.abranch = abranch, !.aeff = aeff, !.acp = acp, !.ckpt = ckpt,
                         !.prep = prep]
        BY <1>8, <1>9
    <1> HIDE DEF r1
    <1>12. t \in RunRec(p)
        BY <1>11 DEF RunRec
    <1>13. SameFields(t, r)
        BY <1>11 DEF RunRec, SameFields
    <1>14. t.abranch = abranch /\ t.att = r.att /\ t.acp = acp
        BY <1>11 DEF RunRec
    <1>15. res.branch = "loop" => t.abranch[n] = "loop"
        <2>1. res.branch = "loop" => res.branch # None
            BY NullAssumption DEF BranchKey
        <2> QED BY <1>2, <1>3, <1>14, <2>1 DEF RunRec
    <1>16. c # None /\ c.id # None => t.acp[n] = c.id
        BY <1>5, <1>20, <1>14 DEF RunRec
    <1> QED BY <1>10, <1>12, <1>13, <1>14, <1>15, <1>16

LEMMA ContinueSound ==
    ASSUME graph \in Graphs, PlainLoops(graph), NEW p, NEW r \in RunRec(p), NEW out,
           NEW n \in Node, r.live[n], Sound(r, out, None),
           NEW res, GoodResult(r, n, res), NEW c \in CaptureRec(p) \cup {None},
           NEW s, s = resolveWorkflowNodeContinuation(r, n, res, c)
    PROVE  s \in RunRec(p) /\ Sound(s, out, None)
    <1>1. PICK t \in RunRec(p) :
            /\ SameFields(t, r)
            /\ res.branch = "loop" => t.abranch[n] = "loop"
            /\ s = Resolve(applyAttemptOutcome(t, n, res))
        BY ContinueFields
    <1>2. Sound(t, out, None)
        BY <1>1, SameSound
    <1>3. t.st = r.st /\ t.st[n] \in Open
        <2>1. n \in r.waiting \cup r.blocked
            BY DEF Sound, AttemptsOK
        <2>2. r.st[n] \in Open
            BY <2>1 DEF Sound, ListsOK, Open
        <2> QED BY <1>1, <2>2 DEF SameFields
    <1>4. GoodResult(t, n, res)
        BY <1>3, SameResult
    <1>5. PICK u : u = applyAttemptOutcome(t, n, res)
        OBVIOUS
    <1>6. u \in RunRec(p) /\ Sound(u, out, None)
        BY <1>1, <1>2, <1>3, <1>4, <1>5, OutcomeSound
    <1>7. s \in RunRec(p) /\ SameFields(s, u)
        BY <1>1, <1>5, <1>6, ResolveFields
    <1> QED BY <1>6, <1>7, SameSound

LEMMA CompleteFields ==
    ASSUME NEW p, NEW r \in RunRec(p), NEW n \in Node, r.st[n] = "ready", NEW out,
           Sound(r, out, None), NEW s, s = completeWorkflowNodeInRunState(r, n)
    PROVE  \E d \in RunRec(p) : /\ Finishes(d, r, n, r.branch[n])
                               /\ s = Resolve(activateSuccessors(d, n, r.branch[n]))
    <1>1. PICK st \in [Node -> NodeStatus] : st = [r.st EXCEPT ![n] = "completed"]
        <2>1. r.st \in [Node -> NodeStatus] /\ "completed" \in NodeStatus
            BY DEF RunRec, NodeStatus
        <2>2. [r.st EXCEPT ![n] = "completed"] \in [Node -> NodeStatus]
            BY <2>1
        <2> QED BY <2>2
    <1>2. PICK wait \in [Node -> WaitKind \cup {None}] : wait = [r.wait EXCEPT ![n] = None]
        <2>1. r.wait \in [Node -> WaitKind \cup {None}]
            BY DEF RunRec
        <2>2. [r.wait EXCEPT ![n] = None] \in [Node -> WaitKind \cup {None}]
            BY <2>1
        <2> QED BY <2>2
    <1>3. PICK ready \in SUBSET Node : ready = r.ready \ {n}
        BY DEF RunRec
    <1>4. PICK waiting \in SUBSET Node : waiting = r.waiting \ {n}
        BY DEF RunRec
    <1>5. PICK blocked \in SUBSET Node : blocked = r.blocked \ {n}
        BY DEF RunRec
    <1>6. PICK completed \in SUBSET Node : completed = r.completed \cup {n}
        BY DEF RunRec
    <1>7. PICK d : d = [r EXCEPT !.st = st, !.wait = wait, !.ready = ready,
                                 !.waiting = waiting, !.blocked = blocked,
                                 !.completed = completed]
        OBVIOUS
    <1>8. s = Resolve(activateSuccessors(d, n, r.branch[n]))
        BY <1>1, <1>2, <1>3, <1>4, <1>5, <1>6, <1>7 DEF completeWorkflowNodeInRunState, RunRec
    <1>9. d \in RunRec(p)
        <2>1. PICK s1 : s1 = [r EXCEPT !.st = st, !.wait = wait, !.ready = ready]
            OBVIOUS
        <2>2. s1 \in RunRec(p)
            BY <2>1 DEF RunRec
        <2>3. d = [s1 EXCEPT !.waiting = waiting, !.blocked = blocked, !.completed = completed]
            BY <1>7, <2>1 DEF RunRec
        <2> QED BY <2>2, <2>3 DEF RunRec
    <1>10. /\ d.st = st /\ d.wait = wait /\ d.ready = ready /\ d.waiting = waiting
           /\ d.blocked = blocked /\ d.completed = completed /\ d.edges = r.edges
           /\ d.live = r.live /\ d.branch = r.branch /\ d.parent = r.parent
        BY <1>7 DEF RunRec
    <1>11. r.live = [r.live EXCEPT ![n] = FALSE]
        <2>1. ~r.live[n]
            BY DEF Sound, AttemptsOK, ListsOK
        <2>2. r.live[n] = FALSE
            BY <2>1 DEF RunRec
        <2> QED BY <2>2 DEF RunRec
    <1>12. r.branch = [r.branch EXCEPT ![n] = r.branch[n]]
        BY DEF RunRec
    <1>13. d.active = r.active /\ SameRecord(d, r)
        BY <1>7 DEF RunRec, SameRecord
    <1>14. Finishes(d, r, n, r.branch[n])
        BY <1>1, <1>2, <1>3, <1>4, <1>5, <1>6, <1>10, <1>11, <1>12, <1>13 DEF Finishes
    <1> QED BY <1>8, <1>9, <1>14

LEMMA CompleteSound ==
    ASSUME graph \in Graphs, PlainLoops(graph), NEW p, NEW r \in RunRec(p), NEW out,
           NEW n \in Node, r.st[n] = "ready", Sound(r, out, None),
           NEW s, s = completeWorkflowNodeInRunState(r, n)
    PROVE  s \in RunRec(p) /\ Sound(s, out, None)
    <1>1. PICK key : key = r.branch[n]
        OBVIOUS
    <1>2. PICK d \in RunRec(p) : /\ Finishes(d, r, n, key)
                                /\ s = Resolve(activateSuccessors(d, n, key))
        BY <1>1, CompleteFields
    <1>3. r.st[n] \in Open
        BY DEF Open
    <1>4. Sound(d, out, n) /\ JustDone(d, n, key)
        BY <1>2, <1>3, FinishSound
    <1>5. PICK u : u = activateSuccessors(d, n, key)
        OBVIOUS
    <1>6. u \in RunRec(p) /\ Sound(u, out, None)
        BY <1>2, <1>4, <1>5, SuccessorsSound
    <1>7. s \in RunRec(p) /\ SameFields(s, u)
        BY <1>2, <1>5, <1>6, ResolveFields
    <1> QED BY <1>6, <1>7, SameSound

LEMMA CancelSound ==
    ASSUME NEW p, NEW r \in RunRec(p), NEW out, Sound(r, out, None), NEW more,
           "canceled" \in more, NEW s, s = cancelWorkflowRunState(r)
    PROVE  s \in RunRec(p) /\ Sound(s, more, None) /\ s.status = "canceled"
    <1>1. PICK affected \in SUBSET Node :
            affected = r.active \cup r.ready \cup r.waiting \cup r.blocked
        BY DEF RunRec
    <1>2. PICK live \in [Node -> BOOLEAN] : live = Assign(r.live, affected, FALSE)
        <2>1. Assign(r.live, affected, FALSE) \in [Node -> BOOLEAN]
            BY DEF RunRec, Assign
        <2> QED BY <2>1
    <1>3. PICK wait \in [Node -> WaitKind \cup {None}] : wait = Assign(r.wait, affected, None)
        <2>1. Assign(r.wait, affected, None) \in [Node -> WaitKind \cup {None}]
            BY DEF RunRec, Assign
        <2> QED BY <2>1
    <1>4. PICK s1 : s1 = [r EXCEPT !.status = "canceled", !.ckpt = "idle", !.live = live,
                                   !.wait = wait]
        OBVIOUS
    <1>5. s1 \in RunRec(p)
        BY <1>4 DEF RunRec, RunStatus, Terminal
    <1>6. s = [s1 EXCEPT !.active = {}, !.ready = {}, !.waiting = {}, !.blocked = {}]
        BY <1>1, <1>2, <1>3, <1>4 DEF cancelWorkflowRunState, RunRec
    <1>7. s \in RunRec(p)
        BY <1>5, <1>6 DEF RunRec
    <1>8. /\ s.status = "canceled" /\ s.live = live /\ s.wait = wait /\ s.ready = {}
          /\ s.waiting = {} /\ s.blocked = {} /\ s.completed = r.completed
          /\ s.edges = r.edges /\ s.st = r.st /\ s.branch = r.branch /\ s.parent = r.parent
        BY <1>4, <1>5, <1>6 DEF RunRec
    <1>9. \A n \in Node : ~live[n] /\ wait[n] = None
        <2>1. \A n \in Node : /\ n \in affected => ~live[n] /\ wait[n] = None
                              /\ n \notin affected => live[n] = r.live[n] /\ wait[n] = r.wait[n]
            BY <1>2, <1>3 DEF Assign, RunRec
        <2>2. \A n \in Node : n \notin affected => ~r.live[n] /\ r.wait[n] = None
            BY <1>1 DEF Sound, AttemptsOK
        <2> QED BY <2>1, <2>2
    <1>10. ListsOK(s, more) /\ AttemptsOK(s)
        BY <1>8, <1>9 DEF ListsOK, AttemptsOK, Sound
    <1>11. JoinsOK(s, None)
        BY <1>8, <1>9, NullAssumption DEF JoinsOK, WaitKind
    <1>12. BranchesOK(s) /\ ParentsOK(s) /\ ExitsOK(s) /\ LoopsOK(s)
        BY <1>8 DEF Sound, BranchesOK, ParentsOK, ExitsOK, LoopsOK
    <1> QED BY <1>7, <1>8, <1>10, <1>11, <1>12 DEF Sound

LEMMA InitialSound ==
    ASSUME graph \in Graphs, NEW r, r = createInitialWorkflowRunState, NEW p
    PROVE  r \in RunRec(p) /\ Sound(r, {}, None) /\ r.status = "ready"
    <1>1. EntryNodes \subseteq Node
        BY DEF EntryNodes
    <1> DEFINE All(v) == [n \in Node |-> v]
    <1>2. PICK st \in [Node -> NodeStatus] : st = Assign(All("pending"), EntryNodes, "ready")
        <2>1. Assign(All("pending"), EntryNodes, "ready") \in [Node -> NodeStatus]
            BY DEF Assign, NodeStatus
        <2> QED BY <2>1
    <1>3. PICK parent \in [Node -> Node \cup {"root", None}] :
            parent = Assign(All(None), EntryNodes, "root")
        <2>1. Assign(All(None), EntryNodes, "root") \in [Node -> Node \cup {"root", None}]
            BY DEF Assign
        <2> QED BY <2>1
    <1>4. PICK att \in [Node -> 0 .. MaxAttempts] : att = All(0)
        <2>1. 0 \in 0 .. MaxAttempts
            BY BoundsAssumption
        <2> QED BY <2>1
    <1>5. PICK live \in [Node -> BOOLEAN] : live = All(FALSE)
        OBVIOUS
    <1>6. PICK wait \in [Node -> WaitKind \cup {None}] : wait = All(None)
        OBVIOUS
    <1>7. PICK branch \in [Node -> BranchKey \cup {None}] : branch = All(None)
        OBVIOUS
    <1>8. PICK aeff \in [Node -> Effect] : aeff = All("none")
        BY DEF Effect
    <1>9. PICK acp \in [Node -> Checkpoints(p)] : acp = All(None)
        BY DEF Checkpoints
    <1>10. r = [status |-> "ready", ckpt |-> "idle", prep |-> None,
                active |-> EntryNodes, ready |-> EntryNodes,
                waiting |-> {}, blocked |-> {}, completed |-> {}, edges |-> {},
                st |-> st, att |-> att, live |-> live, wait |-> wait,
                branch |-> branch, parent |-> parent,
                abranch |-> branch, aeff |-> aeff, acp |-> acp]
        BY <1>2, <1>3, <1>4, <1>5, <1>6, <1>7, <1>8, <1>9 DEF createInitialWorkflowRunState
    <1>11. r \in RunRec(p)
        <2>1. "ready" \in RunStatus /\ None \in Checkpoints(p)
            BY DEF RunStatus, Checkpoints
        <2> QED BY <1>1, <1>10, <2>1 DEF RunRec
    <1>12. /\ r.ready = EntryNodes /\ r.waiting = {} /\ r.blocked = {} /\ r.completed = {}
           /\ r.edges = {} /\ r.st = st /\ r.live = live /\ r.wait = wait /\ r.parent = parent
           /\ r.status = "ready"
        BY <1>10
    <1>13. \A n \in Node : /\ st[n] = IF n \in EntryNodes THEN "ready" ELSE "pending"
                           /\ ~live[n] /\ wait[n] = None
                           /\ parent[n] \in {"root", None}
        BY <1>2, <1>3, <1>5, <1>6 DEF Assign
    <1>14. ListsOK(r, {}) /\ AttemptsOK(r)
        BY <1>12, <1>13 DEF ListsOK, AttemptsOK
    <1>15. JoinsOK(r, None)
        BY <1>12, <1>13, NullAssumption DEF JoinsOK, WaitKind
    <1>16. BranchesOK(r) /\ ExitsOK(r)
        BY <1>12 DEF BranchesOK, ExitsOK
    <1>17. ParentsOK(r) /\ LoopsOK(r)
        BY <1>12, <1>13, GraphFacts DEF ParentsOK, LoopsOK
    <1> QED BY <1>11, <1>12, <1>14, <1>15, <1>16, <1>17 DEF Sound

-------------------------------------------------------------------------------
(* The results of handlers and continuations.                                *)

LEMMA PlainResults ==
    ASSUME NEW r, NEW n, NEW b \in BranchKey \cup {None}, NEW eff \in Effect
    PROVE  /\ GoodResult(r, n, Completed(b, eff))
           /\ GoodResult(r, n, Blocked(eff)) /\ GoodResult(r, n, Failed(eff))
           /\ \A k \in WaitKind \ {"parallel_join"} : GoodResult(r, n, Waiting(k, b, eff))
    <1>1. None # "parallel_join" /\ None \notin WaitKind
        BY NullAssumption DEF WaitKind
    <1>2. GoodResult(r, n, Completed(b, eff))
        BY <1>1 DEF Completed, Result, GoodResult, ResultRec
    <1>3. GoodResult(r, n, Blocked(eff))
        BY <1>1 DEF Blocked, Result, GoodResult, ResultRec
    <1>4. GoodResult(r, n, Failed(eff))
        BY <1>1 DEF Failed, Result, GoodResult, ResultRec
    <1>5. ASSUME NEW k \in WaitKind \ {"parallel_join"}
          PROVE  GoodResult(r, n, Waiting(k, b, eff))
        BY <1>1 DEF Waiting, Result, GoodResult, ResultRec
    <1> QED BY <1>2, <1>3, <1>4, <1>5

LEMMA JoinWaits ==
    ASSUME NEW r, NEW n, NEW b \in BranchKey \cup {None}, NEW eff \in Effect,
           Type(n) = "parallel-join", ~JoinConditionMet(r, n)
    PROVE  GoodResult(r, n, Waiting("parallel_join", b, eff))
    BY NullAssumption DEF Waiting, Result, GoodResult, ResultRec, WaitKind

\* What executing a node may result in.
LEMMA ExecutionGood ==
    ASSUME graph \in Graphs, NEW r, NEW n \in Node, NEW res \in ExecutionResults(r, n)
    PROVE  GoodResult(r, n, res)
    <1>1. Type(n) \in NodeType
        BY GraphsAssumption DEF ValidGraph, Type, Node
    <1>2. /\ {None, "true", "false", "loop", "exit", "error"} \subseteq BranchKey \cup {None}
          /\ {"none", "external"} \subseteq Effect
          /\ {"human_decision", "retry_backoff", "async_batch", "loop_backoff"}
                \subseteq WaitKind \ {"parallel_join"}
        BY DEF BranchKey, Effect, WaitKind
    <1>3. CASE res \in GovernanceResults(n)
        BY <1>2, <1>3, PlainResults DEF GovernanceResults
    <1>4. CASE res \in HandlerResults(r, n)
        <2>1. CASE Type(n) = "transform"
            BY <1>2, <1>4, <2>1, PlainResults DEF HandlerResults
        <2>2. CASE Type(n) = "quality-gate"
            BY <1>2, <1>4, <2>2, PlainResults DEF HandlerResults
        <2>3. CASE Type(n) = "model-call"
            BY <1>2, <1>4, <2>3, PlainResults DEF HandlerResults, ModelCallResults
        <2>4. CASE Type(n) = "tool-execution"
            BY <1>2, <1>4, <2>4, PlainResults DEF HandlerResults, ToolResults
        <2>5. CASE Type(n) = "human-decision"
            BY <1>2, <1>4, <2>5, PlainResults DEF HandlerResults
        <2>6. CASE Type(n) = "condition"
            <3>1. PICK b \in {"true", "false"} : res = Completed(b, "none")
                BY <1>4, <2>6 DEF HandlerResults
            <3> QED BY <1>2, <3>1, PlainResults
        <2>7. CASE Type(n) = "parallel-split"
            BY <1>2, <1>4, <2>7, PlainResults DEF HandlerResults
        <2>8. CASE Type(n) = "parallel-join"
            BY <1>2, <1>4, <2>8, PlainResults, JoinWaits DEF HandlerResults, ParallelJoinResult
        <2>9. CASE Type(n) = "loop"
            BY <1>2, <1>4, <2>9, PlainResults DEF HandlerResults, LoopResults
        <2>10. CASE Type(n) = "error-handler"
            <3>1. res = ErrorHandlerResult(r, n)
                BY <1>4, <2>10 DEF HandlerResults
            <3>2. res \in {Failed("none"), Completed("error", "none"), Completed(None, "none")}
                BY <3>1 DEF ErrorHandlerResult
            <3> QED BY <1>2, <3>2, PlainResults
        <2> QED BY <1>1, <2>1, <2>2, <2>3, <2>4, <2>5, <2>6, <2>7, <2>8, <2>9, <2>10 DEF NodeType
    <1> QED BY <1>3, <1>4 DEF ExecutionResults

\* A completed result whose commit is pending.
LEMMA PendingGood ==
    ASSUME NEW r, NEW n, NEW res, GoodResult(r, n, res)
    PROVE  GoodResult(r, n, CheckpointPending(res))
    <1>1. res.branch \in BranchKey \cup {None} /\ res.effect \in Effect
          /\ "checkpoint_commit" \in WaitKind \ {"parallel_join"}
        BY DEF GoodResult, ResultRec, WaitKind
    <1> QED BY <1>1, PlainResults DEF CheckpointPending

\* What continuing a node may result in.
LEMMA ContinuationGood ==
    ASSUME graph \in Graphs, NEW p, NEW r \in RunRec(p), NEW out, Sound(r, out, None),
           NEW n \in Node, NEW ok, NEW res \in ResultsAfterCommit(r, n, ok)
    PROVE  GoodResult(r, n, res)
    <1>1. /\ r.abranch[n] \in BranchKey \cup {None} /\ r.aeff[n] \in Effect
          /\ r.wait[n] \in WaitKind \cup {None} /\ "none" \in Effect
          /\ {"timeout", "loop", None} \subseteq BranchKey \cup {None}
          /\ "checkpoint_commit" \in WaitKind \ {"parallel_join"}
        BY DEF RunRec, Effect, BranchKey, WaitKind
    <1>2. CASE res = Waiting("checkpoint_commit", r.abranch[n], r.aeff[n])
        BY <1>1, <1>2, PlainResults
    <1>3. CASE res \in resolveWorkflowContinuation(r, n)
        <2>1. r.wait[n] # None
            BY <1>3 DEF resolveWorkflowContinuation
        <2>2. \/ res = Blocked(r.aeff[n]) \/ res = Waiting(r.wait[n], r.abranch[n], r.aeff[n])
              \/ \E b \in BranchKey \cup {None}, eff \in Effect : res = Completed(b, eff)
            BY <1>1, <1>3, <2>1 DEF resolveWorkflowContinuation, WaitKind
        <2>3. CASE res = Blocked(r.aeff[n])
            BY <1>1, <2>3, PlainResults
        <2>4. CASE \E b \in BranchKey \cup {None}, eff \in Effect : res = Completed(b, eff)
            BY <2>4, PlainResults
        <2>5. CASE res = Waiting(r.wait[n], r.abranch[n], r.aeff[n])
            <3>1. CASE r.wait[n] = "parallel_join"
                <4>1. \A e \in In(n) : e.from # None
                    BY GraphFacts DEF In
                <4>2. Type(n) = "parallel-join" /\ ~JoinConditionMet(r, n)
                    BY <3>1, <4>1 DEF Sound, JoinsOK
                <4> QED BY <1>1, <2>5, <3>1, <4>2, JoinWaits
            <3>2. CASE r.wait[n] # "parallel_join"
                BY <1>1, <2>1, <2>5, <3>2, PlainResults
            <3> QED BY <3>1, <3>2
        <2> QED BY <2>2, <2>3, <2>4, <2>5
    <1> QED BY <1>2, <1>3 DEF ResultsAfterCommit

-------------------------------------------------------------------------------
(* The engine.                                                               *)

\* A state that a step stores.
StoredNext(r) ==
    /\ r \in RunRec(prepared')
    /\ Sound(r, outcomes', None)
    /\ r.status \in Terminal => outcomes' # {}

\* What every step does to the state the invariant is about.
Step ==
    /\ graph' = graph /\ prepared' \in prepared .. MaxCheckpoints
    /\ committed' \subseteq 1 .. prepared'
    /\ outcomes \subseteq outcomes' /\ outcomes' \subseteq Terminal
    /\ StoredNext(run')
    /\ CallsOK'
    /\ Snapshots' \subseteq Snapshots \cup {run'}

LEMMA SameGraph ==
    ASSUME graph' = graph, NEW r, StoredNext(r)
    PROVE  Stored(r)'
    <1>1. Node' = Node /\ \A n : Type(n)' = Type(n) /\ In(n)' = In(n)
        BY DEF Node, Type, In
    <1>2. r \in RunRec(prepared)'
        BY <1>1 DEF StoredNext, RunRec
    <1>3. ListsOK(r, outcomes)'
        BY <1>1 DEF StoredNext, Sound, ListsOK
    <1>4. AttemptsOK(r)'
        BY <1>1 DEF StoredNext, Sound, AttemptsOK
    <1>5. \A n : JoinConditionMet(r, n)' = JoinConditionMet(r, n)
        BY <1>1 DEF JoinConditionMet, UpstreamIn, RequiredCount
    <1>6. JoinsOK(r, None)'
        BY <1>1, <1>5 DEF StoredNext, Sound, JoinsOK
    <1>7. BranchesOK(r)' /\ ParentsOK(r)' /\ ExitsOK(r)' /\ LoopsOK(r)'
        BY <1>1 DEF StoredNext, Sound, BranchesOK, ParentsOK, ExitsOK, LoopsOK
    <1>8. Sound(r, outcomes, None)'
        BY <1>3, <1>4, <1>6, <1>7 DEF Sound
    <1> QED BY <1>2, <1>8 DEF Stored, StoredNext

LEMMA StepInv ==
    ASSUME EngineInv, Step
    PROVE  EngineInv'
    <1>1. prepared \in Nat /\ prepared' \in Nat /\ prepared =< prepared'
          /\ prepared' \in 0 .. MaxCheckpoints
        BY BoundsAssumption DEF EngineInv, Step
    <1>2. ASSUME NEW r, r \in Snapshots PROVE StoredNext(r)
        <2>1. Stored(r)
            BY <1>2 DEF EngineInv
        <2>2. r \in RunRec(prepared')
            BY <1>1, <2>1, MoreCheckpoints DEF Stored
        <2>3. SameFields(r, r)
            BY DEF SameFields
        <2>4. Sound(r, outcomes', None)
            BY <2>1, <2>3, SameSound DEF Stored, Step
        <2> QED BY <2>1, <2>2, <2>4 DEF Stored, StoredNext, Step
    <1>3. ASSUME NEW r, r \in Snapshots' PROVE Stored(r)'
        <2>1. StoredNext(r)
            BY <1>2, <1>3 DEF Step
        <2> QED BY <2>1, SameGraph DEF Step
    <1>4. graph' \in Graphs
        BY DEF EngineInv, Step
    <1> QED BY <1>1, <1>3, <1>4 DEF EngineInv, Step

\* Storing next, computed from the state prev.
LEMMA StoreStep ==
    ASSUME EngineInv, NEW prev \in Snapshots, NEW next, Store(prev, next),
           next \in RunRec(prepared'), Sound(next, outcomes, None)
    PROVE  /\ outcomes \subseteq outcomes' /\ outcomes' \subseteq Terminal
           /\ run' = next /\ StoredNext(run')
    <1>1. outcomes \subseteq outcomes' /\ outcomes' \subseteq Terminal /\ run' = next
        BY DEF Store, EngineInv
    <1>2. next.status \in Terminal => outcomes' # {}
        BY DEF Store, EngineInv, Stored
    <1>3. SameFields(next, next)
        BY DEF SameFields
    <1>4. Sound(next, outcomes', None)
        BY <1>1, <1>3, SameSound
    <1> QED BY <1>1, <1>2, <1>4 DEF StoredNext

\* A step that leaves the calls alone.
LEMMA QuietStep ==
    ASSUME EngineInv, UNCHANGED <<graph, call, prepared, committed>>,
           outcomes \subseteq outcomes', outcomes' \subseteq Terminal, StoredNext(run')
    PROVE  Step
    <1>1. CallsOK'
        BY DEF EngineInv, CallsOK, Node
    <1>2. Snapshots' \subseteq Snapshots \cup {run'}
        BY DEF Snapshots
    <1>3. prepared' \in prepared .. MaxCheckpoints /\ committed' \subseteq 1 .. prepared'
        BY BoundsAssumption DEF EngineInv
    <1> QED BY <1>1, <1>2, <1>3 DEF Step

\* A step in which call c begins (with the snapshot run) or ends.
LEMMA CallStep ==
    ASSUME EngineInv, graph' = graph, prepared' \in prepared .. MaxCheckpoints,
           committed' \subseteq 1 .. prepared', outcomes \subseteq outcomes',
           outcomes' \subseteq Terminal, StoredNext(run'), NEW c \in Call, NEW new,
           call' = [call EXCEPT ![c] = new],
           \/ new.op = "none"
           \/ /\ new.op \in {"execute", "continue"} /\ new.node \in Node /\ new.snap = run
              /\ new.op = "execute" => run.att[new.node] < MaxAttempts
              /\ new.op = "continue" => run.live[new.node]
    PROVE  Step
    <1>1. DOMAIN call' = Call /\ \A d \in Call : call'[d] = IF d = c THEN new ELSE call[d]
        BY DEF EngineInv, CallsOK
    <1>2. CallsOK'
        BY <1>1 DEF EngineInv, CallsOK, Node
    <1>3. Snapshots' \subseteq Snapshots \cup {run'}
        BY <1>1 DEF Snapshots
    <1> QED BY <1>2, <1>3 DEF Step

\* The state createInitialWorkflowRunState returns is sound, and no call has read it.
THEOREM InitInv == Init => EngineInv
    <1> SUFFICES ASSUME Init PROVE EngineInv
        OBVIOUS
    <1>1. graph \in Graphs /\ run = createInitialWorkflowRunState /\ prepared = 0
          /\ committed = {} /\ outcomes = {} /\ call = [c \in Call |-> Idle]
        BY DEF Init
    <1>2. run \in RunRec(0) /\ Sound(run, {}, None) /\ run.status = "ready"
        BY <1>1, InitialSound
    <1>3. Stored(run)
        BY <1>1, <1>2 DEF Stored, Terminal
    <1>4. \A c \in Call : call[c].op = "none"
        BY <1>1 DEF Idle
    <1>5. CallsOK /\ Snapshots = {run}
        BY <1>1, <1>4 DEF CallsOK, Snapshots
    <1>6. prepared \in 0 .. MaxCheckpoints
        BY <1>1, BoundsAssumption
    <1> QED BY <1>1, <1>3, <1>5, <1>6 DEF EngineInv

\* The loops of the graphs in use are plain.
Plain == \A g \in Graphs : PlainLoops(g)

LEMMA RunFacts ==
    ASSUME EngineInv
    PROVE  /\ run \in Snapshots /\ run \in RunRec(prepared) /\ Sound(run, outcomes, None)
           /\ graph \in Graphs /\ prepared \in Nat /\ outcomes \subseteq outcomes
           /\ run.status \in Terminal => outcomes # {}
    <1>1. run \in Snapshots
        BY DEF Snapshots
    <1> QED BY <1>1, BoundsAssumption DEF EngineInv, Stored

LEMMA PauseStep ==
    ASSUME EngineInv, Pause
    PROVE  Step
    <1>1. "paused" \in RunStatus /\ "paused" \notin Terminal
        BY DEF RunStatus, Terminal
    <1>2. run' = [run EXCEPT !.status = "paused"]
          /\ UNCHANGED <<graph, call, prepared, committed, outcomes>>
        BY DEF Pause, pauseWorkflowRunState
    <1>3. run' \in RunRec(prepared) /\ SameFields(run', run)
        BY <1>1, <1>2, RunFacts, StatusFields
    <1>4. Sound(run', outcomes, None)
        BY <1>3, RunFacts, SameSound
    <1>5. run'.status = "paused"
        BY <1>2, RunFacts DEF RunRec
    <1>6. StoredNext(run')
        BY <1>1, <1>2, <1>3, <1>4, <1>5 DEF StoredNext
    <1>7. outcomes' \subseteq Terminal /\ outcomes \subseteq outcomes'
        BY <1>2 DEF EngineInv
    <1> QED BY <1>2, <1>6, <1>7, QuietStep

LEMMA ResumeStep ==
    ASSUME EngineInv, Resume
    PROVE  Step
    <1>1. PICK r1 : r1 = [run EXCEPT !.status = "running"]
        OBVIOUS
    <1>2. r1 \in RunRec(prepared) /\ SameFields(r1, run)
        BY <1>1, RunFacts, StatusFields DEF RunStatus
    <1>3. PICK next : next = Resolve(r1)
        OBVIOUS
    <1>4. next \in RunRec(prepared) /\ SameFields(next, r1)
        BY <1>2, <1>3, ResolveFields
    <1>5. Sound(r1, outcomes, None)
        BY <1>2, RunFacts, SameSound
    <1>6. Sound(next, outcomes, None)
        BY <1>4, <1>5, RunFacts, SameSound
    <1>7. Store(run, next) /\ UNCHANGED <<graph, call, prepared, committed>>
        BY <1>1, <1>3 DEF Resume, resumeWorkflowRunState
    <1>8. outcomes \subseteq outcomes' /\ outcomes' \subseteq Terminal /\ StoredNext(run')
        BY <1>4, <1>6, <1>7, RunFacts, StoreStep
    <1> QED BY <1>7, <1>8, QuietStep

LEMMA CancelStep ==
    ASSUME EngineInv, Cancel
    PROVE  Step
    <1>1. PICK next : next = cancelWorkflowRunState(run)
        OBVIOUS
    <1>2. Store(run, next) /\ UNCHANGED <<graph, call, prepared, committed>>
          /\ run.status \notin Terminal
        BY <1>1 DEF Cancel, CanCancel
    <1>3. next \in RunRec(prepared) /\ Sound(next, outcomes \cup {"canceled"}, None)
          /\ next.status = "canceled"
        BY <1>1, RunFacts, CancelSound
    <1>4. run' = next /\ outcomes' = outcomes \cup {"canceled"}
        BY <1>2, <1>3 DEF Store, Terminal
    <1>5. StoredNext(run')
        BY <1>2, <1>3, <1>4 DEF StoredNext
    <1>6. outcomes \subseteq outcomes' /\ outcomes' \subseteq Terminal
        BY <1>4 DEF EngineInv, Terminal
    <1> QED BY <1>2, <1>5, <1>6, QuietStep

LEMMA CompleteStep ==
    ASSUME EngineInv, PlainLoops(graph), NEW n \in Node, CompleteNode(n)
    PROVE  Step
    <1>1. PICK next : next = completeWorkflowNodeInRunState(run, n)
        OBVIOUS
    <1>2. Store(run, next) /\ UNCHANGED <<graph, call, prepared, committed>>
          /\ run.st[n] = "ready"
        BY <1>1 DEF CompleteNode, CanComplete
    <1>3. next \in RunRec(prepared) /\ Sound(next, outcomes, None)
        BY <1>1, <1>2, RunFacts, CompleteSound
    <1>4. outcomes \subseteq outcomes' /\ outcomes' \subseteq Terminal /\ StoredNext(run')
        BY <1>2, <1>3, RunFacts, StoreStep
    <1> QED BY <1>2, <1>4, QuietStep

LEMMA ContinueNowStep ==
    ASSUME EngineInv, PlainLoops(graph), NEW n \in Node, ContinueNow(n)
    PROVE  Step
    <1>1. PICK res \in resolveWorkflowContinuation(run, n) :
            Store(run, resolveWorkflowNodeContinuation(run, n, res, None))
        BY DEF ContinueNow
    <1>2. run.live[n] /\ run.wait[n] # "checkpoint_commit"
          /\ UNCHANGED <<graph, call, prepared, committed>>
        BY DEF ContinueNow, CanContinue, NeedsCommit
    <1>3. res \in ResultsAfterCommit(run, n, TRUE)
        BY <1>1 DEF ResultsAfterCommit
    <1>4. GoodResult(run, n, res)
        BY <1>3, RunFacts, ContinuationGood
    <1>5. PICK next : next = resolveWorkflowNodeContinuation(run, n, res, None)
        OBVIOUS
    <1>6. None \in CaptureRec(prepared) \cup {None}
        OBVIOUS
    <1>7. next \in RunRec(prepared) /\ Sound(next, outcomes, None)
        BY <1>2, <1>4, <1>5, <1>6, RunFacts, ContinueSound
    <1>8. outcomes \subseteq outcomes' /\ outcomes' \subseteq Terminal /\ StoredNext(run')
        BY <1>1, <1>2, <1>5, <1>7, RunFacts, StoreStep
    <1> QED BY <1>2, <1>8, QuietStep

\* The run state and the announcements are left alone.
LEMMA UnchangedRun ==
    ASSUME EngineInv, UNCHANGED <<graph, run, outcomes>>,
           prepared' \in prepared .. MaxCheckpoints
    PROVE  outcomes \subseteq outcomes' /\ outcomes' \subseteq Terminal /\ StoredNext(run')
    <1>1. prepared' \in Nat /\ prepared =< prepared'
        BY RunFacts, BoundsAssumption DEF EngineInv
    <1>2. run \in RunRec(prepared')
        BY <1>1, RunFacts, MoreCheckpoints
    <1>3. outcomes \subseteq outcomes' /\ outcomes' \subseteq Terminal
        BY DEF EngineInv
    <1>4. run' = run /\ Sound(run, outcomes', None) /\ (run.status \in Terminal => outcomes' # {})
        BY RunFacts
    <1> QED BY <1>2, <1>3, <1>4 DEF StoredNext

LEMMA BeginStep ==
    ASSUME EngineInv, NEW c \in Call, NEW n \in Node, BeginExecute(c, n) \/ BeginContinue(c, n)
    PROVE  Step
    <1>1. UNCHANGED <<graph, run, prepared, committed, outcomes>>
        BY DEF BeginExecute, BeginContinue
    <1>2. prepared' \in prepared .. MaxCheckpoints /\ committed' \subseteq 1 .. prepared'
        BY <1>1, BoundsAssumption DEF EngineInv
    <1>3. outcomes \subseteq outcomes' /\ outcomes' \subseteq Terminal /\ StoredNext(run')
        BY <1>1, <1>2, UnchangedRun
    <1>4. CASE BeginExecute(c, n)
        <2>1. PICK new : new = [op |-> "execute", node |-> n, snap |-> run]
            OBVIOUS
        <2>2. call' = [call EXCEPT ![c] = new] /\ run.att[n] < MaxAttempts
            BY <1>4, <2>1 DEF BeginExecute
        <2>3. new.op = "execute" /\ new.node = n /\ new.snap = run
            BY <2>1
        <2> QED BY <1>1, <1>2, <1>3, <2>2, <2>3, CallStep
    <1>5. CASE BeginContinue(c, n)
        <2>1. PICK new : new = [op |-> "continue", node |-> n, snap |-> run]
            OBVIOUS
        <2>2. call' = [call EXCEPT ![c] = new] /\ run.live[n]
            BY <1>5, <2>1 DEF BeginContinue, CanContinue
        <2>3. new.op = "continue" /\ new.node = n /\ new.snap = run
            BY <2>1
        <2> QED BY <1>1, <1>2, <1>3, <2>2, <2>3, CallStep
    <1> QED BY <1>4, <1>5

\* What a call in flight knows of its snapshot.
LEMMA CallFacts ==
    ASSUME EngineInv, NEW c \in Call, call[c].op # "none"
    PROVE  /\ call[c].node \in Node /\ call[c].snap \in Snapshots
           /\ call[c].snap \in RunRec(prepared) /\ Sound(call[c].snap, outcomes, None)
           /\ call[c].op = "execute" => call[c].snap.att[call[c].node] < MaxAttempts
           /\ call[c].op = "continue" => call[c].snap.live[call[c].node]
    <1>1. call[c].snap \in Snapshots
        BY DEF Snapshots
    <1> QED BY <1>1 DEF EngineInv, Stored, CallsOK

LEMMA CaptureFacts ==
    ASSUME EngineInv, NEW effect, NEW capture \in Captures, CaptureCheckpoint(effect, capture)
    PROVE  /\ prepared' \in prepared .. MaxCheckpoints /\ committed' \subseteq 1 .. prepared'
           /\ capture \in CaptureRec(prepared')
    <1>1. prepared \in Nat /\ MaxCheckpoints \in Nat /\ prepared =< MaxCheckpoints
          /\ committed \subseteq 1 .. prepared
        BY BoundsAssumption DEF EngineInv
    <1>2. CASE UNCHANGED <<prepared, committed>> /\ capture = Capture("idle", None)
        BY <1>1, <1>2 DEF Capture, CaptureRec, Checkpoints
    <1>3. CASE UNCHANGED <<prepared, committed>> /\ capture = Capture("prepare_pending", None)
        BY <1>1, <1>3 DEF Capture, CaptureRec, Checkpoints
    <1>4. CASE /\ prepared < MaxCheckpoints /\ prepared' = prepared + 1
               /\ \/ capture = Capture("commit_pending", prepared') /\ UNCHANGED committed
                  \/ /\ capture = Capture("idle", prepared')
                     /\ committed' = committed \cup {prepared'}
        <2>1. prepared' \in prepared .. MaxCheckpoints /\ committed' \subseteq 1 .. prepared'
            <3>1. prepared' \in prepared .. MaxCheckpoints /\ prepared' \in 1 .. prepared'
                BY <1>1, <1>4
            <3>2. 1 .. prepared \subseteq 1 .. prepared'
                BY <1>1, <1>4
            <3>3. committed' \subseteq committed \cup {prepared'}
                BY <1>4
            <3> QED BY <1>1, <3>1, <3>2, <3>3
        <2>2. prepared' \in Checkpoints(prepared')
            BY <1>1, <1>4 DEF Checkpoints
        <2>3. capture \in CaptureRec(prepared')
            BY <1>4, <2>2 DEF Capture, CaptureRec
        <2> QED BY <2>1, <2>3
    <1> QED BY <1>2, <1>3, <1>4 DEF CaptureCheckpoint

LEMMA FinishExecuteStep ==
    ASSUME EngineInv, PlainLoops(graph), NEW c \in Call, FinishExecute(c)
    PROVE  Step
    <1>1. PICK n, snap : n = call[c].node /\ snap = call[c].snap
        OBVIOUS
    <1>2. call[c].op = "execute" /\ graph' = graph /\ call' = [call EXCEPT ![c] = Idle]
        BY DEF FinishExecute
    <1>3. PICK res \in ExecutionResults(snap, n), capture \in Captures :
            /\ CaptureCheckpoint(res.effect, capture)
            /\ LET final == IF res.outcome = "completed" /\ capture.state = "commit_pending"
                            THEN CheckpointPending(res) ELSE res
               IN  \/ /\ CanRecord(snap, n)
                      /\ Store(snap, recordWorkflowNodeExecution(snap, n, final, capture))
                   \/ /\ ~CanRecord(snap, n)
                      /\ UNCHANGED <<run, outcomes>>
        BY <1>1 DEF FinishExecute
    <1>4. /\ n \in Node /\ snap \in Snapshots /\ snap \in RunRec(prepared)
          /\ Sound(snap, outcomes, None) /\ snap.att[n] < MaxAttempts /\ graph \in Graphs
        BY <1>1, <1>2, CallFacts, RunFacts
    <1>5. /\ prepared' \in prepared .. MaxCheckpoints /\ committed' \subseteq 1 .. prepared'
          /\ capture \in CaptureRec(prepared')
        BY <1>3, CaptureFacts
    <1>6. PICK final : final = IF res.outcome = "completed" /\ capture.state = "commit_pending"
                               THEN CheckpointPending(res) ELSE res
        OBVIOUS
    <1>7. GoodResult(snap, n, final)
        BY <1>4, <1>6, ExecutionGood, PendingGood
    <1>8. snap \in RunRec(prepared')
        <2>1. prepared \in Nat /\ prepared' \in Nat /\ prepared =< prepared'
            BY <1>5, RunFacts, BoundsAssumption
        <2> QED BY <1>4, <2>1, MoreCheckpoints
    <1>9. outcomes \subseteq outcomes' /\ outcomes' \subseteq Terminal /\ StoredNext(run')
        <2>1. CASE UNCHANGED <<run, outcomes>>
            BY <1>2, <1>5, <2>1, UnchangedRun
        <2>2. CASE /\ CanRecord(snap, n)
                   /\ Store(snap, recordWorkflowNodeExecution(snap, n, final, capture))
            <3>1. PICK next : next = recordWorkflowNodeExecution(snap, n, final, capture)
                OBVIOUS
            <3>2. snap.st[n] = "ready" /\ Store(snap, next)
                BY <2>2, <3>1 DEF CanRecord
            <3>3. next \in RunRec(prepared') /\ Sound(next, outcomes, None)
                BY <1>4, <1>5, <1>7, <1>8, <3>1, <3>2, RecordSound
            <3> QED BY <1>4, <3>2, <3>3, StoreStep
        <2> QED BY <1>3, <1>6, <2>1, <2>2
    <1>10. Idle.op = "none"
        BY DEF Idle
    <1> QED BY <1>2, <1>5, <1>9, <1>10, CallStep

LEMMA FinishContinueStep ==
    ASSUME EngineInv, PlainLoops(graph), NEW c \in Call, FinishContinue(c)
    PROVE  Step
    <1>1. PICK n, snap : n = call[c].node /\ snap = call[c].snap
        OBVIOUS
    <1>2. /\ call[c].op = "continue" /\ graph' = graph /\ prepared' = prepared
          /\ call' = [call EXCEPT ![c] = Idle]
        BY DEF FinishContinue
    <1>3. PICK named, id, ok, state :
            /\ named \in 1 .. prepared \cup {None} /\ id = CheckpointOf(snap, n, named)
            /\ ok \in IF id = None THEN {FALSE} ELSE BOOLEAN
            /\ state = IF id = None THEN snap.ckpt ELSE IF ok THEN "idle" ELSE "commit_pending"
            /\ committed' = IF ok THEN committed \cup {id} ELSE committed
            /\ \/ \E res \in ResultsAfterCommit(snap, n, ok) :
                     Store(snap, resolveWorkflowNodeContinuation(snap, n, res, Capture(state, id)))
               \/ UNCHANGED <<run, outcomes>>
        BY <1>1 DEF FinishContinue
    <1>4. /\ n \in Node /\ snap \in Snapshots /\ snap \in RunRec(prepared)
          /\ Sound(snap, outcomes, None) /\ snap.live[n] /\ graph \in Graphs
        BY <1>1, <1>2, CallFacts, RunFacts
    <1>5. id \in Checkpoints(prepared)
        <2>1. snap.acp[n] \in Checkpoints(prepared) /\ snap.prep \in Checkpoints(prepared)
            BY <1>4 DEF RunRec
        <2> QED BY <1>3, <2>1 DEF CheckpointOf, Checkpoints
    <1>6. /\ prepared' \in prepared .. MaxCheckpoints /\ committed' \subseteq 1 .. prepared'
        <2>1. prepared' \in prepared .. MaxCheckpoints /\ committed \subseteq 1 .. prepared'
            BY <1>2, BoundsAssumption DEF EngineInv
        <2>2. ok = FALSE \/ id \in 1 .. prepared'
            BY <1>2, <1>3, <1>5 DEF Checkpoints
        <2> QED BY <1>3, <2>1, <2>2
    <1>7. PICK capture : capture = Capture(state, id)
        OBVIOUS
    <1>8. capture \in CaptureRec(prepared')
        <2>1. state \in {"idle", "prepare_pending", "commit_pending"}
            BY <1>3, <1>4 DEF RunRec
        <2> QED BY <1>2, <1>5, <1>7, <2>1 DEF Capture, CaptureRec
    <1>9. outcomes \subseteq outcomes' /\ outcomes' \subseteq Terminal /\ StoredNext(run')
        <2>1. CASE UNCHANGED <<run, outcomes>>
            BY <1>2, <1>6, <2>1, UnchangedRun
        <2>2. CASE \E res \in ResultsAfterCommit(snap, n, ok) :
                     Store(snap, resolveWorkflowNodeContinuation(snap, n, res, capture))
            <3>1. PICK res \in ResultsAfterCommit(snap, n, ok) :
                     Store(snap, resolveWorkflowNodeContinuation(snap, n, res, capture))
                BY <2>2
            <3>2. GoodResult(snap, n, res)
                BY <1>4, <3>1, ContinuationGood
            <3>3. PICK next : next = resolveWorkflowNodeContinuation(snap, n, res, capture)
                OBVIOUS
            <3>4. snap \in RunRec(prepared') /\ capture \in CaptureRec(prepared') \cup {None}
                BY <1>2, <1>4, <1>8
            <3>5. next \in RunRec(prepared') /\ Sound(next, outcomes, None)
                BY <1>4, <3>2, <3>3, <3>4, ContinueSound
            <3> QED BY <1>4, <3>1, <3>3, <3>5, StoreStep
        <2> QED BY <1>3, <1>7, <2>1, <2>2
    <1>10. Idle.op = "none"
        BY DEF Idle
    <1> QED BY <1>2, <1>6, <1>9, <1>10, CallStep

LEMMA NextStep ==
    ASSUME Plain, EngineInv, [Next]_vars
    PROVE  Step
    <1>1. PlainLoops(graph)
        BY DEF Plain, EngineInv
    <1>2. CASE UNCHANGED vars
        <2>1. UNCHANGED <<graph, run, call, prepared, committed, outcomes>>
            BY <1>2 DEF vars
        <2>2. prepared' \in prepared .. MaxCheckpoints
            BY <2>1, BoundsAssumption DEF EngineInv
        <2>3. outcomes \subseteq outcomes' /\ outcomes' \subseteq Terminal /\ StoredNext(run')
            BY <2>1, <2>2, UnchangedRun
        <2> QED BY <2>1, <2>3, QuietStep
    <1>3. CASE Pause
        BY <1>3, PauseStep
    <1>4. CASE Resume
        BY <1>4, ResumeStep
    <1>5. CASE Cancel
        BY <1>5, CancelStep
    <1>6. ASSUME NEW n \in Node, CompleteNode(n) PROVE Step
        BY <1>1, <1>6, CompleteStep
    <1>7. ASSUME NEW n \in Node, ContinueNow(n) PROVE Step
        BY <1>1, <1>7, ContinueNowStep
    <1>8. ASSUME NEW c \in Call, NEW n \in Node, BeginExecute(c, n) \/ BeginContinue(c, n)
          PROVE  Step
        BY <1>8, BeginStep
    <1>9. ASSUME NEW c \in Call, FinishExecute(c) PROVE Step
        BY <1>1, <1>9, FinishExecuteStep
    <1>10. ASSUME NEW c \in Call, FinishContinue(c) PROVE Step
        BY <1>1, <1>10, FinishContinueStep
    <1> QED BY <1>2, <1>3, <1>4, <1>5, <1>6, <1>7, <1>8, <1>9, <1>10 DEF Next

\* Every step of the engine keeps the invariant.
THEOREM NextInv ==
    ASSUME Plain, EngineInv, [Next]_vars
    PROVE  EngineInv'
    BY NextStep, StepInv

-------------------------------------------------------------------------------
(* The theorems.                                                             *)

\* The stored run state, and every state a call in flight has read, is sound.
THEOREM EngineInvariant == Plain => (Spec => []EngineInv)
    <1> SUFFICES ASSUME Plain PROVE Spec => []EngineInv
        OBVIOUS
    <1>1. Init => EngineInv
        BY InitInv
    <1>2. EngineInv /\ [Next]_vars => EngineInv'
        BY NextInv
    <1> QED BY <1>1, <1>2, PTL DEF Spec

\* Every stored run state is a run state: the lists hold nodes of the graph, the
\* statuses, wait kinds and checkpoint ids are of their kinds, for any number of
\* overlapping calls of the engine.
THEOREM TypeCorrect == Plain => (Spec => []TypeOK)
    <1> SUFFICES ASSUME Plain PROVE Spec => []TypeOK
        OBVIOUS
    <1>1. EngineInv => TypeOK
        BY RunFacts DEF EngineInv, CallsOK, TypeOK, RunRec, Checkpoints
    <1> QED BY <1>1, EngineInvariant, PTL

\* The node id lists never disagree with the node states, whichever calls complete,
\* skip, repeat, pause or cancel in whatever order and from however old a state.
THEOREM ListsCorrect == Plain => (Spec => []ListsMatchStatus)
    <1> SUFFICES ASSUME Plain PROVE Spec => []ListsMatchStatus
        OBVIOUS
    <1>1. ASSUME EngineInv PROVE ListsMatchStatus
        <2>1. ListsOK(run, outcomes) /\ run \in RunRec(prepared)
            BY <1>1, RunFacts DEF Sound
        <2>2. run.ready \subseteq Node /\ run.waiting \subseteq Node /\ run.blocked \subseteq Node
              /\ run.completed \subseteq Node
            BY <2>1 DEF RunRec
        <2> QED BY <2>1, <2>2 DEF ListsOK, ListsMatchStatus
    <1> QED BY <1>1, EngineInvariant, PTL

\* A node has an active attempt only while it waits or is blocked, and a waiting
\* node can be continued (continueNode throws without an active attempt).
THEOREM AttemptsCorrect == Plain => (Spec => []AttemptMatchesStatus)
    <1> SUFFICES ASSUME Plain PROVE Spec => []AttemptMatchesStatus
        OBVIOUS
    <1>1. ASSUME EngineInv PROVE AttemptMatchesStatus
        <2>1. ListsOK(run, outcomes) /\ AttemptsOK(run)
            BY <1>1, RunFacts DEF Sound
        <2> QED BY <2>1 DEF ListsOK, AttemptsOK, AttemptMatchesStatus
    <1> QED BY <1>1, EngineInvariant, PTL

\* No join is forgotten: activateSuccessors queues a waiting join again whenever an
\* upstream node completes, and cancelRaceLosers skips it with its upstream nodes.
THEOREM JoinsCorrect == Plain => (Spec => []NoJoinForgotten)
    <1> SUFFICES ASSUME Plain PROVE Spec => []NoJoinForgotten
        OBVIOUS
    <1>1. ASSUME EngineInv PROVE NoJoinForgotten
        <2>1. JoinsOK(run, None) /\ run.waiting \subseteq Node
            BY <1>1, RunFacts DEF Sound, RunRec
        <2>2. \A n \in Node : \A e \in In(n) : e.from # None
            BY <1>1, RunFacts, GraphFacts DEF In
        <2> QED BY <2>1, <2>2 DEF JoinsOK, NoJoinForgotten
    <1> QED BY <1>1, EngineInvariant, PTL

\* A condition or an error handler never activates the branches of two keys.
THEOREM BranchesCorrect == Plain => (Spec => []OneBranchTaken)
    <1> SUFFICES ASSUME Plain PROVE Spec => []OneBranchTaken
        OBVIOUS
    <1>1. ASSUME EngineInv PROVE OneBranchTaken
        <2>1. BranchesOK(run)
            BY <1>1, RunFacts DEF Sound
        <2> QED BY <2>1 DEF BranchesOK, OneBranchTaken
    <1> QED BY <1>1, EngineInvariant, PTL

\* A run that has ended was announced, also when a stale call stored its end.
THEOREM EndsAnnounced == Plain => (Spec => []EndAnnounced)
    <1> SUFFICES ASSUME Plain PROVE Spec => []EndAnnounced
        OBVIOUS
    <1>1. EngineInv => EndAnnounced
        BY RunFacts DEF EndAnnounced
    <1> QED BY <1>1, EngineInvariant, PTL
================================================================================
