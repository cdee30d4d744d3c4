------------------------------ MODULE MCWorkflow ------------------------------
(***************************************************************************)
(* Workflow graphs for TLC: the smallest ones in which each kind of node   *)
(* has something to decide.                                                *)
(***************************************************************************)
EXTENDS WorkflowEngine, TLC

Edge(from, key, to) == [from |-> from, key |-> key, to |-> to]
Config(mode, count) == [mode |-> mode, count |-> count, targets |-> {}]
Sync == Config("sync", 0)
Graph(type, config, edges) ==
    [nodes |-> DOMAIN type, type |-> type, edges |-> edges,
     config |-> [n \in DOMAIN type |-> IF n \in DOMAIN config THEN config[n] ELSE Sync]]

\* A race of two branches, one a step longer, that meet in a join of all.
RaceGraph ==
    Graph(("s" :> "parallel-split" @@ "a" :> "transform" @@ "b" :> "quality-gate"
             @@ "c" :> "transform" @@ "j" :> "parallel-join"),
          ("s" :> Config("race", 0) @@ "j" :> Config("all", 0)),
          { Edge("s", "x", "a"), Edge("s", "y", "b"), Edge("b", None, "c"),
            Edge("a", None, "j"), Edge("c", None, "j") })

\* Three entry nodes, two of which a join requires.
ForkGraph ==
    Graph(("a" :> "transform" @@ "d" :> "transform" @@ "c" :> "model-call"
             @@ "j" :> "parallel-join"),
          ("j" :> Config("n-of-m", 2)),
          { Edge("a", None, "j"), Edge("d", None, "j"), Edge("c", None, "j") })

\* Two tools, one in the background, before an error handler.
ToolGraph ==
    Graph(("t" :> "tool-execution" @@ "u" :> "tool-execution" @@ "h" :> "error-handler"),
          ("u" :> Config("async-batch", 0) @@ "h" :> Config("upstream", 0)),
          { Edge("t", None, "h"), Edge("u", None, "h") })

\* A condition whose branches, one a human decision, meet again.
BranchGraph ==
    Graph(("q" :> "condition" @@ "x" :> "transform" @@ "y" :> "human-decision"
             @@ "z" :> "transform"),
          << >>,
          { Edge("q", "true", "x"), Edge("q", "false", "y"),
            Edge("x", None, "z"), Edge("y", None, "z") })

\* A loop of one body node.
LoopGraph ==
    Graph(("l" :> "loop" @@ "b" :> "transform" @@ "x" :> "transform"),
          ("l" :> Config("backoff", 2)),
          { Edge("l", "loop", "b"), Edge("l", "exit", "x") })

MCGraphs == {RaceGraph, ForkGraph, ToolGraph, BranchGraph, LoopGraph}
MCBranchGraphs == {BranchGraph}
MCLoopGraphs == {LoopGraph}
==============================================================================
