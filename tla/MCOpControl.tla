----------------------------- MODULE MCOpControl -----------------------------
(***************************************************************************)
(* Instances of OpControl for TLC.  The envelopes are chosen so that       *)
(* commands meet in every way: two sessions, a repeated id, a repeated     *)
(* nonce, out-of-order sequence numbers, all effects on the control state, *)
(* a T0 command, and a scope that names its targets.                       *)
(***************************************************************************)
EXTENDS OpControl, TLC

CONSTANTS s1, s2, s3, p1

Cmd(id, nonce, session, seq, action, targets) ==
    [id |-> id, nonce |-> nonce, session |-> session, seq |-> seq,
     action |-> action, project |-> p1, targets |-> targets,
     expires_at |-> IF id = "c1" THEN "soon" ELSE "later"]

MCEnvelope == {
    Cmd("c1", "n1", "x", 1, "hard_stop", {}),
    Cmd("c2", "n2", "x", 2, "resume", {}),
    Cmd("c3", "n3", "y", 1, "pause", {"t1"}),
    Cmd("c4", "n3", "y", 2, "retry", {}) }

MCFewEnvelope == {
    Cmd("c1", "n1", "x", 1, "pause", {}),
    Cmd("c2", "n2", "y", 1, "retry", {}) }

\* The commands of a system without projects: no effect on the control state,
\* all of the arbitration.
MCNoProjectEnvelope ==
    { [e EXCEPT !.project = None, !.targets = {"t1"}] :
        e \in { Cmd("c1", "n1", "x", 1, "hard_stop", {}),
                Cmd("c2", "n2", "y", 1, "retry", {}) } }

SubmissionSymmetry == Permutations(Submission)
==============================================================================
