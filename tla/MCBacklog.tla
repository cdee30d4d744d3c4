------------------------------ MODULE MCBacklog ------------------------------
(***************************************************************************)
(* Instances of Backlog for TLC.                                           *)
(***************************************************************************)
EXTENDS Backlog, TLC

\* e3 is of higher priority; e2 and e3 were accepted at the same instant.
MCRank == [e \in Entry |-> IF e = "e3" THEN 2 ELSE 1]
MCAcceptedAt == [e \in Entry |-> IF e = "e1" THEN 1 ELSE 2]
==============================================================================
