------------------------------ MODULE DispatchOnce ------------------------------
(***************************************************************************)
(* What an ingress gateway promises of each idempotency key, whatever is   *)
(* delivered, and however often: one delivery at a time works on the key,  *)
(* it starts at most one run, and once a delivery was answered             *)
(* 'accepted_dispatched' no run is started for the key again.  A delivery  *)
(* that is rejected or throws gives the key up; if it had started its run  *)
(* before it failed, the run is not undone.                                *)
(***************************************************************************)
EXTENDS Naturals

CONSTANT Key

VARIABLES
  phase,   \* phase[k]: what is being done about k
  runs     \* runs[k]: runs started for k

onceVars == <<phase, runs>>

OnceInit ==
  /\ phase = [k \in Key |-> "free"]
  /\ runs = [k \in Key |-> 0]

\* Only k moves, from one of the phases in "from".
Move(k, from, to) ==
  /\ phase[k] \in from
  /\ phase'[k] = to
  /\ phase' = [phase EXCEPT ![k] = to]

Claim(k) == Move(k, {"free"}, "held") /\ UNCHANGED runs

StartRun(k) ==
  /\ Move(k, {"held"}, "started")
  /\ runs' = [runs EXCEPT ![k] = @ + 1]

GiveUp(k) == Move(k, {"held", "started"}, "free") /\ UNCHANGED runs

Accept(k) == Move(k, {"started"}, "accepted") /\ UNCHANGED runs

OnceNext == \E k \in Key : Claim(k) \/ StartRun(k) \/ GiveUp(k) \/ Accept(k)

OnceSpec == OnceInit /\ [][OnceNext]_onceVars

================================================================================
