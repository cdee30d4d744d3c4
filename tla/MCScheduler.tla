------------------------------ MODULE MCScheduler ------------------------------
(* Instance of Scheduler: a schedule and an event source. *)
EXTENDS Scheduler, TLC

CONSTANTS c1, c2, cal, ev

MCTrigger == {1, Cron}
MCKey == ({cal} \X {1, 2}) \cup {<<ev, 1>>}
MCEvent == {<<ev, 1>>}
Callers == Permutations({c1, c2})
================================================================================
