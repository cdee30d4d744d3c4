------------------------------ MODULE MCWitness ------------------------------
(***************************************************************************)
(* A small instance of WitnessLedger: two writers, a checkpoint due after  *)
(* every second event.                                                     *)
(***************************************************************************)
EXTENDS WitnessLedger, TLC

CONSTANTS w1, w2

TwoWriters == {w1, w2}
WriterSymmetry == Permutations(TwoWriters)
=============================================================================
