---------------------------- MODULE MCScheduling ----------------------------
(***************************************************************************)
(* Small instances of Scheduling for TLC: two processes, one object they   *)
(* wait on, one queue an interrupt wakes.                                  *)
(***************************************************************************)
EXTENDS Scheduling, TLC

Symmetry == Permutations(Process)
=============================================================================
