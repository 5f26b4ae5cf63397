--------------------------- MODULE MCProcessManager ---------------------------
(***************************************************************************)
(* Small instances of ProcessManager for TLC: two process slots            *)
(* that are used again, and an object that processes wait on.              *)
(***************************************************************************)
EXTENDS ProcessManager, TLC

Symmetry == Permutations(Process)
===============================================================================
