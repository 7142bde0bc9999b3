---------------------------- MODULE MCTaskQueue ----------------------------
(***************************************************************************)
(* Instances of TaskQueue for TLC: the cfg files give the sets and flags.  *)
(***************************************************************************)
EXTENDS TaskQueue, TLC

Symmetry == Permutations(Workers) \cup Permutations(Callers)
=============================================================================
