---------------------------- MODULE MCTaskQueue ----------------------------
(* Small instances of TaskQueue.                                           *)
EXTENDS TaskQueue, TLC

Symmetry == Permutations(Tasks) \cup Permutations(Instances)
=============================================================================
