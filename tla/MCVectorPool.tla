---------------------------- MODULE MCVectorPool ----------------------------
(* VectorPool with interchangeable workers. *)
EXTENDS VectorPool, TLC

WorkerSymmetry == Permutations(Workers)
=============================================================================
