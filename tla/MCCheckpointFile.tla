-------------------------- MODULE MCCheckpointFile --------------------------
(***************************************************************************)
(* Saves are interchangeable: they differ only in when they are called.    *)
(***************************************************************************)
EXTENDS CheckpointFile, TLC

Symmetry == Permutations(Saves)
=============================================================================
