---------------------------- MODULE MCCheckpoint ----------------------------
(* Checkpoint on small instances. *)
EXTENDS Checkpoint, TLC

\* Callers and root pairs are interchangeable.
Symmetry == Permutations(Callers) \cup Permutations(Snapshots)
=============================================================================
