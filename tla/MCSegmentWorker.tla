-------------------------- MODULE MCSegmentWorker --------------------------
(* SegmentWorker on small instances. *)
EXTENDS SegmentWorker, TLC

\* Workers and logs are interchangeable.
Symmetry == Permutations(Workers) \cup Permutations(Logs)
=============================================================================
