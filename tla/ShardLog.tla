------------------------------ MODULE ShardLog ------------------------------
(***************************************************************************)
(* What ingestion promises for one shard: an append-only list of segments. *)
(* A segment holds between 1 and MaxSegmentLeaves logs, and a log is in    *)
(* one segment, once.                                                      *)
(***************************************************************************)
EXTENDS Naturals, Sequences, Functions

CONSTANTS Logs, MaxSegmentLeaves

VARIABLE segments

Segments == {s \in UNION {[1..n -> Logs] : n \in 1..MaxSegmentLeaves} : IsInjective(s)}

Init == segments = <<>>

Seal(seg) ==
    /\ \A i \in DOMAIN segments : Range(segments[i]) \cap Range(seg) = {}
    /\ segments' = Append(segments, seg)

Next == \E seg \in Segments : Seal(seg)

Spec == Init /\ [][Next]_segments
=============================================================================
