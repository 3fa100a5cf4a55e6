---------------------------- MODULE MCForestAudit ----------------------------
(* ForestAudit on small instances. *)
EXTENDS ForestAudit

\* Two shards in one region, one in another.
TwoRegions == {<<0, 0>>, <<0, 1>>, <<2, 0>>}
=============================================================================
