----------------------------- MODULE MCLocator -----------------------------
(* The ALL worker, its persister and one range query on a few keys. *)
EXTENDS Locator
=============================================================================
