-------------------------- MODULE MCLocatorLookup --------------------------
(* The locator's tree and range queries on seven keys. *)
EXTENDS LocatorLookup
=============================================================================
