-------------------------- MODULE MCHMFPersistence --------------------------
(* HMFPersistence on small instances. *)
EXTENDS HMFPersistence
=============================================================================
