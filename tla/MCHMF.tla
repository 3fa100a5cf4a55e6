------------------------------- MODULE MCHMF -------------------------------
(* HMF on small instances. *)
EXTENDS HMF
=============================================================================
