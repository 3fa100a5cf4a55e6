------------------------------- MODULE MCAudit -------------------------------
(* Audit on a small instance. *)
EXTENDS Audit
=============================================================================
