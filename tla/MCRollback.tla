----------------------------- MODULE MCRollback -----------------------------
(* Rollback for TLC: its instances are numbers only. *)
EXTENDS Rollback
=============================================================================
