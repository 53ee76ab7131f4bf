----------------------------- MODULE MCApproval -----------------------------
(* Small instances of Approval for TLC. *)
EXTENDS Approval

CONSTANTS c1, c2, e1, e2, k1
=============================================================================
