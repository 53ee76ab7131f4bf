------------------------------- MODULE MCRuns -------------------------------
(* Small instances of Runs for TLC. *)
EXTENDS Runs

CONSTANTS r1, r2
=============================================================================
