------------------------------ MODULE MCUpdater ------------------------------
(* Small instances of Updater for TLC. *)
EXTENDS Updater, TLC

CONSTANTS u1, u2, f1, f2, a, b, c

\* Release 2 changes both files; release 3 takes one back and changes the other.
MCBuild == <<[f \in Files |-> a], [f \in Files |-> b], [f \in Files |-> IF f = f1 THEN a ELSE c]>>
=============================================================================
