------------------------------ MODULE MCSteers ------------------------------
(* Small instances of Steers: a steer and two spawns, on one or two desktops. *)
EXTENDS Steers

CONSTANTS steer, spawn1, spawn2, desk1, desk2
=============================================================================
