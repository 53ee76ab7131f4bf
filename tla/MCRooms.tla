------------------------------- MODULE MCRooms -------------------------------
(* Small instances of Rooms for TLC. *)
EXTENDS Rooms, TLC
CONSTANTS c1, c2, e1, e2, a, b
\* Clients and rooms are interchangeable; connections are numbered.
Symmetry == Permutations(Clients) \cup Permutations(RoomNames)
=============================================================================
