----------------------------- MODULE MCTakeover -----------------------------
(* Small instances of Takeover for TLC. *)
EXTENDS Takeover, TLC

CONSTANTS bob, carol, dave,              \* people; the session is bob's
          bobDesk, carolDesk, carolDesk2, daveDesk,
          r1, r2, r3

MCPersonOf == [d \in Desks |-> CASE d = bobDesk -> bob
                                 [] d = daveDesk -> dave
                                 [] OTHER -> carol]

\* r1 and r3 are carol's, r2 is dave's.
MCSentFrom == [r \in Reqs |-> IF r = r2 THEN daveDesk ELSE carolDesk]

\* Requests of one taker are interchangeable.
SameTaker == Permutations(Reqs)
=============================================================================
