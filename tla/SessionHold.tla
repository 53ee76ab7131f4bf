---------------------------- MODULE SessionHold ----------------------------
(***************************************************************************)
(* What the hub promises about taking over ONE running session: requests  *)
(* compete for it, at most one of them holds it at a time, a hold either   *)
(* lapses or is won, and a won session is never given to anyone else.      *)
(* No clock, no channel, no desktop: Takeover.tla is shown to implement it.*)
(***************************************************************************)
CONSTANT Reqs

VARIABLE outcome

Outcomes == {"new", "holding", "over", "won"}

Init == outcome = [r \in Reqs |-> "new"]

\* A request takes the session; a holder that has let its hold lapse loses it.
Hold(r) ==
  /\ outcome[r] = "new"
  /\ \A s \in Reqs : outcome[s] # "won"
  /\ outcome' = [s \in Reqs |-> IF s = r THEN "holding"
                                ELSE IF outcome[s] = "holding" THEN "over"
                                ELSE outcome[s]]

\* A request that never holds the session: someone else does, or nobody can.
Miss(r) ==
  /\ outcome[r] = "new"
  /\ outcome' = [outcome EXCEPT ![r] = "over"]

GiveUp(r) ==
  /\ outcome[r] = "holding"
  /\ outcome' = [outcome EXCEPT ![r] = "over"]

Win(r) ==
  /\ outcome[r] = "holding"
  /\ outcome' = [outcome EXCEPT ![r] = "won"]

Next == \E r \in Reqs : Hold(r) \/ Miss(r) \/ GiveUp(r) \/ Win(r)

Spec == Init /\ [][Next]_outcome
=============================================================================
