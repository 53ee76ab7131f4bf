------------------------------- MODULE Permit -------------------------------
(***************************************************************************)
(* What a team may believe of the permission prompts on one machine: what  *)
(* the agent there was told, on whose answer, and what the board says of   *)
(* it.  No channel, no timer, no retry, nothing on disk: Approval.tla is   *)
(* shown to implement it.  The board and the machine move on their own,    *)
(* and many prompts may move at once (the owner disconnects, the app       *)
(* dies), so a step is a relation that holds for each prompt.              *)
(***************************************************************************)
CONSTANTS Cards, Calls, Editors, Owner, Nobody

VARIABLES
  told,   \* what the agent was told
  who,    \* whose answer that was
  call,   \* the tool call each prompt asks for
  board   \* what the team sees: a status, and the answer it is about

vars == <<told, who, call, board>>

Live == {"open", "answered", "held"}

Init ==
  /\ told = [c \in Cards |-> "none"]
  /\ who = [c \in Cards |-> Nobody]
  /\ call = [c \in Cards |-> {}]
  /\ board = [c \in Cards |-> [status |-> "none", by |-> Nobody, decision |-> ""]]

-----------------------------------------------------------------------------
(* The machine. *)

\* The agent asks.  It waits for an answer only if nothing else was, or is being,
\* asked or allowed for the same tool call.
Asks(c) ==
  /\ told[c] = "none" /\ who'[c] = who[c]
  /\ \E k \in Calls : call'[c] = {k}
  /\ \/ told'[c] = "denied"
     \/ /\ told'[c] = "asking"
        /\ \A b \in Cards \ {c} : call'[b] = call'[c] => told'[b] \notin {"asking", "allowed"}

\* The owner answers at the machine, or nobody does in time.
Decided(c) ==
  /\ told[c] = "asking" /\ call'[c] = call[c]
  /\ \/ who'[c] = Owner /\ told'[c] \in {"allowed", "denied"}
     \/ who'[c] = Nobody /\ told'[c] = "denied"

\* An Editor's answer is applied: the one on the board, or one whose outcome the board
\* no longer claims to know.
DecidedFor(c, e) ==
  /\ told[c] = "asking" /\ call'[c] = call[c]
  /\ who'[c] = e /\ told'[c] \in {"allowed", "denied"}
  /\ \/ /\ board[c].status = "answered" /\ board[c].by = e
        /\ told'[c] = IF board[c].decision = "allow" THEN "allowed" ELSE "denied"
     \/ board[c].status \in {"unknown", "forgotten"}

Machine(c) ==
  \/ told'[c] = told[c] /\ who'[c] = who[c] /\ call'[c] = call[c]
  \/ Asks(c) \/ Decided(c) \/ \E e \in Editors : DecidedFor(c, e)

-----------------------------------------------------------------------------
(* The board. *)

\* An Editor's answer is accepted, or set aside, or the card given up, only as long as
\* no Editor's answer has been applied.
Moves(c) ==
  /\ who'[c] \notin Editors
  /\ \/ board[c].status = "open" /\ board'[c].status = "answered" /\ board'[c].by \in Editors
     \/ board[c].status = "answered" /\ board'[c].status \in {"open", "held"}
     \/ board[c].status \in Live /\ board'[c].status = "expired"

\* An outcome is what happened, credited to who made it happen.
Settles(c) ==
  /\ board[c].status \in Live
  /\ \/ board'[c].status = "approved" /\ told'[c] = "allowed"
     \/ board'[c].status = "denied" /\ told'[c] = "denied"
  /\ board'[c].by = who'[c]

Board(c) ==
  \/ board'[c] = board[c]
  \/ board[c].status = "none" /\ board'[c].status = "open"
  \/ Moves(c) \/ Settles(c)
  \/ board[c].status \in Live \cup {"approved"} /\ board'[c].status = "unknown"
  \/ board'[c].status = "forgotten"

Next == \A c \in Cards : Machine(c) /\ Board(c)

Spec == Init /\ [][Next]_vars
-----------------------------------------------------------------------------
\* What follows from it: outcomes on the board are true, `expired' means that no
\* Editor's answer was applied, and a tool call is allowed once.
Truthful ==
  /\ \A c \in Cards :
       /\ board[c].status = "approved" => told[c] = "allowed" /\ who[c] = board[c].by
       /\ board[c].status = "denied" => told[c] = "denied" /\ who[c] = board[c].by
       /\ board[c].status = "expired" => who[c] \notin Editors
  /\ \A b, c \in Cards :
       told[b] = "allowed" /\ told[c] = "allowed" /\ call[b] = call[c] => b = c
=============================================================================
