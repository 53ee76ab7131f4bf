----------------------------- MODULE MCAccounts -----------------------------
(* Instances of Accounts for TLC. *)
EXTENDS Accounts, TLC

User(provider, login, id, emails, public, domain) ==
  [provider |-> provider, login |-> login, id |-> id, emails |-> emails,
   public |-> public, domain |-> domain]

\* Ann signs in from Masora and with a GitHub account of the same address, which GitHub
\* may withhold; Bob's Google id is the number of Ann's GitHub one.
AnnHub  == User("github", "ann", "2", {"ann@x"}, {"ann@x"}, FALSE)
AnnBare == User("github", "ann", "2", {}, {"ann@x"}, FALSE)
AnnMas  == User("google", "ann@x", "m1", {"ann@x"}, {}, TRUE)
Bob     == User("google", "bob@x", "2", {"bob@x"}, {}, TRUE)

Humans == [x \in {"ann@x", "ann", "bob@x"} |-> IF x = "bob@x" THEN "Bob" ELSE "Ann"]

Invite(provider, login, mail) == [provider |-> provider, login |-> login, mail |-> mail]

TeamUsers    == {AnnBare, AnnHub, Bob}
TeamGuests   == {AnnMas}
TeamInvitees == {Invite("google", "bob@x", "bob@x"), Invite("github", "ann", "ann@x")}
TeamIds      == {"2", "m1"}
TeamLogins   == {"ann@x", "ann", "bob@x"}
TeamMails    == {"ann@x", "bob@x"}

ASSUME Honest == HonestUsers

Slots == Permutations(Rows) \cup Permutations(Tokens) \cup Permutations(Keys)
=============================================================================
