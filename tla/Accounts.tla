------------------------------ MODULE Accounts ------------------------------
(***************************************************************************)
(* Who is on a team (class Accounts of hub/accounts.mjs), with the routes  *)
(* of hub/server.mjs that call it: signing in through a provider or from   *)
(* Masora, linking a second account, invites and invite keys, removal,     *)
(* roles, combining two rows, signing out.                                 *)
(*                                                                         *)
(* A person is a row: a set of identities, one of them primary.  An        *)
(* identity without an id is an invite nobody has accepted.  Rows are      *)
(* numbered slots; where the code takes the first of several matching      *)
(* rows, any of them is taken here.  What a handler does after its last    *)
(* await is one step, and it has saved the file by then.  Names,           *)
(* credentials, policies, presence and the mail sent to invitees are left  *)
(* out.                                                                    *)
(***************************************************************************)
EXTENDS Naturals, FiniteSets

CONSTANTS
  Users,       \* what a provider can say of who signs in: provider, login, id, verified
               \* emails, the public ones, whether the Workspace is the team's own
  Guests,      \* what Masora can say of who signs in ("domain": a workspace admin)
  Invitees,    \* what the owner can type: provider, login and the address found for it
  Pending,     \* the id of an identity nobody has signed in with ("")
  Ids, Logins, Mails,
  Rows,        \* bound: slots for people
  Tokens,      \* bound: sessions open at one time
  Keys,        \* bound: invite keys minted in a behaviour; also the ids "key-..."
  Roles,       \* the roles the owner can give
  Ops,         \* which of "combine", "revoke", "unlink", "quit" can happen
  HumanOf,     \* the human behind a login: what the properties are about
  NoRow, NoKey, NoMail, NoSession, NoToken, NoLink

Providers == {"github", "google"}
Editor == 3                 \* viewer 1, commenter 2, editor 3

Handles == [provider : Providers, login : Logins, id : Ids \cup Keys \cup {Pending}]
Identities == [provider : Providers, login : Logins, id : Ids \cup Keys \cup {Pending},
               emails : SUBSET Mails]
Persons == [ids : SUBSET Identities, prim : Handles, role : 1..3,
            key : Keys \cup {NoKey}, mail : Mails \cup {NoMail}]
Claimants == [provider : Providers, login : Logins, id : Ids, emails : SUBSET Mails,
              public : SUBSET Mails, domain : BOOLEAN]

Links == [by : Providers, token : Tokens \cup {NoToken}, who : Handles]

ASSUME AccountsAssumption ==
  /\ Users \subseteq Claimants
  /\ Guests \subseteq {u \in Claimants : u.provider = "google" /\ u.emails = {u.login}}
  /\ Invitees \subseteq [provider : Providers, login : Logins, mail : Mails \cup {NoMail}]
  /\ Ids \cap Keys = {} /\ Pending \notin Ids \cup Keys
  /\ NoRow \notin Rows /\ NoRow \notin Persons /\ NoKey \notin Keys
  /\ NoSession \notin Handles /\ NoToken \notin Tokens
  /\ NoLink \notin Links
  /\ Roles \subseteq 1..3

VARIABLES
  rows,      \* slot -> person, or NoRow
  owner,     \* the slot of state.owner, or NoRow
  blocked,   \* state.blocked, by handle
  sessions,  \* token -> the primary its session was opened under, or NoSession
  minted,    \* keys minted so far
  expired,   \* keys older than INVITE_KEY_TTL_MS
  linking    \* a link under way: its provider, its session, and the token it follows

vars == <<rows, owner, blocked, sessions, minted, expired, linking>>

-----------------------------------------------------------------------------
(* People and what is known of them.                                       *)

People == {r \in Rows : rows[r] # NoRow}
Real(i) == i.id # Pending
SameIdAnywhere(i, j) == Real(i) /\ i.id = j.id
SameId(i, j) == Real(i) /\ i.id = j.id /\ i.provider = j.provider
HandleOf(i) == [provider |-> i.provider, login |-> i.login, id |-> i.id]

\* A Google login is an address Google has verified; a redeemed key proves nothing.
Evidence(i) == IF i.provider = "google" /\ i.id \in Ids THEN {i.login} ELSE {}
EmailsOf(p) == UNION {i.emails \cup Evidence(i) : i \in p.ids}

SignedIn(p) == \E i \in p.ids : Real(i)
Owns(p, x) == \E i \in p.ids : SameId(i, x)
PersonOf(x) == {r \in People : Owns(rows[r], x)}
PendingFor(provider, logins) ==
  {r \in People : \E i \in rows[r].ids :
                    ~Real(i) /\ i.provider = provider /\ i.login \in logins}
ByEmail(emails) == {r \in People : SignedIn(rows[r]) /\ EmailsOf(rows[r]) \cap emails # {}}
Named(login) == {r \in People : \E i \in rows[r].ids : i.login = login}
Blocked(x) == \E b \in blocked : SameId(b, x)

\* A session the hub accepts is somebody's.
Live(t) == sessions[t] # NoSession /\ PersonOf(sessions[t]) # {}

\* Whether a call is the owner's is decided from the session it came with, read before
\* the call waits for its body and, to invite, for GitHub.  Any number of calls may have
\* been waiting since the owner came in, so when one acts no more is known than that
\* there is an owner; their session may have ended.
OwnerAsked == owner # NoRow

-----------------------------------------------------------------------------
(* Adopting an identity, and folding rows together.                        *)

\* An invite u has proved it holds: for its own login, or for an address of its.
Proves(u, i) ==
  /\ ~Real(i)
  /\ \/ i.provider = u.provider /\ i.login = u.login
     \/ /\ i.provider = "google"
        /\ i.login \in u.emails \cup (IF u.provider = "github" THEN u.public ELSE {})

Identity(u) == [provider |-> u.provider, login |-> u.login, id |-> u.id, emails |-> u.emails]
NewPerson(u) ==
  [ids |-> {Identity(u)}, prim |-> HandleOf(u), role |-> Editor, key |-> NoKey, mail |-> NoMail]

Adopted(p, u) ==
  LET kept == {i \in p.ids : ~Proves(u, i)}
      held == {i \in kept : SameId(i, u)}
  IN  [p EXCEPT !.ids = IF held = {} THEN kept \cup {Identity(u)}
                        ELSE (kept \ held) \cup {[i EXCEPT !.emails = @ \cup u.emails] : i \in held},
                !.prim = IF Real(@) THEN @ ELSE HandleOf(u)]

GreatestRole(ps) == CHOOSE n \in {p.role : p \in ps} : \A p \in ps : n >= p.role
LeastRole(ps) == CHOOSE n \in {p.role : p \in ps} : \A p \in ps : n <= p.role
\* What is left of keep once the people in gone are folded into it.  A key is kept
\* while nobody has signed in; the owner has no role to lose.
Whole(keep, gone, owns) ==
  IF gone = {} THEN keep
  ELSE LET seated == {p \in {keep} \cup gone : Real(p.prim)}
           keyed  == {p \in {keep} \cup gone : p.key # NoKey}
           first(ps) == IF keep \in ps THEN keep ELSE CHOOSE p \in ps : TRUE
       IN  [keep EXCEPT
              !.ids  = @ \cup UNION {p.ids : p \in gone},
              !.prim = IF seated = {} THEN @ ELSE first(seated).prim,
              !.role = IF owns THEN @ ELSE LeastRole({keep} \cup gone),
              !.key  = IF seated # {} \/ keyed = {} THEN NoKey ELSE first(keyed).key]

KinInvites(done, p, u) ==
  {o \in People \ done : ~SignedIn(rows[o]) /\ \E i \in rows[o].ids : Proves(u, i)}
\* The rows, but those already done, that p's proven addresses say are the same human.
Kin(done, p, u) ==
  {o \in People \ done :
     IF SignedIn(rows[o]) THEN EmailsOf(rows[o]) \cap EmailsOf(p) # {}
     ELSE \E i \in rows[o].ids :
            Proves(u, i) \/ (i.provider = "google" /\ i.login \in EmailsOf(p))}
\* Invites for an address of one of those: found only if met after it.
InLaws(done, kin) ==
  {o \in People \ (done \cup kin) :
     /\ ~SignedIn(rows[o])
     /\ \E i \in rows[o].ids, k \in kin : i.provider = "google" /\ i.login \in EmailsOf(rows[k])}

\* The owner's row survives if it is one of those folded together.
Survivor(r, fold) == IF owner \in fold THEN owner ELSE r
\* Sessions opened under any of the old primaries belong to the survivor's.
RepointedNot(olds, prim) == sessions
Repointed(olds, prim) ==
  [t \in Tokens |-> IF sessions[t] # NoSession /\ (\E o \in olds : SameId(sessions[t], o))
                    THEN prim ELSE sessions[t]]
\* A link by GitHub's device flow holds its session: it follows it, and keeps it when it
\* ends.  One through a browser keeps a copy and follows nothing.
FollowedStale(ss) ==
  IF linking = NoLink \/ linking.token = NoToken THEN linking
  ELSE [linking EXCEPT !.who = ss[linking.token]]
Followed(ss) ==
  IF linking = NoLink \/ linking.token = NoToken THEN linking
  ELSE IF ss[linking.token] = NoSession THEN [linking EXCEPT !.token = NoToken]
  ELSE [linking EXCEPT !.who = ss[linking.token]]

\* In the rows rs, row r becomes p, which the rows in gone are part of already, and
\* those in fold join it; then a session opens under the survivor if one is due.
Settle(rs, r, p, gone, fold, open) ==
  LET s     == Survivor(r, fold)
      all   == {r} \cup gone \cup fold
      at(x) == IF x = r THEN p ELSE rs[x]
      whole == Whole(at(s), {at(x) : x \in (({r} \cup fold) \ {s})}, s = owner)
      olds  == IF all = {r} THEN {} ELSE {p.prim} \cup {rs[x].prim : x \in all \cap People}
      moved == Repointed(olds, whole.prim)
  IN  /\ rows' = [x \in Rows |-> IF x = s THEN whole ELSE IF x \in all THEN NoRow ELSE rs[x]]
      /\ owner' = IF owner = NoRow THEN s ELSE owner
      /\ IF open
         THEN \E t \in Tokens :
                sessions[t] = NoSession /\ sessions' = [moved EXCEPT ![t] = whole.prim]
         ELSE sessions' = moved

Adopt(rs, r, p, u, gone, open) ==
  LET done == {r} \cup gone
      kin  == Kin(done, p, u)
  IN  \E fold \in SUBSET (kin \cup InLaws(done, kin)) :
        kin \subseteq fold /\ Settle(rs, r, p, gone, fold, open)

-----------------------------------------------------------------------------
Init ==
  /\ rows = [r \in Rows |-> NoRow] /\ owner = NoRow /\ blocked = {}
  /\ sessions = [t \in Tokens |-> NoSession]
  /\ minted = {} /\ expired = {} /\ linking = NoLink

Welcome(u) ==
  \/ PersonOf(u) # {}
  \/ PendingFor(u.provider, {u.login}) # {}
  \/ ByEmail(u.emails) # {} \/ PendingFor("google", u.emails) # {}
  \/ /\ u.provider = "github"
     /\ \E r \in People : /\ ~Real(rows[r].prim) /\ rows[r].prim.provider = "google"
                          /\ rows[r].prim.login \in u.public
  \/ u.provider = "google" /\ u.domain

\* The removed are refused first, by every door.
MayEnterAnyone(u) == owner = NoRow \/ Welcome(u)
MayEnter(u) == ~Blocked(u) /\ (owner = NoRow \/ Welcome(u))

Else(a, b) == IF a # {} THEN a ELSE b
\* The row a sign-in takes: the person's, the one its addresses prove, the invite
\* it answers, or a new one.
SeatByAddress(u) ==
  Else(ByEmail(u.emails), Else(PendingFor(u.provider, {u.login}), Rows \ People))
Seat(u) ==
  Else(PersonOf(u),
  Else(ByEmail(u.emails),
  Else(PendingFor(u.provider, {u.login}),
  Else(PendingFor("google", u.emails),
  Else(IF u.provider = "github" THEN PendingFor("google", u.public) ELSE {},
       Rows \ People)))))

Enter(rs, u) ==
  \E r \in Seat(u) :
    Adopt(rs, r, IF r \in People THEN Adopted(rs[r], u) ELSE NewPerson(u), u, {}, TRUE)

SignIn(u) ==
  /\ MayEnter(u) /\ Enter(rows, u)
  /\ linking' = Followed(sessions') /\ UNCHANGED <<blocked, minted, expired>>

SignInMasora(u) ==
  /\ ~Blocked(u) /\ (owner = NoRow => u.domain)
  /\ Enter(rows, u)
  /\ linking' = Followed(sessions') /\ UNCHANGED <<blocked, minted, expired>>

\* A key is used up whatever follows, and who holds it has proved no address.
SpentLate(r) == rows
Spent(r) == [rows EXCEPT ![r].key = NoKey]
Redeem(k) ==
  \E r \in People :
    /\ rows[r].key = k
    /\ IF k \in expired THEN rows' = Spent(r) /\ UNCHANGED <<owner, sessions>>
       ELSE Enter(Spent(r), [provider |-> rows[r].prim.provider, login |-> rows[r].prim.login,
                             id |-> k, emails |-> {}, public |-> {}, domain |-> FALSE])
    /\ linking' = Followed(sessions')
    /\ UNCHANGED <<blocked, minted, expired>>

\* Linking: the session is read first, the provider proves the account later, and
\* only its own human can prove it.  (Bound: who has no such account does not begin.)
HumansOf(p) == {HumanOf[i.login] : i \in p.ids}
Unpublished(u) == [u EXCEPT !.public = {}]

LinkStart(t, provider) ==
  /\ linking = NoLink /\ Live(t)
  /\ \E me \in PersonOf(sessions[t]), u \in Users :
       u.provider = provider /\ HumanOf[u.login] \in HumansOf(rows[me])
  /\ linking' = [by |-> provider, token |-> IF provider = "github" THEN t ELSE NoToken,
                 who |-> sessions[t]]
  /\ UNCHANGED <<rows, owner, blocked, sessions, minted, expired>>

LinkFinish(u) ==
  /\ linking # NoLink /\ linking.by = u.provider /\ ~Blocked(u)
  /\ \E me \in PersonOf(linking.who) :
       /\ ~Owns(rows[me], u)
       /\ HumanOf[u.login] \in HumansOf(rows[me])
       /\ LET other == PersonOf(u)
              s     == Survivor(me, other)
              gone  == ({me} \cup other) \ {s}
              p     == Whole(rows[s], {rows[x] : x \in gone}, s = owner)
              w     == Unpublished(u)
          IN  Adopt(rows, s, Adopted(p, w), w, gone, FALSE)
  /\ linking' = NoLink /\ UNCHANGED <<blocked, minted, expired>>

LinkDropped == linking # NoLink /\ linking' = NoLink
               /\ UNCHANGED <<rows, owner, blocked, sessions, minted, expired>>

\* The session's person gives up an identity, never the only real one.
Unlink(t, provider, login) ==
  /\ "unlink" \in Ops /\ Live(t)
  /\ \E me \in PersonOf(sessions[t]) :
       LET p    == rows[me]
           real == {i \in p.ids : Real(i)}
           asked == {i \in real : i.provider = provider /\ i.login = login}
       IN  \E gone \in asked :
             /\ Cardinality(real) >= 2
             /\ (\E i \in asked : SameId(i, p.prim)) => SameId(gone, p.prim)
             /\ \E next \in real \ {gone} :
                  LET prim == IF SameId(gone, p.prim) THEN HandleOf(next) ELSE p.prim IN
                  /\ rows' = [rows EXCEPT ![me].ids = @ \ {gone}, ![me].prim = prim]
                  /\ sessions' = IF prim.login = p.prim.login THEN sessions
                                 ELSE Repointed({p.prim}, prim)
  /\ linking' = Followed(sessions')
  /\ UNCHANGED <<owner, blocked, minted, expired>>

-----------------------------------------------------------------------------
(* What the owner does.                                                    *)

\* inviteKey: an invite whose login this is gets a fresh key, replacing its last.
Keyed(rs, login) ==
  LET waiting == {r \in Rows : rs[r] # NoRow /\ ~Real(rs[r].prim) /\ rs[r].prim.login = login} IN
  IF waiting = {} THEN rows' = rs /\ UNCHANGED minted
  ELSE \E r \in waiting, k \in Keys \ minted :
         rows' = [rs EXCEPT ![r].key = k] /\ minted' = minted \cup {k}

Allow(v) ==
  LET known == {r \in People : rows[r].prim.provider = v.provider /\ rows[r].prim.login = v.login}
      mailed == {r \in People : ~Real(rows[r].prim) /\ rows[r].mail = v.mail /\ v.mail # NoMail}
      unused == Rows \ People
      invite == [provider |-> v.provider, login |-> v.login, id |-> Pending]
  IN  /\ OwnerAsked
      /\ \E r \in Else(known, Else(mailed, unused)) :
           IF r \in unused
           THEN /\ blocked' = {b \in blocked : ~(b.provider = v.provider /\ b.login = v.login)}
                /\ Keyed([rows EXCEPT ![r] =
                     [ids |-> {[provider |-> v.provider, login |-> v.login, id |-> Pending, emails |-> {}]},
                      prim |-> invite, role |-> Editor, key |-> NoKey, mail |-> v.mail]], v.login)
           ELSE /\ ~Real(rows[r].prim) /\ Keyed(rows, rows[r].prim.login)
                /\ UNCHANGED blocked
      /\ UNCHANGED <<owner, sessions, expired, linking>>

BarredPrimary(going) == {rows[r].prim : r \in {x \in going : Real(rows[x].prim)}}
Barred(going) ==
  {HandleOf(i) : i \in {j \in UNION {rows[r].ids : r \in going} : Real(j) /\ ~Blocked(j)}}

\* Whatever the login names goes, unless it is the owner; what was real is blocked.
Revoke(login) ==
  LET going == Named(login) IN
  /\ "revoke" \in Ops /\ OwnerAsked /\ going # {} /\ owner \notin going
  /\ rows' = [r \in Rows |-> IF r \in going THEN NoRow ELSE rows[r]]
  /\ blocked' = blocked \cup Barred(going)
  /\ sessions' = [t \in Tokens |-> IF sessions[t] # NoSession
                                      /\ PersonOf(sessions[t]) \cap going # {}
                                   THEN NoSession ELSE sessions[t]]
  /\ linking' = Followed(sessions')
  /\ UNCHANGED <<owner, minted, expired>>

SetRole(login, role) ==
  /\ OwnerAsked /\ owner \notin Named(login)
  /\ \E r \in Named(login) : rows[r].role # role /\ rows' = [rows EXCEPT ![r].role = role]
  /\ UNCHANGED <<owner, blocked, sessions, minted, expired, linking>>

\* The owner knows whose rows they are.
Combine(into, from) ==
  /\ "combine" \in Ops /\ OwnerAsked /\ {into, from} \subseteq People /\ into # from
  /\ HumansOf(rows[into]) \cap HumansOf(rows[from]) # {}
  /\ Settle(rows, into, rows[into], {}, {from}, FALSE)
  /\ linking' = Followed(sessions')
  /\ UNCHANGED <<blocked, minted, expired>>

-----------------------------------------------------------------------------
(* Sessions and keys end.                                                  *)

\* Signing out, ninety idle days, or a use that finds the session is nobody's.
Over(t) ==
  /\ sessions[t] # NoSession /\ ("quit" \in Ops \/ ~Live(t))
  /\ sessions' = [sessions EXCEPT ![t] = NoSession]
  /\ linking' = Followed(sessions')
  /\ UNCHANGED <<rows, owner, blocked, minted, expired>>

Expire(k) ==
  /\ k \in minted \ expired /\ \E r \in People : rows[r].key = k
  /\ expired' = expired \cup {k}
  /\ UNCHANGED <<rows, owner, blocked, sessions, minted, linking>>

Next ==
  \/ \E u \in Users : SignIn(u) \/ LinkFinish(u)
  \/ \E u \in Guests : SignInMasora(u)
  \/ \E k \in Keys : Redeem(k) \/ Expire(k)
  \/ \E t \in Tokens : Over(t) \/ \E provider \in Providers : LinkStart(t, provider)
  \/ \E t \in Tokens, provider \in Providers, login \in Logins : Unlink(t, provider, login)
  \/ \E v \in Invitees : Allow(v)
  \/ \E login \in Logins : Revoke(login) \/ \E role \in Roles : SetRole(login, role)
  \/ \E into, from \in Rows : Combine(into, from)
  \/ LinkDropped

Spec == Init /\ [][Next]_vars

-----------------------------------------------------------------------------
TypeOK ==
  /\ rows \in [Rows -> Persons \cup {NoRow}] /\ owner \in Rows \cup {NoRow}
  /\ blocked \subseteq Handles
  /\ sessions \in [Tokens -> Handles \cup {NoSession}]
  /\ minted \subseteq Keys /\ expired \subseteq minted
  /\ linking \in Links \cup {NoLink}

\* Every identity is one person's, once: signing in, linking and folding rows
\* together never leave an account on two rows, or twice on one.
OneRowEach ==
  \A r, q \in People : \A i \in rows[r].ids, j \in rows[q].ids :
    SameId(i, j) => r = q /\ i = j

\* Two people who have signed in never share a proven address: whoever is provably
\* the same human has been folded into one row, in whatever order they came.
OneRowPerAddress ==
  \A r, q \in People :
    r # q /\ SignedIn(rows[r]) /\ SignedIn(rows[q]) =>
      EmailsOf(rows[r]) \cap EmailsOf(rows[q]) = {}

\* Somebody removed is out: no blocked identity is on a row, whichever door it
\* tries (a provider, Masora, a link begun before the removal, an old key).
BlockedOut == \A r \in People : \A i \in rows[r].ids : ~\E b \in blocked : SameId(b, i)

\* A key is on one row at most, and on none once somebody has come in with it.
KeyUsedOnce ==
  \A r \in People :
    rows[r].key # NoKey =>
      /\ \A q \in People : rows[q].key = rows[r].key => q = r
      /\ \A q \in People : \A i \in rows[q].ids : i.id # rows[r].key

\* What providers vouch for: an id stays one human's, and so is an address they have
\* verified or a human has published.
HonestUsers ==
  /\ \A u, v \in Users \cup Guests :
       u.provider = v.provider /\ u.id = v.id => HumanOf[u.login] = HumanOf[v.login]
  /\ \A u \in Users \cup Guests : \A e \in u.emails \cup u.public : HumanOf[e] = HumanOf[u.login]

\* No row ever holds accounts and invites of two humans, when providers vouch for what
\* they say and the owner combines only one human's rows: neither an id that two
\* providers both use nor a key nor an address that was not verified joins them.
NoMixing == \A r \in People : Cardinality(HumansOf(rows[r])) = 1

\* No account is lost: folding rows, answering invites and rotating keys keep every
\* account on the team (the owner's on the owner's row); one that leaves it was given
\* up by its person, or is blocked, all of the person's with it.
NobodyLost ==
  [][\A r \in People : \A i \in rows[r].ids :
       Real(i) => \/ \E q \in Rows : /\ rows'[q] # NoRow /\ Owns(rows'[q], i)
                                     /\ r = owner => q = owner'
                  \/ \E b \in blocked' : SameId(b, i)
                  \/ \E t \in Tokens : Unlink(t, i.provider, i.login)]_vars

\* Nobody's role rises except by the owner's word: a row folded with another takes
\* the lower role, and an invite demoted before it was accepted stays demoted.
NoClimb ==
  [][\A r \in People, q \in Rows :
       /\ rows'[q] # NoRow /\ q # owner'
       /\ q = r \/ \E i \in rows[r].ids : Owns(rows'[q], i)
       /\ rows'[q].role > rows[r].role
       => \E login \in Logins, role \in Roles : SetRole(login, role)]_vars

\* A session that stands for its person's primary account still does after every
\* step that leaves it anybody's, so that the routes that compare it with the owner's
\* login know the owner whatever rows were folded.  (Unlinking may leave it nobody's:
\* section 5 of the README.)
SessionsFollow ==
  [][\A t \in Tokens : NoSession \notin {sessions[t], sessions'[t]} =>
       \A r, q \in Rows :
         /\ rows[r] # NoRow /\ SameId(sessions[t], rows[r].prim)
         /\ rows'[q] # NoRow /\ Owns(rows'[q], sessions'[t])
         => SameId(sessions'[t], rows'[q].prim)]_vars

\* redeem: "signIn claims this exact row" (accounts.mjs:1073).  Coming in with a
\* key seats nobody new.  Not so: section 5 of the README.
RedeemClaimsRow ==
  [][(\E k \in Keys : Redeem(k)) => Cardinality(People') <= Cardinality(People)]_vars
=============================================================================
