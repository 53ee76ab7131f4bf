--------------------------- MODULE AccountsProofs ---------------------------
(***************************************************************************)
(* What TLAPS proves of Accounts, for any users, invites, rows and keys:   *)
(* types, one row for every identity, no proven address on two signed-in   *)
(* rows, no blocked identity on a row, keys used once; that no step loses  *)
(* an account, raises a role or leaves a session behind; and, if providers *)
(* vouch for what they say, no row of two humans.                          *)
(*                                                                         *)
(* Signing in, redeeming, linking and combining all end in Settle, so what *)
(* they keep is proved once of it (SettleSafe, SettledHuman); each shows   *)
(* only that the person it settles is fit to be (Alone, Unused, Fresh,     *)
(* Heir, Reach).                                                           *)
(***************************************************************************)
EXTENDS Accounts, FiniteSetTheorems, TLAPS

-----------------------------------------------------------------------------
(* The operators that fold people together.                                *)

\* Whoever comes in: with a provider's id or with a key.
Entrants == [provider : Providers, login : Logins, id : Ids \cup Keys, emails : SUBSET Mails,
             public : SUBSET Mails, domain : BOOLEAN]

LEMMA LeastRoleType ==
  ASSUME NEW ps \in SUBSET Persons, ps # {}
  PROVE  LeastRole(ps) \in 1..3
<1> DEFINE ns == {p.role : p \in ps}
<1>1. ns \subseteq 1..3 /\ ns # {}
  BY DEF Persons
<1>2. \E n \in ns : \A m \in ns : n <= m
  <2>1. CASE 1 \in ns  BY <2>1, <1>1
  <2>2. CASE 1 \notin ns /\ 2 \in ns  BY <2>2, <1>1
  <2>3. CASE 1 \notin ns /\ 2 \notin ns  BY <2>3, <1>1
  <2> QED  BY <2>1, <2>2, <2>3
<1>3. (CHOOSE n \in ns : \A m \in ns : n <= m) \in ns
  BY <1>2
<1>4. LeastRole(ps) = CHOOSE n \in ns : \A m \in ns : n <= m
  BY DEF LeastRole
<1> QED  BY <1>1, <1>3, <1>4

LEMMA LeastRoleBound ==
  ASSUME NEW ps \in SUBSET Persons, NEW q \in ps
  PROVE  LeastRole(ps) <= q.role
<1> DEFINE ns == {p.role : p \in ps}
<1>1. ns \subseteq 1..3 /\ q.role \in ns
  BY DEF Persons
<1>2. \E n \in ns : \A m \in ns : n <= m
  <2>1. CASE 1 \in ns  BY <2>1, <1>1
  <2>2. CASE 1 \notin ns /\ 2 \in ns  BY <2>2, <1>1
  <2>3. CASE 1 \notin ns /\ 2 \notin ns
    <3>1. \A m \in ns : m = 3
      BY <2>3, <1>1
    <3> QED  BY <3>1, <1>1
  <2> QED  BY <2>1, <2>2, <2>3
<1>3. \A m \in ns : (CHOOSE n \in ns : \A o \in ns : n <= o) <= m
  BY <1>2
<1>4. LeastRole(ps) = CHOOSE n \in ns : \A m \in ns : n <= m
  BY DEF LeastRole
<1> QED  BY <1>1, <1>3, <1>4

\* Whoever is left has the primary of one of them, and, but for the owner, no more
\* than the least of their roles.
LEMMA WholeShape ==
  ASSUME NEW keep \in Persons, NEW gone \in SUBSET Persons, NEW owns
  PROVE  /\ \E q \in {keep} \cup gone : Whole(keep, gone, owns).prim = q.prim
         /\ owns \/ \A q \in {keep} \cup gone : Whole(keep, gone, owns).role <= q.role
         /\ gone = {} => Whole(keep, gone, owns) = keep
<1>1. CASE gone = {}
  <2>1. Whole(keep, gone, owns) = keep /\ {keep} \cup gone = {keep}
    BY <1>1 DEF Whole
  <2>2. keep.role <= keep.role
    BY DEF Persons
  <2> QED  BY <2>1, <2>2
<1>2. CASE gone # {}
  <2> DEFINE seated == {p \in {keep} \cup gone : Real(p.prim)}
             keyed  == {p \in {keep} \cup gone : p.key # NoKey}
             first(ps) == IF keep \in ps THEN keep ELSE CHOOSE p \in ps : TRUE
             prim == IF seated = {} THEN keep.prim ELSE first(seated).prim
             role == IF owns THEN keep.role ELSE LeastRole({keep} \cup gone)
             key  == IF seated # {} \/ keyed = {} THEN NoKey ELSE first(keyed).key
             ids  == keep.ids \cup UNION {p.ids : p \in gone}
  <2>1. Whole(keep, gone, owns) =
          [keep EXCEPT !.ids = ids, !.prim = prim, !.role = role, !.key = key]
    BY <1>2 DEF Whole
  <2>2. seated # {} => first(seated) \in seated
    OBVIOUS
  <2>3. \E q \in {keep} \cup gone : prim = q.prim
    BY <2>2
  <2>4. owns \/ \A q \in {keep} \cup gone : role <= q.role
    <3>1. {keep} \cup gone \in SUBSET Persons
      OBVIOUS
    <3>2. \A q \in {keep} \cup gone : LeastRole({keep} \cup gone) <= q.role
      BY <3>1, LeastRoleBound
    <3> QED  BY <3>2
  <2>5. keep = [ids |-> keep.ids, prim |-> keep.prim, role |-> keep.role, key |-> keep.key, mail |-> keep.mail]
    BY DEF Persons
  <2> HIDE DEF prim, role, key, ids
  <2>6. Whole(keep, gone, owns) =
          [ids |-> ids, prim |-> prim, role |-> role, key |-> key, mail |-> keep.mail]
    BY <2>1, <2>5
  <2>7. Whole(keep, gone, owns).prim = prim /\ Whole(keep, gone, owns).role = role
    BY <2>6
  <2> QED  BY <1>2, <2>3, <2>4, <2>7
<1> QED  BY <1>1, <1>2

\* Folding people together keeps every identity, and no key but one of theirs.
LEMMA WholeFacts ==
  ASSUME NEW keep \in Persons, NEW gone \in SUBSET Persons, NEW owns
  PROVE  /\ Whole(keep, gone, owns) \in Persons
         /\ \A i \in Identities : i \in Whole(keep, gone, owns).ids <=> (i \in keep.ids \/ \E p \in gone : i \in p.ids)
         /\ \/ Whole(keep, gone, owns).key = NoKey \/ Whole(keep, gone, owns).key = keep.key
            \/ \E p \in gone : Whole(keep, gone, owns).key = p.key
<1>1. CASE gone = {}
  BY <1>1 DEF Whole
<1>2. CASE gone # {}
  <2> DEFINE seated == {p \in {keep} \cup gone : Real(p.prim)}
             keyed  == {p \in {keep} \cup gone : p.key # NoKey}
             first(ps) == IF keep \in ps THEN keep ELSE CHOOSE p \in ps : TRUE
             prim == IF seated = {} THEN keep.prim ELSE first(seated).prim
             role == IF owns THEN keep.role ELSE LeastRole({keep} \cup gone)
             key  == IF seated # {} \/ keyed = {} THEN NoKey ELSE first(keyed).key
             ids  == keep.ids \cup UNION {p.ids : p \in gone}
  <2>1. Whole(keep, gone, owns) =
          [keep EXCEPT !.ids = ids, !.prim = prim, !.role = role, !.key = key]
    BY <1>2 DEF Whole
  <2>2. \A ps : ps # {} /\ ps \subseteq Persons => first(ps) \in ps /\ first(ps) \in Persons
    OBVIOUS
  <2>3. seated \subseteq Persons /\ keyed \subseteq Persons
    OBVIOUS
  <2>4. prim \in Handles
    BY <2>2, <2>3 DEF Persons
  <2>5. role \in 1..3
    <3>1. {keep} \cup gone \in SUBSET Persons /\ {keep} \cup gone # {}
      OBVIOUS
    <3>2. LeastRole({keep} \cup gone) \in 1..3
      BY <3>1, LeastRoleType
    <3> QED  BY <3>2 DEF Persons
  <2>6. key = NoKey \/ key = keep.key \/ \E p \in gone : key = p.key
    BY <2>2, <2>3
  <2>7. key \in Keys \cup {NoKey}
    BY <2>6 DEF Persons
  <2>8. ids \in SUBSET Identities
    BY DEF Persons
  <2>9. keep = [ids |-> keep.ids, prim |-> keep.prim, role |-> keep.role, key |-> keep.key, mail |-> keep.mail]
    BY DEF Persons
  <2> HIDE DEF prim, role, key, ids
  <2>10. Whole(keep, gone, owns) =
           [ids |-> ids, prim |-> prim, role |-> role, key |-> key, mail |-> keep.mail]
    BY <2>1, <2>9
  <2>11. Whole(keep, gone, owns) \in Persons
    BY <2>10, <2>4, <2>5, <2>7, <2>8 DEF Persons
  <2>12. Whole(keep, gone, owns).ids = ids /\ Whole(keep, gone, owns).key = key
    BY <2>10
  <2> QED  BY <2>11, <2>12, <2>6 DEF ids
<1> QED  BY <1>1, <1>2

\* Adopting an identity adds that one at most, leaves it once, and moves no key.
LEMMA AdoptedFacts ==
  ASSUME AccountsAssumption, NEW p \in Persons, NEW u \in Entrants,
         \A i, j \in p.ids : SameId(i, j) => i = j
  PROVE  /\ Adopted(p, u) \in Persons /\ Adopted(p, u).key = p.key
         /\ \A i \in Adopted(p, u).ids : i \in p.ids \/ (i.id = u.id /\ i.provider = u.provider)
         /\ \A i, j \in Adopted(p, u).ids : SameId(i, j) => i = j
<1> DEFINE kept == {i \in p.ids : ~Proves(u, i)}
           held == {i \in kept : SameId(i, u)}
           more == {[i EXCEPT !.emails = @ \cup u.emails] : i \in held}
           ids  == IF held = {} THEN kept \cup {Identity(u)} ELSE (kept \ held) \cup more
           prim == IF Real(p.prim) THEN p.prim ELSE HandleOf(u)
<1>1. Adopted(p, u) = [p EXCEPT !.ids = ids, !.prim = prim]
  BY DEF Adopted
<1>2. p.ids \subseteq Identities /\ p.prim \in Handles
  BY DEF Persons
<1>3. Identity(u) \in Identities /\ HandleOf(u) \in Handles
  BY DEF Identity, HandleOf, Identities, Handles, Entrants
<1>4. Identity(u).id = u.id /\ Identity(u).provider = u.provider
  BY DEF Identity
<1>5. \A i \in held : /\ [i EXCEPT !.emails = @ \cup u.emails] \in Identities
                      /\ [i EXCEPT !.emails = @ \cup u.emails].id = u.id
                      /\ [i EXCEPT !.emails = @ \cup u.emails].provider = u.provider
  BY <1>2 DEF Identities, SameId, Entrants
<1>6. more \subseteq Identities /\ \A i \in more : i.id = u.id /\ i.provider = u.provider
  <2> SUFFICES ASSUME NEW i \in more
               PROVE  i \in Identities /\ i.id = u.id /\ i.provider = u.provider
    OBVIOUS
  <2>1. PICK j \in held : i = [j EXCEPT !.emails = @ \cup u.emails]
    OBVIOUS
  <2> HIDE DEF more, held
  <2> QED  BY <1>5, <2>1
<1>7. ids \subseteq Identities
  BY <1>2, <1>3, <1>6
<1>8. prim \in Handles
  BY <1>2, <1>3
<1>9. \A i, j \in held : i = j
  <2> SUFFICES ASSUME NEW i \in held, NEW j \in held PROVE i = j
    OBVIOUS
  <2>1. SameId(i, j)
    BY DEF SameId
  <2> QED  BY <2>1
<1>10. \A i \in ids : i \in p.ids \/ (i.id = u.id /\ i.provider = u.provider)
  BY <1>4, <1>6
<1>11. \A i, j \in ids : SameId(i, j) => i = j
  <2>1. CASE held = {}
    <3>1. \A i \in kept : ~SameId(i, Identity(u)) /\ ~SameId(Identity(u), i)
      BY <2>1, <1>4 DEF SameId, Real
    <3> QED  BY <2>1, <3>1
  <2>2. CASE held # {}
    <3>1. \A i, j \in more : i = j
      BY <1>9
    <3>2. \A i \in kept \ held, j \in more : ~SameId(i, j) /\ ~SameId(j, i)
      BY <1>6 DEF SameId, Real
    <3> QED  BY <2>2, <3>1, <3>2
  <2> QED  BY <2>1, <2>2
<1> HIDE DEF ids, prim
<1>12. p = [ids |-> p.ids, prim |-> p.prim, role |-> p.role, key |-> p.key, mail |-> p.mail]
  BY DEF Persons
<1>13. Adopted(p, u) = [ids |-> ids, prim |-> prim, role |-> p.role, key |-> p.key, mail |-> p.mail]
  BY <1>1, <1>12
<1>14. Adopted(p, u) \in Persons /\ Adopted(p, u).key = p.key /\ Adopted(p, u).ids = ids
  BY <1>13, <1>7, <1>8 DEF Persons
<1> QED  BY <1>14, <1>10, <1>11

\* Before u was adopted, identity i was j.
Was(i, j, u) ==
  /\ i.login = j.login /\ i.provider = j.provider /\ i.id = j.id
  /\ i = j \/ (SameId(j, u) /\ i.emails = j.emails \cup u.emails)

\* Adopting an identity loses no account: what was there keeps its login, and its
\* addresses grow only when it is the one adopted; role and a real primary stay.
LEMMA AdoptedShape ==
  ASSUME NEW p \in Persons, NEW u \in Entrants
  PROVE  /\ \A i \in p.ids : Real(i) => Owns(Adopted(p, u), i)
         /\ \A i \in Adopted(p, u).ids : i = Identity(u) \/ \E j \in p.ids : Was(i, j, u)
         /\ Adopted(p, u).ids # {}
         /\ Adopted(p, u).role = p.role
         /\ Real(p.prim) => Adopted(p, u).prim = p.prim
         /\ ~Real(p.prim) => /\ Adopted(p, u).prim = HandleOf(u)
                             /\ Real(u) => Owns(Adopted(p, u), HandleOf(u))
<1> DEFINE kept == {i \in p.ids : ~Proves(u, i)}
           held == {i \in kept : SameId(i, u)}
           more(i) == [i EXCEPT !.emails = @ \cup u.emails]
           ids  == IF held = {} THEN kept \cup {Identity(u)}
                   ELSE (kept \ held) \cup {more(i) : i \in held}
           prim == IF Real(p.prim) THEN p.prim ELSE HandleOf(u)
<1>1. Adopted(p, u) = [p EXCEPT !.ids = ids, !.prim = prim]
  BY DEF Adopted
<1>2. p = [ids |-> p.ids, prim |-> p.prim, role |-> p.role, key |-> p.key, mail |-> p.mail]
  BY DEF Persons
<1>3. p.ids \subseteq Identities
  BY DEF Persons
<1>4. \A i \in p.ids : /\ more(i).login = i.login /\ more(i).provider = i.provider
                       /\ more(i).id = i.id /\ more(i).emails = i.emails \cup u.emails
  BY <1>3 DEF Identities
<1>5. \A i \in p.ids : Real(i) => i \in kept
  BY DEF Proves
<1>6. Identity(u).id = u.id /\ Identity(u).provider = u.provider
  BY DEF Identity
<1>7. HandleOf(u).id = u.id /\ HandleOf(u).provider = u.provider
  BY DEF HandleOf
<1>8. \A i \in held : i \in p.ids /\ SameId(i, u)
  OBVIOUS
<1>9. kept \subseteq p.ids
  OBVIOUS
<1>10. \A i \in kept : i \in held \/ i \in ids
  OBVIOUS
<1>11. \A i \in held : more(i) \in ids
  OBVIOUS
<1>12. held = {} => Identity(u) \in ids
  OBVIOUS
<1>13. \A i \in ids : i = Identity(u) \/ i \in kept \/ \E j \in held : i = more(j)
  OBVIOUS
<1> HIDE DEF kept, held, more, ids, prim
<1>14. Adopted(p, u) = [ids |-> ids, prim |-> prim, role |-> p.role, key |-> p.key, mail |-> p.mail]
  BY <1>1, <1>2
<1>15. Adopted(p, u).ids = ids /\ Adopted(p, u).prim = prim /\ Adopted(p, u).role = p.role
  BY <1>14
<1>16. \A i \in p.ids : Real(i) => Owns(Adopted(p, u), i)
  <2> SUFFICES ASSUME NEW i \in p.ids, Real(i) PROVE \E j \in ids : SameId(j, i)
    BY <1>15 DEF Owns
  <2>1. CASE i \in held
    BY <2>1, <1>4, <1>11 DEF SameId, Real
  <2>2. CASE i \notin held
    BY <2>2, <1>5, <1>10 DEF SameId, Real
  <2> QED  BY <2>1, <2>2
<1>17. \A i \in ids : i = Identity(u) \/ \E j \in p.ids : Was(i, j, u)
  BY <1>4, <1>8, <1>9, <1>13 DEF Was
<1>18. \E i \in ids : i.id = u.id /\ i.provider = u.provider
  BY <1>4, <1>6, <1>8, <1>11, <1>12 DEF SameId
<1>19. Real(u) => \E j \in ids : SameId(j, HandleOf(u))
  BY <1>7, <1>18 DEF SameId, Real
<1> QED  BY <1>15, <1>16, <1>17, <1>18, <1>19 DEF Owns, prim

-----------------------------------------------------------------------------
(* The inductive invariant.                                                *)

\* Keys on rows were minted and are nobody's id yet; every other key-id was minted.
KeysFresh ==
  /\ \A r \in People : \A i \in rows[r].ids : i.id \in Keys => i.id \in minted
  /\ \A b \in blocked : b.id \in Keys => b.id \in minted
  /\ \A r \in People : rows[r].key # NoKey =>
       /\ rows[r].key \in minted
       /\ \A b \in blocked : b.id # rows[r].key

\* An invite nobody has accepted has proved no address.
Bare(p) == \A i \in p.ids : ~Real(i) => i.emails = {}
InvitesBare == \A r \in People : Bare(rows[r])

\* The primary of whoever has signed in is one of their accounts.
Primed(p) == Real(p.prim) => Owns(p, p.prim)
PrimaryOwned == \A r \in People : Primed(rows[r])

IInv ==
  /\ TypeOK /\ OneRowEach /\ OneRowPerAddress /\ InvitesBare /\ PrimaryOwned
  /\ BlockedOut /\ KeyUsedOnce /\ KeysFresh

-----------------------------------------------------------------------------
(* What every step carries over: accounts, roles, sessions.                *)

KeepsEach ==
  \A r \in People : \A i \in rows[r].ids :
    Real(i) => \E q \in Rows : /\ rows'[q] # NoRow /\ Owns(rows'[q], i)
                               /\ r = owner => q = owner'

NoneRises ==
  \A r \in People, q \in Rows :
    /\ rows'[q] # NoRow /\ q # owner'
    /\ q = r \/ \E i \in rows[r].ids : Owns(rows'[q], i)
    => rows'[q].role <= rows[r].role

SessionsStay ==
  \A t \in Tokens, r, q \in Rows :
    /\ Live(t) /\ rows[r] # NoRow /\ SameId(sessions[t], rows[r].prim)
    /\ sessions'[t] # NoSession /\ rows'[q] # NoRow /\ Owns(rows'[q], sessions'[t])
    => SameId(sessions'[t], rows'[q].prim)

Carried == KeepsEach /\ NoneRises /\ SessionsStay

-----------------------------------------------------------------------------
(* Folds.                                                                  *)

\* The rows rs are the rows as they stand, but for keys taken off.
Rekeyed(rs) ==
  /\ rs \in [Rows -> Persons \cup {NoRow}]
  /\ \A x \in Rows : /\ rs[x] = NoRow <=> rows[x] = NoRow
                     /\ rs[x] # NoRow => /\ rs[x].ids = rows[x].ids
                                         /\ rs[x].prim = rows[x].prim /\ rs[x].role = rows[x].role
                                         /\ rs[x].key = NoKey \/ rs[x].key = rows[x].key

\* No account of p is on a row outside done, or blocked, or twice in p.
Alone(p, done) ==
  /\ \A i \in p.ids : \A x \in People \ done : \A j \in rows[x].ids : ~SameId(i, j) /\ ~SameId(j, i)
  /\ \A i, j \in p.ids : SameId(i, j) => i = j
  /\ \A i \in p.ids : \A b \in blocked : ~SameId(b, i)

\* What a fold leaves: row s holds it all, the others are gone or as they were.
Seated(rs, r, p, gone, fold, s) ==
  LET all  == {r} \cup gone \cup fold
      each == {p} \cup {rs[x] : x \in fold}
  IN  /\ rows'[s] # NoRow
      /\ rows'[s].ids = p.ids \cup UNION {rows[x].ids : x \in fold}
      /\ \/ rows'[s].key = NoKey \/ rows'[s].key = p.key
         \/ \E x \in fold : rows'[s].key = rs[x].key
      /\ \E q \in each : rows'[s].prim = q.prim
      /\ s = owner \/ \A q \in each : rows'[s].role <= q.role
      /\ fold = {} => rows'[s] = p
      /\ owner \in {r} \cup fold => s = owner
      /\ owner' = IF owner = NoRow THEN s ELSE owner
      /\ \A t \in Tokens : sessions[t] # NoSession =>
           \/ sessions'[t] = rows'[s].prim
           \/ /\ sessions'[t] = sessions[t]
              /\ all = {r} \/ \A x \in all \cap People : ~SameId(sessions[t], rs[x].prim)
      /\ \A x \in Rows \ {s} : rows'[x] = NoRow \/ (x \notin all /\ rows'[x] = rs[x])
      /\ \A x \in Rows \ all : rows'[x] = rs[x]

Settled(rs, r, p, gone, fold) ==
  /\ rows' \in [Rows -> Persons \cup {NoRow}] /\ owner' \in Rows \cup {NoRow}
  /\ sessions' \in [Tokens -> Handles \cup {NoSession}]
  /\ \E s \in {r} \cup fold : Seated(rs, r, p, gone, fold, s)

LEMMA SettleRows ==
  ASSUME AccountsAssumption, TypeOK, NEW rs, Rekeyed(rs), NEW r \in Rows, NEW p \in Persons,
         NEW gone \in SUBSET Rows, NEW fold \in SUBSET People, fold \cap ({r} \cup gone) = {},
         NEW open \in BOOLEAN, Settle(rs, r, p, gone, fold, open)
  PROVE  Settled(rs, r, p, gone, fold)
<1> DEFINE s == Survivor(r, fold)
           at(x) == IF x = r THEN p ELSE rs[x]
           others == {at(x) : x \in (({r} \cup fold) \ {s})}
           whole == Whole(at(s), others, s = owner)
           all == {r} \cup gone \cup fold
           olds  == IF all = {r} THEN {} ELSE {p.prim} \cup {rs[x].prim : x \in all \cap People}
           moved == Repointed(olds, whole.prim)
<1>1. /\ rows' = [x \in Rows |-> IF x = s THEN whole ELSE IF x \in all THEN NoRow ELSE rs[x]]
      /\ owner' = IF owner = NoRow THEN s ELSE owner
      /\ IF open
         THEN \E t \in Tokens : sessions[t] = NoSession /\ sessions' = [moved EXCEPT ![t] = whole.prim]
         ELSE sessions' = moved
  BY DEF Settle
<1>2. s \in {r} \cup fold /\ s \in Rows
  BY DEF Survivor, People
<1>3. \A x \in {r} \cup fold : at(x) \in Persons
  BY DEF Rekeyed, People
<1>4. others \in SUBSET Persons
  BY <1>3
<1>5. at(s) \in Persons
  BY <1>2, <1>3
<1>6. /\ whole \in Persons
      /\ \A i \in Identities : i \in whole.ids <=> (i \in at(s).ids \/ \E q \in others : i \in q.ids)
      /\ \/ whole.key = NoKey \/ whole.key = at(s).key
         \/ \E q \in others : whole.key = q.key
  <2> DEFINE keep == at(s)
             owns == s = owner
  <2>1. keep \in Persons /\ whole = Whole(keep, others, owns)
    BY <1>5
  <2> HIDE DEF keep, others, whole, s, owns
  <2>2. /\ whole \in Persons
        /\ \A i \in Identities : i \in whole.ids <=> (i \in keep.ids \/ \E q \in others : i \in q.ids)
        /\ \/ whole.key = NoKey
           \/ whole.key = keep.key \/ \E q \in others : whole.key = q.key
    <3>1. \A o : \A k \in Persons, g \in SUBSET Persons : Whole(k, g, o) \in Persons
      BY WholeFacts
    <3>2. whole \in Persons
      BY <2>1, <1>4, <3>1
    <3>3. \A o : \A k \in Persons, g \in SUBSET Persons : \A i \in Identities :
            i \in Whole(k, g, o).ids <=> (i \in k.ids \/ \E q \in g : i \in q.ids)
      BY WholeFacts
    <3>4. \A i \in Identities : i \in whole.ids <=> (i \in keep.ids \/ \E q \in others : i \in q.ids)
      BY <2>1, <1>4, <3>3
    <3>5. \A o : \A k \in Persons, g \in SUBSET Persons :
            \/ Whole(k, g, o).key = NoKey \/ Whole(k, g, o).key = k.key
            \/ \E q \in g : Whole(k, g, o).key = q.key
      <4> SUFFICES ASSUME NEW o, NEW k \in Persons, NEW g \in SUBSET Persons
                   PROVE  \/ Whole(k, g, o).key = NoKey \/ Whole(k, g, o).key = k.key
                          \/ \E q \in g : Whole(k, g, o).key = q.key
        OBVIOUS
      <4> QED  BY ONLY WholeFacts, k \in Persons, g \in SUBSET Persons
    <3>6. whole.key = NoKey \/ whole.key = keep.key \/ \E q \in others : whole.key = q.key
      BY <2>1, <1>4, <3>5
    <3> QED  BY <3>2, <3>4, <3>6
  <2> QED  BY <2>2 DEF keep
<1>7. whole # NoRow /\ whole.prim \in Handles
  BY <1>6, AccountsAssumption DEF AccountsAssumption, Persons
<1>8. \A x \in fold : at(x) = rs[x] /\ rs[x].ids = rows[x].ids
  BY DEF Rekeyed, People
<1>9. whole.ids = p.ids \cup UNION {rows[x].ids : x \in fold}
  <2>1. at(r) = p
    OBVIOUS
  <2>2. \A i \in Identities : (\E q \in others : i \in q.ids) <=> \E x \in ({r} \cup fold) \ {s} : i \in at(x).ids
    OBVIOUS
  <2>3. \A i \in Identities : i \in whole.ids <=> \E x \in {r} \cup fold : i \in at(x).ids
    BY <1>2, <1>6, <2>2
  <2>4. \A i \in Identities : i \in whole.ids <=> (i \in p.ids \/ \E x \in fold : i \in rows[x].ids)
    BY <2>1, <2>3, <1>8
  <2>5. whole.ids \subseteq Identities /\ p.ids \subseteq Identities
    BY <1>6 DEF Persons
  <2>6. \A x \in fold : rows[x].ids \subseteq Identities
    BY <1>3, <1>8 DEF Persons
  <2> HIDE DEF whole
  <2> QED  BY <2>4, <2>5, <2>6
<1>10. \/ whole.key = NoKey \/ whole.key = p.key
       \/ \E x \in fold : whole.key = rs[x].key
  <2>1. \A q : q = at(s) \/ q \in others => q = p \/ \E x \in fold : q = rs[x]
    BY <1>2, <1>8
  <2> HIDE DEF whole, others, s
  <2> QED  BY <1>6, <2>1
<1>11. rows' \in [Rows -> Persons \cup {NoRow}]
  <2>1. \A x \in Rows : rs[x] \in Persons \cup {NoRow}
    BY DEF Rekeyed
  <2> HIDE DEF whole, s, all
  <2> QED  BY <1>1, <1>6, <2>1
<1>12. owner' \in Rows \cup {NoRow}
  BY <1>1, <1>2 DEF TypeOK
<1>13. sessions' \in [Tokens -> Handles \cup {NoSession}]
  <2> HIDE DEF whole, olds
  <2>1. moved \in [Tokens -> Handles \cup {NoSession}]
    BY <1>7 DEF Repointed, TypeOK
  <2> HIDE DEF moved
  <2> QED  BY <1>1, <1>7, <2>1
<1>14. rows'[s] = whole
  BY <1>1, <1>2
<1>15. /\ \A x \in Rows \ {s} : rows'[x] = NoRow \/ (x \notin all /\ rows'[x] = rs[x])
       /\ \A x \in Rows \ all : rows'[x] = rs[x]
  <2>1. s \in all
    BY <1>2
  <2> HIDE DEF whole, s, all
  <2> QED  BY <1>1, <2>1
<1> DEFINE each == {p} \cup {rs[x] : x \in fold}
<1>16. {at(s)} \cup others \subseteq each /\ each \subseteq {at(s)} \cup others
  <2>1. {at(s)} \cup others = {at(x) : x \in {r} \cup fold}
    BY <1>2
  <2>2. at(r) = p
    OBVIOUS
  <2> QED  BY <1>8, <2>1, <2>2
<1>17. /\ \E q \in each : whole.prim = q.prim
       /\ s = owner \/ \A q \in each : whole.role <= q.role
       /\ fold = {} => whole = p
  <2> DEFINE keep == at(s)
             owns == s = owner
  <2>0. fold = {} => keep = p /\ others = {}
    BY <1>2
  <2>1. keep \in Persons /\ whole = Whole(keep, others, owns) /\ {keep} \cup others = each
    BY <1>5, <1>16
  <2> HIDE DEF keep, others, whole, s, owns, each
  <2>2. \E q \in {keep} \cup others : whole.prim = q.prim
    BY ONLY <1>4, <2>1, WholeShape
  <2>3. owns \/ \A q \in {keep} \cup others : whole.role <= q.role
    BY ONLY <1>4, <2>1, WholeShape
  <2>4. others = {} => whole = keep
    BY ONLY <1>4, <2>1, WholeShape
  <2> QED  BY <2>0, <2>1, <2>2, <2>3, <2>4 DEF owns
<1>18. owner \in {r} \cup fold => s = owner
  BY DEF Survivor
<1>19. \A t \in Tokens : sessions[t] # NoSession =>
         \/ sessions'[t] = whole.prim
         \/ /\ sessions'[t] = sessions[t]
            /\ all = {r} \/ \A x \in all \cap People : ~SameId(sessions[t], rs[x].prim)
  <2>1. \A x \in all \cap People : all = {r} \/ rs[x].prim \in olds
    OBVIOUS
  <2> HIDE DEF whole, olds, all
  <2>2. \A t \in Tokens : sessions[t] # NoSession =>
          moved[t] = IF \E o \in olds : SameId(sessions[t], o) THEN whole.prim ELSE sessions[t]
    BY DEF Repointed
  <2>3. moved \in [Tokens -> Handles \cup {NoSession}]
    BY <1>7 DEF Repointed, TypeOK
  <2> HIDE DEF moved
  <2>4. \A t \in Tokens : sessions[t] # NoSession => sessions'[t] = moved[t]
    BY <1>1, <2>3
  <2> QED  BY <2>1, <2>2, <2>4
<1> HIDE DEF whole, s, at, each
<1>20. Seated(rs, r, p, gone, fold, s)
  BY <1>1, <1>7, <1>9, <1>10, <1>14, <1>15, <1>17, <1>18, <1>19 DEF Seated, each
<1> QED  BY <1>2, <1>11, <1>12, <1>13, <1>20 DEF Settled

\* The keys of rs are nobody's id, neither on a row nor in p.
Unused(rs, p) ==
  \A x \in People : rs[x].key # NoKey =>
    /\ \A y \in People : \A i \in rows[y].ids : i.id # rs[x].key
    /\ \A i \in p.ids : i.id # rs[x].key

\* The key of p is one of done's, and the keys p came in with were minted.
Fresh(rs, p, done) ==
  /\ p.key = NoKey \/ \E x \in done \cap People : p.key = rs[x].key
  /\ \A i \in p.ids : i.id \in Keys => i.id \in minted

\* p stands for row r and those in gone: it has their accounts, none of their roles is
\* lower, and it keeps the primary of r when it replaces r alone.
Heir(p, r, gone) ==
  /\ Bare(p) /\ Primed(p)
  /\ \A x \in ({r} \cup gone) \cap People : \A i \in rows[x].ids : Real(i) => Owns(p, i)
  /\ r = owner \/ \A x \in ({r} \cup gone) \cap People : p.role <= rows[x].role
  /\ r \notin gone /\ owner \notin gone
  /\ gone = {} /\ r \in People /\ Real(rows[r].prim) => p.prim = rows[r].prim

\* Whoever has signed in and has a proven address of p is among done.
Reach(p, done) ==
  \A x \in People \ done : SignedIn(rows[x]) => EmailsOf(rows[x]) \cap EmailsOf(p) = {}

\* What every fold does to the invariant, and carries over.
Safe ==
  /\ rows' \in [Rows -> Persons \cup {NoRow}] /\ owner' \in Rows \cup {NoRow}
  /\ sessions' \in [Tokens -> Handles \cup {NoSession}]
  /\ OneRowEach' /\ OneRowPerAddress' /\ InvitesBare' /\ PrimaryOwned'
  /\ BlockedOut' /\ KeyUsedOnce' /\ KeysFresh'
  /\ Carried

\* Who has not signed in has no proven address.
LEMMA InviteAddress ==
  ASSUME AccountsAssumption, NEW p, Bare(p), ~SignedIn(p)
  PROVE  EmailsOf(p) = {}
<1>1. \A i \in p.ids : i.emails = {} /\ i.id \notin Ids
  BY AccountsAssumption DEF Bare, SignedIn, Real, AccountsAssumption
<1>2. \A i \in p.ids : i.emails \cup Evidence(i) = {}
  BY <1>1 DEF Evidence
<1> QED  BY <1>2 DEF EmailsOf

\* A fold of p, alone on the team but for the rows it replaces, keeps the invariant.
LEMMA SettleSafe ==
  ASSUME AccountsAssumption, IInv, NEW rs, Rekeyed(rs), NEW r \in Rows, NEW p \in Persons,
         NEW gone \in SUBSET Rows, NEW fold \in SUBSET People, fold \cap ({r} \cup gone) = {},
         NEW open \in BOOLEAN, Settle(rs, r, p, gone, fold, open),
         Alone(p, {r} \cup gone), Unused(rs, p), Fresh(rs, p, {r} \cup gone),
         Heir(p, r, gone), Reach(p, {r} \cup gone \cup fold),
         UNCHANGED <<blocked, minted, expired>>
  PROVE  Safe
<1> DEFINE all == {r} \cup gone \cup fold
<1>0. Settled(rs, r, p, gone, fold)
  BY SettleRows DEF IInv
<1>1. /\ rows' \in [Rows -> Persons \cup {NoRow}] /\ owner' \in Rows \cup {NoRow}
      /\ sessions' \in [Tokens -> Handles \cup {NoSession}]
      /\ \E s \in {r} \cup fold : Seated(rs, r, p, gone, fold, s)
  BY <1>0 DEF Settled
<1>s. PICK s \in {r} \cup fold : Seated(rs, r, p, gone, fold, s)
  BY <1>1
<1>2. /\ rows'[s] # NoRow
      /\ rows'[s].ids = p.ids \cup UNION {rows[x].ids : x \in fold}
      /\ \/ rows'[s].key = NoKey \/ rows'[s].key = p.key
         \/ \E x \in fold : rows'[s].key = rs[x].key
      /\ \A x \in Rows \ {s} : rows'[x] = NoRow \/ (x \notin {r} \cup gone \cup fold /\ rows'[x] = rs[x])
  BY <1>s DEF Seated
<1>3. \A x \in Rows : x # s /\ rows'[x] # NoRow =>
        /\ x \in People /\ x \notin all /\ rows'[x].ids = rows[x].ids
        /\ rows'[x].key = NoKey \/ (rows'[x].key = rs[x].key /\ rs[x].key = rows[x].key)
  BY <1>2 DEF Rekeyed, People
<1>4. \A i : i \in rows'[s].ids => i \in p.ids \/ \E y \in fold : i \in rows[y].ids
  BY <1>2
<1>5. s \in Rows /\ People' = {x \in Rows : rows'[x] # NoRow}
  BY <1>2 DEF People
<1>6. /\ OneRowEach /\ BlockedOut /\ KeyUsedOnce /\ KeysFresh
      /\ blocked' = blocked /\ minted' = minted
  BY DEF IInv
<1>7. \A x \in all \cap People, y \in People \ all : x # y
  OBVIOUS
<1>8. \A i \in rows'[s].ids : \A x \in People \ all : \A j \in rows[x].ids :
        ~SameId(i, j) /\ ~SameId(j, i)
  <2> SUFFICES ASSUME NEW i \in rows'[s].ids, NEW x \in People \ all, NEW j \in rows[x].ids
               PROVE  ~SameId(i, j) /\ ~SameId(j, i)
    OBVIOUS
  <2>1. CASE i \in p.ids
    BY <2>1 DEF Alone
  <2>2. CASE \E y \in fold : i \in rows[y].ids
    BY <2>2, <1>6 DEF OneRowEach, SameId, Real
  <2> QED  BY <1>4, <2>1, <2>2
<1>9. \A i, j \in rows'[s].ids : SameId(i, j) => i = j
  <2> SUFFICES ASSUME NEW i \in rows'[s].ids, NEW j \in rows'[s].ids, SameId(i, j)
               PROVE  i = j
    OBVIOUS
  <2>0. \A y \in fold : y \in People \ ({r} \cup gone)
    OBVIOUS
  <2>1. CASE i \in p.ids /\ j \in p.ids
    BY <2>1 DEF Alone
  <2>2. CASE i \in p.ids /\ \E y \in fold : j \in rows[y].ids
    BY <2>0, <2>2 DEF Alone
  <2>3. CASE j \in p.ids /\ \E y \in fold : i \in rows[y].ids
    BY <2>0, <2>3 DEF Alone
  <2>4. CASE (\E y \in fold : i \in rows[y].ids) /\ (\E y \in fold : j \in rows[y].ids)
    BY <2>4, <1>6 DEF OneRowEach
  <2> QED  BY <1>4, <2>1, <2>2, <2>3, <2>4
<1>10. OneRowEach'
  <2> SUFFICES ASSUME NEW x \in People', NEW y \in People', NEW i \in rows'[x].ids,
                      NEW j \in rows'[y].ids, SameId(i, j)
               PROVE  x = y /\ i = j
    BY DEF OneRowEach, SameId, Real
  <2>1. CASE x = s /\ y = s
    BY <2>1, <1>9
  <2>2. CASE x = s /\ y # s
    <3>1. y \in People \ all /\ j \in rows[y].ids
      BY <2>2, <1>3, <1>5
    <3> QED  BY <3>1, <2>2, <1>8
  <2>3. CASE x # s /\ y = s
    <3>1. x \in People \ all /\ i \in rows[x].ids
      BY <2>3, <1>3, <1>5
    <3> QED  BY <3>1, <2>3, <1>8
  <2>4. CASE x # s /\ y # s
    <3>1. x \in People /\ i \in rows[x].ids /\ y \in People /\ j \in rows[y].ids
      BY <2>4, <1>3, <1>5
    <3> QED  BY <3>1, <1>6 DEF OneRowEach
  <2> QED  BY <2>1, <2>2, <2>3, <2>4
<1>11. BlockedOut'
  <2> SUFFICES ASSUME NEW x \in People', NEW i \in rows'[x].ids, NEW b \in blocked
               PROVE  ~SameId(b, i)
    BY <1>6 DEF BlockedOut, SameId, Real
  <2>1. i \in p.ids \/ \E y \in People : i \in rows[y].ids
    BY <1>3, <1>4, <1>5
  <2> QED  BY <2>1, <1>6 DEF BlockedOut, Alone
<1>12. \A x \in People' : rows'[x].key # NoKey => \E y \in People :
         /\ rows'[x].key = rs[y].key /\ rs[y].key = rows[y].key
         /\ IF x = s THEN y \in all ELSE y = x
  <2> SUFFICES ASSUME NEW x \in People', rows'[x].key # NoKey
               PROVE  \E y \in People : /\ rows'[x].key = rs[y].key /\ rs[y].key = rows[y].key
                                        /\ IF x = s THEN y \in all ELSE y = x
    OBVIOUS
  <2>1. CASE x # s
    BY <2>1, <1>3, <1>5
  <2>2. CASE x = s
    <3>1. \E y \in all \cap People : rows'[x].key = rs[y].key
      BY <1>2, <2>2 DEF Fresh
    <3> QED  BY <3>1, <2>2 DEF Rekeyed, People
  <2> QED  BY <2>1, <2>2
<1>13. KeyUsedOnce'
  <2> SUFFICES ASSUME NEW x \in People', rows'[x].key # NoKey
               PROVE  /\ \A q \in People' : rows'[q].key = rows'[x].key => q = x
                      /\ \A q \in People' : \A i \in rows'[q].ids : i.id # rows'[x].key
    BY DEF KeyUsedOnce
  <2>1. PICK y \in People : /\ rows'[x].key = rs[y].key /\ rs[y].key = rows[y].key
                           /\ IF x = s THEN y \in all ELSE y = x
    BY <1>12
  <2>2. ASSUME NEW q \in People', rows'[q].key = rows'[x].key PROVE q = x
    <3>1. PICK z \in People : /\ rows'[q].key = rs[z].key /\ rs[z].key = rows[z].key
                             /\ IF q = s THEN z \in all ELSE z = q
      BY <1>12, <2>2
    <3>2. y = z
      BY <3>1, <2>1, <2>2, <1>6 DEF KeyUsedOnce
    <3> QED  BY <3>1, <3>2, <2>1, <1>3, <1>5
  <2>3. ASSUME NEW q \in People', NEW i \in rows'[q].ids PROVE i.id # rows'[x].key
    <3>1. i \in p.ids \/ \E z \in People : i \in rows[z].ids
      BY <1>3, <1>4, <1>5
    <3> QED  BY <3>1, <2>1 DEF Unused
  <2> QED  BY <2>2, <2>3
<1>14. KeysFresh'
  <2>1. \A x \in People' : \A i \in rows'[x].ids : i.id \in Keys => i.id \in minted
    <3> SUFFICES ASSUME NEW x \in People', NEW i \in rows'[x].ids, i.id \in Keys
                 PROVE  i.id \in minted
      OBVIOUS
    <3>1. i \in p.ids \/ \E z \in People : i \in rows[z].ids
      BY <1>3, <1>4, <1>5
    <3> QED  BY <3>1, <1>6 DEF KeysFresh, Fresh
  <2>2. \A x \in People' : rows'[x].key # NoKey =>
          rows'[x].key \in minted /\ \A b \in blocked : b.id # rows'[x].key
    BY <1>12, <1>6 DEF KeysFresh
  <2> QED  BY <2>1, <2>2, <1>6 DEF KeysFresh
<1>15. /\ OneRowPerAddress /\ InvitesBare /\ PrimaryOwned
  BY DEF IInv
<1>16. InvitesBare'
  <2> SUFFICES ASSUME NEW x \in People', NEW i \in rows'[x].ids, ~Real(i) PROVE i.emails = {}
    BY DEF InvitesBare, Bare, Real
  <2>1. i \in p.ids \/ \E y \in People : i \in rows[y].ids
    BY <1>3, <1>4, <1>5
  <2> QED  BY <2>1, <1>15 DEF InvitesBare, Bare, Heir
<1>17. OneRowPerAddress'
  <2>1. \A x \in fold : SignedIn(rows[x]) \/ EmailsOf(rows[x]) = {}
    BY <1>15, InviteAddress DEF InvitesBare
  <2>2. \A e : e \in EmailsOf(rows'[s]) => e \in EmailsOf(p) \/ \E x \in fold : e \in EmailsOf(rows[x])
    BY <1>4 DEF EmailsOf
  <2>3. \A x \in People' : x # s => x \in People \ all /\ rows'[x].ids = rows[x].ids
    BY <1>3, <1>5
  <2>4. \A x \in People' : x # s => EmailsOf(rows'[x]) = EmailsOf(rows[x]) /\ (SignedIn(rows'[x]) <=> SignedIn(rows[x]))
    BY <2>3 DEF EmailsOf, SignedIn
  <2>5. ASSUME NEW x \in People', x # s, SignedIn(rows'[x])
        PROVE  EmailsOf(rows'[x]) \cap EmailsOf(rows'[s]) = {}
    <3>1. x \in People \ all /\ SignedIn(rows[x]) /\ EmailsOf(rows'[x]) = EmailsOf(rows[x])
      BY <2>3, <2>4, <2>5
    <3>2. EmailsOf(rows[x]) \cap EmailsOf(p) = {}
      BY <3>1 DEF Reach
    <3>3. \A y \in fold : EmailsOf(rows[x]) \cap EmailsOf(rows[y]) = {}
      BY <2>1, <3>1, <1>15 DEF OneRowPerAddress
    <3> QED  BY <2>2, <3>1, <3>2, <3>3
  <2> SUFFICES ASSUME NEW x \in People', NEW y \in People', x # y, SignedIn(rows'[x]), SignedIn(rows'[y])
               PROVE  EmailsOf(rows'[x]) \cap EmailsOf(rows'[y]) = {}
    BY DEF OneRowPerAddress, SignedIn, EmailsOf, Evidence, Real
  <2>6. CASE x = s \/ y = s
    BY <2>5, <2>6
  <2>7. CASE x # s /\ y # s
    BY <2>3, <2>4, <2>7, <1>15 DEF OneRowPerAddress
  <2> QED  BY <2>6, <2>7
<1> DEFINE each == {p} \cup {rs[x] : x \in fold}
<1>18. \A x \in People : /\ rs[x].ids = rows[x].ids /\ rs[x].prim = rows[x].prim
                         /\ rs[x].role = rows[x].role
  BY DEF Rekeyed, People
<1>19. /\ \E q \in each : rows'[s].prim = q.prim
       /\ s = owner \/ \A q \in each : rows'[s].role <= q.role
       /\ fold = {} => rows'[s] = p
       /\ owner \in {r} \cup fold => s = owner
       /\ owner' = IF owner = NoRow THEN s ELSE owner
       /\ \A t \in Tokens : sessions[t] # NoSession =>
            \/ sessions'[t] = rows'[s].prim
            \/ /\ sessions'[t] = sessions[t]
               /\ all = {r} \/ \A x \in all \cap People : ~SameId(sessions[t], rs[x].prim)
       /\ \A x \in Rows \ all : rows'[x] = rs[x]
  BY <1>s DEF Seated
<1>20. \A q \in each : Primed(q) /\ \A i \in q.ids : i \in rows'[s].ids
  <2>1. \A x \in fold : Primed(rs[x])
    BY <1>15, <1>18 DEF PrimaryOwned, Primed, Owns
  <2>2. \A x \in fold : rs[x].ids \subseteq rows'[s].ids
    BY <1>2, <1>18
  <2> QED  BY <1>2, <2>1, <2>2 DEF Heir
<1> HIDE DEF each
<1>21. Primed(rows'[s])
  BY <1>19, <1>20 DEF Primed, Owns
<1>22. PrimaryOwned'
  <2> SUFFICES ASSUME NEW x \in People' PROVE Primed(rows'[x])
    BY DEF PrimaryOwned, Primed, Owns, SameId, Real
  <2>1. CASE x = s
    BY <2>1, <1>21
  <2>2. CASE x # s
    <3>1. x \in People /\ rows'[x] = rs[x]
      BY <2>2, <1>2, <1>3, <1>5
    <3> QED  BY <3>1, <1>15, <1>18 DEF PrimaryOwned, Primed, Owns
  <2> QED  BY <2>1, <2>2
<1>23. \A x \in all \cap People : \A i \in rows[x].ids : Real(i) => Owns(rows'[s], i)
  <2>1. \A i : Owns(p, i) => Owns(rows'[s], i)
    BY <1>2 DEF Owns
  <2>2. \A x \in fold : \A i \in rows[x].ids : Real(i) => Owns(rows'[s], i)
    BY <1>2 DEF Owns, SameId
  <2> QED  BY <2>1, <2>2 DEF Heir
<1>24. \A x \in People \ all : rows'[x] = rs[x] /\ rows'[x] # NoRow /\ x # s
  BY <1>19 DEF People, Rekeyed
<1>25. NoRow \notin Rows
  BY AccountsAssumption DEF AccountsAssumption
<1>26. \A x \in Rows : x = owner => owner' = x
  BY <1>19, <1>25
<1>27. KeepsEach
  <2> SUFFICES ASSUME NEW x \in People, NEW i \in rows[x].ids, Real(i)
               PROVE  \E q \in Rows : /\ rows'[q] # NoRow /\ Owns(rows'[q], i)
                                      /\ x = owner => q = owner'
    BY DEF KeepsEach
  <2>0. x \in Rows
    BY DEF People
  <2>1. CASE x \in all
    <3>1. x = owner => s = owner
      BY <1>19, <2>1 DEF Heir
    <3> QED  BY <2>0, <2>1, <3>1, <1>2, <1>5, <1>23, <1>26
  <2>2. CASE x \notin all
    <3>1. rows'[x] # NoRow /\ Owns(rows'[x], i)
      BY <2>2, <1>18, <1>24 DEF Owns, SameId
    <3> QED  BY <2>0, <3>1, <1>26
  <2> QED  BY <2>1, <2>2
\* An account of a row outside the fold is on no other row afterwards.
<1>28. \A x \in People \ all : \A i, q : Owns(rows[x], i) /\ q \in Rows /\ rows'[q] # NoRow /\ Owns(rows'[q], i) => q = x
  <2> SUFFICES ASSUME NEW x \in People \ all, NEW i, NEW q \in Rows, Owns(rows[x], i),
                      rows'[q] # NoRow, Owns(rows'[q], i)
               PROVE  q = x
    OBVIOUS
  <2>1. PICK j \in rows[x].ids : SameId(j, i)
    BY DEF Owns
  <2>2. PICK k \in rows'[q].ids : SameId(k, i)
    BY DEF Owns
  <2>3. x \in People' /\ q \in People' /\ j \in rows'[x].ids /\ SameId(j, k)
    BY <2>1, <2>2, <1>5, <1>18, <1>24 DEF People, SameId
  <2> QED  BY <2>2, <2>3, <1>10 DEF OneRowEach, SameId, Real
<1>29. NoneRises
  <2> SUFFICES ASSUME NEW x \in People, NEW q \in Rows, rows'[q] # NoRow, q # owner',
                      q = x \/ \E i \in rows[x].ids : Owns(rows'[q], i)
               PROVE  rows'[q].role <= rows[x].role
    BY DEF NoneRises
  <2>0. x \in Rows /\ rows[x] \in Persons
    BY DEF People, IInv, TypeOK
  <2>1. CASE x \notin all
    <3>1. q = x
      <4>1. ASSUME NEW i \in rows[x].ids, Owns(rows'[q], i) PROVE q = x
        BY <2>1, <4>1, <1>28 DEF Owns, SameId, Real
      <4> QED  BY <4>1
    <3>2. rows'[q].role = rows[x].role
      BY <2>1, <3>1, <1>18, <1>24
    <3> QED  BY <2>0, <3>2 DEF Persons
  <2>2. CASE x \in all
    <3>1. q = s
      <4>1. CASE q = x
        BY <2>2, <4>1, <1>2
      <4>2. CASE q # s /\ \E i \in rows[x].ids : Owns(rows'[q], i)
        <5>1. PICK i \in rows[x].ids : Owns(rows'[q], i)
          BY <4>2
        <5>2. q \in People \ all /\ rows'[q].ids = rows[q].ids
          BY <4>2, <1>3
        <5> QED  BY <2>2, <5>1, <5>2, <1>6 DEF OneRowEach, Owns, SameId, Real
      <4> QED  BY <4>1, <4>2
    <3>2. s # owner
      BY <3>1, <1>26, <1>5
    <3>3. /\ rows'[s].role <= p.role
          /\ \A y \in fold : rows'[s].role <= rs[y].role
      BY <3>2, <1>19 DEF each
    <3>4. CASE x \in fold
      BY <3>1, <3>3, <3>4, <1>18
    <3>5. CASE x \in {r} \cup gone
      <4>1. r # owner
        BY <3>2, <1>19
      <4>2. p.role <= rows[x].role
        BY <3>5, <4>1 DEF Heir
      <4>3. rows'[s] \in Persons
        BY <1>1, <1>2, <1>5
      <4> QED  BY <2>0, <3>1, <3>3, <4>2, <4>3 DEF Persons
    <3> QED  BY <2>2, <3>4, <3>5
  <2> QED  BY <2>1, <2>2
<1>30. SessionsStay
  <2> SUFFICES ASSUME NEW t \in Tokens, NEW x \in Rows, NEW q \in Rows, Live(t), rows[x] # NoRow,
                      SameId(sessions[t], rows[x].prim), sessions'[t] # NoSession,
                      rows'[q] # NoRow, Owns(rows'[q], sessions'[t])
               PROVE  SameId(sessions'[t], rows'[q].prim)
    BY DEF SessionsStay
  <2>0. x \in People /\ sessions[t] # NoSession /\ q \in People'
    BY DEF People, Live
  <2>1. Real(rows[x].prim) /\ Owns(rows[x], rows[x].prim)
    BY <2>0, <1>15 DEF PrimaryOwned, Primed, SameId, Real
  <2>2. Owns(rows[x], sessions[t])
    BY <2>1 DEF Owns, SameId, Real
  <2>3. CASE sessions'[t] = rows'[s].prim
    <3>1. Real(rows'[s].prim)
      BY <2>3 DEF Owns, SameId, Real
    <3>2. Owns(rows'[s], rows'[s].prim)
      BY <3>1, <1>21 DEF Primed
    <3>3. q = s
      <4>1. s \in People'
        BY <1>2, <1>5
      <4> QED  BY <2>0, <2>3, <3>2, <4>1, <1>10 DEF OneRowEach, Owns, SameId, Real
    <3> QED  BY <2>3, <3>1, <3>3 DEF SameId
  <2>4. CASE /\ sessions'[t] = sessions[t]
             /\ all = {r} \/ \A y \in all \cap People : ~SameId(sessions[t], rs[y].prim)
    <3>1. CASE x \notin all
      <4>1. q = x
        BY <2>0, <2>2, <2>4, <3>1, <1>28
      <4> QED  BY <2>0, <2>4, <3>1, <4>1, <1>18, <1>24
    <3>2. CASE x \in all
      <4>1. all = {r} /\ x = r
        BY <2>0, <2>4, <3>2, <1>18
      <4>2. fold = {} /\ gone = {} /\ s = r
        <5>1. fold \subseteq {r} /\ gone \subseteq {r}
          BY <4>1
        <5>2. fold = {}
          BY <5>1
        <5>3. gone = {}
          BY <5>1 DEF Heir
        <5> QED  BY <5>2, <5>3
      <4>3. rows'[s].prim = rows[r].prim
        BY <2>0, <2>1, <4>1, <4>2, <1>19 DEF Heir
      <4>4. q = s
        <5>1. CASE q # s
          <6>1. q \in People /\ rows'[q].ids = rows[q].ids
            BY <5>1, <1>3
          <6> QED  BY <2>0, <2>2, <2>4, <4>1, <4>2, <5>1, <6>1, <1>6 DEF OneRowEach, Owns, SameId, Real
        <5> QED  BY <5>1
      <4> QED  BY <2>4, <4>1, <4>2, <4>3, <4>4
    <3> QED  BY <3>1, <3>2
  <2> QED  BY <2>0, <2>3, <2>4, <1>19
<1> QED  BY <1>1, <1>10, <1>11, <1>13, <1>14, <1>16, <1>17, <1>22, <1>27, <1>29, <1>30 DEF Safe, Carried

-----------------------------------------------------------------------------
(* Coming in, linking and combining.                                       *)

LEMMA AdoptSafe ==
  ASSUME AccountsAssumption, IInv, NEW rs, Rekeyed(rs), NEW r \in Rows, NEW p \in Persons,
         NEW u, NEW gone \in SUBSET Rows, NEW open \in BOOLEAN, Adopt(rs, r, p, u, gone, open),
         Alone(p, {r} \cup gone), Unused(rs, p), Fresh(rs, p, {r} \cup gone), Heir(p, r, gone),
         UNCHANGED <<blocked, minted, expired>>
  PROVE  Safe
<1> DEFINE done == {r} \cup gone
           kin  == Kin(done, p, u)
<1>1. PICK fold \in SUBSET (kin \cup InLaws(done, kin)) :
        kin \subseteq fold /\ Settle(rs, r, p, gone, fold, open)
  BY DEF Adopt
<1>2. kin \cup InLaws(done, kin) \subseteq People \ done
  BY DEF Kin, InLaws
<1>3. fold \in SUBSET People /\ fold \cap ({r} \cup gone) = {}
  BY <1>2
\* Whoever shares a proven address of p is kin, so folded in.
<1>4. Reach(p, {r} \cup gone \cup fold)
  BY <1>1 DEF Reach, Kin
<1> HIDE DEF done, kin
<1> QED  BY ONLY <1>1, <1>3, <1>4, SettleSafe, AccountsAssumption, IInv, Rekeyed(rs), r \in Rows,
               p \in Persons, gone \in SUBSET Rows, open \in BOOLEAN, Alone(p, {r} \cup gone),
               Unused(rs, p), Fresh(rs, p, {r} \cup gone), Heir(p, r, gone),
               UNCHANGED <<blocked, minted, expired>>

\* Whoever already has a row gets that one.
LEMMA SeatFacts ==
  ASSUME OneRowEach, NEW u, NEW r \in Seat(u)
  PROVE  r \in Rows /\ PersonOf(u) \subseteq {r}
<1>1. r \in Rows
  BY DEF Seat, Else, PersonOf, ByEmail, PendingFor, People
<1>2. CASE PersonOf(u) = {}
  BY <1>1, <1>2
<1>3. CASE PersonOf(u) # {}
  <2>1. r \in PersonOf(u)
    BY <1>3 DEF Seat, Else
  <2>2. \A q \in PersonOf(u) : q = r
    BY <2>1 DEF OneRowEach, PersonOf, Owns, SameId, Real
  <2> QED  BY <1>1, <2>2
<1> QED  BY <1>2, <1>3

\* An account that is on no row but those done, and not blocked, can join a person of
\* whom that holds.
LEMMA AdoptedAlone ==
  ASSUME AccountsAssumption, IInv, NEW p \in Persons, NEW u \in Entrants, NEW done,
         PersonOf(u) \subseteq done, ~Blocked(u), Alone(p, done)
  PROVE  Alone(Adopted(p, u), done)
<1>1. /\ \A i \in Adopted(p, u).ids : i \in p.ids \/ (i.id = u.id /\ i.provider = u.provider)
      /\ \A i, j \in Adopted(p, u).ids : SameId(i, j) => i = j
  BY AdoptedFacts DEF Alone
<1>2. \A i \in Adopted(p, u).ids : \A x \in People \ done : \A j \in rows[x].ids :
        ~SameId(i, j) /\ ~SameId(j, i)
  BY <1>1 DEF Alone, PersonOf, Owns, SameId, Real
<1>3. \A i \in Adopted(p, u).ids : \A b \in blocked : ~SameId(b, i)
  BY <1>1 DEF Alone, Blocked, SameId, Real
<1> QED  BY <1>1, <1>2, <1>3 DEF Alone

\* Who adopts an identity still owns what they owned, and their primary.
LEMMA AdoptedOwns ==
  ASSUME AccountsAssumption, NEW p \in Persons, NEW u \in Entrants, Bare(p), Primed(p),
         \A i, j \in p.ids : SameId(i, j) => i = j
  PROVE  /\ Bare(Adopted(p, u)) /\ Primed(Adopted(p, u))
         /\ \A i : Owns(p, i) => Owns(Adopted(p, u), i)
         /\ Adopted(p, u).role = p.role
         /\ Real(p.prim) => Adopted(p, u).prim = p.prim
<1>0. Real(u)
  BY AccountsAssumption DEF Real, Entrants, AccountsAssumption
<1>1. Bare(Adopted(p, u))
  <2>1. \A i \in Adopted(p, u).ids : i \in p.ids \/ (i.id = u.id /\ i.provider = u.provider)
    BY AdoptedFacts
  <2> QED  BY <1>0, <2>1 DEF Bare, Real
<1>2. /\ \A i \in p.ids : Real(i) => Owns(Adopted(p, u), i)
      /\ Adopted(p, u).role = p.role
      /\ Real(p.prim) => Adopted(p, u).prim = p.prim
      /\ ~Real(p.prim) => /\ Adopted(p, u).prim = HandleOf(u)
                          /\ Real(u) => Owns(Adopted(p, u), HandleOf(u))
  BY AdoptedShape
<1>3. \A i : Owns(p, i) => Owns(Adopted(p, u), i)
  BY <1>2 DEF Owns, SameId, Real
<1>4. Primed(Adopted(p, u))
  BY <1>0, <1>2, <1>3 DEF Primed
<1> QED  BY <1>1, <1>2, <1>3, <1>4

LEMMA EnterSafe ==
  ASSUME AccountsAssumption, IInv, NEW rs, Rekeyed(rs), NEW u \in Entrants, Enter(rs, u),
         ~Blocked(u), UNCHANGED <<blocked, minted, expired>>,
         u.id \in Keys => u.id \in minted,
         \A x \in People : rs[x].key # NoKey => rs[x].key # u.id
  PROVE  Safe
<1> DEFINE joined(r) == IF r \in People THEN Adopted(rs[r], u) ELSE NewPerson(u)
<1>1. PICK r \in Seat(u) : Adopt(rs, r, joined(r), u, {}, TRUE)
  BY DEF Enter
<1>2. r \in Rows /\ PersonOf(u) \subseteq {r}
  BY SeatFacts DEF IInv
<1>3. \A x \in People : /\ rs[x] \in Persons /\ rs[x].ids = rows[x].ids
                        /\ rs[x].key = NoKey \/ rs[x].key = rows[x].key
  BY DEF Rekeyed, People
<1>4. \A x \in People : rs[x].key # NoKey => rs[x].key = rows[x].key
  BY <1>3
<1> DEFINE p == joined(r)
<1>5. /\ p \in Persons /\ Alone(p, {r})
      /\ \A i \in p.ids : (i.id = u.id) \/ (r \in People /\ i \in rows[r].ids)
      /\ p.key = NoKey \/ (r \in People /\ p.key = rs[r].key)
  <2>1. CASE r \in People
    <3>1. rs[r] \in Persons /\ p = Adopted(rs[r], u)
      BY <2>1, <1>3
    <3>2. Alone(rs[r], {r})
      BY <2>1, <1>3 DEF Alone, IInv, OneRowEach, BlockedOut, SameId, Real
    <3>3. Alone(p, {r})
      BY <3>1, <3>2, <1>2, AdoptedAlone
    <3>4. /\ p \in Persons /\ p.key = rs[r].key
          /\ \A i \in p.ids : i \in rs[r].ids \/ (i.id = u.id /\ i.provider = u.provider)
      BY <3>1, <3>2, AdoptedFacts DEF Alone
    <3> QED  BY <3>3, <3>4, <2>1, <1>3
  <2>2. CASE r \notin People
    <3>1. p = NewPerson(u)
      BY <2>2
    <3>2. p \in Persons /\ p.ids = {Identity(u)} /\ p.key = NoKey
      BY <3>1 DEF NewPerson, Persons, Identity, Identities, HandleOf, Handles, Entrants, Editor
    <3>3. Alone(p, {r})
      BY <3>2, <1>2 DEF Alone, Identity, PersonOf, Owns, Blocked, SameId, Real
    <3> QED  BY <3>2, <3>3 DEF Identity
  <2> QED  BY <2>1, <2>2
<1>h. Heir(p, r, {})
  <2>0. {r} \cup {} = {r} /\ r \notin {} /\ owner \notin {}
    OBVIOUS
  <2>1. CASE r \in People
    <3>1. rs[r] \in Persons /\ p = Adopted(rs[r], u)
      BY <2>1, <1>3
    <3>2. rs[r].ids = rows[r].ids /\ rs[r].prim = rows[r].prim /\ rs[r].role = rows[r].role
      BY <2>1 DEF Rekeyed, People
    <3>3. Bare(rs[r]) /\ Primed(rs[r]) /\ \A i, j \in rs[r].ids : SameId(i, j) => i = j
      BY <2>1, <3>2 DEF IInv, InvitesBare, PrimaryOwned, Bare, Primed, Owns, OneRowEach
    <3>4. /\ Bare(p) /\ Primed(p)
          /\ \A i : Owns(rs[r], i) => Owns(p, i)
          /\ p.role = rows[r].role
          /\ Real(rows[r].prim) => p.prim = rows[r].prim
      BY <3>1, <3>2, <3>3, AdoptedOwns
    <3>5. \A i \in rows[r].ids : Real(i) => Owns(p, i)
      BY <3>2, <3>4 DEF Owns, SameId
    <3>6. p.role <= rows[r].role
      BY <3>1, <3>2, <3>4 DEF Persons
    <3> QED  BY <2>0, <3>4, <3>5, <3>6 DEF Heir
  <2>2. CASE r \notin People
    <3>1. p = NewPerson(u)
      BY <2>2
    <3>2. Real(u)
      BY AccountsAssumption DEF Real, Entrants, AccountsAssumption
    <3>3. p.ids = {Identity(u)} /\ p.prim = HandleOf(u)
      BY <3>1 DEF NewPerson
    <3>4. /\ Identity(u).id = u.id /\ Identity(u).provider = u.provider
          /\ HandleOf(u).id = u.id /\ HandleOf(u).provider = u.provider
      BY DEF Identity, HandleOf
    <3>5. Bare(p)
      BY <3>2, <3>3, <3>4 DEF Bare, Real
    <3>6. SameId(Identity(u), HandleOf(u))
      BY <3>2, <3>4 DEF SameId, Real
    <3>7. Owns(p, HandleOf(u))
      BY <3>3, <3>6 DEF Owns
    <3>8. Primed(p)
      BY <3>3, <3>7 DEF Primed
    <3> QED  BY <2>0, <2>2, <3>5, <3>8 DEF Heir
  <2> QED  BY <2>1, <2>2
<1> HIDE DEF joined, p
<1>6. Unused(rs, p)
  BY <1>4, <1>5 DEF Unused, IInv, KeyUsedOnce
<1>7. Fresh(rs, p, {r})
  BY <1>5 DEF Fresh, IInv, KeysFresh
<1>8. {r} \cup {} = {r}
  OBVIOUS
<1>9. Adopt(rs, r, p, u, {}, TRUE)
  BY <1>1 DEF p
<1>10. Alone(p, {r} \cup {}) /\ Fresh(rs, p, {r} \cup {})
  BY <1>5, <1>7, <1>8
<1> QED  BY ONLY <1>2, <1>5, <1>6, <1>9, <1>10, <1>h, AdoptSafe, AccountsAssumption, IInv, Rekeyed(rs),
               {} \in SUBSET Rows, TRUE \in BOOLEAN, UNCHANGED <<blocked, minted, expired>>

\* Rows joined whole are alone on the team but for themselves.
LEMMA JoinedAlone ==
  ASSUME IInv, NEW p \in Persons, NEW done \in SUBSET People,
         \A i \in p.ids : \E x \in done : i \in rows[x].ids
  PROVE  Alone(p, done)
<1>1. OneRowEach /\ BlockedOut
  BY DEF IInv
<1>2. \A i \in p.ids : \A x \in People \ done : \A j \in rows[x].ids : ~SameId(i, j) /\ ~SameId(j, i)
  BY <1>1 DEF OneRowEach, SameId, Real
<1>3. \A i, j \in p.ids : SameId(i, j) => i = j
  BY <1>1 DEF OneRowEach
<1>4. \A i \in p.ids : \A b \in blocked : ~SameId(b, i)
  BY <1>1 DEF BlockedOut
<1> QED  BY <1>2, <1>3, <1>4 DEF Alone

LEMMA LinkSafe ==
  ASSUME AccountsAssumption, IInv, NEW u \in Users, LinkFinish(u)
  PROVE  Safe
<1>1. PICK me \in PersonOf(linking.who) :
        LET other == PersonOf(u)
            s     == Survivor(me, other)
            gone  == ({me} \cup other) \ {s}
            p     == Whole(rows[s], {rows[x] : x \in gone}, s = owner)
            w     == Unpublished(u)
        IN  Adopt(rows, s, Adopted(p, w), w, gone, FALSE)
  BY DEF LinkFinish
<1>2. ~Blocked(u) /\ UNCHANGED <<blocked, minted, expired>>
  BY DEF LinkFinish
<1> DEFINE other == PersonOf(u)
           s     == Survivor(me, other)
           gone  == ({me} \cup other) \ {s}
           those == {rows[x] : x \in gone}
           owns  == s = owner
           p     == Whole(rows[s], those, owns)
           w     == Unpublished(u)
           q     == Adopted(p, w)
           done  == {s} \cup gone
<1>3. Adopt(rows, s, q, w, gone, FALSE)
  BY <1>1
<1>4. other \subseteq People /\ me \in People
  BY DEF PersonOf
<1>5. s \in {me} \cup other
  BY DEF Survivor
<1>6. done \in SUBSET People /\ PersonOf(u) \subseteq done /\ s \in Rows /\ gone \in SUBSET Rows
  BY <1>4, <1>5 DEF People
<1>7. w \in Entrants /\ w.id \in Ids /\ w.id = u.id /\ w.provider = u.provider
  BY AccountsAssumption DEF AccountsAssumption, Claimants, Entrants, Unpublished
<1> HIDE DEF w
<1>0. PersonOf(w) \subseteq done /\ ~Blocked(w)
  BY <1>2, <1>6, <1>7 DEF PersonOf, Owns, Blocked, SameId
<1>8. \A x \in People : rows[x] \in Persons
  BY DEF IInv, TypeOK, People
<1>9. Rekeyed(rows)
  BY DEF Rekeyed, IInv, TypeOK
<1>o. s \notin gone /\ owner \notin gone
  BY DEF Survivor
<1>t. /\ \A o \in those : \E x \in gone : o = rows[x]
      /\ \A x \in gone : rows[x] \in those
      /\ gone = {} => those = {}
  OBVIOUS
<1> HIDE DEF other, s
<1>10. rows[s] \in Persons /\ those \in SUBSET Persons
  BY <1>6, <1>8
<1> HIDE DEF owns
<1>11. /\ p \in Persons
       /\ \A i \in Identities : i \in p.ids <=> (i \in rows[s].ids \/ \E o \in those : i \in o.ids)
       /\ \/ p.key = NoKey \/ p.key = rows[s].key
          \/ \E o \in those : p.key = o.key
  <2> HIDE DEF those
  <2>1. p \in Persons
    BY <1>10, WholeFacts
  <2>2. \A i \in Identities : i \in p.ids <=> (i \in rows[s].ids \/ \E o \in those : i \in o.ids)
    BY <1>10, WholeFacts
  <2>3. \/ p.key = NoKey \/ p.key = rows[s].key
        \/ \E o \in those : p.key = o.key
    BY ONLY <1>10, WholeFacts
  <2> QED  BY <2>1, <2>2, <2>3
<1>w. /\ \E o \in {rows[s]} \cup those : p.prim = o.prim
      /\ owns \/ \A o \in {rows[s]} \cup those : p.role <= o.role
      /\ those = {} => p = rows[s]
  <2> HIDE DEF those
  <2>1. \E o \in {rows[s]} \cup those : p.prim = o.prim
    BY <1>10, WholeShape
  <2>2. owns \/ \A o \in {rows[s]} \cup those : p.role <= o.role
    BY <1>10, WholeShape
  <2>3. those = {} => p = rows[s]
    BY ONLY <1>10, WholeShape
  <2> QED  BY <2>1, <2>2, <2>3
<1> HIDE DEF p
<1>12. \A i \in p.ids : \E x \in done : i \in rows[x].ids
  <2>1. p.ids \subseteq Identities
    BY <1>11 DEF Persons
  <2> QED  BY <1>11, <2>1
<1>13. Alone(p, done)
  BY <1>6, <1>11, <1>12, JoinedAlone
<1>14. Alone(q, done)
  <2> HIDE DEF done
  <2> QED  BY <1>0, <1>6, <1>7, <1>11, <1>13, AdoptedAlone
<1>15. /\ q \in Persons /\ q.key = p.key
       /\ \A i \in q.ids : i \in p.ids \/ (i.id = w.id /\ i.provider = w.provider)
  BY <1>7, <1>11, <1>13, AdoptedFacts DEF Alone
<1>h. Heir(q, s, gone)
  <2>1. \A x \in People : Bare(rows[x]) /\ Primed(rows[x])
    BY DEF IInv, InvitesBare, PrimaryOwned
  <2>2. \A x \in done : rows[x] \in {rows[s]} \cup those
    BY <1>t
  <2>3. \A o \in {rows[s]} \cup those : \E x \in done : o = rows[x]
    BY <1>t
  <2>4. \A o \in {rows[s]} \cup those : \A i \in o.ids : i \in p.ids
    <3>1. \A o \in {rows[s]} \cup those : o.ids \subseteq Identities
      BY <1>10 DEF Persons
    <3> QED  BY <1>11, <3>1
  <2>5. Bare(p)
    BY <1>6, <1>12, <2>1 DEF Bare
  <2>6. Primed(p)
    <3>1. PICK o \in {rows[s]} \cup those : p.prim = o.prim
      BY <1>w
    <3>2. Primed(o)
      BY <1>6, <2>1, <2>3
    <3> QED  BY <2>4, <3>1, <3>2 DEF Primed, Owns
  <2>7. /\ Bare(q) /\ Primed(q) /\ \A i : Owns(p, i) => Owns(q, i)
        /\ q.role = p.role
        /\ Real(p.prim) => q.prim = p.prim
    BY <1>7, <1>11, <1>13, <2>5, <2>6, AdoptedOwns DEF Alone
  <2>8. \A x \in done : \A i \in rows[x].ids : Real(i) => Owns(q, i)
    BY <2>2, <2>4, <2>7 DEF Owns, SameId
  <2>9. s = owner \/ \A x \in done : q.role <= rows[x].role
    BY <1>w, <2>2, <2>7 DEF owns
  <2>10. gone = {} /\ Real(rows[s].prim) => q.prim = rows[s].prim
    BY <1>t, <1>w, <2>7
  <2> QED  BY <1>6, <1>o, <2>7, <2>8, <2>9, <2>10 DEF Heir
<1> HIDE DEF q
<1>16. \A i \in q.ids : i.id \in Ids \/ \E x \in People : i \in rows[x].ids
  BY <1>6, <1>7, <1>12, <1>15
<1>17. Ids \cap Keys = {} /\ \A x \in People : rows[x].key \in Keys \cup {NoKey}
  BY <1>8, AccountsAssumption DEF AccountsAssumption, Persons
<1>18. Unused(rows, q)
  BY <1>16, <1>17 DEF Unused, IInv, KeyUsedOnce
<1>19. p.key = NoKey \/ \E x \in done \cap People : p.key = rows[x].key
  BY <1>6, <1>11
<1>20. Fresh(rows, q, done)
  BY <1>15, <1>16, <1>17, <1>19 DEF Fresh, IInv, KeysFresh
<1> HIDE DEF gone
<1>21. Alone(q, {s} \cup gone) /\ Fresh(rows, q, {s} \cup gone)
  BY <1>14, <1>20
<1> QED  BY ONLY <1>2, <1>3, <1>6, <1>9, <1>15, <1>18, <1>21, <1>h, AdoptSafe, AccountsAssumption,
               IInv, FALSE \in BOOLEAN

LEMMA CombineSafe ==
  ASSUME AccountsAssumption, IInv, NEW into \in Rows, NEW from \in Rows, Combine(into, from)
  PROVE  Safe
<1> DEFINE p == rows[into]
           fold == {from}
<1>1. /\ into \in People /\ from \in People /\ into # from
      /\ Settle(rows, into, p, {}, fold, FALSE) /\ UNCHANGED <<blocked, minted, expired>>
  BY DEF Combine
<1>2. \A x \in People : rows[x] \in Persons
  BY DEF IInv, TypeOK, People
<1>3. Rekeyed(rows)
  BY DEF Rekeyed, IInv, TypeOK
<1>4. {into} \cup {} = {into}
  OBVIOUS
<1>5. fold \in SUBSET People /\ fold \cap ({into} \cup {}) = {}
  BY <1>1
<1>6. p \in Persons
  BY <1>1, <1>2
<1>7. Alone(p, {into} \cup {})
  BY <1>1, <1>4, <1>6, JoinedAlone
<1>8. Unused(rows, p)
  BY <1>1 DEF Unused, IInv, KeyUsedOnce
<1>9. Fresh(rows, p, {into} \cup {})
  BY <1>1, <1>4 DEF Fresh, IInv, KeysFresh
<1>10. Heir(p, into, {})
  <2>1. {into} \cup {} = {into} /\ into \notin {} /\ owner \notin {}
    OBVIOUS
  <2>2. Bare(p) /\ Primed(p) /\ p.role <= p.role
    BY <1>1, <1>6 DEF IInv, InvitesBare, PrimaryOwned, Persons
  <2> QED  BY <2>1, <2>2 DEF Heir, Owns, SameId
<1>11. Reach(p, {into} \cup {} \cup fold)
  <2>1. SignedIn(p) \/ EmailsOf(p) = {}
    BY <1>1, InviteAddress DEF IInv, InvitesBare
  <2> QED  BY <1>1, <2>1 DEF Reach, IInv, OneRowPerAddress
<1> HIDE DEF p, fold
<1> QED  BY ONLY <1>1, <1>3, <1>5, <1>6, <1>7, <1>8, <1>9, <1>10, <1>11, SettleSafe, AccountsAssumption, IInv,
               {} \in SUBSET Rows, FALSE \in BOOLEAN, into \in Rows

-----------------------------------------------------------------------------
(* The other steps.                                                        *)

\* Steps that give nobody an account: rows keep what they had or hold invites, and one
\* row at most gets a key, a new one.
Quiet ==
  /\ rows' \in [Rows -> Persons \cup {NoRow}]
  /\ \A x \in People' : \A i \in rows'[x].ids :
       (i.id = Pending /\ i.emails = {}) \/ (x \in People /\ i \in rows[x].ids)
  /\ \A x \in People' : Primed(rows'[x])
  /\ blocked' \subseteq blocked /\ minted \subseteq minted'
  /\ \E z \in Rows : \A x \in People' :
       \/ rows'[x].key = NoKey \/ (x \in People /\ rows'[x].key = rows[x].key)
       \/ x = z /\ rows'[x].key \in minted' \ minted

LEMMA QuietSafe ==
  ASSUME AccountsAssumption, IInv, Quiet
  PROVE  /\ OneRowEach' /\ OneRowPerAddress' /\ InvitesBare' /\ PrimaryOwned'
         /\ BlockedOut' /\ KeyUsedOnce' /\ KeysFresh'
<1>1. PICK z \in Rows : \A x \in People' :
       \/ rows'[x].key = NoKey \/ (x \in People /\ rows'[x].key = rows[x].key)
       \/ x = z /\ rows'[x].key \in minted' \ minted
  BY DEF Quiet
<1>2. \A x \in People' : \A i \in rows'[x].ids : i.id = Pending \/ (x \in People /\ i \in rows[x].ids)
  BY DEF Quiet
<1>a. InvitesBare'
  BY DEF Quiet, IInv, InvitesBare, Bare
<1>b. PrimaryOwned'
  BY DEF Quiet, PrimaryOwned
<1>c. OneRowPerAddress'
  <2>1. \A x \in People' : SignedIn(rows'[x]) => x \in People /\ SignedIn(rows[x])
    BY <1>2 DEF SignedIn, Real
  <2>2. \A x \in People' : x \in People => EmailsOf(rows'[x]) \subseteq EmailsOf(rows[x])
    <3> SUFFICES ASSUME NEW x \in People', x \in People, NEW i \in rows'[x].ids,
                        NEW e \in i.emails \cup Evidence(i)
                 PROVE  \E j \in rows[x].ids : e \in j.emails \cup Evidence(j)
      BY DEF EmailsOf
    <3>1. Pending \notin Ids
      BY AccountsAssumption DEF AccountsAssumption
    <3>2. CASE i.id = Pending /\ i.emails = {}
      BY <3>1, <3>2 DEF Evidence
    <3>3. CASE i \in rows[x].ids
      BY <3>3
    <3> QED  BY <3>2, <3>3 DEF Quiet
  <2>3. OneRowPerAddress
    BY DEF IInv
  <2> SUFFICES ASSUME NEW x \in People', NEW y \in People', x # y,
                      SignedIn(rows'[x]), SignedIn(rows'[y]),
                      NEW e \in EmailsOf(rows'[x]), e \in EmailsOf(rows'[y])
               PROVE  FALSE
    BY DEF OneRowPerAddress, SignedIn, EmailsOf
  <2>4. x \in People /\ y \in People /\ SignedIn(rows[x]) /\ SignedIn(rows[y])
    BY <2>1
  <2>5. e \in EmailsOf(rows[x]) /\ e \in EmailsOf(rows[y])
    BY <2>2, <2>4
  <2> QED  BY <2>3, <2>4, <2>5 DEF OneRowPerAddress
<1>3. blocked' \subseteq blocked /\ minted \subseteq minted'
  BY DEF Quiet
<1>4. Pending \notin Keys /\ \A x \in People' : rows'[x].key # NoKey => rows'[x].key \in Keys
  BY AccountsAssumption DEF Quiet, People, Persons, AccountsAssumption
<1>5. OneRowEach /\ BlockedOut /\ KeyUsedOnce /\ KeysFresh
  BY DEF IInv
<1>6. OneRowEach'
  BY <1>2, <1>5 DEF OneRowEach, SameId, Real
<1>7. BlockedOut'
  BY <1>2, <1>3, <1>5 DEF BlockedOut, SameId, Real
<1>8. \A x \in People' : rows'[x].key # NoKey =>
        \/ x \in People /\ rows'[x].key = rows[x].key /\ rows[x].key \in minted
        \/ x = z /\ rows'[x].key \in minted' /\ rows'[x].key \notin minted
  BY <1>1, <1>5 DEF KeysFresh
<1>9. KeyUsedOnce'
  <2> SUFFICES ASSUME NEW x \in People', rows'[x].key # NoKey
               PROVE  /\ \A q \in People' : rows'[q].key = rows'[x].key => q = x
                      /\ \A q \in People' : \A i \in rows'[q].ids : i.id # rows'[x].key
    BY DEF KeyUsedOnce
  <2>1. ASSUME NEW q \in People', rows'[q].key = rows'[x].key PROVE q = x
    BY <2>1, <1>8, <1>5 DEF KeyUsedOnce
  <2>2. ASSUME NEW q \in People', NEW i \in rows'[q].ids PROVE i.id # rows'[x].key
    <3>1. CASE i.id = Pending
      BY <3>1, <1>4
    <3>2. CASE q \in People /\ i \in rows[q].ids
      BY <3>2, <1>4, <1>5, <1>8 DEF KeyUsedOnce, KeysFresh
    <3> QED  BY <1>2, <3>1, <3>2
  <2> QED  BY <2>1, <2>2
<1>10. KeysFresh'
  <2>1. \A x \in People' : \A i \in rows'[x].ids : i.id \in Keys => i.id \in minted'
    BY <1>2, <1>3, <1>4, <1>5 DEF KeysFresh
  <2>2. \A b \in blocked' : b.id \in Keys => b.id \in minted'
    BY <1>3, <1>5 DEF KeysFresh
  <2>3. \A x \in People' : rows'[x].key # NoKey =>
          rows'[x].key \in minted' /\ \A b \in blocked' : b.id # rows'[x].key
    BY <1>3, <1>4, <1>5, <1>8 DEF KeysFresh
  <2> QED  BY <2>1, <2>2, <2>3 DEF KeysFresh
<1> QED  BY <1>a, <1>b, <1>c, <1>6, <1>7, <1>9, <1>10

\* Steps by which no row gains an account or changes its primary.
NothingGained ==
  \A q \in Rows : rows'[q] # NoRow =>
    \/ q \in People /\ rows'[q].ids \subseteq rows[q].ids /\ rows'[q].prim = rows[q].prim
    \/ q \notin People /\ \A i \in rows'[q].ids : i.id = Pending

\* Then an account on a row was on that row, so no role rises that is not given ...
LEMMA RolesKept ==
  ASSUME IInv, NothingGained,
         \A q \in People : rows'[q] # NoRow => rows'[q].role = rows[q].role
  PROVE  NoneRises
<1> SUFFICES ASSUME NEW r \in People, NEW q \in Rows, rows'[q] # NoRow,
                    q = r \/ \E i \in rows[r].ids : Owns(rows'[q], i)
             PROVE  rows'[q].role <= rows[r].role
  BY DEF NoneRises
<1>1. q = r
  <2> SUFFICES ASSUME NEW i \in rows[r].ids, NEW j \in rows'[q].ids, SameId(j, i)
               PROVE  q = r
    BY DEF Owns
  <2>1. q \in People /\ j \in rows[q].ids
    BY DEF NothingGained, SameId, Real
  <2> QED  BY <2>1 DEF IInv, OneRowEach
<1>2. rows[r].role \in 1..3
  BY DEF People, IInv, TypeOK, Persons
<1> QED  BY <1>1, <1>2

\* ... and a session that goes on stands for whom it stood for.
LEMMA SessionsKept ==
  ASSUME IInv, NothingGained, \A t \in Tokens : sessions'[t] \in {sessions[t], NoSession}
  PROVE  SessionsStay
<1> SUFFICES ASSUME NEW t \in Tokens, NEW r \in Rows, NEW q \in Rows, rows[r] # NoRow,
                    SameId(sessions[t], rows[r].prim), sessions'[t] # NoSession, rows'[q] # NoRow,
                    Owns(rows'[q], sessions'[t])
             PROVE  SameId(sessions'[t], rows'[q].prim)
  BY DEF SessionsStay
<1>1. sessions'[t] = sessions[t]
  OBVIOUS
<1>2. PICK j \in rows'[q].ids : SameId(j, sessions[t])
  BY <1>1 DEF Owns
<1>3. q \in People /\ j \in rows[q].ids /\ rows'[q].prim = rows[q].prim
  BY <1>2 DEF NothingGained, SameId, Real
<1>4. PICK i \in rows[r].ids : SameId(i, rows[r].prim)
  BY DEF IInv, PrimaryOwned, Primed, Owns, SameId, Real, People
<1>5. SameId(i, j)
  BY <1>2, <1>4 DEF SameId, Real
<1>6. q = r
  BY <1>3, <1>4, <1>5 DEF IInv, OneRowEach, People
<1> QED  BY <1>1, <1>3, <1>6

LEMMA AccountsKept ==
  ASSUME owner' = owner, \A x \in People : rows'[x] # NoRow /\ rows'[x].ids = rows[x].ids
  PROVE  KeepsEach
BY DEF KeepsEach, Owns, SameId, People

\* Nobody joins anybody: rows keep what they had, but for accounts taken off, or hold a
\* new invite.
NobodyJoins ==
  \A x \in People' :
    \/ /\ x \in People /\ rows'[x].ids \subseteq rows[x].ids
       /\ rows'[x].ids = {} => rows[x].ids = {}
    \/ \E i : rows'[x].ids = {i} /\ i.id = Pending /\ i.emails = {}

\* Steps that touch nothing but keys, new invites, and sessions that end.
Steady ==
  /\ owner' = owner
  /\ \A x \in People : /\ rows'[x] # NoRow /\ rows'[x].ids = rows[x].ids
                        /\ rows'[x].prim = rows[x].prim /\ rows'[x].role = rows[x].role
  /\ \A x \in Rows \ People : rows'[x] # NoRow =>
       \E i : rows'[x].ids = {i} /\ i.id = Pending /\ i.emails = {}
  /\ \A t \in Tokens : sessions'[t] \in {sessions[t], NoSession}

LEMMA SteadyCarried ==
  ASSUME IInv, Steady
  PROVE  Carried /\ NobodyJoins
<1>1. NothingGained
  BY DEF NothingGained, Steady
<1>2. NoneRises
  BY <1>1, RolesKept DEF Steady
<1>3. SessionsStay
  BY <1>1, SessionsKept DEF Steady
<1>4. KeepsEach
  BY AccountsKept DEF Steady
<1>5. NobodyJoins
  BY DEF NobodyJoins, Steady, People
<1> QED  BY <1>2, <1>3, <1>4, <1>5 DEF Carried

LinkStates == Links \cup {NoLink}

LEMMA FollowedType ==
  ASSUME TypeOK, NEW ss \in [Tokens -> Handles \cup {NoSession}]
  PROVE  Followed(ss) \in LinkStates
<1>1. CASE linking = NoLink \/ linking.token = NoToken
  BY <1>1 DEF Followed, TypeOK, LinkStates
<1>2. CASE linking # NoLink /\ linking.token # NoToken
  <2>1. linking \in Links /\ linking.token \in Tokens
    BY <1>2 DEF TypeOK, Links
  <2>2. CASE ss[linking.token] = NoSession
    BY <1>2, <2>1, <2>2 DEF Followed, Links, LinkStates
  <2>3. CASE ss[linking.token] # NoSession
    <3>1. ss[linking.token] \in Handles
      BY <2>1, <2>3
    <3> QED  BY <1>2, <2>1, <2>3, <3>1 DEF Followed, Links, LinkStates
  <2> QED  BY <2>2, <2>3
<1> QED  BY <1>1, <1>2

\* What follows from the parts of the invariant, step by step.
LEMMA SafeInv ==
  ASSUME TypeOK, Safe, UNCHANGED <<blocked, minted, expired>>, linking' \in LinkStates
  PROVE  IInv' /\ Carried
BY DEF Safe, IInv, TypeOK, LinkStates

LEMMA QuietInv ==
  ASSUME AccountsAssumption, IInv, Quiet, owner' = owner, minted' \subseteq Keys,
         expired' \subseteq minted', linking' \in LinkStates,
         sessions' \in [Tokens -> Handles \cup {NoSession}]
  PROVE  IInv'
<1>1. TypeOK'
  BY DEF Quiet, IInv, TypeOK, LinkStates
<1> QED  BY <1>1, QuietSafe DEF IInv

\* Rows left alone are quiet.
LEMMA SameRows ==
  ASSUME AccountsAssumption, IInv, UNCHANGED <<rows, owner, blocked, minted>>,
         expired' \subseteq minted, linking' \in LinkStates,
         sessions' \in [Tokens -> Handles \cup {NoSession}],
         \A t \in Tokens : sessions'[t] \in {sessions[t], NoSession}
  PROVE  IInv' /\ Carried /\ NobodyJoins
<1>1. TypeOK'
  BY DEF IInv, TypeOK, LinkStates
<1>2. People' = People
  BY DEF People
<1>3. Steady
  BY DEF Steady, People
<1>4. OneRowEach' /\ BlockedOut' /\ KeyUsedOnce' /\ KeysFresh'
  BY <1>2 DEF IInv, OneRowEach, BlockedOut, KeyUsedOnce, KeysFresh
<1>5. OneRowPerAddress' /\ InvitesBare' /\ PrimaryOwned'
  <2>1. OneRowPerAddress'
    BY <1>2 DEF IInv, OneRowPerAddress
  <2>2. InvitesBare' /\ PrimaryOwned'
    BY <1>2 DEF IInv, InvitesBare, PrimaryOwned
  <2> QED  BY <2>1, <2>2
<1> QED  BY <1>1, <1>3, <1>4, <1>5, SteadyCarried DEF IInv

LEMMA InitInv ==
  ASSUME AccountsAssumption, Init
  PROVE  IInv
<1>1. People = {}
  BY DEF Init, People
<1>2. TypeOK
  BY DEF Init, TypeOK
<1>3. OneRowEach /\ OneRowPerAddress /\ InvitesBare /\ PrimaryOwned
  BY <1>1 DEF OneRowEach, OneRowPerAddress, InvitesBare, PrimaryOwned
<1>4. BlockedOut /\ KeyUsedOnce /\ KeysFresh
  BY <1>1 DEF Init, BlockedOut, KeyUsedOnce, KeysFresh
<1> QED  BY <1>2, <1>3, <1>4 DEF IInv

LEMMA SignInInv ==
  ASSUME AccountsAssumption, IInv, NEW u \in Users, SignIn(u)
  PROVE  IInv' /\ Carried
<1>1. u \in Entrants /\ u.id \in Ids
  BY AccountsAssumption DEF AccountsAssumption, Claimants, Entrants
<1>2. /\ ~Blocked(u) /\ Enter(rows, u) /\ UNCHANGED <<blocked, minted, expired>>
      /\ linking' = Followed(sessions')
  BY DEF SignIn, MayEnter
<1>3. Rekeyed(rows) /\ Ids \cap Keys = {} /\ \A x \in People : rows[x].key \in Keys \cup {NoKey}
  BY AccountsAssumption DEF Rekeyed, IInv, TypeOK, AccountsAssumption, People, Persons
<1>4. (u.id \in Keys => u.id \in minted) /\ \A x \in People : rows[x].key # NoKey => rows[x].key # u.id
  BY <1>1, <1>3
<1>5. Safe
  BY ONLY <1>1, <1>2, <1>3, <1>4, EnterSafe, AccountsAssumption, IInv
<1>6. linking' \in LinkStates
  BY <1>2, <1>5, FollowedType DEF IInv, Safe
<1> QED  BY <1>2, <1>5, <1>6, SafeInv DEF IInv

LEMMA SignInMasoraInv ==
  ASSUME AccountsAssumption, IInv, NEW u \in Guests, SignInMasora(u)
  PROVE  IInv' /\ Carried
<1>1. u \in Entrants /\ u.id \in Ids
  BY AccountsAssumption DEF AccountsAssumption, Claimants, Entrants
<1>2. /\ ~Blocked(u) /\ Enter(rows, u) /\ UNCHANGED <<blocked, minted, expired>>
      /\ linking' = Followed(sessions')
  BY DEF SignInMasora
<1>3. Rekeyed(rows) /\ Ids \cap Keys = {} /\ \A x \in People : rows[x].key \in Keys \cup {NoKey}
  BY AccountsAssumption DEF Rekeyed, IInv, TypeOK, AccountsAssumption, People, Persons
<1>4. (u.id \in Keys => u.id \in minted) /\ \A x \in People : rows[x].key # NoKey => rows[x].key # u.id
  BY <1>1, <1>3
<1>5. Safe
  BY ONLY <1>1, <1>2, <1>3, <1>4, EnterSafe, AccountsAssumption, IInv
<1>6. linking' \in LinkStates
  BY <1>2, <1>5, FollowedType DEF IInv, Safe
<1> QED  BY <1>2, <1>5, <1>6, SafeInv DEF IInv

LEMMA RedeemInv ==
  ASSUME AccountsAssumption, IInv, NEW k \in Keys, Redeem(k)
  PROVE  IInv' /\ Carried
<1>1. PICK r \in People :
        /\ rows[r].key = k
        /\ IF k \in expired THEN rows' = Spent(r) /\ UNCHANGED <<owner, sessions>>
           ELSE Enter(Spent(r), [provider |-> rows[r].prim.provider, login |-> rows[r].prim.login,
                                 id |-> k, emails |-> {}, public |-> {}, domain |-> FALSE])
  BY DEF Redeem
<1>2. linking' = Followed(sessions') /\ UNCHANGED <<blocked, minted, expired>>
  BY DEF Redeem
<1>3. r \in Rows /\ rows[r] \in Persons /\ rows[r] # NoRow /\ k # NoKey
  BY AccountsAssumption DEF People, IInv, TypeOK, AccountsAssumption
<1> DEFINE bare == [rows[r] EXCEPT !.key = NoKey]
<1>4. /\ bare \in Persons /\ bare.ids = rows[r].ids /\ bare.key = NoKey /\ bare # NoRow
      /\ bare.prim = rows[r].prim /\ bare.role = rows[r].role
  BY <1>3, AccountsAssumption DEF Persons, AccountsAssumption
<1>5. Spent(r) \in [Rows -> Persons \cup {NoRow}] /\ \A x \in Rows : Spent(r)[x] = IF x = r THEN bare ELSE rows[x]
  BY <1>3, <1>4 DEF Spent, IInv, TypeOK
<1> HIDE DEF bare
<1>6. CASE k \in expired
  <2>1. rows' = Spent(r) /\ UNCHANGED <<owner, sessions>>
    BY <1>1, <1>6
  <2>2. People' = People
    BY <2>1, <1>3, <1>4, <1>5 DEF People
  <2>0. \A x \in People' : Primed(rows'[x])
    BY <2>1, <2>2, <1>3, <1>4, <1>5 DEF IInv, PrimaryOwned, Primed, Owns, People
  <2>3. Quiet
    BY <2>0, <2>1, <2>2, <1>2, <1>3, <1>4, <1>5 DEF Quiet, People
  <2>5. Steady
    BY <2>1, <2>2, <1>3, <1>4, <1>5 DEF Steady, People
  <2>4. linking' \in LinkStates /\ sessions' \in [Tokens -> Handles \cup {NoSession}]
    BY <2>1, <1>2, FollowedType DEF IInv, TypeOK
  <2> QED  BY <2>1, <2>3, <2>4, <2>5, <1>2, QuietInv, SteadyCarried DEF IInv, TypeOK
<1>7. CASE k \notin expired
  <2> DEFINE u == [provider |-> rows[r].prim.provider, login |-> rows[r].prim.login,
                   id |-> k, emails |-> {}, public |-> {}, domain |-> FALSE]
             rs == Spent(r)
  <2>1. Enter(rs, u)
    BY <1>1, <1>7
  <2>2. u \in Entrants /\ u.id = k
    BY <1>3 DEF Persons, Handles, Entrants
  <2>3. k \in minted /\ \A b \in blocked : b.id # k
    BY <1>1, <1>3 DEF IInv, KeysFresh
  <2>4. ~Blocked(u)
    BY <2>2, <2>3 DEF Blocked, SameId
  <2>5. Rekeyed(rs)
    BY <1>3, <1>4, <1>5 DEF Rekeyed, IInv, TypeOK
  <2>6. \A x \in People : rs[x].key # NoKey => rs[x].key # u.id
    BY <1>1, <1>3, <1>4, <1>5, <2>2 DEF IInv, KeyUsedOnce, People
  <2> HIDE DEF u, rs
  <2>7. u.id \in Keys => u.id \in minted
    BY <2>2, <2>3
  <2>8. Safe
    BY ONLY <1>2, <2>1, <2>2, <2>4, <2>5, <2>6, <2>7, EnterSafe, AccountsAssumption, IInv
  <2>9. linking' \in LinkStates
    BY <1>2, <2>8, FollowedType DEF IInv, Safe
  <2> QED  BY <1>2, <2>8, <2>9, SafeInv DEF IInv
<1> QED  BY <1>6, <1>7

LEMMA LinkFinishInv ==
  ASSUME AccountsAssumption, IInv, NEW u \in Users, LinkFinish(u)
  PROVE  IInv' /\ Carried
<1>1. Safe
  BY LinkSafe
<1>2. linking' \in LinkStates /\ UNCHANGED <<blocked, minted, expired>>
  BY DEF LinkFinish, LinkStates
<1> QED  BY <1>1, <1>2, SafeInv DEF IInv

LEMMA CombineInv ==
  ASSUME AccountsAssumption, IInv, NEW into \in Rows, NEW from \in Rows, Combine(into, from)
  PROVE  IInv' /\ Carried
<1>1. Safe
  BY CombineSafe
<1>2. linking' = Followed(sessions') /\ UNCHANGED <<blocked, minted, expired>>
  BY DEF Combine
<1>3. linking' \in LinkStates
  BY <1>1, <1>2, FollowedType DEF IInv, Safe
<1> QED  BY <1>1, <1>2, <1>3, SafeInv DEF IInv

LEMMA LinkStartInv ==
  ASSUME AccountsAssumption, IInv, NEW t \in Tokens, NEW provider \in Providers, LinkStart(t, provider)
  PROVE  IInv' /\ Carried /\ NobodyJoins
<1>1. UNCHANGED <<rows, owner, blocked, sessions, minted, expired>>
  BY DEF LinkStart
<1>2. sessions[t] \in Handles
  BY DEF LinkStart, Live, IInv, TypeOK
<1>3. linking' \in LinkStates
  BY <1>2 DEF LinkStart, Links, LinkStates
<1> QED  BY <1>1, <1>3, SameRows DEF IInv, TypeOK

LEMMA LinkDroppedInv ==
  ASSUME AccountsAssumption, IInv, LinkDropped
  PROVE  IInv' /\ Carried /\ NobodyJoins
<1>1. UNCHANGED <<rows, owner, blocked, sessions, minted, expired>> /\ linking' \in LinkStates
  BY DEF LinkDropped, LinkStates
<1> QED  BY <1>1, SameRows DEF IInv, TypeOK

LEMMA OverInv ==
  ASSUME AccountsAssumption, IInv, NEW t \in Tokens, Over(t)
  PROVE  IInv' /\ Carried /\ NobodyJoins
<1>1. UNCHANGED <<rows, owner, blocked, minted, expired>> /\ linking' = Followed(sessions')
  BY DEF Over
<1>2. sessions' \in [Tokens -> Handles \cup {NoSession}]
  BY DEF Over, IInv, TypeOK
<1>3. linking' \in LinkStates
  BY <1>1, <1>2, FollowedType DEF IInv
<1>4. \A x \in Tokens : sessions'[x] \in {sessions[x], NoSession}
  BY DEF Over, IInv, TypeOK
<1> QED  BY <1>1, <1>2, <1>3, <1>4, SameRows DEF IInv, TypeOK

LEMMA ExpireInv ==
  ASSUME AccountsAssumption, IInv, NEW k \in Keys, Expire(k)
  PROVE  IInv' /\ Carried /\ NobodyJoins
<1>1. UNCHANGED <<rows, owner, blocked, sessions, minted, linking>> /\ expired' \subseteq minted
  BY DEF Expire, IInv, TypeOK
<1> QED  BY <1>1, SameRows DEF IInv, TypeOK, LinkStates

LEMMA SetRoleInv ==
  ASSUME AccountsAssumption, IInv, NEW login \in Logins, NEW role \in Roles, SetRole(login, role)
  PROVE  IInv' /\ KeepsEach /\ SessionsStay /\ NobodyJoins
<1>1. PICK r \in Named(login) : rows' = [rows EXCEPT ![r].role = role]
  BY DEF SetRole
<1>2. UNCHANGED <<owner, blocked, sessions, minted, expired, linking>>
  BY DEF SetRole
<1>3. r \in Rows /\ rows[r] \in Persons /\ rows[r] # NoRow /\ role \in 1..3
  BY AccountsAssumption DEF Named, People, IInv, TypeOK, AccountsAssumption
<1> DEFINE p == [rows[r] EXCEPT !.role = role]
<1>4. /\ p \in Persons /\ p.ids = rows[r].ids /\ p.key = rows[r].key /\ p # NoRow
      /\ p.prim = rows[r].prim
  BY <1>3, AccountsAssumption DEF Persons, AccountsAssumption
<1>5. rows' \in [Rows -> Persons \cup {NoRow}] /\ \A x \in Rows : rows'[x] = IF x = r THEN p ELSE rows[x]
  BY <1>1, <1>3, <1>4 DEF IInv, TypeOK
<1> HIDE DEF p
<1>6. People' = People
  BY <1>3, <1>4, <1>5 DEF People
<1>7. \A x \in People' : Primed(rows'[x])
  BY <1>3, <1>4, <1>5, <1>6 DEF IInv, PrimaryOwned, Primed, Owns, People
<1>8. Quiet
  BY <1>2, <1>3, <1>4, <1>5, <1>6, <1>7 DEF Quiet, People
<1>9. IInv'
  BY <1>2, <1>8, QuietInv DEF IInv, TypeOK, LinkStates
<1>10. NothingGained
  BY <1>3, <1>4, <1>5, <1>6 DEF NothingGained, People
<1>11. SessionsStay
  BY <1>2, <1>10, SessionsKept
<1>12. KeepsEach
  BY <1>2, <1>3, <1>4, <1>5, <1>6, AccountsKept DEF People
<1>13. NobodyJoins
  BY <1>3, <1>4, <1>5, <1>6 DEF NobodyJoins, People
<1> QED  BY <1>9, <1>11, <1>12, <1>13

\* Giving up an account keeps every other, no role changes, and if it was the primary
\* the sessions move to the one that takes its place.
LEMMA UnlinkInv ==
  ASSUME AccountsAssumption, IInv, NEW t \in Tokens, NEW provider, NEW login,
         Unlink(t, provider, login)
  PROVE  /\ IInv' /\ NoneRises /\ SessionsStay /\ NobodyJoins
         /\ \A r \in People : \A i \in rows[r].ids : Real(i) =>
              \/ \E q \in Rows : /\ rows'[q] # NoRow /\ Owns(rows'[q], i)
                                 /\ r = owner => q = owner'
              \/ i.provider = provider /\ i.login = login
<1>1. PICK me \in PersonOf(sessions[t]) : \E gone, next \in rows[me].ids :
        LET p    == rows[me]
            prim == IF SameId(gone, p.prim) THEN HandleOf(next) ELSE p.prim
        IN  /\ gone.provider = provider /\ gone.login = login /\ Real(next) /\ next # gone
            /\ rows' = [rows EXCEPT ![me].ids = @ \ {gone}, ![me].prim = prim]
            /\ sessions' = IF prim.login = p.prim.login THEN sessions ELSE Repointed({p.prim}, prim)
  BY DEF Unlink
<1>2. UNCHANGED <<owner, blocked, minted, expired>> /\ linking' = Followed(sessions')
  BY DEF Unlink
<1>3. me \in People /\ me \in Rows /\ rows[me] \in Persons /\ rows[me] # NoRow
  BY DEF PersonOf, People, IInv, TypeOK
<1>4. PICK gone \in rows[me].ids, next \in rows[me].ids :
        LET p    == rows[me]
            prim == IF SameId(gone, p.prim) THEN HandleOf(next) ELSE p.prim
        IN  /\ gone.provider = provider /\ gone.login = login /\ Real(next) /\ next # gone
            /\ rows' = [rows EXCEPT ![me].ids = @ \ {gone}, ![me].prim = prim]
            /\ sessions' = IF prim.login = p.prim.login THEN sessions ELSE Repointed({p.prim}, prim)
  BY <1>1
<1> DEFINE prim == IF SameId(gone, rows[me].prim) THEN HandleOf(next) ELSE rows[me].prim
           p    == [rows[me] EXCEPT !.ids = @ \ {gone}, !.prim = prim]
<1>5. prim \in Handles
  BY <1>3 DEF Persons, Identities, HandleOf, Handles
<1>6. /\ gone.provider = provider /\ gone.login = login /\ Real(next) /\ next # gone
      /\ rows' = [rows EXCEPT ![me].ids = @ \ {gone}, ![me].prim = prim]
      /\ sessions' = IF prim.login = rows[me].prim.login THEN sessions ELSE Repointed({rows[me].prim}, prim)
  BY <1>4
<1>a. /\ ~SameId(gone, rows[me].prim) => prim = rows[me].prim
      /\ SameId(gone, rows[me].prim) => prim.id = next.id /\ prim.provider = next.provider
  BY DEF HandleOf
<1> HIDE DEF prim
<1>7. /\ p \in Persons /\ p.ids = rows[me].ids \ {gone} /\ p.key = rows[me].key /\ p # NoRow
      /\ p.prim = prim /\ p.role = rows[me].role
  BY <1>3, <1>5, AccountsAssumption DEF Persons, AccountsAssumption
<1>8. rows' \in [Rows -> Persons \cup {NoRow}] /\ \A x \in Rows : rows'[x] = IF x = me THEN p ELSE rows[x]
  BY <1>3, <1>6, <1>7 DEF IInv, TypeOK
<1>9. sessions' \in [Tokens -> Handles \cup {NoSession}]
  BY <1>5, <1>6 DEF Repointed, IInv, TypeOK
<1> HIDE DEF p
<1>10. People' = People
  BY <1>3, <1>7, <1>8 DEF People
<1>b. PrimaryOwned /\ OneRowEach
  BY DEF IInv
<1>c. Primed(p)
  <2>1. CASE SameId(gone, rows[me].prim)
    BY <2>1, <1>6, <1>7, <1>a DEF Primed, Owns, SameId, Real
  <2>2. CASE ~SameId(gone, rows[me].prim)
    <3>1. Primed(rows[me]) /\ prim = rows[me].prim
      BY <2>2, <1>3, <1>a, <1>b DEF PrimaryOwned
    <3> QED  BY <2>2, <3>1, <1>7 DEF Primed, Owns
  <2> QED  BY <2>1, <2>2
<1>11. Quiet
  <2>1. \A x \in People' : Primed(rows'[x])
    BY <1>3, <1>8, <1>10, <1>b, <1>c DEF PrimaryOwned, People
  <2> QED  BY <1>2, <1>3, <1>7, <1>8, <1>10, <2>1 DEF Quiet, People
<1>12. linking' \in LinkStates
  BY <1>2, <1>9, FollowedType DEF IInv
<1>13. IInv'
  BY <1>2, <1>9, <1>11, <1>12, QuietInv DEF IInv, TypeOK
<1>14. \A r \in People : \A i \in rows[r].ids : Real(i) =>
         \/ \E q \in Rows : /\ rows'[q] # NoRow /\ Owns(rows'[q], i)
                            /\ r = owner => q = owner'
         \/ i.provider = provider /\ i.login = login
  <2> SUFFICES ASSUME NEW r \in People, NEW i \in rows[r].ids, Real(i),
                      ~(i.provider = provider /\ i.login = login)
               PROVE  r \in Rows /\ rows'[r] # NoRow /\ Owns(rows'[r], i)
    BY <1>2
  <2>1. i # gone
    BY <1>6
  <2>2. r \in Rows /\ i \in rows'[r].ids /\ rows'[r] # NoRow
    BY <2>1, <1>7, <1>8 DEF People
  <2> QED  BY <2>2 DEF Owns, SameId
\* Whoever a handle stands for afterwards, it stood for before.
<1>15. \A q \in Rows : \A x : rows'[q] # NoRow /\ Owns(rows'[q], x) => q \in People /\ Owns(rows[q], x)
  BY <1>3, <1>7, <1>8 DEF Owns, People
<1>16. \A r, q \in People : \A x, y : Owns(rows[r], x) /\ Owns(rows[q], y) /\ SameId(x, y) => r = q
  BY <1>b DEF OneRowEach, Owns, SameId, Real
<1>17. \A i, j \in rows[me].ids : SameId(i, j) => i = j
  BY <1>3, <1>b DEF OneRowEach
<1>18. NoneRises
  <2> SUFFICES ASSUME NEW r \in People, NEW q \in Rows, rows'[q] # NoRow,
                      q = r \/ \E i \in rows[r].ids : Owns(rows'[q], i)
               PROVE  rows'[q].role <= rows[r].role
    BY DEF NoneRises
  <2>1. q = r
    BY <1>15, <1>b DEF OneRowEach, Owns
  <2>2. rows[r].role \in 1..3 /\ rows'[r].role = rows[r].role
    BY <1>7, <1>8 DEF People, IInv, TypeOK, Persons
  <2> QED  BY <2>1, <2>2
<1>19. SessionsStay
  <2> SUFFICES ASSUME NEW v \in Tokens, NEW r \in Rows, NEW q \in Rows, rows[r] # NoRow,
                      SameId(sessions[v], rows[r].prim), sessions[v] # NoSession,
                      sessions'[v] # NoSession, rows'[q] # NoRow,
                      Owns(rows'[q], sessions'[v])
               PROVE  SameId(sessions'[v], rows'[q].prim)
    BY DEF SessionsStay, Live
  <2>1. r \in People /\ Owns(rows[r], rows[r].prim)
    BY <1>b DEF People, PrimaryOwned, Primed, SameId, Real
  <2>2. q \in People /\ Owns(rows[q], sessions'[v])
    BY <1>15
  <2>3. CASE sessions'[v] = sessions[v] /\ (prim = rows[me].prim \/ q # me)
    <3>1. q = r
      BY <2>1, <2>2, <2>3, <1>16 DEF SameId
    <3>2. rows'[q].prim = rows[q].prim
      BY <2>3, <1>7, <1>8
    <3> QED  BY <2>3, <3>1, <3>2
  <2>4. CASE sessions'[v] = sessions[v] /\ prim # rows[me].prim /\ q = me
    <3>1. r = me
      BY <2>1, <2>2, <2>4, <1>16 DEF SameId
    <3>2. SameId(gone, rows[me].prim)
      BY <2>4, <1>a
    <3>3. PICK j \in rows[me].ids \ {gone} : SameId(j, sessions[v])
      BY <2>4, <1>3, <1>7, <1>8 DEF Owns
    <3>4. SameId(j, gone)
      BY <3>1, <3>2, <3>3 DEF SameId, Real
    <3> QED  BY <3>3, <3>4, <1>17
  <2>5. CASE sessions'[v] # sessions[v]
    <3>1. sessions' = Repointed({rows[me].prim}, prim) /\ prim.login # rows[me].prim.login
      BY <2>5, <1>6
    <3>2. sessions'[v] = prim
      BY <2>5, <3>1 DEF Repointed
    <3>3. SameId(gone, rows[me].prim) /\ SameId(next, prim) /\ SameId(prim, prim)
      BY <3>1, <1>6, <1>a DEF SameId, Real
    <3>4. Owns(rows[me], prim)
      BY <3>3 DEF Owns
    <3>5. q = me
      BY <2>2, <3>2, <3>3, <3>4, <1>3, <1>16
    <3> QED  BY <3>2, <3>3, <3>5, <1>3, <1>7, <1>8
  <2> QED  BY <2>3, <2>4, <2>5
<1>20. NobodyJoins
  BY <1>3, <1>6, <1>7, <1>8, <1>10 DEF NobodyJoins, People
<1> QED  BY <1>13, <1>14, <1>18, <1>19, <1>20

\* A minted key goes to one row that has people in it, and nothing else changes.
LEMMA KeyedFacts ==
  ASSUME AccountsAssumption, NEW rs \in [Rows -> Persons \cup {NoRow}], NEW login, minted \subseteq Keys,
         Rows # {}, Keyed(rs, login)
  PROVE  /\ rows' \in [Rows -> Persons \cup {NoRow}] /\ minted \subseteq minted' /\ minted' \subseteq Keys
         /\ \A x \in Rows : /\ rows'[x] = NoRow <=> rs[x] = NoRow
                            /\ rs[x] # NoRow => /\ rows'[x].ids = rs[x].ids
                                                /\ rows'[x].prim = rs[x].prim
                                                /\ rows'[x].role = rs[x].role
         /\ \E z \in Rows : \A x \in Rows : rs[x] # NoRow =>
              rows'[x].key = rs[x].key \/ (x = z /\ rows'[x].key \in minted' \ minted)
<1> DEFINE waiting == {r \in Rows : rs[r] # NoRow /\ ~Real(rs[r].prim) /\ rs[r].prim.login = login}
<1>1. CASE waiting = {}
  BY <1>1 DEF Keyed
<1>2. CASE waiting # {}
  <2>1. PICK r \in waiting, k \in Keys \ minted : rows' = [rs EXCEPT ![r].key = k] /\ minted' = minted \cup {k}
    BY <1>2 DEF Keyed
  <2> DEFINE p == [rs[r] EXCEPT !.key = k]
  <2>2. r \in Rows /\ rs[r] \in Persons /\ rs[r] # NoRow
    OBVIOUS
  <2>3. /\ p \in Persons /\ p.ids = rs[r].ids /\ p.key = k /\ p # NoRow
        /\ p.prim = rs[r].prim /\ p.role = rs[r].role
    BY <2>2, AccountsAssumption DEF Persons, AccountsAssumption
  <2>4. rows' \in [Rows -> Persons \cup {NoRow}] /\ \A x \in Rows : rows'[x] = IF x = r THEN p ELSE rs[x]
    BY <2>1, <2>2, <2>3
  <2> HIDE DEF p, waiting
  <2>5. k \in minted' \ minted /\ minted \subseteq minted' /\ minted' \subseteq Keys
    BY <2>1
  <2> QED  BY <2>2, <2>3, <2>4, <2>5
<1> QED  BY <1>1, <1>2

LEMMA AllowInv ==
  ASSUME AccountsAssumption, IInv, NEW v \in Invitees, Allow(v)
  PROVE  IInv' /\ Carried /\ NobodyJoins
<1> DEFINE unused == Rows \ People
           invite == [provider |-> v.provider, login |-> v.login, id |-> Pending]
           p == [ids |-> {[provider |-> v.provider, login |-> v.login, id |-> Pending, emails |-> {}]},
                 prim |-> invite, role |-> Editor, key |-> NoKey, mail |-> v.mail]
<1>1. PICK r \in Rows :
        IF r \in unused
        THEN /\ blocked' = {b \in blocked : ~(b.provider = v.provider /\ b.login = v.login)}
             /\ Keyed([rows EXCEPT ![r] = p], v.login)
        ELSE Keyed(rows, rows[r].prim.login) /\ UNCHANGED blocked
  BY DEF Allow, Else, People
<1>2. UNCHANGED <<owner, sessions, expired, linking>>
  BY DEF Allow
<1>3. v \in [provider : Providers, login : Logins, mail : Mails \cup {NoMail}]
  BY AccountsAssumption DEF AccountsAssumption
<1>4. /\ p \in Persons /\ p.key = NoKey /\ p # NoRow
      /\ \E i : p.ids = {i} /\ i.id = Pending /\ i.emails = {}
      /\ ~Real(p.prim)
  <2> DEFINE one == [provider |-> v.provider, login |-> v.login, id |-> Pending, emails |-> {}]
  <2>1. one \in Identities /\ one.id = Pending /\ one.emails = {}
    BY <1>3 DEF Identities
  <2>2. p.ids = {one} /\ p.key = NoKey /\ p.prim = invite /\ p \in Persons
    BY <1>3, <2>1 DEF Persons, Handles, Editor
  <2>3. p # NoRow /\ invite.id = Pending
    BY <2>2, AccountsAssumption DEF AccountsAssumption
  <2> HIDE DEF one, p, invite
  <2> QED  BY <2>1, <2>2, <2>3 DEF Real
<1>5. rows \in [Rows -> Persons \cup {NoRow}] /\ minted \subseteq Keys
  BY DEF IInv, TypeOK
<1>8. \A x \in People : Primed(rows[x])
  BY DEF IInv, PrimaryOwned
<1> HIDE DEF p
<1>6. CASE r \in unused
  <2> DEFINE rs == [rows EXCEPT ![r] = p]
  <2>1. rs \in [Rows -> Persons \cup {NoRow}] /\ \A x \in Rows : rs[x] = IF x = r THEN p ELSE rows[x]
    BY <1>4, <1>5
  <2>2. Keyed(rs, v.login) /\ blocked' \subseteq blocked
    BY <1>1, <1>6
  <2> HIDE DEF rs
  <2>3. /\ rows' \in [Rows -> Persons \cup {NoRow}] /\ minted \subseteq minted' /\ minted' \subseteq Keys
        /\ \A x \in Rows : /\ rows'[x] = NoRow <=> rs[x] = NoRow
                           /\ rs[x] # NoRow => /\ rows'[x].ids = rs[x].ids
                                               /\ rows'[x].prim = rs[x].prim
                                               /\ rows'[x].role = rs[x].role
        /\ \E z \in Rows : \A x \in Rows : rs[x] # NoRow =>
             rows'[x].key = rs[x].key \/ (x = z /\ rows'[x].key \in minted' \ minted)
    BY ONLY <2>1, <2>2, <1>1, <1>5, KeyedFacts, AccountsAssumption
  <2>4. \A x \in People' : Primed(rows'[x])
    BY <2>1, <2>3, <1>4, <1>8 DEF Primed, Owns, People
  <2>5. Quiet
    BY <2>1, <2>2, <2>3, <2>4, <1>4 DEF Quiet, People
  <2>6. Steady
    BY <2>1, <2>3, <1>2, <1>4, <1>6 DEF Steady, People
  <2> QED  BY <1>2, <2>3, <2>5, <2>6, QuietInv, SteadyCarried DEF IInv, TypeOK, LinkStates
<1>7. CASE r \notin unused
  <2>1. Keyed(rows, rows[r].prim.login) /\ blocked' = blocked
    BY <1>1, <1>7
  <2>2. /\ rows' \in [Rows -> Persons \cup {NoRow}] /\ minted \subseteq minted' /\ minted' \subseteq Keys
        /\ \A x \in Rows : /\ rows'[x] = NoRow <=> rows[x] = NoRow
                           /\ rows[x] # NoRow => /\ rows'[x].ids = rows[x].ids
                                               /\ rows'[x].prim = rows[x].prim
                                               /\ rows'[x].role = rows[x].role
        /\ \E z \in Rows : \A x \in Rows : rows[x] # NoRow =>
             rows'[x].key = rows[x].key \/ (x = z /\ rows'[x].key \in minted' \ minted)
    BY ONLY <2>1, <1>1, <1>5, KeyedFacts, AccountsAssumption
  <2>3. \A x \in People' : Primed(rows'[x])
    BY <2>2, <1>8 DEF Primed, Owns, People
  <2>4. Quiet
    BY <2>1, <2>2, <2>3 DEF Quiet, People
  <2>5. Steady
    BY <2>2, <1>2 DEF Steady, People
  <2> QED  BY <1>2, <2>2, <2>4, <2>5, QuietInv, SteadyCarried DEF IInv, TypeOK, LinkStates
<1> QED  BY <1>6, <1>7

\* Removal takes rows away whole, and blocks only what was on them.
LEMMA RevokeInv ==
  ASSUME AccountsAssumption, IInv, NEW login \in Logins, Revoke(login)
  PROVE  /\ IInv' /\ NoneRises /\ SessionsStay /\ NobodyJoins
         /\ \A r \in People : \A i \in rows[r].ids : Real(i) =>
              \/ \E q \in Rows : /\ rows'[q] # NoRow /\ Owns(rows'[q], i)
                                 /\ r = owner => q = owner'
              \/ \E b \in blocked' : SameId(b, i)
<1> DEFINE going == Named(login)
<1>1. /\ rows' = [r \in Rows |-> IF r \in going THEN NoRow ELSE rows[r]]
      /\ blocked' = blocked \cup Barred(going)
      /\ linking' = Followed(sessions') /\ UNCHANGED <<owner, minted, expired>>
  BY DEF Revoke
<1>2. sessions' \in [Tokens -> Handles \cup {NoSession}]
  BY DEF Revoke, IInv, TypeOK
<1>3. going \subseteq People /\ \A x \in People : rows[x] \in Persons
  BY DEF Named, People, IInv, TypeOK
<1>4. \A b \in Barred(going) : b \in Handles /\ \E x \in going : \E i \in rows[x].ids :
        Real(i) /\ b.id = i.id /\ b.provider = i.provider
  BY <1>3 DEF Barred, Persons, Identities, HandleOf, Handles
<1>a. \A x \in going : \A i \in rows[x].ids : Real(i) => \E b \in blocked' : SameId(b, i)
  <2> SUFFICES ASSUME NEW x \in going, NEW i \in rows[x].ids, Real(i), ~Blocked(i)
               PROVE  \E b \in Barred(going) : SameId(b, i)
    BY <1>1 DEF Blocked
  <2>1. HandleOf(i) \in Barred(going)
    BY DEF Barred
  <2>2. SameId(HandleOf(i), i)
    BY DEF HandleOf, SameId, Real
  <2> QED  BY <2>1, <2>2
<1>b. \A t \in Tokens : sessions'[t] \in {sessions[t], NoSession}
  BY DEF Revoke
<1> HIDE DEF going
<1>5. /\ People' = People \ going
      /\ \A x \in People' : rows'[x] = rows[x]
      /\ rows' \in [Rows -> Persons \cup {NoRow}]
  BY <1>1 DEF People, IInv, TypeOK
<1>6. linking' \in LinkStates
  BY <1>1, <1>2, FollowedType DEF IInv
<1>7. TypeOK'
  BY <1>1, <1>2, <1>4, <1>5, <1>6 DEF IInv, TypeOK, LinkStates
<1>8. OneRowEach /\ BlockedOut /\ KeyUsedOnce /\ KeysFresh
  BY DEF IInv
<1>9. OneRowEach'
  BY <1>5, <1>8 DEF OneRowEach
<1>10. BlockedOut'
  <2> SUFFICES ASSUME NEW x \in People', NEW i \in rows'[x].ids, NEW b \in blocked', SameId(b, i)
               PROVE  FALSE
    BY DEF BlockedOut
  <2>1. x \in People /\ x \notin going /\ i \in rows[x].ids
    BY <1>5
  <2>2. b \in Barred(going)
    BY <1>1, <1>8, <2>1 DEF BlockedOut
  <2>0. PICK y \in going : \E j \in rows[y].ids : Real(j) /\ b.id = j.id /\ b.provider = j.provider
    BY <1>4, <2>2
  <2>3. PICK j \in rows[y].ids : Real(j) /\ b.id = j.id /\ b.provider = j.provider
    BY <2>0
  <2>4. SameId(j, i)
    BY <2>3 DEF SameId
  <2>5. y = x
    BY <1>3, <1>8, <2>1, <2>3, <2>4 DEF OneRowEach
  <2> QED  BY <2>1, <2>5
<1>11. KeyUsedOnce'
  BY <1>5, <1>8 DEF KeyUsedOnce
<1>12. KeysFresh'
  <2>1. \A x \in People' : \A i \in rows'[x].ids : i.id \in Keys => i.id \in minted
    BY <1>5, <1>8 DEF KeysFresh
  <2>2. \A b \in blocked' : b.id \in Keys => b.id \in minted
    BY <1>1, <1>3, <1>4, <1>8 DEF KeysFresh
  <2>3. \A x \in People' : rows'[x].key # NoKey => rows'[x].key \in minted
    BY <1>5, <1>8 DEF KeysFresh
  <2>4. \A x \in People' : rows'[x].key # NoKey => \A b \in blocked' : b.id # rows'[x].key
    <3> SUFFICES ASSUME NEW x \in People', rows'[x].key # NoKey, NEW b \in blocked'
                 PROVE  b.id # rows'[x].key
      OBVIOUS
    <3>1. CASE b \in blocked
      BY <3>1, <1>5, <1>8 DEF KeysFresh
    <3>2. CASE b \in Barred(going)
      BY <3>2, <1>3, <1>4, <1>5, <1>8 DEF KeyUsedOnce
    <3> QED  BY <1>1, <3>1, <3>2
  <2> QED  BY <1>1, <2>1, <2>2, <2>3, <2>4 DEF KeysFresh
<1>13. OneRowPerAddress'
  BY <1>5 DEF OneRowPerAddress, IInv
<1>14. InvitesBare' /\ PrimaryOwned'
  BY <1>5 DEF InvitesBare, PrimaryOwned, IInv
<1>15. IInv'
  BY <1>7, <1>9, <1>10, <1>11, <1>12, <1>13, <1>14 DEF IInv
<1>16. NothingGained
  BY <1>5 DEF NothingGained, People
<1>17. NoneRises
  BY <1>5, <1>16, RolesKept DEF People
<1>18. SessionsStay
  BY <1>b, <1>16, SessionsKept
<1>19. \A r \in People : \A i \in rows[r].ids : Real(i) =>
         \/ \E q \in Rows : /\ rows'[q] # NoRow /\ Owns(rows'[q], i)
                            /\ r = owner => q = owner'
         \/ \E b \in blocked' : SameId(b, i)
  <2> SUFFICES ASSUME NEW r \in People, NEW i \in rows[r].ids, Real(i), r \notin going
               PROVE  r \in Rows /\ rows'[r] # NoRow /\ Owns(rows'[r], i)
    BY <1>1, <1>a
  <2> QED  BY <1>5 DEF People, Owns, SameId
<1>20. NobodyJoins
  BY <1>5 DEF NobodyJoins
<1> QED  BY <1>15, <1>17, <1>18, <1>19, <1>20

-----------------------------------------------------------------------------
\* A step keeps the invariant, and carries over accounts, roles and sessions but for
\* what giving up an account, removing people and giving a role take away.
LEMMA NextInv ==
  ASSUME AccountsAssumption, IInv, [Next]_vars
  PROVE  /\ IInv'
         /\ \/ Carried
            \/ \E t \in Tokens, provider \in Providers, login \in Logins : Unlink(t, provider, login)
            \/ \E login \in Logins : Revoke(login) \/ \E role \in Roles : SetRole(login, role)
<1>1. CASE UNCHANGED vars
  <2>1. /\ UNCHANGED <<rows, owner, blocked, minted, sessions, expired, linking>>
    BY <1>1 DEF vars
  <2> QED  BY <2>1, SameRows DEF IInv, TypeOK, LinkStates
<1>2. CASE \E u \in Users : SignIn(u) \/ LinkFinish(u)
  BY <1>2, SignInInv, LinkFinishInv
<1>3. CASE \E u \in Guests : SignInMasora(u)
  BY <1>3, SignInMasoraInv
<1>4. CASE \E k \in Keys : Redeem(k) \/ Expire(k)
  BY <1>4, RedeemInv, ExpireInv
<1>5. CASE \E t \in Tokens : Over(t) \/ \E provider \in Providers : LinkStart(t, provider)
  BY <1>5, LinkStartInv, OverInv
<1>6. CASE \E t \in Tokens, provider \in Providers, login \in Logins : Unlink(t, provider, login)
  BY <1>6, UnlinkInv
<1>7. CASE \E v \in Invitees : Allow(v)
  BY <1>7, AllowInv
<1>8. CASE \E login \in Logins : Revoke(login) \/ \E role \in Roles : SetRole(login, role)
  BY <1>8, RevokeInv, SetRoleInv
<1>9. CASE \E into, from \in Rows : Combine(into, from)
  BY <1>9, CombineInv
<1>10. CASE LinkDropped
  BY <1>10, LinkDroppedInv
<1> QED  BY <1>1, <1>2, <1>3, <1>4, <1>5, <1>6, <1>7, <1>8, <1>9, <1>10 DEF Next

\* The inductive invariant holds in every state of the hub's accounts.
LEMMA InvariantHolds == Spec => []IInv
<1>1. Init => IInv
  BY InitInv, AccountsAssumption
<1>2. IInv /\ [Next]_vars => IInv'
  BY NextInv, AccountsAssumption
<1> QED  BY <1>1, <1>2, PTL DEF Spec

\* Every variable keeps its type; a link under way never holds an ended session.
THEOREM TypeCorrect == Spec => []TypeOK
<1>1. IInv => TypeOK
  BY DEF IInv
<1> QED  BY <1>1, InvariantHolds, PTL

\* Whatever the order of sign-ins, links, invites and folds, an account is one row's.
THEOREM OneRow == Spec => []OneRowEach
<1>1. IInv => OneRowEach
  BY DEF IInv
<1> QED  BY <1>1, InvariantHolds, PTL

\* The removed stay out: no door puts a blocked account on a row.
THEOREM RemovedStayOut == Spec => []BlockedOut
<1>1. IInv => BlockedOut
  BY DEF IInv
<1> QED  BY <1>1, InvariantHolds, PTL

\* An invite key is on one row, and on none once somebody has come in with it.
THEOREM KeysOnce == Spec => []KeyUsedOnce
<1>1. IInv => KeyUsedOnce
  BY DEF IInv
<1> QED  BY <1>1, InvariantHolds, PTL

\* Two people who have signed in never share a proven address, whoever proved what when.
THEOREM AddressesApart == Spec => []OneRowPerAddress
<1>1. IInv => OneRowPerAddress
  BY DEF IInv
<1> QED  BY <1>1, InvariantHolds, PTL

-----------------------------------------------------------------------------
(* What no step may do.                                                    *)

\* What NobodyLost says of one step.
Kept ==
  \A r \in People : \A i \in rows[r].ids :
    Real(i) => \/ \E q \in Rows : /\ rows'[q] # NoRow /\ Owns(rows'[q], i)
                                  /\ r = owner => q = owner'
               \/ \E b \in blocked' : SameId(b, i)
               \/ \E t \in Tokens : Unlink(t, i.provider, i.login)

\* An account leaves the team only by its person's hand or with its person, blocked;
\* no fold, answered invite or rotated key drops one.
THEOREM NobodyIsLost == Spec => NobodyLost
<1>1. IInv /\ [Next]_vars => Kept
  <2> SUFFICES ASSUME IInv, [Next]_vars PROVE Kept
    OBVIOUS
  <2>1. CASE KeepsEach
    BY <2>1 DEF KeepsEach, Kept
  <2>2. CASE \E t \in Tokens, provider \in Providers, login \in Logins : Unlink(t, provider, login)
    <3>1. PICK t \in Tokens, provider \in Providers, login \in Logins : Unlink(t, provider, login)
      BY <2>2
    <3>2. \A r \in People : \A i \in rows[r].ids : Real(i) =>
            \/ \E q \in Rows : /\ rows'[q] # NoRow /\ Owns(rows'[q], i)
                               /\ r = owner => q = owner'
            \/ i.provider = provider /\ i.login = login
      BY <3>1, UnlinkInv, AccountsAssumption
    <3> QED  BY <3>1, <3>2 DEF Kept
  <2>3. CASE \E login \in Logins : Revoke(login)
    BY <2>3, RevokeInv, AccountsAssumption DEF Kept
  <2>4. CASE \E login \in Logins, role \in Roles : SetRole(login, role)
    <3>1. KeepsEach
      BY <2>4, SetRoleInv, AccountsAssumption
    <3> QED  BY <2>1, <3>1
  <2> QED  BY <2>1, <2>2, <2>3, <2>4, NextInv, AccountsAssumption DEF Carried
<1> QED  BY <1>1, InvariantHolds, PTL DEF Spec, NobodyLost, Kept

\* What NoClimb says of one step.
Grounded ==
  \A r \in People, q \in Rows :
    /\ rows'[q] # NoRow /\ q # owner'
    /\ q = r \/ \E i \in rows[r].ids : Owns(rows'[q], i)
    /\ rows'[q].role > rows[r].role
    => \E login \in Logins, role \in Roles : SetRole(login, role)

\* No fold, sign-in or key raises a role; only the owner's word does.
THEOREM NobodyClimbs == Spec => NoClimb
<1>1. IInv /\ [Next]_vars => Grounded
  <2> SUFFICES ASSUME IInv, [Next]_vars,
                      ~\E login \in Logins, role \in Roles : SetRole(login, role)
               PROVE  Grounded
    BY DEF Grounded
  <2>1. NoneRises
    BY NextInv, UnlinkInv, RevokeInv, AccountsAssumption DEF Carried
  <2>2. \A x \in People : rows[x].role \in 1..3
    BY DEF People, IInv, TypeOK, Persons
  <2>3. TypeOK'
    BY NextInv, AccountsAssumption DEF IInv
  <2>4. \A x \in Rows : rows'[x] # NoRow => rows'[x].role \in 1..3
    BY <2>3 DEF TypeOK, Persons
  <2>5. \A r \in People, q \in Rows : rows'[q] # NoRow /\ rows'[q].role <= rows[r].role =>
          ~(rows'[q].role > rows[r].role)
    BY <2>2, <2>4
  <2> QED  BY <2>1, <2>5 DEF NoneRises, Grounded
<1> QED  BY <1>1, InvariantHolds, PTL DEF Spec, NoClimb, Grounded

\* What SessionsFollow says of one step.
StaysPrimary ==
  \A t \in Tokens : NoSession \notin {sessions[t], sessions'[t]} =>
    \A r, q \in Rows :
      /\ rows[r] # NoRow /\ SameId(sessions[t], rows[r].prim)
      /\ rows'[q] # NoRow /\ Owns(rows'[q], sessions'[t])
      => SameId(sessions'[t], rows'[q].prim)

\* Whatever rows fold, a session opened under a person's primary stands for the primary of
\* the row it is on after every step that leaves it on one.  (Not on one any more is what
\* giving up a primary leaves it when the next primary has the same login.)
THEOREM SessionsAreFollowed == Spec => SessionsFollow
<1>1. IInv /\ [Next]_vars => SessionsStay
  BY NextInv, UnlinkInv, RevokeInv, SetRoleInv, AccountsAssumption DEF Carried
<1>2. IInv /\ [Next]_vars => StaysPrimary
  <2> SUFFICES ASSUME IInv, [Next]_vars, NEW t \in Tokens, NEW r \in Rows, NEW q \in Rows,
                      NoSession \notin {sessions[t], sessions'[t]},
                      rows[r] # NoRow, SameId(sessions[t], rows[r].prim),
                      rows'[q] # NoRow, Owns(rows'[q], sessions'[t])
               PROVE  SameId(sessions'[t], rows'[q].prim)
    BY DEF StaysPrimary
  <2>1. PICK i \in rows[r].ids : SameId(i, rows[r].prim)
    BY DEF IInv, PrimaryOwned, Primed, Owns, SameId, Real, People
  <2>2. r \in PersonOf(sessions[t])
    BY <2>1 DEF PersonOf, People, Owns, SameId, Real
  <2> QED  BY <1>1, <2>2 DEF SessionsStay, Live
<1> QED  BY <1>2, InvariantHolds, PTL DEF Spec, SessionsFollow, StaysPrimary

-----------------------------------------------------------------------------
(* One human to a row.                                                     *)

\* An identity a provider has vouched for.
Vouched(i) ==
  \E u \in Users \cup Guests : u.provider = i.provider /\ u.id = i.id /\ u.login = i.login

\* All of p is the human h's, the addresses too; so is what u says of itself.
Of(p, h) ==
  /\ p.ids # {}
  /\ \A i \in p.ids : /\ HumanOf[i.login] = h /\ \A e \in i.emails : HumanOf[e] = h
                      /\ i.id \in Ids => Vouched(i)
Speaks(u, h) ==
  /\ HumanOf[u.login] = h /\ \A e \in u.emails \cup u.public : HumanOf[e] = h
  /\ u.id \in Ids => Vouched(u)

OneHuman == \A r \in People : \E i \in rows[r].ids : Of(rows[r], HumanOf[i.login])

LEMMA OfHuman ==
  ASSUME OneHuman, NEW r \in People, NEW i \in rows[r].ids
  PROVE  Of(rows[r], HumanOf[i.login])
BY DEF OneHuman, Of

\* Every address p has proved is that human's ...
LEMMA ProvenHuman ==
  ASSUME NEW p, NEW h, Of(p, h)
  PROVE  \A e \in EmailsOf(p) : HumanOf[e] = h
<1> SUFFICES ASSUME NEW i \in p.ids, NEW e \in i.emails \cup Evidence(i)
             PROVE  HumanOf[e] = h
  BY DEF EmailsOf
<1>1. HumanOf[i.login] = h /\ \A m \in i.emails : HumanOf[m] = h
  BY DEF Of
<1>2. e \in i.emails \/ e = i.login
  BY DEF Evidence
<1> QED  BY <1>1, <1>2

\* ... so whoever they fold together is.
LEMMA KinHuman ==
  ASSUME OneHuman, NEW p, NEW u, NEW h, Of(p, h), Speaks(u, h), NEW done
  PROVE  \A o \in Kin(done, p, u) \cup InLaws(done, Kin(done, p, u)) : Of(rows[o], h)
<1>1. \A e \in EmailsOf(p) : HumanOf[e] = h
  BY ProvenHuman
<1>2. \A i : Proves(u, i) => HumanOf[i.login] = h
  BY DEF Proves, Speaks
<1>3. ASSUME NEW o \in Kin(done, p, u) PROVE Of(rows[o], h)
  <2>1. o \in People
    BY <1>3 DEF Kin
  <2>2. CASE SignedIn(rows[o])
    <3>1. PICK e \in EmailsOf(rows[o]) : e \in EmailsOf(p)
      BY <1>3, <2>2 DEF Kin
    <3>2. PICK i \in rows[o].ids : Of(rows[o], HumanOf[i.login])
      BY <2>1 DEF OneHuman
    <3>3. HumanOf[e] = HumanOf[i.login]
      BY <3>1, <3>2, ProvenHuman
    <3> QED  BY <3>1, <3>2, <3>3, <1>1
  <2>3. CASE ~SignedIn(rows[o])
    <3>1. PICK i \in rows[o].ids : HumanOf[i.login] = h
      BY <1>1, <1>2, <1>3, <2>3 DEF Kin
    <3>2. Of(rows[o], HumanOf[i.login])
      BY <2>1, OfHuman
    <3> QED  BY <3>1, <3>2
  <2> QED  BY <2>2, <2>3
<1>4. ASSUME NEW o \in InLaws(done, Kin(done, p, u)) PROVE Of(rows[o], h)
  <2>1. o \in People
    BY <1>4 DEF InLaws
  <2>2. PICK i \in rows[o].ids, k \in Kin(done, p, u) : i.login \in EmailsOf(rows[k])
    BY <1>4 DEF InLaws
  <2>3. HumanOf[i.login] = h
    BY <2>2, <1>3, ProvenHuman
  <2>4. Of(rows[o], HumanOf[i.login])
    BY <2>1, OfHuman
  <2> QED  BY <2>3, <2>4
<1> QED  BY <1>3, <1>4

LEMMA AdoptedHuman ==
  ASSUME NEW p \in Persons, NEW u \in Entrants, NEW h, \A i \in p.ids : Of(p, h), Speaks(u, h)
  PROVE  Of(Adopted(p, u), h)
<1>1. /\ \A i \in Adopted(p, u).ids : i = Identity(u) \/ \E j \in p.ids : Was(i, j, u)
      /\ Adopted(p, u).ids # {}
  BY AdoptedShape
<1>2. /\ Identity(u).login = u.login /\ Identity(u).emails = u.emails
      /\ Identity(u).id = u.id /\ Identity(u).provider = u.provider
  BY DEF Identity
<1> SUFFICES ASSUME NEW i \in Adopted(p, u).ids
             PROVE  /\ HumanOf[i.login] = h /\ \A e \in i.emails : HumanOf[e] = h
                    /\ i.id \in Ids => Vouched(i)
  BY <1>1 DEF Of
<1>3. CASE i = Identity(u)
  BY <1>2, <1>3 DEF Speaks, Vouched
<1>4. CASE i # Identity(u)
  <2>1. PICK j \in p.ids : Was(i, j, u)
    BY <1>1, <1>4
  <2>2. /\ HumanOf[j.login] = h /\ \A e \in j.emails : HumanOf[e] = h
        /\ j.id \in Ids => Vouched(j)
    BY DEF Of
  <2> QED  BY <2>1, <2>2 DEF Was, Speaks, Vouched
<1> QED  BY <1>3, <1>4

LEMMA WholeHuman ==
  ASSUME NEW keep \in Persons, NEW gone \in SUBSET Persons, NEW owns, NEW h,
         Of(keep, h), \A p \in gone : Of(p, h)
  PROVE  Of(Whole(keep, gone, owns), h)
<1>1. Whole(keep, gone, owns) \in Persons
  BY WholeFacts
<1>2. \A i \in Identities : i \in Whole(keep, gone, owns).ids <=> (i \in keep.ids \/ \E p \in gone : i \in p.ids)
  BY WholeFacts
<1>3. Whole(keep, gone, owns).ids \subseteq Identities /\ keep.ids \subseteq Identities
  BY <1>1 DEF Persons
<1> QED  BY <1>2, <1>3 DEF Of

LEMMA SettledHuman ==
  ASSUME OneHuman, NEW rs, Rekeyed(rs), NEW r \in Rows, NEW p, NEW gone,
         NEW fold \in SUBSET People, NEW h, Of(p, h), \A x \in fold : Of(rows[x], h),
         Settled(rs, r, p, gone, fold)
  PROVE  OneHuman'
<1>1. PICK s \in {r} \cup fold : Seated(rs, r, p, gone, fold, s)
  BY DEF Settled
<1>2. rows'[s].ids = p.ids \cup UNION {rows[x].ids : x \in fold}
  BY <1>1 DEF Seated
<1>3. \A x \in Rows \ {s} : rows'[x] = NoRow \/ rows'[x] = rs[x]
  BY <1>1 DEF Seated
<1>4. Of(rows'[s], h)
  BY <1>2 DEF Of
<1> SUFFICES ASSUME NEW x \in People'
             PROVE  \E i \in rows'[x].ids : Of(rows'[x], HumanOf[i.login])
  BY DEF OneHuman, Of, Vouched
<1>5. CASE x = s
  BY <1>4, <1>5 DEF Of
<1>6. CASE x # s
  <2>1. x \in People /\ rows'[x].ids = rows[x].ids
    BY <1>3, <1>6 DEF People, Rekeyed
  <2> QED  BY <2>1 DEF OneHuman, Of
<1> QED  BY <1>5, <1>6

LEMMA AdoptHuman ==
  ASSUME AccountsAssumption, IInv, OneHuman, NEW rs, Rekeyed(rs), NEW r \in Rows, NEW p \in Persons,
         NEW u, NEW gone \in SUBSET Rows, NEW open \in BOOLEAN, NEW h, Of(p, h), Speaks(u, h),
         Adopt(rs, r, p, u, gone, open)
  PROVE  OneHuman'
<1> DEFINE done == {r} \cup gone
           kin  == Kin(done, p, u)
<1>1. PICK fold \in SUBSET (kin \cup InLaws(done, kin)) : Settle(rs, r, p, gone, fold, open)
  BY DEF Adopt
<1>2. kin \cup InLaws(done, kin) \subseteq People \ done
  BY DEF Kin, InLaws
<1>3. fold \in SUBSET People /\ fold \cap ({r} \cup gone) = {}
  BY <1>2
<1>4. \A x \in fold : Of(rows[x], h)
  BY KinHuman
<1> HIDE DEF done, kin
<1>5. TypeOK
  BY DEF IInv
<1>6. Settled(rs, r, p, gone, fold)
  BY ONLY <1>1, <1>3, <1>5, SettleRows, AccountsAssumption, Rekeyed(rs), r \in Rows, p \in Persons,
          gone \in SUBSET Rows, open \in BOOLEAN
<1> QED  BY ONLY <1>3, <1>4, <1>6, SettledHuman, OneHuman, Rekeyed(rs), r \in Rows, Of(p, h)

\* Whoever comes in gets a row of the same human, if the one it has is.
LEMMA EnterHuman ==
  ASSUME AccountsAssumption, IInv, OneHuman, NEW rs, Rekeyed(rs), NEW u \in Entrants, Enter(rs, u),
         NEW h, Speaks(u, h), \A q \in PersonOf(u) : Of(rows[q], h)
  PROVE  OneHuman'
<1> DEFINE joined(r) == IF r \in People THEN Adopted(rs[r], u) ELSE NewPerson(u)
<1>1. PICK r \in Seat(u) : Adopt(rs, r, joined(r), u, {}, TRUE)
  BY DEF Enter
<1>2. r \in Rows
  BY SeatFacts DEF IInv
<1>3. r \in People => Of(rows[r], h)
  <2> SUFFICES ASSUME r \in People, r \notin PersonOf(u) PROVE Of(rows[r], h)
    OBVIOUS
  <2>1. \/ r \in ByEmail(u.emails)
        \/ r \in PendingFor(u.provider, {u.login}) \cup PendingFor("google", u.emails)
        \/ r \in PendingFor("google", u.public)
    BY DEF Seat, Else
  <2>2. CASE r \in ByEmail(u.emails)
    <3>1. PICK e \in EmailsOf(rows[r]) : HumanOf[e] = h
      BY <2>2 DEF ByEmail, Speaks
    <3>2. PICK i \in rows[r].ids : Of(rows[r], HumanOf[i.login])
      BY DEF OneHuman
    <3>3. HumanOf[e] = HumanOf[i.login]
      BY <3>2, ProvenHuman
    <3> QED  BY <3>1, <3>2, <3>3
  <2>3. CASE r \notin ByEmail(u.emails)
    <3>1. PICK i \in rows[r].ids : HumanOf[i.login] = h
      BY <2>1, <2>3 DEF PendingFor, Speaks
    <3>2. Of(rows[r], HumanOf[i.login])
      BY OfHuman
    <3> QED  BY <3>1, <3>2
  <2> QED  BY <2>2, <2>3
<1> DEFINE p == joined(r)
<1>4. p \in Persons /\ Of(p, h)
  <2>1. CASE r \in People
    <3>1. rs[r] \in Persons /\ rs[r].ids = rows[r].ids
      BY <2>1 DEF Rekeyed, People
    <3>2. \A i, j \in rs[r].ids : SameId(i, j) => i = j
      BY <2>1, <3>1 DEF IInv, OneRowEach
    <3>3. Of(rs[r], h)
      BY <1>3, <2>1, <3>1 DEF Of
    <3>4. Adopted(rs[r], u) \in Persons
      BY <3>1, <3>2, AdoptedFacts
    <3>5. Of(Adopted(rs[r], u), h)
      BY <3>1, <3>3, AdoptedHuman
    <3> QED  BY <2>1, <3>4, <3>5
  <2>2. CASE r \notin People
    <3>1. p = NewPerson(u)
      BY <2>2
    <3>2. p \in Persons /\ p.ids = {Identity(u)}
      BY <3>1 DEF NewPerson, Persons, Identity, Identities, HandleOf, Handles, Entrants, Editor
    <3>3. /\ Identity(u).login = u.login /\ Identity(u).emails = u.emails
          /\ Identity(u).id = u.id /\ Identity(u).provider = u.provider
      BY DEF Identity
    <3> QED  BY <3>2, <3>3 DEF Of, Speaks, Vouched
  <2> QED  BY <2>1, <2>2
<1>5. Adopt(rs, r, p, u, {}, TRUE)
  BY <1>1
<1> HIDE DEF joined, p
<1> QED  BY ONLY <1>2, <1>4, <1>5, AdoptHuman, AccountsAssumption, IInv, OneHuman, Rekeyed(rs),
               Speaks(u, h), {} \in SUBSET Rows, TRUE \in BOOLEAN

\* Whoever a provider speaks for is the human whose row has its id.
LEMMA ClaimHuman ==
  ASSUME AccountsAssumption, HonestUsers, OneHuman, NEW u \in Users \cup Guests
  PROVE  /\ u \in Entrants /\ Speaks(u, HumanOf[u.login])
         /\ \A q \in PersonOf(u) : Of(rows[q], HumanOf[u.login])
<1>1. u \in Entrants /\ u.id \in Ids
  BY AccountsAssumption DEF AccountsAssumption, Claimants, Entrants
<1>2. Speaks(u, HumanOf[u.login])
  BY DEF HonestUsers, Speaks, Vouched
<1>3. ASSUME NEW q \in PersonOf(u) PROVE Of(rows[q], HumanOf[u.login])
  <2>1. PICK i \in rows[q].ids : i.id = u.id /\ i.provider = u.provider
    BY <1>3 DEF PersonOf, Owns, SameId
  <2>2. q \in People
    BY <1>3 DEF PersonOf
  <2>3. Of(rows[q], HumanOf[i.login])
    BY <2>2, OfHuman
  <2>4. PICK v \in Users \cup Guests : v.provider = i.provider /\ v.id = i.id /\ v.login = i.login
    BY <1>1, <2>1, <2>3 DEF Of, Vouched
  <2>5. HumanOf[v.login] = HumanOf[u.login]
    BY <2>1, <2>4 DEF HonestUsers
  <2> QED  BY <2>3, <2>4, <2>5
<1> QED  BY <1>1, <1>2, <1>3

LEMMA JoinsHuman ==
  ASSUME AccountsAssumption, OneHuman, NobodyJoins
  PROVE  OneHuman'
<1> SUFFICES ASSUME NEW x \in People'
             PROVE  \E i \in rows'[x].ids : Of(rows'[x], HumanOf[i.login])
  BY DEF OneHuman, Of, Vouched
<1>1. Pending \notin Ids
  BY AccountsAssumption DEF AccountsAssumption
<1>2. CASE /\ x \in People /\ rows'[x].ids \subseteq rows[x].ids
           /\ rows'[x].ids = {} => rows[x].ids = {}
  <2>1. PICK i \in rows[x].ids : Of(rows[x], HumanOf[i.login])
    BY <1>2 DEF OneHuman
  <2>2. PICK j \in rows'[x].ids : TRUE
    BY <1>2, <2>1
  <2>3. HumanOf[j.login] = HumanOf[i.login]
    BY <1>2, <2>1 DEF Of
  <2>4. Of(rows'[x], HumanOf[i.login])
    BY <1>2, <2>1, <2>2 DEF Of
  <2> QED  BY <2>2, <2>3, <2>4
<1>3. CASE \E i : rows'[x].ids = {i} /\ i.id = Pending /\ i.emails = {}
  BY <1>1, <1>3 DEF Of
<1> QED  BY <1>2, <1>3 DEF NobodyJoins

LEMMA SignInHuman ==
  ASSUME AccountsAssumption, HonestUsers, IInv, OneHuman,
         NEW u \in Users \cup Guests, SignIn(u) \/ SignInMasora(u)
  PROVE  OneHuman'
<1>1. Enter(rows, u)
  BY DEF SignIn, SignInMasora
<1>2. Rekeyed(rows)
  BY DEF Rekeyed, IInv, TypeOK
<1>3. /\ u \in Entrants /\ Speaks(u, HumanOf[u.login])
      /\ \A q \in PersonOf(u) : Of(rows[q], HumanOf[u.login])
  BY ClaimHuman
<1> QED  BY ONLY <1>1, <1>2, <1>3, EnterHuman, AccountsAssumption, IInv, OneHuman

\* A key is nobody's id yet, so who comes in with it joins rows by its login alone.
LEMMA RedeemHuman ==
  ASSUME AccountsAssumption, IInv, OneHuman, NEW k \in Keys, Redeem(k)
  PROVE  OneHuman'
<1>1. PICK r \in People :
        /\ rows[r].key = k
        /\ IF k \in expired THEN rows' = Spent(r) /\ UNCHANGED <<owner, sessions>>
           ELSE Enter(Spent(r), [provider |-> rows[r].prim.provider, login |-> rows[r].prim.login,
                                 id |-> k, emails |-> {}, public |-> {}, domain |-> FALSE])
  BY DEF Redeem
<1>2. r \in Rows /\ rows[r] \in Persons /\ k # NoKey /\ k \notin Ids
  BY AccountsAssumption DEF People, IInv, TypeOK, AccountsAssumption
<1>3. Rekeyed(Spent(r))
  <2> DEFINE bare == [rows[r] EXCEPT !.key = NoKey]
  <2>1. /\ bare \in Persons /\ bare.ids = rows[r].ids /\ bare.key = NoKey /\ bare # NoRow
        /\ bare.prim = rows[r].prim /\ bare.role = rows[r].role
    BY <1>2, AccountsAssumption DEF Persons, AccountsAssumption
  <2>2. /\ Spent(r) \in [Rows -> Persons \cup {NoRow}]
        /\ \A x \in Rows : Spent(r)[x] = IF x = r THEN bare ELSE rows[x]
    BY <1>2, <2>1 DEF Spent, IInv, TypeOK
  <2> HIDE DEF bare
  <2> QED  BY <1>1, <2>1, <2>2 DEF Rekeyed, IInv, TypeOK, People
<1>4. CASE k \in expired
  <2>1. NobodyJoins
    BY <1>1, <1>3, <1>4 DEF NobodyJoins, Rekeyed, People
  <2> QED  BY <2>1, JoinsHuman
<1>5. CASE k \notin expired
  <2> DEFINE u == [provider |-> rows[r].prim.provider, login |-> rows[r].prim.login,
                   id |-> k, emails |-> {}, public |-> {}, domain |-> FALSE]
             h == HumanOf[u.login]
  <2>1. Enter(Spent(r), u)
    BY <1>1, <1>5
  <2>2. u \in Entrants /\ u.id = k
    BY <1>2 DEF Persons, Handles, Entrants
  <2>3. Speaks(u, h)
    BY <1>2 DEF Speaks
  <2> HIDE DEF u
  <2>4. PersonOf(u) = {}
    BY <1>1, <1>2, <2>2 DEF PersonOf, Owns, SameId, IInv, KeyUsedOnce
  <2>5. \A q \in PersonOf(u) : Of(rows[q], h)
    BY <2>4
  <2> HIDE DEF h
  <2> QED  BY ONLY <1>3, <2>1, <2>2, <2>3, <2>5, EnterHuman, AccountsAssumption, IInv, OneHuman
<1> QED  BY <1>4, <1>5

LEMMA LinkHuman ==
  ASSUME AccountsAssumption, HonestUsers, IInv, OneHuman, NEW u \in Users, LinkFinish(u)
  PROVE  OneHuman'
<1>1. PICK me \in PersonOf(linking.who) :
        /\ HumanOf[u.login] \in HumansOf(rows[me])
        /\ LET other == PersonOf(u)
               s     == Survivor(me, other)
               gone  == ({me} \cup other) \ {s}
               p     == Whole(rows[s], {rows[x] : x \in gone}, s = owner)
               w     == Unpublished(u)
           IN  Adopt(rows, s, Adopted(p, w), w, gone, FALSE)
  BY DEF LinkFinish
<1> DEFINE other == PersonOf(u)
           s     == Survivor(me, other)
           gone  == ({me} \cup other) \ {s}
           those == {rows[x] : x \in gone}
           owns  == s = owner
           p     == Whole(rows[s], those, owns)
           w     == Unpublished(u)
           q     == Adopted(p, w)
           done  == {s} \cup gone
           h     == HumanOf[u.login]
<1>2. Adopt(rows, s, q, w, gone, FALSE)
  BY <1>1
<1>3. /\ Speaks(u, h) /\ \A x \in other : Of(rows[x], h)
  BY ClaimHuman
<1>4. /\ w \in Entrants /\ w.login = u.login /\ w.emails = u.emails /\ w.public = {}
      /\ w.id = u.id /\ w.provider = u.provider
  BY AccountsAssumption DEF AccountsAssumption, Claimants, Entrants, Unpublished
<1>5. Speaks(w, h)
  BY <1>3, <1>4 DEF Speaks, Vouched
<1>6. other \subseteq People /\ me \in People
  BY DEF PersonOf
<1>7. Of(rows[me], h)
  <2>1. PICK i \in rows[me].ids : HumanOf[i.login] = h
    BY <1>1 DEF HumansOf
  <2> QED  BY <1>6, <2>1, OfHuman
<1>8. s \in {me} \cup other
  BY DEF Survivor
<1>9. done \in SUBSET People /\ s \in Rows /\ gone \in SUBSET Rows /\ \A x \in done : Of(rows[x], h)
  BY <1>3, <1>6, <1>7, <1>8 DEF People
<1>10. rows[s] \in Persons /\ those \in SUBSET Persons /\ \A o \in those : Of(o, h)
  BY <1>9 DEF IInv, TypeOK, People
<1>11. \A o \in those : \E x \in done : o = rows[x]
  OBVIOUS
<1>14. Rekeyed(rows)
  BY DEF Rekeyed, IInv, TypeOK
<1> HIDE DEF h, w, other, s, owns, those
<1>12. p \in Persons /\ Of(p, h)
  BY <1>9, <1>10, WholeFacts, WholeHuman
<1>13. \A i, j \in p.ids : SameId(i, j) => i = j
  <2>1. \A i \in Identities : i \in p.ids <=> (i \in rows[s].ids \/ \E o \in those : i \in o.ids)
    BY <1>10, WholeFacts
  <2>2. p.ids \subseteq Identities
    BY <1>12 DEF Persons
  <2>3. \A i \in p.ids : \E x \in done : i \in rows[x].ids
    BY <1>11, <2>1, <2>2
  <2> HIDE DEF p, done
  <2> QED  BY <1>9, <1>12, <2>3, JoinedAlone DEF Alone
<1> HIDE DEF p
<1>15. q \in Persons /\ Of(q, h)
  BY <1>4, <1>5, <1>12, <1>13, AdoptedFacts, AdoptedHuman
<1> HIDE DEF q, gone
<1> QED  BY ONLY <1>2, <1>5, <1>9, <1>14, <1>15, AdoptHuman, AccountsAssumption, IInv, OneHuman,
               FALSE \in BOOLEAN

LEMMA CombineHuman ==
  ASSUME AccountsAssumption, IInv, OneHuman, NEW into \in Rows, NEW from \in Rows, Combine(into, from)
  PROVE  OneHuman'
<1> DEFINE p == rows[into]
           fold == {from}
<1>1. /\ into \in People /\ from \in People /\ into # from
      /\ Settle(rows, into, p, {}, fold, FALSE)
      /\ HumansOf(rows[into]) \cap HumansOf(rows[from]) # {}
  BY DEF Combine
<1>2. p \in Persons
  BY <1>1 DEF IInv, TypeOK, People
<1>3. Rekeyed(rows) /\ TypeOK
  BY DEF Rekeyed, IInv, TypeOK
<1>4. fold \in SUBSET People /\ fold \cap ({into} \cup {}) = {}
  BY <1>1
<1>5. PICK i \in rows[into].ids, j \in rows[from].ids : HumanOf[i.login] = HumanOf[j.login]
  BY <1>1 DEF HumansOf
<1> DEFINE h == HumanOf[i.login]
<1>6. Of(p, h) /\ \A x \in fold : Of(rows[x], h)
  BY <1>1, <1>5, OfHuman
<1> HIDE DEF p, fold, h
<1>7. Settled(rows, into, p, {}, fold)
  BY ONLY <1>1, <1>2, <1>3, <1>4, SettleRows, AccountsAssumption, {} \in SUBSET Rows,
          FALSE \in BOOLEAN, into \in Rows
<1> QED  BY ONLY <1>3, <1>4, <1>6, <1>7, SettledHuman, OneHuman, into \in Rows

LEMMA NextHuman ==
  ASSUME AccountsAssumption, HonestUsers, IInv, OneHuman, [Next]_vars
  PROVE  OneHuman'
<1>1. CASE UNCHANGED vars
  BY <1>1 DEF vars, OneHuman, Of, Vouched, People
<1>2. CASE \E u \in Users : SignIn(u) \/ LinkFinish(u)
  BY <1>2, SignInHuman, LinkHuman
<1>3. CASE \E u \in Guests : SignInMasora(u)
  BY <1>3, SignInHuman
<1>4. CASE \E k \in Keys : Redeem(k) \/ Expire(k)
  BY <1>4, RedeemHuman, ExpireInv, JoinsHuman
<1>5. CASE \E t \in Tokens : Over(t) \/ \E provider \in Providers : LinkStart(t, provider)
  BY <1>5, LinkStartInv, OverInv, JoinsHuman
<1>6. CASE \E t \in Tokens, provider \in Providers, login \in Logins : Unlink(t, provider, login)
  BY <1>6, UnlinkInv, JoinsHuman
<1>7. CASE \E v \in Invitees : Allow(v)
  BY <1>7, AllowInv, JoinsHuman
<1>8. CASE \E login \in Logins : Revoke(login) \/ \E role \in Roles : SetRole(login, role)
  BY <1>8, RevokeInv, SetRoleInv, JoinsHuman
<1>9. CASE \E into, from \in Rows : Combine(into, from)
  BY <1>9, CombineHuman
<1>10. CASE LinkDropped
  BY <1>10, LinkDroppedInv, JoinsHuman
<1> QED  BY <1>1, <1>2, <1>3, <1>4, <1>5, <1>6, <1>7, <1>8, <1>9, <1>10 DEF Next

\* When providers vouch for what they say, no row ever holds two humans' accounts.
THEOREM NobodyMixed ==
  ASSUME HonestUsers
  PROVE  Spec => []NoMixing
<1>1. Init => OneHuman
  BY DEF Init, OneHuman, People
<1>2. IInv /\ OneHuman /\ [Next]_vars => OneHuman'
  BY NextHuman, AccountsAssumption
<1>3. OneHuman => NoMixing
  <2> SUFFICES ASSUME OneHuman, NEW r \in People
               PROVE  Cardinality(HumansOf(rows[r])) = 1
    BY DEF NoMixing
  <2>1. PICK i \in rows[r].ids : Of(rows[r], HumanOf[i.login])
    BY DEF OneHuman
  <2>2. HumansOf(rows[r]) = {HumanOf[i.login]}
    BY <2>1 DEF HumansOf, Of
  <2> QED  BY <2>2, FS_Singleton
<1> QED  BY <1>1, <1>2, <1>3, InvariantHolds, PTL DEF Spec
=============================================================================
