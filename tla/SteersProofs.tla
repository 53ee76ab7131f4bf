---------------------------- MODULE SteersProofs ----------------------------
(***************************************************************************)
(* What TLAPS proves of Steers, for any requests, desktops and bounds:     *)
(* types, that nothing runs without the consent of the person it runs for, *)
(* that what the hub tells the sender of a success is true, and that every *)
(* ending is reported back.                                                *)
(***************************************************************************)
EXTENDS Steers, TLAPS

-----------------------------------------------------------------------------
(* The inductive invariant.                                                *)

\* What was never relayed was never handled.
Unsent == {"none", "refused-by-policy", "unknown-agent", "offline"}

Untouched ==
  \A q \in Requests : status[q] \in Unsent =>
    \A d \in Desktops : pc[d][q] = "none" /\ <<d, q>> \notin ran /\ q \notin running[d]

Relayed == \A d \in Desktops, q \in Requests : pc[d][q] # "none" => under[q] # "off"

Consent(d, q) == under[q] = "on" \/ (under[q] = "ask" /\ <<d, q>> \in said)

\* The places a handler reaches only with the consent.
Past == {"injecting", "accepting", "naming", "accepted", "started", "start-failed"}

ConsentHeld ==
  \A d \in Desktops, q \in Requests :
    pc[d][q] \in Past \/ <<d, q>> \in ran \/ q \in running[d] => Consent(d, q)

Reached(q) == \E d \in Desktops : <<d, q>> \in ran

\* What says of a request that it succeeded.
Boast(q) == IF q \in Spawns THEN {"started", "start-failed"} ELSE {"accepted"}

TruthTold ==
  /\ \A p \in posts : p.status \in Boast(p.q) => Reached(p.q)
  /\ \A d \in Desktops, q \in Spawns : pc[d][q] \in {"naming", "started"} => Reached(q)
  /\ \A q \in Requests : status[q] \in Boast(q) \/ q \in marked => Reached(q)
  /\ \A q \in Requests \ Spawns : status[q] \notin {"started", "start-failed"}

Inv == TypeOK /\ Untouched /\ Relayed /\ ConsentHeld /\ TruthTold

-----------------------------------------------------------------------------
(* Types.                                                                  *)

\* The part of the type that the steps of a handler disturb.
HandlerTypes ==
  /\ pc \in [Desktops -> [Requests -> Places]]
  /\ \A d \in Desktops, q \in Requests \ Spawns : pc[d][q] \notin SpawnPlaces
  /\ posts \subseteq Post
  /\ \A p \in posts : p.status \in OwnerStatuses(p.q)

LEMMA GotoType ==
  ASSUME HandlerTypes, NEW d \in Desktops, NEW q \in Requests, NEW place \in Places,
         place \in SpawnPlaces => q \in Spawns, Goto(d, q, place)
  PROVE  /\ pc' \in [Desktops -> [Requests -> Places]]
         /\ \A e \in Desktops, r \in Requests \ Spawns : pc'[e][r] \notin SpawnPlaces
<1>1. pc' \in [Desktops -> [Requests -> Places]]
  BY DEF HandlerTypes, Goto
<1>2. \A e \in Desktops, r \in Requests : pc'[e][r] = pc[e][r] \/ (r = q /\ pc'[e][r] = place)
  BY DEF HandlerTypes, Goto
<1> QED  BY <1>1, <1>2 DEF HandlerTypes

LEMMA StayType ==
  ASSUME HandlerTypes, NEW d \in Desktops, NEW q \in Requests, NEW place \in Places,
         place \in SpawnPlaces => q \in Spawns, Goto(d, q, place), UNCHANGED posts
  PROVE  HandlerTypes'
  BY GotoType DEF HandlerTypes

LEMMA ReportType ==
  ASSUME HandlerTypes, NEW d \in Desktops, NEW q \in Requests, NEW s \in OwnerStatuses(q),
         NEW named \in BOOLEAN, NEW place \in Places,
         place \in SpawnPlaces => q \in Spawns, Report(d, q, s, named, place)
  PROVE  HandlerTypes'
<1>1. s \in Statuses
  BY DEF OwnerStatuses, Statuses
<1>2. /\ pc' \in [Desktops -> [Requests -> Places]]
      /\ \A e \in Desktops, r \in Requests \ Spawns : pc'[e][r] \notin SpawnPlaces
  BY GotoType DEF Report
<1> DEFINE new == [d |-> d, q |-> q, status |-> s, named |-> named, late |-> FALSE]
<1>3. posts' = posts \cup {new}
  BY DEF Report
<1>4. new \in Post /\ new.status \in OwnerStatuses(new.q)
  BY <1>1 DEF Post
<1> HIDE DEF new
<1> QED  BY <1>2, <1>3, <1>4 DEF HandlerTypes

LEMMA DeclinedType ==
  ASSUME HandlerTypes, NEW d \in Desktops, NEW q \in Requests, Declined(d, q)
  PROVE  HandlerTypes'
<1>1. /\ "declined" \in OwnerStatuses(q) /\ "declined" \in Places
      /\ "declined" \notin SpawnPlaces
  BY DEF OwnerStatuses, Places, Endings, SpawnPlaces
<1> QED  BY <1>1, ReportType DEF Declined

LEMMA GoType ==
  ASSUME HandlerTypes, NEW d \in Desktops, NEW q \in Requests, Go(d, q)
  PROVE  HandlerTypes'
<1>1. CASE Goto(d, q, "injecting") /\ UNCHANGED posts
  BY <1>1, StayType DEF Places, SpawnPlaces
<1>2. CASE q \in Spawns /\ Report(d, q, "accepted", FALSE, "accepting")
  BY <1>2, ReportType DEF OwnerStatuses, Places
<1>3. CASE Declined(d, q)
  BY <1>3, DeclinedType
<1> QED  BY <1>1, <1>2, <1>3 DEF Go

LEMMA HandlerType ==
  ASSUME TypeOK, NEW d \in Desktops, NEW q \in Requests,
         Handler(d, q) \/ Approve(d, q) \/ Outcome(d, q)
  PROVE  TypeOK'
<1>0. HandlerTypes
  BY DEF HandlerTypes, TypeOK
<1>1. CASE Take(d, q)
  <2>1. HandlerTypes'
    <3>1. CASE Report(d, q, "delivered", FALSE, "delivering")
      BY <1>0, <3>1, ReportType DEF OwnerStatuses, Places, SpawnPlaces
    <3>2. CASE Declined(d, q)  BY <1>0, <3>2, DeclinedType
    <3> QED  BY <1>1, <3>1, <3>2 DEF Take
  <2> QED  BY <1>1, <2>1 DEF Take, HandlerTypes, TypeOK
<1>2. CASE Check(d, q)
  <2>1. HandlerTypes'
    <3>1. CASE Declined(d, q)  BY <1>0, <3>1, DeclinedType
    <3>2. CASE q \in Spawns /\ Report(d, q, "no-such-repo", FALSE, "no-such-repo")
      BY <1>0, <3>2, ReportType DEF OwnerStatuses, Places, Endings
    <3>3. CASE Goto(d, q, "asking") /\ UNCHANGED posts
      BY <1>0, <3>3, StayType DEF Places, SpawnPlaces
    <3>4. CASE Go(d, q)  BY <1>0, <3>4, GoType
    <3> QED  BY <1>2, <3>1, <3>2, <3>3, <3>4 DEF Check
  <2> QED  BY <1>2, <2>1 DEF Check, HandlerTypes, TypeOK
<1>3. CASE NotApproved(d, q)
  <2>1. HandlerTypes'
    BY <1>0, <1>3, DeclinedType DEF NotApproved
  <2> QED  BY <1>3, <2>1 DEF NotApproved, HandlerTypes, TypeOK
<1>4. CASE Inject(d, q)
  <2>1. HandlerTypes'
    <3>1. CASE Report(d, q, "accepted", FALSE, "accepted")
      BY <1>0, <3>1, ReportType DEF OwnerStatuses, Places, Endings, SpawnPlaces
    <3>2. CASE Declined(d, q)  BY <1>0, <3>2, DeclinedType
    <3> QED  BY <1>4, <3>1, <3>2 DEF Inject
  <2>2. ran' \subseteq Desktops \X Requests
    <3>1. <<d, q>> \in Desktops \X Requests /\ ran \subseteq Desktops \X Requests
      BY DEF TypeOK
    <3>2. ran' = ran \/ ran' = ran \cup {<<d, q>>}
      BY <1>4 DEF Inject
    <3> QED  BY <3>1, <3>2
  <2> QED  BY <1>4, <2>1, <2>2 DEF Inject, HandlerTypes, TypeOK
<1>5. CASE Start(d, q)
  <2>0. q \in Spawns
    BY <1>5 DEF Start, TypeOK, SpawnPlaces
  <2>1. HandlerTypes'
    <3>1. CASE Goto(d, q, "naming") /\ UNCHANGED posts
      BY <1>0, <2>0, <3>1, StayType DEF Places
    <3>2. CASE Declined(d, q)  BY <1>0, <3>2, DeclinedType
    <3> QED  BY <1>5, <3>1, <3>2 DEF Start
  <2>2. ran' \subseteq Desktops \X Requests
    BY <1>5 DEF Start, TypeOK
  <2>3. running' \in [Desktops -> SUBSET Spawns]
    BY <1>5, <2>0 DEF Start, TypeOK
  <2> QED  BY <1>5, <2>1, <2>2, <2>3 DEF Start, HandlerTypes, TypeOK
<1>6. CASE Started(d, q)
  <2>0. q \in Spawns
    BY <1>6 DEF Started, TypeOK, SpawnPlaces
  <2>1. HandlerTypes'
    BY <1>0, <1>6, <2>0, ReportType DEF Started, OwnerStatuses, Places, Endings
  <2> QED  BY <1>6, <2>1 DEF Started, HandlerTypes, TypeOK
<1>7. CASE Approve(d, q)
  <2>1. HandlerTypes'
    BY <1>0, <1>7, GoType DEF Approve
  <2>2. said' \subseteq Desktops \X Requests
    BY <1>7 DEF Approve, TypeOK
  <2> QED  BY <1>7, <2>1, <2>2 DEF Approve, HandlerTypes, TypeOK
<1>8. CASE Outcome(d, q)
  <2>0. q \in Spawns
    BY <1>8 DEF Outcome, TypeOK, SpawnPlaces
  <2>1. HandlerTypes'
    BY <1>0, <1>8, <2>0, ReportType DEF Outcome, OwnerStatuses, Places, Endings
  <2> QED  BY <1>8, <2>1 DEF Outcome, HandlerTypes, TypeOK
<1> QED  BY <1>1, <1>2, <1>3, <1>4, <1>5, <1>6, <1>7, <1>8 DEF Handler

LEMMA HubType ==
  ASSUME TypeOK, NEW q \in Requests, Refuse(q) \/ Unknown(q) \/ Offline(q) \/ Relay(q)
  PROVE  TypeOK'
<1>1. CASE Refuse(q) \/ Unknown(q) \/ Offline(q)
  <2>1. status' \in [Requests -> Statuses]
    BY <1>1 DEF Refuse, Unknown, Offline, Turned, TypeOK, Statuses
  <2> QED  BY <1>1, <2>1 DEF Refuse, Unknown, Offline, Turned, TypeOK
<1>2. CASE Relay(q)
  <2>1. status' \in [Requests -> Statuses]
    BY <1>2 DEF Relay, TypeOK, Statuses
  <2>2. under' \in [Requests -> Policies] /\ aimed' \in [Requests -> SUBSET Desktops]
    BY <1>2 DEF Relay, TypeOK
  <2>3. pc' \in [Desktops -> [Requests -> Places]]
    BY <1>2 DEF Relay, TypeOK, Places
  <2>4. \A e \in Desktops, r \in Requests : pc'[e][r] = pc[e][r] \/ pc'[e][r] = "sent"
    BY <1>2 DEF Relay, TypeOK
  <2>5. \A e \in Desktops, r \in Requests \ Spawns : pc'[e][r] \notin SpawnPlaces
    BY <2>4 DEF TypeOK, SpawnPlaces
  <2> QED  BY <1>2, <2>1, <2>2, <2>3, <2>5 DEF Relay, TypeOK
<1> QED  BY <1>1, <1>2

LEMMA PostType ==
  ASSUME TypeOK, NEW p \in posts, HubStatus(p) \/ Lose(p) \/ GiveUp(p)
  PROVE  TypeOK'
<1>0. p \in Post /\ p.status \in OwnerStatuses(p.q) /\ p.q \in Requests /\ p.status \in Statuses
  BY DEF TypeOK, Post
<1>1. CASE HubStatus(p)
  <2>1. status' \in [Requests -> Statuses]
    BY <1>0, <1>1 DEF HubStatus, TypeOK
  <2>2. marked' \subseteq Spawns
    BY <1>0, <1>1 DEF HubStatus, TypeOK, OwnerStatuses
  <2> QED  BY <1>1, <2>1, <2>2 DEF HubStatus, TypeOK
<1>2. CASE Lose(p)
  BY <1>0, <1>2 DEF Lose, Fault, TypeOK
<1>3. CASE GiveUp(p)
  <2> DEFINE slow == [p EXCEPT !.late = TRUE]
  <2>1. slow \in Post /\ slow.status \in OwnerStatuses(slow.q)
    BY <1>0 DEF Post
  <2>2. posts' = (posts \ {p}) \cup {slow}
    BY <1>3 DEF GiveUp
  <2> HIDE DEF slow
  <2>3. posts' \subseteq Post /\ \A r \in posts' : r.status \in OwnerStatuses(r.q)
    BY <2>1, <2>2 DEF TypeOK
  <2> QED  BY <1>0, <1>3, <2>3 DEF GiveUp, Fault, TypeOK
<1> QED  BY <1>1, <1>2, <1>3

LEMMA DeskType ==
  ASSUME TypeOK, NEW d \in Desktops, Connect(d) \/ Drop(d) \/ StopChannel(d) \/ Crash(d)
  PROVE  TypeOK'
<1>0. \A r \in Requests : pc[d][r] \in Places /\ "gone" \in Places /\ "declined" \in Places /\ "none" \in Places
  BY DEF TypeOK, Places, Endings
<1>u. Unread(d) \in [Requests -> Places]
      /\ \A r \in Requests : Unread(d)[r] \in {pc[d][r], "gone"}
  BY <1>0 DEF Unread
<1>1. CASE Connect(d)
  BY <1>1 DEF Connect, TypeOK
<1>2. CASE Drop(d)
  <2>1. pc' \in [Desktops -> [Requests -> Places]]
    BY <1>2, <1>u DEF Drop, TypeOK
  <2>2. \A e \in Desktops, r \in Requests : pc'[e][r] \in {pc[e][r], "gone"}
    BY <1>2, <1>u DEF Drop, TypeOK
  <2>3. \A e \in Desktops, r \in Requests \ Spawns : pc'[e][r] \notin SpawnPlaces
    BY <2>2 DEF TypeOK, SpawnPlaces
  <2> QED  BY <1>2, <2>1, <2>3 DEF Drop, Fault, TypeOK
<1>3. CASE StopChannel(d)
  <2> DEFINE asked == {q \in Requests : pc[d][q] = "asking"}
             new(q) == [d |-> d, q |-> q, status |-> "declined", named |-> FALSE, late |-> FALSE]
             row == [q \in Requests |-> IF q \in asked THEN "declined" ELSE Unread(d)[q]]
  <2>0. pc' = [pc EXCEPT ![d] = row] /\ posts' = posts \cup {new(q) : q \in asked}
    BY <1>3 DEF StopChannel
  <2>r. row \in [Requests -> Places] /\ \A r \in Requests : row[r] \in {pc[d][r], "gone", "declined"}
    BY <1>0, <1>u
  <2>n. \A q \in asked : new(q) \in Post /\ new(q).status \in OwnerStatuses(new(q).q)
    BY DEF Post, Statuses, OwnerStatuses
  <2> HIDE DEF asked, new, row
  <2>1. pc' \in [Desktops -> [Requests -> Places]]
    BY <2>0, <2>r DEF TypeOK
  <2>2. \A e \in Desktops, r \in Requests : pc'[e][r] \in {pc[e][r], "gone", "declined"}
    BY <2>0, <2>r DEF TypeOK
  <2>3. \A e \in Desktops, r \in Requests \ Spawns : pc'[e][r] \notin SpawnPlaces
    BY <2>2 DEF TypeOK, SpawnPlaces
  <2>4. posts' \subseteq Post /\ \A p \in posts' : p.status \in OwnerStatuses(p.q)
    BY <2>0, <2>n DEF TypeOK
  <2> QED  BY <1>3, <2>1, <2>3, <2>4 DEF StopChannel, Fault, TypeOK
<1>4. CASE Crash(d)
  <2> DEFINE mine == {p \in posts : p.d = d}
             slow(p) == [p EXCEPT !.late = TRUE]
             row == [q \in Requests |-> IF pc[d][q] = "none" THEN "none" ELSE "gone"]
  <2>0. pc' = [pc EXCEPT ![d] = row] /\ posts' = (posts \ mine) \cup {slow(p) : p \in mine}
    BY <1>4 DEF Crash
  <2>r. row \in [Requests -> Places] /\ \A r \in Requests : row[r] \in {"none", "gone"}
    BY <1>0
  <2>n. \A p \in posts : slow(p) \in Post /\ slow(p).status \in OwnerStatuses(slow(p).q)
    BY DEF TypeOK, Post
  <2>t. troubled' \subseteq Requests
    BY <1>4 DEF Crash, TypeOK, Post
  <2>m. mine \subseteq posts
    OBVIOUS
  <2> HIDE DEF mine, slow, row
  <2>1. pc' \in [Desktops -> [Requests -> Places]]
    BY <2>0, <2>r DEF TypeOK
  <2>2. \A e \in Desktops, r \in Requests : pc'[e][r] \in {pc[e][r], "gone", "none"}
    BY <2>0, <2>r DEF TypeOK
  <2>3. \A e \in Desktops, r \in Requests \ Spawns : pc'[e][r] \notin SpawnPlaces
    BY <2>2 DEF TypeOK, SpawnPlaces
  <2>4. posts' \subseteq Post /\ \A p \in posts' : p.status \in OwnerStatuses(p.q)
    BY <2>0, <2>n, <2>m DEF TypeOK
  <2> QED  BY <1>4, <2>1, <2>3, <2>4, <2>t DEF Crash, Fault, TypeOK
<1> QED  BY <1>1, <1>2, <1>3, <1>4

LEMMA RestType ==
  ASSUME TypeOK,
         \/ HubRestart
         \/ \E q \in Requests : Evict(q)
         \/ \E v \in Policies : SetPolicy(v)
         \/ \E d \in Desktops, q \in Requests : AgentEnds(d, q)
         \/ UNCHANGED vars
  PROVE  TypeOK'
<1>1. CASE HubRestart
  <2>1. status' \in [Requests -> Statuses]
    BY <1>1 DEF HubRestart, TypeOK, Statuses
  <2>2. \A d \in Desktops : Unread(d) \in [Requests -> Places]
                            /\ \A r \in Requests : Unread(d)[r] \in {pc[d][r], "gone"}
    BY DEF Unread, TypeOK, Places
  <2>3. pc' = [d \in Desktops |-> Unread(d)]
    BY <1>1 DEF HubRestart
  <2>4. pc' \in [Desktops -> [Requests -> Places]]
        /\ \A d \in Desktops, r \in Requests : pc'[d][r] \in {pc[d][r], "gone"}
    BY <2>2, <2>3
  <2>5. \A e \in Desktops, r \in Requests \ Spawns : pc'[e][r] \notin SpawnPlaces
    BY <2>4 DEF TypeOK, SpawnPlaces
  <2> QED  BY <1>1, <2>1, <2>4, <2>5 DEF HubRestart, Fault, TypeOK
<1>2. CASE \E v \in Policies : SetPolicy(v)
  BY <1>2 DEF SetPolicy, Fault, TypeOK
<1>3. CASE \E d \in Desktops, q \in Requests : AgentEnds(d, q)
  BY <1>3 DEF AgentEnds, TypeOK
<1>4. CASE UNCHANGED vars
  BY <1>4 DEF vars, TypeOK
<1>5. CASE \E q \in Requests : Evict(q)
  <2>1. status' \in [Requests -> Statuses]
    BY <1>5 DEF Evict, TypeOK, Statuses
  <2> QED  BY <1>5, <2>1 DEF Evict, Fault, TypeOK
<1> QED  BY <1>1, <1>2, <1>3, <1>4, <1>5

LEMMA NextType == TypeOK /\ [Next]_vars => TypeOK'
<1> SUFFICES ASSUME TypeOK, [Next]_vars PROVE TypeOK'
  OBVIOUS
<1>1. CASE \E q \in Requests : Refuse(q) \/ Unknown(q) \/ Offline(q) \/ Relay(q)
  BY <1>1, HubType
<1>2. CASE \E p \in posts : HubStatus(p) \/ Lose(p) \/ GiveUp(p)
  BY <1>2, PostType
<1>3. CASE \E d \in Desktops, q \in Requests : Handler(d, q) \/ Approve(d, q) \/ Outcome(d, q)
  BY <1>3, HandlerType
<1>4. CASE \E d \in Desktops : Connect(d) \/ Drop(d) \/ StopChannel(d) \/ Crash(d)
  BY <1>4, DeskType
<1> QED  BY <1>1, <1>2, <1>3, <1>4, RestType DEF Next

LEMMA InitType == Init => TypeOK
  BY SteersAssumption DEF Init, TypeOK, Statuses, Policies, Places, SpawnPlaces, OwnerStatuses

-----------------------------------------------------------------------------
(* The steps of a handler.                                                 *)

\* All that the invariants need of one: it is <<d, q>>'s, relayed; what it
\* goes on to has the consent, and what it boasts of is done.
Moved(d, q) ==
  /\ UNCHANGED <<status, under, marked>>
  /\ pc[d][q] # "none"
  /\ \A e \in Desktops, r \in Requests : (e # d \/ r # q) => pc'[e][r] = pc[e][r]
  /\ ran \subseteq ran' /\ said \subseteq said'
  /\ \A e \in Desktops, r \in Requests : (e # d \/ r # q) =>
       /\ <<e, r>> \in ran' => <<e, r>> \in ran
       /\ r \in running'[e] => r \in running[e]
  /\ pc'[d][q] \in Past \/ <<d, q>> \in ran' \/ q \in running'[d] => Consent(d, q)'
  /\ \A p \in posts' : p \in posts \/ (p.q = q /\ (p.status \in Boast(q) => Reached(q)'))
  /\ q \in Spawns /\ pc'[d][q] \in {"naming", "started"} => Reached(q)'

LEMMA MovedKeeps ==
  ASSUME Inv, NEW d \in Desktops, NEW q \in Requests, Moved(d, q)
  PROVE  Untouched' /\ Relayed' /\ ConsentHeld' /\ TruthTold'
<1>0. status[q] \notin Unsent /\ under[q] # "off"
  BY DEF Inv, Moved, Untouched, Relayed
<1>r. \A r \in Requests : Reached(r) => Reached(r)'
  BY DEF Reached, Moved
<1>c. \A e \in Desktops, r \in Requests : Consent(e, r) => Consent(e, r)'
  BY DEF Consent, Moved
<1>1. Untouched'
  BY <1>0 DEF Inv, Moved, Untouched
<1>2. Relayed'
  BY <1>0 DEF Inv, Moved, Relayed
<1>3. ConsentHeld'
  BY <1>c DEF Inv, Moved, ConsentHeld
<1>4. TruthTold'
  <2>1. \A p \in posts' : p.status \in Boast(p.q) => Reached(p.q)'
    BY <1>r DEF Inv, Moved, TruthTold, TypeOK, Post
  <2>2. \A e \in Desktops, r \in Spawns : pc'[e][r] \in {"naming", "started"} => Reached(r)'
    BY <1>r, SteersAssumption DEF Inv, Moved, TruthTold
  <2>3. \A r \in Requests : status'[r] \in Boast(r) \/ r \in marked' => Reached(r)'
    BY <1>r DEF Inv, Moved, TruthTold
  <2>4. \A r \in Requests \ Spawns : status'[r] \notin {"started", "start-failed"}
    BY DEF Inv, Moved, TruthTold
  <2> QED  BY <2>1, <2>2, <2>3, <2>4 DEF TruthTold, Boast
<1> QED  BY <1>1, <1>2, <1>3, <1>4

LEMMA GotoFrame ==
  ASSUME TypeOK, NEW d \in Desktops, NEW q \in Requests, NEW place, Goto(d, q, place)
  PROVE  /\ pc'[d][q] = place
         /\ \A e \in Desktops, r \in Requests : (e # d \/ r # q) => pc'[e][r] = pc[e][r]
  BY DEF TypeOK, Goto

LEMMA ReportFrame ==
  ASSUME TypeOK, NEW d \in Desktops, NEW q \in Requests, NEW s, NEW named, NEW place,
         Report(d, q, s, named, place)
  PROVE  /\ pc'[d][q] = place
         /\ \A e \in Desktops, r \in Requests : (e # d \/ r # q) => pc'[e][r] = pc[e][r]
         /\ \A p \in posts' : p \in posts \/ (p.q = q /\ p.status = s)
<1>1. Goto(d, q, place)
  BY DEF Report
<1> QED  BY <1>1, GotoFrame DEF Report

LEMMA ReportMoved ==
  ASSUME TypeOK, NEW d \in Desktops, NEW q \in Requests, NEW s, NEW named, NEW place,
         Report(d, q, s, named, place), UNCHANGED <<status, under, marked>>,
         pc[d][q] # "none", ran \subseteq ran', said \subseteq said',
         \A e \in Desktops, r \in Requests : (e # d \/ r # q) =>
            /\ <<e, r>> \in ran' => <<e, r>> \in ran
            /\ r \in running'[e] => r \in running[e],
         place \in Past \/ <<d, q>> \in ran' \/ q \in running'[d] => Consent(d, q)',
         s \in Boast(q) => Reached(q)',
         q \in Spawns /\ place \in {"naming", "started"} => Reached(q)'
  PROVE  Moved(d, q)
<1>1. /\ pc'[d][q] = place
      /\ \A e \in Desktops, r \in Requests : (e # d \/ r # q) => pc'[e][r] = pc[e][r]
      /\ \A p \in posts' : p \in posts \/ (p.q = q /\ p.status = s)
  BY ReportFrame
<1>2. \A p \in posts' : p \in posts \/ (p.q = q /\ (p.status \in Boast(q) => Reached(q)'))
  BY <1>1
<1> QED  BY <1>1, <1>2 DEF Moved

LEMMA HandlerMoved ==
  ASSUME Inv, NEW d \in Desktops, NEW q \in Requests,
         Handler(d, q) \/ Approve(d, q) \/ Outcome(d, q)
  PROVE  Moved(d, q)
<1>t. TypeOK
  BY DEF Inv
<1>c. pc[d][q] \in Past \/ <<d, q>> \in ran \/ q \in running[d] => Consent(d, q)
  BY DEF Inv, ConsentHeld
<1>o. pc[d][q] # "none" => under[q] \in {"ask", "on"}
  BY DEF Inv, Relayed, TypeOK, Policies
<1>1. CASE Take(d, q)
  <2>1. CASE Report(d, q, "delivered", FALSE, "delivering")
    BY <1>1, <2>1, <1>t, <1>c, ReportMoved DEF Take, Past, Consent, Boast
  <2>2. CASE Report(d, q, "declined", FALSE, "declined")
    BY <1>1, <2>2, <1>t, <1>c, ReportMoved DEF Take, Past, Consent, Boast
  <2> QED  BY <1>1, <2>1, <2>2 DEF Take, Declined
<1>2. CASE Check(d, q)
  <2>1. CASE Report(d, q, "declined", FALSE, "declined")
    BY <1>2, <2>1, <1>t, <1>c, ReportMoved DEF Check, Past, Consent, Boast
  <2>2. CASE Report(d, q, "no-such-repo", FALSE, "no-such-repo")
    BY <1>2, <2>2, <1>t, <1>c, ReportMoved DEF Check, Past, Consent, Boast
  <2>3. CASE Goto(d, q, "asking") /\ UNCHANGED posts
    BY <1>2, <2>3, <1>t, <1>c, GotoFrame DEF Check, Moved, Past, Consent
  <2>4. CASE ~Approval(q) /\ Go(d, q)
    <3>0. under[q] = "on" /\ pc[d][q] # "none"
      BY <1>2, <1>o, <2>4 DEF Check, Approval
    <3>1. CASE Goto(d, q, "injecting") /\ UNCHANGED posts
      BY <1>2, <3>0, <3>1, <1>t, <1>c, GotoFrame DEF Check, Moved, Consent
    <3>2. CASE q \in Spawns /\ Report(d, q, "accepted", FALSE, "accepting")
      BY <1>2, <3>0, <3>2, <1>t, <1>c, ReportMoved DEF Check, Consent, Boast
    <3> QED  BY <2>1, <2>4, <3>1, <3>2 DEF Go, Declined
  <2> QED  BY <1>2, <2>1, <2>2, <2>3, <2>4 DEF Check, Declined
<1>3. CASE NotApproved(d, q)
  <2>1. Report(d, q, "declined", FALSE, "declined")
    BY <1>3 DEF NotApproved, Declined
  <2> QED  BY <1>3, <2>1, <1>t, <1>c, ReportMoved DEF NotApproved, Past, Consent, Boast
<1>4. CASE Inject(d, q)
  <2>0. Consent(d, q) /\ pc[d][q] # "none"
    BY <1>4, <1>c DEF Inject, Past
  <2>c. Consent(d, q)'
    BY <1>4, <2>0 DEF Inject, Consent
  <2>1. CASE ran' = ran \cup {<<d, q>>} /\ Report(d, q, "accepted", FALSE, "accepted")
    <3>1. Reached(q)'
      BY <2>1 DEF Reached
    <3> QED  BY <1>4, <2>0, <2>c, <2>1, <3>1, <1>t, ReportMoved DEF Inject
  <2>2. CASE ran' \in {ran, ran \cup {<<d, q>>}} /\ Report(d, q, "declined", FALSE, "declined")
    BY <1>4, <2>0, <2>c, <2>2, <1>t, ReportMoved DEF Inject, Boast
  <2> QED  BY <1>4, <2>1, <2>2 DEF Inject, Declined
<1>5. CASE Start(d, q)
  <2>0. Consent(d, q) /\ pc[d][q] # "none"
    BY <1>5, <1>c DEF Start, Past
  <2>c. Consent(d, q)'
    BY <1>5, <2>0 DEF Start, Consent
  <2>r. \A e \in Desktops, r \in Requests : (e # d \/ r # q) => (r \in running'[e] => r \in running[e])
    BY <1>5, <1>t DEF Start, TypeOK
  <2>1. CASE ran' = ran \cup {<<d, q>>} /\ Goto(d, q, "naming") /\ UNCHANGED posts
    <3>1. Reached(q)'
      BY <2>1 DEF Reached
    <3> QED  BY <1>5, <2>0, <2>c, <2>r, <2>1, <3>1, <1>t, GotoFrame DEF Start, Moved
  <2>2. CASE UNCHANGED ran /\ Report(d, q, "declined", FALSE, "declined")
    BY <1>5, <2>0, <2>c, <2>r, <2>2, <1>t, ReportMoved DEF Start, Boast
  <2> QED  BY <1>5, <2>1, <2>2 DEF Start, Declined
<1>6. CASE Started(d, q)
  <2>0. Consent(d, q) /\ pc[d][q] # "none" /\ q \in Spawns
    BY <1>6, <1>c, <1>t DEF Started, Past, TypeOK, SpawnPlaces
  <2>c. Consent(d, q)'
    BY <1>6, <2>0 DEF Started, Consent
  <2>1. Reached(q)'
    BY <1>6, <2>0 DEF Started, Inv, TruthTold, Reached
  <2>2. PICK named \in BOOLEAN : Report(d, q, "started", named, "started")
    BY <1>6 DEF Started
  <2> QED  BY <1>6, <2>0, <2>c, <2>1, <2>2, <1>t, ReportMoved DEF Started
<1>7. CASE Approve(d, q)
  <2>0. pc[d][q] # "none" /\ Consent(d, q)' /\ said \subseteq said'
    BY <1>7, <1>o DEF Approve, Consent
  <2>1. CASE Goto(d, q, "injecting") /\ UNCHANGED posts
    BY <1>7, <2>0, <2>1, <1>t, GotoFrame DEF Approve, Moved
  <2>2. CASE q \in Spawns /\ Report(d, q, "accepted", FALSE, "accepting")
    BY <1>7, <2>0, <2>2, <1>t, ReportMoved DEF Approve, Boast
  <2>3. CASE Report(d, q, "declined", FALSE, "declined")
    BY <1>7, <2>0, <2>3, <1>t, ReportMoved DEF Approve, Boast
  <2> QED  BY <1>7, <2>1, <2>2, <2>3 DEF Approve, Go, Declined
<1>8. CASE Outcome(d, q)
  <2>0. Consent(d, q) /\ pc[d][q] # "none" /\ q \in Spawns
    BY <1>8, <1>c, <1>t DEF Outcome, Past, TypeOK, SpawnPlaces
  <2>c. Consent(d, q)'
    BY <1>8, <2>0 DEF Outcome, Consent
  <2>1. Reached(q)'
    BY <1>8, <2>0 DEF Outcome, Inv, TruthTold, Reached
  <2> QED  BY <1>8, <2>0, <2>c, <2>1, <1>t, ReportMoved DEF Outcome
<1> QED  BY <1>1, <1>2, <1>3, <1>4, <1>5, <1>6, <1>7, <1>8 DEF Handler

-----------------------------------------------------------------------------
(* The other steps.                                                        *)

LEMMA HubKeeps ==
  ASSUME Inv, NEW q \in Requests, Refuse(q) \/ Unknown(q) \/ Offline(q) \/ Relay(q)
  PROVE  Untouched' /\ Relayed' /\ ConsentHeld' /\ TruthTold'
<1>0. /\ status[q] = "none"
      /\ \A d \in Desktops : pc[d][q] = "none" /\ <<d, q>> \notin ran /\ q \notin running[d]
  BY DEF Refuse, Unknown, Offline, Relay, Inv, Untouched, Unsent
<1>1. CASE Refuse(q) \/ Unknown(q) \/ Offline(q)
  <2>1. /\ UNCHANGED <<under, marked, pc, posts, ran, said, running>>
        /\ \A r \in Requests : status'[r] = status[r] \/ (r = q /\ status'[r] \in Unsent)
    BY <1>1 DEF Refuse, Unknown, Offline, Turned, Inv, TypeOK, Unsent
  <2>2. Untouched' /\ Relayed' /\ ConsentHeld'
    BY <1>0, <2>1 DEF Inv, Untouched, Relayed, ConsentHeld, Consent
  <2>3. TruthTold'
    BY <1>0, <2>1 DEF Inv, TruthTold, Reached, Boast, Unsent
  <2> QED  BY <2>2, <2>3
<1>2. CASE Relay(q)
  <2>1. /\ UNCHANGED <<marked, posts, ran, said, running>>
        /\ \A r \in Requests : r # q => status'[r] = status[r] /\ under'[r] = under[r]
        /\ status'[q] = "queued" /\ under'[q] # "off"
    BY <1>2 DEF Relay, Inv, TypeOK
  <2>2. \A d \in Desktops, r \in Requests :
           pc'[d][r] = pc[d][r] \/ (r = q /\ pc'[d][r] = "sent")
    BY <1>2 DEF Relay, Inv, TypeOK
  <2>3. Untouched' /\ Relayed'
    BY <1>0, <2>1, <2>2 DEF Inv, Untouched, Relayed, Unsent
  <2>4. ConsentHeld'
    BY <1>0, <2>1, <2>2 DEF Inv, ConsentHeld, Consent, Past
  <2>5. TruthTold'
    <3>1. \A d \in Desktops, r \in Spawns : pc'[d][r] \in {"naming", "started"} => Reached(r)
      BY <2>2, SteersAssumption DEF Inv, TruthTold
    <3>2. \A r \in Requests : status'[r] \in Boast(r) \/ r \in marked' => Reached(r)
      BY <2>1 DEF Inv, TruthTold, Boast
    <3>3. \A r \in Requests \ Spawns : status'[r] \notin {"started", "start-failed"}
      BY <2>1 DEF Inv, TruthTold
    <3> QED  BY <2>1, <3>1, <3>2, <3>3 DEF Inv, TruthTold, Reached, Boast
  <2> QED  BY <2>3, <2>4, <2>5
<1> QED  BY <1>1, <1>2

LEMMA PostKeeps ==
  ASSUME Inv, NEW p \in posts, HubStatus(p) \/ Lose(p) \/ GiveUp(p)
  PROVE  Untouched' /\ Relayed' /\ ConsentHeld' /\ TruthTold'
<1>0. p.q \in Requests /\ p.status \in OwnerStatuses(p.q)
  BY DEF Inv, TypeOK, Post
<1>1. CASE HubStatus(p)
  <2>1. UNCHANGED <<under, pc, ran, said, running>> /\ posts' \subseteq posts
    BY <1>1 DEF HubStatus
  <2>2. CASE ~Takes(p)
    <3>1. UNCHANGED <<status, marked>>
      BY <1>1, <2>2 DEF HubStatus
    <3> QED  BY <2>1, <3>1 DEF Inv, Untouched, Relayed, ConsentHeld, Consent, TruthTold, Reached
  <2>3. CASE Takes(p)
    <3>1. /\ status[p.q] \notin Unsent
          /\ status'[p.q] = p.status
          /\ \A r \in Requests : r # p.q => status'[r] = status[r]
          /\ \A r \in marked' : r \in marked \/ (r = p.q /\ p.status = "started")
      BY <1>0, <1>1, <2>3 DEF HubStatus, Takes, Open, Unsent, Inv, TypeOK
    <3>2. p.status \notin Unsent /\ (p.q \notin Spawns => p.status \notin {"started", "start-failed"})
      BY <1>0 DEF OwnerStatuses, Unsent
    <3>3. Untouched' /\ Relayed' /\ ConsentHeld'
      BY <2>1, <3>1, <3>2 DEF Inv, Untouched, Relayed, ConsentHeld, Consent
    <3>4. p.status \in Boast(p.q) => Reached(p.q)
      BY DEF Inv, TruthTold
    <3>5. p.status = "started" => p.status \in Boast(p.q)
      BY <3>2 DEF Boast
    <3>6. TruthTold'
      BY <2>1, <3>1, <3>2, <3>4, <3>5 DEF Inv, TruthTold, Reached, Boast
    <3> QED  BY <3>3, <3>6
  <2> QED  BY <2>2, <2>3
<1>2. CASE Lose(p) \/ GiveUp(p)
  <2>1. /\ UNCHANGED <<status, marked, under, pc, ran, said, running>>
        /\ \A r \in posts' : r \in posts \/ (r.q = p.q /\ r.status = p.status)
    BY <1>2 DEF Lose, GiveUp, Inv, TypeOK, Post
  <2>2. Untouched' /\ Relayed' /\ ConsentHeld'
    BY <2>1 DEF Inv, Untouched, Relayed, ConsentHeld, Consent
  <2>3. TruthTold'
    BY <2>1 DEF Inv, TruthTold, Reached, Boast
  <2> QED  BY <2>2, <2>3
<1> QED  BY <1>1, <1>2

\* What happens to a desktop, or to the hub, only takes away.
LEMMA LessKeeps ==
  ASSUME Inv,
         UNCHANGED <<under, ran, said>>, marked' \subseteq marked,
         \A e \in Desktops, r \in Requests :
            /\ pc'[e][r] \in {pc[e][r]} \cup (IF pc[e][r] = "none" THEN {} ELSE {"gone", "declined"})
            /\ r \in running'[e] => r \in running[e],
         \A p \in posts' : \/ p.status = "declined"
                          \/ \E o \in posts : p.q = o.q /\ p.status = o.status,
         \A r \in Requests : status'[r] = status[r] \/ (status[r] # "none" /\ status'[r] = "forgotten")
  PROVE  Untouched' /\ Relayed' /\ ConsentHeld' /\ TruthTold'
<1>0. \A r \in Requests : Reached(r)' = Reached(r)
  BY DEF Reached
<1>1. Untouched' /\ Relayed'
  BY DEF Inv, Untouched, Relayed, Unsent
<1>2. ConsentHeld'
  BY DEF Inv, ConsentHeld, Consent, Past
<1>3. TruthTold'
  <2>1. \A p \in posts' : p.status \in Boast(p.q) => Reached(p.q)'
    BY DEF Inv, TruthTold, Boast, Reached
  <2>2. \A e \in Desktops, r \in Spawns : pc'[e][r] \in {"naming", "started"} => Reached(r)'
    BY <1>0, SteersAssumption DEF Inv, TruthTold
  <2>3. \A r \in Requests : status'[r] \in Boast(r) \/ r \in marked' => Reached(r)'
    BY <1>0 DEF Inv, TruthTold, Boast
  <2>4. \A r \in Requests \ Spawns : status'[r] \notin {"started", "start-failed"}
    BY DEF Inv, TruthTold
  <2> QED  BY <2>1, <2>2, <2>3, <2>4 DEF TruthTold, Boast
<1> QED  BY <1>1, <1>2, <1>3

LEMMA DeskKeeps ==
  ASSUME Inv, NEW d \in Desktops, Connect(d) \/ Drop(d) \/ StopChannel(d) \/ Crash(d)
  PROVE  Untouched' /\ Relayed' /\ ConsentHeld' /\ TruthTold'
<1>u. \A r \in Requests : Unread(d)[r] = IF pc[d][r] = "sent" THEN "gone" ELSE pc[d][r]
  BY DEF Unread
<1>1. CASE Connect(d)
  BY <1>1 DEF Connect, Inv, Untouched, Relayed, ConsentHeld, Consent, TruthTold, Reached
<1>2. CASE Drop(d)
  <2>1. \A e \in Desktops, r \in Requests :
           pc'[e][r] \in {pc[e][r]} \cup (IF pc[e][r] = "none" THEN {} ELSE {"gone", "declined"})
    BY <1>2, <1>u DEF Drop, Inv, TypeOK
  <2> QED  BY <1>2, <2>1, LessKeeps DEF Drop
<1>3. CASE StopChannel(d)
  <2> DEFINE asked == {q \in Requests : pc[d][q] = "asking"}
             new(q) == [d |-> d, q |-> q, status |-> "declined", named |-> FALSE, late |-> FALSE]
             row == [q \in Requests |-> IF q \in asked THEN "declined" ELSE Unread(d)[q]]
  <2>0. pc' = [pc EXCEPT ![d] = row] /\ posts' = posts \cup {new(q) : q \in asked}
    BY <1>3 DEF StopChannel
  <2>r. \A r \in Requests :
           row[r] \in {pc[d][r]} \cup (IF pc[d][r] = "none" THEN {} ELSE {"gone", "declined"})
    BY <1>u
  <2>n. \A q : new(q).status = "declined"
    OBVIOUS
  <2> HIDE DEF asked, new, row
  <2>1. \A e \in Desktops, r \in Requests :
           pc'[e][r] \in {pc[e][r]} \cup (IF pc[e][r] = "none" THEN {} ELSE {"gone", "declined"})
    BY <2>0, <2>r DEF Inv, TypeOK
  <2>2. \A p \in posts' : \/ p.status = "declined"
                         \/ \E o \in posts : p.q = o.q /\ p.status = o.status
    BY <2>0, <2>n
  <2> QED  BY <1>3, <2>1, <2>2, LessKeeps DEF StopChannel
<1>4. CASE Crash(d)
  <2> DEFINE mine == {p \in posts : p.d = d}
             slow(p) == [p EXCEPT !.late = TRUE]
             row == [q \in Requests |-> IF pc[d][q] = "none" THEN "none" ELSE "gone"]
  <2>0. pc' = [pc EXCEPT ![d] = row] /\ posts' = (posts \ mine) \cup {slow(p) : p \in mine}
    BY <1>4 DEF Crash
  <2>r. \A r \in Requests :
           row[r] \in {pc[d][r]} \cup (IF pc[d][r] = "none" THEN {} ELSE {"gone", "declined"})
    OBVIOUS
  <2>n. \A p \in posts : slow(p).q = p.q /\ slow(p).status = p.status
    BY DEF Inv, TypeOK, Post
  <2>m. mine \subseteq posts
    OBVIOUS
  <2>s. \A e \in Desktops, r \in Requests : r \in running'[e] => r \in running[e]
    BY <1>4 DEF Crash, Inv, TypeOK
  <2> HIDE DEF mine, slow, row
  <2>1. \A e \in Desktops, r \in Requests :
           pc'[e][r] \in {pc[e][r]} \cup (IF pc[e][r] = "none" THEN {} ELSE {"gone", "declined"})
    BY <2>0, <2>r DEF Inv, TypeOK
  <2>2. \A p \in posts' : \/ p.status = "declined"
                         \/ \E o \in posts : p.q = o.q /\ p.status = o.status
    BY <2>0, <2>n, <2>m
  <2> QED  BY <1>4, <2>s, <2>1, <2>2, LessKeeps DEF Crash
<1> QED  BY <1>1, <1>2, <1>3, <1>4

LEMMA RestKeeps ==
  ASSUME Inv,
         \/ HubRestart
         \/ \E q \in Requests : Evict(q)
         \/ \E v \in Policies : SetPolicy(v)
         \/ \E d \in Desktops, q \in Requests : AgentEnds(d, q)
         \/ UNCHANGED vars
  PROVE  Untouched' /\ Relayed' /\ ConsentHeld' /\ TruthTold'
<1>1. CASE HubRestart
  <2>1. pc' = [d \in Desktops |-> [q \in Requests |-> IF pc[d][q] = "sent" THEN "gone" ELSE pc[d][q]]]
    BY <1>1 DEF HubRestart, Unread
  <2>2. \A e \in Desktops, r \in Requests :
           pc'[e][r] \in {pc[e][r]} \cup (IF pc[e][r] = "none" THEN {} ELSE {"gone", "declined"})
    BY <2>1
  <2>3. \A r \in Requests : status'[r] = status[r] \/ (status[r] # "none" /\ status'[r] = "forgotten")
    BY <1>1 DEF HubRestart
  <2> QED  BY <1>1, <2>2, <2>3, LessKeeps DEF HubRestart
<1>2. CASE \E v \in Policies : SetPolicy(v)
  BY <1>2 DEF SetPolicy, Inv, Untouched, Relayed, ConsentHeld, Consent, TruthTold, Reached
<1>3. CASE \E d \in Desktops, q \in Requests : AgentEnds(d, q)
  <2>1. PICK d \in Desktops : \E q \in Requests : AgentEnds(d, q)
    BY <1>3
  <2>2. PICK q \in Requests : AgentEnds(d, q)
    BY <2>1
  <2>3. \A e \in Desktops, r \in Requests : r \in running'[e] => r \in running[e]
    BY <2>2 DEF AgentEnds, Inv, TypeOK
  <2> QED  BY <2>2, <2>3 DEF AgentEnds, Inv, Untouched, Relayed, ConsentHeld, Consent, TruthTold, Reached
<1>4. CASE UNCHANGED vars
  BY <1>4 DEF vars, Inv, Untouched, Relayed, ConsentHeld, Consent, TruthTold, Reached
<1>5. CASE \E q \in Requests : Evict(q)
  <2>1. \A r \in Requests : status'[r] = status[r] \/ (status[r] # "none" /\ status'[r] = "forgotten")
    BY <1>5 DEF Evict, Inv, TypeOK
  <2>2. \A e \in Desktops, r \in Requests :
           pc'[e][r] \in {pc[e][r]} \cup (IF pc[e][r] = "none" THEN {} ELSE {"gone", "declined"})
    BY <1>5 DEF Evict
  <2> QED  BY <1>5, <2>1, <2>2, LessKeeps DEF Evict
<1> QED  BY <1>1, <1>2, <1>3, <1>4, <1>5

-----------------------------------------------------------------------------
(* The theorems.                                                           *)

LEMMA InitInv == Init => Inv
<1> SUFFICES ASSUME Init PROVE Inv
  OBVIOUS
<1>1. \A d \in Desktops, q \in Requests : pc[d][q] = "none" /\ q \notin running[d]
  BY DEF Init
<1>2. /\ ran = {} /\ posts = {} /\ marked = {}
      /\ \A q \in Requests : status[q] = "none"
  BY DEF Init
<1>3. Untouched /\ Relayed
  BY <1>1, <1>2 DEF Untouched, Relayed
<1>4. ConsentHeld
  BY <1>1, <1>2 DEF ConsentHeld, Past
<1>5. TruthTold
  BY <1>1, <1>2, SteersAssumption DEF TruthTold, Boast
<1> QED  BY <1>3, <1>4, <1>5, InitType DEF Inv

LEMMA NextInv == Inv /\ [Next]_vars => Inv'
<1> SUFFICES ASSUME Inv, [Next]_vars PROVE Inv'
  OBVIOUS
<1>0. TypeOK'
  BY NextType DEF Inv
<1>1. CASE \E q \in Requests : Refuse(q) \/ Unknown(q) \/ Offline(q) \/ Relay(q)
  BY <1>0, <1>1, HubKeeps DEF Inv
<1>2. CASE \E p \in posts : HubStatus(p) \/ Lose(p) \/ GiveUp(p)
  BY <1>0, <1>2, PostKeeps DEF Inv
<1>3. CASE \E d \in Desktops, q \in Requests : Handler(d, q) \/ Approve(d, q) \/ Outcome(d, q)
  BY <1>0, <1>3, HandlerMoved, MovedKeeps DEF Inv
<1>4. CASE \E d \in Desktops : Connect(d) \/ Drop(d) \/ StopChannel(d) \/ Crash(d)
  BY <1>0, <1>4, DeskKeeps DEF Inv
<1>5. CASE \/ HubRestart
           \/ \E q \in Requests : Evict(q)
           \/ \E v \in Policies : SetPolicy(v)
           \/ \E d \in Desktops, q \in Requests : AgentEnds(d, q)
           \/ UNCHANGED vars
  BY <1>0, <1>5, RestKeeps DEF Inv
<1> QED  BY <1>1, <1>2, <1>3, <1>4, <1>5 DEF Next

LEMMA InvariantHolds == Spec => []Inv
  BY InitInv, NextInv, PTL DEF Spec

\* Every variable keeps its type, whatever the requests, desktops and bounds.
THEOREM TypeCorrect == Spec => []TypeOK
<1>1. Inv => TypeOK  BY DEF Inv
<1> QED  BY <1>1, InvariantHolds, PTL

\* Nothing reaches an agent on a desktop without the approval given there, or a
\* policy of `on` when the hub relayed it (agent-steer.js:168, agent-spawn.js:207).
THEOREM Consented == Spec => []OnlyConsented
<1>1. Inv => OnlyConsented  BY DEF Inv, ConsentHeld, Consent, OnlyConsented
<1> QED  BY <1>1, InvariantHolds, PTL

\* No success the hub tells of is untrue, whichever reports are lost, come late
\* or come from another of the person's desktops (hub/server.mjs:3060-3073).
THEOREM TruthOfSuccess == Spec => []SenderTold
<1>1. Inv => SenderTold
  <2> SUFFICES ASSUME Inv, NEW q \in Requests
      PROVE  /\ q \notin Spawns /\ status[q] = "accepted" => Reached(q)
             /\ status[q] \in {"started", "start-failed"} \/ q \in marked => Reached(q)
             /\ status[q] \in Unsent => ~Reached(q)
    BY DEF SenderTold, Reached, Unsent
  <2>1. status[q] \in Boast(q) \/ q \in marked => Reached(q)
    BY DEF Inv, TruthTold
  <2>2. q \notin Spawns => status[q] \notin {"started", "start-failed"}
    BY DEF Inv, TruthTold
  <2>3. status[q] \in Unsent => ~Reached(q)
    BY DEF Inv, Untouched, Reached
  <2> QED  BY <2>1, <2>2, <2>3 DEF Boast
<1> QED  BY <1>1, InvariantHolds, PTL

-----------------------------------------------------------------------------
(* How a handler and the record of its request keep step: what a handler  *)
(* last said is what the hub knows, or is on its way there and will be     *)
(* taken.                                                                  *)

Awaits == {"delivering", "accepting"} \cup Endings

\* The last thing a handler said, or the hub knew, once it is in a place.
Heard(place) ==
  CASE place = "sent"                                  -> "queued"
    [] place \in {"delivering", "asking", "injecting"} -> "delivered"
    [] place \in {"accepting", "naming"}               -> "accepted"
    [] OTHER                                           -> place

OneReport ==
  \A p, r \in posts : p.d = r.d /\ p.q = r.q /\ ~p.late /\ ~r.late => p = r

InFlight ==
  /\ \A q \in Requests : status[q] = "none" => aimed[q] = {}
  /\ \A d \in Desktops, q \in Requests : pc[d][q] # "none" => d \in aimed[q]
  /\ \A p \in posts :
        /\ p.d \in aimed[p.q]
        /\ p.late => p.q \in troubled
        /\ ~p.late => pc[p.d][p.q] \in Awaits /\ p.status = Heard(pc[p.d][p.q])

Fair(d, q) == aimed[q] = {d} /\ q \notin troubled /\ status[q] # "forgotten"

\* What a handler last said is known at the hub, or is on its way and will be taken.
Level(d, q) ==
  IF Awaiting(d, q) THEN status[q] \in Open(q, Heard(pc[d][q]))
                    ELSE status[q] = Heard(pc[d][q])

Followed ==
  \A d \in Desktops, q \in Requests :
    Fair(d, q) /\ pc[d][q] \notin {"none", "gone"} => Level(d, q)

Track == OneReport /\ InFlight /\ Followed

\* All that Track needs of a handler's step: it waits for no report, and goes on
\* in silence, or with one report that says what it now is.
Advances(d, q) ==
  /\ UNCHANGED <<status, aimed, troubled>>
  /\ pc[d][q] \notin {"none", "gone"} /\ ~Awaiting(d, q)
  /\ pc'[d][q] \notin {"none", "gone"}
  /\ \A e \in Desktops, r \in Requests : (e # d \/ r # q) => pc'[e][r] = pc[e][r]
  /\ \/ UNCHANGED posts /\ Heard(pc'[d][q]) = Heard(pc[d][q])
     \/ /\ pc'[d][q] \in Awaits
        /\ Heard(pc[d][q]) \in Open(q, Heard(pc'[d][q]))
        /\ \E new \in Post :
              /\ posts' = posts \cup {new}
              /\ new.d = d /\ new.q = q /\ ~new.late
              /\ new.status = Heard(pc'[d][q])

LEMMA AdvancesTracks ==
  ASSUME TypeOK, Track, NEW d \in Desktops, NEW q \in Requests, Advances(d, q)
  PROVE  Track'
<1>0. /\ UNCHANGED <<status, aimed, troubled>>
      /\ pc[d][q] \notin {"none", "gone"} /\ ~Awaiting(d, q)
      /\ pc'[d][q] \notin {"none", "gone"}
      /\ \A e \in Desktops, r \in Requests : (e # d \/ r # q) => pc'[e][r] = pc[e][r]
  BY DEF Advances
<1>n. \A p \in posts : p.d \in Desktops /\ p.q \in Requests /\ p.late \in BOOLEAN
  BY DEF TypeOK, Post
<1>l. \A p \in posts : p.d = d /\ p.q = q => p.late
  BY <1>0, <1>n DEF Awaiting
<1>1. CASE UNCHANGED posts /\ Heard(pc'[d][q]) = Heard(pc[d][q])
  <2>1. OneReport'
    BY <1>1 DEF Track, OneReport
  <2>2. InFlight'
    BY <1>0, <1>1, <1>n, <1>l DEF Track, InFlight
  <2>3. Followed'
    <3> SUFFICES ASSUME NEW e \in Desktops, NEW r \in Requests, Fair(e, r)',
                        pc'[e][r] \notin {"none", "gone"}
        PROVE  Level(e, r)'
      BY DEF Followed
    <3>1. Fair(e, r) /\ (Awaiting(e, r)' <=> Awaiting(e, r))
      BY <1>0, <1>1 DEF Fair, Awaiting
    <3>2. pc[e][r] \notin {"none", "gone"} /\ Heard(pc'[e][r]) = Heard(pc[e][r])
      BY <1>0, <1>1
    <3> QED  BY <1>0, <3>1, <3>2 DEF Track, Followed, Level, Open
  <2> QED  BY <2>1, <2>2, <2>3 DEF Track
<1>2. ASSUME pc'[d][q] \in Awaits, Heard(pc[d][q]) \in Open(q, Heard(pc'[d][q])),
             NEW new \in Post, posts' = posts \cup {new},
             new.d = d, new.q = q, ~new.late, new.status = Heard(pc'[d][q])
      PROVE  Track'
  <2>1. OneReport'
    BY <1>2, <1>l DEF Track, OneReport
  <2>2. InFlight'
    <3>1. d \in aimed[q]
      BY <1>0 DEF Track, InFlight
    <3>2. \A p \in posts' : /\ p.d \in aimed'[p.q]
                            /\ p.late => p.q \in troubled'
                            /\ ~p.late => pc'[p.d][p.q] \in Awaits /\ p.status = Heard(pc'[p.d][p.q])
      BY <1>0, <1>2, <1>n, <1>l, <3>1 DEF Track, InFlight
    <3> QED  BY <1>0, <3>2 DEF Track, InFlight
  <2>3. Followed'
    <3> SUFFICES ASSUME NEW e \in Desktops, NEW r \in Requests, Fair(e, r)',
                        pc'[e][r] \notin {"none", "gone"}
        PROVE  Level(e, r)'
      BY DEF Followed
    <3>1. Fair(e, r)
      BY <1>0 DEF Fair
    <3>2. CASE e = d /\ r = q
      <4>1. Awaiting(d, q)'
        BY <1>2 DEF Awaiting
      <4>2. status[q] = Heard(pc[d][q])
        BY <1>0, <3>1, <3>2 DEF Track, Followed, Level
      <4> QED  BY <1>0, <1>2, <3>2, <4>1, <4>2 DEF Level, Open
    <3>3. CASE e # d \/ r # q
      <4>1. Awaiting(e, r)' <=> Awaiting(e, r)
        BY <1>2, <3>3 DEF Awaiting
      <4>2. pc'[e][r] = pc[e][r]
        BY <1>0, <3>3
      <4> QED  BY <1>0, <3>1, <4>1, <4>2 DEF Track, Followed, Level, Open
    <3> QED  BY <3>2, <3>3
  <2> QED  BY <2>1, <2>2, <2>3 DEF Track
<1> QED  BY <1>1, <1>2 DEF Advances

LEMMA SilentAdvance ==
  ASSUME TypeOK, NEW d \in Desktops, NEW q \in Requests, NEW place,
         Goto(d, q, place), UNCHANGED <<status, aimed, troubled, posts>>,
         pc[d][q] \notin {"none", "gone"}, ~Awaiting(d, q), place \notin {"none", "gone"},
         Heard(place) = Heard(pc[d][q])
  PROVE  Advances(d, q)
  BY GotoFrame DEF Advances

LEMMA ReportAdvance ==
  ASSUME TypeOK, NEW d \in Desktops, NEW q \in Requests, NEW s \in Statuses,
         NEW named \in BOOLEAN, NEW place \in Awaits,
         Report(d, q, s, named, place), UNCHANGED <<status, aimed, troubled>>,
         pc[d][q] \notin {"none", "gone"}, ~Awaiting(d, q),
         Heard(place) = s, Heard(pc[d][q]) \in Open(q, s)
  PROVE  Advances(d, q)
<1>1. /\ pc'[d][q] = place
      /\ \A e \in Desktops, r \in Requests : (e # d \/ r # q) => pc'[e][r] = pc[e][r]
  BY ReportFrame
<1> DEFINE new == [d |-> d, q |-> q, status |-> s, named |-> named, late |-> FALSE]
<1>2. posts' = posts \cup {new}
  BY DEF Report
<1>3. /\ new \in Post /\ new.d = d /\ new.q = q /\ ~new.late
      /\ new.status = s
  BY DEF Post
<1>4. place \notin {"none", "gone"}
  BY DEF Awaits, Endings
<1> HIDE DEF new
<1> QED  BY <1>1, <1>2, <1>3, <1>4 DEF Advances

\* A request that is turned down, wherever its handler is until it has ended.
LEMMA DeclinedAdvance ==
  ASSUME TypeOK, NEW d \in Desktops, NEW q \in Requests,
         Declined(d, q), UNCHANGED <<status, aimed, troubled>>,
         pc[d][q] \in {"sent", "delivering", "asking", "injecting"}
           \/ (q \in Spawns /\ pc[d][q] = "accepting"),
         ~Awaiting(d, q)
  PROVE  Advances(d, q)
<1>1. /\ "declined" \in Awaits /\ "declined" \in Statuses
      /\ Heard("declined") = "declined"
  BY DEF Awaits, Endings, Statuses, Heard
<1>2. Heard(pc[d][q]) \in Open(q, "declined") /\ pc[d][q] \notin {"none", "gone"}
  BY DEF Heard, Open
<1>3. Report(d, q, "declined", FALSE, "declined")
  BY DEF Declined
<1> QED  BY <1>1, <1>2, <1>3, ReportAdvance

LEMMA GoAdvance ==
  ASSUME TypeOK, NEW d \in Desktops, NEW q \in Requests,
         Go(d, q), UNCHANGED <<status, aimed, troubled>>,
         pc[d][q] \in {"delivering", "asking"}, ~Awaiting(d, q)
  PROVE  Advances(d, q)
<1>1. CASE Goto(d, q, "injecting") /\ UNCHANGED posts
  <2>1. Heard("injecting") = Heard(pc[d][q]) /\ pc[d][q] \notin {"none", "gone"}
    BY DEF Heard
  <2> QED  BY <1>1, <2>1, SilentAdvance
<1>2. CASE Report(d, q, "accepted", FALSE, "accepting")
  <2>1. /\ Heard("accepting") = "accepted" /\ Heard(pc[d][q]) \in Open(q, "accepted")
        /\ pc[d][q] \notin {"none", "gone"}
        /\ "accepting" \in Awaits /\ "accepted" \in Statuses
    BY DEF Heard, Open, Awaits, Statuses
  <2> QED  BY <1>2, <2>1, ReportAdvance
<1>3. CASE Declined(d, q)
  BY <1>3, DeclinedAdvance
<1> QED  BY <1>1, <1>2, <1>3 DEF Go

\* A handler in a place where nothing is awaited has no report under way.
LEMMA NoneAwaited ==
  ASSUME TypeOK, Track, NEW d \in Desktops, NEW q \in Requests, pc[d][q] \notin Awaits
  PROVE  ~Awaiting(d, q)
  BY DEF Awaiting, Track, InFlight

LEMMA HandlerTracks ==
  ASSUME TypeOK, Track, NEW d \in Desktops, NEW q \in Requests,
         Handler(d, q) \/ Approve(d, q) \/ Outcome(d, q)
  PROVE  Track'
<1>w. {"sent", "asking", "injecting", "naming"} \cap Awaits = {}
  BY DEF Awaits, Endings
<1>1. CASE Take(d, q)
  <2>1. pc[d][q] = "sent" /\ ~Awaiting(d, q) /\ UNCHANGED <<status, aimed, troubled>>
    BY <1>1, <1>w, NoneAwaited DEF Take
  <2>2. CASE Report(d, q, "delivered", FALSE, "delivering")
    <3>1. /\ Heard("delivering") = "delivered" /\ Heard("sent") \in Open(q, "delivered")
          /\ "delivering" \in Awaits /\ "delivered" \in Statuses
      BY DEF Heard, Open, Awaits, Statuses
    <3> QED  BY <2>1, <2>2, <3>1, ReportAdvance, AdvancesTracks
  <2>3. CASE Declined(d, q)
    BY <2>1, <2>3, DeclinedAdvance, AdvancesTracks
  <2> QED  BY <1>1, <2>2, <2>3 DEF Take
<1>2. CASE Check(d, q)
  <2>1. pc[d][q] = "delivering" /\ ~Awaiting(d, q) /\ UNCHANGED <<status, aimed, troubled>>
    BY <1>2 DEF Check
  <2>2. CASE Declined(d, q)
    BY <2>1, <2>2, DeclinedAdvance, AdvancesTracks
  <2>3. CASE q \in Spawns /\ Report(d, q, "no-such-repo", FALSE, "no-such-repo")
    <3>1. /\ Heard("no-such-repo") = "no-such-repo"
          /\ Heard("delivering") \in Open(q, "no-such-repo")
          /\ "no-such-repo" \in Awaits /\ "no-such-repo" \in Statuses
      BY <2>3 DEF Heard, Open, Awaits, Endings, Statuses
    <3> QED  BY <2>1, <2>3, <3>1, ReportAdvance, AdvancesTracks
  <2>4. CASE Goto(d, q, "asking") /\ UNCHANGED posts
    <3>1. Heard("asking") = Heard("delivering")
      BY DEF Heard
    <3> QED  BY <2>1, <2>4, <3>1, SilentAdvance, AdvancesTracks
  <2>5. CASE Go(d, q)
    BY <2>1, <2>5, GoAdvance, AdvancesTracks
  <2> QED  BY <1>2, <2>2, <2>3, <2>4, <2>5 DEF Check
<1>3. CASE NotApproved(d, q)
  <2>1. pc[d][q] = "asking" /\ ~Awaiting(d, q) /\ UNCHANGED <<status, aimed, troubled>>
    BY <1>3, <1>w, NoneAwaited DEF NotApproved
  <2> QED  BY <1>3, <2>1, DeclinedAdvance, AdvancesTracks DEF NotApproved
<1>4. CASE Inject(d, q)
  <2>1. pc[d][q] = "injecting" /\ ~Awaiting(d, q) /\ UNCHANGED <<status, aimed, troubled>>
    BY <1>4, <1>w, NoneAwaited DEF Inject
  <2>2. CASE Report(d, q, "accepted", FALSE, "accepted")
    <3>1. /\ Heard("accepted") = "accepted" /\ Heard("injecting") \in Open(q, "accepted")
          /\ "accepted" \in Awaits /\ "accepted" \in Statuses
      BY DEF Heard, Open, Awaits, Endings, Statuses
    <3> QED  BY <2>1, <2>2, <3>1, ReportAdvance, AdvancesTracks
  <2>3. CASE Declined(d, q)
    BY <2>1, <2>3, DeclinedAdvance, AdvancesTracks
  <2> QED  BY <1>4, <2>2, <2>3 DEF Inject
<1>5. CASE Start(d, q)
  <2>1. /\ pc[d][q] = "accepting" /\ ~Awaiting(d, q) /\ UNCHANGED <<status, aimed, troubled>>
        /\ q \in Spawns
    BY <1>5 DEF Start, TypeOK, SpawnPlaces
  <2>2. CASE Goto(d, q, "naming") /\ UNCHANGED posts
    <3>1. Heard("naming") = Heard("accepting")
      BY DEF Heard
    <3> QED  BY <2>1, <2>2, <3>1, SilentAdvance, AdvancesTracks
  <2>3. CASE Declined(d, q)
    BY <2>1, <2>3, DeclinedAdvance, AdvancesTracks
  <2> QED  BY <1>5, <2>2, <2>3 DEF Start
<1>6. CASE Started(d, q)
  <2>1. pc[d][q] = "naming" /\ ~Awaiting(d, q) /\ UNCHANGED <<status, aimed, troubled>>
    BY <1>6, <1>w, NoneAwaited DEF Started
  <2>2. PICK named \in BOOLEAN : Report(d, q, "started", named, "started")
    BY <1>6 DEF Started
  <2>3. /\ Heard("started") = "started" /\ Heard("naming") \in Open(q, "started")
        /\ "started" \in Awaits /\ "started" \in Statuses
    BY DEF Heard, Open, Awaits, Endings, Statuses
  <2> QED  BY <2>1, <2>2, <2>3, ReportAdvance, AdvancesTracks
<1>7. CASE Approve(d, q)
  <2>1. pc[d][q] = "asking" /\ ~Awaiting(d, q) /\ UNCHANGED <<status, aimed, troubled>>
    BY <1>7, <1>w, NoneAwaited DEF Approve
  <2> QED  BY <1>7, <2>1, GoAdvance, AdvancesTracks DEF Approve
<1>8. CASE Outcome(d, q)
  <2>1. pc[d][q] = "started" /\ ~Awaiting(d, q) /\ UNCHANGED <<status, aimed, troubled>>
    BY <1>8 DEF Outcome
  <2>2. Report(d, q, "start-failed", FALSE, "start-failed")
    BY <1>8 DEF Outcome
  <2>3. Heard("start-failed") = "start-failed" /\ Heard("started") = "started"
    BY DEF Heard
  <2>4. Open(q, "start-failed") = {"started"}
    BY DEF Open
  <2>5. "start-failed" \in Awaits /\ "start-failed" \in Statuses
    BY DEF Awaits, Endings, Statuses
  <2> QED  BY <2>1, <2>2, <2>3, <2>4, <2>5, ReportAdvance, AdvancesTracks
<1> QED  BY <1>1, <1>2, <1>3, <1>4, <1>5, <1>6, <1>7, <1>8 DEF Handler

LEMMA HubTracks ==
  ASSUME Inv, Track, NEW q \in Requests, Refuse(q) \/ Unknown(q) \/ Offline(q) \/ Relay(q)
  PROVE  Track'
<1>t. TypeOK
  BY DEF Inv
<1>n. \A p \in posts : p.d \in Desktops /\ p.q \in Requests
  BY <1>t DEF TypeOK, Post
<1>0. status[q] = "none" /\ aimed[q] = {} /\ \A e \in Desktops : pc[e][q] = "none"
  BY DEF Refuse, Unknown, Offline, Relay, Track, InFlight
<1>1. \A p \in posts : p.q # q
  BY <1>0 DEF Track, InFlight
<1>2. OneReport'
  BY DEF Track, OneReport, Refuse, Unknown, Offline, Turned, Relay
<1>3. CASE Refuse(q) \/ Unknown(q) \/ Offline(q)
  <2>1. /\ UNCHANGED <<pc, posts, aimed, troubled>>
        /\ \A r \in Requests : r # q => status'[r] = status[r]
    BY <1>3, <1>t DEF Refuse, Unknown, Offline, Turned, TypeOK
  <2>2. InFlight'
    BY <1>0, <2>1 DEF Track, InFlight
  <2>3. \A e \in Desktops, r \in Requests : pc[e][r] # "none" => r # q
    BY <1>0
  <2>4. Followed'
    BY <1>0, <2>1, <2>3 DEF Track, Followed, Fair, Level, Awaiting, Open
  <2> QED  BY <1>2, <2>2, <2>4 DEF Track
<1>4. CASE Relay(q)
  <2>1. /\ UNCHANGED <<posts, troubled>>
        /\ \A r \in Requests : r # q => status'[r] = status[r] /\ aimed'[r] = aimed[r]
        /\ status'[q] = "queued" /\ aimed'[q] = up
    BY <1>4, <1>t DEF Relay, TypeOK
  <2>2. \A e \in Desktops, r \in Requests :
           pc'[e][r] = IF r = q /\ e \in up THEN "sent" ELSE pc[e][r]
    BY <1>4, <1>t DEF Relay, TypeOK
  <2>3. InFlight'
    <3>1. \A r \in Requests : status'[r] = "none" => aimed'[r] = {}
      BY <2>1 DEF Track, InFlight
    <3>2. \A e \in Desktops, r \in Requests : pc'[e][r] # "none" => e \in aimed'[r]
      BY <1>0, <2>1, <2>2 DEF Track, InFlight
    <3>3. \A p \in posts' : /\ p.d \in aimed'[p.q]
                            /\ p.late => p.q \in troubled'
                            /\ ~p.late => pc'[p.d][p.q] \in Awaits /\ p.status = Heard(pc'[p.d][p.q])
      BY <1>1, <1>n, <2>1, <2>2 DEF Track, InFlight
    <3> QED  BY <3>1, <3>2, <3>3 DEF InFlight
  <2>4. Followed'
    <3> SUFFICES ASSUME NEW e \in Desktops, NEW r \in Requests, Fair(e, r)',
                        pc'[e][r] \notin {"none", "gone"}
        PROVE  Level(e, r)'
      BY DEF Followed
    <3>1. Awaiting(e, r)' <=> Awaiting(e, r)
      BY <2>1 DEF Awaiting
    <3>2. CASE r = q
      <4>1. ~Awaiting(e, r) /\ pc'[e][r] = "sent"
        BY <1>0, <1>1, <2>2, <3>2 DEF Awaiting
      <4> QED  BY <2>1, <3>1, <3>2, <4>1 DEF Level, Heard
    <3>3. CASE r # q
      <4>1. Fair(e, r) /\ pc'[e][r] = pc[e][r] /\ status'[r] = status[r]
        BY <2>1, <2>2, <3>3 DEF Fair
      <4> QED  BY <3>1, <4>1 DEF Track, Followed, Level, Open
    <3> QED  BY <3>2, <3>3
  <2> QED  BY <1>2, <2>3, <2>4 DEF Track
<1> QED  BY <1>3, <1>4

LEMMA PostTracks ==
  ASSUME Inv, Track, NEW p \in posts, HubStatus(p) \/ Lose(p) \/ GiveUp(p)
  PROVE  Track'
<1>t. TypeOK
  BY DEF Inv
<1>0. /\ p \in Post /\ p.d \in Desktops /\ p.q \in Requests /\ p.late \in BOOLEAN
      /\ \A o \in posts : o \in Post /\ o.d \in Desktops /\ o.q \in Requests /\ o.late \in BOOLEAN
  BY <1>t DEF TypeOK, Post
<1>1. CASE HubStatus(p)
  <2>1. /\ UNCHANGED <<pc, aimed, troubled>> /\ posts' = posts \ {p}
        /\ IF Takes(p) THEN status' = [status EXCEPT ![p.q] = p.status] ELSE UNCHANGED status
    BY <1>1 DEF HubStatus
  <2>2. \A r \in Requests : r # p.q => status'[r] = status[r]
    BY <2>1, <1>t DEF TypeOK
  <2>3. status'[p.q] = IF Takes(p) THEN p.status ELSE status[p.q]
    BY <1>0, <2>1, <1>t DEF TypeOK
  <2>4. p.status \in OwnerStatuses(p.q)
    BY <1>t DEF TypeOK
  <2>5. p.status \notin {"none", "forgotten"}
    BY <2>4 DEF OwnerStatuses
  <2>6. OneReport'
    BY <2>1 DEF Track, OneReport
  <2>7. InFlight'
    <3>1. \A r \in Requests : status'[r] = "none" => aimed'[r] = {}
      BY <2>1, <2>2, <2>3, <2>5 DEF Track, InFlight
    <3> QED  BY <2>1, <3>1 DEF Track, InFlight
  <2>8. Followed'
    <3> SUFFICES ASSUME NEW e \in Desktops, NEW r \in Requests, Fair(e, r)',
                        pc'[e][r] \notin {"none", "gone"}
        PROVE  Level(e, r)'
      BY DEF Followed
    <3>1. CASE r # p.q
      <4>1. Awaiting(e, r)' <=> Awaiting(e, r)
        BY <2>1, <3>1 DEF Awaiting
      <4>2. Fair(e, r) /\ status'[r] = status[r] /\ pc'[e][r] = pc[e][r]
        BY <2>1, <2>2, <3>1 DEF Fair
      <4> QED  BY <4>1, <4>2, <2>1 DEF Track, Followed, Level, Open
    <3>2. CASE r = p.q
      <4>1. aimed[r] = {e} /\ r \notin troubled
        BY <2>1 DEF Fair
      <4>2. p.d = e /\ ~p.late /\ p.status = Heard(pc[e][r])
        BY <1>0, <3>2, <4>1 DEF Track, InFlight
      <4>3. status[r] # "forgotten"
        <5>1. CASE Takes(p)
          BY <3>2, <5>1 DEF Takes, Open
        <5>2. CASE ~Takes(p)
          BY <2>1, <5>2 DEF Fair
        <5> QED  BY <5>1, <5>2
      <4>4. Fair(e, r) /\ Awaiting(e, r) /\ pc[e][r] \notin {"none", "gone"}
        BY <2>1, <3>2, <4>1, <4>2, <4>3 DEF Fair, Awaiting
      <4>5. status[r] \in Open(r, Heard(pc[e][r]))
        BY <4>4 DEF Track, Followed, Level
      <4>6. status'[r] = Heard(pc[e][r])
        BY <2>3, <2>4, <3>2, <4>2, <4>5 DEF Takes
      <4>7. ~Awaiting(e, r)'
        BY <2>1, <3>2, <4>2 DEF Awaiting, Track, OneReport
      <4> QED  BY <2>1, <4>6, <4>7 DEF Level
    <3> QED  BY <3>1, <3>2
  <2> QED  BY <2>6, <2>7, <2>8 DEF Track
<1>2. CASE Lose(p) \/ GiveUp(p)
  <2>1. /\ UNCHANGED <<pc, aimed, status>> /\ troubled' = troubled \cup {p.q}
        /\ \A o \in posts' : o \in posts \/ (o.d = p.d /\ o.q = p.q /\ o.late)
    BY <1>0, <1>2 DEF Lose, GiveUp, Post
  <2>2. OneReport'
    BY <2>1 DEF Track, OneReport
  <2>3. InFlight'
    BY <1>0, <2>1 DEF Track, InFlight
  <2>4. \A o : o.q # p.q => (o \in posts' <=> o \in posts)
    BY <1>0, <1>2 DEF Lose, GiveUp, Post
  <2>5. Followed'
    <3> SUFFICES ASSUME NEW e \in Desktops, NEW r \in Requests, Fair(e, r)',
                        pc'[e][r] \notin {"none", "gone"}
        PROVE  Level(e, r)'
      BY DEF Followed
    <3>1. r # p.q /\ Fair(e, r)
      BY <2>1 DEF Fair
    <3>2. Awaiting(e, r)' <=> Awaiting(e, r)
      BY <2>4, <3>1 DEF Awaiting
    <3> QED  BY <2>1, <3>1, <3>2 DEF Track, Followed, Level, Open
  <2> QED  BY <2>2, <2>3, <2>5 DEF Track
<1> QED  BY <1>1, <1>2

\* Frames lost with a channel, and records forgotten, end what was followed.
LEMMA LossTracks ==
  ASSUME TypeOK, Track, UNCHANGED <<posts, aimed, troubled>>,
         \A e \in Desktops, r \in Requests :
            pc'[e][r] = pc[e][r] \/ (pc[e][r] = "sent" /\ pc'[e][r] = "gone"),
         \A r \in Requests : status'[r] = status[r] \/ (status[r] # "none" /\ status'[r] = "forgotten")
  PROVE  Track'
<1>n. \A p \in posts : p.d \in Desktops /\ p.q \in Requests
  BY DEF TypeOK, Post
<1>1. OneReport'
  BY DEF Track, OneReport
<1>2. InFlight'
  <2>1. "sent" \notin Awaits
    BY DEF Awaits, Endings
  <2>2. \A p \in posts : ~p.late => pc'[p.d][p.q] = pc[p.d][p.q]
    BY <1>n, <2>1 DEF Track, InFlight
  <2>3. \A p \in posts' : /\ p.d \in aimed'[p.q]
                          /\ p.late => p.q \in troubled'
                          /\ ~p.late => pc'[p.d][p.q] \in Awaits /\ p.status = Heard(pc'[p.d][p.q])
    BY <2>2 DEF Track, InFlight
  <2> QED  BY <2>3 DEF Track, InFlight
<1>3. Followed'
  <2> SUFFICES ASSUME NEW e \in Desktops, NEW r \in Requests, Fair(e, r)',
                      pc'[e][r] \notin {"none", "gone"}
      PROVE  Level(e, r)'
    BY DEF Followed
  <2>1. Fair(e, r) /\ status'[r] = status[r] /\ pc'[e][r] = pc[e][r]
    BY DEF Fair
  <2>2. Awaiting(e, r)' <=> Awaiting(e, r)
    BY DEF Awaiting
  <2> QED  BY <2>1, <2>2 DEF Track, Followed, Level, Open
<1> QED  BY <1>1, <1>2, <1>3 DEF Track

LEMMA DeskTracks ==
  ASSUME Inv, Track, NEW d \in Desktops, Connect(d) \/ Drop(d) \/ StopChannel(d) \/ Crash(d)
  PROVE  Track'
<1>t. TypeOK
  BY DEF Inv
<1>n. \A p \in posts : p \in Post /\ p.d \in Desktops /\ p.q \in Requests /\ p.late \in BOOLEAN
  BY <1>t DEF TypeOK, Post
<1>u. \A r \in Requests : Unread(d)[r] = IF pc[d][r] = "sent" THEN "gone" ELSE pc[d][r]
  BY DEF Unread
<1>1. CASE Connect(d)
  BY <1>1, <1>t, LossTracks DEF Connect
<1>2. CASE Drop(d)
  <2>1. \A e \in Desktops, r \in Requests :
           pc'[e][r] = pc[e][r] \/ (pc[e][r] = "sent" /\ pc'[e][r] = "gone")
    BY <1>2, <1>u, <1>t DEF Drop, TypeOK
  <2> QED  BY <1>2, <2>1, <1>t, LossTracks DEF Drop
<1>3. CASE StopChannel(d)
  <2> DEFINE asked == {q \in Requests : pc[d][q] = "asking"}
             new(q) == [d |-> d, q |-> q, status |-> "declined", named |-> FALSE, late |-> FALSE]
             row == [q \in Requests |-> IF q \in asked THEN "declined" ELSE Unread(d)[q]]
  <2>0. /\ pc' = [pc EXCEPT ![d] = row] /\ posts' = posts \cup {new(q) : q \in asked}
        /\ UNCHANGED <<status, aimed, troubled>>
    BY <1>3 DEF StopChannel
  <2>r. \A r \in Requests :
           row[r] = IF pc[d][r] = "asking" THEN "declined"
                    ELSE IF pc[d][r] = "sent" THEN "gone" ELSE pc[d][r]
    BY <1>u
  <2>a. \A r \in asked : r \in Requests /\ pc[d][r] = "asking"
    OBVIOUS
  <2>b. \A r \in Requests : pc[d][r] = "asking" => r \in asked
    OBVIOUS
  <2>n. \A q : /\ new(q).d = d /\ new(q).q = q /\ new(q).status = "declined" /\ ~new(q).late
    OBVIOUS
  <2> HIDE DEF asked, new, row
  <2>w. /\ "asking" \notin Awaits /\ "sent" \notin Awaits /\ "declined" \in Awaits
        /\ Heard("declined") = "declined"
        /\ Heard("asking") = "delivered"
        /\ \A r : "delivered" \in Open(r, "declined")
    BY DEF Awaits, Endings, Heard, Open
  <2>1. \A e \in Desktops, r \in Requests :
           pc'[e][r] = IF e = d /\ pc[d][r] = "asking" THEN "declined"
                       ELSE IF e = d /\ pc[d][r] = "sent" THEN "gone" ELSE pc[e][r]
    BY <2>0, <2>r, <1>t DEF TypeOK
  <2>2. \A p \in posts : ~p.late => pc[p.d][p.q] \in Awaits
    BY DEF Track, InFlight
  <2>3. \A p \in posts : ~p.late => pc'[p.d][p.q] = pc[p.d][p.q]
    BY <1>n, <2>1, <2>2, <2>w
  <2>4. OneReport'
    <3> SUFFICES ASSUME NEW p \in posts', NEW o \in posts', p.d = o.d, p.q = o.q, ~p.late, ~o.late
        PROVE  p = o
      BY DEF OneReport
    <3>1. CASE p \in posts /\ o \in posts
      BY <3>1 DEF Track, OneReport
    <3>2. CASE \E q \in asked : p = new(q)
      <4>1. p.d = d /\ p.q \in asked /\ p = new(p.q)
        BY <2>n, <3>2
      <4>2. o \notin posts
        BY <4>1, <2>2, <2>w, <2>a
      <4>3. o = new(o.q)
        BY <4>2, <2>0, <2>n
      <4> QED  BY <4>1, <4>3
    <3>3. CASE \E q \in asked : o = new(q)
      <4>1. o.d = d /\ o.q \in asked /\ o = new(o.q)
        BY <2>n, <3>3
      <4>2. p \notin posts
        BY <4>1, <2>2, <2>w, <2>a
      <4>3. p = new(p.q)
        BY <4>2, <2>0, <2>n
      <4> QED  BY <4>1, <4>3
    <3> QED  BY <2>0, <3>1, <3>2, <3>3
  <2>5. InFlight'
    <3>1. \A e \in Desktops, r \in Requests : pc'[e][r] # "none" => e \in aimed'[r]
      BY <2>0, <2>1 DEF Track, InFlight
    <3>2. ASSUME NEW p \in posts'
          PROVE  /\ p.d \in aimed'[p.q]
                 /\ p.late => p.q \in troubled'
                 /\ ~p.late => pc'[p.d][p.q] \in Awaits /\ p.status = Heard(pc'[p.d][p.q])
      <4>1. CASE p \in posts
        BY <2>0, <2>3, <4>1 DEF Track, InFlight
      <4>2. CASE \E q \in asked : p = new(q)
        <5>1. p.d = d /\ p.q \in asked /\ p.status = "declined" /\ ~p.late
          BY <2>n, <4>2
        <5>2. pc'[d][p.q] = "declined" /\ d \in aimed[p.q]
          BY <5>1, <2>a, <2>1 DEF Track, InFlight
        <5> QED  BY <2>0, <2>w, <5>1, <5>2
      <4> QED  BY <2>0, <4>1, <4>2
    <3> QED  BY <2>0, <3>1, <3>2 DEF Track, InFlight
  <2>6. Followed'
    <3> SUFFICES ASSUME NEW e \in Desktops, NEW r \in Requests, Fair(e, r)',
                        pc'[e][r] \notin {"none", "gone"}
        PROVE  Level(e, r)'
      BY DEF Followed
    <3>0. Fair(e, r) /\ status'[r] = status[r]
      BY <2>0 DEF Fair
    <3>1. CASE e = d /\ pc[d][r] = "asking"
      <4>1. pc'[e][r] = "declined"
        BY <2>1, <3>1
      <4>2. ~Awaiting(d, r)
        BY <1>t, <2>w, <3>1, NoneAwaited
      <4>3. status[r] = "delivered"
        BY <2>w, <3>0, <3>1, <4>2 DEF Track, Followed, Level
      <4>4. new(r) \in posts'
        BY <2>0, <2>b, <3>1
      <4>5. Awaiting(d, r)'
        BY <2>n, <4>4 DEF Awaiting
      <4> QED  BY <2>w, <3>0, <3>1, <4>1, <4>3, <4>5 DEF Level, Open
    <3>2. CASE ~(e = d /\ pc[d][r] = "asking")
      <4>1. pc'[e][r] = pc[e][r]
        BY <2>1, <3>2
      <4>2. Awaiting(e, r)' <=> Awaiting(e, r)
        <5>1. \A q \in asked : ~(new(q).d = e /\ new(q).q = r)
          BY <2>n, <2>a, <3>2
        <5> QED  BY <2>0, <5>1 DEF Awaiting
      <4> QED  BY <3>0, <4>1, <4>2 DEF Track, Followed, Level, Open
    <3> QED  BY <3>1, <3>2
  <2> QED  BY <2>4, <2>5, <2>6 DEF Track
<1>4. CASE Crash(d)
  <2> DEFINE mine == {p \in posts : p.d = d}
             slow(p) == [p EXCEPT !.late = TRUE]
             row == [q \in Requests |-> IF pc[d][q] = "none" THEN "none" ELSE "gone"]
  <2>0. /\ pc' = [pc EXCEPT ![d] = row] /\ posts' = (posts \ mine) \cup {slow(p) : p \in mine}
        /\ UNCHANGED <<status, aimed>> /\ troubled' = troubled \cup {p.q : p \in mine}
    BY <1>4 DEF Crash
  <2>r. \A r \in Requests : row[r] = IF pc[d][r] = "none" THEN "none" ELSE "gone"
    OBVIOUS
  <2>n. \A p \in posts : slow(p).d = p.d /\ slow(p).q = p.q /\ slow(p).late
    BY <1>n DEF Post
  <2>m. \A p \in posts : p \in mine <=> p.d = d
    OBVIOUS
  <2>s. mine \subseteq posts
    OBVIOUS
  <2> HIDE DEF mine, slow, row
  <2>1. \A e \in Desktops, r \in Requests :
           pc'[e][r] = IF e # d THEN pc[e][r] ELSE IF pc[d][r] = "none" THEN "none" ELSE "gone"
    BY <2>0, <2>r, <1>t DEF TypeOK
  <2>2. \A o \in posts' : \/ o \in posts /\ o.d # d
                          \/ o.late /\ o.d = d /\ o.q \in troubled' /\ d \in aimed[o.q]
    <3> SUFFICES ASSUME NEW o \in posts', ~(o \in posts /\ o.d # d)
        PROVE  o.late /\ o.d = d /\ o.q \in troubled' /\ d \in aimed[o.q]
      OBVIOUS
    <3>1. PICK p \in mine : o = slow(p)
      BY <2>0, <2>m
    <3>2. p \in posts /\ p.d = d
      BY <2>m, <2>s
    <3>3. p.d \in aimed[p.q]
      BY <3>2 DEF Track, InFlight
    <3> QED  BY <2>0, <2>n, <3>1, <3>2, <3>3
  <2>3. OneReport'
    BY <2>2 DEF Track, OneReport
  <2>4. InFlight'
    <3>1. \A e \in Desktops, r \in Requests : pc'[e][r] # "none" => e \in aimed'[r]
      BY <2>0, <2>1 DEF Track, InFlight
    <3>2. ASSUME NEW o \in posts'
          PROVE  /\ o.d \in aimed'[o.q]
                 /\ o.late => o.q \in troubled'
                 /\ ~o.late => pc'[o.d][o.q] \in Awaits /\ o.status = Heard(pc'[o.d][o.q])
      <4>1. CASE o \in posts /\ o.d # d
        <5>1. pc'[o.d][o.q] = pc[o.d][o.q]
          BY <1>n, <2>1, <4>1
        <5> QED  BY <2>0, <4>1, <5>1 DEF Track, InFlight
      <4>2. CASE ~(o \in posts /\ o.d # d)
        BY <2>0, <2>2, <4>2
      <4> QED  BY <4>1, <4>2
    <3> QED  BY <2>0, <3>1, <3>2 DEF Track, InFlight
  <2>5. Followed'
    <3> SUFFICES ASSUME NEW e \in Desktops, NEW r \in Requests, Fair(e, r)',
                        pc'[e][r] \notin {"none", "gone"}
        PROVE  Level(e, r)'
      BY DEF Followed
    <3>1. e # d /\ pc'[e][r] = pc[e][r]
      BY <2>1
    <3>2. Fair(e, r)
      BY <2>0 DEF Fair
    <3>3. \A o : o.d = e => (o \in posts' <=> o \in posts)
      BY <2>0, <2>2, <2>m, <2>s, <3>1
    <3>4. Awaiting(e, r)' <=> Awaiting(e, r)
      BY <3>3 DEF Awaiting
    <3> QED  BY <2>0, <3>1, <3>2, <3>4 DEF Track, Followed, Level, Open
  <2> QED  BY <2>3, <2>4, <2>5 DEF Track
<1> QED  BY <1>1, <1>2, <1>3, <1>4

LEMMA RestTracks ==
  ASSUME Inv, Track,
         \/ HubRestart
         \/ \E q \in Requests : Evict(q)
         \/ \E v \in Policies : SetPolicy(v)
         \/ \E d \in Desktops, q \in Requests : AgentEnds(d, q)
         \/ UNCHANGED vars
  PROVE  Track'
<1>t. TypeOK
  BY DEF Inv
<1>1. CASE HubRestart
  <2>1. pc' = [d \in Desktops |-> [q \in Requests |-> IF pc[d][q] = "sent" THEN "gone" ELSE pc[d][q]]]
    BY <1>1 DEF HubRestart, Unread
  <2>2. \A e \in Desktops, r \in Requests :
           pc'[e][r] = pc[e][r] \/ (pc[e][r] = "sent" /\ pc'[e][r] = "gone")
    BY <2>1
  <2>3. \A r \in Requests : status'[r] = status[r] \/ (status[r] # "none" /\ status'[r] = "forgotten")
    BY <1>1 DEF HubRestart
  <2> QED  BY <1>1, <1>t, <2>2, <2>3, LossTracks DEF HubRestart
<1>2. CASE \E q \in Requests : Evict(q)
  <2>1. \A r \in Requests : status'[r] = status[r] \/ (status[r] # "none" /\ status'[r] = "forgotten")
    BY <1>2, <1>t DEF Evict, TypeOK
  <2> QED  BY <1>2, <1>t, <2>1, LossTracks DEF Evict
<1>3. CASE \E v \in Policies : SetPolicy(v)
  BY <1>3, <1>t, LossTracks DEF SetPolicy
<1>4. CASE \E d \in Desktops, q \in Requests : AgentEnds(d, q)
  BY <1>4, <1>t, LossTracks DEF AgentEnds
<1>5. CASE UNCHANGED vars
  BY <1>5, <1>t, LossTracks DEF vars
<1> QED  BY <1>1, <1>2, <1>3, <1>4, <1>5

LEMMA InitTrack == Init => Track
<1> SUFFICES ASSUME Init PROVE Track
  OBVIOUS
<1>1. posts = {} /\ \A d \in Desktops, q \in Requests : pc[d][q] = "none" /\ aimed[q] = {}
  BY DEF Init
<1>2. \A q \in Requests : aimed[q] = {}
  BY DEF Init
<1> QED  BY <1>1, <1>2 DEF Track, OneReport, InFlight, Followed

LEMMA NextTrack == Inv /\ Track /\ [Next]_vars => Track'
<1> SUFFICES ASSUME Inv, Track, [Next]_vars PROVE Track'
  OBVIOUS
<1>1. CASE \E q \in Requests : Refuse(q) \/ Unknown(q) \/ Offline(q) \/ Relay(q)
  BY <1>1, HubTracks
<1>2. CASE \E p \in posts : HubStatus(p) \/ Lose(p) \/ GiveUp(p)
  BY <1>2, PostTracks
<1>3. CASE \E d \in Desktops, q \in Requests : Handler(d, q) \/ Approve(d, q) \/ Outcome(d, q)
  BY <1>3, HandlerTracks DEF Inv
<1>4. CASE \E d \in Desktops : Connect(d) \/ Drop(d) \/ StopChannel(d) \/ Crash(d)
  BY <1>4, DeskTracks
<1>5. CASE \/ HubRestart
           \/ \E q \in Requests : Evict(q)
           \/ \E v \in Policies : SetPolicy(v)
           \/ \E d \in Desktops, q \in Requests : AgentEnds(d, q)
           \/ UNCHANGED vars
  BY <1>5, RestTracks
<1> QED  BY <1>1, <1>2, <1>3, <1>4, <1>5 DEF Next

\* A request one desktop got, none of whose reports failed, ends at the hub as
\* that desktop last said: the hub refuses no report of the protocol, however
\* the handlers, the answers and the reports of other requests interleave
\* (agent-steer.js:12-13, hub/server.mjs:3059-3062).
THEOREM EveryEndingReported == Spec => []EndingReported
<1>1. Track => EndingReported
  <2> SUFFICES ASSUME Track, NEW d \in Desktops, NEW q \in Requests,
                      pc[d][q] \in Endings, ~Awaiting(d, q), Fair(d, q)
      PROVE  status[q] = pc[d][q]
    BY DEF EndingReported, Fair
  <2>1. pc[d][q] \notin {"none", "gone"} /\ Heard(pc[d][q]) = pc[d][q]
    BY DEF Endings, Heard
  <2> QED  BY <2>1 DEF Track, Followed, Level
<1> QED  BY <1>1, InitTrack, NextTrack, InvariantHolds, PTL DEF Spec
=============================================================================
