--------------------------- MODULE ApprovalProofs ---------------------------
(***************************************************************************)
(* Proofs about Approval for every set of cards, calls, Editors and        *)
(* desktops, any limits, and any loss, reordering, crash and restart; and  *)
(* that Approval implements Permit.                                        *)
(***************************************************************************)
EXTENDS Approval, SequenceTheorems, TLAPS

\* The record of a card that is new, open or forgotten.
LEMMA NewCardType ==
  /\ NewCard \in Records
  /\ \A s \in Statuses : [NewCard EXCEPT !.status = s] \in Records
  /\ NewCard.status = "none" /\ NewCard.by = Nobody
  /\ \A s \in Statuses : [NewCard EXCEPT !.status = s].status = s
<1>1. 0 \in 0..ReopenMax
  BY ApprovalAssumption DEF ApprovalAssumption
<1>2. "none" \in Statuses
  BY DEF Statuses
<1>. QED BY <1>1, <1>2 DEF NewCard, Records

\* Before anything is asked all variables have their types.
LEMMA TypeInit == Init => TypeOK
<1> SUFFICES ASSUME Init PROVE TypeOK
  OBVIOUS
<1>1. rec \in [Cards -> Records]
  BY NewCardType DEF Init
<1>2. hold \in [Cards -> Answers \cup {NoAnswer}]
  BY DEF Init
<1>. QED BY <1>1, <1>2 DEF Init, TypeOK

\* The sweep keeps a record a record, and what it may do to one.
LEMMA SweepType ==
  ASSUME TypeOK
  PROVE  /\ AfterSweep \in [Cards -> Records]
         /\ \A c \in Cards :
              /\ AfterSweep[c] = Swept(c)
              /\ \/ Swept(c) = rec[c]
                 \/ Status(c) = "answered" /\ Swept(c) = [rec[c] EXCEPT !.status = "unknown"]
                 \/ Status(c) \in {"open", "held"} /\ Swept(c) = [rec[c] EXCEPT !.status = "expired"]
<1>1. ASSUME NEW c \in Cards
      PROVE  /\ \/ Swept(c) = rec[c]
                \/ Status(c) = "answered" /\ Swept(c) = [rec[c] EXCEPT !.status = "unknown"]
                \/ Status(c) \in {"open", "held"} /\ Swept(c) = [rec[c] EXCEPT !.status = "expired"]
             /\ Swept(c) \in Records
  <2>1. rec[c] \in Records
    BY DEF TypeOK
  <2>2. "unknown" \in Statuses /\ "expired" \in Statuses
    BY DEF Statuses, Settled
  <2>3. [rec[c] EXCEPT !.status = "unknown"] \in Records /\ [rec[c] EXCEPT !.status = "expired"] \in Records
    BY <2>1, <2>2 DEF Records
  <2>4. \/ Swept(c) = rec[c]
        \/ Status(c) = "answered" /\ Swept(c) = [rec[c] EXCEPT !.status = "unknown"]
        \/ Status(c) \in {"open", "held"} /\ Swept(c) = [rec[c] EXCEPT !.status = "expired"]
    BY <2>1 DEF Swept, Status, Live, Records
  <2>. QED BY <2>1, <2>3, <2>4
<1>. QED BY <1>1 DEF AfterSweep

\* What a report of status s (via) may turn the record r into.
ReportMove(r, s, via, q) ==
  \/ q = r
  \/ s = "unknown" /\ r.status \in Live \cup {"approved"} /\ q = [r EXCEPT !.status = "unknown"]
  \/ s = "expired" /\ r.status \in Live /\ q = [r EXCEPT !.status = "expired"]
  \/ /\ s = "invalid" /\ r.status = "answered"
     /\ \/ q = [r EXCEPT !.status = "expired", !.attempts = r.attempts + 1]
        \/ /\ r.attempts + 1 < ReopenMax
           /\ q = [status |-> "open", decision |-> "", by |-> Nobody, attempts |-> r.attempts + 1]
  \/ s = "held" /\ r.status = "answered" /\ q = [r EXCEPT !.status = "held"]
  \/ /\ s \in {"approved", "denied"} /\ via = "local" /\ r.status \in Live
     /\ \E d \in Decisions : q = [r EXCEPT !.status = s, !.decision = d, !.by = Owner]
  \/ /\ s \in {"approved", "denied"} /\ via = "remote" /\ r.status = "answered"
     /\ q = [r EXCEPT !.status = s]

\* The report handler does one of these.
LEMMA ReportedCases ==
  ASSUME NEW r \in Records, NEW s \in Settled \cup {"held", "invalid"}, NEW via \in {"local", "remote"}
  PROVE  ReportMove(r, s, via, Reported(r, s, via))
<1>1. CASE s = "unknown"
  BY <1>1 DEF ReportMove, Reported, Live
<1>2. CASE s = "expired"
  BY <1>2 DEF ReportMove, Reported, Live
<1>3. CASE s = "invalid"
  <2>1. ReopenMax \in Nat /\ r.attempts \in 0..ReopenMax
    <3>1. ReopenMax \in Nat
      BY ApprovalAssumption DEF ApprovalAssumption
    <3>2. r.attempts \in 0..ReopenMax
      BY DEF Records
    <3>. QED BY <3>1, <3>2
  <2>2. CASE r.status # "answered"
    BY <1>3, <2>2 DEF ReportMove, Reported
  <2>3. CASE r.status = "answered" /\ r.attempts + 1 >= ReopenMax
    BY <1>3, <2>3 DEF ReportMove, Reported
  <2>4. CASE r.status = "answered" /\ ~(r.attempts + 1 >= ReopenMax)
    <3>1. r.attempts + 1 < ReopenMax
      BY <2>1, <2>4
    <3>2. Reported(r, s, via) = [status |-> "open", decision |-> "", by |-> Nobody,
                                 attempts |-> r.attempts + 1]
      BY <1>3, <2>4 DEF ReportMove, Reported
    <3>. QED BY <1>3, <2>4, <3>1, <3>2 DEF ReportMove
  <2>. QED BY <2>2, <2>3, <2>4
<1>4. CASE s = "held"
  BY <1>4 DEF ReportMove, Reported, Live
<1>5. CASE s \in {"approved", "denied"}
  BY <1>5 DEF ReportMove, Reported, Live, Decisions
<1>. QED BY <1>1, <1>2, <1>3, <1>4, <1>5 DEF Settled

-----------------------------------------------------------------------------
(* Types. *)

\* Records stay records, and a card that can be answered has attempts left.
LEMMA RecordStep ==
  ASSUME TypeOK, AttemptsLeft, [Next]_vars
  PROVE  rec' \in [Cards -> Records] /\ AttemptsLeft'
<1>t. rec \in [Cards -> Records] /\ ReopenMax \in Nat \ {0}
  BY ApprovalAssumption DEF TypeOK, ApprovalAssumption
<1>s. \A s \in {"forgotten", "open", "answered", "unknown", "expired", "held", "approved", "denied"} :
        s \in Statuses
  BY DEF Statuses, Live, Settled
<1>1. AfterSweep \in [Cards -> Records]
      /\ \A c \in Cards : AfterSweep[c].status \in {"none", "open", "answered"} =>
                            AfterSweep[c].attempts < ReopenMax
  <2>1. \A c \in Cards : rec[c] \in Records
    BY <1>t
  <2>. QED BY <2>1, SweepType DEF AttemptsLeft, Status, Records
<1>2. CASE rec' = AfterSweep
  BY <1>1, <1>2 DEF AttemptsLeft, Status
<1>3. CASE UNCHANGED rec
  BY <1>t, <1>3 DEF AttemptsLeft, Status
<1>4. ASSUME NEW c \in Cards, Open(c) PROVE rec' \in [Cards -> Records] /\ AttemptsLeft'
  <2>1. CASE UNCHANGED rec \/ rec' = AfterSweep
    BY <1>2, <1>3, <2>1
  <2>2. CASE ~(UNCHANGED rec \/ rec' = AfterSweep)
    <3> DEFINE all == Append(ids, c)
               gone == Len(all) > Keep
    <3>2. rec' = [d \in Cards |->
            IF gone /\ d = Head(all) THEN [NewCard EXCEPT !.status = "forgotten"]
            ELSE IF d = c THEN [NewCard EXCEPT !.status = "open"] ELSE Swept(d)]
      BY <1>4, <2>2 DEF Open
    <3>. HIDE DEF all, gone
    <3>3. \A s \in {"forgotten", "open"} : /\ [NewCard EXCEPT !.status = s] \in Records
                                           /\ [NewCard EXCEPT !.status = s].attempts = 0
      BY <1>s, NewCardType DEF NewCard
    <3>4. \A d \in Cards : Swept(d) = AfterSweep[d]
      BY DEF AfterSweep
    <3>5. \A d \in Cards :
            /\ rec'[d] \in Records
            /\ rec'[d] = AfterSweep[d] \/ rec'[d].attempts = 0
      BY <1>1, <3>2, <3>3, <3>4
    <3>6. rec' \in [Cards -> Records]
      BY <3>2, <3>5
    <3>. QED BY <1>1, <1>t, <3>5, <3>6 DEF AttemptsLeft, Status
  <2>. QED BY <2>1, <2>2
<1>5. ASSUME NEW c \in Cards, NEW e \in Editors, NEW d \in Decisions, NEW good \in BOOLEAN,
             Answer(c, e, d, good)
      PROVE  rec' \in [Cards -> Records] /\ AttemptsLeft'
  <2>1. /\ AfterSweep[c].status = "open"
        /\ rec' = [AfterSweep EXCEPT ![c].status = "answered", ![c].decision = d, ![c].by = e]
    BY <1>5 DEF Answer, AfterSweep
  <2>2. AfterSweep[c] \in Records /\ AfterSweep[c].attempts < ReopenMax
    BY <1>1, <2>1
  <2>3. /\ rec' = [AfterSweep EXCEPT ![c] = rec'[c]]
        /\ rec'[c] = [AfterSweep[c] EXCEPT !.status = "answered", !.decision = d, !.by = e]
    BY <1>1, <2>1
  <2>4. rec'[c] \in Records /\ rec'[c].attempts = AfterSweep[c].attempts
    BY <1>s, <2>2, <2>3 DEF Records
  <2>. QED BY <1>1, <2>2, <2>3, <2>4 DEF AttemptsLeft, Status
<1>6. ASSUME NEW m \in reports, ReportArrives(m) PROVE rec' \in [Cards -> Records] /\ AttemptsLeft'
  <2>1. /\ m.card \in Cards /\ m.status \in Settled \cup {"held", "invalid"}
        /\ m.via \in {"local", "remote"}
    BY DEF TypeOK, Reports
  <2>2. rec' = [rec EXCEPT ![m.card] = Reported(rec[m.card], m.status, m.via)]
    BY <1>6 DEF ReportArrives
  <2> DEFINE r == rec[m.card]
             q == Reported(r, m.status, m.via)
  <2>3. r \in Records /\ r.attempts \in 0..ReopenMax
    BY <1>t, <2>1 DEF Records
  <2>4. r.status \in {"none", "open", "answered"} => r.attempts < ReopenMax
    BY <2>1 DEF AttemptsLeft, Status
  <2>5. \/ q = r
        \/ \E s \in {"unknown", "expired", "held", "approved", "denied"} : q = [r EXCEPT !.status = s]
        \/ /\ r.status = "answered"
           /\ q = [r EXCEPT !.status = "expired", !.attempts = r.attempts + 1]
        \/ /\ r.attempts + 1 < ReopenMax
           /\ q = [status |-> "open", decision |-> "", by |-> Nobody, attempts |-> r.attempts + 1]
        \/ \E s \in {"approved", "denied"}, d \in Decisions :
             q = [r EXCEPT !.status = s, !.decision = d, !.by = Owner]
    <3>1. ReportMove(r, m.status, m.via, q)
      BY <2>1, <2>3, ReportedCases
    <3>. HIDE DEF r, q
    <3>. QED BY <3>1 DEF ReportMove
  <2>6. rec' = [rec EXCEPT ![m.card] = q]
    BY <2>2
  <2>. HIDE DEF r, q
  <2>7. q \in Records /\ (q.status \in {"none", "open", "answered"} => q.attempts < ReopenMax)
    <3>1. CASE q = r
      BY <2>3, <2>4, <3>1
    <3>2. ASSUME NEW s \in {"unknown", "expired", "held", "approved", "denied"},
                 q = [r EXCEPT !.status = s]
          PROVE  q \in Records /\ q.status = s
      BY <1>s, <2>3, <3>2 DEF Records
    <3>3. CASE /\ r.status = "answered"
               /\ q = [r EXCEPT !.status = "expired", !.attempts = r.attempts + 1]
      <4>1. r.attempts + 1 \in 0..ReopenMax
        BY <1>t, <2>3, <2>4, <3>3
      <4>. QED BY <1>s, <2>3, <3>3, <4>1 DEF Records
    <3>4. CASE /\ r.attempts + 1 < ReopenMax
               /\ q = [status |-> "open", decision |-> "", by |-> Nobody, attempts |-> r.attempts + 1]
      <4>0. r.attempts + 1 < ReopenMax
        BY <3>4
      <4>1. r.attempts + 1 \in 0..ReopenMax
        BY <1>t, <2>3, <4>0
      <4>2. q.status = "open" /\ q.attempts = r.attempts + 1
        BY <3>4
      <4>. QED BY <1>s, <3>4, <4>1, <4>2 DEF Records
    <3>5. ASSUME NEW s \in {"approved", "denied"}, NEW d \in Decisions,
                 q = [r EXCEPT !.status = s, !.decision = d, !.by = Owner]
          PROVE  q \in Records /\ q.status = s
      BY <1>s, <2>3, <3>5 DEF Records
    <3>. QED BY <2>5, <3>1, <3>2, <3>3, <3>4, <3>5
  <2>. QED BY <1>t, <2>1, <2>6, <2>7 DEF AttemptsLeft, Status
<1>7. ASSUME NEW settled, rec' = OwnerGone(settled) PROVE rec' \in [Cards -> Records] /\ AttemptsLeft'
  <2>1. \A c \in Cards : [rec[c] EXCEPT !.status = "unknown"] \in Records
    BY <1>s, <1>t DEF Records
  <2>2. rec' \in [Cards -> Records]
    BY <1>t, <1>7, <2>1 DEF OwnerGone
  <2>3. \A c \in Cards : rec'[c] = rec[c] \/ rec'[c] = [rec[c] EXCEPT !.status = "unknown"]
    BY <1>7 DEF OwnerGone
  <2>4. \A c \in Cards : rec'[c] = rec[c] \/ rec'[c].status = "unknown"
    BY <1>t, <2>3 DEF Records
  <2>. QED BY <2>2, <2>4 DEF AttemptsLeft, Status
<1>8. ASSUME NEW d, ChannelCloses(d) PROVE rec' \in [Cards -> Records] /\ AttemptsLeft'
  BY <1>3, <1>7, <1>8 DEF ChannelCloses
<1>9. CASE HubStep
  <2>1. CASE Sweep \/ \E d \in Desktops : Connect(d)
    BY <1>2, <2>1 DEF Sweep, Connect
  <2>2. CASE \E d \in Desktops : Disconnect(d)
    BY <1>8, <2>2 DEF Disconnect
  <2>3. CASE \/ Lose \/ \E c \in Cards : PassesExpiry(c)
             \/ \E p \in {"off", "ask", "on"} : SetPolicy(p)
    BY <1>3, <2>3 DEF Lose, PassesExpiry, SetPolicy, hubVars
  <2>. QED BY <1>9, <1>4, <1>5, <1>6, <2>1, <2>2, <2>3 DEF HubStep
<1>10. CASE AppStep
  <2>1. CASE Crash
    BY <1>3, <1>8, <2>1 DEF Crash, AppGone
  <2>2. CASE Interrupt
    BY <1>3, <2>2 DEF Interrupt, hubVars
  <2>3. ASSUME NEW c \in Cards, (\E k \in Calls : Ask(c, k)) \/ Release(c) \/ TimesOut(c)
                                \/ \E allow \in BOOLEAN : ClickHere(c, allow)
        PROVE  UNCHANGED rec
    BY <2>3 DEF Ask, Release, TimesOut, ClickHere, hubVars
  <2>4. ASSUME NEW f \in frames, Remote(f) PROVE UNCHANGED rec
    BY <2>4 DEF Remote, hubVars
  <2>. QED BY <1>3, <1>10, <2>1, <2>2, <2>3, <2>4 DEF AppStep
<1>. QED BY <1>3, <1>9, <1>10 DEF Next, vars, hubVars

\* Every step keeps the types.
LEMMA TypeStep == TypeOK /\ AttemptsLeft /\ [Next]_vars => TypeOK'
<1> SUFFICES ASSUME TypeOK, AttemptsLeft, [Next]_vars PROVE TypeOK'
  OBVIOUS
<1>r. rec' \in [Cards -> Records]
  BY RecordStep
<1>h. \A C : Forget(C) => pending' \subseteq Cards /\ hold' \in [Cards -> Answers \cup {NoAnswer}]
  BY DEF Forget, TypeOK
<1>p. \A C \in SUBSET Cards, s \in Settled \cup {"held", "invalid"}, via \in {"local", "remote"} :
        Report(C, s, via) \subseteq Reports
  BY DEF Report, Reports
<1>w. ASSUME NEW c \in Cards, NEW allow, NEW who \in Editors \cup {Owner}, Tell(c, allow, who)
      PROVE  /\ prompt' \in [Cards -> {"none", "asking", "allowed", "denied"}]
             /\ decider' \in [Cards -> Editors \cup {Owner, Nobody}]
  BY <1>w DEF Tell, TypeOK
<1>1. ASSUME NEW c \in Cards, Open(c) PROVE TypeOK'
  <2>1. ids' \in Seq(Cards)
    <3>1. Append(ids, c) \in Seq(Cards) /\ Append(ids, c) # <<>>
      BY AppendProperties DEF TypeOK
    <3>2. Tail(Append(ids, c)) \in Seq(Cards)
      BY <3>1, HeadTailProperties, Zenon
    <3>3. ids' \in {ids, Append(ids, c), Tail(Append(ids, c))}
      BY <1>1 DEF Open
    <3>. QED BY <3>1, <3>2, <3>3 DEF TypeOK
  <2>. QED BY <1>1, <1>r, <2>1 DEF Open, TypeOK, appVars
<1>2. ASSUME NEW c \in Cards, NEW e \in Editors, NEW d \in Decisions, NEW good \in BOOLEAN,
             Answer(c, e, d, good)
      PROVE  TypeOK'
  <2>1. frames' \subseteq Frames
    <3>1. [card |-> c, answer |-> [by |-> e, decision |-> d, good |-> good,
                                   confirm |-> policy # "on"]] \in Frames
      BY DEF Frames, Answers
    <3>. QED BY <1>2, <3>1 DEF Answer, TypeOK
  <2>. QED BY <1>2, <1>r, <2>1 DEF Answer, TypeOK, appVars
<1>3. ASSUME NEW m \in reports, ReportArrives(m) PROVE TypeOK'
  BY <1>3, <1>r DEF ReportArrives, TypeOK, appVars
<1>4. CASE Sweep \/ Lose
  BY <1>4, <1>r DEF Sweep, Lose, TypeOK, appVars, netVars, hubVars
<1>5. ASSUME NEW c \in Cards, PassesExpiry(c) PROVE TypeOK'
  BY <1>5, <1>r DEF PassesExpiry, TypeOK, appVars, netVars
<1>6. ASSUME NEW d \in Desktops, Connect(d) \/ Disconnect(d) PROVE TypeOK'
  BY <1>6, <1>r DEF Connect, Disconnect, ChannelCloses, TypeOK, appVars, netVars
<1>7. ASSUME NEW p \in {"off", "ask", "on"}, SetPolicy(p) PROVE TypeOK'
  BY <1>7, <1>r DEF SetPolicy, TypeOK, appVars, netVars, hubVars
<1>8. ASSUME NEW c \in Cards, NEW k \in Calls, Ask(c, k) PROVE TypeOK'
  BY <1>8, <1>r DEF Ask, TypeOK, hubVars
<1>9. ASSUME NEW c \in Cards, Release(c) PROVE TypeOK'
  <2>1. hold[c] \in Answers
    BY <1>9 DEF Release, TypeOK
  <2>2. hold[c].by \in Editors
    BY <2>1 DEF Answers
  <2>3. \E allow : Tell(c, allow, hold[c].by)
    BY <1>9 DEF Release
  <2>4. reports' \subseteq Reports
    <3>1. "approved" \in Settled /\ "denied" \in Settled
      BY DEF Settled
    <3>2. \E s \in {"approved", "denied"} : reports' = reports \cup Report({c}, s, "remote")
      BY <1>9 DEF Release, Outcome
    <3>. QED BY <1>p, <3>1, <3>2 DEF TypeOK
  <2>5. inflight' \subseteq Cards
    BY <1>9 DEF Release, TypeOK
  <2>. QED BY <1>9, <1>r, <1>h, <1>w, <2>2, <2>3, <2>4, <2>5 DEF Release, TypeOK, hubVars
<1>10. ASSUME NEW c \in Cards, TimesOut(c) PROVE TypeOK'
  <2>1. reports' \subseteq Reports
    <3>1. "expired" \in Settled /\ {c} \cap pending \in SUBSET Cards
      BY DEF Settled
    <3>. QED BY <1>10, <1>p, <3>1 DEF TimesOut, TypeOK
  <2>. QED BY <1>10, <1>r, <1>h, <2>1 DEF TimesOut, TypeOK, hubVars
<1>11. ASSUME NEW c \in Cards, NEW allow \in BOOLEAN, ClickHere(c, allow) PROVE TypeOK'
  <2>1. reports' \subseteq Reports
    <3>1. "approved" \in Settled /\ "denied" \in Settled
      BY DEF Settled
    <3>2. reports' = reports \/ \E s \in {"approved", "denied"} :
                                   reports' = reports \cup Report({c}, s, "local")
      BY <1>11 DEF ClickHere, Outcome
    <3>. QED BY <1>p, <3>1, <3>2 DEF TypeOK
  <2>2. pending' \subseteq Cards /\ hold' \in [Cards -> Answers \cup {NoAnswer}]
    BY <1>11, <1>h DEF ClickHere, TypeOK
  <2>3. inflight' \subseteq Cards
    BY <1>11 DEF ClickHere, TypeOK
  <2>4. Tell(c, allow, Owner)
    BY <1>11 DEF ClickHere
  <2>. QED BY <1>11, <1>r, <1>w, <2>1, <2>2, <2>3, <2>4 DEF ClickHere, TypeOK, hubVars
<1>12. ASSUME NEW f \in frames, Remote(f) PROVE TypeOK'
  <2>1. f.card \in Cards /\ f.answer \in Answers
    BY DEF TypeOK, Frames
  <2>2. reports' \subseteq Reports
    <3>1. reports' = reports \/ \E s \in {"held", "invalid"} :
                                   reports' = reports \cup Report({f.card}, s, "remote")
      BY <1>12 DEF Remote
    <3>. QED BY <1>p, <2>1, <3>1 DEF TypeOK
  <2>3. hold' \in [Cards -> Answers \cup {NoAnswer}]
    BY <1>12, <2>1 DEF Remote, TypeOK
  <2>. QED BY <1>12, <1>r, <2>2, <2>3 DEF Remote, TypeOK, hubVars
<1>13. CASE Interrupt
  <2>1. reports' \subseteq Reports
    <3>1. "expired" \in Settled /\ "unknown" \in Settled
      BY DEF Settled
    <3>2. \E done \in SUBSET inflight :
            reports' = reports \cup Report(pending, "expired", "local")
                               \cup Report(inflight \ done, "unknown", "local")
      BY <1>13 DEF Interrupt
    <3>. QED BY <1>p, <3>1, <3>2 DEF TypeOK
  <2>. QED BY <1>13, <1>r, <1>h, <2>1 DEF Interrupt, TypeOK, hubVars
<1>14. CASE Crash
  <2>1. channels' \subseteq Desktops /\ frames' \subseteq Frames
    BY <1>14 DEF Crash, AppGone, ChannelCloses, TypeOK
  <2>2. prompt' \in [Cards -> {"none", "asking", "allowed", "denied"}]
    BY <1>14 DEF Crash, TypeOK
  <2>. QED BY <1>14, <1>r, <1>h, <2>1, <2>2 DEF Crash, TypeOK
<1>15. CASE UNCHANGED vars
  BY <1>15 DEF vars, hubVars, appVars, netVars, TypeOK
<1>. QED BY <1>1, <1>2, <1>3, <1>4, <1>5, <1>6, <1>7, <1>8, <1>9, <1>10, <1>11, <1>12, <1>13,
            <1>14, <1>15 DEF Next, HubStep, AppStep

\* A new card has all its attempts.
LEMMA AttemptsInit == Init => AttemptsLeft
<1>1. 0 < ReopenMax
  BY ApprovalAssumption DEF ApprovalAssumption
<1>2. ASSUME Init, NEW c \in Cards PROVE rec[c].attempts = 0
  <2>1. rec[c] = NewCard
    BY <1>2 DEF Init
  <2>2. NewCard.attempts = 0
    BY DEF NewCard
  <2>. QED BY <2>1, <2>2
<1>. QED BY <1>1, <1>2 DEF AttemptsLeft

\* Type correctness: a card's count of mismatching answers stays within its limit
\* because a card that reached it is expired and can no longer be answered.
THEOREM TypeCorrect == Spec => []TypeOK
<1>1. Init => AttemptsLeft
  BY AttemptsInit
<1>2. TypeOK /\ AttemptsLeft /\ [Next]_vars => AttemptsLeft'
  BY RecordStep
<1>. QED BY <1>1, <1>2, TypeInit, TypeStep, PTL DEF Spec

-----------------------------------------------------------------------------
(* What the team is told, and what was run. *)

\* No card exists at first.
LEMMA ApprovalInit == Init => ApprovalInv
<1> SUFFICES ASSUME Init PROVE ApprovalInv
  OBVIOUS
<1>1. \A c \in Cards : /\ Status(c) = "none" /\ prompt[c] = "none" /\ decider[c] = Nobody
                       /\ hold[c] = NoAnswer /\ call[c] = {}
  BY DEF Init, Status, NewCard
<1>2. pending = {} /\ inflight = {} /\ reports = {} /\ frames = {} /\ publishing = {} /\ ids = <<>>
  BY DEF Init
<1>3. Nobody \notin Editors
  BY ApprovalAssumption DEF ApprovalAssumption
<1>a. Fresh
  BY <1>1, <1>2 DEF Fresh
<1>b. Waiting /\ LocalTruth
  BY <1>1, <1>2 DEF Waiting, LocalTruth
<1>c. OneAnswer /\ NoneYet
  BY <1>1, <1>2, <1>3 DEF OneAnswer, NoneYet, FrameOf, RemoteReport
<1>d. Recorded /\ NoLongerRemote /\ Attributed /\ ClaimedOnce
  BY <1>1 DEF Recorded, NoLongerRemote, Attributed, ClaimedOnce
<1>. QED BY <1>a, <1>b, <1>c, <1>d DEF ApprovalInv

\* What the passing of time and of channels may do to the record of c.
Quiet(c) ==
  \/ rec'[c] = rec[c]
  \/ Status(c) # "none" /\ Status(c)' = "forgotten"
  \/ Status(c) \in Live \cup {"approved"} /\ Status(c)' = "unknown"
  \/ Status(c) \in {"open", "held"} /\ Status(c)' = "expired"

\* The sweep is quiet.
LEMMA SweepQuiet ==
  ASSUME TypeOK
  PROVE  \A c \in Cards : \/ AfterSweep[c] = rec[c]
                          \/ Status(c) \in Live /\ AfterSweep[c].status = "unknown"
                          \/ Status(c) \in {"open", "held"} /\ AfterSweep[c].status = "expired"
<1>1. \A c \in Cards, s \in Statuses : [rec[c] EXCEPT !.status = s].status = s
  BY DEF TypeOK, Records
<1>2. "unknown" \in Statuses /\ "expired" \in Statuses
  BY DEF Statuses, Settled
<1>3. ASSUME NEW c \in Cards
      PROVE  \/ AfterSweep[c] = rec[c]
             \/ Status(c) \in Live /\ AfterSweep[c].status = "unknown"
             \/ Status(c) \in {"open", "held"} /\ AfterSweep[c].status = "expired"
  <2>a. AfterSweep[c] = Swept(c)
    BY DEF AfterSweep
  <2>1. CASE Swept(c) = [rec[c] EXCEPT !.status = "unknown"] /\ Status(c) = "answered"
    <3>1. [rec[c] EXCEPT !.status = "unknown"].status = "unknown"
      BY <1>1, <1>2
    <3>. QED BY <2>a, <2>1, <3>1 DEF Live
  <2>2. CASE Swept(c) = [rec[c] EXCEPT !.status = "expired"] /\ Status(c) \in {"open", "held"}
    <3>1. [rec[c] EXCEPT !.status = "expired"].status = "expired"
      BY <1>1, <1>2
    <3>. QED BY <2>a, <2>2, <3>1
  <2>3. \/ Swept(c) = rec[c]
        \/ Status(c) = "answered" /\ Swept(c) = [rec[c] EXCEPT !.status = "unknown"]
        \/ Status(c) \in {"open", "held"} /\ Swept(c) = [rec[c] EXCEPT !.status = "expired"]
    BY SweepType
  <2>. QED BY <2>a, <2>1, <2>2, <2>3
<1>. QED BY <1>3

\* So is the last channel's closing.
LEMMA CloseQuiet ==
  ASSUME TypeOK, NEW d, ChannelCloses(d)
  PROVE  /\ \A c \in Cards : Quiet(c)
         /\ frames' \subseteq frames
<1>1. CASE UNCHANGED rec
  BY <1>1 DEF ChannelCloses, Quiet
<1>2. ASSUME NEW settled, rec' = OwnerGone(settled) PROVE \A c \in Cards : Quiet(c)
  <2>1. \A c \in Cards : \/ rec'[c] = rec[c]
                         \/ /\ Status(c) \in {"answered", "approved"}
                            /\ rec'[c] = [rec[c] EXCEPT !.status = "unknown"]
    BY <1>2 DEF OwnerGone
  <2>2. \A c \in Cards : [rec[c] EXCEPT !.status = "unknown"].status = "unknown"
    BY DEF TypeOK, Records
  <2>. QED BY <2>1, <2>2 DEF Quiet, Status, Live
<1>. QED BY <1>1, <1>2 DEF ChannelCloses

\* A quiet step of the hub, losing messages at most, keeps everything.
LEMMA QuietStep ==
  ASSUME TypeOK, ApprovalInv, UNCHANGED appVars, \A c \in Cards : Quiet(c),
         ids' = ids, publishing' \subseteq publishing, reports' \subseteq reports,
         frames' \subseteq frames
  PROVE  ApprovalInv'
<1>u. UNCHANGED <<pending, hold, inflight, prompt, decider, call, claimed>>
  BY DEF appVars
<1>f. /\ \A c \in Cards : FrameOf(c)' => FrameOf(c)
      /\ \A c \in Cards : RemoteReport(c)' => RemoteReport(c)
  BY DEF FrameOf, RemoteReport
<1>a. Fresh'
  <2>1. \A c \in Cards : Status(c)' = "none" <=> Status(c) = "none"
    BY DEF Quiet, Status, Live
  <2>2. \A i \in 1..Len(ids) : ids[i] \in Cards
    BY DEF TypeOK
  <2>3. (\A i \in 1..Len(ids) : Status(ids[i]) # "none")'
    BY <2>1, <2>2 DEF ApprovalInv, Fresh, Status
  <2>. QED BY <1>u, <2>1, <2>3 DEF ApprovalInv, Fresh
<1>b. Waiting' /\ LocalTruth' /\ OneAnswer' /\ ClaimedOnce'
  BY <1>u, <1>f DEF ApprovalInv, Waiting, LocalTruth, OneAnswer, ClaimedOnce
<1>c. NoneYet'
  BY <1>u, <1>f DEF ApprovalInv, NoneYet, Quiet, Status
<1>d. Recorded'
  BY <1>u, <1>f DEF ApprovalInv, Recorded, Quiet, Status
<1>e. NoLongerRemote'
  <2>1. \A c \in Cards : Status(c)' \in {"held", "expired"} =>
          Status(c) \in {"held", "expired", "open"}
    BY DEF Quiet, Status
  <2>2. \A c \in Cards : Status(c) \in {"held", "expired", "open"} =>
          decider[c] \notin Editors /\ hold[c] = NoAnswer /\ (c \in pending => ~FrameOf(c))
    BY DEF ApprovalInv, NoLongerRemote, NoneYet
  <2>. QED BY <1>u, <1>f, <2>1, <2>2 DEF NoLongerRemote
<1>g. Attributed'
  BY <1>u DEF ApprovalInv, Attributed, Quiet, Status
<1>. QED BY <1>a, <1>b, <1>c, <1>d, <1>e, <1>g DEF ApprovalInv

\* Opening a card, and answering one.
LEMMA OpenStep ==
  ASSUME TypeOK, ApprovalInv, NEW c \in Cards, Open(c)
  PROVE  ApprovalInv'
<1>u. UNCHANGED <<pending, hold, inflight, prompt, decider, call, claimed, reports, frames>>
  BY DEF Open, appVars
<1>p. c \in publishing /\ publishing' = publishing \ {c}
  BY DEF Open
<1>1. CASE UNCHANGED rec /\ UNCHANGED ids
  <2>1. UNCHANGED appVars
    BY DEF Open
  <2>. QED BY <1>u, <1>p, <1>1, <2>1, QuietStep DEF Quiet
<1>2. CASE rec' = AfterSweep /\ UNCHANGED ids
  <2>1. UNCHANGED appVars
    BY DEF Open
  <2>2. \A d \in Cards : Quiet(d)
    BY <1>2, SweepQuiet DEF Quiet, Status
  <2>. QED BY <1>u, <1>p, <1>2, <2>1, <2>2, QuietStep
<1>3. CASE ~(UNCHANGED rec /\ UNCHANGED ids) /\ ~(rec' = AfterSweep /\ UNCHANGED ids)
  <2> DEFINE all == Append(ids, c)
             gone == Len(all) > Keep
  <2>1. /\ ids' = IF gone THEN Tail(all) ELSE all
        /\ rec' = [d \in Cards |->
             IF gone /\ d = Head(all) THEN [NewCard EXCEPT !.status = "forgotten"]
             ELSE IF d = c THEN [NewCard EXCEPT !.status = "open"] ELSE Swept(d)]
    BY <1>3 DEF Open
  <2>2. /\ all \in Seq(Cards) /\ all # <<>> /\ Len(all) = Len(ids) + 1 /\ Len(ids) \in Nat
        /\ \A i \in 1..Len(ids) : all[i] = ids[i]
        /\ all[Len(ids) + 1] = c
    BY AppendProperties DEF TypeOK
  <2>3. /\ Head(all) = all[1]
        /\ Len(Tail(all)) = Len(all) - 1
        /\ \A i \in 1..Len(Tail(all)) : Tail(all)[i] = all[i + 1]
    BY <2>2, HeadTailProperties
  <2>4. /\ [NewCard EXCEPT !.status = "forgotten"].status = "forgotten"
        /\ [NewCard EXCEPT !.status = "open"].status = "open"
    BY DEF NewCard
  <2>. HIDE DEF all, gone
  <2>5. Status(c) = "none"
    BY <1>p DEF ApprovalInv, Fresh
  <2>6. gone => Head(all) = c \/ Status(Head(all)) # "none"
    <3>1. \/ Len(ids) = 0 /\ Head(all) = c
          \/ 1 \in 1..Len(ids) /\ Head(all) = ids[1]
      BY <2>2, <2>3
    <3>. QED BY <3>1 DEF ApprovalInv, Fresh
  <2>7. Status(c)' \in {"open", "forgotten"} /\ \A d \in Cards : d # c => Quiet(d)
    <3>1. Status(c)' \in {"open", "forgotten"}
      BY <2>1, <2>4 DEF Status
    <3>2. ASSUME NEW d \in Cards, d # c PROVE Quiet(d)
      <4>1. CASE gone /\ d = Head(all)
        BY <2>1, <2>4, <2>6, <3>2, <4>1 DEF Quiet, Status
      <4>2. CASE ~(gone /\ d = Head(all))
        <5>1. rec'[d] = AfterSweep[d]
          BY <2>1, <3>2, <4>2 DEF AfterSweep
        <5>. QED BY <5>1, SweepQuiet DEF Quiet, Status
      <4>. QED BY <4>1, <4>2
    <3>. QED BY <3>1, <3>2
  <2>8. \A d \in Cards : ids' \in Seq(Cards) /\ (Status(d)' = "none" <=> d # c /\ Status(d) = "none")
    <3>1. Tail(all) \in Seq(Cards)
      BY <2>2, HeadTailProperties, Zenon
    <3>2. ids' \in Seq(Cards)
      BY <2>1, <2>2, <3>1
    <3>. QED BY <2>7, <3>2 DEF Quiet, Status, Live
  <2>9. \A i \in 1..Len(ids') : ids'[i] \in Cards /\ (ids'[i] = c \/ Status(ids'[i]) # "none")
    <3>1. ASSUME NEW i \in 1..Len(all) PROVE all[i] \in Cards /\ (all[i] = c \/ Status(all[i]) # "none")
      <4>1. CASE i = Len(ids) + 1
        BY <2>2, <4>1
      <4>2. CASE i \in 1..Len(ids)
        <5>1. all[i] = ids[i] /\ Status(ids[i]) # "none" /\ ids[i] \in Cards
          BY <2>2, <4>2 DEF ApprovalInv, Fresh, TypeOK
        <5>. QED BY <5>1
      <4>. QED BY <2>2, <4>1, <4>2
    <3>2. \A i \in 1..Len(Tail(all)) : i + 1 \in 1..Len(all)
      BY <2>2, <2>3
    <3>. QED BY <2>1, <2>3, <3>1, <3>2
  <2>a. Fresh'
    <3>1. (\A i \in 1..Len(ids) : Status(ids[i]) # "none")'
      BY <2>8, <2>9 DEF Status
    <3>. QED BY <1>u, <1>p, <2>5, <2>8, <3>1 DEF ApprovalInv, Fresh
  <2>b. Waiting' /\ LocalTruth' /\ OneAnswer' /\ ClaimedOnce'
    BY <1>u DEF ApprovalInv, Waiting, LocalTruth, OneAnswer, ClaimedOnce, FrameOf, RemoteReport
  <2>f. \A d \in Cards : (FrameOf(d)' <=> FrameOf(d)) /\ (RemoteReport(d)' <=> RemoteReport(d))
    BY <1>u DEF FrameOf, RemoteReport
  <2>c. NoneYet'
    <3>1. \A d \in Cards : Status(d)' \in {"none", "open"} => Status(d) \in {"none", "open"}
      BY <2>5, <2>7 DEF Quiet, Status
    <3>. QED BY <1>u, <2>f, <3>1 DEF ApprovalInv, NoneYet
  <2>d. Recorded'
    <3>1. \A d \in Cards : Status(d)' = "answered" => rec'[d] = rec[d]
      BY <2>7 DEF Quiet, Status
    <3>. QED BY <1>u, <3>1 DEF ApprovalInv, Recorded, Status
  <2>e. NoLongerRemote'
    <3>1. \A d \in Cards : Status(d)' \in {"held", "expired"} =>
            Status(d) \in {"held", "expired", "open"}
      BY <2>7 DEF Quiet, Status
    <3>2. \A d \in Cards : Status(d) \in {"held", "expired", "open"} =>
            decider[d] \notin Editors /\ hold[d] = NoAnswer /\ (d \in pending => ~FrameOf(d))
      BY DEF ApprovalInv, NoLongerRemote, NoneYet
    <3>. QED BY <1>u, <2>f, <3>1, <3>2 DEF NoLongerRemote
  <2>g. Attributed'
    <3>1. \A d \in Cards : Status(d)' \in {"approved", "denied"} => rec'[d] = rec[d]
      BY <2>7 DEF Quiet, Status
    <3>. QED BY <1>u, <3>1 DEF ApprovalInv, Attributed, Status
  <2>. QED BY <2>a, <2>b, <2>c, <2>d, <2>e, <2>g DEF ApprovalInv
<1>. QED BY <1>1, <1>2, <1>3

\* The hub's remaining quiet steps.
LEMMA HubQuiet ==
  ASSUME TypeOK, ApprovalInv,
         \/ Sweep \/ Lose
         \/ \E c \in Cards : PassesExpiry(c)
         \/ \E d \in Desktops : Connect(d) \/ Disconnect(d)
         \/ \E p \in {"off", "ask", "on"} : SetPolicy(p)
  PROVE  ApprovalInv'
<1>1. UNCHANGED appVars /\ ids' = ids
  BY DEF Sweep, Lose, PassesExpiry, Connect, Disconnect, SetPolicy, hubVars
<1>2. publishing' \subseteq publishing /\ reports' \subseteq reports
  BY DEF Sweep, Lose, PassesExpiry, Connect, Disconnect, SetPolicy, netVars
<1>3. frames' \subseteq frames /\ \A c \in Cards : Quiet(c)
  <2>1. CASE rec' = AfterSweep /\ frames' = frames
    BY <2>1, SweepQuiet DEF Quiet, Status
  <2>2. CASE rec' = rec /\ frames' = frames
    BY <2>2 DEF Quiet
  <2>3. CASE \E d : ChannelCloses(d)
    BY <2>3, CloseQuiet
  <2>. QED BY <2>1, <2>2, <2>3
           DEF Sweep, Lose, PassesExpiry, Connect, Disconnect, SetPolicy, netVars, hubVars
<1>. QED BY <1>1, <1>2, <1>3, QuietStep

\* An Editor answers: an open card has no other answer anywhere.
LEMMA AnswerStep ==
  ASSUME TypeOK, ApprovalInv, NEW c \in Cards, NEW e \in Editors, NEW d \in Decisions,
         NEW good \in BOOLEAN, Answer(c, e, d, good)
  PROVE  ApprovalInv'
<1> DEFINE a == [by |-> e, decision |-> d, good |-> good, confirm |-> policy # "on"]
           f == [card |-> c, answer |-> a]
<1>u. UNCHANGED <<ids, publishing, reports, pending, hold, inflight, prompt, decider, call, claimed>>
  BY DEF Answer, appVars
<1>1. /\ AfterSweep[c].status = "open"
      /\ rec' = [AfterSweep EXCEPT ![c].status = "answered", ![c].decision = d, ![c].by = e]
  BY DEF Answer, AfterSweep
<1>2. frames' \subseteq frames \cup {f}
  BY DEF Answer
<1>3. Status(c) = "open"
  <2>1. \/ AfterSweep[c] = rec[c]
        \/ AfterSweep[c].status \in {"unknown", "expired"}
    BY SweepQuiet
  <2>. QED BY <1>1, <2>1 DEF Status
<1>4. \A b \in Cards : b # c => Quiet(b)
  <2>1. \A b \in Cards : b # c => rec'[b] = AfterSweep[b]
    BY <1>1, SweepType
  <2>. QED BY <2>1, SweepQuiet DEF Quiet, Status
<1>5. rec'[c].status = "answered" /\ rec'[c].decision = d /\ rec'[c].by = e
  <2>1. AfterSweep[c] \in Records
    BY SweepType
  <2>2. rec'[c] = [AfterSweep[c] EXCEPT !.status = "answered", !.decision = d, !.by = e]
    BY <1>1, SweepType
  <2>. QED BY <2>1, <2>2 DEF Records
<1>6. f.card = c /\ f.answer.by = e /\ f.answer.decision = d
  OBVIOUS
<1>. HIDE DEF a, f
<1>7. ~FrameOf(c) /\ hold[c] = NoAnswer /\ ~RemoteReport(c) /\ decider[c] \notin Editors
  BY <1>3 DEF ApprovalInv, NoneYet
<1>8. \A b \in Cards : (b # c => (FrameOf(b)' => FrameOf(b))) /\ (RemoteReport(b)' => RemoteReport(b))
  BY <1>u, <1>2, <1>6 DEF FrameOf, RemoteReport
<1>9. \A g \in frames' : g.card = c => g = f
  BY <1>2, <1>7 DEF FrameOf
<1>10. \A g \in frames' : g.card # c => g \in frames
  BY <1>2, <1>6
<1>a. Fresh'
  <2>1. \A b \in Cards : Status(b)' = "none" <=> Status(b) = "none"
    BY <1>3, <1>4, <1>5 DEF Quiet, Status, Live
  <2>2. \A i \in 1..Len(ids) : ids[i] \in Cards
    BY DEF TypeOK
  <2>3. (\A i \in 1..Len(ids) : Status(ids[i]) # "none")'
    BY <1>u, <2>1, <2>2 DEF ApprovalInv, Fresh, Status
  <2>. QED BY <1>u, <2>1, <2>3 DEF ApprovalInv, Fresh
<1>b. Waiting' /\ LocalTruth' /\ ClaimedOnce'
  BY <1>u DEF ApprovalInv, Waiting, LocalTruth, ClaimedOnce
<1>c. OneAnswer'
  <2>1. \A g, h \in frames' : g.card = h.card => g = h
    BY <1>9, <1>10 DEF ApprovalInv, OneAnswer
  <2>2. \A b \in Cards : FrameOf(b)' => hold[b] = NoAnswer /\ decider[b] \notin Editors /\ ~RemoteReport(b)
    BY <1>7, <1>8 DEF ApprovalInv, OneAnswer
  <2>. QED BY <1>u, <1>8, <2>1, <2>2 DEF ApprovalInv, OneAnswer
<1>d. NoneYet'
  <2>1. \A b \in Cards : Status(b)' \in {"none", "open"} => b # c /\ Status(b) \in {"none", "open"}
    BY <1>4, <1>5 DEF Quiet, Status
  <2>. QED BY <1>u, <1>8, <2>1 DEF ApprovalInv, NoneYet
<1>e. Recorded'
  <2>1. \A b \in Cards : Status(b)' = "answered" => b = c \/ (b # c /\ rec'[b] = rec[b])
    BY <1>4 DEF Quiet, Status
  <2>2. \A b \in Cards : b # c => \A g \in frames' : g.card = b => g \in frames
    BY <1>10
  <2>3. (\A g \in frames' : g.card = c => g.answer.by = rec'[c].by /\ g.answer.decision = rec'[c].decision)
    BY <1>5, <1>6, <1>9
  <2>4. ASSUME NEW b \in Cards, Status(b)' = "answered"
        PROVE  /\ \A g \in frames' : g.card = b => g.answer.by = rec'[b].by /\ g.answer.decision = rec'[b].decision
               /\ hold[b] # NoAnswer => hold[b].by = rec'[b].by /\ hold[b].decision = rec'[b].decision
               /\ decider[b] \in Editors => decider[b] = rec'[b].by
    <3>1. CASE b = c
      BY <1>7, <2>3, <3>1
    <3>2. CASE b # c
      <4>1. rec'[b] = rec[b] /\ Status(b) = "answered"
        BY <2>1, <2>4, <3>2 DEF Status
      <4>. QED BY <2>2, <3>2, <4>1 DEF ApprovalInv, Recorded
    <3>. QED BY <3>1, <3>2
  <2>. QED BY <1>u, <2>4 DEF Recorded
<1>g. NoLongerRemote'
  <2>1. \A b \in Cards : Status(b)' \in {"held", "expired"} =>
          b # c /\ Status(b) \in {"held", "expired", "open"}
    BY <1>4, <1>5 DEF Quiet, Status
  <2>2. \A b \in Cards : Status(b) \in {"held", "expired", "open"} =>
          decider[b] \notin Editors /\ hold[b] = NoAnswer /\ (b \in pending => ~FrameOf(b))
    BY DEF ApprovalInv, NoLongerRemote, NoneYet
  <2>. QED BY <1>u, <1>8, <2>1, <2>2 DEF NoLongerRemote
<1>h. Attributed'
  <2>1. \A b \in Cards : Status(b)' \in {"approved", "denied"} => rec'[b] = rec[b]
    BY <1>4, <1>5 DEF Quiet, Status
  <2>. QED BY <1>u, <2>1 DEF ApprovalInv, Attributed, Status
<1>. QED BY <1>a, <1>b, <1>c, <1>d, <1>e, <1>g, <1>h DEF ApprovalInv

\* A report arrives: it is about an answer that is nowhere else by then.
LEMMA ReportStep ==
  ASSUME TypeOK, ApprovalInv, NEW m \in reports, ReportArrives(m)
  PROVE  ApprovalInv'
<1> DEFINE c == m.card
<1>m. /\ c \in Cards /\ m.status \in Settled \cup {"held", "invalid"} /\ m.via \in {"local", "remote"}
      /\ m = [card |-> c, status |-> m.status, via |-> m.via]
  BY DEF TypeOK, Reports
<1>u. /\ UNCHANGED <<ids, publishing, frames, pending, hold, inflight, prompt, decider, call, claimed>>
      /\ reports' \subseteq reports /\ m \notin reports' /\ UNCHANGED appVars
  BY DEF ReportArrives, appVars
<1>r. rec' = [rec EXCEPT ![c] = Reported(rec[c], m.status, m.via)]
  BY DEF ReportArrives
<1>t. rec \in [Cards -> Records]
  BY DEF TypeOK
<1>. HIDE DEF c
<1>1. ReportMove(rec[c], m.status, m.via, rec'[c])
  BY <1>m, <1>r, <1>t, ReportedCases
<1>2. \A b \in Cards : b # c => rec'[b] = rec[b]
  BY <1>r, <1>t
<1>3. rec[c] \in Records /\ Status(c) = rec[c].status /\ Status(c)' = rec'[c].status
  BY <1>m, <1>t DEF Status
<1>4. \A b \in Cards : (FrameOf(b)' <=> FrameOf(b)) /\ (RemoteReport(b)' => RemoteReport(b))
  BY <1>u DEF FrameOf, RemoteReport
\* What an answer's objection, or a local report, says of the machine.
<1>5. m.via = "remote" => /\ m = Remotely(c, m.status) /\ RemoteReport(c)
                          /\ ~FrameOf(c) /\ hold[c] = NoAnswer
  BY <1>m DEF Remotely, RemoteReport, ApprovalInv, OneAnswer
<1>6. m.via = "local" => m = Locally(c, m.status)
  BY <1>m DEF Locally
<1>7. m.status \in {"invalid", "held"} => m.via = "remote" /\ decider[c] \notin Editors
  BY <1>m, <1>5, <1>6 DEF ApprovalInv, LocalTruth, OneAnswer
<1>8. m.status = "expired" => m.via = "local" /\ c \notin pending /\ decider[c] \notin Editors
  BY <1>m, <1>5, <1>6 DEF ApprovalInv, LocalTruth, OneAnswer
<1>9. \/ Quiet(c)
      \/ m.status = "expired" /\ Status(c)' = "expired"
      \/ m.status = "invalid" /\ Status(c) = "answered" /\ Status(c)' \in {"open", "expired"}
      \/ m.status = "held" /\ Status(c) = "answered" /\ Status(c)' = "held"
      \/ /\ m.status \in {"approved", "denied"} /\ m.via = "local" /\ Status(c) \in Live
         /\ Status(c)' = m.status /\ rec'[c].by = Owner
      \/ /\ m.status \in {"approved", "denied"} /\ m.via = "remote" /\ Status(c) = "answered"
         /\ Status(c)' = m.status /\ rec'[c].by = rec[c].by
  <2> DEFINE r == rec[c]
             q == rec'[c]
  <2>1. r \in Records /\ Status(c) = r.status /\ Status(c)' = q.status /\ (q = r => Quiet(c))
    BY <1>3 DEF Quiet
  <2>2. ReportMove(r, m.status, m.via, q)
    BY <1>1
  <2>3. Status(c) \in Live \cup {"approved"} /\ Status(c)' = "unknown" => Quiet(c)
    BY DEF Quiet
  <2>. HIDE DEF r, q
  <2>4. CASE m.status = "unknown" /\ r.status \in Live \cup {"approved"} /\ q = [r EXCEPT !.status = "unknown"]
    <3>1. q.status = "unknown"
      BY <2>1, <2>4 DEF Records
    <3>. QED BY <2>1, <2>3, <2>4, <3>1
  <2>5. CASE m.status = "expired" /\ q = [r EXCEPT !.status = "expired"]
    BY <2>1, <2>5 DEF Records
  <2>6. CASE /\ m.status = "invalid" /\ r.status = "answered"
             /\ \/ q = [r EXCEPT !.status = "expired", !.attempts = r.attempts + 1]
                \/ q = [status |-> "open", decision |-> "", by |-> Nobody, attempts |-> r.attempts + 1]
    <3>1. CASE q = [r EXCEPT !.status = "expired", !.attempts = r.attempts + 1]
      <4>1. q.status = "expired"
        BY <2>1, <3>1 DEF Records
      <4>. QED BY <2>1, <2>6, <4>1
    <3>2. CASE q = [status |-> "open", decision |-> "", by |-> Nobody, attempts |-> r.attempts + 1]
      <4>1. q.status = "open"
        BY <3>2
      <4>. QED BY <2>1, <2>6, <4>1
    <3>. QED BY <2>6, <3>1, <3>2
  <2>7. CASE m.status = "held" /\ r.status = "answered" /\ q = [r EXCEPT !.status = "held"]
    BY <2>1, <2>7 DEF Records
  <2>8. ASSUME m.status \in {"approved", "denied"}, m.via = "local", r.status \in Live,
               NEW d \in Decisions, q = [r EXCEPT !.status = m.status, !.decision = d, !.by = Owner]
        PROVE  Status(c)' = m.status /\ q.by = Owner
    BY <2>1, <2>8 DEF Records
  <2>9. CASE /\ m.status \in {"approved", "denied"} /\ m.via = "remote" /\ r.status = "answered"
             /\ q = [r EXCEPT !.status = m.status]
    <3>1. q.status = m.status /\ q.by = r.by
      BY <2>1, <2>9 DEF Records
    <3>. QED BY <2>1, <2>9, <3>1 DEF r, q
  <2>10. CASE /\ m.status \in {"approved", "denied"} /\ m.via = "local" /\ r.status \in Live
              /\ \E d \in Decisions : q = [r EXCEPT !.status = m.status, !.decision = d, !.by = Owner]
    <3>1. Status(c)' = m.status /\ q.by = Owner
      BY <2>8, <2>10
    <3>. QED BY <2>1, <2>10, <3>1 DEF q
  <2>. QED BY <2>1, <2>2, <2>4, <2>5, <2>6, <2>7, <2>9, <2>10 DEF ReportMove
<1>10. CASE Quiet(c)
  <2>1. \A b \in Cards : Quiet(b)
    BY <1>2, <1>10 DEF Quiet
  <2>. QED BY <1>u, <2>1, QuietStep
<1>11. CASE ~Quiet(c)
  <2>0. Status(c) # "none" /\ Status(c)' # "none"
    <3>1. "none" \notin Live
      BY DEF Live
    <3>2. Status(c) # "none"
      BY <1>1, <1>3, <1>11, <3>1 DEF ReportMove, Quiet, Status
    <3>. QED BY <1>9, <1>11, <3>2
  <2>a. Fresh'
    <3>1. \A b \in Cards : Status(b)' = "none" <=> Status(b) = "none"
      BY <1>2, <2>0 DEF Status
    <3>2. \A i \in 1..Len(ids) : ids[i] \in Cards
      BY DEF TypeOK
    <3>3. (\A i \in 1..Len(ids) : Status(ids[i]) # "none")'
      BY <1>u, <3>1, <3>2 DEF ApprovalInv, Fresh, Status
    <3>. QED BY <1>u, <3>1, <3>3 DEF ApprovalInv, Fresh
  <2>b. Waiting' /\ LocalTruth' /\ OneAnswer' /\ ClaimedOnce'
    BY <1>u, <1>4 DEF ApprovalInv, Waiting, LocalTruth, OneAnswer, ClaimedOnce
  <2>c. NoneYet'
    <3>1. Status(c)' \in {"none", "open"} => m.status = "invalid"
      BY <1>9, <1>11, <2>0
    <3>2. m.status = "invalid" =>
            ~FrameOf(c) /\ hold[c] = NoAnswer /\ ~RemoteReport(c)' /\ decider[c] \notin Editors
      <4> SUFFICES ASSUME m.status = "invalid" PROVE ~RemoteReport(c)'
        BY <1>5, <1>7
      <4>1. m = Remotely(c, "invalid") /\ Remotely(c, "invalid") \in reports /\ decider[c] \notin Editors
        BY <1>5, <1>7
      <4>2. \A s \in {"held", "approved", "denied", "expired", "unknown"} : Remotely(c, s) \notin reports
        BY <1>m, <4>1 DEF ApprovalInv, OneAnswer
      <4>. QED BY <1>u, <4>1, <4>2 DEF RemoteReport, Settled
    <3>3. \A b \in Cards : b # c => (Status(b)' = Status(b))
      BY <1>2 DEF Status
    <3>. QED BY <1>u, <1>4, <3>1, <3>2, <3>3 DEF ApprovalInv, NoneYet
  <2>d. Recorded'
    <3>1. \A b \in Cards : Status(b)' = "answered" => rec'[b] = rec[b]
      <4>1. Status(c)' # "answered"
        BY <1>9, <1>11
      <4>. QED BY <1>2, <4>1
    <3>. QED BY <1>u, <3>1 DEF ApprovalInv, Recorded, Status
  <2>e. NoLongerRemote'
    <3>1. Status(c)' \in {"held", "expired"} => m.status \in {"expired", "invalid", "held"}
      BY <1>9, <1>11
    <3>2. m.status \in {"invalid", "held"} =>
            decider[c] \notin Editors /\ hold[c] = NoAnswer /\ ~FrameOf(c)
      BY <1>5, <1>7
    <3>3. m.status = "expired" => decider[c] \notin Editors /\ hold[c] = NoAnswer /\ c \notin pending
      BY <1>m, <1>8 DEF ApprovalInv, Waiting
    <3>4. \A b \in Cards : b # c => (Status(b)' = Status(b))
      BY <1>2 DEF Status
    <3>. QED BY <1>u, <1>4, <3>1, <3>2, <3>3, <3>4 DEF ApprovalInv, NoLongerRemote
  <2>g. Attributed'
    <3>1. ASSUME Status(c)' \in {"approved", "denied"}
          PROVE  /\ Status(c)' = "approved" => prompt[c] = "allowed" /\ decider[c] = rec'[c].by
                 /\ Status(c)' = "denied" => prompt[c] = "denied" /\ decider[c] = rec'[c].by
      <4>1. CASE m.via = "local" /\ m.status = Status(c)' /\ rec'[c].by = Owner
        <5>1. Locally(c, Status(c)') \in reports
          BY <1>6, <4>1
        <5>. QED BY <1>m, <3>1, <4>1, <5>1 DEF ApprovalInv, LocalTruth
      <4>2. CASE /\ m.via = "remote" /\ m.status = Status(c)' /\ rec'[c].by = rec[c].by
                 /\ Status(c) = "answered"
        <5>1. Remotely(c, Status(c)') \in reports
          BY <1>5, <4>2
        <5>2. decider[c] \in Editors => decider[c] = rec[c].by
          BY <1>m, <4>2 DEF ApprovalInv, Recorded
        <5>. QED BY <1>m, <3>1, <4>2, <5>1, <5>2 DEF ApprovalInv, OneAnswer
      <4>. QED BY <1>9, <1>11, <3>1, <4>1, <4>2
    <3>2. \A b \in Cards : b # c => (Status(b)' = Status(b))
      BY <1>2 DEF Status
    <3>. QED BY <1>u, <1>2, <3>1, <3>2 DEF ApprovalInv, Attributed
  <2>. QED BY <2>a, <2>b, <2>c, <2>d, <2>e, <2>g DEF ApprovalInv
<1>. QED BY <1>10, <1>11

\* The agent asks: nothing is known of the card yet.
LEMMA AskStep ==
  ASSUME TypeOK, ApprovalInv, NEW c \in Cards, NEW k \in Calls, Ask(c, k)
  PROVE  ApprovalInv'
<1>u. /\ UNCHANGED <<rec, ids, hold, inflight, decider, reports, frames>>
      /\ prompt[c] = "none" /\ call' = [call EXCEPT ![c] = {k}]
  BY DEF Ask, hubVars
<1>1. /\ Status(c) = "none" /\ c \notin publishing /\ decider[c] = Nobody
      /\ c \notin pending /\ hold[c] = NoAnswer /\ c \notin inflight
      /\ \A m \in reports : m.card # c
  BY <1>u DEF ApprovalInv, Fresh, Waiting
<1>2. \A b \in Cards : b # c => prompt'[b] = prompt[b] /\ (b \in pending' <=> b \in pending)
                                /\ (b \in publishing' <=> b \in publishing) /\ call'[b] = call[b]
  BY <1>u DEF Ask, TypeOK
<1>3. /\ prompt'[c] \in {"asking", "denied"} /\ call'[c] = {k}
      /\ prompt'[c] = "asking" => k \notin claimed /\ claimed' = claimed \cup {k}
      /\ c \in pending' => prompt'[c] = "asking"
      /\ claimed \subseteq claimed'
  BY <1>u, <1>1 DEF Ask, TypeOK
<1>4. \A s : Locally(c, s) \notin reports /\ Remotely(c, s) \notin reports
  BY <1>1 DEF Locally, Remotely
<1>5. \A b \in Cards : /\ Status(b)' = Status(b) /\ (FrameOf(b)' <=> FrameOf(b))
                       /\ (RemoteReport(b)' <=> RemoteReport(b))
  BY <1>u DEF Status, FrameOf, RemoteReport
<1>6. ~FrameOf(c)
  BY <1>1 DEF ApprovalInv, NoneYet
<1>a. Fresh'
  BY <1>u, <1>1, <1>2, <1>3, <1>5 DEF ApprovalInv, Fresh, Status
<1>b. Waiting'
  BY <1>u, <1>1, <1>2, <1>3 DEF ApprovalInv, Waiting
<1>c. LocalTruth'
  BY <1>u, <1>2, <1>4 DEF ApprovalInv, LocalTruth
<1>d. OneAnswer'
  BY <1>u, <1>2, <1>4, <1>5 DEF ApprovalInv, OneAnswer
<1>e. NoneYet' /\ Recorded'
  BY <1>u, <1>5 DEF ApprovalInv, NoneYet, Recorded
<1>g. NoLongerRemote'
  BY <1>u, <1>1, <1>2, <1>5, <1>6 DEF ApprovalInv, NoLongerRemote
<1>h. Attributed'
  BY <1>u, <1>1, <1>2, <1>5 DEF ApprovalInv, Attributed
<1>i. ClaimedOnce'
  <2>1. \A b \in Cards : prompt'[b] \in {"asking", "allowed"} => \E j \in claimed' : call'[b] = {j}
    BY <1>2, <1>3 DEF ApprovalInv, ClaimedOnce
  <2>2. ASSUME NEW b \in Cards, b # c, prompt'[b] \in {"asking", "allowed"},
               prompt'[c] \in {"asking", "allowed"}
        PROVE  call'[b] # call'[c]
    <3>1. PICK j \in claimed : call[b] = {j}
      BY <1>2, <2>2 DEF ApprovalInv, ClaimedOnce
    <3>2. j # k /\ call'[b] = {j} /\ call'[c] = {k}
      BY <1>2, <1>3, <2>2, <3>1
    <3>. QED BY <3>2
  <2>. QED BY <1>2, <2>1, <2>2 DEF ApprovalInv, ClaimedOnce
<1>. QED BY <1>a, <1>b, <1>c, <1>d, <1>e, <1>g, <1>h, <1>i DEF ApprovalInv

\* The person at the machine answers.
LEMMA ClickStep ==
  ASSUME TypeOK, ApprovalInv, NEW c \in Cards, NEW allow \in BOOLEAN, ClickHere(c, allow)
  PROVE  ApprovalInv'
<1>u. /\ UNCHANGED <<rec, ids, publishing, call, claimed, frames>>
      /\ prompt[c] = "asking"
  BY DEF ClickHere, hubVars
<1>n. Owner \notin Editors
  BY ApprovalAssumption DEF ApprovalAssumption
<1>1. /\ \A b \in Cards : b # c => prompt'[b] = prompt[b] /\ decider'[b] = decider[b]
      /\ prompt'[c] = IF allow THEN "allowed" ELSE "denied"
      /\ decider'[c] = Owner
  BY <1>u DEF ClickHere, Tell, TypeOK
<1>2. /\ \A b \in Cards : b # c => hold'[b] = hold[b] /\ (b \in pending' <=> b \in pending)
      /\ c \notin pending' /\ hold'[c] = NoAnswer
  BY DEF ClickHere, Forget, TypeOK, ApprovalInv, Waiting
<1>3. /\ inflight' \subseteq inflight \cup {c} /\ (c \in inflight' => allow)
  BY <1>u DEF ClickHere, ApprovalInv, Waiting
<1>4. /\ reports' \subseteq reports \cup {Locally(c, Outcome(allow))}
  BY DEF ClickHere, Report, Locally
<1>5. /\ \A b \in Cards : \A s : b # c => (Locally(b, s) \in reports' => Locally(b, s) \in reports)
      /\ \A b \in Cards : \A s : Remotely(b, s) \in reports' => Remotely(b, s) \in reports
      /\ \A s : Locally(c, s) \in reports' => Locally(c, s) \in reports \/ s = Outcome(allow)
      /\ \A m \in reports' : m \in reports \/ m.card = c
  BY <1>4 DEF Locally, Remotely
<1>6. \A b \in Cards : /\ Status(b)' = Status(b) /\ (FrameOf(b)' <=> FrameOf(b))
                       /\ (RemoteReport(b)' => RemoteReport(b))
  BY <1>u, <1>5 DEF Status, FrameOf, RemoteReport
<1>7. Outcome(allow) \in {"approved", "denied"}
  BY DEF Outcome
<1>8. /\ Locally(c, "approved") \notin reports /\ Locally(c, "denied") \notin reports
      /\ Remotely(c, "approved") \notin reports /\ Remotely(c, "denied") \notin reports
      /\ Status(c) \notin {"approved", "denied"}
  BY <1>u DEF ApprovalInv, LocalTruth, OneAnswer, Attributed
<1>a. Fresh'
  BY <1>u, <1>1, <1>5, <1>6 DEF ApprovalInv, Fresh, Status
<1>b. Waiting'
  BY <1>u, <1>1, <1>2, <1>3 DEF ApprovalInv, Waiting
<1>c. LocalTruth'
  <2>1. /\ Locally(c, "approved") \in reports' => allow
        /\ Locally(c, "denied") \in reports' => ~allow
        /\ Locally(c, "invalid") \notin reports' /\ Locally(c, "held") \notin reports'
    BY <1>5, <1>8 DEF Outcome, ApprovalInv, LocalTruth
  <2>. QED BY <1>n, <1>1, <1>2, <1>5, <2>1 DEF ApprovalInv, LocalTruth
<1>d. OneAnswer'
  <2>1. \A b \in Cards : /\ FrameOf(b)' => hold'[b] = NoAnswer /\ decider'[b] \notin Editors /\ ~RemoteReport(b)'
                         /\ hold'[b] # NoAnswer => ~RemoteReport(b)'
    BY <1>n, <1>1, <1>2, <1>6 DEF ApprovalInv, OneAnswer
  <2>. QED BY <1>u, <1>n, <1>1, <1>2, <1>5, <1>8, <2>1 DEF ApprovalInv, OneAnswer
<1>e. NoneYet'
  BY <1>n, <1>1, <1>2, <1>6 DEF ApprovalInv, NoneYet
<1>f. Recorded'
  BY <1>u, <1>n, <1>1, <1>2, <1>6 DEF ApprovalInv, Recorded
<1>g. NoLongerRemote'
  BY <1>n, <1>1, <1>2, <1>6 DEF ApprovalInv, NoLongerRemote
<1>h. Attributed'
  BY <1>u, <1>1, <1>6, <1>8 DEF ApprovalInv, Attributed
<1>i. ClaimedOnce'
  <2>1. \A b \in Cards : prompt'[b] \in {"asking", "allowed"} => prompt[b] \in {"asking", "allowed"}
    BY <1>u, <1>1
  <2>. QED BY <1>u, <2>1 DEF ApprovalInv, ClaimedOnce
<1>. QED BY <1>a, <1>b, <1>c, <1>d, <1>e, <1>f, <1>g, <1>h, <1>i DEF ApprovalInv

\* An Editor's answer reaches the app: the card is neither open nor past it, or
\* its prompt is no longer known here.
LEMMA RemoteStep ==
  ASSUME TypeOK, ApprovalInv, NEW f \in frames, Remote(f)
  PROVE  ApprovalInv'
<1> DEFINE c == f.card
<1>u. /\ UNCHANGED <<rec, ids, publishing, call, claimed, pending, inflight, prompt, decider>>
      /\ frames' = frames \ {f} /\ c \in Cards /\ f.answer \in Answers
  BY DEF Remote, hubVars, TypeOK, Frames
<1>1. /\ FrameOf(c) /\ ~FrameOf(c)' /\ ~RemoteReport(c) /\ decider[c] \notin Editors
      /\ \A b \in Cards : FrameOf(b)' => FrameOf(b)
  BY <1>u DEF FrameOf, ApprovalInv, OneAnswer
<1>2. Status(c) \notin {"none", "open"} /\ (c \in pending => Status(c) \notin {"held", "expired"})
  BY <1>u, <1>1 DEF ApprovalInv, NoneYet, NoLongerRemote
<1>3. CASE UNCHANGED <<hold, reports>>
  <2>1. UNCHANGED appVars /\ \A b \in Cards : Quiet(b)
    BY <1>u, <1>3 DEF appVars, Quiet, Remote
  <2>. QED BY <1>u, <1>3, <2>1, QuietStep
<1>. HIDE DEF c
<1>4. ASSUME NEW s \in {"invalid", "held"}, hold[c] = NoAnswer, c \in pending,
             UNCHANGED hold, reports' = reports \cup {Remotely(c, s)}
      PROVE  ApprovalInv'
  <2>1. /\ \A b \in Cards : \A t : b # c => (Remotely(b, t) \in reports' => Remotely(b, t) \in reports)
        /\ \A b \in Cards : \A t : Locally(b, t) \in reports' => Locally(b, t) \in reports
        /\ \A t : Remotely(c, t) \in reports' => t = s
        /\ \A m \in reports' : m \in reports \/ m.card = c
    <3>1. \A t : Remotely(c, t) \in reports => t \notin Settled \cup {"held", "invalid"}
      BY <1>1 DEF RemoteReport
    <3>2. \A t : Remotely(c, t) \in reports => t \in Settled \cup {"held", "invalid"}
      BY DEF TypeOK, Reports, Remotely
    <3>. QED BY <1>4, <3>1, <3>2 DEF Remotely, Locally
  <2>2. \A b \in Cards : b # c => (RemoteReport(b)' => RemoteReport(b))
    BY <2>1 DEF RemoteReport
  <2>3. prompt[c] = "asking"
    BY <1>u, <1>4 DEF ApprovalInv, Waiting
  <2>a. Fresh'
    BY <1>u, <1>4, <2>1, <2>3 DEF ApprovalInv, Fresh, Status
  <2>b. Waiting' /\ ClaimedOnce'
    BY <1>u, <1>4 DEF ApprovalInv, Waiting, ClaimedOnce
  <2>c. LocalTruth'
    BY <1>u, <2>1 DEF ApprovalInv, LocalTruth
  <2>d. OneAnswer'
    <3>1. \A g, h \in frames' : g.card = h.card => g = h
      BY <1>u DEF ApprovalInv, OneAnswer
    <3>2. ASSUME NEW b \in Cards
          PROVE  /\ FrameOf(b)' => hold[b] = NoAnswer /\ decider[b] \notin Editors /\ ~RemoteReport(b)'
                 /\ hold[b] # NoAnswer => ~RemoteReport(b)'
      BY <1>1, <1>4, <2>2 DEF ApprovalInv, OneAnswer
    <3>3. ASSUME NEW b \in Cards
          PROVE  /\ Remotely(b, "invalid") \in reports' \/ Remotely(b, "held") \in reports'
                      => decider[b] \notin Editors
                 /\ ~(Remotely(b, "invalid") \in reports' /\ Remotely(b, "held") \in reports')
                 /\ Remotely(b, "approved") \in reports' => prompt[b] = "allowed" /\ decider[b] \in Editors
                 /\ Remotely(b, "denied") \in reports' => prompt[b] = "denied" /\ decider[b] \in Editors
                 /\ Remotely(b, "expired") \notin reports' /\ Remotely(b, "unknown") \notin reports'
      <4>1. CASE b = c
        BY <1>1, <2>1, <4>1
      <4>2. CASE b # c
        BY <2>1, <4>2 DEF ApprovalInv, OneAnswer
      <4>. QED BY <4>1, <4>2
    <3>. QED BY <1>u, <1>4, <3>1, <3>2, <3>3 DEF OneAnswer
  <2>e. NoneYet' /\ Recorded'
    BY <1>u, <1>1, <1>2, <1>4, <2>2 DEF ApprovalInv, NoneYet, Recorded, Status
  <2>g. NoLongerRemote' /\ Attributed'
    BY <1>u, <1>1, <1>4 DEF ApprovalInv, NoLongerRemote, Attributed, Status
  <2>. QED BY <2>a, <2>b, <2>c, <2>d, <2>e, <2>g DEF ApprovalInv
<1>5. ASSUME hold[c] = NoAnswer, c \in pending, UNCHANGED reports,
             hold' = [hold EXCEPT ![c] = f.answer]
      PROVE  ApprovalInv'
  <2>1. /\ \A b \in Cards : b # c => hold'[b] = hold[b]
        /\ hold'[c] = f.answer
    BY <1>u, <1>5 DEF TypeOK
  <2>2. \A b \in Cards : RemoteReport(b)' <=> RemoteReport(b)
    BY <1>5 DEF RemoteReport
  <2>3. Status(c) = "answered" =>
          f.answer.by = rec[c].by /\ f.answer.decision = rec[c].decision
    BY <1>u DEF ApprovalInv, Recorded, c
  <2>a. Fresh' /\ LocalTruth' /\ ClaimedOnce' /\ Attributed'
    BY <1>u, <1>5 DEF ApprovalInv, Fresh, LocalTruth, ClaimedOnce, Attributed, Status
  <2>b. Waiting'
    BY <1>u, <1>5, <2>1 DEF ApprovalInv, Waiting
  <2>c. OneAnswer'
    <3>1. \A g, h \in frames' : g.card = h.card => g = h
      BY <1>u DEF ApprovalInv, OneAnswer
    <3>2. ASSUME NEW b \in Cards
          PROVE  /\ FrameOf(b)' => hold'[b] = NoAnswer /\ decider[b] \notin Editors /\ ~RemoteReport(b)'
                 /\ hold'[b] # NoAnswer => ~RemoteReport(b)'
      BY <1>1, <2>1, <2>2 DEF ApprovalInv, OneAnswer
    <3>. QED BY <1>u, <1>5, <3>1, <3>2 DEF ApprovalInv, OneAnswer
  <2>d. NoneYet' /\ NoLongerRemote'
    BY <1>u, <1>1, <1>2, <1>5, <2>1, <2>2 DEF ApprovalInv, NoneYet, NoLongerRemote, Status
  <2>e. Recorded'
    BY <1>u, <2>1, <2>3 DEF ApprovalInv, Recorded, Status
  <2>. QED BY <2>a, <2>b, <2>c, <2>d, <2>e DEF ApprovalInv
<1>. QED BY <1>3, <1>4, <1>5 DEF Remote, Report, Remotely, c

\* The hold of an Editor's answer runs out: it is the one on record.
LEMMA ReleaseStep ==
  ASSUME TypeOK, ApprovalInv, NEW c \in Cards, Release(c)
  PROVE  ApprovalInv'
<1> DEFINE allow == hold[c].decision = "allow"
<1>u. /\ UNCHANGED <<rec, ids, publishing, call, claimed, frames>>
      /\ hold[c] # NoAnswer
  BY DEF Release, hubVars
<1>0. /\ c \in pending /\ prompt[c] = "asking" /\ hold[c] \in Answers /\ hold[c].by \in Editors
      /\ ~FrameOf(c) /\ ~RemoteReport(c)
      /\ Status(c) \notin {"none", "open", "held", "expired", "approved", "denied"}
  BY <1>u DEF ApprovalInv, Waiting, OneAnswer, NoneYet, NoLongerRemote, Attributed, Answers
<1>1. /\ \A b \in Cards : b # c => prompt'[b] = prompt[b] /\ decider'[b] = decider[b]
      /\ prompt'[c] = IF allow THEN "allowed" ELSE "denied"
      /\ decider'[c] = hold[c].by
  BY <1>0 DEF Release, Tell, TypeOK
<1>2. /\ \A b \in Cards : b # c => hold'[b] = hold[b] /\ (b \in pending' <=> b \in pending)
      /\ c \notin pending' /\ hold'[c] = NoAnswer
  BY DEF Release, Forget, TypeOK
<1>3. /\ inflight' \subseteq inflight \cup {c} /\ (c \in inflight' => allow)
  BY <1>0 DEF Release, ApprovalInv, Waiting
<1>4. /\ reports' = reports \cup {Remotely(c, Outcome(allow))}
  BY DEF Release, Report, Remotely
<1>o. /\ Outcome(allow) \in {"approved", "denied"} /\ (Outcome(allow) = "approved" <=> allow)
  BY DEF Outcome
<1>r. Status(c) = "answered" => hold[c].by = rec[c].by
  BY <1>u DEF ApprovalInv, Recorded
<1>. HIDE DEF allow
<1>5. /\ \A b \in Cards : \A s : b # c => (Remotely(b, s) \in reports' => Remotely(b, s) \in reports)
      /\ \A b \in Cards : \A s : Locally(b, s) \in reports' => Locally(b, s) \in reports
      /\ \A s : Remotely(c, s) \in reports' => s = Outcome(allow)
      /\ \A m \in reports' : m \in reports \/ m.card = c
  <2>1. \A t : Remotely(c, t) \in reports => t \notin Settled \cup {"held", "invalid"}
    BY <1>0 DEF RemoteReport
  <2>2. \A t : Remotely(c, t) \in reports => t \in Settled \cup {"held", "invalid"}
    BY DEF TypeOK, Reports, Remotely
  <2>. QED BY <1>4, <2>1, <2>2 DEF Remotely, Locally
<1>6. \A b \in Cards : /\ Status(b)' = Status(b) /\ (FrameOf(b)' <=> FrameOf(b))
                       /\ (b # c => (RemoteReport(b)' => RemoteReport(b)))
  BY <1>u, <1>5 DEF Status, FrameOf, RemoteReport
<1>a. Fresh'
  BY <1>u, <1>0, <1>1, <1>5, <1>6 DEF ApprovalInv, Fresh, Status
<1>b. Waiting'
  BY <1>u, <1>0, <1>1, <1>2, <1>3 DEF ApprovalInv, Waiting
<1>c. LocalTruth'
  <2>1. /\ Locally(c, "approved") \notin reports' /\ Locally(c, "denied") \notin reports'
        /\ Locally(c, "expired") \notin reports'
    BY <1>0, <1>5 DEF ApprovalInv, LocalTruth
  <2>. QED BY <1>1, <1>2, <1>5, <2>1 DEF ApprovalInv, LocalTruth
<1>d. OneAnswer'
  <2>1. ASSUME NEW b \in Cards
        PROVE  /\ FrameOf(b)' => hold'[b] = NoAnswer /\ decider'[b] \notin Editors /\ ~RemoteReport(b)'
               /\ hold'[b] # NoAnswer => ~RemoteReport(b)'
    BY <1>0, <1>1, <1>2, <1>6 DEF ApprovalInv, OneAnswer
  <2>2. ASSUME NEW b \in Cards
        PROVE  /\ Remotely(b, "invalid") \in reports' \/ Remotely(b, "held") \in reports'
                    => decider'[b] \notin Editors
               /\ ~(Remotely(b, "invalid") \in reports' /\ Remotely(b, "held") \in reports')
               /\ Remotely(b, "approved") \in reports' => prompt'[b] = "allowed" /\ decider'[b] \in Editors
               /\ Remotely(b, "denied") \in reports' => prompt'[b] = "denied" /\ decider'[b] \in Editors
               /\ Remotely(b, "expired") \notin reports' /\ Remotely(b, "unknown") \notin reports'
    <3>1. CASE b = c
      BY <1>0, <1>1, <1>5, <1>o, <3>1
    <3>2. CASE b # c
      BY <1>1, <1>5, <3>2 DEF ApprovalInv, OneAnswer
    <3>. QED BY <3>1, <3>2
  <2>. QED BY <1>u, <2>1, <2>2 DEF ApprovalInv, OneAnswer
<1>e. NoneYet'
  BY <1>0, <1>1, <1>2, <1>6 DEF ApprovalInv, NoneYet
<1>f. Recorded'
  BY <1>u, <1>r, <1>1, <1>2, <1>6 DEF ApprovalInv, Recorded
<1>g. NoLongerRemote'
  BY <1>0, <1>1, <1>2, <1>6 DEF ApprovalInv, NoLongerRemote
<1>h. Attributed'
  BY <1>u, <1>0, <1>1, <1>6 DEF ApprovalInv, Attributed
<1>i. ClaimedOnce'
  <2>1. \A b \in Cards : prompt'[b] \in {"asking", "allowed"} => prompt[b] \in {"asking", "allowed"}
    BY <1>0, <1>1
  <2>. QED BY <1>u, <2>1 DEF ApprovalInv, ClaimedOnce
<1>. QED BY <1>a, <1>b, <1>c, <1>d, <1>e, <1>f, <1>g, <1>h, <1>i DEF ApprovalInv

\* Giving up on prompts: what is left unanswered is denied here, and reported as
\* expired only where the host still knew it.
GivesUp ==
  /\ UNCHANGED <<ids, publishing, decider, call, claimed>>
  /\ frames' \subseteq frames
  /\ \A b \in Cards :
       /\ Quiet(b)
       /\ prompt'[b] = prompt[b] \/ (prompt[b] = "asking" /\ prompt'[b] = "denied" /\ b \notin pending')
       /\ hold'[b] = NoAnswer \/ (hold'[b] = hold[b] /\ b \in pending')
       /\ b \in pending' => b \in pending
       /\ b \in inflight' => b \in inflight
  /\ \A m \in reports' : \/ m \in reports
                         \/ \E b \in pending : b \notin pending' /\ m = Locally(b, "expired")
                         \/ \E b \in inflight : m = Locally(b, "unknown")

\* Giving up keeps everything.
LEMMA GiveUpStep ==
  ASSUME TypeOK, ApprovalInv, GivesUp
  PROVE  ApprovalInv'
<1>u. /\ UNCHANGED <<ids, publishing, decider, call, claimed>>
      /\ \A b \in Cards :
           /\ Quiet(b)
           /\ prompt'[b] = prompt[b] \/ (prompt[b] = "asking" /\ prompt'[b] = "denied" /\ b \notin pending')
           /\ hold'[b] = NoAnswer \/ (hold'[b] = hold[b] /\ b \in pending')
           /\ b \in pending' => b \in pending
           /\ b \in inflight' => b \in inflight
  BY DEF GivesUp
<1>1. /\ \A b \in Cards : \A s : Remotely(b, s) \in reports' => Remotely(b, s) \in reports
      /\ \A b \in Cards : \A s : Locally(b, s) \in reports' =>
           \/ Locally(b, s) \in reports
           \/ s = "expired" /\ b \in pending /\ b \notin pending'
           \/ s = "unknown"
      /\ \A m \in reports' : m \in reports \/ m.card \in pending \cup inflight
  BY DEF GivesUp, Locally, Remotely
<1>2. \A b \in Cards : (FrameOf(b)' => FrameOf(b)) /\ (RemoteReport(b)' => RemoteReport(b))
  BY <1>1 DEF GivesUp, FrameOf, RemoteReport
<1>3. Nobody \notin Editors
  BY ApprovalAssumption DEF ApprovalAssumption
<1>a. Fresh'
  <2>1. \A b \in Cards : Status(b)' = "none" <=> Status(b) = "none"
    BY <1>u DEF Quiet, Status, Live
  <2>2. \A i \in 1..Len(ids) : ids[i] \in Cards
    BY DEF TypeOK
  <2>3. (\A i \in 1..Len(ids) : Status(ids[i]) # "none")'
    BY <1>u, <2>1, <2>2 DEF ApprovalInv, Fresh, Status
  <2>4. \A b \in Cards : prompt'[b] = "none" => prompt[b] = "none" /\ b \notin pending \cup inflight
    BY <1>u DEF ApprovalInv, Waiting
  <2>. QED BY <1>u, <1>1, <2>1, <2>3, <2>4 DEF ApprovalInv, Fresh
<1>b. Waiting'
  BY <1>u DEF ApprovalInv, Waiting
<1>c. LocalTruth'
  <2>1. \A b \in Cards : b \in pending => decider[b] \notin Editors
    BY <1>3 DEF ApprovalInv, Waiting
  <2>. QED BY <1>u, <1>1, <2>1 DEF ApprovalInv, LocalTruth
<1>d. OneAnswer'
  <2>1. \A g, h \in frames' : g.card = h.card => g = h
    BY DEF GivesUp, ApprovalInv, OneAnswer
  <2>. QED BY <1>u, <1>1, <1>2, <2>1 DEF ApprovalInv, OneAnswer
<1>e. NoneYet'
  BY <1>u, <1>2 DEF ApprovalInv, NoneYet, Quiet, Status
<1>f. Recorded'
  <2>1. \A b \in Cards : Status(b)' = "answered" => rec'[b] = rec[b]
    BY <1>u DEF Quiet, Status
  <2>2. \A g \in frames' : g \in frames
    BY DEF GivesUp
  <2>. QED BY <1>u, <2>1, <2>2 DEF ApprovalInv, Recorded, Status
<1>g. NoLongerRemote'
  <2>1. \A b \in Cards : Status(b)' \in {"held", "expired"} =>
          Status(b) \in {"held", "expired", "open"}
    BY <1>u DEF Quiet, Status
  <2>2. \A b \in Cards : Status(b) \in {"held", "expired", "open"} =>
          decider[b] \notin Editors /\ hold[b] = NoAnswer /\ (b \in pending => ~FrameOf(b))
    BY DEF ApprovalInv, NoLongerRemote, NoneYet
  <2>. QED BY <1>u, <1>2, <2>1, <2>2 DEF NoLongerRemote
<1>h. Attributed'
  <2>1. \A b \in Cards : Status(b)' \in {"approved", "denied"} => rec'[b] = rec[b]
    BY <1>u DEF Quiet, Status
  <2>. QED BY <1>u, <2>1 DEF ApprovalInv, Attributed, Status
<1>i. ClaimedOnce'
  <2>1. \A b \in Cards : prompt'[b] \in {"asking", "allowed"} => prompt[b] \in {"asking", "allowed"}
    BY <1>u
  <2>. QED BY <1>u, <2>1 DEF ApprovalInv, ClaimedOnce
<1>. QED BY <1>a, <1>b, <1>c, <1>d, <1>e, <1>f, <1>g, <1>h, <1>i DEF ApprovalInv

\* A prompt that runs out of time gives up.
LEMMA TimeoutStep ==
  ASSUME TypeOK, ApprovalInv, NEW c \in Cards, TimesOut(c)
  PROVE  ApprovalInv'
<1>1. UNCHANGED <<ids, publishing, decider, call, claimed, rec, frames, inflight>> /\ prompt[c] = "asking"
  BY DEF TimesOut, hubVars
<1>2. \A b \in Cards :
        /\ prompt'[b] = prompt[b] \/ (prompt[b] = "asking" /\ prompt'[b] = "denied" /\ b \notin pending')
        /\ hold'[b] = NoAnswer \/ (hold'[b] = hold[b] /\ b \in pending')
        /\ b \in pending' => b \in pending
  <2>1. prompt' = [prompt EXCEPT ![c] = "denied"] /\ pending' = pending \ {c}
        /\ \A b \in Cards : hold'[b] = IF b = c THEN NoAnswer ELSE hold[b]
    BY DEF TimesOut, Forget
  <2>2. \A b \in Cards : prompt'[b] = IF b = c THEN "denied" ELSE prompt[b]
    BY <2>1 DEF TypeOK
  <2>3. \A b \in Cards : hold[b] # NoAnswer => b \in pending
    BY DEF ApprovalInv, Waiting
  <2>. QED BY <1>1, <2>1, <2>2, <2>3
<1>3. \A m \in reports' : \/ m \in reports
                          \/ \E b \in pending : b \notin pending' /\ m = Locally(b, "expired")
  BY DEF TimesOut, Forget, Report, Locally
<1>. QED BY <1>1, <1>2, <1>3, GiveUpStep DEF GivesUp, Quiet

\* So does an interruption, on every prompt the host knows.
LEMMA InterruptStep ==
  ASSUME TypeOK, ApprovalInv, Interrupt
  PROVE  ApprovalInv'
<1>1. UNCHANGED <<ids, publishing, decider, call, claimed, rec, prompt>> /\ frames' = {} /\ inflight' = {}
      /\ pending' = {}
  BY DEF Interrupt, hubVars, Forget
<1>2. \A b \in Cards : hold'[b] = NoAnswer
  BY DEF Interrupt, Forget, ApprovalInv, Waiting
<1>3. \A m \in reports' : \/ m \in reports
                          \/ \E b \in pending : m = Locally(b, "expired")
                          \/ \E b \in inflight : m = Locally(b, "unknown")
  BY DEF Interrupt, Report, Locally
<1>4. \A b \in Cards : Quiet(b) /\ prompt'[b] = prompt[b]
  BY <1>1 DEF Quiet
<1>5. GivesUp
  BY <1>1, <1>2, <1>3, <1>4 DEF GivesUp
<1>. QED BY <1>5, GiveUpStep

\* So does a crash, on every prompt, and it reports nothing.
LEMMA CrashStep ==
  ASSUME TypeOK, ApprovalInv, Crash
  PROVE  ApprovalInv'
<1>1. UNCHANGED <<ids, publishing, decider, call, claimed, reports>> /\ inflight' = {} /\ pending' = {}
  BY DEF Crash, Forget
<1>2. \A b \in Cards : /\ hold'[b] = NoAnswer
                       /\ prompt'[b] = prompt[b] \/ (prompt[b] = "asking" /\ prompt'[b] = "denied")
  <2>1. prompt' = [b \in Cards |-> IF prompt[b] = "asking" THEN "denied" ELSE prompt[b]]
        /\ \A b \in Cards : hold'[b] = IF b \in pending THEN NoAnswer ELSE hold[b]
    BY DEF Crash, Forget
  <2>2. \A b \in Cards : hold[b] # NoAnswer => b \in pending
    BY DEF ApprovalInv, Waiting
  <2>. QED BY <2>1, <2>2
<1>3. frames' \subseteq frames /\ \A b \in Cards : Quiet(b)
  <2>1. CASE UNCHANGED <<channels, rec, frames>>
    BY <2>1 DEF Quiet
  <2>2. CASE ChannelCloses(App)
    BY <2>2, CloseQuiet
  <2>. QED BY <2>1, <2>2 DEF Crash, AppGone
<1>4. GivesUp
  BY <1>1, <1>2, <1>3 DEF GivesUp
<1>. QED BY <1>4, GiveUpStep

\* Every step keeps the invariant.
LEMMA ApprovalStep == TypeOK /\ ApprovalInv /\ [Next]_vars => ApprovalInv'
<1> SUFFICES ASSUME TypeOK, ApprovalInv, [Next]_vars PROVE ApprovalInv'
  OBVIOUS
<1>1. CASE HubStep
  BY <1>1, HubQuiet, OpenStep, AnswerStep, ReportStep DEF HubStep
<1>2. CASE AppStep
  BY <1>2, AskStep, ClickStep, RemoteStep, ReleaseStep, TimeoutStep, InterruptStep, CrashStep DEF AppStep
<1>3. CASE UNCHANGED vars
  <2>1. UNCHANGED <<rec, appVars, ids, publishing, reports, frames>>
    BY <1>3 DEF vars, hubVars, netVars
  <2>. QED BY <2>1, QuietStep DEF Quiet
<1>. QED BY <1>1, <1>2, <1>3 DEF Next

\* The types, the attempts left and the invariant, always.
LEMMA Invariant == Spec => [](TypeOK /\ AttemptsLeft /\ ApprovalInv)
<1>1. Init => AttemptsLeft
  BY AttemptsInit
<1>2. TypeOK /\ AttemptsLeft /\ [Next]_vars => AttemptsLeft'
  BY RecordStep
<1>. QED BY <1>1, <1>2, TypeInit, TypeStep, ApprovalInit, ApprovalStep, PTL DEF Spec

\* What the team is told happened did happen, and is credited to the person whose
\* answer did it; no card says expired when an Editor's answer let the tool run.
THEOREM Attribution == Spec => []ToldTruly
<1>1. ApprovalInv => ToldTruly
  BY DEF ApprovalInv, NoLongerRemote, ExpiredNotRemote, ToldTruly
<1>. QED BY <1>1, Invariant, PTL

\* A tool call is allowed once, however often it is asked and the app restarts.
THEOREM OnceOnly == Spec => []OncePerCall
<1>1. ApprovalInv => OncePerCall
  BY DEF ApprovalInv, ClaimedOnce, OncePerCall
<1>. QED BY <1>1, Invariant, PTL

-----------------------------------------------------------------------------
(* What a step may do to a card. *)

\* A step is quiet for a card, or it forgets, opens, answers or reports it.
CardMove(c) ==
  \/ Quiet(c)
  \/ Status(c) = "none" /\ Status(c)' \in {"open", "forgotten"}
  \/ /\ Status(c) = "open" /\ Status(c)' = "answered" /\ rec'[c].by \in Editors
     /\ ~FrameOf(c) /\ hold[c] = NoAnswer /\ decider[c] \notin Editors
  \/ \E s \in Settled \cup {"held", "invalid"}, via \in {"local", "remote"} :
       /\ [card |-> c, status |-> s, via |-> via] \in reports
       /\ ReportMove(rec[c], s, via, rec'[c])

\* It always is one of these.
LEMMA MoveStep ==
  ASSUME TypeOK, ApprovalInv, [Next]_vars, NEW c \in Cards
  PROVE  CardMove(c)
<1>1. CASE UNCHANGED rec
  BY <1>1 DEF CardMove, Quiet
<1>2. CASE rec' = AfterSweep
  <2>1. Quiet(c)
    BY <1>2, SweepQuiet DEF Quiet, Status
  <2>. QED BY <2>1 DEF CardMove
<1>3. ASSUME NEW d, ChannelCloses(d) PROVE CardMove(c)
  BY <1>3, CloseQuiet DEF CardMove
<1>4. ASSUME NEW b \in Cards, Open(b) PROVE CardMove(c)
  <2>1. CASE UNCHANGED rec \/ rec' = AfterSweep
    BY <1>1, <1>2, <2>1
  <2>2. CASE ~(UNCHANGED rec \/ rec' = AfterSweep)
    <3> DEFINE all == Append(ids, b)
               gone == Len(all) > Keep
    <3>1. rec' = [d \in Cards |->
               IF gone /\ d = Head(all) THEN [NewCard EXCEPT !.status = "forgotten"]
               ELSE IF d = b THEN [NewCard EXCEPT !.status = "open"] ELSE Swept(d)]
      BY <1>4, <2>2 DEF Open
    <3>2. /\ [NewCard EXCEPT !.status = "forgotten"].status = "forgotten"
          /\ [NewCard EXCEPT !.status = "open"].status = "open"
      BY DEF NewCard
    <3>. HIDE DEF all, gone
    <3>3. CASE gone /\ c = Head(all)
      <4>1. Status(c)' = "forgotten"
        BY <3>1, <3>2, <3>3 DEF Status
      <4>. QED BY <4>1 DEF CardMove, Quiet
    <3>4. CASE ~(gone /\ c = Head(all)) /\ c = b
      <4>1. Status(c)' = "open"
        BY <3>1, <3>2, <3>4 DEF Status
      <4>2. Status(c) = "none"
        BY <1>4, <3>4 DEF Open, ApprovalInv, Fresh
      <4>. QED BY <4>1, <4>2 DEF CardMove
    <3>5. CASE ~(gone /\ c = Head(all)) /\ c # b
      <4>1. rec'[c] = AfterSweep[c]
        BY <3>1, <3>5 DEF AfterSweep
      <4>2. Quiet(c)
        BY <4>1, SweepQuiet DEF Quiet, Status
      <4>. QED BY <4>2 DEF CardMove
    <3>. QED BY <3>3, <3>4, <3>5
  <2>. QED BY <2>1, <2>2
<1>5. ASSUME NEW b \in Cards, NEW e \in Editors, NEW d \in Decisions, NEW good \in BOOLEAN,
             Answer(b, e, d, good)
      PROVE  CardMove(c)
  <2>1. /\ AfterSweep[b].status = "open"
        /\ rec' = [AfterSweep EXCEPT ![b].status = "answered", ![b].decision = d, ![b].by = e]
    BY <1>5 DEF Answer, AfterSweep
  <2>2. CASE b # c
    <3>1. rec'[c] = AfterSweep[c]
      BY <2>1, <2>2, SweepType
    <3>2. Quiet(c)
      BY <3>1, SweepQuiet DEF Quiet, Status
    <3>. QED BY <3>2 DEF CardMove
  <2>3. CASE b = c
    <3>1. Status(c) = "open"
      <4>1. AfterSweep[c] = rec[c] \/ AfterSweep[c].status \in {"unknown", "expired"}
        BY SweepQuiet
      <4>. QED BY <2>1, <2>3, <4>1 DEF Status
    <3>2. Status(c)' = "answered" /\ rec'[c].by = e
      <4>1. AfterSweep[c] \in Records
        BY SweepType
      <4>2. rec'[c] = [AfterSweep[c] EXCEPT !.status = "answered", !.decision = d, !.by = e]
        BY <2>1, <2>3, SweepType
      <4>. QED BY <4>1, <4>2 DEF Records, Status
    <3>3. ~FrameOf(c) /\ hold[c] = NoAnswer /\ decider[c] \notin Editors
      BY <3>1 DEF ApprovalInv, NoneYet
    <3>. QED BY <3>1, <3>2, <3>3 DEF CardMove
  <2>. QED BY <2>2, <2>3
<1>6. ASSUME NEW m \in reports, ReportArrives(m) PROVE CardMove(c)
  <2>1. /\ m.card \in Cards /\ m.status \in Settled \cup {"held", "invalid"}
        /\ m.via \in {"local", "remote"}
        /\ m = [card |-> m.card, status |-> m.status, via |-> m.via]
    BY DEF TypeOK, Reports
  <2>2. rec' = [rec EXCEPT ![m.card] = Reported(rec[m.card], m.status, m.via)]
    BY <1>6 DEF ReportArrives
  <2>3. rec \in [Cards -> Records]
    BY DEF TypeOK
  <2>4. CASE c # m.card
    <3>1. Quiet(c)
      BY <2>2, <2>3, <2>4 DEF Quiet
    <3>. QED BY <3>1 DEF CardMove
  <2>5. CASE c = m.card
    <3>1. ReportMove(rec[c], m.status, m.via, rec'[c])
      BY <2>1, <2>2, <2>3, <2>5, ReportedCases
    <3>2. [card |-> c, status |-> m.status, via |-> m.via] \in reports
      BY <2>1, <2>5
    <3>. QED BY <2>1, <3>1, <3>2 DEF CardMove
  <2>. QED BY <2>4, <2>5
<1>7. CASE HubStep
  <2>1. CASE Sweep \/ \E d \in Desktops : Connect(d)
    BY <1>2, <2>1 DEF Sweep, Connect
  <2>2. CASE \E d \in Desktops : Disconnect(d)
    BY <1>3, <2>2 DEF Disconnect
  <2>3. CASE \/ Lose \/ \E b \in Cards : PassesExpiry(b)
             \/ \E p \in {"off", "ask", "on"} : SetPolicy(p)
    BY <1>1, <2>3 DEF Lose, PassesExpiry, SetPolicy, hubVars
  <2>. QED BY <1>7, <1>4, <1>5, <1>6, <2>1, <2>2, <2>3 DEF HubStep
<1>8. CASE AppStep
  <2>1. CASE Crash
    BY <1>1, <1>3, <2>1 DEF Crash, AppGone
  <2>2. CASE Interrupt
    BY <1>1, <2>2 DEF Interrupt, hubVars
  <2>3. ASSUME NEW b \in Cards, (\E k \in Calls : Ask(b, k)) \/ Release(b) \/ TimesOut(b)
                                \/ \E allow \in BOOLEAN : ClickHere(b, allow)
        PROVE  UNCHANGED rec
    BY <2>3 DEF Ask, Release, TimesOut, ClickHere, hubVars
  <2>4. ASSUME NEW f \in frames, Remote(f) PROVE UNCHANGED rec
    BY <2>4 DEF Remote, hubVars
  <2>. QED BY <1>1, <1>8, <2>1, <2>2, <2>3, <2>4 DEF AppStep
<1>. QED BY <1>1, <1>7, <1>8 DEF Next, vars, hubVars

\* An outcome shown to the team stays: only an approval can still turn unknown.
THEOREM OutcomeIsFinal == Spec => OutcomeStays
<1>1. ASSUME TypeOK, ApprovalInv, [Next]_vars, NEW c \in Cards, Status(c) \in Settled
      PROVE  \/ Status(c)' \in {Status(c), "forgotten"}
             \/ Status(c) = "approved" /\ Status(c)' = "unknown"
  <2>1. CardMove(c)
    BY <1>1, MoveStep
  <2>2. rec[c] \in Records
    BY <1>1 DEF TypeOK
  <2>3. ASSUME NEW s, NEW via, ReportMove(rec[c], s, via, rec'[c])
        PROVE  \/ rec'[c] = rec[c]
               \/ Status(c) = "approved" /\ Status(c)' = "unknown"
    <3>1. rec[c].status \notin Live /\ Status(c) = rec[c].status /\ "answered" \in Live
      BY <1>1 DEF Status, Settled, Live
    <3>2. [rec[c] EXCEPT !.status = "unknown"].status = "unknown"
      BY <2>2 DEF Records
    <3>. QED BY <2>3, <3>1, <3>2 DEF ReportMove, Status
  <2>. QED BY <1>1, <2>1, <2>3 DEF CardMove, Quiet, Status, Settled, Live
<1>2. TypeOK /\ ApprovalInv /\ [Next]_vars =>
        [\A c \in Cards : Status(c) \in Settled =>
           \/ Status(c)' \in {Status(c), "forgotten"}
           \/ Status(c) = "approved" /\ Status(c)' = "unknown"]_vars
  BY <1>1
<1>. QED BY <1>2, Invariant, PTL DEF Spec, OutcomeStays

\* Once an Editor's matching answer is on its way to the prompt, or applied, the
\* hub accepts nobody else's: it answers only an open card, and an open card has
\* no answer anywhere.
THEOREM FirstWins == Spec => FirstValidWins
<1>1. ASSUME TypeOK, ApprovalInv, [Next]_vars, NEW c \in Cards, NEW e \in Editors,
             \/ \E f \in frames : f.card = c /\ f.answer.good /\ f.answer.by # e
             \/ hold[c] # NoAnswer /\ hold[c].by # e
             \/ decider[c] \in Editors \ {e}
      PROVE  ~(rec'[c].status = "answered" /\ rec'[c].by = e /\ rec'[c] # rec[c])
  <2>1. CardMove(c)
    BY <1>1, MoveStep
  <2>2. rec[c] \in Records
    BY <1>1 DEF TypeOK
  <2>3. FrameOf(c) \/ hold[c] # NoAnswer \/ decider[c] \in Editors
    BY <1>1 DEF FrameOf
  <2>4. ASSUME NEW s \in Settled \cup {"held", "invalid"}, NEW via, ReportMove(rec[c], s, via, rec'[c])
        PROVE  rec'[c] = rec[c] \/ rec'[c].status # "answered"
    <3> DEFINE r == rec[c]
               q == rec'[c]
    <3>1. r \in Records /\ ReportMove(r, s, via, q)
      BY <2>2, <2>4
    <3>. HIDE DEF r, q
    <3>2. ASSUME NEW t \in {"unknown", "expired", "held"}, q = [r EXCEPT !.status = t]
          PROVE  q.status # "answered"
      BY <3>1, <3>2 DEF Records
    <3>3. ASSUME q = [r EXCEPT !.status = "expired", !.attempts = r.attempts + 1]
          PROVE  q.status # "answered"
      BY <3>1, <3>3 DEF Records
    <3>4. ASSUME q = [status |-> "open", decision |-> "", by |-> Nobody, attempts |-> r.attempts + 1]
          PROVE  q.status # "answered"
      BY <3>4
    <3>5. ASSUME s \in {"approved", "denied"}, q = [r EXCEPT !.status = s]
          PROVE  q.status # "answered"
      BY <3>1, <3>5 DEF Records
    <3>6. ASSUME s \in {"approved", "denied"}, NEW d \in Decisions,
                 q = [r EXCEPT !.status = s, !.decision = d, !.by = Owner]
          PROVE  q.status # "answered"
      BY <3>1, <3>6 DEF Records
    <3>7. q = r \/ q.status # "answered"
      BY <3>1, <3>2, <3>3, <3>4, <3>5, <3>6 DEF ReportMove
    <3>. QED BY <3>7 DEF r, q
  <2>. QED BY <2>1, <2>3, <2>4 DEF CardMove, Quiet, Status
<1>2. TypeOK /\ ApprovalInv /\ [Next]_vars =>
        [\A c \in Cards, e \in Editors :
           /\ \/ \E f \in frames : f.card = c /\ f.answer.good /\ f.answer.by # e
              \/ hold[c] # NoAnswer /\ hold[c].by # e
              \/ decider[c] \in Editors \ {e}
           => ~(rec'[c].status = "answered" /\ rec'[c].by = e /\ rec'[c] # rec[c])]_vars
  BY <1>1
<1>. QED BY <1>2, Invariant, PTL DEF Spec, FirstValidWins

-----------------------------------------------------------------------------
(* The abstract specification. *)

\* What a step may do to the board's card c, beside what it does to the prompt.
BoardMove(c) ==
  \/ rec'[c] = rec[c]
  \/ Status(c) = "none" /\ Status(c)' = "open"
  \/ /\ decider'[c] \notin Editors
     /\ \/ Status(c) = "open" /\ Status(c)' = "answered" /\ rec'[c].by \in Editors
        \/ Status(c) = "answered" /\ Status(c)' \in {"open", "held"}
        \/ Status(c) \in Live /\ Status(c)' = "expired"
  \/ /\ Status(c) \in Live /\ rec'[c].by = decider'[c]
     /\ \/ Status(c)' = "approved" /\ prompt'[c] = "allowed"
        \/ Status(c)' = "denied" /\ prompt'[c] = "denied"
  \/ Status(c) \in Live \cup {"approved"} /\ Status(c)' = "unknown"
  \/ Status(c)' = "forgotten"

\* Each of them is a move Permit allows.
LEMMA BoardView ==
  ASSUME NEW c \in Cards, BoardMove(c)
  PROVE  Promise!Board(c)
BY DEF BoardMove, Status, Live, Promise!Board, Promise!Moves, Promise!Settles, Promise!Live

\* The board and the prompt move together only when the app dies, which gives up
\* prompts and leaves at most `unknown' behind.
LEMMA BoardOrMachine ==
  ASSUME TypeOK, [Next]_vars
  PROVE  \/ rec' = rec
         \/ prompt' = prompt /\ decider' = decider
         \/ decider' = decider /\ \A c \in Cards : Quiet(c)
<1>1. HubStep => prompt' = prompt /\ decider' = decider
  BY DEF HubStep, Sweep, Lose, PassesExpiry, Open, Answer, ReportArrives, Connect, Disconnect,
         SetPolicy, appVars
<1>2. Interrupt => rec' = rec
  BY DEF Interrupt, hubVars
<1>3. ASSUME NEW b \in Cards, (\E k \in Calls : Ask(b, k)) \/ Release(b) \/ TimesOut(b)
                              \/ \E allow \in BOOLEAN : ClickHere(b, allow)
      PROVE  rec' = rec
  BY <1>3 DEF Ask, Release, TimesOut, ClickHere, hubVars
<1>4. ASSUME NEW f \in frames, Remote(f) PROVE rec' = rec
  BY <1>4 DEF Remote, hubVars
<1>5. Crash => decider' = decider /\ (rec' = rec \/ \A c \in Cards : Quiet(c))
  BY CloseQuiet DEF Crash, AppGone
<1>6. AppStep => rec' = rec \/ (decider' = decider /\ \A c \in Cards : Quiet(c))
  BY <1>2, <1>3, <1>4, <1>5 DEF AppStep
<1>7. UNCHANGED vars => rec' = rec
  BY DEF vars, hubVars
<1>. QED BY <1>1, <1>6, <1>7 DEF Next

\* A report moves its card as Permit allows: what it says is so, and the answer it is
\* about is the one on record.
LEMMA ReportAllowed ==
  ASSUME TypeOK, ApprovalInv, NEW c \in Cards, prompt' = prompt, decider' = decider,
         NEW s \in Settled \cup {"held", "invalid"}, NEW via \in {"local", "remote"},
         [card |-> c, status |-> s, via |-> via] \in reports,
         ReportMove(rec[c], s, via, rec'[c])
  PROVE  BoardMove(c)
<1>1. via = "local" => Locally(c, s) \in reports
  BY DEF Locally
<1>2. via = "remote" => Remotely(c, s) \in reports
  BY DEF Remotely
<1>3. s \in {"invalid", "held", "expired"} => decider'[c] \notin Editors
  BY <1>1, <1>2 DEF ApprovalInv, LocalTruth, OneAnswer
<1>4. s = "approved" => prompt'[c] = "allowed" /\ (via = "local" => decider'[c] = Owner)
  BY <1>1, <1>2 DEF ApprovalInv, LocalTruth, OneAnswer
<1>5. s = "denied" => prompt'[c] = "denied" /\ (via = "local" => decider'[c] = Owner)
  BY <1>1, <1>2 DEF ApprovalInv, LocalTruth, OneAnswer
<1>6. s \in {"approved", "denied"} /\ via = "remote" /\ Status(c) = "answered" => decider'[c] = rec[c].by
  BY <1>2 DEF ApprovalInv, OneAnswer, Recorded
<1> DEFINE r == rec[c]
           q == rec'[c]
<1>7. /\ r \in Records /\ Status(c) = r.status /\ Status(c)' = q.status /\ rec[c] = r /\ rec'[c] = q
      /\ ReportMove(r, s, via, q)
  BY DEF TypeOK, Status
<1>. HIDE DEF r, q
<1>a. CASE s = "unknown" /\ r.status \in Live \cup {"approved"} /\ q = [r EXCEPT !.status = "unknown"]
  <2>1. q.status = "unknown"
    BY <1>7, <1>a DEF Records
  <2>. QED BY <1>7, <1>a, <2>1 DEF BoardMove
<1>b. CASE s = "expired" /\ r.status \in Live /\ q = [r EXCEPT !.status = "expired"]
  <2>1. q.status = "expired"
    BY <1>7, <1>b DEF Records
  <2>. QED BY <1>3, <1>7, <1>b, <2>1 DEF BoardMove
<1>c. CASE /\ s = "invalid" /\ r.status = "answered"
           /\ \/ q = [r EXCEPT !.status = "expired", !.attempts = r.attempts + 1]
              \/ q = [status |-> "open", decision |-> "", by |-> Nobody, attempts |-> r.attempts + 1]
  <2>1. CASE q = [r EXCEPT !.status = "expired", !.attempts = r.attempts + 1]
    <3>1. q.status = "expired"
      BY <1>7, <2>1 DEF Records
    <3>. QED BY <1>3, <1>7, <1>c, <3>1 DEF BoardMove, Live
  <2>2. CASE q = [status |-> "open", decision |-> "", by |-> Nobody, attempts |-> r.attempts + 1]
    <3>1. q.status = "open"
      BY <2>2
    <3>. QED BY <1>3, <1>7, <1>c, <3>1 DEF BoardMove
  <2>. QED BY <1>c, <2>1, <2>2
<1>d. CASE s = "held" /\ r.status = "answered" /\ q = [r EXCEPT !.status = "held"]
  <2>1. q.status = "held"
    BY <1>7, <1>d DEF Records
  <2>. QED BY <1>3, <1>7, <1>d, <2>1 DEF BoardMove
<1>e. CASE /\ s \in {"approved", "denied"} /\ via = "local" /\ r.status \in Live
           /\ \E d \in Decisions : q = [r EXCEPT !.status = s, !.decision = d, !.by = Owner]
  <2>1. q.status = s /\ q.by = Owner
    BY <1>7, <1>e DEF Records
  <2>. QED BY <1>4, <1>5, <1>7, <1>e, <2>1 DEF BoardMove
<1>f. CASE /\ s \in {"approved", "denied"} /\ via = "remote" /\ r.status = "answered"
           /\ q = [r EXCEPT !.status = s]
  <2>1. q.status = s /\ q.by = r.by
    BY <1>7, <1>f DEF Records
  <2>. QED BY <1>4, <1>5, <1>6, <1>7, <1>f, <2>1 DEF BoardMove, Live
<1>g. CASE q = r
  BY <1>7, <1>g DEF BoardMove
<1>. QED BY <1>7, <1>a, <1>b, <1>c, <1>d, <1>e, <1>f, <1>g DEF ReportMove

\* Every step moves every card on the board as Permit allows.
LEMMA BoardStep ==
  ASSUME TypeOK, ApprovalInv, [Next]_vars, NEW c \in Cards
  PROVE  Promise!Board(c)
<1>1. CASE rec' = rec
  BY <1>1, BoardView DEF BoardMove
<1>2. CASE decider' = decider /\ Quiet(c)
  <2>1. Status(c) \in {"open", "held"} => decider'[c] \notin Editors /\ Status(c) \in Live
    BY <1>2 DEF ApprovalInv, NoneYet, NoLongerRemote, Live
  <2>2. BoardMove(c)
    BY <1>2, <2>1 DEF Quiet, BoardMove
  <2>. QED BY <2>2, BoardView
<1>3. CASE prompt' = prompt /\ decider' = decider /\ ~Quiet(c)
  <2>1. CardMove(c)
    BY MoveStep
  <2>2. CASE Status(c) = "none" /\ Status(c)' \in {"open", "forgotten"}
    BY <2>2, BoardView DEF BoardMove
  <2>3. CASE /\ Status(c) = "open" /\ Status(c)' = "answered" /\ rec'[c].by \in Editors
             /\ decider[c] \notin Editors
    <3>1. BoardMove(c)
      BY <1>3, <2>3 DEF BoardMove
    <3>. QED BY <3>1, BoardView
  <2>4. ASSUME NEW s \in Settled \cup {"held", "invalid"}, NEW via \in {"local", "remote"},
               [card |-> c, status |-> s, via |-> via] \in reports,
               ReportMove(rec[c], s, via, rec'[c])
        PROVE  Promise!Board(c)
    BY <1>3, <2>4, ReportAllowed, BoardView
  <2>. QED BY <1>3, <2>1, <2>2, <2>3, <2>4 DEF CardMove
<1>. QED BY <1>1, <1>2, <1>3, BoardOrMachine

\* Every step does to every prompt what Permit allows.
LEMMA MachineStep ==
  ASSUME TypeOK, ApprovalInv, [Next]_vars, NEW c \in Cards
  PROVE  Promise!Machine(c)
<1>u. ASSUME prompt'[c] = prompt[c], decider'[c] = decider[c], call'[c] = call[c]
      PROVE  Promise!Machine(c)
  BY <1>u DEF Promise!Machine
<1>n. Nobody \notin Editors /\ Owner \notin Editors
  BY ApprovalAssumption DEF ApprovalAssumption
<1>g. ASSUME prompt[c] = "asking", prompt'[c] = "denied", decider' = decider, call' = call
      PROVE  Promise!Machine(c)
  <2>1. decider'[c] = Nobody
    BY <1>g DEF ApprovalInv, Waiting
  <2>. QED BY <1>g, <2>1 DEF Promise!Machine, Promise!Decided
<1>1. HubStep => UNCHANGED <<prompt, decider, call>>
  BY DEF HubStep, Sweep, Lose, PassesExpiry, Open, Answer, ReportArrives, Connect, Disconnect,
         SetPolicy, appVars
<1>2. ASSUME NEW b \in Cards, NEW k \in Calls, Ask(b, k) PROVE Promise!Machine(c)
  <2>1. CASE b # c
    BY <1>2, <1>u, <2>1 DEF Ask, TypeOK
  <2>2. CASE b = c
    <3>1. ClaimedOnce'
      BY <1>2, AskStep DEF ApprovalInv
    <3>2. /\ prompt[c] = "none" /\ decider'[c] = decider[c] /\ call'[c] = {k}
          /\ prompt'[c] \in {"asking", "denied"}
      BY <1>2, <2>2 DEF Ask, TypeOK
    <3>3. prompt'[c] = "asking" =>
            \A d \in Cards \ {c} : call'[d] = call'[c] => prompt'[d] \notin {"asking", "allowed"}
      BY <3>1 DEF ClaimedOnce
    <3>4. Promise!Asks(c)
      BY <3>2, <3>3 DEF Promise!Asks
    <3>. QED BY <3>4 DEF Promise!Machine
  <2>. QED BY <2>1, <2>2
<1>3. ASSUME NEW b \in Cards, NEW allow \in BOOLEAN, ClickHere(b, allow) PROVE Promise!Machine(c)
  <2>1. CASE b # c
    BY <1>3, <1>u, <2>1 DEF ClickHere, Tell, TypeOK
  <2>2. CASE b = c
    <3>1. /\ prompt[c] = "asking" /\ decider'[c] = Owner /\ call'[c] = call[c]
          /\ prompt'[c] \in {"allowed", "denied"}
      BY <1>3, <2>2 DEF ClickHere, Tell, TypeOK
    <3>2. Promise!Decided(c)
      BY <3>1 DEF Promise!Decided
    <3>. QED BY <3>2 DEF Promise!Machine
  <2>. QED BY <2>1, <2>2
<1>4. ASSUME NEW b \in Cards, Release(b) PROVE Promise!Machine(c)
  <2>1. /\ b \in pending /\ prompt[b] = "asking" /\ hold[b].by \in Editors
        /\ Status(b) \notin {"none", "open", "held", "expired", "approved", "denied"}
    BY <1>4 DEF Release, ApprovalInv, Waiting, NoneYet, NoLongerRemote, Attributed, Answers
  <2>2. CASE b # c
    BY <1>4, <1>u, <2>1, <2>2 DEF Release, Tell, TypeOK
  <2>3. CASE b = c
    <3>1. /\ prompt[c] = "asking" /\ decider'[c] = hold[c].by /\ call'[c] = call[c]
          /\ prompt'[c] = IF hold[c].decision = "allow" THEN "allowed" ELSE "denied"
      BY <1>4, <2>1, <2>3 DEF Release, Tell, TypeOK
    <3>2. Status(c) = rec[c].status /\ Status(c) \in {"answered", "unknown", "forgotten"}
      BY <2>1, <2>3 DEF TypeOK, Records, Statuses, Live, Settled, Status
    <3>3. Status(c) = "answered" => rec[c].by = hold[c].by /\ rec[c].decision = hold[c].decision
      BY <1>4, <2>3 DEF Release, ApprovalInv, Recorded
    <3>4. Promise!DecidedFor(c, hold[c].by)
      BY <3>1, <3>2, <3>3 DEF Promise!DecidedFor
    <3>. QED BY <2>1, <2>3, <3>4 DEF Promise!Machine
  <2>. QED BY <2>2, <2>3
<1>5. ASSUME NEW b \in Cards, TimesOut(b) PROVE Promise!Machine(c)
  <2>1. CASE b # c
    BY <1>5, <1>u, <2>1 DEF TimesOut, TypeOK
  <2>2. CASE b = c
    BY <1>5, <1>g, <2>2 DEF TimesOut, TypeOK
  <2>. QED BY <2>1, <2>2
<1>6. CASE Crash
  <2>1. /\ decider' = decider /\ call' = call
        /\ prompt'[c] = IF prompt[c] = "asking" THEN "denied" ELSE prompt[c]
    BY <1>6 DEF Crash
  <2>. QED BY <1>u, <1>g, <2>1
<1>7. ASSUME NEW f \in frames, Remote(f) PROVE Promise!Machine(c)
  BY <1>7, <1>u DEF Remote
<1>8. Interrupt => Promise!Machine(c)
  BY <1>u DEF Interrupt
<1>9. AppStep => Promise!Machine(c)
  BY <1>2, <1>3, <1>4, <1>5, <1>6, <1>7, <1>8 DEF AppStep
<1>10. UNCHANGED vars => UNCHANGED <<prompt, decider, call>>
  BY DEF vars, appVars
<1>. QED BY <1>u, <1>1, <1>9, <1>10 DEF Next

\* Nothing is asked and nothing is on the board at first.
LEMMA PermitInit == Init => Promise!Init
<1> SUFFICES ASSUME Init PROVE Promise!Init
  OBVIOUS
<1>1. \A c \in Cards : rec[c].status = "none" /\ rec[c].by = Nobody /\ rec[c].decision = ""
  BY DEF Init, NewCard
<1>2. /\ prompt = [c \in Cards |-> "none"] /\ decider = [c \in Cards |-> Nobody]
      /\ call = [c \in Cards |-> {}]
  BY DEF Init
<1>. QED BY <1>1, <1>2 DEF Promise!Init

\* The hub, the app and the channels between them keep the promise of Permit, whatever is
\* lost, late, duplicated or reordered, and however often the app dies.
THEOREM Refinement == Spec => ImplementsPermit
<1>1. TypeOK /\ ApprovalInv /\ [Next]_vars => Promise!Next
  BY BoardStep, MachineStep DEF Promise!Next
<1>2. TypeOK /\ ApprovalInv /\ [Next]_vars => [Promise!Next]_(Promise!vars)
  BY <1>1
<1>. QED BY <1>2, PermitInit, Invariant, PTL DEF Spec, ImplementsPermit, Promise!Spec

\* What Permit itself promises, with the prompts still to be answered: an outcome on the
\* board is true, and no other prompt was answered for the same tool call.
PermitInv ==
  /\ Promise!Truthful
  /\ \A b, c \in Cards : /\ prompt[b] \in {"asking", "allowed"} /\ prompt[c] \in {"asking", "allowed"}
                         /\ call[b] = call[c]
                         => b = c

\* One step of Permit, at one prompt: an answer given stays, and an expired card gets
\* no Editor's answer.
LEMMA PromptOnce ==
  ASSUME NEW c \in Cards, Promise!Machine(c)
  PROVE  /\ prompt[c] \in {"allowed", "denied"} => prompt'[c] = prompt[c] /\ decider'[c] = decider[c]
         /\ prompt'[c] \in {"asking", "allowed"} =>
              \/ prompt[c] \in {"asking", "allowed"} /\ call'[c] = call[c]
              \/ \A b \in Cards \ {c} : call'[b] = call'[c] => prompt'[b] \notin {"asking", "allowed"}
              \/ prompt'[c] = prompt[c] /\ call'[c] = call[c]
         /\ Status(c) = "expired" /\ decider[c] \notin Editors => decider'[c] \notin Editors
<1>n. Nobody \notin Editors /\ Owner \notin Editors
  BY ApprovalAssumption DEF ApprovalAssumption
<1>1. CASE prompt'[c] = prompt[c] /\ decider'[c] = decider[c] /\ call'[c] = call[c]
  BY <1>1
<1>2. CASE Promise!Asks(c)
  BY <1>2 DEF Promise!Asks
<1>3. CASE Promise!Decided(c)
  BY <1>3, <1>n DEF Promise!Decided
<1>4. ASSUME NEW e \in Editors, Promise!DecidedFor(c, e)
      PROVE  prompt[c] = "asking" /\ call'[c] = call[c] /\ Status(c) # "expired"
  BY <1>4 DEF Promise!DecidedFor, Status
<1>. QED BY <1>1, <1>2, <1>3, <1>4 DEF Promise!Machine

\* One step of Permit, at one card: a new outcome is what the prompt came to.
LEMMA CardOnce ==
  ASSUME NEW c \in Cards, Promise!Board(c)
  PROVE  \/ Status(c)' = Status(c) /\ rec'[c].by = rec[c].by
         \/ Status(c)' = "approved" /\ prompt'[c] = "allowed" /\ rec'[c].by = decider'[c]
         \/ Status(c)' = "denied" /\ prompt'[c] = "denied" /\ rec'[c].by = decider'[c]
         \/ Status(c)' = "expired" /\ decider'[c] \notin Editors
         \/ Status(c)' \notin {"approved", "denied", "expired"}
<1>1. CASE [status |-> rec'[c].status, by |-> rec'[c].by, decision |-> rec'[c].decision]
           = [status |-> rec[c].status, by |-> rec[c].by, decision |-> rec[c].decision]
  BY <1>1 DEF Status
<1>2. CASE Promise!Moves(c)
  BY <1>2 DEF Promise!Moves, Status
<1>3. CASE Promise!Settles(c)
  BY <1>3 DEF Promise!Settles, Status
<1>. QED BY <1>1, <1>2, <1>3 DEF Promise!Board, Status

\* The abstract specification is worth implementing: whatever keeps the promise of
\* Permit shows only outcomes that happened, credited to who made them happen, and
\* allows a tool call once.
THEOREM PermitIsTruthful == Promise!Spec => []Promise!Truthful
<1>n. Nobody \notin Editors
  BY ApprovalAssumption DEF ApprovalAssumption
<1>1. Promise!Init => PermitInv
  <2> SUFFICES ASSUME Promise!Init PROVE PermitInv
    OBVIOUS
  <2>1. \A c \in Cards : prompt[c] = "none" /\ decider[c] = Nobody
    BY DEF Promise!Init
  <2>2. \A c \in Cards : [status |-> rec[c].status, by |-> rec[c].by, decision |-> rec[c].decision]
                         = [status |-> "none", by |-> Nobody, decision |-> ""]
    BY DEF Promise!Init
  <2>3. \A c \in Cards : rec[c].status = "none"
    BY <2>2
  <2>. QED BY <1>n, <2>1, <2>3 DEF PermitInv, Promise!Truthful
<1>2. ASSUME PermitInv, Promise!Next PROVE PermitInv'
  <2>1. \A b, c \in Cards : /\ prompt'[b] \in {"asking", "allowed"} /\ prompt'[c] \in {"asking", "allowed"}
                            /\ call'[b] = call'[c]
                            => b = c
    <3> SUFFICES ASSUME NEW b \in Cards, NEW c \in Cards, b # c,
                        prompt'[b] \in {"asking", "allowed"}, prompt'[c] \in {"asking", "allowed"},
                        call'[b] = call'[c]
                 PROVE  FALSE
      OBVIOUS
    <3>1. prompt[b] \in {"asking", "allowed"} /\ call'[b] = call[b]
      BY <1>2, PromptOnce DEF Promise!Next
    <3>2. prompt[c] \in {"asking", "allowed"} /\ call'[c] = call[c]
      BY <1>2, PromptOnce DEF Promise!Next
    <3>. QED BY <1>2, <3>1, <3>2 DEF PermitInv
  <2>2. ASSUME NEW c \in Cards
        PROVE  /\ Status(c)' = "approved" => prompt'[c] = "allowed" /\ decider'[c] = rec'[c].by
               /\ Status(c)' = "denied" => prompt'[c] = "denied" /\ decider'[c] = rec'[c].by
               /\ Status(c)' = "expired" => decider'[c] \notin Editors
    <3>1. /\ Status(c) = "approved" => prompt[c] = "allowed" /\ decider[c] = rec[c].by
          /\ Status(c) = "denied" => prompt[c] = "denied" /\ decider[c] = rec[c].by
          /\ Status(c) = "expired" => decider[c] \notin Editors
      BY <1>2 DEF PermitInv, Promise!Truthful, Status
    <3>2. /\ prompt[c] \in {"allowed", "denied"} => prompt'[c] = prompt[c] /\ decider'[c] = decider[c]
          /\ Status(c) = "expired" /\ decider[c] \notin Editors => decider'[c] \notin Editors
      BY <1>2, PromptOnce DEF Promise!Next
    <3>3. \/ Status(c)' = Status(c) /\ rec'[c].by = rec[c].by
          \/ Status(c)' = "approved" /\ prompt'[c] = "allowed" /\ rec'[c].by = decider'[c]
          \/ Status(c)' = "denied" /\ prompt'[c] = "denied" /\ rec'[c].by = decider'[c]
          \/ Status(c)' = "expired" /\ decider'[c] \notin Editors
          \/ Status(c)' \notin {"approved", "denied", "expired"}
      BY <1>2, CardOnce DEF Promise!Next
    <3>. QED BY <3>1, <3>2, <3>3
  <2>. QED BY <2>1, <2>2 DEF PermitInv, Promise!Truthful, Status
<1>3. ASSUME PermitInv, UNCHANGED Promise!vars PROVE PermitInv'
  <2>1. /\ prompt' = prompt /\ decider' = decider /\ call' = call
        /\ \A c \in Cards : [status |-> rec'[c].status, by |-> rec'[c].by, decision |-> rec'[c].decision]
                            = [status |-> rec[c].status, by |-> rec[c].by, decision |-> rec[c].decision]
    <3>1. /\ prompt' = prompt /\ decider' = decider /\ call' = call
          /\ [c \in Cards |-> [status |-> rec'[c].status, by |-> rec'[c].by, decision |-> rec'[c].decision]]
             = [c \in Cards |-> [status |-> rec[c].status, by |-> rec[c].by, decision |-> rec[c].decision]]
      BY <1>3 DEF Promise!vars
    <3>. QED BY <3>1, Zenon
  <2>2. \A c \in Cards : rec'[c].status = rec[c].status /\ rec'[c].by = rec[c].by
    BY <2>1
  <2>. QED BY <1>3, <2>1, <2>2 DEF PermitInv, Promise!Truthful
<1>4. PermitInv => Promise!Truthful
  BY DEF PermitInv
<1>. QED BY <1>1, <1>2, <1>3, <1>4, PTL DEF Promise!Spec
=============================================================================
