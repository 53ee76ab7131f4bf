--------------------------- MODULE TakeoverProofs ---------------------------
(***************************************************************************)
(* Proofs about Takeover for every set of requests, desks and people.      *)
(* What does not depend on the clock or on the hub's memory limits is      *)
(* proved for any Faults; the one-winner results assume "slow" and "evict" *)
(* away (Prompt), calls and apps may still be lost.                        *)
(***************************************************************************)
EXTENDS Takeover, SequenceTheorems, TLAPS

Prompt == "slow" \notin Faults /\ "evict" \notin Faults

Boxes(S) == [Desks -> [Reqs -> S]]
Locks == [id : Reqs, taken : BOOLEAN] \cup {NoLock}
FinalIsStarted == lock.taken => status[lock.id] = "started"

\* A step of one handler, or a frame pushed to several desks, keeps a box of
\* handler states a box of handler states.
LEMMA BoxType ==
  ASSUME NEW S, NEW box \in Boxes(S), NEW r \in Reqs, NEW s \in S
  PROVE  /\ \A D : Push(box, D, r, s) \in Boxes(S)
         /\ \A d \in Desks : [box EXCEPT ![d][r] = s] \in Boxes(S)
  BY DEF Push, Boxes

\* The variables have their types before anything is sent.
LEMMA TypeInit == Init => TypeOK
  BY TakeoverAssumption DEF TakeoverAssumption, Init, TypeOK, Statuses, InboxSteps, HandSteps, NoLock

\* Every handler, report, crash and tick keeps them: an age stops at its limit.
LEMMA TypeStep == TypeOK /\ [Next]_vars => TypeOK'
<1> SUFFICES ASSUME TypeOK, [Next]_vars PROVE TypeOK'
  OBVIOUS
<1>a. /\ inbox \in Boxes(InboxSteps) /\ hand \in Boxes(HandSteps)
      /\ status \in [Reqs -> Statuses]
      /\ lock \in Locks /\ FinalIsStarted
      /\ NoLock \in Locks /\ ~NoLock.taken
  BY DEF TypeOK, Boxes, Locks, FinalIsStarted, NoLock
<1>k. lock.taken => lock.id \in Reqs
  <2>1. CASE lock = NoLock
    BY <1>a, <2>1
  <2>2. CASE lock \in [id : Reqs, taken : BOOLEAN]
    BY <2>2
  <2>. QED BY <1>a, <2>1, <2>2 DEF Locks
<1>f. ASSUME NEW r \in Reqs, NEW s, status[r] # "started", status' = [status EXCEPT ![r] = s],
             lock' \in {lock, NoLock}
      PROVE  FinalIsStarted'
  BY <1>a, <1>k, <1>f DEF FinalIsStarted
<1>b. ASSUME NEW r \in Reqs, NEW s \in Statuses, HubOwnerReport(r, s) \/ UNCHANGED status
      PROVE  status' \in [Reqs -> Statuses]
  BY <1>a, <1>b DEF HubOwnerReport
<1>c. ASSUME NEW d \in Desks, NEW r \in Reqs, NEW s \in InboxSteps, Goto(d, r, s)
      PROVE  inbox' \in Boxes(InboxSteps)
  BY <1>a, <1>c, BoxType DEF Goto
<1>d. ASSUME NEW d \in Desks, NEW r \in Reqs, NEW s \in HandSteps, HandTo(d, r, s)
      PROVE  hand' \in Boxes(HandSteps)
  BY <1>a, <1>d, BoxType DEF HandTo
<1>1. ASSUME NEW r \in Reqs, Request(r) PROVE TypeOK'
  <2>1. \E s \in Statuses : Remember(r, s)
    BY <1>1 DEF Request, Turned, Statuses
  <2>2. status' \in [Reqs -> Statuses] /\ byId' \in Seq(Reqs)
    BY <2>1 DEF Remember, TypeOK
  <2>3. inbox' = inbox \/ inbox' = Push(inbox, ChannelsOf(Owner), r, "frame")
    BY <1>1 DEF Request, Turned
  <2>4. inbox' \in Boxes(InboxSteps)
    <3>1. "frame" \in InboxSteps
      BY DEF InboxSteps
    <3>2. Push(inbox, ChannelsOf(Owner), r, "frame") \in Boxes(InboxSteps)
      BY <1>a, <3>1, BoxType
    <3>. QED BY <1>a, <2>3, <3>2
  <2>5. lock' \in Locks
    <3>1. lock' = lock \/ lock' = [id |-> r, taken |-> FALSE]
      BY <1>1 DEF Request, Turned
    <3>2. [id |-> r, taken |-> FALSE] \in Locks
      BY DEF Locks
    <3>3. CASE lock' = lock
      BY <1>a, <3>3
    <3>. QED BY <3>1, <3>2, <3>3
  <2>f. FinalIsStarted'
    <3>1. lock' = lock \/ lock' = [id |-> r, taken |-> FALSE]
      BY <1>1 DEF Request, Turned
    <3>2. status[r] = "none"
      BY <1>1 DEF Request
    <3>. QED BY <1>a, <2>1, <3>1, <3>2 DEF Remember, FinalIsStarted
  <2>6. age' \in [Reqs -> 0..PendingMs]
    <3>1. age' \in {age, [age EXCEPT ![r] = 0]}
      BY <1>1 DEF Request, Turned
    <3>2. 0 \in 0..PendingMs
      BY TakeoverAssumption DEF TakeoverAssumption
    <3>. QED BY <3>1, <3>2 DEF TypeOK
  <2>7. approval' \in [Reqs -> BOOLEAN]
    BY <1>1 DEF Request, Turned, TypeOK
  <2>8. reply' \subseteq Reqs
    BY <1>1 DEF Request, TypeOK
  <2>9. UNCHANGED <<policy, online, hand, asked, turns, consented, stopped>>
    BY <1>1 DEF Request, ownerVars
  <2>. QED BY <1>a, <2>2, <2>4, <2>5, <2>f, <2>6, <2>7, <2>8, <2>9
       DEF TypeOK, Boxes, Locks, FinalIsStarted
<1>2. ASSUME NEW r \in Reqs, ReplyArrives(r) \/ ReplyLost(r) PROVE TypeOK'
  BY <1>2 DEF ReplyArrives, ReplyLost, TypeOK, hubVars, deskVars, ownerVars
<1>3. ASSUME NEW d \in Desks, NEW r \in Reqs, OwnerStep(d, r) PROVE TypeOK'
  <2>1. \E s \in InboxSteps : Goto(d, r, s)
    BY <1>3 DEF OwnerStep, CannotOpen, ReportDelivered, Approve, DeclineHere, SendBaton, Halt,
                ReportDeclined, InboxSteps
  <2>2. inbox' \in Boxes(InboxSteps)
    BY <1>c, <2>1
  <2>3. /\ status' \in [Reqs -> Statuses]
        /\ lock' \in Locks /\ FinalIsStarted'
        /\ hand' \in Boxes(HandSteps)
    <3>1. CASE SendBaton(d, r)
      <4>1. CASE HubBaton(r)
        <5>1. hand' = hand \/ hand' = Push(hand, ChannelsOf(Taker(r)), r, "frame")
          BY <4>1 DEF HubBaton
        <5>2. hand' \in Boxes(HandSteps)
          <6>1. "frame" \in HandSteps
            BY DEF HandSteps
          <6>2. Push(hand, ChannelsOf(Taker(r)), r, "frame") \in Boxes(HandSteps)
            BY <1>a, <6>1, BoxType
          <6>. QED BY <1>a, <5>1, <6>2
        <5>3. /\ status' \in {status, [status EXCEPT ![r] = "offline"],
                              [status EXCEPT ![r] = "accepted"]}
              /\ lock' \in {lock, NoLock}
          BY <4>1 DEF HubBaton
        <5>4. "offline" \in Statuses /\ "accepted" \in Statuses
          BY DEF Statuses
        <5>5. FinalIsStarted'
          <6>1. CASE BatonDue(r)
            BY <1>f, <4>1, <5>3, <6>1 DEF HubBaton, BatonDue
          <6>2. CASE ~BatonDue(r)
            BY <1>a, <4>1, <6>2 DEF HubBaton, FinalIsStarted
          <6>. QED BY <6>1, <6>2
        <5>. QED BY <1>a, <5>2, <5>3, <5>4, <5>5
      <4>2. CASE UNCHANGED <<status, lock, hand>>
        BY <1>a, <4>2 DEF FinalIsStarted
      <4>. QED BY <3>1, <4>1, <4>2 DEF SendBaton
    <3>2. CASE ReportDelivered(d, r) \/ ReportDeclined(d, r)
      <4>1. \E s \in Statuses : HubOwnerReport(r, s) \/ UNCHANGED status
        BY <3>2 DEF ReportDelivered, ReportDeclined, Statuses
      <4>2. UNCHANGED lock /\ FinalIsStarted'
        <5>1. UNCHANGED lock
          BY <3>2 DEF ReportDelivered, ReportDeclined
        <5>2. CASE UNCHANGED status
          BY <1>a, <5>1, <5>2 DEF FinalIsStarted
        <5>3. CASE ~UNCHANGED status
          <6>1. status[r] \in {"queued", "delivered"} /\ \E s : status' = [status EXCEPT ![r] = s]
            BY <3>2, <5>3 DEF ReportDelivered, ReportDeclined, HubOwnerReport
          <6>. QED BY <1>f, <5>1, <6>1
        <5>. QED BY <5>1, <5>2, <5>3
      <4>. QED BY <1>a, <1>b, <3>2, <4>1, <4>2 DEF ReportDelivered, ReportDeclined
    <3>3. CASE CannotOpen(d, r) \/ Approve(d, r) \/ DeclineHere(d, r) \/ Halt(d, r)
      BY <1>a, <3>3 DEF CannotOpen, Approve, DeclineHere, Halt, hubVars, FinalIsStarted
    <3>. QED BY <1>3, <3>1, <3>2, <3>3 DEF OwnerStep
  <2>4. UNCHANGED <<policy, byId, age, approval, online, takerVars>>
    BY <1>3 DEF OwnerStep, CannotOpen, ReportDelivered, Approve, DeclineHere, SendBaton, Halt,
                ReportDeclined, hubVars
  <2>5. consented' \in {consented, consented \cup {r}} /\ stopped' \in {stopped, stopped \cup {r}}
    BY <1>3 DEF OwnerStep, CannotOpen, ReportDelivered, Approve, DeclineHere, SendBaton, Halt,
                ReportDeclined, ownerVars
  <2>. QED BY <2>2, <2>3, <2>4, <2>5 DEF TypeOK, Boxes, takerVars, Locks, FinalIsStarted
<1>4. ASSUME NEW d \in Desks, NEW r \in Reqs, TakerStep(d, r) PROVE TypeOK'
  <2>1. \E s \in HandSteps : HandTo(d, r, s)
    BY <1>4 DEF TakerStep, OpenBaton, StartTurn, ReportTurn, HandSteps
  <2>2. hand' \in Boxes(HandSteps)
    BY <1>d, <2>1
  <2>3. /\ status' \in [Reqs -> Statuses]
        /\ lock' \in Locks /\ FinalIsStarted'
    <3>1. \/ UNCHANGED <<status, lock>>
          \/ \E s \in {"started", "start-failed"} : HubTakerReport(r, s)
      BY <1>4 DEF TakerStep, OpenBaton, StartTurn, ReportTurn, hubVars
    <3>2. CASE UNCHANGED <<status, lock>>
      BY <1>a, <3>2 DEF FinalIsStarted
    <3>3. ASSUME NEW s \in {"started", "start-failed"}, HubTakerReport(r, s),
                 ~UNCHANGED <<status, lock>>
          PROVE  /\ status' \in [Reqs -> Statuses]
                 /\ lock' \in Locks /\ FinalIsStarted'
      <4>1. /\ status[r] = "accepted" /\ status' = [status EXCEPT ![r] = s]
            /\ lock' = IF lock.id # r THEN lock
                       ELSE IF s = "started" THEN [lock EXCEPT !.taken = TRUE] ELSE NoLock
        BY <3>3 DEF HubTakerReport
      <4>2. s \in Statuses
        BY DEF Statuses
      <4>3. CASE lock.id # r
        BY <1>a, <4>1, <4>2, <4>3 DEF FinalIsStarted
      <4>4. CASE lock.id = r /\ s = "started"
        <5>1. lock \in [id : Reqs, taken : BOOLEAN]
          BY <1>a, <4>4, TakeoverAssumption DEF Locks, NoLock, TakeoverAssumption
        <5>2. lock' = [id |-> r, taken |-> TRUE]
          BY <4>1, <4>4, <5>1
        <5>3. lock' \in Locks
          BY <5>2 DEF Locks
        <5>. QED BY <1>a, <4>1, <4>2, <4>4, <5>2, <5>3 DEF FinalIsStarted
      <4>5. CASE lock.id = r /\ s # "started"
        BY <1>a, <4>1, <4>2, <4>5 DEF FinalIsStarted
      <4>. QED BY <4>3, <4>4, <4>5
    <3>. QED BY <3>1, <3>2, <3>3
  <2>4. /\ UNCHANGED <<policy, byId, age, approval, online, inbox, reply, ownerVars>>
        /\ asked' \in {asked, asked \ {r}} /\ turns' \in {turns, turns \cup {r}}
    BY <1>4 DEF TakerStep, OpenBaton, StartTurn, ReportTurn, hubVars, takerVars
  <2>. QED BY <2>2, <2>3, <2>4 DEF TypeOK, Boxes, ownerVars, Locks, FinalIsStarted
<1>5. ASSUME NEW d \in Desks, Connect(d) \/ Disconnect(d) \/ Crash(d) PROVE TypeOK'
  <2>1. inbox' \in {inbox, DropFrames(inbox, d), Stopped(inbox, d)}
    BY <1>5 DEF Connect, Disconnect, Crash
  <2>2. hand' \in {hand, DropFrames(hand, d), Stopped(hand, d)}
    BY <1>5 DEF Connect, Disconnect, Crash
  <2>3. ASSUME NEW S, NEW box \in Boxes(S), "done" \in S
        PROVE  DropFrames(box, d) \in Boxes(S) /\ Stopped(box, d) \in Boxes(S)
    BY <2>3 DEF DropFrames, Stopped, Boxes
  <2>4. "done" \in InboxSteps /\ "done" \in HandSteps
    BY DEF InboxSteps, HandSteps
  <2>5. inbox' \in Boxes(InboxSteps) /\ hand' \in Boxes(HandSteps)
    BY <1>a, <2>1, <2>2, <2>3, <2>4
  <2>. QED
    BY <1>5, <2>5 DEF Connect, Disconnect, Crash, TypeOK, Boxes, hubVars, takerVars, ownerVars
<1>6. ASSUME NEW p \in {"off", "ask", "on"}, SetPolicy(p) PROVE TypeOK'
  BY <1>6 DEF SetPolicy, TypeOK, hubVars, deskVars, takerVars, ownerVars
<1>7. CASE Tick
  <2>1. age' \in [Reqs -> 0..PendingMs]
    BY <1>7, TakeoverAssumption DEF Tick, TypeOK, TakeoverAssumption
  <2>. QED BY <1>7, <2>1 DEF Tick, TypeOK, deskVars, takerVars, ownerVars
<1>8. CASE Evict
  <2>1. byId' \in Seq(Reqs)
    <3>1. byId' = byId \/ (byId # <<>> /\ byId' = Tail(byId))
      BY <1>8 DEF Evict
    <3>2. byId \in Seq(Reqs)
      BY DEF TypeOK
    <3>3. byId # <<>> => Tail(byId) \in Seq(Reqs)
      BY <3>2, HeadTailProperties, Zenon
    <3>. QED BY <3>1, <3>2, <3>3
  <2>2. lock' \in {lock, NoLock}
    BY <1>8 DEF Evict
  <2>. QED BY <1>8, <1>a, <2>1, <2>2 DEF Evict, TypeOK, Locks, FinalIsStarted, deskVars, takerVars, ownerVars
<1>9. CASE UNCHANGED vars
  BY <1>9 DEF vars, TypeOK, hubVars, deskVars, takerVars, ownerVars
<1>. QED BY <1>1, <1>2, <1>3, <1>4, <1>5, <1>6, <1>7, <1>8, <1>9 DEF Next

\* Type correctness, whatever faults can happen.
THEOREM TypeCorrect == Spec => []TypeOK
  BY TypeInit, TypeStep, PTL DEF Spec

-----------------------------------------------------------------------------
(* Steps read pointwise. *)

\* Goto moves one request of one desk and nothing else.
LEMMA GotoAt ==
  ASSUME TypeOK, NEW d \in Desks, NEW r \in Reqs, NEW s, Goto(d, r, s)
  PROVE  \A e \in Desks, q \in Reqs :
           inbox'[e][q] = IF e = d /\ q = r THEN s ELSE inbox[e][q]
  BY DEF Goto, TypeOK

\* So does HandTo.
LEMMA HandToAt ==
  ASSUME TypeOK, NEW d \in Desks, NEW r \in Reqs, NEW s, HandTo(d, r, s)
  PROVE  \A e \in Desks, q \in Reqs :
           hand'[e][q] = IF e = d /\ q = r THEN s ELSE hand[e][q]
  BY DEF HandTo, TypeOK

\* Push puts a step on the desks given and leaves the others alone.
LEMMA PushAt ==
  ASSUME NEW S, NEW box \in Boxes(S), NEW D, NEW r \in Reqs, NEW s
  PROVE  \A e \in Desks, q \in Reqs :
           Push(box, D, r, s)[e][q] = IF e \in D /\ q = r THEN s ELSE box[e][q]
  BY DEF Push, Boxes

\* What the hub's status of a request may turn into in one step.
Advance(q) ==
  \/ status'[q] = status[q]
  \/ status[q] = "none"
  \/ status[q] \in {"queued", "delivered"} /\ status'[q] # "none"
  \/ status[q] = "accepted" /\ status'[q] \in {"started", "start-failed"}

\* Records only move forward: once relayed, a request stays relayed.
LEMMA StatusAdvances ==
  ASSUME TypeOK, Next PROVE \A q \in Reqs : Advance(q)
<1>1. ASSUME NEW r \in Reqs, Request(r) PROVE \A q \in Reqs : Advance(q)
  <2>1. \E s \in Statuses : Remember(r, s)
    BY <1>1 DEF Request, Turned, Statuses
  <2>. QED BY <1>1, <2>1 DEF Remember, Request, Advance, TypeOK
<1>2. ASSUME NEW r \in Reqs, ReplyArrives(r) \/ ReplyLost(r) PROVE \A q \in Reqs : Advance(q)
  BY <1>2 DEF ReplyArrives, ReplyLost, hubVars, Advance
<1>3. ASSUME NEW d \in Desks, NEW r \in Reqs, OwnerStep(d, r) PROVE \A q \in Reqs : Advance(q)
  <2>1. CASE SendBaton(d, r)
    BY <2>1 DEF SendBaton, HubBaton, BatonDue, Advance, TypeOK
  <2>2. CASE ReportDelivered(d, r) \/ ReportDeclined(d, r)
    BY <2>2 DEF ReportDelivered, ReportDeclined, HubOwnerReport, Advance, TypeOK
  <2>3. CASE CannotOpen(d, r) \/ Approve(d, r) \/ DeclineHere(d, r) \/ Halt(d, r)
    BY <2>3 DEF CannotOpen, Approve, DeclineHere, Halt, hubVars, Advance
  <2>. QED BY <1>3, <2>1, <2>2, <2>3 DEF OwnerStep
<1>4. ASSUME NEW d \in Desks, NEW r \in Reqs, TakerStep(d, r) PROVE \A q \in Reqs : Advance(q)
  BY <1>4 DEF TakerStep, OpenBaton, StartTurn, ReportTurn, HubTakerReport, hubVars, Advance, TypeOK
<1>5. ASSUME NEW d \in Desks, Connect(d) \/ Disconnect(d) \/ Crash(d)
      PROVE  \A q \in Reqs : Advance(q)
  BY <1>5 DEF Connect, Disconnect, Crash, hubVars, Advance
<1>6. ASSUME NEW p \in {"off", "ask", "on"}, SetPolicy(p) PROVE \A q \in Reqs : Advance(q)
  BY <1>6 DEF SetPolicy, hubVars, Advance
<1>7. CASE Tick \/ Evict
  BY <1>7 DEF Tick, Evict, Advance
<1>. QED BY <1>1, <1>2, <1>3, <1>4, <1>5, <1>6, <1>7 DEF Next

-----------------------------------------------------------------------------
(* Consent and relay, for any Faults. *)

\* Nobody has moved at first.
LEMMA ConsentInit == Init => ConsentInv
  BY DEF Init, ConsentInv, Untouched, CardAnswered, RelayRecorded, HandAgreed

\* Every step keeps what is needed for consent and for the relay.
LEMMA ConsentStep == TypeOK /\ ConsentInv /\ [Next]_vars => ConsentInv'
<1> SUFFICES ASSUME TypeOK, ConsentInv, [Next]_vars PROVE ConsentInv'
  OBVIOUS
<1>t. /\ inbox \in Boxes(InboxSteps) /\ hand \in Boxes(HandSteps)
      /\ turns \subseteq Reqs /\ stopped \subseteq Reqs
  BY DEF TypeOK, Boxes
<1>1. ASSUME NEW r \in Reqs, Request(r) PROVE ConsentInv'
  <2>1. \E s \in Statuses \ {"none"} : Remember(r, s)
    BY <1>1 DEF Request, Turned, Statuses
  <2>2. \A q \in Reqs : status'[q] = "none" => q # r /\ status[q] = "none"
    BY <2>1 DEF Remember, TypeOK
  <2>3. \A q \in Reqs : q # r => status'[q] = status[q] /\ approval'[q] = approval[q]
    BY <1>1 DEF Request, Turned, Remember, TypeOK
  <2>4. inbox' = inbox \/ inbox' = Push(inbox, ChannelsOf(Owner), r, "frame")
    BY <1>1 DEF Request, Turned
  <2>5. \A e \in Desks, q \in Reqs :
          inbox'[e][q] = inbox[e][q] \/ (q = r /\ inbox'[e][q] = "frame")
    BY <1>t, <2>4, PushAt
  <2>6. UNCHANGED <<hand, turns, consented, stopped>>
    BY <1>1 DEF Request, ownerVars
  <2>7. status[r] = "none"
    BY <1>1 DEF Request
  <2>8. /\ \A e \in Desks : inbox[e][r] = "idle" /\ hand[e][r] = "idle"
        /\ r \notin turns /\ r \notin stopped
    BY <2>7 DEF ConsentInv, Untouched
  <2>a. Untouched'
    BY <2>2, <2>3, <2>5, <2>6, <2>8 DEF ConsentInv, Untouched, Agreed, Relayed
  <2>b. CardAnswered'
    BY <2>2, <2>3, <2>5, <2>6, <2>8 DEF ConsentInv, CardAnswered, Agreed, Relayed
  <2>c. RelayRecorded'
    BY <1>t, <2>3, <2>5, <2>6, <2>8 DEF ConsentInv, RelayRecorded, Stoppable
  <2>d. HandAgreed'
    BY <1>t, <2>3, <2>6, <2>8 DEF ConsentInv, HandAgreed, Agreed
  <2>. QED BY <2>a, <2>b, <2>c, <2>d DEF ConsentInv
<1>2. ASSUME NEW r \in Reqs, ReplyArrives(r) \/ ReplyLost(r) PROVE ConsentInv'
  BY <1>2 DEF ReplyArrives, ReplyLost, hubVars, deskVars, ownerVars, ConsentInv, Untouched,
              CardAnswered, RelayRecorded, Stoppable, HandAgreed, Agreed
<1>3. ASSUME NEW d \in Desks, NEW r \in Reqs, OwnerStep(d, r) PROVE ConsentInv'
  <2>1. \A q \in Reqs : /\ status[q] \in Relayed => status'[q] \in Relayed
                        /\ status[q] # "none" => status'[q] # "none"
                        /\ Stoppable(q) => Stoppable(q)'
    <3>1. Next
      BY <1>3 DEF Next
    <3>2. \A q \in Reqs : Advance(q)
      BY <3>1, StatusAdvances
    <3>. QED BY <3>2 DEF Advance, Relayed, Stoppable, CallLost
  <2>2. status[r] # "none"
    BY <1>3 DEF OwnerStep, CannotOpen, ReportDelivered, Approve, DeclineHere, SendBaton, Halt,
                ReportDeclined, ConsentInv, Untouched
  <2>3. UNCHANGED <<approval, turns>> /\ consented \subseteq consented'
    BY <1>3 DEF OwnerStep, CannotOpen, ReportDelivered, Approve, DeclineHere, SendBaton, Halt,
                ReportDeclined, hubVars, takerVars, ownerVars
  <2>4. \A q \in Reqs : Agreed(q) => Agreed(q)'
    BY <2>3 DEF Agreed
  <2>5. PICK s \in InboxSteps :
          /\ Goto(d, r, s)
          /\ s = "send" => Agreed(r)'
          /\ s = "halt" => Agreed(r) /\ Stoppable(r)'
    <3>1. CASE ReportDelivered(d, r)
      BY <3>1 DEF ReportDelivered, Agreed, InboxSteps, ownerVars
    <3>2. CASE Approve(d, r)
      BY <3>2 DEF Approve, Agreed, InboxSteps
    <3>3. CASE SendBaton(d, r)
      <4>1. CASE Goto(d, r, "halt")
        <5>1. /\ HubBaton(r) /\ BatonDue(r)
              /\ CallLost \/ ChannelsOf(Taker(r)) # {}
          <6>1. inbox'[d][r] = "halt"
            BY <4>1, GotoAt
          <6>2. ASSUME Goto(d, r, "refuse") PROVE FALSE
            BY <6>1, <6>2, GotoAt
          <6>3. ASSUME Goto(d, r, "done") PROVE FALSE
            BY <6>1, <6>3, GotoAt
          <6>. QED BY <3>3, <6>2, <6>3 DEF SendBaton
        <5>3. \/ status' = [status EXCEPT ![r] = "accepted"]
              \/ CallLost /\ status' = [status EXCEPT ![r] = "offline"]
          BY <5>1 DEF HubBaton
        <5>4. Stoppable(r)'
          BY <5>3 DEF Stoppable, Relayed, TypeOK, CallLost
        <5>2. Agreed(r)
          BY <3>3 DEF SendBaton, ConsentInv, CardAnswered
        <5>. QED BY <4>1, <5>2, <5>4 DEF InboxSteps
      <4>2. CASE ~Goto(d, r, "halt")
        BY <3>3, <4>2 DEF SendBaton, InboxSteps
      <4>. QED BY <4>1, <4>2
    <3>4. CASE CannotOpen(d, r) \/ DeclineHere(d, r) \/ Halt(d, r) \/ ReportDeclined(d, r)
      BY <3>4 DEF CannotOpen, DeclineHere, Halt, ReportDeclined, InboxSteps
    <3>. QED BY <1>3, <3>1, <3>2, <3>3, <3>4 DEF OwnerStep
  <2>6. \A e \in Desks, q \in Reqs :
          inbox'[e][q] = IF e = d /\ q = r THEN s ELSE inbox[e][q]
    BY <2>5, GotoAt
  <2>7. \A e \in Desks, q \in Reqs :
          \/ hand'[e][q] = hand[e][q]
          \/ q = r /\ status'[r] \in Relayed /\ Agreed(r)
    <3>1. CASE SendBaton(d, r)
      <4>1. \/ hand' = hand
            \/ /\ hand' = Push(hand, ChannelsOf(Taker(r)), r, "frame")
               /\ status'[r] \in Relayed
        BY <3>1 DEF SendBaton, HubBaton, Relayed, TypeOK
      <4>2. Agreed(r)
        BY <3>1 DEF SendBaton, ConsentInv, CardAnswered
      <4>. QED BY <1>t, <4>1, <4>2, PushAt
    <3>2. CASE ~SendBaton(d, r)
      BY <1>3, <3>2 DEF OwnerStep, CannotOpen, ReportDelivered, Approve, DeclineHere, Halt,
                        ReportDeclined
    <3>. QED BY <3>1, <3>2
  <2>8. stopped' = stopped \/ (stopped' = stopped \cup {r} /\ inbox[d][r] = "halt")
    BY <1>3 DEF OwnerStep, CannotOpen, ReportDelivered, Approve, DeclineHere, SendBaton, Halt,
                ReportDeclined, ownerVars
  <2>a. Untouched'
    BY <1>t, <2>1, <2>2, <2>3, <2>6, <2>7, <2>8 DEF ConsentInv, Untouched
  <2>b. CardAnswered'
    BY <2>4, <2>5, <2>6 DEF ConsentInv, CardAnswered
  <2>c. RelayRecorded'
    BY <1>t, <2>1, <2>5, <2>6, <2>8 DEF ConsentInv, RelayRecorded
  <2>d. HandAgreed'
    BY <1>t, <2>1, <2>3, <2>4, <2>7 DEF ConsentInv, HandAgreed
  <2>. QED BY <2>a, <2>b, <2>c, <2>d DEF ConsentInv
<1>4. ASSUME NEW d \in Desks, NEW r \in Reqs, TakerStep(d, r) PROVE ConsentInv'
  <2>1. \A q \in Reqs : /\ status[q] \in Relayed => status'[q] \in Relayed
                        /\ status[q] # "none" => status'[q] # "none"
                        /\ Stoppable(q) => Stoppable(q)'
    <3>1. Next
      BY <1>4 DEF Next
    <3>2. \A q \in Reqs : Advance(q)
      BY <3>1, StatusAdvances
    <3>. QED BY <3>2 DEF Advance, Relayed, Stoppable, CallLost
  <2>2. hand[d][r] # "idle"
    BY <1>4 DEF TakerStep, OpenBaton, StartTurn, ReportTurn
  <2>3. UNCHANGED <<approval, inbox, consented, stopped>>
    BY <1>4 DEF TakerStep, OpenBaton, StartTurn, ReportTurn, hubVars, ownerVars
  <2>4. turns' \in {turns, turns \cup {r}}
    BY <1>4 DEF TakerStep, OpenBaton, StartTurn, ReportTurn, takerVars
  <2>5. PICK s : HandTo(d, r, s)
    BY <1>4 DEF TakerStep, OpenBaton, StartTurn, ReportTurn
  <2>6. \A e \in Desks, q \in Reqs : hand'[e][q] = hand[e][q] \/ q = r
    BY <2>5, HandToAt
  <2>7. status[r] \in Relayed /\ status[r] # "none" /\ Agreed(r)
    BY <2>2 DEF ConsentInv, HandAgreed, Relayed
  <2>8. \A q \in Reqs : Agreed(q) => Agreed(q)'
    BY <2>3 DEF Agreed
  <2>a. Untouched'
    BY <1>t, <2>1, <2>3, <2>4, <2>6, <2>7 DEF ConsentInv, Untouched
  <2>b. CardAnswered'
    BY <2>3, <2>8 DEF ConsentInv, CardAnswered
  <2>c. RelayRecorded'
    BY <1>t, <2>1, <2>3 DEF ConsentInv, RelayRecorded
  <2>d. HandAgreed'
    BY <1>t, <2>1, <2>4, <2>6, <2>7, <2>8 DEF ConsentInv, HandAgreed
  <2>. QED BY <2>a, <2>b, <2>c, <2>d DEF ConsentInv
<1>5. ASSUME NEW d \in Desks, Connect(d) \/ Disconnect(d) \/ Crash(d) PROVE ConsentInv'
  <2>1. UNCHANGED <<status, approval, turns, consented, stopped>>
    BY <1>5 DEF Connect, Disconnect, Crash, hubVars, takerVars, ownerVars
  <2>2. \A e \in Desks, q \in Reqs :
          /\ inbox'[e][q] = inbox[e][q] \/ (inbox[e][q] # "idle" /\ inbox'[e][q] = "done")
          /\ hand'[e][q] = hand[e][q] \/ (hand[e][q] # "idle" /\ hand'[e][q] = "done")
    <3>1. /\ inbox' \in {inbox, DropFrames(inbox, d), Stopped(inbox, d)}
          /\ hand' \in {hand, DropFrames(hand, d), Stopped(hand, d)}
      BY <1>5 DEF Connect, Disconnect, Crash
    <3>2. ASSUME NEW S, NEW box \in Boxes(S)
          PROVE  \A e \in Desks, q \in Reqs, b \in {box, DropFrames(box, d), Stopped(box, d)} :
                   b[e][q] = box[e][q] \/ (box[e][q] # "idle" /\ b[e][q] = "done")
      BY DEF DropFrames, Stopped, Resting, Boxes
    <3>. QED BY <1>t, <3>1, <3>2
  <2>. QED BY <2>1, <2>2 DEF ConsentInv, Untouched, CardAnswered, RelayRecorded, Stoppable, HandAgreed, Agreed
<1>6. ASSUME NEW p \in {"off", "ask", "on"}, SetPolicy(p) PROVE ConsentInv'
  BY <1>6 DEF SetPolicy, hubVars, deskVars, takerVars, ownerVars, ConsentInv, Untouched,
              CardAnswered, RelayRecorded, Stoppable, HandAgreed, Agreed
<1>7. CASE Tick \/ Evict
  BY <1>7 DEF Tick, Evict, deskVars, takerVars, ownerVars, ConsentInv, Untouched,
              CardAnswered, RelayRecorded, Stoppable, HandAgreed, Agreed
<1>8. CASE UNCHANGED vars
  BY <1>8 DEF vars, hubVars, deskVars, takerVars, ownerVars, ConsentInv, Untouched,
              CardAnswered, RelayRecorded, Stoppable, HandAgreed, Agreed
<1>. QED BY <1>1, <1>2, <1>3, <1>4, <1>5, <1>6, <1>7, <1>8 DEF Next

\* The owner's turn stops only for a request whose baton the hub took: it relayed it, or,
\* where an answer may arrive in part, found the taker offline.  Whatever faults can happen.
THEOREM RelayFirst == Spec => []HaltOnlyAfterBaton
<1>1. ConsentInv => HaltOnlyAfterBaton
  BY DEF ConsentInv, RelayRecorded, HaltOnlyAfterBaton, Stoppable
<1>. QED BY <1>1, TypeInit, TypeStep, ConsentInit, ConsentStep, PTL DEF Spec

\* A taker's turn runs only on a baton its owner agreed to, whatever faults can
\* happen.
THEOREM ConsentFirst == Spec => []TurnHasConsent
<1>1. ConsentInv => TurnHasConsent
  BY DEF ConsentInv, RelayRecorded, HandAgreed, TurnHasConsent, Relayed, Agreed
<1>. QED BY <1>1, TypeInit, TypeStep, ConsentInit, ConsentStep, PTL DEF Spec

-----------------------------------------------------------------------------
(* One winner, when nothing is slow or forgotten. *)

\* No request holds the session at first.
LEMMA HoldInit == Init => HoldInv
  BY TakeoverAssumption DEF TakeoverAssumption, Init, HoldInv, Remembered, HoldIsKnown,
     StartedHolds, WorkIsPrompt, WorkHolds, Active, Resting, NoLock, Open

\* What a desk's step can do to the hub's record of the request it works on.
HubMove(r) ==
  \/ UNCHANGED <<status, lock>>
  \/ /\ status[r] \in Open /\ lock.id = r /\ ~lock.taken
     /\ \/ \E s \in {"delivered", "accepted", "declined"} :
             status' = [status EXCEPT ![r] = s] /\ UNCHANGED lock
        \/ \E s \in {"offline", "start-failed"} :
             status' = [status EXCEPT ![r] = s] /\ lock' = NoLock
        \/ status' = [status EXCEPT ![r] = "started"] /\ lock' = [lock EXCEPT !.taken = TRUE]

\* The owner's and the taker's desks only move the request they work on, and
\* only while it holds the session.
LEMMA DeskStep ==
  ASSUME TypeOK, HoldInv, NEW d \in Desks, NEW r \in Reqs, OwnerStep(d, r) \/ TakerStep(d, r)
  PROVE  /\ HubMove(r)
         /\ UNCHANGED <<byId, age>>
         /\ \A q \in Reqs : Active(q)' => Active(q)
<1>t. inbox \in Boxes(InboxSteps) /\ hand \in Boxes(HandSteps)
  BY DEF TypeOK, Boxes
<1>1. inbox[d][r] \notin Resting \/ hand[d][r] \notin Resting
  BY DEF OwnerStep, CannotOpen, ReportDelivered, Approve, DeclineHere, SendBaton, Halt,
         ReportDeclined, TakerStep, OpenBaton, StartTurn, ReportTurn, Resting
<1>2. Active(r)
  BY <1>1 DEF Active
<1>3. status[r] \in Open => lock.id = r /\ ~lock.taken
  BY <1>2 DEF HoldInv, WorkHolds
<1>4. \A e \in Desks, q \in Reqs :
        \/ q = r
        \/ inbox'[e][q] = inbox[e][q] /\ hand'[e][q] = hand[e][q]
  <2>1. CASE OwnerStep(d, r)
    <3>1. PICK s : Goto(d, r, s)
      BY <2>1 DEF OwnerStep, CannotOpen, ReportDelivered, Approve, DeclineHere, SendBaton, Halt,
                  ReportDeclined
    <3>2. hand' = hand \/ hand' = Push(hand, ChannelsOf(Taker(r)), r, "frame")
      BY <2>1 DEF OwnerStep, CannotOpen, ReportDelivered, Approve, DeclineHere, SendBaton, Halt,
                  ReportDeclined, HubBaton
    <3>. QED BY <1>t, <3>1, <3>2, GotoAt, PushAt
  <2>2. CASE TakerStep(d, r)
    <3>1. UNCHANGED inbox
      BY <2>2 DEF TakerStep, OpenBaton, StartTurn, ReportTurn
    <3>2. PICK s : HandTo(d, r, s)
      BY <2>2 DEF TakerStep, OpenBaton, StartTurn, ReportTurn
    <3>. QED BY <3>1, <3>2, HandToAt
  <2>. QED BY <2>1, <2>2
<1>5. \A q \in Reqs : Active(q)' => Active(q)
  BY <1>2, <1>4 DEF Active
<1>6. UNCHANGED <<byId, age>>
  BY DEF OwnerStep, CannotOpen, ReportDelivered, Approve, DeclineHere, SendBaton, Halt,
         ReportDeclined, TakerStep, OpenBaton, StartTurn, ReportTurn, hubVars
<1>7. HubMove(r)
  <2>1. CASE SendBaton(d, r)
    <3>1. CASE HubBaton(r)
      BY <1>3, <3>1 DEF HubBaton, BatonDue, HubMove, Open
    <3>2. CASE UNCHANGED <<status, lock, hand>>
      BY <3>2 DEF HubMove
    <3>. QED BY <2>1, <3>1, <3>2 DEF SendBaton
  <2>2. CASE ReportDelivered(d, r) \/ ReportDeclined(d, r)
    BY <1>3, <2>2 DEF ReportDelivered, ReportDeclined, HubOwnerReport, HubMove, Open
  <2>3. CASE CannotOpen(d, r) \/ Approve(d, r) \/ DeclineHere(d, r) \/ Halt(d, r)
    BY <2>3 DEF CannotOpen, Approve, DeclineHere, Halt, hubVars, HubMove
  <2>4. CASE OpenBaton(d, r) \/ StartTurn(d, r)
    BY <2>4 DEF OpenBaton, StartTurn, hubVars, HubMove
  <2>5. CASE ReportTurn(d, r)
    BY <1>3, <2>5 DEF ReportTurn, HubTakerReport, HubMove, Open
  <2>. QED BY <2>1, <2>2, <2>3, <2>4, <2>5 DEF OwnerStep, TakerStep
<1>. QED BY <1>5, <1>6, <1>7

\* A new hold is recorded only when no request holds the session any more:
\* nothing unfinished is still being worked on, and nothing has been started.
LEMMA NobodyElse ==
  ASSUME TypeOK, HoldInv, ~Live
  PROVE  /\ ~lock.taken
         /\ \A q \in Reqs : status[q] # "started" /\ ~(Active(q) /\ status[q] \in Open)
<1>1. ASSUME NEW q \in Reqs, status[q] = "started" PROVE FALSE
  <2>1. lock.id = q /\ lock.taken /\ Known(q) /\ q # NoReq
    BY <1>1, TakeoverAssumption DEF TakeoverAssumption, HoldInv, StartedHolds, Remembered
  <2>. QED BY <2>1 DEF Live
<1>2. ASSUME NEW q \in Reqs, Active(q), status[q] \in Open PROVE FALSE
  <2>1. lock.id = q /\ Known(q) /\ q # NoReq
    BY <1>2, TakeoverAssumption DEF TakeoverAssumption, HoldInv, WorkHolds, Remembered, Open
  <2>2. age[q] <= AskMs /\ age[q] \in 0..PendingMs
    BY <1>2 DEF HoldInv, WorkIsPrompt, TypeOK
  <2>3. age[q] < PendingMs
    BY <2>2, TakeoverAssumption DEF TakeoverAssumption
  <2>. QED BY <1>2, <2>1, <2>3 DEF Live
<1>3. ~lock.taken
  BY <1>1 DEF HoldInv, HoldIsKnown
<1>. QED BY <1>1, <1>2, <1>3

\* What a request's arrival does: turned away at once, or given the session.
LEMMA RequestStep ==
  ASSUME TypeOK, NEW r \in Reqs, Request(r)
  PROVE  /\ status[r] = "none" /\ byId' = Append(byId, r) /\ UNCHANGED hand
         /\ \/ /\ \E s \in {"refused-by-policy", "unknown-agent", "offline", "lost"} :
                    status' = [status EXCEPT ![r] = s]
               /\ UNCHANGED <<age, lock, inbox>>
            \/ /\ ~Live /\ status' = [status EXCEPT ![r] = "queued"]
               /\ lock' = [id |-> r, taken |-> FALSE]
               /\ age' = [age EXCEPT ![r] = 0]
               /\ inbox' = Push(inbox, ChannelsOf(Owner), r, "frame")
  BY DEF Request, Turned, Remember

\* A request that is remembered keeps the others remembered (nothing is evicted).
LEMMA KnownGrows ==
  ASSUME TypeOK, NEW r \in Reqs, byId' = Append(byId, r)
  PROVE  Known(r)' /\ \A q \in Reqs : Known(q) => Known(q)'
<1>1. /\ Len(Append(byId, r)) = Len(byId) + 1
      /\ Append(byId, r)[Len(byId) + 1] = r
      /\ \A i \in 1..Len(byId) : Append(byId, r)[i] = byId[i]
      /\ Len(byId) \in Nat
  BY AppendProperties DEF TypeOK
<1>. QED BY <1>1 DEF Known

\* Where handlers are prompt and nothing is evicted, every step keeps the hold right.
LEMMA HoldStep ==
  ASSUME Prompt, TypeOK, HoldInv, [Next]_vars
  PROVE  HoldInv'
<1>t. inbox \in Boxes(InboxSteps) /\ lock \in [id : Reqs \cup {NoReq}, taken : BOOLEAN]
  <2>1. NoLock \in [id : Reqs \cup {NoReq}, taken : BOOLEAN]
    BY DEF NoLock
  <2>2. [id : Reqs, taken : BOOLEAN] \subseteq [id : Reqs \cup {NoReq}, taken : BOOLEAN]
    OBVIOUS
  <2>. QED BY <2>1, <2>2 DEF TypeOK, Boxes
<1>n. NoReq \notin Reqs
  BY TakeoverAssumption DEF TakeoverAssumption
<1>1. ASSUME NEW r \in Reqs, Request(r) PROVE HoldInv'
  <2>1. Remembered'
    BY <1>1, RequestStep, KnownGrows DEF HoldInv, Remembered, TypeOK
  <2>2. CASE ~(~Live /\ lock' = [id |-> r, taken |-> FALSE])
    <3>1. UNCHANGED <<age, lock, inbox, hand>>
      BY <1>1, <2>2, RequestStep
    <3>2. PICK s \in {"refused-by-policy", "unknown-agent", "offline", "lost"} :
            status' = [status EXCEPT ![r] = s]
      BY <1>1, <2>2, RequestStep
    <3>3. status[r] = "none"
      BY <1>1, RequestStep
    <3>4. \A q \in Reqs : Active(q)' <=> Active(q)
      BY <3>1 DEF Active
    <3>5. HoldIsKnown' /\ StartedHolds'
      BY <3>1, <3>2, <3>3 DEF HoldInv, HoldIsKnown, StartedHolds, TypeOK
    <3>6. WorkIsPrompt' /\ WorkHolds'
      BY <3>1, <3>2, <3>3, <3>4 DEF HoldInv, WorkIsPrompt, WorkHolds, TypeOK, Open
    <3>. QED BY <2>1, <3>5, <3>6 DEF HoldInv
  <2>3. CASE ~Live /\ lock' = [id |-> r, taken |-> FALSE]
    <3>1. ~lock.taken /\ \A q \in Reqs : status[q] # "started" /\ ~(Active(q) /\ status[q] \in Open)
      BY <2>3, NobodyElse
    <3>2. status[r] = "none" /\ UNCHANGED hand
      BY <1>1, RequestStep
    <3>3. PICK s \in {"refused-by-policy", "unknown-agent", "offline", "lost", "queued"} :
            status' = [status EXCEPT ![r] = s]
      BY <1>1, RequestStep
    <3>4. inbox' = inbox \/ inbox' = Push(inbox, ChannelsOf(Owner), r, "frame")
      BY <1>1, RequestStep
    <3>5. \A q \in Reqs : q # r => (Active(q)' => Active(q))
      <4>1. \A e \in Desks, q \in Reqs : q # r => inbox'[e][q] = inbox[e][q]
        BY <1>t, <3>4, PushAt
      <4>. QED BY <3>2, <4>1 DEF Active
    <3>6. \/ inbox' = inbox /\ age' = age
          \/ age' = [age EXCEPT ![r] = 0]
      BY <1>1, RequestStep
    <3>7. HoldIsKnown' /\ StartedHolds'
      BY <2>3, <3>1, <3>2, <3>3 DEF HoldIsKnown, StartedHolds, TypeOK
    <3>8. WorkIsPrompt'
      <4>1. \A q \in Reqs : q # r => age'[q] = age[q]
        BY <3>6 DEF TypeOK
      <4>2. Active(r)' => age'[r] <= AskMs
        <5>1. CASE age' = [age EXCEPT ![r] = 0]
          BY <5>1, TakeoverAssumption DEF TakeoverAssumption, TypeOK
        <5>2. CASE inbox' = inbox /\ age' = age
          BY <3>2, <5>2 DEF HoldInv, WorkIsPrompt, Active
        <5>. QED BY <3>6, <5>1, <5>2
      <4>. QED BY <3>5, <4>1, <4>2 DEF HoldInv, WorkIsPrompt
    <3>9. WorkHolds'
      BY <2>3, <3>1, <3>3, <3>5 DEF WorkHolds, TypeOK
    <3>. QED BY <2>1, <3>7, <3>8, <3>9 DEF HoldInv
  <2>. QED BY <2>2, <2>3
<1>2. ASSUME NEW d \in Desks, NEW r \in Reqs, OwnerStep(d, r) \/ TakerStep(d, r) PROVE HoldInv'
  <2>1. /\ HubMove(r)
        /\ UNCHANGED <<byId, age>>
        /\ \A q \in Reqs : Active(q)' => Active(q)
    BY <1>2, DeskStep
  <2>2. \A q \in Reqs : Known(q)' <=> Known(q)
    BY <2>1 DEF Known
  <2>3. WorkIsPrompt'
    BY <2>1 DEF HoldInv, WorkIsPrompt
  <2>4. CASE UNCHANGED <<status, lock>>
    BY <2>1, <2>2, <2>3, <2>4 DEF HoldInv, Remembered, HoldIsKnown, StartedHolds, WorkHolds
  <2>5. CASE ~UNCHANGED <<status, lock>>
    <3>1. status[r] \in Open /\ lock.id = r /\ ~lock.taken
      BY <2>1, <2>5 DEF HubMove
    <3>2. \A q \in Reqs : q # r => status[q] # "started" /\ ~(Active(q) /\ status[q] \in Open)
      BY <3>1 DEF HoldInv, StartedHolds, WorkHolds
    <3>3. Remembered'
      BY <2>1, <2>2, <3>1 DEF HoldInv, Remembered, HubMove, TypeOK, Open
    <3>4. ASSUME NEW s \in {"delivered", "accepted", "declined"},
                 status' = [status EXCEPT ![r] = s], UNCHANGED lock
          PROVE  HoldIsKnown' /\ StartedHolds' /\ WorkHolds'
      BY <2>1, <3>1, <3>2, <3>4 DEF HoldIsKnown, StartedHolds, WorkHolds, TypeOK
    <3>5. ASSUME NEW s \in {"offline", "start-failed"},
                 status' = [status EXCEPT ![r] = s], lock' = NoLock
          PROVE  HoldIsKnown' /\ StartedHolds' /\ WorkHolds'
      BY <1>n, <2>1, <3>1, <3>2, <3>5 DEF HoldIsKnown, StartedHolds, WorkHolds, TypeOK, NoLock, Open
    <3>6. ASSUME status' = [status EXCEPT ![r] = "started"], lock' = [lock EXCEPT !.taken = TRUE]
          PROVE  HoldIsKnown' /\ StartedHolds' /\ WorkHolds'
      <4>1. lock'.id = r /\ lock'.taken
        BY <1>t, <3>1, <3>6
      <4>. QED BY <2>1, <3>1, <3>2, <3>6, <4>1 DEF HoldIsKnown, StartedHolds, WorkHolds, TypeOK, Open
    <3>7. HoldIsKnown' /\ StartedHolds' /\ WorkHolds'
      BY <2>1, <2>5, <3>4, <3>5, <3>6 DEF HubMove
    <3>. QED BY <2>3, <3>3, <3>7 DEF HoldInv
  <2>. QED BY <2>4, <2>5
<1>3. CASE Tick
  <2>1. UNCHANGED <<status, byId, lock, inbox, hand>>
    BY <1>3 DEF Tick, deskVars
  <2>2. \A q \in Reqs : (Active(q)' <=> Active(q)) /\ (Known(q)' <=> Known(q))
    BY <2>1 DEF Active, Known
  <2>3. WorkIsPrompt'
    <3>1. SUFFICES ASSUME NEW q \in Reqs, Active(q) PROVE age'[q] <= AskMs
      BY <2>2 DEF WorkIsPrompt
    <3>2. WithinATick
      BY <1>3 DEF Tick, Prompt
    <3>3. age[q] < AskMs
      BY <3>1, <3>2 DEF Active, WithinATick
    <3>4. age[q] \in Nat /\ age'[q] \in {age[q], age[q] + 1}
      BY <1>3 DEF Tick, TypeOK
    <3>. QED BY <3>3, <3>4, TakeoverAssumption DEF TakeoverAssumption
  <2>. QED BY <2>1, <2>2, <2>3 DEF HoldInv, Remembered, HoldIsKnown, StartedHolds, WorkHolds
<1>4. ASSUME NEW d \in Desks, Connect(d) \/ Disconnect(d) \/ Crash(d) PROVE HoldInv'
  <2>1. UNCHANGED <<status, byId, age, lock>>
    BY <1>4 DEF Connect, Disconnect, Crash, hubVars
  <2>2. \A q \in Reqs : Active(q)' => Active(q)
    <3>1. /\ inbox' \in {inbox, DropFrames(inbox, d), Stopped(inbox, d)}
          /\ hand' \in {hand, DropFrames(hand, d), Stopped(hand, d)}
      BY <1>4 DEF Connect, Disconnect, Crash
    <3>2. ASSUME NEW S, NEW box \in Boxes(S)
          PROVE  \A e \in Desks, q \in Reqs, b \in {box, DropFrames(box, d), Stopped(box, d)} :
                   b[e][q] \notin Resting => box[e][q] \notin Resting
      BY DEF DropFrames, Stopped, Resting, Boxes
    <3>3. hand \in Boxes(HandSteps)
      BY DEF TypeOK, Boxes
    <3>. QED BY <1>t, <3>1, <3>2, <3>3 DEF Active
  <2>3. \A q \in Reqs : Known(q)' <=> Known(q)
    BY <2>1 DEF Known
  <2>. QED BY <2>1, <2>2, <2>3 DEF HoldInv, Remembered, HoldIsKnown, StartedHolds, WorkIsPrompt, WorkHolds
<1>5. CASE UNCHANGED <<status, byId, age, lock, inbox, hand>>
  <2>1. \A q \in Reqs : (Active(q)' <=> Active(q)) /\ (Known(q)' <=> Known(q))
    BY <1>5 DEF Active, Known
  <2>. QED BY <1>5, <2>1 DEF HoldInv, Remembered, HoldIsKnown, StartedHolds, WorkIsPrompt, WorkHolds
<1>6. ASSUME NEW r \in Reqs, ReplyArrives(r) \/ ReplyLost(r)
      PROVE  UNCHANGED <<status, byId, age, lock, inbox, hand>>
  BY <1>6 DEF ReplyArrives, ReplyLost, hubVars, deskVars
<1>7. ASSUME NEW p \in {"off", "ask", "on"}, SetPolicy(p)
      PROVE  UNCHANGED <<status, byId, age, lock, inbox, hand>>
  BY <1>7 DEF SetPolicy, hubVars, deskVars
<1>8. UNCHANGED vars => UNCHANGED <<status, byId, age, lock, inbox, hand>>
  BY DEF vars, hubVars, deskVars
<1>9. ~Evict
  BY DEF Evict, Prompt
<1>. QED BY <1>1, <1>2, <1>3, <1>4, <1>5, <1>6, <1>7, <1>8, <1>9 DEF Next

\* "Exactly one taker wins a session", as the hub records it: for any number of
\* requests, desks and people, whatever calls and apps are lost.
THEOREM OneWinner == ASSUME Prompt PROVE Spec => []OneStarted
<1>1. HoldInv => OneStarted
  BY DEF HoldInv, StartedHolds, OneStarted
<1>2. TypeOK /\ HoldInv /\ [Next]_vars => HoldInv'
  BY HoldStep
<1>. QED BY <1>1, <1>2, TypeInit, TypeStep, HoldInit, PTL DEF Spec

\* No step touches a final hold.
LEMMA FinalStep ==
  ASSUME Prompt, TypeOK, HoldInv, [Next]_vars
  PROVE  [lock.taken => lock' = lock]_vars
<1> SUFFICES ASSUME Next, lock.taken PROVE lock' = lock
  OBVIOUS
<1>1. ASSUME NEW r \in Reqs, Request(r) PROVE lock' = lock
  BY <1>1, RequestStep, NobodyElse
<1>2. ASSUME NEW d \in Desks, NEW r \in Reqs, OwnerStep(d, r) \/ TakerStep(d, r)
      PROVE  lock' = lock
  BY <1>2, DeskStep DEF HubMove
<1>3. ASSUME NEW d \in Desks, Connect(d) \/ Disconnect(d) \/ Crash(d) PROVE lock' = lock
  BY <1>3 DEF Connect, Disconnect, Crash, hubVars
<1>4. ASSUME NEW r \in Reqs, ReplyArrives(r) \/ ReplyLost(r) PROVE lock' = lock
  BY <1>4 DEF ReplyArrives, ReplyLost, hubVars
<1>5. ASSUME NEW p \in {"off", "ask", "on"}, SetPolicy(p) PROVE lock' = lock
  BY <1>5 DEF SetPolicy, hubVars
<1>6. CASE Tick
  BY <1>6 DEF Tick
<1>7. ~Evict
  BY DEF Evict, Prompt
<1>. QED BY <1>1, <1>2, <1>3, <1>4, <1>5, <1>6, <1>7 DEF Next

\* "`started` makes the hold final": no later request, baton or report moves it.
THEOREM HoldIsFinal == ASSUME Prompt PROVE Spec => FinalHold
<1>1. TypeOK /\ HoldInv /\ [Next]_vars => HoldInv'
  BY HoldStep
<1>2. TypeOK /\ HoldInv /\ [Next]_vars => [lock.taken => lock' = lock]_vars
  BY FinalStep
<1>. QED BY <1>1, <1>2, TypeInit, TypeStep, HoldInit, PTL DEF Spec, FinalHold

-----------------------------------------------------------------------------
(* The refinement of SessionHold. *)

Outcomes == [r \in Reqs |-> Outcome(r)]

\* At first every request is new, in the promise too.
LEMMA RefinedInit == Init => Hold!Init
  BY DEF Init, Hold!Init, Outcome, Open

\* A step that leaves the hub's record and hold alone is a stutter above.
LEMMA RefinedStutter ==
  ASSUME UNCHANGED <<status, lock>> PROVE Outcomes' = Outcomes
  BY DEF Outcomes, Outcome

\* Every step is one of the promise's steps, or changes no outcome.
LEMMA RefinedStep ==
  ASSUME Prompt, TypeOK, HoldInv, [Next]_vars
  PROVE  [Hold!Next]_Outcomes
<1>n. NoReq \notin Reqs
  BY TakeoverAssumption DEF TakeoverAssumption
<1>1. ASSUME NEW r \in Reqs, Request(r) PROVE Hold!Next
  <2>1. status[r] = "none" /\ Outcome(r) = "new"
    BY <1>1, RequestStep DEF Outcome, Open
  <2>2. CASE \E s \in {"refused-by-policy", "unknown-agent", "offline", "lost"} :
               status' = [status EXCEPT ![r] = s] /\ UNCHANGED lock
    <3>1. \A q \in Reqs : Outcome(q)' = IF q = r THEN "over" ELSE Outcome(q)
      BY <2>2 DEF Outcome, TypeOK, Open
    <3>2. Hold!Miss(r)
      BY <2>1, <3>1 DEF Hold!Miss
    <3>. QED BY <3>2 DEF Hold!Next
  <2>3. CASE /\ ~Live /\ status' = [status EXCEPT ![r] = "queued"]
             /\ lock' = [id |-> r, taken |-> FALSE]
    <3>1. \A q \in Reqs : status[q] # "started"
      BY <2>3, NobodyElse
    <3>2. \A q \in Reqs : Outcome(q) # "won"
      BY <3>1 DEF Outcome
    <3>3. \A q \in Reqs : Outcome(q)' = IF q = r THEN "holding"
                                        ELSE IF Outcome(q) = "holding" THEN "over"
                                        ELSE Outcome(q)
      BY <2>3, <3>1 DEF Outcome, TypeOK, Open
    <3>4. Hold!Hold(r)
      BY <2>1, <3>2, <3>3 DEF Hold!Hold
    <3>. QED BY <3>4 DEF Hold!Next
  <2>. QED BY <1>1, <2>2, <2>3, RequestStep
<1>2. ASSUME NEW d \in Desks, NEW r \in Reqs, OwnerStep(d, r) \/ TakerStep(d, r)
      PROVE  Hold!Next \/ UNCHANGED Outcomes
  <2>1. HubMove(r)
    BY <1>2, DeskStep
  <2>2. CASE UNCHANGED <<status, lock>>
    BY <2>2, RefinedStutter
  <2>3. CASE status[r] \in Open /\ lock.id = r /\ ~lock.taken
    <3>1. Outcome(r) = "holding" /\ \A q \in Reqs : q # r => Outcome(q) # "holding"
      BY <2>3 DEF Outcome, Open
    <3>2. ASSUME NEW s \in {"delivered", "accepted"},
                 status' = [status EXCEPT ![r] = s], UNCHANGED lock
          PROVE  UNCHANGED Outcomes
      BY <2>3, <3>2 DEF Outcomes, Outcome, TypeOK, Open
    <3>3. ASSUME NEW s \in {"declined", "offline", "start-failed"},
                 status' = [status EXCEPT ![r] = s], lock' \in {lock, NoLock}
          PROVE  Hold!Next
      <4>1. \A q \in Reqs : Outcome(q)' = IF q = r THEN "over" ELSE Outcome(q)
        BY <1>n, <2>3, <3>3 DEF Outcome, TypeOK, Open, NoLock
      <4>2. Hold!GiveUp(r)
        BY <3>1, <4>1 DEF Hold!GiveUp
      <4>. QED BY <4>2 DEF Hold!Next
    <3>4. ASSUME status' = [status EXCEPT ![r] = "started"]
          PROVE  Hold!Next
      <4>1. \A q \in Reqs : lock'.id = q => lock.id = q
        BY <2>1, <3>4, <1>n DEF HubMove, TypeOK, NoLock
      <4>2. \A q \in Reqs : Outcome(q)' = IF q = r THEN "won" ELSE Outcome(q)
        BY <2>3, <3>4, <4>1 DEF Outcome, TypeOK, Open
      <4>3. Hold!Win(r)
        BY <3>1, <4>2 DEF Hold!Win
      <4>. QED BY <4>3 DEF Hold!Next
    <3>. QED BY <2>1, <2>2, <3>2, <3>3, <3>4 DEF HubMove
  <2>. QED BY <2>1, <2>2, <2>3 DEF HubMove
<1>3. ASSUME NEW d \in Desks, Connect(d) \/ Disconnect(d) \/ Crash(d)
      PROVE  UNCHANGED <<status, lock>>
  BY <1>3 DEF Connect, Disconnect, Crash, hubVars
<1>4. ASSUME NEW r \in Reqs, ReplyArrives(r) \/ ReplyLost(r) PROVE UNCHANGED <<status, lock>>
  BY <1>4 DEF ReplyArrives, ReplyLost, hubVars
<1>5. ASSUME NEW p \in {"off", "ask", "on"}, SetPolicy(p) PROVE UNCHANGED <<status, lock>>
  BY <1>5 DEF SetPolicy, hubVars
<1>6. Tick => UNCHANGED <<status, lock>>
  BY DEF Tick
<1>7. ~Evict
  BY DEF Evict, Prompt
<1>8. UNCHANGED vars => UNCHANGED <<status, lock>>
  BY DEF vars, hubVars
<1>. QED BY <1>1, <1>2, <1>3, <1>4, <1>5, <1>6, <1>7, <1>8, RefinedStutter DEF Next

\* The hub's routes and the desks keep the promise of SessionHold.
THEOREM Refinement == ASSUME Prompt PROVE Spec => KeepsPromise
<1>1. TypeOK /\ HoldInv /\ [Next]_vars => HoldInv'
  BY HoldStep
<1>2. TypeOK /\ HoldInv /\ [Next]_vars => [Hold!Next]_Outcomes
  BY RefinedStep
<1>. QED BY <1>1, <1>2, RefinedInit, TypeInit, TypeStep, HoldInit, PTL
         DEF Spec, KeepsPromise, Hold!Spec, Outcomes
=============================================================================
