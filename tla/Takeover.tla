------------------------------ MODULE Takeover ------------------------------
(***************************************************************************)
(* Taking over a teammate's running turn: the hub's /api/takeover routes   *)
(* (hub/server.mjs), the owner's and the taker's inboxes                   *)
(* (desktop/agent-takeover.js) and their wiring (desktop/main.js).         *)
(*                                                                         *)
(* One session of one person, the Owner, running in the app on desk Home.  *)
(* A desk is one running Zevet app with its own channel to the hub; one    *)
(* person may have several.  Request r is sent from desk SentFrom[r].      *)
(* A call to the hub is one step (the hub decides synchronously) that may  *)
(* be lost, or whose answer may be lost, when "lose" \in Faults.           *)
(***************************************************************************)
EXTENDS Naturals, Sequences, FiniteSets

CONSTANTS
  Reqs,        \* request ids
  Desks,       \* running desktop apps
  People,
  Owner,       \* whose session is asked for
  PersonOf,    \* desk -> the person signed in there
  SentFrom,    \* request -> the taker's desk it is sent from
  Home,        \* the owner's desk the session's console is on
  NoReq,       \* "no request holds the session"
  AskMs,       \* ticks the owner's card stays open (10 minutes)
  PendingMs,   \* ticks an unfinished hold counts (15 minutes)
  Faults       \* which of "slow", "lose", "crash", "evict" can happen

Taker(r) == PersonOf[SentFrom[r]]

ASSUME TakeoverAssumption ==
  /\ PersonOf \in [Desks -> People]
  /\ SentFrom \in [Reqs -> Desks]
  /\ Owner \in People
  /\ Home \in Desks /\ PersonOf[Home] = Owner
  /\ \A r \in Reqs : Taker(r) # Owner
  /\ NoReq \notin Reqs
  /\ AskMs \in Nat /\ PendingMs \in Nat
  /\ 0 < AskMs /\ AskMs < PendingMs
  /\ Faults \subseteq {"slow", "lose", "crash", "evict"}

VARIABLES
  policy,      \* the team's `steer` policy
  status,      \* hub: rec.status of each request ("none" before it is sent)
  byId,        \* hub: the remembered requests, oldest first
  age,         \* hub: ticks since rec.at
  approval,    \* the frame's `approval` flag
  lock,        \* hub: takeovers[owner+session]
  online,      \* desks whose channel to the hub is open
  inbox,       \* owner desk, request -> where createTakeoverInbox.handle is
  hand,        \* taker desk, request -> where createBatonInbox.handle is
  reply,       \* requests whose POST has not come back to the taker's desk yet
  asked,       \* takeoversAsked of the sending desk
  consented,   \* requests the owner clicked yes on
  stopped,     \* requests the owner's turn was stopped for
  turns        \* requests a taker's turn was started for

hubVars   == <<status, byId, age, approval, lock>>
deskVars  == <<online, inbox, hand>>
takerVars == <<reply, asked, turns>>
ownerVars == <<consented, stopped>>
vars == <<policy, hubVars, deskVars, takerVars, ownerVars>>

Statuses == {"none", "queued", "delivered", "accepted", "declined", "lost",
             "offline", "refused-by-policy", "unknown-agent", "started", "start-failed"}
Open == {"queued", "delivered", "accepted"}
InboxSteps == {"idle", "frame", "ask", "send", "halt", "refuse", "done"}
HandSteps  == {"idle", "frame", "start", "started", "failed", "done"}
Resting == {"idle", "done"}

NoLock == [id |-> NoReq, taken |-> FALSE]

ChannelsOf(p) == {d \in online : PersonOf[d] = p}

TypeOK ==
  /\ policy \in {"off", "ask", "on"}
  /\ status \in [Reqs -> Statuses]
  /\ byId \in Seq(Reqs)
  /\ age \in [Reqs -> 0..PendingMs]
  /\ approval \in [Reqs -> BOOLEAN]
  /\ lock \in [id : Reqs, taken : BOOLEAN] \cup {NoLock}
  /\ lock.taken => status[lock.id] = "started"
  /\ online \subseteq Desks
  /\ inbox \in [Desks -> [Reqs -> InboxSteps]]
  /\ hand \in [Desks -> [Reqs -> HandSteps]]
  /\ reply \subseteq Reqs /\ asked \subseteq Reqs
  /\ consented \subseteq Reqs /\ stopped \subseteq Reqs /\ turns \subseteq Reqs

Init ==
  /\ policy \in {"off", "ask", "on"}
  /\ status = [r \in Reqs |-> "none"]
  /\ byId = <<>>
  /\ age = [r \in Reqs |-> 0]
  /\ approval = [r \in Reqs |-> FALSE]
  /\ lock = NoLock
  /\ online \in SUBSET Desks
  /\ inbox = [d \in Desks |-> [r \in Reqs |-> "idle"]]
  /\ hand = [d \in Desks |-> [r \in Reqs |-> "idle"]]
  /\ reply = {} /\ asked = {} /\ consented = {} /\ stopped = {} /\ turns = {}

-----------------------------------------------------------------------------
(* The hub. *)

Known(r) == \E i \in 1..Len(byId) : byId[i] = r

\* Live, had it forgotten that an accepted request is still being started.
LiveForgetsAccepted ==
  /\ lock.id # NoReq
  /\ Known(lock.id)
  /\ lock.taken \/ (age[lock.id] < PendingMs /\ status[lock.id] \in {"queued", "delivered"})

\* Live, without the 15 minute limit.
LiveNeverLapses ==
  /\ lock.id # NoReq
  /\ Known(lock.id)
  /\ lock.taken \/ status[lock.id] \in Open

\* The one-winner decision: does the recorded hold still count?
Live ==
  /\ lock.id # NoReq
  /\ Known(lock.id)
  /\ lock.taken \/ (age[lock.id] < PendingMs /\ status[lock.id] \in Open)

\* steerRemember: the record is kept whatever its status.
Remember(r, s) ==
  /\ status' = [status EXCEPT ![r] = s]
  /\ byId' = Append(byId, r)

\* Put step s for request r on every desk in D (a frame, on each channel).
Push(box, D, r, s) ==
  [d \in Desks |-> IF d \in D THEN [box[d] EXCEPT ![r] = s] ELSE box[d]]

\* A request that is answered at once and holds nothing.
Turned(r, s) ==
  /\ Remember(r, s)
  /\ UNCHANGED <<age, approval, lock, inbox>>

\* POST /api/takeover.
Request(r) ==
  /\ status[r] = "none" /\ ~Known(r)
  /\ \/ policy = "off" /\ Turned(r, "refused-by-policy") /\ UNCHANGED reply
     \/ policy # "off" /\ Turned(r, "unknown-agent") /\ UNCHANGED reply
     \/ /\ policy # "off" /\ ChannelsOf(Owner) = {}
        /\ Turned(r, "offline") /\ reply' = reply \cup {r}
     \/ /\ policy # "off" /\ ChannelsOf(Owner) # {} /\ Live
        /\ Turned(r, "lost") /\ UNCHANGED reply
     \/ /\ policy # "off" /\ ChannelsOf(Owner) # {} /\ ~Live
        /\ Remember(r, "queued")
        /\ lock' = [id |-> r, taken |-> FALSE]
        /\ age' = [age EXCEPT ![r] = 0]
        /\ approval' = [approval EXCEPT ![r] = (policy = "ask")]
        /\ inbox' = Push(inbox, ChannelsOf(Owner), r, "frame")
        /\ reply' = reply \cup {r}
  /\ UNCHANGED <<policy, online, hand, asked, turns, ownerVars>>

\* POST /api/steer/status for a take-over: from the owner, never once settled.
HubOwnerReport(r, s) ==
  status' = IF Known(r) /\ status[r] \in {"queued", "delivered"}
            THEN [status EXCEPT ![r] = s] ELSE status

\* A call by desk d on request r: handled by the hub, or lost on the way.
CallLost == "lose" \in Faults

-----------------------------------------------------------------------------
(* The owner's inbox, createTakeoverInbox.handle, on desk d. *)

Goto(d, r, s) == inbox' = [inbox EXCEPT ![d][r] = s]

\* The frame does not open here: another team secret.
CannotOpen(d, r) ==
  /\ inbox[d][r] = "frame"
  /\ Goto(d, r, "refuse")
  /\ UNCHANGED <<policy, hubVars, online, hand, takerVars, ownerVars>>

\* ReportDelivered, treating a frame as the permissive policy.
ReportDeliveredNeverAsks(d, r) ==
  /\ inbox[d][r] = "frame"
  /\ HubOwnerReport(r, "delivered")
  /\ Goto(d, r, "send")
  /\ UNCHANGED <<policy, byId, age, approval, lock, online, hand, takerVars, ownerVars>>

\* It opens: report `delivered`, then look for the session's console in THIS app.
ReportDelivered(d, r) ==
  /\ inbox[d][r] = "frame"
  /\ HubOwnerReport(r, "delivered") \/ (CallLost /\ UNCHANGED status)
  /\ \/ d = Home /\ Goto(d, r, IF approval[r] THEN "ask" ELSE "send")
     \/ Goto(d, r, "refuse")
  /\ UNCHANGED <<policy, byId, age, approval, lock, online, hand, takerVars, ownerVars>>

Approve(d, r) ==
  /\ inbox[d][r] = "ask"
  /\ Goto(d, r, "send")
  /\ consented' = consented \cup {r}
  /\ UNCHANGED <<policy, hubVars, online, hand, takerVars, stopped>>

\* No, no answer in time, nobody at the app; or, once agreed, the session could
\* not be read.
DeclineHere(d, r) ==
  /\ inbox[d][r] \in {"ask", "send"}
  /\ Goto(d, r, "refuse")
  /\ UNCHANGED <<policy, hubVars, online, hand, takerVars, ownerVars>>

BatonDue(r) == Known(r) /\ status[r] \in {"queued", "delivered"}

\* POST /api/takeover/baton, as the hub handles it.
HubBaton(r) ==
  LET channels == ChannelsOf(Taker(r)) IN
  IF ~BatonDue(r)
  THEN UNCHANGED <<status, lock, hand>>
  ELSE IF channels = {}
  THEN /\ status' = [status EXCEPT ![r] = "offline"]
       /\ lock' = NoLock
       /\ UNCHANGED hand
  ELSE /\ hand' = Push(hand, channels, r, "frame")
       /\ status' = [status EXCEPT ![r] = "accepted"]
       /\ UNCHANGED lock

\* SendBaton, stopping the owner's turn whatever the hub answered.
SendBatonHaltsAnyway(d, r) ==
  /\ inbox[d][r] = "send"
  /\ HubBaton(r) /\ Goto(d, r, "halt")
  /\ UNCHANGED <<policy, byId, age, approval, online, takerVars, ownerVars>>

\* The owner's desk reads the session, hands the sealed baton over and acts on the
\* answer.  Of a lost answer the head may have arrived: then its desk takes the baton
\* for relayed, although the hub may have answered `offline'.
SendBaton(d, r) ==
  /\ inbox[d][r] = "send"
  /\ \/ /\ HubBaton(r)
        /\ Goto(d, r, IF ~BatonDue(r) THEN "refuse"
                      ELSE IF ChannelsOf(Taker(r)) = {} THEN "done" ELSE "halt")
     \/ CallLost /\ HubBaton(r) /\ Goto(d, r, "refuse")
     \/ CallLost /\ HubBaton(r) /\ BatonDue(r) /\ Goto(d, r, "halt")
     \/ CallLost /\ UNCHANGED <<status, lock, hand>> /\ Goto(d, r, "refuse")
  /\ UNCHANGED <<policy, byId, age, approval, online, takerVars, ownerVars>>

\* The baton is out: stop the owner's turn (a stop that throws is swallowed).
Halt(d, r) ==
  /\ inbox[d][r] = "halt"
  /\ stopped' \in {stopped, stopped \cup {r}}
  /\ Goto(d, r, "done")
  /\ UNCHANGED <<policy, hubVars, online, hand, takerVars, consented>>

ReportDeclined(d, r) ==
  /\ inbox[d][r] = "refuse"
  /\ HubOwnerReport(r, "declined") \/ (CallLost /\ UNCHANGED status)
  /\ Goto(d, r, "done")
  /\ UNCHANGED <<policy, byId, age, approval, lock, online, hand, takerVars, ownerVars>>

-----------------------------------------------------------------------------
(* The taker's desk: the reply to its POST, and createBatonInbox.handle. *)

HandTo(d, r, s) == hand' = [hand EXCEPT ![d][r] = s]

\* The POST returns (only then is the request in takeoversAsked), or fails.
ReplyArrives(r) ==
  /\ r \in reply
  /\ reply' = reply \ {r}
  /\ asked' = asked \cup {r}
  /\ UNCHANGED <<policy, hubVars, deskVars, turns, ownerVars>>

ReplyLost(r) ==
  /\ CallLost /\ r \in reply
  /\ reply' = reply \ {r}
  /\ UNCHANGED <<policy, hubVars, deskVars, asked, turns, ownerVars>>

\* Only the desk that asked goes on, and only if the folder is open there.
OpenBaton(d, r) ==
  /\ hand[d][r] = "frame"
  /\ \/ d = SentFrom[r] /\ r \in asked /\ HandTo(d, r, "start")
     \/ HandTo(d, r, "failed")
  /\ UNCHANGED <<policy, hubVars, online, inbox, takerVars, ownerVars>>

StartTurn(d, r) ==
  /\ hand[d][r] = "start"
  /\ \/ HandTo(d, r, "started") /\ turns' = turns \cup {r}
     \/ HandTo(d, r, "failed") /\ UNCHANGED turns
  /\ UNCHANGED <<policy, hubVars, online, inbox, reply, asked, ownerVars>>

\* HubTakerReport, not comparing the request that has started with the one that holds.
HubTakerReportAnyHold(r, s) ==
  IF ~Known(r) \/ status[r] # "accepted"
  THEN UNCHANGED <<status, lock>>
  ELSE /\ status' = [status EXCEPT ![r] = s]
       /\ lock' = IF s = "started" /\ lock # NoLock THEN [lock EXCEPT !.taken = TRUE]
                  ELSE IF lock.id = r THEN NoLock ELSE lock

\* POST /api/takeover/status, as the hub handles it.
HubTakerReport(r, s) ==
  IF ~Known(r) \/ status[r] # "accepted"
  THEN UNCHANGED <<status, lock>>
  ELSE /\ status' = [status EXCEPT ![r] = s]
       /\ lock' = IF lock.id # r THEN lock
                  ELSE IF s = "started" THEN [lock EXCEPT !.taken = TRUE] ELSE NoLock

ReportTurn(d, r) ==
  /\ hand[d][r] \in {"started", "failed"}
  /\ \/ HubTakerReport(r, IF hand[d][r] = "started" THEN "started" ELSE "start-failed")
     \/ CallLost /\ UNCHANGED <<status, lock>>
  /\ HandTo(d, r, "done")
  /\ asked' = IF d = SentFrom[r] THEN asked \ {r} ELSE asked
  /\ UNCHANGED <<policy, byId, age, approval, online, inbox, reply, turns, ownerVars>>

-----------------------------------------------------------------------------
(* The surroundings: the policy, channels, time, memory limits, crashes. *)

\* (Bound: only while a request is still to be sent, since nothing reads it later.)
SetPolicy(p) ==
  /\ \E r \in Reqs : status[r] = "none"
  /\ policy # p /\ policy' = p
  /\ UNCHANGED <<hubVars, deskVars, takerVars, ownerVars>>

Connect(d) ==
  /\ d \notin online /\ online' = online \cup {d}
  /\ UNCHANGED <<policy, hubVars, inbox, hand, takerVars, ownerVars>>

\* A closed channel loses the frames still on it.
DropFrames(box, d) ==
  [box EXCEPT ![d] = [r \in Reqs |-> IF box[d][r] = "frame" THEN "done" ELSE box[d][r]]]

HasFrame(d) == \E r \in Reqs : "frame" \in {inbox[d][r], hand[d][r]}

Disconnect(d) ==
  /\ d \in online /\ online' = online \ {d}
  /\ HasFrame(d) => CallLost
  /\ inbox' = DropFrames(inbox, d)
  /\ hand' = DropFrames(hand, d)
  /\ UNCHANGED <<policy, hubVars, takerVars, ownerVars>>

\* The app on desk d quits: its handlers, channel and takeoversAsked are gone.
Stopped(box, d) ==
  [box EXCEPT ![d] = [r \in Reqs |-> IF box[d][r] \in Resting THEN box[d][r] ELSE "done"]]

Crash(d) ==
  /\ "crash" \in Faults
  /\ online' = online \ {d}
  /\ inbox' = Stopped(inbox, d)
  /\ hand' = Stopped(hand, d)
  /\ asked' = {r \in asked : SentFrom[r] # d}
  /\ reply' = {r \in reply : SentFrom[r] # d}
  /\ UNCHANGED <<policy, hubVars, turns, ownerVars>>

\* Unless "slow", everything but waiting for the owner's click takes less than
\* a tick, and the owner's card closes after AskMs.
WithinATick ==
  \A d \in Desks, r \in Reqs :
     /\ hand[d][r] \in Resting
     /\ inbox[d][r] \in Resting \/ (inbox[d][r] = "ask" /\ age[r] < AskMs)

Tick ==
  /\ "slow" \in Faults \/ WithinATick
  /\ age' = [r \in Reqs |-> IF status[r] \in Open /\ age[r] < PendingMs
                            THEN age[r] + 1 ELSE age[r]]
  /\ UNCHANGED <<policy, status, byId, approval, lock, deskVars, takerVars, ownerVars>>

\* Other traffic of the team pushes the oldest record, or the hold, out of the
\* hub's bounded maps.
Evict ==
  /\ "evict" \in Faults
  /\ \/ byId # <<>> /\ byId' = Tail(byId) /\ UNCHANGED lock
     \/ lock # NoLock /\ lock' = NoLock /\ UNCHANGED byId
  /\ UNCHANGED <<policy, status, age, approval, deskVars, takerVars, ownerVars>>

-----------------------------------------------------------------------------
OwnerStep(d, r) ==
  \/ CannotOpen(d, r) \/ ReportDelivered(d, r) \/ Approve(d, r) \/ DeclineHere(d, r)
  \/ SendBaton(d, r) \/ Halt(d, r) \/ ReportDeclined(d, r)

TakerStep(d, r) == OpenBaton(d, r) \/ StartTurn(d, r) \/ ReportTurn(d, r)

Next ==
  \/ \E r \in Reqs : Request(r) \/ ReplyArrives(r) \/ ReplyLost(r)
  \/ \E d \in Desks, r \in Reqs : OwnerStep(d, r) \/ TakerStep(d, r)
  \/ \E d \in Desks : Connect(d) \/ Disconnect(d) \/ Crash(d)
  \/ \E p \in {"off", "ask", "on"} : SetPolicy(p)
  \/ Tick \/ Evict

Spec == Init /\ [][Next]_vars

\* The apps run their handlers, and time passes.
FairSpec ==
  /\ Spec
  /\ \A d \in Desks, r \in Reqs :
       WF_vars(OwnerStep(d, r)) /\ WF_vars(TakerStep(d, r))
  /\ WF_vars(Tick)
-----------------------------------------------------------------------------
(* What must hold. *)

\* "Exactly one taker wins a session": the hub never records two take-overs of
\* the session as started, whatever handlers, calls and apps are lost on the way.
OneStarted == \A r, s \in Reqs : status[r] = "started" /\ status[s] = "started" => r = s

\* "`started` makes the hold final": once it is, no later request, late baton
\* or failed start of an older one replaces or releases it.
FinalHold == [][lock.taken => lock' = lock]_vars

Relayed == {"accepted", "started", "start-failed"}

\* "Their turn stops only after the hub has relayed the baton."
HaltOnlyAfterRelay == \A r \in stopped : status[r] \in Relayed

\* What the code keeps of it: the owner's turn is stopped only for a request whose baton
\* the hub took while it was still due, and relayed it; or it found the taker offline
\* and let go of the session, in an answer that arrived only in part.
HaltOnlyAfterBaton ==
  \A r \in stopped : status[r] \in Relayed \/ (CallLost /\ status[r] = "offline")

\* A taker's turn runs only on a baton the hub relayed and, where the policy was
\* `ask` when the request was sent, on the owner's own yes.
TurnHasConsent ==
  \A r \in turns : /\ status[r] \in {"accepted", "started", "start-failed"}
                   /\ approval[r] => r \in consented

\* The same claim about the turns themselves: of all the requests for the
\* session, at most one is ever running on a taker's machine.
OneTurn == Cardinality(turns) <= 1

\* An unfinished hold does not lock a session for good, even when the app that
\* should answer has died or its report was lost.
HoldLapses == (Live /\ ~lock.taken) ~> (~Live \/ lock.taken)

\* The hub's records as the promise of SessionHold sees them.
Outcome(r) == CASE status[r] = "none" -> "new"
                [] status[r] = "started" -> "won"
                [] status[r] \in Open /\ lock.id = r -> "holding"
                [] OTHER -> "over"

Hold == INSTANCE SessionHold WITH outcome <- [r \in Reqs |-> Outcome(r)]

\* The hub and the desks together keep the promise of SessionHold.
KeepsPromise == Hold!Spec

-----------------------------------------------------------------------------
(* The inductive invariants behind them (TakeoverProofs.tla). *)

Active(r) == \E d \in Desks : inbox[d][r] \notin Resting \/ hand[d][r] \notin Resting

\* A request the hub has answered is remembered.
Remembered == \A r \in Reqs : status[r] # "none" => Known(r)

\* The recorded hold is a request's, and a final one is a started request's.
HoldIsKnown ==
  /\ lock.id \in Reqs => status[lock.id] # "none"
  /\ lock.taken => lock.id \in Reqs /\ status[lock.id] = "started"

StartedHolds == \A r \in Reqs : status[r] = "started" => lock.id = r /\ lock.taken

\* While a request is being worked on it is in date and its hold is the one
\* recorded, unfinished.
WorkIsPrompt == \A r \in Reqs : Active(r) => age[r] <= AskMs
WorkHolds == \A r \in Reqs : Active(r) /\ status[r] \in Open => lock.id = r /\ ~lock.taken

HoldInv == Remembered /\ HoldIsKnown /\ StartedHolds /\ WorkIsPrompt /\ WorkHolds

Agreed(r) == approval[r] => r \in consented

\* Nobody moves for a request before it is sent.
Untouched ==
  \A r \in Reqs : status[r] = "none" =>
     /\ r \notin turns /\ r \notin stopped
     /\ \A d \in Desks : inbox[d][r] = "idle" /\ hand[d][r] = "idle"

\* Past the owner's card it is agreed to.
CardAnswered == \A d \in Desks, r \in Reqs : inbox[d][r] \in {"send", "halt"} => Agreed(r)

Stoppable(r) == status[r] \in Relayed \/ (CallLost /\ status[r] = "offline")

\* Once the hub has taken the baton its record says so for good.
RelayRecorded ==
  /\ \A d \in Desks, r \in Reqs : inbox[d][r] = "halt" => Stoppable(r)
  /\ \A r \in stopped : Stoppable(r)

HandAgreed ==
  /\ \A d \in Desks, r \in Reqs : hand[d][r] # "idle" => status[r] \in Relayed /\ Agreed(r)
  /\ \A r \in turns : status[r] \in Relayed /\ Agreed(r)

ConsentInv == Untouched /\ CardAnswered /\ RelayRecorded /\ HandAgreed
=============================================================================
