------------------------------ MODULE Approval ------------------------------
(***************************************************************************)
(* Cross-machine approval cards.  An agent on the Owner's machine asks     *)
(* permission for a tool call; the app shows a prompt and publishes a card *)
(* through the hub; an Editor may answer it.  The hub (hub/server.mjs)     *)
(* arbitrates, the app (desktop/agent-approval.js and its wiring in        *)
(* desktop/main.js) decides what an answer authorises, and                 *)
(* desktop/approval-claims.js lets one tool call be asked only once.       *)
(*                                                                         *)
(* Every call to the hub is fire and forget: `publishing' and `reports'    *)
(* are the POSTs under way, delivered in any order or never.  The timers   *)
(* (the card's TTL on both sides, the 1.5 s hold of a remote answer, the   *)
(* 30 s an approval counts as in flight) may run out at any moment.        *)
(***************************************************************************)
EXTENDS Naturals, Sequences, SequencesExt, FiniteSets

CONSTANTS
  Cards,       \* permission requests (card ids)
  Calls,       \* the agent's tool calls (via, toolUseId)
  Desktops,    \* the Owner's desktops
  App,         \* the one whose agent asks
  Editors,
  Owner,       \* the person at the executing machine
  Nobody,
  PendingMax,  \* live cards a person may have (3)
  ReopenMax,   \* mismatching answers a card survives (3)
  Keep         \* cards the hub remembers (100)

ASSUME ApprovalAssumption ==
  /\ App \in Desktops
  /\ Owner \notin Editors /\ Nobody \notin Editors \cup {Owner}
  /\ PendingMax \in Nat \ {0} /\ ReopenMax \in Nat \ {0} /\ Keep \in Nat \ {0}

VARIABLES
  policy,      \* the team's `approve` policy
  rec,         \* hub: approvalMap
  ids,         \* hub: its keys, oldest first
  due,         \* hub: cards past their expiresAt
  channels,    \* hub: the Owner's open desktop channels
  publishing,  \* POST /api/approval/open under way
  reports,     \* POST /api/approval/status under way
  frames,      \* approval-answer frames on the app's channel
  pending,     \* app: prompts the approval host knows
  hold,        \* app: the remote answer each prompt is about to apply
  inflight,    \* app: approvals that may still be running
  prompt,      \* app: what the agent was told
  decider,     \* whose answer that was
  call,        \* the tool call each prompt asks for; a retry asks for it again
  claimed,     \* app: approval-claims.json
  interrupted  \* app: what interrupt() has reported as expired

hubVars == <<rec, ids, due, channels>>
appVars == <<pending, hold, inflight, prompt, decider, call, claimed, interrupted>>
netVars == <<publishing, reports, frames>>
vars == <<policy, hubVars, appVars, netVars>>

Decisions == {"allow", "deny"}
Answers == [by : Editors, decision : Decisions, good : BOOLEAN, confirm : BOOLEAN]
NoAnswer == [by |-> Nobody, decision |-> "", good |-> FALSE, confirm |-> FALSE]
Live == {"open", "answered", "held"}
Settled == {"approved", "denied", "expired", "unknown"}
Statuses == Live \cup Settled \cup {"none", "forgotten"}

NewCard == [status |-> "none", decision |-> "", by |-> Nobody, attempts |-> 0]
Records == [status : Statuses, decision : Decisions \cup {""},
            by : Editors \cup {Owner, Nobody}, attempts : 0..ReopenMax]
Frames == [card : Cards, answer : Answers]
Reports == [card : Cards, status : Settled \cup {"held", "invalid"}, via : {"local", "remote"}]

TypeOK ==
  /\ policy \in {"off", "ask", "on"}
  /\ rec \in [Cards -> Records]
  /\ ids \in Seq(Cards)
  /\ due \subseteq Cards
  /\ channels \subseteq Desktops
  /\ publishing \subseteq Cards
  /\ reports \subseteq Reports
  /\ frames \subseteq Frames
  /\ pending \subseteq Cards
  /\ hold \in [Cards -> Answers \cup {NoAnswer}]
  /\ inflight \subseteq Cards
  /\ prompt \in [Cards -> {"none", "asking", "allowed", "denied"}]
  /\ decider \in [Cards -> Editors \cup {Owner, Nobody}]
  /\ call \in [Cards -> SUBSET Calls]
  /\ claimed \subseteq Calls
  /\ interrupted \subseteq Cards

Init ==
  /\ policy \in {"off", "ask", "on"}
  /\ rec = [c \in Cards |-> NewCard]
  /\ ids = <<>>
  /\ due = {}
  /\ channels \in SUBSET Desktops
  /\ publishing = {} /\ reports = {} /\ frames = {}
  /\ pending = {}
  /\ hold = [c \in Cards |-> NoAnswer]
  /\ inflight = {}
  /\ prompt = [c \in Cards |-> "none"]
  /\ decider = [c \in Cards |-> Nobody]
  /\ call = [c \in Cards |-> {}]
  /\ claimed = {} /\ interrupted = {}

-----------------------------------------------------------------------------
(* The hub. *)

Status(c) == rec[c].status

\* What approvalSweep makes of a card: once due, an answer that was relayed and
\* never confirmed is `unknown`, anything else unanswered is `expired`.
Swept(c) ==
  IF c \notin due \/ Status(c) \notin Live THEN rec[c]
  ELSE [rec[c] EXCEPT !.status = IF @ = "answered" THEN "unknown" ELSE "expired"]

AfterSweep == [c \in Cards |-> Swept(c)]

\* approvalSweep, had it waited for the owner of a held card to click.
SweepLeavesHeld ==
  /\ \E c \in due : Status(c) \in {"open", "answered"}
  /\ rec' = [c \in Cards |-> IF Status(c) = "held" THEN rec[c] ELSE Swept(c)]
  /\ UNCHANGED <<policy, ids, due, channels, appVars, netVars>>

\* The 15 s timer, or a desktop that connects.
Sweep ==
  /\ \E c \in due : Status(c) \in Live
  /\ rec' = AfterSweep
  /\ UNCHANGED <<policy, ids, due, channels, appVars, netVars>>

PassesExpiry(c) ==
  /\ Status(c) \notin {"none", "forgotten"} /\ c \notin due
  /\ due' = due \cup {c}
  /\ UNCHANGED <<policy, rec, ids, channels, appVars, netVars>>

\* POST /api/approval/open arrives.
Open(c) ==
  /\ c \in publishing /\ publishing' = publishing \ {c}
  /\ IF policy = "off" THEN UNCHANGED <<rec, ids>>
     ELSE LET live == {d \in Cards : Swept(d).status \in Live} IN
          IF Cardinality(live) >= PendingMax
          THEN rec' = AfterSweep /\ UNCHANGED ids
          ELSE LET all == Append(ids, c)
                   gone == Len(all) > Keep
               IN  /\ ids' = IF gone THEN Tail(all) ELSE all
                   /\ rec' = [d \in Cards |->
                        IF gone /\ d = Head(all) THEN [NewCard EXCEPT !.status = "forgotten"]
                        ELSE IF d = c THEN [NewCard EXCEPT !.status = "open"] ELSE Swept(d)]
  /\ UNCHANGED <<policy, due, channels, reports, frames, appVars>>

\* Answer, by an Editor whose screen still shows the card.
AnswerWhileLive(c, e, d, good) ==
  /\ policy # "off"
  /\ Swept(c).status \in Live
  /\ channels # {}
  /\ rec' = [AfterSweep EXCEPT ![c].status = "answered", ![c].decision = d, ![c].by = e]
  /\ frames' = frames \cup {[card |-> c, answer |-> [by |-> e, decision |-> d, good |-> good,
                                                     confirm |-> policy # "on"]]}
  /\ UNCHANGED <<policy, ids, due, channels, publishing, reports, appVars>>

\* POST /api/approval/answer by Editor e: approvalAnswerCore.  The first answer
\* to an open card wins; it is relayed on each of the Owner's channels.
Answer(c, e, d, good) ==
  /\ policy # "off"
  /\ Swept(c).status = "open"
  /\ channels # {}
  /\ rec' = [AfterSweep EXCEPT ![c].status = "answered", ![c].decision = d, ![c].by = e]
  /\ frames' = IF App \notin channels THEN frames
               ELSE frames \cup {[card |-> c, answer |-> [by |-> e, decision |-> d, good |-> good,
                                                         confirm |-> policy # "on"]]}
  /\ UNCHANGED <<policy, ids, due, channels, publishing, reports, appVars>>

\* Reported, one mismatching answer too many.
ReportedOnceMore(r, s, via) ==
  IF s = "invalid" /\ r.status = "answered"
  THEN [r EXCEPT !.status = IF r.attempts + 1 > ReopenMax THEN "expired" ELSE "open",
                 !.attempts = @ + 1]
  ELSE r

\* Reported, believing an `expired` that arrives late.
ReportedLateExpiry(r, s, via) ==
  IF (s = "expired" /\ r.status # "none") \/ (s = "approved" /\ via = "local" /\ r.status \in Live)
  THEN [r EXCEPT !.status = s] ELSE r

\* The card after the app reported status s (via), as /api/approval/status has
\* it; a conflicting report changes nothing.
Reported(r, s, via) ==
  LET st == r.status
      want == IF s = "approved" THEN "allow" ELSE "deny"
  IN CASE s = "unknown" /\ st \in Live \cup {"approved"} -> [r EXCEPT !.status = s]
       [] s = "expired" /\ st \in Live -> [r EXCEPT !.status = s]
       [] s = "invalid" /\ st = "answered" ->
            IF r.attempts + 1 >= ReopenMax
            THEN [r EXCEPT !.status = "expired", !.attempts = @ + 1]
            ELSE [status |-> "open", decision |-> "", by |-> Nobody, attempts |-> r.attempts + 1]
       [] s = "held" /\ st = "answered" -> [r EXCEPT !.status = s]
       [] s \in {"approved", "denied"} /\ via = "local" /\ st \in Live ->
            [r EXCEPT !.status = s, !.decision = want, !.by = Owner]
       [] s \in {"approved", "denied"} /\ via = "remote" /\ st = "answered" /\ r.decision = want ->
            [r EXCEPT !.status = s]
       [] OTHER -> r

ReportArrives(m) ==
  /\ m \in reports /\ reports' = reports \ {m}
  /\ rec' = [rec EXCEPT ![m.card] = Reported(@, m.status, m.via)]
  /\ UNCHANGED <<policy, ids, due, channels, publishing, frames, appVars>>

Lose ==
  /\ \/ \E m \in reports : reports' = reports \ {m} /\ UNCHANGED publishing
     \/ \E c \in publishing : publishing' = publishing \ {c} /\ UNCHANGED reports
  /\ UNCHANGED <<policy, hubVars, frames, appVars>>

Connect(d) ==
  /\ d \notin channels /\ channels' = channels \cup {d}
  /\ rec' = AfterSweep
  /\ UNCHANGED <<policy, ids, due, appVars, netVars>>

\* approvalOwnerGone: the Owner's last channel closed, so what was in flight is
\* unknown.  (settled: approvals older than 30 s.)
OwnerGone(settled) ==
  [c \in Cards |-> IF Status(c) = "answered" \/ (Status(c) = "approved" /\ c \notin settled)
                   THEN [rec[c] EXCEPT !.status = "unknown"] ELSE rec[c]]

ChannelCloses(d) ==
  /\ d \in channels /\ channels' = channels \ {d}
  /\ IF channels' = {} THEN \E settled \in SUBSET Cards : rec' = OwnerGone(settled)
     ELSE UNCHANGED rec
  /\ frames' = IF d = App THEN {} ELSE frames

Disconnect(d) ==
  /\ ChannelCloses(d)
  /\ UNCHANGED <<policy, ids, due, publishing, reports, appVars>>

SetPolicy(p) ==
  /\ \E c \in Cards : prompt[c] \in {"none", "asking"}
  /\ policy # p /\ policy' = p
  /\ UNCHANGED <<hubVars, appVars, netVars>>

-----------------------------------------------------------------------------
(* The executing app. *)

Report(C, s, via) == [card : C, status : {s}, via : {via}]

\* onPermit: the first ask of a call claims it on disk, shows the prompt and
\* begins the card; a later ask of the same call is refused.
Ask(c, k) ==
  /\ prompt[c] = "none"
  /\ call' = [call EXCEPT ![c] = {k}]
  /\ IF k \in claimed
     THEN /\ prompt' = [prompt EXCEPT ![c] = "denied"]
          /\ UNCHANGED <<claimed, pending, publishing>>
     ELSE /\ claimed' = claimed \cup {k}
          /\ prompt' = [prompt EXCEPT ![c] = "asking"]
          /\ pending' = pending \cup {c}
          /\ publishing' = publishing \cup {c}
  /\ UNCHANGED <<policy, hubVars, hold, inflight, decider, interrupted, reports, frames>>

\* forget(p): the prompts in C are settled, and no hold of theirs will fire.
Forget(C) ==
  /\ pending' = pending \ C
  /\ hold' = [c \in Cards |-> IF c \in C THEN NoAnswer ELSE hold[c]]

\* The permit is resolved: the agent is told, once.
Tell(c, allow, who) ==
  IF prompt[c] = "asking"
  THEN /\ prompt' = [prompt EXCEPT ![c] = IF allow THEN "allowed" ELSE "denied"]
       /\ decider' = [decider EXCEPT ![c] = who]
  ELSE UNCHANGED <<prompt, decider>>

Outcome(allow) == IF allow THEN "approved" ELSE "denied"

\* ClickHere, leaving the hold timer of a remote answer running.
ClickKeepsHold(c, allow) ==
  /\ prompt[c] = "asking"
  /\ Tell(c, allow, Owner)
  /\ IF c \in pending
     THEN /\ inflight' = IF allow THEN inflight \cup {c} ELSE inflight
          /\ reports' = reports \cup Report({c}, Outcome(allow), "local")
     ELSE UNCHANGED <<inflight, reports>>
  /\ UNCHANGED <<policy, hubVars, pending, hold, call, claimed, interrupted, publishing, frames>>

\* The person at this machine answers the prompt, which the approval host may
\* have forgotten (interrupt): then nothing is reported.
ClickHere(c, allow) ==
  /\ prompt[c] = "asking"
  /\ Tell(c, allow, Owner)
  /\ IF c \in pending
     THEN /\ Forget({c})
          /\ inflight' = IF allow THEN inflight \cup {c} ELSE inflight
          /\ reports' = reports \cup Report({c}, Outcome(allow), "local")
     ELSE UNCHANGED <<pending, hold, inflight, reports>>
  /\ UNCHANGED <<policy, hubVars, call, claimed, interrupted, publishing, frames>>

\* remote(frame).
Remote(f) ==
  /\ f \in frames /\ frames' = frames \ {f}
  /\ LET c == f.card IN
     \/ /\ c \notin pending \/ hold[c] # NoAnswer       \* replay, or not here
        /\ UNCHANGED <<hold, reports>>
     \/ /\ c \in pending /\ hold[c] = NoAnswer /\ ~f.answer.good
        /\ reports' = reports \cup Report({c}, "invalid", "remote")
        /\ UNCHANGED hold
     \/ /\ c \in pending /\ hold[c] = NoAnswer /\ f.answer.good /\ f.answer.confirm
        /\ reports' = reports \cup Report({c}, "held", "remote")
        /\ UNCHANGED hold
     \/ /\ c \in pending /\ hold[c] = NoAnswer /\ f.answer.good /\ ~f.answer.confirm
        /\ hold' = [hold EXCEPT ![c] = f.answer]
        /\ UNCHANGED reports
  /\ UNCHANGED <<policy, hubVars, pending, inflight, prompt, decider, call, claimed, interrupted,
                 publishing>>

\* The hold runs out: release(p, ...).
Release(c) ==
  /\ hold[c] # NoAnswer
  /\ LET allow == hold[c].decision = "allow" IN
     /\ Tell(c, allow, hold[c].by)
     /\ inflight' = IF allow THEN inflight \cup {c} ELSE inflight
     /\ reports' = reports \cup Report({c}, Outcome(allow), "remote")
  /\ Forget({c})
  /\ UNCHANGED <<policy, hubVars, call, claimed, interrupted, publishing, frames>>

\* Two minutes without an answer: the ask-server denies, the card expires.
TimesOut(c) ==
  /\ prompt[c] = "asking"
  /\ prompt' = [prompt EXCEPT ![c] = "denied"]
  /\ reports' = reports \cup Report({c} \cap pending, "expired", "local")
  /\ Forget({c})
  /\ UNCHANGED <<policy, hubVars, inflight, decider, call, claimed, interrupted, publishing, frames>>

\* interrupt: the steer channel is stopped (a new sign-in) or the app is quitting.
\* The prompts stay on the board.  (done: approvals older than 30 s.)
Interrupt ==
  /\ pending \cup inflight # {}
  /\ \E done \in SUBSET inflight :
       reports' = reports \cup Report(pending, "expired", "local")
                          \cup Report(inflight \ done, "unknown", "local")
  /\ interrupted' = interrupted \cup pending
  /\ Forget(pending)
  /\ inflight' = {}
  /\ frames' = {}
  /\ UNCHANGED <<policy, hubVars, prompt, decider, call, claimed, publishing>>

AppGone == IF App \in channels THEN ChannelCloses(App) ELSE UNCHANGED <<channels, rec, frames>>

\* Crash, had the claims been kept in memory only.
CrashForgetsClaims ==
  /\ AppGone
  /\ Forget(pending)
  /\ inflight' = {} /\ claimed' = {}
  /\ prompt' = [c \in Cards |-> IF prompt[c] = "asking" THEN "denied" ELSE prompt[c]]
  /\ UNCHANGED <<policy, ids, due, decider, call, interrupted, publishing, reports>>

\* The app dies and restarts: only what is on disk is left.
Crash ==
  /\ AppGone
  /\ Forget(pending)
  /\ inflight' = {}
  /\ prompt' = [c \in Cards |-> IF prompt[c] = "asking" THEN "denied" ELSE prompt[c]]
  /\ UNCHANGED <<policy, ids, due, decider, call, claimed, interrupted, publishing, reports>>

-----------------------------------------------------------------------------
HubStep ==
  \/ Sweep \/ Lose
  \/ \E c \in Cards : PassesExpiry(c) \/ Open(c)
  \/ \E c \in Cards, e \in Editors, d \in Decisions, good \in BOOLEAN : Answer(c, e, d, good)
  \/ \E m \in reports : ReportArrives(m)
  \/ \E d \in Desktops : Connect(d) \/ Disconnect(d)
  \/ \E p \in {"off", "ask", "on"} : SetPolicy(p)

AppStep ==
  \/ \E c \in Cards, k \in Calls : Ask(c, k)
  \/ \E c \in Cards : Release(c) \/ TimesOut(c)
  \/ \E c \in Cards, allow \in BOOLEAN : ClickHere(c, allow)
  \/ \E f \in frames : Remote(f)
  \/ Interrupt \/ Crash

Next == HubStep \/ AppStep

Spec == Init /\ [][Next]_vars

\* The hub's timers run.
FairSpec == Spec /\ WF_vars(Sweep) /\ \A c \in Cards : WF_vars(PassesExpiry(c))
-----------------------------------------------------------------------------
(* What must hold. *)

\* A card shown as approved (denied) by someone was allowed (refused) on the machine,
\* on that person's answer.
Attributed ==
  \A c \in Cards :
    /\ Status(c) = "approved" => prompt[c] = "allowed" /\ decider[c] = rec[c].by
    /\ Status(c) = "denied" => prompt[c] = "denied" /\ decider[c] = rec[c].by

\* "an answer that was relayed and never confirmed is `unknown`, not `expired`:
\* something may have run": no card says expired when an Editor's answer let the
\* tool run.
ExpiredNotRemote ==
  \A c \in Cards : Status(c) = "expired" => ~(prompt[c] = "allowed" /\ decider[c] \in Editors)

\* What the team is told happened did happen, however the clicks, holds, re-opened
\* cards, reports and expiries overlap.
ToldTruly == Attributed /\ ExpiredNotRemote

\* "one tool call can never execute twice", across retries and restarts.
OncePerCall ==
  \A b, c \in Cards :
    prompt[b] = "allowed" /\ prompt[c] = "allowed" /\ call[b] = call[c] => b = c

\* An outcome shown to the team stays: only an approval can still turn unknown.
OutcomeStays ==
  [][\A c \in Cards : Status(c) \in Settled =>
       \/ Status(c)' \in {Status(c), "forgotten"}
       \/ Status(c) = "approved" /\ Status(c)' = "unknown"]_vars

\* "the first valid answer wins": while an Editor's matching answer is on its
\* way to the prompt, about to be applied, or applied, nobody else's is accepted.
FirstValidWins ==
  [][\A c \in Cards, e \in Editors :
       /\ \/ \E f \in frames : f.card = c /\ f.answer.good /\ f.answer.by # e
          \/ hold[c] # NoAnswer /\ hold[c].by # e
          \/ decider[c] \in Editors \ {e}
       => ~(rec'[c].status = "answered" /\ rec'[c].by = e /\ rec'[c] # rec[c])]_vars

\* No card waits for ever: re-opened, held or relayed, it is settled in the end.
CardsSettle == \A c \in Cards : Status(c) \in Live ~> Status(c) \notin Live

\* "Unanswered prompts never ran": what interrupt() reports as expired is not
\* run afterwards.
InterruptedNeverRan == \A c \in interrupted : prompt[c] # "allowed"

-----------------------------------------------------------------------------
(* The abstract specification it implements. *)

Promise == INSTANCE Permit WITH
  told <- prompt, who <- decider,
  board <- [c \in Cards |-> [status |-> rec[c].status, by |-> rec[c].by,
                             decision |-> rec[c].decision]]

\* The hub and the app together keep the promise of Permit: what the board says and what
\* the machine does agree at every step, and an outcome once shown is not taken back.
ImplementsPermit == Promise!Spec

-----------------------------------------------------------------------------
(* The inductive invariant behind them (ApprovalProofs.tla). *)

\* A card that can still be answered has mismatching answers left.
AttemptsLeft ==
  \A c \in Cards : Status(c) \in {"none", "open", "answered"} => rec[c].attempts < ReopenMax

Remotely(c, s) == [card |-> c, status |-> s, via |-> "remote"]
Locally(c, s)  == [card |-> c, status |-> s, via |-> "local"]

\* Nothing exists for a card before it is asked for, and it is published once.
Fresh ==
  /\ \A c \in Cards :
       /\ prompt[c] = "none" => /\ Status(c) = "none" /\ c \notin publishing
                               /\ \A m \in reports : m.card # c
       /\ c \in publishing => Status(c) = "none"
  /\ \A i \in 1..Len(ids) : Status(ids[i]) # "none"

\* A prompt the host knows is unanswered, and only such a prompt has a hold.
Waiting ==
  \A c \in Cards :
    /\ c \in pending => prompt[c] = "asking"
    /\ hold[c] # NoAnswer => c \in pending /\ hold[c] \in Answers
    /\ prompt[c] \in {"none", "asking"} => decider[c] = Nobody
    /\ c \in inflight => prompt[c] = "allowed"

\* What the machine reports of its own is true of it.
LocalTruth ==
  \A c \in Cards :
    /\ Locally(c, "approved") \in reports => prompt[c] = "allowed" /\ decider[c] = Owner
    /\ Locally(c, "denied") \in reports => prompt[c] = "denied" /\ decider[c] = Owner
    /\ Locally(c, "expired") \in reports => c \notin pending /\ decider[c] \notin Editors
    /\ Locally(c, "invalid") \notin reports /\ Locally(c, "held") \notin reports

FrameOf(c) == \E f \in frames : f.card = c
RemoteReport(c) == \E s \in Settled \cup {"held", "invalid"} : Remotely(c, s) \in reports

\* The answer relayed for a card is in one place: a frame on the channel, a hold,
\* an objection under way, or the prompt itself.
OneAnswer ==
  /\ \A f, g \in frames : f.card = g.card => f = g
  /\ \A c \in Cards :
       /\ FrameOf(c) => hold[c] = NoAnswer /\ decider[c] \notin Editors /\ ~RemoteReport(c)
       /\ hold[c] # NoAnswer => ~RemoteReport(c)
       /\ Remotely(c, "invalid") \in reports \/ Remotely(c, "held") \in reports
            => decider[c] \notin Editors
       /\ ~(Remotely(c, "invalid") \in reports /\ Remotely(c, "held") \in reports)
       /\ Remotely(c, "approved") \in reports => prompt[c] = "allowed" /\ decider[c] \in Editors
       /\ Remotely(c, "denied") \in reports => prompt[c] = "denied" /\ decider[c] \in Editors
       /\ Remotely(c, "expired") \notin reports /\ Remotely(c, "unknown") \notin reports

\* Before the hub has accepted an answer there is none.
NoneYet ==
  \A c \in Cards : Status(c) \in {"none", "open"} =>
    ~FrameOf(c) /\ hold[c] = NoAnswer /\ ~RemoteReport(c) /\ decider[c] \notin Editors

\* The relayed answer is the one the hub has on record.
Recorded ==
  \A c \in Cards : Status(c) = "answered" =>
    /\ \A f \in frames : f.card = c => f.answer.by = rec[c].by /\ f.answer.decision = rec[c].decision
    /\ hold[c] # NoAnswer => hold[c].by = rec[c].by /\ hold[c].decision = rec[c].decision
    /\ decider[c] \in Editors => decider[c] = rec[c].by

\* A card held for its owner's click, or expired, will not be decided remotely.
NoLongerRemote ==
  \A c \in Cards : Status(c) \in {"held", "expired"} =>
    decider[c] \notin Editors /\ hold[c] = NoAnswer /\ (c \in pending => ~FrameOf(c))

\* A call that is being asked, or was allowed, is claimed by one ask.
ClaimedOnce ==
  /\ \A c \in Cards : prompt[c] \in {"asking", "allowed"} => \E k \in claimed : call[c] = {k}
  /\ \A b, c \in Cards : /\ prompt[b] \in {"asking", "allowed"}
                        /\ prompt[c] \in {"asking", "allowed"}
                        /\ call[b] = call[c]
                        => b = c

ApprovalInv ==
  /\ Fresh /\ Waiting /\ LocalTruth /\ OneAnswer /\ NoneYet /\ Recorded /\ NoLongerRemote
  /\ Attributed /\ ClaimedOnce
=============================================================================
