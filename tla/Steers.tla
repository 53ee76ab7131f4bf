------------------------------- MODULE Steers -------------------------------
(***************************************************************************)
(* Steering a teammate's agent and starting an agent on a teammate's       *)
(* machine: the hub's POST /api/steer, /api/spawn and /api/steer/status    *)
(* (hub/server.mjs) and the owner's inboxes (desktop/agent-steer.js,       *)
(* desktop/agent-spawn.js) as desktop/main.js wires them.                  *)
(*                                                                         *)
(* One target person, who runs the desktops in Desktops; each of them with *)
(* an open channel receives every request.  A desktop's handler runs one   *)
(* request at a time through its awaits: each await of a report is a call  *)
(* in flight (posts), which the hub answers, or which fails, or which      *)
(* times out and is then applied late or never.  The sealed text, the rate *)
(* limits and the shape checks of the request are left out; a report's     *)
(* reason is left out.                                                     *)
(***************************************************************************)
EXTENDS Naturals, FiniteSets

CONSTANTS
    Requests,    \* ids of requests, each chosen afresh by its sender
    Spawns,      \* those that start an agent; the others steer one
    Desktops,    \* the target person's machines
    MaxRunning,  \* MAX_RUNNING: agents teammates may have running on one
    PendingMax,  \* SPAWN_PENDING_MAX: spawns waiting on one person
    MaxFrames,   \* bound: frames the hub writes, and requests it turns away, in all
    MaxFaults    \* bound: policy changes, failed or slow reports, dropped
                 \* channels, crashes, hub restarts, records evicted

ASSUME SteersAssumption ==
    /\ Spawns \subseteq Requests
    /\ IsFiniteSet(Desktops)
    /\ MaxRunning \in Nat /\ PendingMax \in Nat
    /\ MaxFrames \in Nat /\ MaxFaults \in Nat

VARIABLES
    policy,   \* accounts.policy.steer
    status,   \* byId: each request's record; "none" before it is sent
    under,    \* the policy a request was relayed under
    marked,   \* board.startedBy: spawns whose session the board names
    up,       \* desktops with an open channel
    pc,       \* where a desktop's handler of a request is
    posts,    \* status reports in flight
    running,  \* remoteStarted, and still running, on each desktop
    ran,      \* history: <<d, q>>, the prompt reached an agent there
    said,     \* history: <<d, q>>, the person there approved it
    aimed,    \* history: the desktops a request's frame was written to
    troubled, \* history: requests one of whose reports failed or came late
    faults

vars == <<policy, status, under, marked, up, pc, posts, running, ran, said,
          aimed, troubled, faults>>

Policies == {"off", "ask", "on"}

\* Mutant of OwnerStatuses: one set for both kinds.
OwnerStatusesOfSteers(q) == {"delivered", "accepted", "declined"}

\* The statuses an owner may report (STEER_OWNER_STATUSES, SPAWN_OWNER_STATUSES).
OwnerStatuses(q) ==
    {"delivered", "accepted", "declined"}
        \cup IF q \in Spawns THEN {"no-such-repo", "started", "start-failed"} ELSE {}

Statuses == {"none", "refused-by-policy", "unknown-agent", "offline", "queued",
             "forgotten", "delivered", "accepted", "declined", "no-such-repo",
             "started", "start-failed"}

\* What a handler ends with, which is what it reports last.
Endings == {"accepted", "declined", "no-such-repo", "started", "start-failed"}

\* Places a handler waits in.  "sent": its frame is on the channel; "gone": the
\* frame or the handler was lost.
Places == {"none", "sent", "delivering", "asking", "injecting", "accepting",
           "naming", "gone"} \cup Endings
SpawnPlaces == {"accepting", "naming", "no-such-repo", "started", "start-failed"}

Post == [d: Desktops, q: Requests, status: Statuses, named: BOOLEAN, late: BOOLEAN]

Init ==
    /\ policy \in Policies
    /\ status = [q \in Requests |-> "none"]
    /\ under = [q \in Requests |-> "off"]
    /\ marked = {}
    /\ up = {}
    /\ pc = [d \in Desktops |-> [q \in Requests |-> "none"]]
    /\ posts = {}
    /\ running = [d \in Desktops |-> {}]
    /\ ran = {} /\ said = {} /\ troubled = {}
    /\ aimed = [q \in Requests |-> {}]
    /\ faults = 0

-----------------------------------------------------------------------------
(* The hub *)

\* Spawns that count against SPAWN_PENDING_MAX.
Waiting == {q \in Spawns : status[q] \in {"queued", "delivered"}}

\* What MaxFrames counts.
Frames == Cardinality({x \in Desktops \X Requests : x[1] \in aimed[x[2]]})
Kept == Cardinality({q \in Requests : status[q] # "none" /\ aimed[q] = {}})
Fits(n) == Frames + Kept + n <= MaxFrames

\* A request that cannot be relayed is remembered with the reason.  Whether a
\* steered agent is on the board is up to the board; a spawn names none.
Turned(q, why) ==
    /\ Fits(1)
    /\ status' = [status EXCEPT ![q] = why]
    /\ UNCHANGED <<policy, under, marked, up, pc, posts, running, ran, said,
                   aimed, troubled, faults>>

\* A spawn beyond SPAWN_PENDING_MAX is answered 429 and not remembered.
Room(q) == q \in Spawns => Cardinality(Waiting) < PendingMax

Refuse(q) == status[q] = "none" /\ policy = "off" /\ Turned(q, "refused-by-policy")

Unknown(q) ==
    /\ status[q] = "none" /\ policy # "off" /\ q \notin Spawns
    /\ Turned(q, "unknown-agent")

Offline(q) ==
    /\ status[q] = "none" /\ policy # "off" /\ Room(q)
    /\ up = {}
    /\ Turned(q, "offline")

\* Written to every open channel of the person; the record is queued in the
\* same turn of the event loop.
Relay(q) ==
    /\ status[q] = "none" /\ policy # "off" /\ Room(q)
    /\ up # {} /\ Fits(Cardinality(up))
    /\ status' = [status EXCEPT ![q] = "queued"]
    /\ under' = [under EXCEPT ![q] = policy]
    /\ aimed' = [aimed EXCEPT ![q] = up]
    /\ pc' = [d \in Desktops |-> IF d \in up THEN [pc[d] EXCEPT ![q] = "sent"] ELSE pc[d]]
    /\ UNCHANGED <<policy, marked, up, posts, running, ran, said, troubled, faults>>

\* Mutant of Approval: only an explicit TRUE asks, and the hub never says so.
ApprovalNever(q) == under[q] = "off"

\* approval: the frame's flag; anything but an explicit FALSE asks.
Approval(q) == under[q] = "ask"

\* Mutant of Open: an accepted request is settled, whatever its kind.
OpenSteers(q, s) ==
    CASE s = "start-failed" -> {"started"}
      [] s = "started"      -> {"accepted"}
      [] OTHER              -> {"queued", "delivered"}

\* The statuses a record may be in when `s` is reported.
Open(q, s) ==
    CASE s = "start-failed" -> {"started"}
      [] s = "started"      -> {"accepted"}
      [] OTHER              ->
            {"queued", "delivered"} \cup IF q \in Spawns THEN {"accepted"} ELSE {}

Takes(p) == p.status \in OwnerStatuses(p.q) /\ status[p.q] \in Open(p.q, p.status)

\* POST /api/steer/status: taken, or refused and nothing changes.  Either way
\* the handler that awaits it goes on.
HubStatus(p) ==
    /\ p \in posts
    /\ posts' = posts \ {p}
    /\ IF Takes(p)
       THEN /\ status' = [status EXCEPT ![p.q] = p.status]
            /\ marked' = IF p.status = "started" /\ p.named THEN marked \cup {p.q} ELSE marked
       ELSE UNCHANGED <<status, marked>>
    /\ UNCHANGED <<policy, under, up, pc, running, ran, said, aimed,
                   troubled, faults>>

Fault == faults < MaxFaults /\ faults' = faults + 1

\* steerRemember keeps STEER_KEEP records, the newest.
Evict(q) ==
    /\ Fault /\ status[q] # "none"
    /\ status' = [status EXCEPT ![q] = "forgotten"]
    /\ UNCHANGED <<policy, under, marked, up, pc, posts, running, ran, said, aimed,
                   troubled>>

SetPolicy(v) ==
    /\ Fault /\ v # policy
    /\ policy' = v
    /\ UNCHANGED <<status, under, marked, up, pc, posts, running, ran, said, aimed,
                   troubled>>

-----------------------------------------------------------------------------
(* A desktop's handler *)

\* The handler awaits its own report: report() swallows a failure.
Awaiting(d, q) == \E p \in posts : p.d = d /\ p.q = q /\ ~p.late

Goto(d, q, place) == pc' = [pc EXCEPT ![d][q] = place]

Report(d, q, s, named, place) ==
    /\ posts' = posts \cup {[d |-> d, q |-> q, status |-> s, named |-> named, late |-> FALSE]}
    /\ Goto(d, q, place)

Declined(d, q) == Report(d, q, "declined", FALSE, "declined")

\* The frame is read and opened, or cannot be opened here.
Take(d, q) ==
    /\ pc[d][q] = "sent"
    /\ \/ Report(d, q, "delivered", FALSE, "delivering")
       \/ Declined(d, q)
    /\ UNCHANGED <<policy, status, under, marked, up, running, ran, said, aimed,
                   troubled, faults>>

Full(d) == Cardinality(running[d]) >= MaxRunning

\* What follows the checks and the approval: a steer is injected; a spawn is
\* checked against the cap, and `accepted` is reported before the start.
Go(d, q) ==
    \/ q \notin Spawns /\ Goto(d, q, "injecting") /\ UNCHANGED posts
    \/ q \in Spawns /\ ~Full(d) /\ Report(d, q, "accepted", FALSE, "accepting")
    \/ q \in Spawns /\ Full(d) /\ Declined(d, q)

\* After `delivered`: no such console or text, no such repo, the cap, the
\* approval (no window: nobody to ask), or straight on.
Check(d, q) ==
    /\ pc[d][q] = "delivering" /\ ~Awaiting(d, q)
    /\ \/ Declined(d, q)
       \/ q \in Spawns /\ Report(d, q, "no-such-repo", FALSE, "no-such-repo")
       \/ /\ Approval(q) /\ (q \in Spawns => ~Full(d))
          /\ Goto(d, q, "asking")
          /\ UNCHANGED posts
       \/ ~Approval(q) /\ Go(d, q)
    /\ UNCHANGED <<policy, status, under, marked, up, running, ran, said, aimed,
                   troubled, faults>>

\* local:steerAnswer
Approve(d, q) ==
    /\ pc[d][q] = "asking"
    /\ said' = said \cup {<<d, q>>}
    /\ Go(d, q)
    /\ UNCHANGED <<policy, status, under, marked, up, running, ran, aimed, troubled, faults>>

\* Mutant of NotApproved: a timer that stops with the channel.
NotApprovedOnline(d, q) ==
    /\ pc[d][q] = "asking" /\ d \in up
    /\ Declined(d, q)
    /\ UNCHANGED <<policy, status, under, marked, up, running, ran, said, aimed,
                   troubled, faults>>

\* Declined by the person, or not answered within ASK_TIMEOUT_MS.
NotApproved(d, q) ==
    /\ pc[d][q] = "asking"
    /\ Declined(d, q)
    /\ UNCHANGED <<policy, status, under, marked, up, running, ran, said, aimed,
                   troubled, faults>>

\* Mutant of Inject: accepted is reported whatever the agent answered.
InjectUnheard(d, q) ==
    /\ pc[d][q] = "injecting"
    /\ ran' \in {ran, ran \cup {<<d, q>>}}
    /\ Report(d, q, "accepted", FALSE, "accepted")
    /\ UNCHANGED <<policy, status, under, marked, up, running, said, aimed,
                   troubled, faults>>

\* injectSteer: taken; not taken; or reported as not taken (the board accepted
\* it and did not finish in time) and taken all the same.
Inject(d, q) ==
    /\ pc[d][q] = "injecting"
    /\ \/ ran' = ran \cup {<<d, q>>} /\ Report(d, q, "accepted", FALSE, "accepted")
       \/ ran' \in {ran, ran \cup {<<d, q>>}} /\ Declined(d, q)
    /\ UNCHANGED <<policy, status, under, marked, up, running, said, aimed,
                   troubled, faults>>

\* startAndBrief: the agent is started and prompted; or not started; or started
\* (and counted in remoteStarted) but its prompt could not be sent.
Start(d, q) ==
    /\ pc[d][q] = "accepting" /\ ~Awaiting(d, q)
    /\ \/ /\ running' = [running EXCEPT ![d] = @ \cup {q}]
          /\ ran' = ran \cup {<<d, q>>}
          /\ Goto(d, q, "naming")
          /\ UNCHANGED posts
       \/ /\ running' \in {running, [running EXCEPT ![d] = @ \cup {q}]}
          /\ Declined(d, q)
          /\ UNCHANGED ran
    /\ UNCHANGED <<policy, status, under, marked, up, said, aimed, troubled, faults>>

\* The session id is known, or not within SESSION_WAIT_MS; either way `started`.
Started(d, q) ==
    /\ pc[d][q] = "naming"
    /\ \E named \in BOOLEAN : Report(d, q, "started", named, "started")
    /\ UNCHANGED <<policy, status, under, marked, up, running, ran, said, aimed,
                   troubled, faults>>

\* watchOutcome, once `started` is answered: the agent could not work after all.
\* When its first turn lands, nothing is reported.
Outcome(d, q) ==
    /\ pc[d][q] = "started" /\ ~Awaiting(d, q)
    /\ Report(d, q, "start-failed", FALSE, "start-failed")
    /\ UNCHANGED <<policy, status, under, marked, up, running, ran, said, aimed,
                   troubled, faults>>

AgentEnds(d, q) ==
    /\ q \in running[d]
    /\ running' = [running EXCEPT ![d] = @ \ {q}]
    /\ UNCHANGED <<policy, status, under, marked, up, pc, posts, ran, said, aimed,
                   troubled, faults>>

-----------------------------------------------------------------------------
(* The network, crashes *)

\* The report's request fails, or had failed: it is never applied.
Lose(p) ==
    /\ Fault /\ p \in posts
    /\ posts' = posts \ {p}
    /\ troubled' = troubled \cup {p.q}
    /\ UNCHANGED <<policy, status, under, marked, up, pc, running, ran, said, aimed>>

\* The caller's 10 s run out while the request is under way.
GiveUp(p) ==
    /\ Fault /\ p \in posts /\ ~p.late
    /\ posts' = (posts \ {p}) \cup {[p EXCEPT !.late = TRUE]}
    /\ troubled' = troubled \cup {p.q}
    /\ UNCHANGED <<policy, status, under, marked, up, pc, running, ran, said, aimed>>

Connect(d) ==
    /\ d \notin up
    /\ up' = up \cup {d}
    /\ UNCHANGED <<policy, status, under, marked, pc, posts, running, ran, said,
                   aimed, troubled, faults>>

\* Frames on a channel that breaks are lost: the hub does not repeat them.
Unread(d) == [q \in Requests |-> IF pc[d][q] = "sent" THEN "gone" ELSE pc[d][q]]

Drop(d) ==
    /\ Fault /\ d \in up
    /\ up' = up \ {d}
    /\ pc' = [pc EXCEPT ![d] = Unread(d)]
    /\ UNCHANGED <<policy, status, under, marked, posts, running, ran, said, aimed,
                   troubled>>

\* stopSteerChannel: besides, every open question is answered null.
StopChannel(d) ==
    LET asked == {q \in Requests : pc[d][q] = "asking"} IN
    /\ Fault /\ d \in up
    /\ up' = up \ {d}
    /\ pc' = [pc EXCEPT ![d] =
                 [q \in Requests |-> IF q \in asked THEN "declined" ELSE Unread(d)[q]]]
    /\ posts' = posts \cup {[d |-> d, q |-> q, status |-> "declined", named |-> FALSE,
                             late |-> FALSE] : q \in asked}
    /\ UNCHANGED <<policy, status, under, marked, running, ran, said, aimed, troubled>>

\* The app dies: its handlers and its agents with it; reports under way may
\* still arrive.
Crash(d) ==
    LET mine == {p \in posts : p.d = d} IN
    /\ Fault
    /\ up' = up \ {d}
    /\ pc' = [pc EXCEPT ![d] =
                 [q \in Requests |-> IF pc[d][q] = "none" THEN "none" ELSE "gone"]]
    /\ running' = [running EXCEPT ![d] = {}]
    /\ posts' = (posts \ mine) \cup {[p EXCEPT !.late = TRUE] : p \in mine}
    /\ troubled' = troubled \cup {p.q : p \in mine}
    /\ UNCHANGED <<policy, status, under, marked, ran, said, aimed>>

\* The records and the marks are in memory only; the policy is on disk.
HubRestart ==
    /\ Fault
    /\ status' = [q \in Requests |-> IF status[q] = "none" THEN "none" ELSE "forgotten"]
    /\ marked' = {}
    /\ up' = {}
    /\ pc' = [d \in Desktops |-> Unread(d)]
    /\ UNCHANGED <<policy, under, posts, running, ran, said, aimed, troubled>>

-----------------------------------------------------------------------------
Handler(d, q) ==
    \/ Take(d, q) \/ Check(d, q) \/ NotApproved(d, q) \/ Inject(d, q) \/ Start(d, q)
    \/ Started(d, q)

Next ==
    \/ \E q \in Requests : Refuse(q) \/ Unknown(q) \/ Offline(q) \/ Relay(q) \/ Evict(q)
    \/ \E p \in posts : HubStatus(p) \/ Lose(p) \/ GiveUp(p)
    \/ \E v \in Policies : SetPolicy(v)
    \/ \E d \in Desktops, q \in Requests :
          Handler(d, q) \/ Approve(d, q) \/ Outcome(d, q) \/ AgentEnds(d, q)
    \/ \E d \in Desktops : Connect(d) \/ Drop(d) \/ StopChannel(d) \/ Crash(d)
    \/ HubRestart

\* A handler's continuation runs once what it awaits is there; a question has a
\* timer (NotApproved); and a report ends, at the latest with its 10 s.
Fairness ==
    /\ \A d \in Desktops, q \in Requests : WF_vars(Handler(d, q))
    /\ WF_vars(\E p \in posts : HubStatus(p) \/ Lose(p) \/ GiveUp(p))

Spec == Init /\ [][Next]_vars
FairSpec == Spec /\ Fairness
-----------------------------------------------------------------------------
(* Properties *)

\* Every variable stays in its domain, and a report in flight is one its
\* desktop may make.
TypeOK ==
    /\ policy \in Policies
    /\ status \in [Requests -> Statuses]
    /\ under \in [Requests -> Policies]
    /\ marked \subseteq Spawns
    /\ up \subseteq Desktops
    /\ pc \in [Desktops -> [Requests -> Places]]
    /\ \A d \in Desktops, q \in Requests \ Spawns : pc[d][q] \notin SpawnPlaces
    /\ posts \subseteq Post /\ \A p \in posts : p.status \in OwnerStatuses(p.q)
    /\ running \in [Desktops -> SUBSET Spawns]
    /\ ran \subseteq Desktops \X Requests /\ said \subseteq Desktops \X Requests
    /\ aimed \in [Requests -> SUBSET Desktops]
    /\ troubled \subseteq Requests
    /\ faults \in Nat

\* "In the owner's app, nothing reaches the agent until they approve"
\* (README.md:415-416, agent-steer.js:10-12): a prompt runs, and an agent is
\* started, only on a desktop whose person approved it there, or when the team's
\* policy was `on` as the hub relayed it; never on another desktop's approval.
OnlyConsented ==
    \A d \in Desktops, q \in Requests :
        <<d, q>> \in ran \/ q \in running[d] =>
            under[q] = "on" \/ (under[q] = "ask" /\ <<d, q>> \in said)

\* What the hub tells the sender of a success is true (agent-steer.js:11-13):
\* an accepted steer was injected, a spawn said to be started, or marked
\* `started by` on the board, had its prompt sent to an agent, and what was
\* turned away reached no agent.
SenderTold ==
    \A q \in Requests :
        LET reached == \E d \in Desktops : <<d, q>> \in ran IN
        /\ q \notin Spawns /\ status[q] = "accepted" => reached
        /\ status[q] \in {"started", "start-failed"} \/ q \in marked => reached
        /\ status[q] \in {"none", "refused-by-policy", "unknown-agent", "offline"} => ~reached

\* "Every ending is reported back" (agent-steer.js:12-13): a request only one
\* desktop got, none of whose reports failed, ends at the hub as that desktop
\* last said; the hub refuses none of the reports of the protocol.
EndingReported ==
    \A d \in Desktops, q \in Requests :
        LET ended == pc[d][q] \in Endings /\ ~Awaiting(d, q)
            fair  == aimed[q] = {d} /\ q \notin troubled /\ status[q] # "forgotten"
        IN  ended /\ fair => status[q] = pc[d][q]

\* A handler that took a frame ends: no answer, report or channel it waits for
\* can hold it (the timers of agent-steer.js:165 and main.js:5180).
EveryHandlerEnds ==
    \A d \in Desktops, q \in Requests :
        pc[d][q] = "sent" ~> pc[d][q] \in Endings \cup {"gone"}

\* "at most three agents started by teammates run on one machine at a time"
\* (README.md:440).  Not so under the policy `on`: section 5 of the README.
CapKept == \A d \in Desktops : Cardinality(running[d]) <= MaxRunning
=============================================================================
