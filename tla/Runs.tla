-------------------------------- MODULE Runs --------------------------------
(***************************************************************************)
(* Masora agent runs on one desktop (desktop/masora-runs.js, wired by      *)
(* desktop/masora-runs-wire.js): the poller claims a queued run, writes it *)
(* to its ledger, starts it as a console, watches the console, and reports *)
(* how it ended.                                                           *)
(*                                                                         *)
(* tick() and #watch are each one place they wait in; every report is a    *)
(* call under way (posts), which reaches Masora or not and whose answer    *)
(* comes back or not.  A write of the ledger may fail, and the app may die  *)
(* or quit at any moment; its consoles die with it (those a payload swap   *)
(* brings back are idle and nobody watches them).  What a report says is   *)
(* kept to what the properties tell apart: a prompt waits, the run ended,  *)
(* or the desktop restarted.  Fewer runs than LEDGER_MAX, a readable       *)
(* ledger, a paired desktop; the outcome shown on the console's row is     *)
(* left out.                                                               *)
(***************************************************************************)
EXTENDS Naturals, FiniteSets

CONSTANTS
    Runs,      \* runs Masora has queued for this desktop
    NoRun,
    MaxTrouble \* bound: deaths of the app, ledger writes that fail

ASSUME RunsAssumption == NoRun \notin Runs /\ MaxTrouble \in Nat

VARIABLES
    told,    \* Masora: the ends reported of each run
    late,    \* runs past their runBound
    expired, \* runs whose token has expired
    enabled, \* the setting `runs`
    disk,    \* masora-runs.json: [ids, open]
    up,      \* the app is running
    ids,     \* ledger.ids: runs ever claimed here
    open,    \* ledger.open: claimed and not reported
    tick,    \* where tick() is
    todo,    \* its owed runs still to be abandoned
    busy,
    mine,    \* the run that is starting or watched
    watch,   \* where #watch is
    asked,   \* needsReported
    posts,   \* reports under way
    con,     \* the console of each run
    begun,   \* history: how often each brief was sent to an agent
    trouble

vars == <<told, late, expired, enabled, disk, up, ids, open, tick, todo, busy, mine,
          watch, asked, posts, con, begun, trouble>>
masora == <<told, late, expired, enabled>>
watcher == <<busy, mine, watch, asked>>

Ends == {"ended", "restarted"}
Says == Ends \cup {"needs you"}

\* Whose report it is: #abandon's of an owed run, or of one offered again; one that
\* the tick does not wait for (a run refused or not started); #watch's.
Post == [run : Runs, says : Says, by : {"owed", "again", "aside", "watch"},
         reached : BOOLEAN]
Report(r, says, by) == [run |-> r, says |-> says, by |-> by, reached |-> FALSE]

Init ==
    /\ told = [r \in Runs |-> {}] /\ late = {} /\ expired = {}
    /\ enabled \in BOOLEAN
    /\ disk = [ids |-> {}, open |-> {}]
    /\ up = TRUE /\ ids = {} /\ open = {}
    /\ tick = "rest" /\ todo = {}
    /\ busy = FALSE /\ mine = NoRun /\ watch = "off" /\ asked = FALSE
    /\ posts = {}
    /\ con = [r \in Runs |-> "none"]
    /\ begun = [r \in Runs |-> 0]
    /\ trouble = 0

Trouble == trouble < MaxTrouble /\ trouble' = trouble + 1

\* writeLedger, of the ledger as it now is; it throws when the file cannot be written.
Written == disk' = [ids |-> ids', open |-> open'] /\ UNCHANGED trouble
NotWritten == Trouble /\ UNCHANGED disk

-----------------------------------------------------------------------------
(* Masora, its clock, and the network *)

\* A re-offered run comes with a token of its own.
Valid(p) == p.by = "again" \/ p.run \notin expired

Reach(p) ==
    /\ ~p.reached /\ Valid(p)
    /\ told' = [told EXCEPT ![p.run] = @ \cup ({p.says} \cap Ends)]
    /\ posts' = (posts \ {p}) \cup {[p EXCEPT !.reached = TRUE]}
    /\ UNCHANGED <<late, expired, enabled, disk, up, ids, open, tick, todo, con, begun,
                   trouble>>
    /\ UNCHANGED watcher

TimeUp(r) ==
    /\ r \notin late
    /\ late' = late \cup {r}
    /\ UNCHANGED <<told, expired, enabled, disk, up, ids, open, tick, todo, posts, con,
                   begun, trouble>>
    /\ UNCHANGED watcher

\* runBound is never after the token's expiry.
Expire(r) ==
    /\ r \in late \ expired
    /\ expired' = expired \cup {r}
    /\ UNCHANGED <<told, late, enabled, disk, up, ids, open, tick, todo, posts, con,
                   begun, trouble>>
    /\ UNCHANGED watcher

Switch ==
    /\ enabled' = ~enabled
    /\ UNCHANGED <<told, late, expired, disk, up, ids, open, tick, todo, posts, con,
                   begun, trouble>>
    /\ UNCHANGED watcher

-----------------------------------------------------------------------------
(* tick *)

\* Mutant of Tick: a running run does not stop the next poll.
TickAnyway ==
    /\ up /\ tick = "rest"
    /\ tick' = "owing" /\ todo' = open
    /\ UNCHANGED <<disk, up, ids, open, posts, con, begun, trouble>>
    /\ UNCHANGED masora /\ UNCHANGED watcher

\* The 30 s timer; first the runs that are owed a report.
Tick ==
    /\ up /\ ~busy /\ tick = "rest"
    /\ tick' = "owing" /\ todo' = open
    /\ UNCHANGED <<disk, up, ids, open, posts, con, begun, trouble>>
    /\ UNCHANGED masora /\ UNCHANGED watcher

\* #close inside the tick: a write that throws ends the tick.
CloseOwed(r, next) ==
    /\ open' = open \ {r} /\ ids' = ids
    /\ \/ Written /\ tick' = next /\ todo' = todo \ {r}
       \/ NotWritten /\ tick' = "rest" /\ todo' = {}

\* #abandon: an expired token is not presented, its run is forgotten.
Abandon(r) ==
    /\ tick = "owing" /\ r \in todo
    /\ IF r \in expired
       THEN CloseOwed(r, "owing") /\ UNCHANGED posts
       ELSE /\ posts' = posts \cup {Report(r, "restarted", "owed")}
            /\ tick' = "abandoning"
            /\ UNCHANGED <<disk, ids, open, todo, trouble>>
    /\ UNCHANGED <<up, con, begun>>
    /\ UNCHANGED masora /\ UNCHANGED watcher

\* Its report was taken, or a token is refused: closed.  Anything else: another time.
Abandoned(p) ==
    LET next == IF p.by = "owed" THEN "owing" ELSE "rest" IN
    /\ p.by \in {"owed", "again"}
    /\ posts' = posts \ {p}
    /\ \/ (p.reached \/ p.run \in expired) /\ CloseOwed(p.run, next)
       \/ Valid(p) /\ tick' = next /\ todo' = todo \ {p.run}
          /\ UNCHANGED <<disk, ids, open, trouble>>
    /\ UNCHANGED <<up, con, begun>>
    /\ UNCHANGED masora /\ UNCHANGED watcher

\* Nothing is owed that can be told now: claim, if runs are on.
Ask ==
    /\ tick = "owing" /\ todo = {}
    /\ tick' = IF enabled THEN "claiming" ELSE "rest"
    /\ UNCHANGED <<disk, up, ids, open, todo, posts, con, begun, trouble>>
    /\ UNCHANGED masora /\ UNCHANGED watcher

\* No run, or the answer did not come.
NoAnswer ==
    /\ tick = "claiming"
    /\ tick' = "rest"
    /\ UNCHANGED <<disk, up, ids, open, todo, posts, con, begun, trouble>>
    /\ UNCHANGED masora /\ UNCHANGED watcher

\* Masora hands out a run whose end it has not heard of, perhaps again.
Offered(r) == tick = "claiming" /\ told[r] = {}

OfferedAgain(r) ==
    /\ Offered(r) /\ r \in ids
    /\ IF r \in open
       THEN posts' = posts \cup {Report(r, "restarted", "again")} /\ tick' = "again"
       ELSE tick' = "rest" /\ UNCHANGED posts
    /\ UNCHANGED <<disk, up, ids, open, todo, con, begun, trouble>>
    /\ UNCHANGED masora /\ UNCHANGED watcher

\* On the ledger before anything else: if it cannot be written, nothing starts.
Recorded(r) == ids' = ids \cup {r} /\ open' = open \cup {r} /\ Written

ClaimUnwritten(r) ==
    /\ Offered(r) /\ r \notin ids
    /\ ids' = ids \cup {r} /\ open' = open \cup {r} /\ NotWritten
    /\ tick' = "rest"
    /\ UNCHANGED <<up, todo, posts, con, begun>>
    /\ UNCHANGED masora /\ UNCHANGED watcher

\* The token is dead on arrival: the ledger is written twice, and the second may fail.
ClaimDead(r) ==
    /\ Offered(r) /\ r \notin ids /\ r \in expired
    /\ ids' = ids \cup {r} /\ open' = open
    /\ \/ Written
       \/ Trouble /\ disk' = [ids |-> ids', open |-> open \cup {r}]
    /\ tick' = "rest"
    /\ UNCHANGED <<up, todo, posts, con, begun>>
    /\ UNCHANGED masora /\ UNCHANGED watcher

\* #refusal: the run may act, or nobody is known to pay.
Refuse(r) ==
    /\ Offered(r) /\ r \notin ids /\ r \notin expired
    /\ Recorded(r)
    /\ posts' = posts \cup {Report(r, "ended", "aside")}
    /\ tick' = "rest"
    /\ UNCHANGED <<up, todo, con, begun>>
    /\ UNCHANGED masora /\ UNCHANGED watcher

\* Mutant of Claim: the ledger is written when the run is closed.
ClaimUnrecorded(r) ==
    /\ Offered(r) /\ r \notin ids /\ r \notin expired
    /\ ids' = ids \cup {r} /\ open' = open \cup {r}
    /\ busy' = TRUE /\ mine' = r
    /\ tick' = "starting"
    /\ UNCHANGED <<disk, up, todo, watch, asked, posts, con, begun, trouble>>
    /\ UNCHANGED masora

Claim(r) ==
    /\ Offered(r) /\ r \notin ids /\ r \notin expired
    /\ Recorded(r)
    /\ busy' = TRUE /\ mine' = r
    /\ tick' = "starting"
    /\ UNCHANGED <<up, todo, watch, asked, posts, con, begun>>
    /\ UNCHANGED masora

\* No such folder, no agent, or its prompt could not be sent (a console that is left is
\* not the run's).
NotStarted ==
    /\ tick = "starting"
    /\ tick' = "rest" /\ busy' = FALSE /\ mine' = NoRun
    /\ posts' = posts \cup {Report(mine, "ended", "aside")}
    /\ UNCHANGED <<disk, up, ids, open, todo, watch, asked, con, begun, trouble>>
    /\ UNCHANGED masora

Started ==
    /\ tick = "starting"
    /\ tick' = "rest" /\ watch' = "loop"
    /\ con' = [con EXCEPT ![mine] = "working"]
    /\ begun' = [begun EXCEPT ![mine] = @ + 1]
    /\ UNCHANGED <<disk, up, ids, open, todo, busy, mine, asked, posts, trouble>>
    /\ UNCHANGED masora

\* #report of a run that did not start: closed whatever became of it.
AsideEnds(p) ==
    /\ p.by = "aside"
    /\ posts' = posts \ {p}
    /\ open' = open \ {p.run} /\ ids' = ids /\ (Written \/ NotWritten)
    /\ UNCHANGED <<up, tick, todo, con, begun>>
    /\ UNCHANGED masora /\ UNCHANGED watcher

-----------------------------------------------------------------------------
(* The console: its agent, and the people who see it *)

Becomes(r, state) ==
    /\ con' = [con EXCEPT ![r] = state]
    /\ UNCHANGED <<disk, up, ids, open, tick, todo, posts, begun, trouble>>
    /\ UNCHANGED masora /\ UNCHANGED watcher

TurnEnds(r) == con[r] = "working" /\ Becomes(r, "idle")
AsksLeave(r) == con[r] = "working" /\ Becomes(r, "asking")
GetsAnswer(r) == con[r] = "asking" /\ Becomes(r, "working")
Exits(r) == con[r] \in {"working", "asking", "idle"} /\ Becomes(r, "exited")
Prompted(r) == con[r] \in {"idle", "exited"} /\ Becomes(r, "working")
ThreadClosed(r) == con[r] # "none" /\ Becomes(r, "none")

-----------------------------------------------------------------------------
(* #watch *)

Waits(says, next) ==
    /\ posts' = posts \cup {Report(mine, says, "watch")}
    /\ watch' = next
    /\ UNCHANGED <<disk, up, ids, open, tick, todo, busy, mine, begun, trouble>>
    /\ UNCHANGED masora

\* The console has vanished.
Vanished ==
    /\ watch = "loop" /\ con[mine] = "none"
    /\ Waits("ended", "last")
    /\ UNCHANGED <<asked, con>>

\* It has exited, or is idle after a turn: done, or failed.
Finished ==
    /\ watch = "loop" /\ con[mine] \in {"exited", "idle"}
    /\ Waits("ended", "finish")
    /\ UNCHANGED <<asked, con>>

\* A permission prompt is open: said once while it is.
NeedsYou ==
    /\ watch = "loop" /\ con[mine] = "asking" /\ ~asked
    /\ asked' = TRUE
    /\ Waits("needs you", "needs")
    /\ UNCHANGED con

Answered ==
    /\ watch = "loop" /\ con[mine] = "working" /\ asked /\ mine \notin late
    /\ asked' = FALSE
    /\ UNCHANGED <<disk, up, ids, open, tick, todo, busy, mine, watch, posts, con, begun,
                   trouble>>
    /\ UNCHANGED masora

\* d.stop, of a console that may be gone.
Stopped == [con EXCEPT ![mine] = IF @ = "none" THEN @ ELSE "exited"]

\* Mutant of Deadline: a prompt that waits has no deadline.
DeadlineOfWork ==
    /\ watch = "loop" /\ mine \in late /\ con[mine] = "working"
    /\ con' = Stopped
    /\ Waits("ended", "last")
    /\ UNCHANGED asked

\* Past its bound it is stopped.
Deadline ==
    /\ watch = "loop" /\ mine \in late
    /\ con[mine] = "working" \/ (con[mine] = "asking" /\ asked)
    /\ con' = Stopped
    /\ Waits("ended", "last")
    /\ UNCHANGED asked

\* The answer to `needs you`, or none; the deadline is looked at after it, the console
\* is not.
Heard(p) ==
    /\ p.by = "watch" /\ watch = "needs"
    /\ IF mine \in late
       THEN /\ posts' = (posts \ {p}) \cup {Report(mine, "ended", "watch")}
            /\ watch' = "last"
            /\ con' = Stopped
       ELSE posts' = posts \ {p} /\ watch' = "loop" /\ UNCHANGED con
    /\ UNCHANGED <<disk, up, ids, open, tick, todo, busy, mine, asked, begun, trouble>>
    /\ UNCHANGED masora

\* The last report, delivered or not: closed, and a finished run's console is stopped.
Over(p) ==
    /\ p.by = "watch" /\ watch \in {"finish", "last"}
    /\ posts' = posts \ {p}
    /\ open' = open \ {mine} /\ ids' = ids /\ (Written \/ NotWritten)
    /\ con' = IF watch = "finish" THEN Stopped ELSE con
    /\ busy' = FALSE /\ mine' = NoRun /\ watch' = "off" /\ asked' = FALSE
    /\ UNCHANGED <<up, tick, todo, begun>>
    /\ UNCHANGED masora

-----------------------------------------------------------------------------
(* The app *)

Dies ==
    /\ up /\ Trouble
    /\ up' = FALSE
    /\ ids' = {} /\ open' = {}
    /\ tick' = "rest" /\ todo' = {}
    /\ busy' = FALSE /\ mine' = NoRun /\ watch' = "off" /\ asked' = FALSE
    /\ posts' = {}
    /\ con' = [r \in Runs |-> "none"]
    /\ UNCHANGED <<disk, begun>>
    /\ UNCHANGED masora

Starts ==
    /\ ~up
    /\ up' = TRUE
    /\ ids' = disk.ids /\ open' = disk.open
    /\ UNCHANGED <<disk, tick, todo, posts, con, begun, trouble>>
    /\ UNCHANGED masora /\ UNCHANGED watcher

-----------------------------------------------------------------------------
TickStep ==
    \/ Tick \/ Ask \/ NotStarted \/ Started
    \/ \E r \in Runs : Abandon(r)

Answers ==
    \/ NoAnswer
    \/ \E r \in Runs : OfferedAgain(r) \/ ClaimUnwritten(r) \/ ClaimDead(r) \/ Refuse(r)
                       \/ Claim(r)

PostEnds == \E p \in posts : Abandoned(p) \/ AsideEnds(p) \/ Heard(p) \/ Over(p)

WatchStep == Vanished \/ Finished \/ NeedsYou \/ Answered \/ Deadline

Next ==
    \/ Tick \/ Ask \/ NotStarted \/ Started \/ NoAnswer
    \/ Switch \/ Dies \/ Starts
    \/ Vanished \/ Finished \/ NeedsYou \/ Answered \/ Deadline
    \/ \E p \in posts : Reach(p) \/ Abandoned(p) \/ AsideEnds(p) \/ Heard(p) \/ Over(p)
    \/ \E r \in Runs :
          \/ TimeUp(r) \/ Expire(r) \/ Abandon(r)
          \/ OfferedAgain(r) \/ ClaimUnwritten(r) \/ ClaimDead(r) \/ Refuse(r) \/ Claim(r)
          \/ TurnEnds(r) \/ AsksLeave(r) \/ GetsAnswer(r) \/ Exits(r) \/ Prompted(r)
          \/ ThreadClosed(r)

Spec == Init /\ [][Next]_vars

\* The poll's timer fires, a call ends within its 15 s, the watch looks every second, a
\* start ends, time passes, and the app is opened again.  Nothing is assumed about agents,
\* people, the network or what Masora offers.
Fairness ==
    /\ WF_vars(TickStep) /\ WF_vars(Answers) /\ WF_vars(Starts)
    /\ WF_vars(PostEnds) /\ WF_vars(WatchStep)
    /\ \A r \in Runs : WF_vars(TimeUp(r)) /\ WF_vars(Expire(r))

FairSpec == Spec /\ Fairness

-----------------------------------------------------------------------------
(* What is true of it *)

TypeOK ==
    /\ told \in [Runs -> SUBSET Ends]
    /\ late \subseteq Runs /\ expired \subseteq Runs
    /\ enabled \in BOOLEAN /\ up \in BOOLEAN
    /\ disk \in [ids : SUBSET Runs, open : SUBSET Runs]
    /\ ids \subseteq Runs /\ open \subseteq ids /\ todo \subseteq Runs
    /\ tick \in {"rest", "owing", "abandoning", "claiming", "again", "starting"}
    /\ busy \in BOOLEAN /\ mine \in Runs \cup {NoRun} /\ asked \in BOOLEAN
    /\ busy = (mine # NoRun)
    /\ watch \in {"off", "loop", "needs", "finish", "last"}
    /\ posts \subseteq Post
    /\ con \in [Runs -> {"none", "working", "asking", "idle", "exited"}]
    /\ begun \in [Runs -> Nat]
    /\ trouble \in 0..MaxTrouble

\* "A claim never runs twice" (masora-runs.js:14): whatever is offered again, crashes
\* between two steps or cannot be written.
RunsOnce == \A r \in Runs : begun[r] <= 1

\* "Only one run at a time, and it stays ours until its console has finished or the run
\* is reported terminal" (masora-runs.js:22): a run under way is the one that is watched,
\* and Masora has not been told that the desktop restarted under it.
OneAtATime ==
    \A r \in Runs :
        con[r] \in {"working", "asking"} /\ r \in open =>
            busy /\ mine = r /\ "restarted" \notin told[r]

\* "A run claimed but never reported (the app restarted mid-run) is reported `failed` ...
\* and cleared" (masora-runs.js:18-19): no run stays claimed for ever, whether its agent never ends,
\* its prompt is never answered, Masora is away, or the app dies.
RunsEnd ==
    \A r \in Runs :
        LET claimed == IF up THEN open ELSE disk.open IN r \in claimed ~> r \notin claimed

\* "a finished run's console has nothing left to say" (masora-runs.js:295): stopping it
\* ends nobody's turn.  Not so: section 5 of the README.
StopsNobody == [][\A p \in posts : Over(p) /\ watch = "finish" => con[mine] # "working"]_vars

\* A run is said to have met a restart only if there was one.  Not so: section 5.
RestartIsTrue ==
    trouble = 0 => \A r \in Runs : "restarted" \notin told[r]
=============================================================================
