------------------------------ MODULE Rollback ------------------------------
(***************************************************************************)
(* Updating the installed app on Windows and going back when the new       *)
(* version does not come up: rollback.json and what is decided from it     *)
(* (desktop/update-rollback.js), the updater that downloads, prunes and    *)
(* runs installers (desktop/app-update.js), the hourly job that updates a  *)
(* closed app (desktop/background-update.js), and how desktop/main.js      *)
(* wires them: the check after a launch, restarts and quits.               *)
(*                                                                         *)
(* One machine.  A version is its number; the versions not in Healthy never *)
(* come up, those in Crashing do not live until the verdict either.  An    *)
(* installer that was started waits for the app to be gone, then replaces  *)
(* it, or fails.  An entry of rollback.json names an installer by its       *)
(* version.  Signatures, checksums, prerelease numbers, the database head  *)
(* (main.js passes none) and the limits on attempts are left out.          *)
(***************************************************************************)
EXTENDS Naturals, FiniteSets

CONSTANTS
    Last,      \* versions are 1..Last, published in this order
    Healthy,   \* those that come up, although a launch of them may be slow
    Crashing,  \* those whose process ends before its 120 s are over
    MaxTrouble \* bound: slow launches of healthy versions, installers that do
               \* not start and installers that fail

ASSUME RollbackAssumption ==
    /\ Last \in Nat \ {0} /\ MaxTrouble \in Nat
    /\ Healthy \subseteq 1..Last /\ Crashing \subseteq 1..Last

VARIABLES
    feed,       \* the version the feed offers
    installed,  \* the version in the install directory
    installers, \* installers started and not yet done
    disk,       \* versions whose installers are in the updates directory
    pending,    \* rollback.json: the install that has not yet proved itself
    lastGood,   \* rollback.json: the version whose installer is the way back
    bad,        \* rollback.json: versions withdrawn
    app,        \* "open" while a zevet with windows runs
    ready,      \* its updater's state: the version ready to install
    watching,   \* watchShellInstall waits for a healthy sign
    held,       \* settle: rollback.json as read before the checks it awaits
    leaving,    \* the timer that quits the app for an installer is set
    proven,     \* history: versions that came up healthy here
    trouble

vars == <<feed, installed, installers, disk, pending, lastGood, bad, app, ready,
          watching, held, leaving, proven, trouble>>
process == <<app, ready, watching, held, leaving>>

Versions == 1..Last

\* No version, no record.
None == 0

\* prev: what to go back to; rolledBack: the installer of prev was run.
Pending == [to: Versions, prev: Versions \cup {None}, rolledBack: BOOLEAN, strikes: 0..1]

\* rollback.json as a whole.
State == [pending: Pending, lastGood: Versions \cup {None}, bad: SUBSET Versions]

\* run: --force-run, the installer starts the app when it is done.
Installer == [v: Versions, run: BOOLEAN]

NoPending == [to |-> None]
NoState == [pending |-> NoPending]

\* A machine that was installed by hand, or that has been updated before.
Init ==
    /\ feed = 1 /\ installed = 1 /\ installers = {}
    /\ lastGood \in {None} \cup ({1} \cap Healthy)
    /\ disk = {lastGood} \ {None}
    /\ proven = {lastGood} \ {None}
    /\ pending = NoPending /\ bad = {}
    /\ app = "closed" /\ ready = None /\ watching = FALSE /\ held = NoState
    /\ leaving = FALSE
    /\ trouble = 0

Trouble == trouble < MaxTrouble /\ trouble' = trouble + 1

Publish ==
    /\ feed < Last
    /\ feed' = feed + 1
    /\ UNCHANGED <<installed, installers, disk, pending, lastGood, bad, proven, trouble>>
    /\ UNCHANGED process

-----------------------------------------------------------------------------
(* The updater *)

\* Mutant of Usable: _verified does not ask whether the version was withdrawn.
UsableIfThere(v) == v \in disk

\* _verified: the file is there, and not of a version that was withdrawn.
Usable(v) == v \in disk /\ v \notin bad

\* keepFiles.
Kept == {lastGood} \cup IF pending # NoPending THEN {pending.prev} ELSE {}

\* A check of the feed, by the app or by the job: what it leaves in the directory.
Offered == feed > installed /\ feed \notin bad
Checked ==
    disk' = CASE Offered -> (disk \cap Kept) \cup {feed}
              [] feed > installed /\ feed \in bad -> disk \ {feed}
              [] OTHER -> disk \cap Kept

Check ==
    /\ app = "open"
    /\ Checked
    /\ ready' = IF Offered THEN feed ELSE None
    /\ UNCHANGED <<feed, installed, installers, pending, lastGood, bad, app,
                   watching, held, leaving, proven, trouble>>

\* beginInstall: what the next launch has to prove.  There is a way back only if
\* the running version is the last that was confirmed.
BeginInstall(v) ==
    pending' = [to |-> v, prev |-> IF lastGood = installed THEN lastGood ELSE None,
                rolledBack |-> FALSE, strikes |-> 0]

Closed ==
    /\ app' = "closed" /\ ready' = None /\ watching' = FALSE /\ held' = NoState
    /\ leaving' = FALSE

\* Restart now, or nobody is here.  The spawn may fail after the record was written.
Restart ==
    /\ app = "open" /\ ready # None /\ Usable(ready)
    /\ BeginInstall(ready)
    /\ \/ /\ installers' = installers \cup {[v |-> ready, run |-> TRUE]}
          /\ leaving' = TRUE
          /\ UNCHANGED trouble
       \/ Trouble /\ UNCHANGED <<installers, leaving>>
    /\ UNCHANGED <<feed, installed, disk, lastGood, bad, app, ready, watching, held,
                   proven>>

\* A person quits: what is ready is put on, once for a version (else this is Close).
Quit ==
    /\ app = "open" /\ ready # None /\ Usable(ready)
    /\ BeginInstall(ready)
    /\ \/ installers' = installers \cup {[v |-> ready, run |-> FALSE]} /\ UNCHANGED trouble
       \/ Trouble /\ UNCHANGED installers
    /\ Closed
    /\ UNCHANGED <<feed, installed, disk, lastGood, bad, proven>>

\* The app ends otherwise: it is quit with nothing to install, killed, or leaves
\* for an installer.
Close ==
    /\ app = "open"
    /\ Closed
    /\ UNCHANGED <<feed, installed, installers, disk, pending, lastGood, bad, proven,
                   trouble>>

\* The job checks and, at most once a day for a version, runs the installer.
Job ==
    /\ app = "closed"
    /\ Checked
    /\ \/ UNCHANGED <<pending, installers>>
       \/ /\ Offered
          /\ BeginInstall(feed)
          /\ installers' = installers \cup {[v |-> feed, run |-> FALSE]}
    /\ UNCHANGED <<feed, installed, lastGood, bad, proven, trouble>>
    /\ UNCHANGED process

-----------------------------------------------------------------------------
(* After a launch *)

\* settle and clear: the record is about another version than the one running.
Unrelated ==
    /\ pending' = NoPending
    /\ lastGood' = IF pending.rolledBack /\ pending.prev # None THEN pending.prev ELSE lastGood

\* The app starts as version v; afterBoot(null).
Boots(v) ==
    /\ app' = "open" /\ ready' = None /\ held' = NoState /\ leaving' = FALSE
    /\ watching' = (pending # NoPending /\ pending.to = v)
    /\ IF pending # NoPending /\ pending.to # v THEN Unrelated
       ELSE UNCHANGED <<pending, lastGood>>

Launch ==
    /\ app = "closed"
    /\ Boots(installed)
    /\ UNCHANGED <<feed, installed, installers, disk, bad, proven, trouble>>

\* The installer replaces the app once it is gone, and starts it if it was told to.
Install(i) ==
    /\ i \in installers /\ app = "closed"
    /\ installers' = installers \ {i}
    /\ installed' = i.v
    /\ IF i.run THEN Boots(i.v)
       ELSE UNCHANGED <<pending, lastGood>> /\ UNCHANGED process
    /\ UNCHANGED <<feed, disk, bad, proven, trouble>>

InstallFails(i) ==
    /\ i \in installers /\ Trouble
    /\ installers' = installers \ {i}
    /\ UNCHANGED <<feed, installed, disk, pending, lastGood, bad, proven>>
    /\ UNCHANGED process

\* A window has loaded and the agent API answers: confirm.
Confirm ==
    /\ watching /\ installed \in Healthy
    /\ proven' = proven \cup {installed}
    /\ watching' = FALSE
    /\ IF pending.to = installed
       THEN pending' = NoPending /\ lastGood' = installed
       ELSE Unrelated
    /\ UNCHANGED <<feed, installed, installers, disk, bad, app, ready, held, leaving,
                   trouble>>

\* 120 s without it.
TimeOut ==
    /\ watching /\ installed \notin Crashing
    /\ IF installed \in Healthy THEN Trouble ELSE UNCHANGED trouble
    /\ UNCHANGED <<feed, installed, installers, disk, proven>>

\* Another install was begun meanwhile.
TooLate ==
    /\ pending.to # installed
    /\ TimeOut
    /\ Unrelated
    /\ watching' = FALSE
    /\ UNCHANGED <<bad, app, ready, held, leaving>>

\* Mutant of Strike: the strike is not written.
StrikeForgotten == pending

Strike == [pending EXCEPT !.strikes = @ + 1]

\* Mutant of Slow: one launch too many.
SlowThrice == pending.strikes + 1 <= 2

\* STRIKES_TO_ROLL_BACK is 2.
Slow == pending.strikes + 1 < 2

\* retry: one strike, and a relaunch at once.
Retry ==
    /\ pending.to = installed /\ Slow
    /\ TimeOut
    /\ pending' = Strike
    /\ app' = "open" /\ ready' = None /\ watching' = TRUE /\ held' = NoState
    /\ leaving' = FALSE
    /\ UNCHANGED <<lastGood, bad>>

\* report: there is nothing to go back to.
Report ==
    /\ pending.to = installed /\ ~Slow /\ pending.prev = None
    /\ TimeOut
    /\ bad' = bad \cup {installed}
    /\ pending' = NoPending
    /\ watching' = FALSE
    /\ UNCHANGED <<lastGood, app, ready, held, leaving>>

\* rollback: the state it will write is put together before the installer of prev
\* is verified, which it awaits.
Verify ==
    /\ pending.to = installed /\ ~Slow /\ pending.prev # None
    /\ TimeOut
    /\ held' = [pending |-> pending, lastGood |-> lastGood, bad |-> bad \cup {installed}]
    /\ watching' = FALSE
    /\ UNCHANGED <<pending, lastGood, bad, app, ready, leaving>>

\* It is usable: write, run it, quit in 600 ms.  Or it does not start, and the app
\* stays.
GoBack ==
    /\ held # NoState /\ Usable(held.pending.prev)
    /\ pending' = [held.pending EXCEPT !.rolledBack = TRUE]
    /\ lastGood' = held.lastGood /\ bad' = held.bad
    /\ held' = NoState
    /\ \/ /\ installers' = installers \cup {[v |-> held.pending.prev, run |-> TRUE]}
          /\ leaving' = TRUE
          /\ UNCHANGED trouble
       \/ Trouble /\ UNCHANGED <<installers, leaving>>
    /\ UNCHANGED <<feed, installed, disk, app, ready, watching, proven>>

\* It is not: the version is withdrawn, and stays.
StayOn ==
    /\ held # NoState /\ ~Usable(held.pending.prev)
    /\ pending' = NoPending
    /\ lastGood' = held.lastGood /\ bad' = held.bad
    /\ held' = NoState
    /\ UNCHANGED <<feed, installed, installers, disk, app, ready, watching, leaving,
                   proven, trouble>>

-----------------------------------------------------------------------------
Verdict == Confirm \/ TooLate \/ Retry \/ Report \/ Verify

Next ==
    \/ Publish \/ Check \/ Restart \/ Quit \/ Close \/ Job \/ Launch
    \/ \E i \in installers : Install(i) \/ InstallFails(i)
    \/ Confirm \/ TooLate \/ Retry \/ Report \/ Verify
    \/ GoBack \/ StayOn

Spec == Init /\ [][Next]_vars

\* The app is opened and closed again and again.  An assumption about its user: among
\* launches that are cut short, every so often one lasts the two minutes of a verdict and
\* the moment of a verification.  Of the installers that wait for the app to be gone one
\* gets its turn.
Fairness ==
    /\ WF_vars(Launch) /\ WF_vars(Close)
    /\ SF_vars(Verdict) /\ SF_vars(GoBack \/ StayOn)
    /\ SF_vars(\E i \in installers : Install(i))

FairSpec == Spec /\ Fairness

-----------------------------------------------------------------------------
(* What is true of it *)

\* Types; in particular a record has at most one strike when it is read again.
TypeOK ==
    /\ feed \in Versions /\ installed \in Versions
    /\ installers \subseteq Installer
    /\ disk \subseteq Versions /\ bad \subseteq Versions /\ proven \subseteq Versions
    /\ pending \in Pending \cup {NoPending}
    /\ lastGood \in Versions \cup {None}
    /\ app \in {"open", "closed"} /\ ready \in Versions \cup {None}
    /\ watching \in BOOLEAN /\ leaving \in BOOLEAN
    /\ held \in State \cup {NoState}
    /\ trouble \in 0..MaxTrouble

\* An installer that is started is not of a version withdrawn, and one that goes back
\* is of a version that came up healthy on this machine: whatever restarts, quits,
\* jobs and verdicts overlap, and whatever was confirmed after it was withdrawn
\* (_withdrawn in app-update.js, lastGood in update-rollback.js).
InstallsWell ==
    [][\A i \in installers' \ installers :
           i.v \notin bad' /\ (i.v <= installed => i.v \in proven)]_vars

\* A version that stays alive but never comes up (SLOW) is left by itself, however many
\* launches in between are cut short before their verdict: its strikes are kept over them.
\* As long as the installer it would go back to can be used, and unless another update is
\* begun over it.  Of a version that crashes within the 120 s this is not so: nothing
\* counts its launches (section 5 of the README).
HungLeft ==
    \A v \in Versions \ (Healthy \cup Crashing) :
        installed = v /\ pending # NoPending /\ pending.to = v
            /\ pending.prev # None /\ Usable(pending.prev)
        ~> installed # v \/ (pending # NoPending /\ pending.to # v)

\* "A crash or exit is the build's fault at once" (update-rollback.js:28-29): a version
\* that crashes is left as one that hangs is.  Not so: section 5 of the README.
CrashLeft ==
    \A v \in Crashing :
        installed = v /\ pending # NoPending /\ pending.to = v
            /\ pending.prev # None /\ Usable(pending.prev)
        ~> installed # v \/ (pending # NoPending /\ pending.to # v)

\* "Installers pruneUpdates must leave alone: the rollback target and the one that
\* got us here" (update-rollback.js:132).  Not so: section 5 of the README.
TargetKept ==
    pending # NoPending /\ pending.prev # None /\ pending.prev \notin bad
        => pending.prev \in disk
=============================================================================
