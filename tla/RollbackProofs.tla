--------------------------- MODULE RollbackProofs ---------------------------
(***************************************************************************)
(* Theorems about Rollback, for every number of versions and every choice  *)
(* of the ones that come up: types, and that only installers of versions   *)
(* which were not withdrawn are started, backwards only to proven ones.    *)
(***************************************************************************)
EXTENDS Rollback, TLAPS

\* A closed app has no process state; a process that watches has a record to judge,
\* and one that verifies no longer watches.
Alone ==
    /\ app \in {"open", "closed"}
    /\ app = "closed" => ready = None /\ ~watching /\ held = NoState
    /\ watching => pending # NoPending
    /\ held # NoState => ~watching

\* What the updater has ready is newer than what runs.
Ahead == ready # None => installed < ready

\* A record goes back to the last good version or to none, and to an older one.
Backs(p, lg) ==
    /\ p.prev \in {None, lg}
    /\ p.prev # None => p.prev < p.to

\* The last good version came up here; so did what a record or a state that is about
\* to be written goes back to.  Such a state says what rollback.json says, and that the
\* running version is withdrawn.
WayBack ==
    /\ lastGood # None => lastGood \in proven
    /\ pending # NoPending => Backs(pending, lastGood)
    /\ held # NoState =>
         /\ Backs(held.pending, lastGood)
         /\ held.pending.to = installed
         /\ held.lastGood = lastGood
         /\ held.bad = bad \cup {installed}

Inv == TypeOK /\ Alone /\ Ahead /\ WayBack

-----------------------------------------------------------------------------

LEMMA NoneIsNoVersion == None \notin Versions
  BY RollbackAssumption DEF None, Versions

\* Records are told from their absence by the version they are about.
LEMMA Records ==
  /\ \A p \in Pending : p # NoPending /\ p.to \in Versions
                        /\ p.prev \in Versions \cup {None} /\ p.strikes \in 0..1
                        /\ p.rolledBack \in BOOLEAN
  /\ \A h \in State : h # NoState /\ h.pending \in Pending
                      /\ h.lastGood \in Versions \cup {None} /\ h.bad \subseteq Versions
  /\ NoPending.to = None
<1>1. NoPending.to = None
  BY DEF NoPending
<1>2. \A p \in Pending : p # NoPending
  BY <1>1, NoneIsNoVersion DEF Pending
<1>3. NoState.pending = NoPending
  BY DEF NoState
<1>4. \A h \in State : h # NoState
  BY <1>2, <1>3 DEF State
<1> QED
  BY <1>1, <1>2, <1>4 DEF Pending, State

LEMMA Beginning ==
  ASSUME Inv, NEW v \in Versions, installed < v, BeginInstall(v)
  PROVE  pending' \in Pending /\ Backs(pending', lastGood)
<1>1. lastGood \in Versions \cup {None} /\ installed \in Versions
  BY DEF Inv, TypeOK
<1>2. pending' = [to |-> v, prev |-> IF lastGood = installed THEN lastGood ELSE None,
                  rolledBack |-> FALSE, strikes |-> 0]
  BY DEF BeginInstall
<1>3. pending' \in Pending
  BY <1>1, <1>2 DEF Pending
<1>4. Backs(pending', lastGood)
  BY <1>1, <1>2 DEF Backs, None
<1> QED
  BY <1>3, <1>4

\* Giving up a record that is about another version changes nothing else: what it goes
\* back to is the last good version already.
LEMMA UnrelatedKeeps ==
  ASSUME Inv, pending # NoPending, Unrelated
  PROVE  pending' = NoPending /\ lastGood' = lastGood
  BY DEF Inv, WayBack, Backs, Unrelated

\* What a start of the app makes of the record.
LEMMA Booting ==
  ASSUME Inv, NEW v \in Versions, Boots(v)
  PROVE  /\ lastGood' = lastGood /\ pending' \in {pending, NoPending}
         /\ Alone' /\ Ahead' /\ watching' \in BOOLEAN
         /\ leaving' = FALSE /\ held' = NoState /\ ready' = None /\ app' = "open"
<1>1. lastGood' = lastGood /\ pending' \in {pending, NoPending}
  BY UnrelatedKeeps DEF Boots
<1>2. /\ app' = "open" /\ ready' = None /\ held' = NoState /\ leaving' = FALSE
      /\ watching' = (pending # NoPending /\ pending.to = v)
  BY DEF Boots
<1>3. watching' => pending' # NoPending
  BY <1>2 DEF Boots
<1> QED
  BY <1>1, <1>2, <1>3 DEF Alone, Ahead

LEMMA TheCheck ==
  ASSUME Inv, Checked
  PROVE  disk' \subseteq Versions /\ (Offered => feed \in Versions /\ installed < feed)
  BY DEF Inv, TypeOK, Checked, Offered, Versions

-----------------------------------------------------------------------------

LEMMA InitInv == Init => Inv
<1> SUFFICES ASSUME Init PROVE Inv
  OBVIOUS
<1>1. 1 \in Versions /\ Healthy \subseteq Versions
  BY RollbackAssumption DEF Versions
<1>2. TypeOK
  <2>1. lastGood \in Versions \cup {None}
    BY <1>1 DEF Init
  <2>2. disk \subseteq Versions /\ proven \subseteq Versions
    BY <2>1 DEF Init
  <2>3. trouble \in 0..MaxTrouble
    BY RollbackAssumption DEF Init
  <2> QED
    BY <1>1, <2>1, <2>2, <2>3 DEF Init, TypeOK
<1>3. Alone /\ Ahead
  BY DEF Init, Alone, Ahead
<1>4. WayBack
  BY DEF Init, WayBack
<1> QED
  BY <1>2, <1>3, <1>4 DEF Inv

LEMMA BoundTrouble ==
  ASSUME TypeOK, Trouble \/ UNCHANGED trouble
  PROVE  trouble' \in 0..MaxTrouble
  BY RollbackAssumption DEF TypeOK, Trouble

\* The steps that begin an install.
LEMMA RestartInv == ASSUME Inv, Restart PROVE Inv'
<1>1. ready \in Versions /\ installed < ready
  BY DEF Inv, TypeOK, Ahead, Restart
<1>2. pending' \in Pending /\ Backs(pending', lastGood)
  BY <1>1, Beginning DEF Restart
<1>3. pending' # NoPending
  BY <1>2, Records
<1>4. [v |-> ready, run |-> TRUE] \in Installer
  BY <1>1 DEF Installer
<1>5. /\ UNCHANGED <<feed, installed, disk, lastGood, bad, app, ready, watching, held, proven>>
      /\ installers' \subseteq installers \cup {[v |-> ready, run |-> TRUE]}
      /\ leaving' \in {leaving, TRUE}
      /\ Trouble \/ UNCHANGED trouble
  BY DEF Restart
<1>6. TypeOK'
  BY <1>2, <1>4, <1>5, BoundTrouble DEF Inv, TypeOK
<1>7. Alone' /\ Ahead'
  BY <1>3, <1>5 DEF Inv, Alone, Ahead
<1>8. WayBack'
  BY <1>2, <1>5 DEF Inv, WayBack
<1> QED
  BY <1>6, <1>7, <1>8 DEF Inv

LEMMA QuitInv == ASSUME Inv, Quit PROVE Inv'
<1>1. ready \in Versions /\ installed < ready
  BY DEF Inv, TypeOK, Ahead, Quit
<1>2. pending' \in Pending /\ Backs(pending', lastGood)
  BY <1>1, Beginning DEF Quit
<1>3. [v |-> ready, run |-> FALSE] \in Installer
  BY <1>1 DEF Installer
<1>4. /\ UNCHANGED <<feed, installed, disk, lastGood, bad, proven>>
      /\ installers' \subseteq installers \cup {[v |-> ready, run |-> FALSE]}
      /\ Trouble \/ UNCHANGED trouble
      /\ app' = "closed" /\ ready' = None /\ watching' = FALSE /\ held' = NoState /\ leaving' = FALSE
  BY DEF Quit, Closed
<1>5. TypeOK'
  BY <1>2, <1>3, <1>4, BoundTrouble DEF Inv, TypeOK
<1>6. Alone' /\ Ahead'
  BY <1>4 DEF Alone, Ahead
<1>7. WayBack'
  BY <1>2, <1>4 DEF Inv, WayBack
<1> QED
  BY <1>5, <1>6, <1>7 DEF Inv

LEMMA JobInv == ASSUME Inv, Job PROVE Inv'
<1>1. disk' \subseteq Versions
  BY TheCheck DEF Job
<1>2. /\ UNCHANGED <<feed, installed, lastGood, bad, proven, trouble>>
      /\ app = "closed" /\ UNCHANGED <<app, ready, watching, held, leaving>>
  BY DEF Job, process
<1>3. CASE UNCHANGED <<pending, installers>>
  <2>1. TypeOK'
    BY <1>1, <1>2, <1>3 DEF Inv, TypeOK
  <2>2. Alone' /\ Ahead' /\ WayBack'
    BY <1>2, <1>3 DEF Inv, Alone, Ahead, WayBack
  <2> QED
    BY <2>1, <2>2 DEF Inv
<1>4. CASE /\ Offered /\ BeginInstall(feed)
           /\ installers' = installers \cup {[v |-> feed, run |-> FALSE]}
  <2>1. feed \in Versions /\ installed < feed
    BY <1>4, TheCheck DEF Job
  <2>2. pending' \in Pending /\ Backs(pending', lastGood)
    BY <1>4, <2>1, Beginning
  <2>3. [v |-> feed, run |-> FALSE] \in Installer
    BY <2>1 DEF Installer
  <2>4. TypeOK'
    BY <1>1, <1>2, <1>4, <2>2, <2>3 DEF Inv, TypeOK
  <2>5. Alone' /\ Ahead'
    BY <1>2 DEF Inv, Alone, Ahead
  <2>6. WayBack'
    BY <1>2, <2>2 DEF Inv, WayBack
  <2> QED
    BY <2>4, <2>5, <2>6 DEF Inv
<1> QED
  BY <1>3, <1>4 DEF Job

\* The steps of a launch.
LEMMA BootInv ==
  ASSUME Inv, NEW v \in Versions, app = "closed", Boots(v), installed' = v,
         installers' \subseteq installers,
         UNCHANGED <<feed, disk, bad, proven, trouble>>
  PROVE  Inv'
<1>1. /\ lastGood' = lastGood /\ pending' \in {pending, NoPending}
      /\ Alone' /\ Ahead' /\ watching' \in BOOLEAN
      /\ leaving' = FALSE /\ held' = NoState /\ ready' = None /\ app' = "open"
  BY Booting
<1>2. TypeOK'
  BY <1>1 DEF Inv, TypeOK
<1>3. WayBack'
  BY <1>1 DEF Inv, WayBack
<1> QED
  BY <1>1, <1>2, <1>3 DEF Inv

LEMMA InstallInv == ASSUME Inv, NEW i \in installers, Install(i) PROVE Inv'
<1>1. i.v \in Versions /\ installed' = i.v /\ app = "closed"
  BY DEF Inv, TypeOK, Installer, Install
<1>2. CASE i.run
  BY <1>1, <1>2, BootInv DEF Install
<1>3. CASE ~i.run
  <2>1. /\ installers' \subseteq installers
        /\ UNCHANGED <<feed, disk, bad, proven, trouble, pending, lastGood, app, ready,
                       watching, held, leaving>>
    BY <1>3 DEF Install, process
  <2>2. ready = None /\ held = NoState
    BY <1>1 DEF Inv, Alone
  <2>3. TypeOK'
    BY <1>1, <2>1 DEF Inv, TypeOK
  <2>4. Alone' /\ Ahead' /\ WayBack'
    BY <1>1, <2>1, <2>2 DEF Inv, Alone, Ahead, WayBack
  <2> QED
    BY <2>3, <2>4 DEF Inv
<1> QED
  BY <1>2, <1>3

\* The verdicts.
LEMMA ConfirmInv == ASSUME Inv, Confirm PROVE Inv'
<1>1. pending # NoPending /\ held = NoState /\ installed \in Versions
  BY DEF Inv, TypeOK, Alone, Confirm
<1>2. /\ UNCHANGED <<feed, installed, installers, disk, bad, app, ready, held, leaving, trouble>>
      /\ proven' = proven \cup {installed} /\ watching' = FALSE
  BY DEF Confirm
<1>3. pending' = NoPending /\ lastGood' \in {lastGood, installed}
  BY <1>1, UnrelatedKeeps DEF Confirm
<1>4. TypeOK'
  BY <1>1, <1>2, <1>3 DEF Inv, TypeOK
<1>5. Alone' /\ Ahead'
  BY <1>1, <1>2 DEF Inv, Alone, Ahead
<1>6. WayBack'
  BY <1>1, <1>2, <1>3 DEF Inv, WayBack
<1> QED
  BY <1>4, <1>5, <1>6 DEF Inv

LEMMA TooLateInv == ASSUME Inv, TooLate PROVE Inv'
<1>1. pending # NoPending /\ held = NoState
  BY DEF Inv, Alone, TooLate, TimeOut
<1>2. /\ UNCHANGED <<feed, installed, installers, disk, proven, bad, app, ready, held, leaving>>
      /\ watching' = FALSE
      /\ Trouble \/ UNCHANGED trouble
  BY DEF TooLate, TimeOut
<1>3. pending' = NoPending /\ lastGood' = lastGood
  BY <1>1, UnrelatedKeeps DEF TooLate
<1>4. TypeOK'
  BY <1>2, <1>3, BoundTrouble DEF Inv, TypeOK
<1>5. Alone' /\ Ahead' /\ WayBack'
  BY <1>1, <1>2, <1>3 DEF Inv, Alone, Ahead, WayBack
<1> QED
  BY <1>4, <1>5 DEF Inv

LEMMA RetryInv == ASSUME Inv, Retry PROVE Inv'
<1>1. watching /\ pending \in Pending /\ pending # NoPending
  BY DEF Inv, TypeOK, Alone, Retry, TimeOut
<1>2. /\ UNCHANGED <<feed, installed, installers, disk, proven, lastGood, bad>>
      /\ app' = "open" /\ ready' = None /\ watching' = TRUE /\ held' = NoState /\ leaving' = FALSE
      /\ Trouble \/ UNCHANGED trouble
      /\ pending' = [pending EXCEPT !.strikes = @ + 1] /\ pending.strikes + 1 < 2
  BY DEF Retry, TimeOut, Strike, Slow
<1>3. pending' \in Pending /\ pending'.to = pending.to /\ pending'.prev = pending.prev
  BY <1>1, <1>2, Records DEF Pending
<1>4. TypeOK'
  BY <1>2, <1>3, BoundTrouble DEF Inv, TypeOK
<1>5. Alone' /\ Ahead'
  BY <1>2, <1>3, Records DEF Alone, Ahead
<1>6. WayBack'
  BY <1>1, <1>2, <1>3 DEF Inv, WayBack, Backs
<1> QED
  BY <1>4, <1>5, <1>6 DEF Inv

LEMMA ReportInv == ASSUME Inv, Report PROVE Inv'
<1>1. held = NoState /\ installed \in Versions
  BY DEF Inv, TypeOK, Alone, Report, TimeOut
<1>2. /\ UNCHANGED <<feed, installed, installers, disk, proven, lastGood, app, ready, held, leaving>>
      /\ pending' = NoPending /\ watching' = FALSE /\ bad' = bad \cup {installed}
      /\ Trouble \/ UNCHANGED trouble
  BY DEF Report, TimeOut
<1>3. TypeOK'
  BY <1>1, <1>2, BoundTrouble DEF Inv, TypeOK
<1>4. Alone' /\ Ahead' /\ WayBack'
  BY <1>1, <1>2 DEF Inv, Alone, Ahead, WayBack
<1> QED
  BY <1>3, <1>4 DEF Inv

LEMMA VerifyInv == ASSUME Inv, Verify PROVE Inv'
<1>1. watching /\ pending # NoPending /\ pending \in Pending /\ app = "open"
  BY DEF Inv, TypeOK, Alone, Verify, TimeOut
<1>2. /\ UNCHANGED <<feed, installed, installers, disk, proven, pending, lastGood, bad, app, ready, leaving>>
      /\ held' = [pending |-> pending, lastGood |-> lastGood, bad |-> bad \cup {installed}]
      /\ watching' = FALSE /\ pending.to = installed
      /\ Trouble \/ UNCHANGED trouble
  BY DEF Verify, TimeOut
<1>3. /\ held' \in State /\ held'.pending = pending
      /\ held'.lastGood = lastGood /\ held'.bad = bad \cup {installed}
  BY <1>1, <1>2 DEF Inv, TypeOK, State
<1>4. TypeOK'
  BY <1>2, <1>3, BoundTrouble DEF Inv, TypeOK
<1>5. Alone' /\ Ahead'
  BY <1>1, <1>2 DEF Inv, Alone, Ahead
<1>6. WayBack'
  BY <1>1, <1>2, <1>3 DEF Inv, WayBack
<1> QED
  BY <1>4, <1>5, <1>6 DEF Inv

\* What a rollback that is verified knows, and writes.
LEMMA Verified ==
  ASSUME Inv, held # NoState
  PROVE  /\ held \in State /\ held.pending \in Pending
         /\ Backs(held.pending, lastGood) /\ held.pending.to = installed
         /\ held.lastGood = lastGood /\ held.bad = bad \cup {installed}
         /\ ~watching /\ app = "open"
  BY Records DEF Inv, TypeOK, Alone, WayBack

LEMMA GoBackInv == ASSUME Inv, GoBack PROVE Inv'
<1> DEFINE prev == held.pending.prev
<1>1. /\ held \in State /\ held.pending \in Pending
      /\ Backs(held.pending, lastGood) /\ held.pending.to = installed
      /\ held.lastGood = lastGood /\ held.bad = bad \cup {installed}
      /\ ~watching /\ app = "open" /\ installed \in Versions
  BY Verified DEF Inv, TypeOK, GoBack
<1>2. prev \in Versions
  BY DEF Inv, TypeOK, GoBack, Usable
<1>3. [v |-> prev, run |-> TRUE] \in Installer
  BY <1>2 DEF Installer
<1>4. /\ UNCHANGED <<feed, installed, disk, app, ready, watching, proven>>
      /\ pending' = [held.pending EXCEPT !.rolledBack = TRUE]
      /\ lastGood' = lastGood /\ bad' = bad \cup {installed} /\ held' = NoState
      /\ installers' \subseteq installers \cup {[v |-> prev, run |-> TRUE]}
      /\ leaving' \in {leaving, TRUE}
      /\ Trouble \/ UNCHANGED trouble
  BY <1>1 DEF GoBack
<1>5. /\ pending' \in Pending /\ pending'.prev = held.pending.prev
      /\ pending'.to = held.pending.to
  BY <1>1, <1>4 DEF Pending
<1>6. TypeOK'
  BY <1>1, <1>3, <1>4, <1>5, BoundTrouble DEF Inv, TypeOK
<1>7. Alone' /\ Ahead'
  BY <1>1, <1>4 DEF Inv, Alone, Ahead
<1>8. WayBack'
  BY <1>1, <1>4, <1>5 DEF Inv, WayBack, Backs
<1> QED
  BY <1>6, <1>7, <1>8 DEF Inv

LEMMA StayOnInv == ASSUME Inv, StayOn PROVE Inv'
<1>1. /\ held.lastGood = lastGood /\ held.bad = bad \cup {installed}
      /\ ~watching /\ app = "open" /\ installed \in Versions
  BY Verified DEF Inv, TypeOK, StayOn
<1>2. /\ UNCHANGED <<feed, installed, installers, disk, app, ready, watching, leaving, proven, trouble>>
      /\ pending' = NoPending /\ lastGood' = lastGood /\ bad' = bad \cup {installed}
      /\ held' = NoState
  BY <1>1 DEF StayOn
<1>3. TypeOK'
  BY <1>1, <1>2 DEF Inv, TypeOK
<1>4. Alone' /\ Ahead' /\ WayBack'
  BY <1>1, <1>2 DEF Inv, Alone, Ahead, WayBack
<1> QED
  BY <1>3, <1>4 DEF Inv

LEMMA NextInv == ASSUME Inv, [Next]_vars PROVE Inv'
<1>1. CASE Publish
  <2>1. feed' \in Versions /\ UNCHANGED <<installed, installers, disk, pending, lastGood, bad, proven,
          trouble, app, ready, watching, held, leaving>>
    BY <1>1, RollbackAssumption DEF Inv, TypeOK, Versions, Publish, process
  <2> QED
    BY <2>1 DEF Inv, TypeOK, Alone, Ahead, WayBack
<1>2. CASE Check
  <2>1. disk' \subseteq Versions /\ app = "open" /\ ready' \in Versions \cup {None}
        /\ (ready' # None => installed < ready')
    BY <1>2, TheCheck DEF Check
  <2>2. UNCHANGED <<feed, installed, installers, pending, lastGood, bad, app,
                   watching, held, leaving, proven, trouble>>
    BY <1>2 DEF Check
  <2> QED
    BY <2>1, <2>2 DEF Inv, TypeOK, Alone, Ahead, WayBack
<1>3. CASE Restart
  BY <1>3, RestartInv
<1>4. CASE Quit
  BY <1>4, QuitInv
<1>5. CASE Close
  BY <1>5 DEF Close, Closed, Inv, TypeOK, Alone, Ahead, WayBack
<1>6. CASE Job
  BY <1>6, JobInv
<1>7. CASE Launch
  BY <1>7, BootInv DEF Launch, Inv, TypeOK
<1>8. ASSUME NEW i \in installers, Install(i) PROVE Inv'
  BY <1>8, InstallInv
<1>9. ASSUME NEW i \in installers, InstallFails(i) PROVE Inv'
  <2>1. /\ UNCHANGED <<feed, installed, disk, pending, lastGood, bad, proven, app, ready,
                       watching, held, leaving>>
        /\ installers' \subseteq installers /\ Trouble
    BY <1>9 DEF InstallFails, process
  <2> QED
    BY <2>1, BoundTrouble DEF Inv, TypeOK, Alone, Ahead, WayBack
<1>10. CASE Confirm
  BY <1>10, ConfirmInv
<1>11. CASE TooLate
  BY <1>11, TooLateInv
<1>12. CASE Retry
  BY <1>12, RetryInv
<1>13. CASE Report
  BY <1>13, ReportInv
<1>14. CASE Verify
  BY <1>14, VerifyInv
<1>15. CASE GoBack
  BY <1>15, GoBackInv
<1>16. CASE StayOn
  BY <1>16, StayOnInv
<1>17. CASE UNCHANGED vars
  BY <1>17 DEF vars, Inv, TypeOK, Alone, Ahead, WayBack
<1> QED
  BY <1>1, <1>2, <1>3, <1>4, <1>5, <1>6, <1>7, <1>8, <1>9, <1>10, <1>11, <1>12,
     <1>13, <1>14, <1>15, <1>16, <1>17 DEF Next

LEMMA Invariance == Spec => []Inv
<1>1. Init => Inv
  BY InitInv
<1>2. Inv /\ [Next]_vars => Inv'
  BY NextInv
<1> QED
  BY <1>1, <1>2, PTL DEF Spec

-----------------------------------------------------------------------------

\* Every variable keeps its type; a record read again has at most one strike.
THEOREM TypeCorrect == Spec => []TypeOK
<1>1. Inv => TypeOK
  BY DEF Inv
<1> QED
  BY <1>1, Invariance, PTL

\* What InstallsWell asks of a step.
StartsWell ==
    \A i \in installers' \ installers :
        i.v \notin bad' /\ (i.v <= installed => i.v \in proven)

LEMMA NoneStarted == ASSUME installers' \subseteq installers PROVE StartsWell
  BY DEF StartsWell

\* An update is newer than what runs, and was not withdrawn.
LEMMA UpdateStarted ==
  ASSUME Inv, NEW v \in Versions, NEW run \in BOOLEAN, installed < v, v \notin bad, UNCHANGED bad,
         installers' \subseteq installers \cup {[v |-> v, run |-> run]}
  PROVE  StartsWell
<1> SUFFICES ASSUME NEW i \in installers' \ installers
             PROVE  i.v \notin bad' /\ (i.v <= installed => i.v \in proven)
  BY DEF StartsWell
<1>1. i.v = v
  OBVIOUS
<1>2. installed \in Nat /\ v \in Nat
  BY RollbackAssumption DEF Inv, TypeOK, Versions
<1> QED
  BY <1>1, <1>2

\* A rollback's target was proven, was not withdrawn, and is older than the version
\* it replaces, which is withdrawn by the same step.
LEMMA RollbackStarted == ASSUME Inv, GoBack PROVE StartsWell
<1> SUFFICES ASSUME NEW i \in installers' \ installers
             PROVE  i.v \notin bad' /\ (i.v <= installed => i.v \in proven)
  BY DEF StartsWell
<1>1. /\ held.pending \in Pending /\ Backs(held.pending, lastGood)
      /\ held.pending.to = installed /\ held.bad = bad \cup {installed}
      /\ installed \in Versions
  BY Verified DEF GoBack, Inv, TypeOK
<1>2. i.v = held.pending.prev
  BY DEF GoBack
<1>3. held.pending.prev \in Versions /\ held.pending.prev \notin bad
  BY DEF GoBack, Usable, Inv, TypeOK
<1>4. held.pending.prev # None
  BY <1>3, NoneIsNoVersion
<1>5. held.pending.prev = lastGood /\ held.pending.prev < installed
  BY <1>1, <1>4 DEF Backs
<1>6. lastGood \in proven
  BY <1>4, <1>5 DEF Inv, WayBack
<1>7. held.pending.prev # installed
  BY <1>3, <1>5, RollbackAssumption DEF Versions
<1>8. bad' = bad \cup {installed}
  BY <1>1 DEF GoBack
<1> QED
  BY <1>2, <1>3, <1>5, <1>6, <1>7, <1>8

\* No withdrawn version is installed again, and none is gone back to that did not come
\* up on this machine.
THEOREM OnlyProven == Spec => InstallsWell
<1>1. ASSUME Inv, [Next]_vars PROVE StartsWell
  <2>1. CASE Restart
    <3>1. /\ ready \in Versions /\ installed < ready /\ ready \notin bad /\ UNCHANGED bad
          /\ installers' \subseteq installers \cup {[v |-> ready, run |-> TRUE]}
      BY <1>1, <2>1 DEF Inv, TypeOK, Ahead, Restart, Usable
    <3> QED
      BY <1>1, <3>1, UpdateStarted
  <2>2. CASE Quit
    <3>1. /\ ready \in Versions /\ installed < ready /\ ready \notin bad /\ UNCHANGED bad
          /\ installers' \subseteq installers \cup {[v |-> ready, run |-> FALSE]}
      BY <1>1, <2>2 DEF Inv, TypeOK, Ahead, Quit, Usable
    <3> QED
      BY <1>1, <3>1, UpdateStarted
  <2>3. CASE Job
    <3>1. CASE UNCHANGED installers
      BY <3>1, NoneStarted
    <3>2. CASE Offered /\ installers' = installers \cup {[v |-> feed, run |-> FALSE]}
      <4>1. feed \in Versions /\ installed < feed /\ feed \notin bad /\ UNCHANGED bad
        BY <1>1, <2>3, <3>2 DEF Inv, TypeOK, Job, Offered
      <4> QED
        BY <1>1, <3>2, <4>1, UpdateStarted
    <3> QED
      BY <2>3, <3>1, <3>2 DEF Job
  <2>4. CASE GoBack
    BY <1>1, <2>4, RollbackStarted
  <2>5. CASE \E i \in installers : Install(i) \/ InstallFails(i)
    BY <2>5, NoneStarted DEF Install, InstallFails
  <2>6. CASE Publish \/ Check \/ Close \/ Launch
    BY <2>6, NoneStarted DEF Publish, Check, Close, Launch
  <2>7. CASE Confirm \/ TooLate \/ Retry \/ Report \/ Verify \/ StayOn
    BY <2>7, NoneStarted DEF Confirm, TooLate, Retry, Report, Verify, StayOn, TimeOut
  <2>8. CASE UNCHANGED vars
    BY <2>8, NoneStarted DEF vars
  <2> QED
    BY <1>1, <2>1, <2>2, <2>3, <2>4, <2>5, <2>6, <2>7, <2>8 DEF Next
<1>2. Inv /\ [Next]_vars => [StartsWell]_vars
  BY <1>1
<1>3. [StartsWell]_vars => [\A i \in installers' \ installers :
           i.v \notin bad' /\ (i.v <= installed => i.v \in proven)]_vars
  BY DEF StartsWell
<1> QED
  BY <1>2, <1>3, Invariance, PTL DEF Spec, InstallsWell
=============================================================================
