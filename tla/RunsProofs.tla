----------------------------- MODULE RunsProofs -----------------------------
(***************************************************************************)
(* What TLAPS proves of Runs, for any runs and any number of troubles:     *)
(* types, that no brief is sent twice, and that a run under way is the one *)
(* being watched, of which nobody has said that the desktop restarted.     *)
(***************************************************************************)
EXTENDS Runs, TLAPS

-----------------------------------------------------------------------------
(* The inductive invariant.                                                *)

\* The file is never ahead of what the app knows, and a brief that was sent is in it.
Ledger ==
  /\ disk.open \subseteq disk.ids
  /\ up => disk.ids \subseteq ids
  /\ \A r \in Runs : begun[r] # 0 => r \in disk.ids
  /\ \A r \in Runs : con[r] # "none" => r \in ids

Down ==
  ~up => /\ tick = "rest" /\ watch = "off" /\ posts = {} /\ ~busy
         /\ \A r \in Runs : con[r] = "none"

\* The run that is being started is new.
Starting ==
  tick = "starting" =>
    /\ busy /\ watch = "off"
    /\ mine \in disk.ids /\ begun[mine] = 0 /\ "restarted" \notin told[mine]

\* Nothing else is under way while the tick looks for a run, ...
Resting ==
  /\ tick \in {"owing", "abandoning", "claiming", "again"} => ~busy
  /\ watch # "off" => busy

\* ... which is when a restart is reported, of one run at a time.
Restart(p) == p.says = "restarted" \/ p.by \in {"owed", "again"}

Restarts ==
  /\ \A p \in posts : Restart(p) => tick \in {"abandoning", "again"}
  /\ \A p, q \in posts : Restart(p) /\ Restart(q) => p = q

Owned ==
  \A r \in Runs :
    con[r] # "none" /\ r \in open => mine = r /\ watch # "off" /\ "restarted" \notin told[r]

Inv == TypeOK /\ RunsOnce /\ Ledger /\ Down /\ Starting /\ Resting /\ Restarts /\ Owned

-----------------------------------------------------------------------------
(* Types.                                                                  *)

LEMMA ReportIs ==
  ASSUME NEW r \in Runs, NEW says \in Says, NEW by \in {"owed", "again", "aside", "watch"}
  PROVE  /\ Report(r, says, by) \in Post
         /\ Report(r, says, by).says = says /\ Report(r, says, by).by = by
  BY DEF Report, Post

LEMMA TroubleType ==
  ASSUME trouble \in 0..MaxTrouble, Trouble
  PROVE  trouble' \in 0..MaxTrouble
  BY RunsAssumption DEF Trouble

\* Whoever writes the ledger, or fails to, leaves its types.
LEMMA WriteTypes ==
  ASSUME TypeOK, ids' \subseteq Runs, open' \subseteq ids', Written \/ NotWritten
  PROVE  /\ disk' \in [ids : SUBSET Runs, open : SUBSET Runs]
         /\ trouble' \in 0..MaxTrouble
  BY TroubleType DEF TypeOK, Written, NotWritten

\* The run of a tick that starts, or of a watch, is a run.
LEMMA MineIsRun ==
  ASSUME Inv, tick = "starting" \/ watch # "off"
  PROVE  mine \in Runs
  BY DEF Inv, TypeOK, Starting, Resting

LEMMA TypeStep ==
  ASSUME Inv, [Next]_vars
  PROVE  TypeOK'
<1>0. TypeOK
  BY DEF Inv
<1>1. CASE Tick \/ Ask \/ NoAnswer \/ Switch \/ Answered \/ UNCHANGED vars
  BY <1>0, <1>1 DEF TypeOK, Tick, Ask, NoAnswer, Switch, Answered, vars, masora, watcher
<1>2. CASE Started
  BY <1>0, <1>2, MineIsRun DEF TypeOK, Started, masora
<1>3. CASE Starts
  BY <1>0, <1>3 DEF Inv, Ledger, TypeOK, Starts, masora, watcher
<1>4. CASE Dies
  <2>1. trouble' \in 0..MaxTrouble
    BY <1>0, <1>4, TroubleType DEF TypeOK, Dies
  <2> QED BY <1>0, <1>4, <2>1, RunsAssumption DEF TypeOK, Dies, masora
<1>5. CASE NotStarted
  <2>1. Report(mine, "ended", "aside") \in Post
    BY <1>5, MineIsRun, ReportIs DEF NotStarted, Says, Ends
  <2>2. posts' \subseteq Post
    BY <1>0, <1>5, <2>1 DEF TypeOK, NotStarted
  <2> QED BY <1>0, <1>5, <2>2, RunsAssumption DEF TypeOK, NotStarted, masora
<1>6. CASE Vanished \/ Finished \/ NeedsYou
  <2>1. PICK says \in Says, next \in {"needs", "finish", "last"} : watch = "loop" /\ Waits(says, next)
    BY <1>6 DEF Vanished, Finished, NeedsYou, Says, Ends
  <2>2. posts' \subseteq Post
    BY <1>0, <2>1, MineIsRun, ReportIs DEF TypeOK, Waits
  <2>3. asked' \in BOOLEAN /\ con' = con
    BY <1>0, <1>6 DEF TypeOK, Vanished, Finished, NeedsYou
  <2> QED BY <1>0, <2>1, <2>2, <2>3 DEF TypeOK, Waits, masora
<1>7. CASE Deadline
  <2>1. Report(mine, "ended", "watch") \in Post
    BY <1>7, MineIsRun, ReportIs DEF Deadline, Says, Ends
  <2>2. posts' \subseteq Post
    BY <1>0, <1>7, <2>1 DEF TypeOK, Deadline, Waits
  <2> QED BY <1>0, <1>7, <2>2 DEF TypeOK, Deadline, Waits, Stopped, masora
<1>8. ASSUME NEW p \in posts, Reach(p) PROVE TypeOK'
  <2>1. posts' \subseteq Post /\ p.run \in Runs
    BY <1>0, <1>8 DEF TypeOK, Reach, Post
  <2> QED BY <1>0, <1>8, <2>1 DEF TypeOK, Reach, watcher, Ends
<1>9. ASSUME NEW p \in posts, Abandoned(p) PROVE TypeOK'
  <2>1. posts' \subseteq Post
    BY <1>0, <1>9 DEF TypeOK, Abandoned
  <2>2. CASE CloseOwed(p.run, IF p.by = "owed" THEN "owing" ELSE "rest")
    <3>1. ids' \subseteq Runs /\ open' \subseteq ids' /\ (Written \/ NotWritten)
      BY <1>0, <2>2 DEF TypeOK, CloseOwed
    <3>2. todo' \subseteq Runs /\ tick' \in {"owing", "rest"}
      BY <1>0, <2>2 DEF TypeOK, CloseOwed
    <3> QED BY <1>0, <1>9, <2>1, <3>1, <3>2, WriteTypes DEF TypeOK, Abandoned, masora, watcher
  <2> QED BY <1>0, <1>9, <2>1, <2>2 DEF TypeOK, Abandoned, masora, watcher
<1>10. ASSUME NEW p \in posts, AsideEnds(p) PROVE TypeOK'
  <2>1. ids' \subseteq Runs /\ open' \subseteq ids' /\ posts' \subseteq Post
    BY <1>0, <1>10 DEF TypeOK, AsideEnds
  <2> QED BY <1>0, <1>10, <2>1, WriteTypes DEF TypeOK, AsideEnds, masora, watcher
<1>11. ASSUME NEW p \in posts, Heard(p) PROVE TypeOK'
  <2>1. Report(mine, "ended", "watch") \in Post
    BY <1>11, MineIsRun, ReportIs DEF Heard, Says, Ends
  <2>2. posts' \subseteq Post
    BY <1>0, <1>11, <2>1 DEF TypeOK, Heard
  <2> QED BY <1>0, <1>11, <2>2 DEF TypeOK, Heard, Stopped, masora
<1>12. ASSUME NEW p \in posts, Over(p) PROVE TypeOK'
  <2>1. ids' \subseteq Runs /\ open' \subseteq ids' /\ posts' \subseteq Post
    BY <1>0, <1>12 DEF TypeOK, Over
  <2> QED BY <1>0, <1>12, <2>1, WriteTypes, RunsAssumption DEF TypeOK, Over, Stopped, masora
<1>13. ASSUME NEW r \in Runs, Abandon(r) PROVE TypeOK'
  <2>1. CASE r \in expired
    <3>1. ids' \subseteq Runs /\ open' \subseteq ids' /\ (Written \/ NotWritten)
      BY <1>0, <1>13, <2>1 DEF TypeOK, Abandon, CloseOwed
    <3>2. todo' \subseteq Runs /\ tick' \in {"owing", "rest"}
      BY <1>0, <1>13, <2>1 DEF TypeOK, Abandon, CloseOwed
    <3> QED BY <1>0, <1>13, <2>1, <3>1, <3>2, WriteTypes DEF TypeOK, Abandon, masora, watcher
  <2>2. CASE r \notin expired
    <3>1. Report(r, "restarted", "owed") \in Post
      BY ReportIs DEF Says, Ends
    <3>2. posts' \subseteq Post
      BY <1>0, <1>13, <2>2, <3>1 DEF TypeOK, Abandon
    <3> QED BY <1>0, <1>13, <2>2, <3>2 DEF TypeOK, Abandon, masora, watcher
  <2> QED BY <2>1, <2>2
<1>14. ASSUME NEW r \in Runs, OfferedAgain(r) PROVE TypeOK'
  <2>1. Report(r, "restarted", "again") \in Post
    BY ReportIs DEF Says, Ends
  <2>2. posts' \subseteq Post
    BY <1>0, <1>14, <2>1 DEF TypeOK, OfferedAgain
  <2> QED BY <1>0, <1>14, <2>2 DEF TypeOK, OfferedAgain, masora, watcher
<1>15. ASSUME NEW r \in Runs, ClaimUnwritten(r) PROVE TypeOK'
  <2>1. ids' \subseteq Runs /\ open' \subseteq ids'
    BY <1>0, <1>15 DEF TypeOK, ClaimUnwritten
  <2> QED BY <1>0, <1>15, <2>1, WriteTypes DEF TypeOK, ClaimUnwritten, masora, watcher
<1>16. ASSUME NEW r \in Runs, ClaimDead(r) PROVE TypeOK'
  <2>1. ids' \subseteq Runs /\ open' \subseteq ids'
    BY <1>0, <1>16 DEF TypeOK, ClaimDead
  <2>2. disk' \in [ids : SUBSET Runs, open : SUBSET Runs] /\ trouble' \in 0..MaxTrouble
    BY <1>0, <1>16, <2>1, WriteTypes, TroubleType DEF TypeOK, ClaimDead
  <2> QED BY <1>0, <1>16, <2>1, <2>2 DEF TypeOK, ClaimDead, masora, watcher
<1>17. ASSUME NEW r \in Runs, Refuse(r) PROVE TypeOK'
  <2>1. Report(r, "ended", "aside") \in Post
    BY ReportIs DEF Says, Ends
  <2>2. posts' \subseteq Post
    BY <1>0, <1>17, <2>1 DEF TypeOK, Refuse
  <2> QED BY <1>0, <1>17, <2>2 DEF TypeOK, Refuse, Recorded, Written, masora, watcher
<1>18. ASSUME NEW r \in Runs, Claim(r) PROVE TypeOK'
  BY <1>0, <1>18, RunsAssumption DEF TypeOK, Claim, Recorded, Written, masora
<1>19. ASSUME NEW r \in Runs, TimeUp(r) \/ Expire(r) PROVE TypeOK'
  BY <1>0, <1>19 DEF TypeOK, TimeUp, Expire, watcher
<1>20. ASSUME NEW r \in Runs, NEW state \in {"none", "working", "asking", "idle", "exited"},
              Becomes(r, state)
       PROVE  TypeOK'
  BY <1>0, <1>20 DEF TypeOK, Becomes, masora, watcher
<1> QED
  BY <1>1, <1>2, <1>3, <1>4, <1>5, <1>6, <1>7, <1>8, <1>9, <1>10, <1>11, <1>12, <1>13, <1>14,
     <1>15, <1>16, <1>17, <1>18, <1>19, <1>20
  DEF Next, TurnEnds, AsksLeave, GetsAnswer, Exits, Prompted, ThreadClosed
-----------------------------------------------------------------------------
(* No brief twice.                                                         *)

\* A step of a running app that sends no brief: it forgets no run, and what it writes is
\* what it knows.
Remembers ==
  /\ up /\ up' /\ begun' = begun
  /\ ids \subseteq ids'
  /\ disk' = disk \/ (disk'.ids = ids' /\ disk'.open \subseteq ids')
  /\ \A r \in Runs : con'[r] # "none" => con[r] # "none"

LEMMA Remembered ==
  ASSUME Inv, Remembers
  PROVE  RunsOnce' /\ Ledger'
<1>1. RunsOnce'
  BY DEF Inv, RunsOnce, Remembers
<1>2. Ledger /\ TypeOK
  BY DEF Inv
<1>3. disk.open \subseteq disk.ids /\ disk.ids \subseteq ids
  BY <1>2 DEF Ledger, Remembers
<1>4. disk'.open \subseteq disk'.ids /\ disk.ids \subseteq disk'.ids /\ disk'.ids \subseteq ids'
  BY <1>3 DEF Remembers
<1>5. \A r \in Runs : begun'[r] # 0 => r \in disk'.ids
  BY <1>2, <1>4 DEF Ledger, Remembers
<1>6. \A r \in Runs : con'[r] # "none" => r \in ids'
  BY <1>2 DEF Ledger, Remembers
<1> QED BY <1>1, <1>4, <1>5, <1>6 DEF Ledger

LEMMA LedgerStep ==
  ASSUME Inv, [Next]_vars
  PROVE  RunsOnce' /\ Ledger'
<1>0. TypeOK /\ RunsOnce /\ Ledger
  BY DEF Inv
<1>1. CASE Switch \/ UNCHANGED vars
  BY <1>0, <1>1 DEF RunsOnce, Ledger, Switch, vars, watcher
<1>2. CASE Started
  <2>1. up /\ mine \in Runs /\ mine \in disk.ids /\ begun[mine] = 0
    BY <1>2, MineIsRun DEF Inv, Starting, Down, Started
  <2> QED BY <1>0, <1>2, <2>1 DEF TypeOK, RunsOnce, Ledger, Started
<1>3. CASE Starts \/ Dies
  BY <1>0, <1>3 DEF Inv, RunsOnce, Ledger, Down, Starts, Dies
<1>4. CASE Tick \/ Ask \/ NoAnswer \/ NotStarted \/ Answered
  <2>1. up
    BY <1>4 DEF Inv, Down, Tick, Ask, NoAnswer, NotStarted, Answered
  <2>2. UNCHANGED <<up, begun, ids, disk, con>>
    BY <1>4 DEF Tick, Ask, NoAnswer, NotStarted, Answered
  <2> QED BY <2>1, <2>2, Remembered DEF Remembers
<1>5. CASE Vanished \/ Finished \/ NeedsYou \/ Deadline
  <2>1. up /\ mine \in Runs
    BY <1>5, MineIsRun DEF Inv, Down, Vanished, Finished, NeedsYou, Deadline
  <2>2. UNCHANGED <<up, begun, ids, disk>>
    BY <1>5 DEF Vanished, Finished, NeedsYou, Deadline, Waits
  <2>3. con' = con \/ con' = Stopped
    BY <1>5 DEF Vanished, Finished, NeedsYou, Deadline
  <2> QED BY <1>0, <2>1, <2>2, <2>3, Remembered DEF TypeOK, Remembers, Stopped
<1>6. ASSUME NEW p \in posts, Reach(p) PROVE RunsOnce' /\ Ledger'
  BY <1>6, Remembered DEF Inv, Down, Reach, Remembers
<1>7. ASSUME NEW p \in posts, Abandoned(p) \/ AsideEnds(p) PROVE RunsOnce' /\ Ledger'
  <2>1. up /\ UNCHANGED <<up, begun, ids, con>>
    BY <1>7 DEF Inv, Down, Abandoned, CloseOwed, AsideEnds
  <2>2. disk' = disk \/ (open' = open \ {p.run} /\ disk' = [ids |-> ids', open |-> open'])
    BY <1>7 DEF Abandoned, CloseOwed, AsideEnds, Written, NotWritten
  <2> QED BY <1>0, <2>1, <2>2, Remembered DEF TypeOK, Remembers
<1>8. ASSUME NEW p \in posts, Heard(p) PROVE RunsOnce' /\ Ledger'
  <2>1. up /\ mine \in Runs /\ UNCHANGED <<up, begun, ids, disk>>
    BY <1>8, MineIsRun DEF Inv, Down, Heard
  <2>2. con' = con \/ con' = Stopped
    BY <1>8 DEF Heard
  <2> QED BY <1>0, <2>1, <2>2, Remembered DEF TypeOK, Remembers, Stopped
<1>9. ASSUME NEW p \in posts, Over(p) PROVE RunsOnce' /\ Ledger'
  <2>1. up /\ mine \in Runs /\ UNCHANGED <<up, begun, ids>>
    BY <1>9, MineIsRun DEF Inv, Down, Over
  <2>2. con' = con \/ con' = Stopped
    BY <1>9 DEF Over
  <2>3. disk' = disk \/ (open' = open \ {mine} /\ disk' = [ids |-> ids', open |-> open'])
    BY <1>9 DEF Over, Written, NotWritten
  <2> QED BY <1>0, <2>1, <2>2, <2>3, Remembered DEF TypeOK, Remembers, Stopped
<1>10. ASSUME NEW r \in Runs, Abandon(r) \/ OfferedAgain(r) PROVE RunsOnce' /\ Ledger'
  <2>1. up /\ UNCHANGED <<up, begun, ids, con>>
    BY <1>10 DEF Inv, Down, Abandon, CloseOwed, OfferedAgain, Offered
  <2>2. disk' = disk \/ (open' = open \ {r} /\ disk' = [ids |-> ids', open |-> open'])
    BY <1>10 DEF Abandon, OfferedAgain, CloseOwed, Written, NotWritten
  <2> QED BY <1>0, <2>1, <2>2, Remembered DEF TypeOK, Remembers
<1>11. ASSUME NEW r \in Runs, ClaimUnwritten(r) \/ ClaimDead(r) \/ Refuse(r) \/ Claim(r)
       PROVE  RunsOnce' /\ Ledger'
  <2>1. up /\ UNCHANGED <<up, begun, con>> /\ ids' = ids \cup {r}
    BY <1>11 DEF Inv, Down, ClaimUnwritten, ClaimDead, Refuse, Claim, Recorded, Offered
  <2>2. disk' = disk \/ (disk'.ids = ids' /\ disk'.open \subseteq open \cup {r})
    <3>1. CASE ClaimUnwritten(r)
      BY <3>1 DEF ClaimUnwritten, NotWritten
    <3>2. CASE ClaimDead(r)
      BY <3>2 DEF ClaimDead, Written
    <3>3. CASE Refuse(r) \/ Claim(r)
      BY <3>3 DEF Refuse, Claim, Recorded, Written
    <3> QED BY <1>11, <3>1, <3>2, <3>3
  <2> QED BY <1>0, <2>1, <2>2, Remembered DEF TypeOK, Remembers
<1>12. ASSUME NEW r \in Runs, TimeUp(r) \/ Expire(r) PROVE RunsOnce' /\ Ledger'
  BY <1>0, <1>12 DEF RunsOnce, Ledger, TimeUp, Expire
<1>13. ASSUME NEW r \in Runs, NEW state, con[r] # "none", Becomes(r, state)
       PROVE  RunsOnce' /\ Ledger'
  BY <1>0, <1>13 DEF TypeOK, RunsOnce, Ledger, Becomes
<1> QED
  BY <1>1, <1>2, <1>3, <1>4, <1>5, <1>6, <1>7, <1>8, <1>9, <1>10, <1>11, <1>12, <1>13
  DEF Next, TurnEnds, AsksLeave, GetsAnswer, Exits, Prompted, ThreadClosed

\* While the app is not running nothing of it is left.
LEMMA DownStep ==
  ASSUME Inv, [Next]_vars
  PROVE  Down'
<1> USE DEF Down, masora, watcher
<1>0. TypeOK /\ Down
  BY DEF Inv
<1>1. CASE ~up
  <2>1. tick = "rest" /\ watch = "off" /\ posts = {} /\ \A r \in Runs : con[r] = "none"
    BY <1>0, <1>1
  <2> QED
    BY <1>0, <1>1, <2>1
    DEF Next, vars, Tick, Ask, NotStarted, Started, NoAnswer, Switch, Dies, Starts, Vanished,
        Finished, NeedsYou, Answered, Deadline, TimeUp, Expire, Abandon, OfferedAgain, Offered,
        ClaimUnwritten, ClaimDead, Refuse, Claim, TurnEnds, AsksLeave, GetsAnswer, Exits,
        Prompted, ThreadClosed
<1>2. CASE up /\ Dies
  BY <1>2 DEF Dies
<1>3. CASE up /\ ~Dies
  <2>1. up' = up
    BY <1>3
    DEF Next, vars, Tick, Ask, NotStarted, Started, NoAnswer, Switch, Starts, Vanished,
        Finished, NeedsYou, Answered, Deadline, Waits, TimeUp, Expire, Abandon, OfferedAgain,
        ClaimUnwritten, ClaimDead, Refuse, Claim, Becomes, TurnEnds, AsksLeave, GetsAnswer,
        Exits, Prompted, ThreadClosed, Reach, Abandoned, AsideEnds, Heard, Over
  <2> QED BY <1>3, <2>1
<1> QED BY <1>1, <1>2, <1>3
-----------------------------------------------------------------------------
(* One run at a time.                                                      *)

\* A step that reports no restart, and leaves the tick that is reporting one.
LEMMA NoNewRestart ==
  ASSUME Inv, \A p \in posts' : Restart(p) => p \in posts,
         tick' = tick \/ tick \notin {"abandoning", "again"}
  PROVE  Restarts'
  BY DEF Inv, Restarts

LEMMA RestartsStep ==
  ASSUME Inv, [Next]_vars
  PROVE  Restarts'
<1>0. TypeOK /\ Restarts
  BY DEF Inv
<1>1. CASE UNCHANGED vars \/ Tick \/ Ask \/ Started \/ NoAnswer \/ Switch \/ Starts \/ Answered
  BY <1>1, NoNewRestart
  DEF vars, Tick, Ask, Started, NoAnswer, Switch, Starts, Answered, watcher
<1>2. CASE Dies
  BY <1>2 DEF Dies, Restarts
<1>3. CASE NotStarted
  BY <1>3, NoNewRestart DEF NotStarted, Restart, Report
<1>4. CASE Vanished \/ Finished \/ NeedsYou \/ Deadline
  <2>1. PICK says \in {"ended", "needs you"} : posts' = posts \cup {Report(mine, says, "watch")}
    BY <1>4 DEF Vanished, Finished, NeedsYou, Deadline, Waits
  <2>2. tick' = tick
    BY <1>4 DEF Vanished, Finished, NeedsYou, Deadline, Waits
  <2>3. ~Restart(Report(mine, says, "watch"))
    BY DEF Restart, Report
  <2> QED BY <2>1, <2>2, <2>3, NoNewRestart
<1>5. ASSUME NEW p \in posts, Reach(p) PROVE Restarts'
  <2> DEFINE heard == [p EXCEPT !.reached = TRUE]
  <2>1. heard.says = p.says /\ heard.by = p.by
    BY <1>0 DEF TypeOK, Post
  <2>2. posts' = (posts \ {p}) \cup {heard} /\ tick' = tick
    BY <1>5 DEF Reach
  <2>3. Restart(heard) = Restart(p)
    BY <2>1 DEF Restart
  <2> QED BY <1>0, <2>2, <2>3 DEF Restarts
<1>6. ASSUME NEW p \in posts, Abandoned(p) PROVE Restarts'
  <2>1. Restart(p) /\ posts' = posts \ {p}
    BY <1>6 DEF Abandoned, Restart
  <2>2. \A q \in posts' : ~Restart(q)
    BY <1>0, <2>1 DEF Restarts
  <2> QED BY <2>2 DEF Restarts
<1>7. ASSUME NEW p \in posts, AsideEnds(p) \/ Over(p) PROVE Restarts'
  BY <1>7, NoNewRestart DEF AsideEnds, Over, watcher
<1>8. ASSUME NEW p \in posts, Heard(p) PROVE Restarts'
  BY <1>8, NoNewRestart DEF Heard, Restart, Report
<1>9. ASSUME NEW r \in Runs, Abandon(r) \/ OfferedAgain(r) PROVE Restarts'
  <2>1. \A p \in posts : ~Restart(p)
    BY <1>0, <1>9 DEF Restarts, Abandon, OfferedAgain, Offered
  <2>2. \/ posts' = posts
        \/ posts' = posts \cup {Report(r, "restarted", "owed")} /\ tick' = "abandoning"
        \/ posts' = posts \cup {Report(r, "restarted", "again")} /\ tick' = "again"
    BY <1>9 DEF Abandon, OfferedAgain
  <2> QED BY <2>1, <2>2 DEF Restarts
<1>10. ASSUME NEW r \in Runs, ClaimUnwritten(r) \/ ClaimDead(r) \/ Claim(r) PROVE Restarts'
  BY <1>10, NoNewRestart DEF ClaimUnwritten, ClaimDead, Claim, Offered
<1>11. ASSUME NEW r \in Runs, Refuse(r) PROVE Restarts'
  BY <1>11, NoNewRestart DEF Refuse, Offered, Restart, Report
<1>12. ASSUME NEW r \in Runs, TimeUp(r) \/ Expire(r) PROVE Restarts'
  BY <1>12, NoNewRestart DEF TimeUp, Expire
<1>13. ASSUME NEW r \in Runs, NEW state, Becomes(r, state) PROVE Restarts'
  BY <1>13, NoNewRestart DEF Becomes
<1> QED
  BY <1>1, <1>2, <1>3, <1>4, <1>5, <1>6, <1>7, <1>8, <1>9, <1>10, <1>11, <1>12, <1>13
  DEF Next, TurnEnds, AsksLeave, GetsAnswer, Exits, Prompted, ThreadClosed

LEMMA RestingStep ==
  ASSUME Inv, [Next]_vars
  PROVE  Resting'
<1> USE DEF Inv, Resting, watcher
<1>1. CASE UNCHANGED vars \/ Tick \/ Ask \/ NoAnswer \/ Switch \/ Starts \/ Answered \/ Dies
  BY <1>1 DEF vars, Tick, Ask, NoAnswer, Switch, Starts, Answered, Dies
<1>2. CASE NotStarted \/ Started
  BY <1>2 DEF Starting, NotStarted, Started
<1>3. CASE Vanished \/ Finished \/ NeedsYou \/ Deadline
  BY <1>3 DEF Vanished, Finished, NeedsYou, Deadline, Waits
<1>4. ASSUME NEW p \in posts, Reach(p) \/ AsideEnds(p) \/ Heard(p) \/ Over(p) PROVE Resting'
  BY <1>4 DEF Reach, AsideEnds, Heard, Over
<1>5. ASSUME NEW p \in posts, Abandoned(p) PROVE Resting'
  <2>1. tick \in {"abandoning", "again"}
    BY <1>5 DEF Restarts, Restart, Abandoned
  <2> QED BY <1>5, <2>1 DEF Abandoned
<1>6. ASSUME NEW r \in Runs, Abandon(r) PROVE Resting'
  BY <1>6 DEF Abandon
<1>7. ASSUME NEW r \in Runs,
             OfferedAgain(r) \/ ClaimUnwritten(r) \/ ClaimDead(r) \/ Refuse(r) \/ Claim(r)
      PROVE  Resting'
  BY <1>7 DEF Offered, OfferedAgain, ClaimUnwritten, ClaimDead, Refuse, Claim
<1>8. ASSUME NEW r \in Runs, TimeUp(r) \/ Expire(r) PROVE Resting'
  BY <1>8 DEF TimeUp, Expire
<1>9. ASSUME NEW r \in Runs, NEW state, Becomes(r, state) PROVE Resting'
  BY <1>9 DEF Becomes
<1> QED
  BY <1>1, <1>2, <1>3, <1>4, <1>5, <1>6, <1>7, <1>8, <1>9
  DEF Next, TurnEnds, AsksLeave, GetsAnswer, Exits, Prompted, ThreadClosed

LEMMA StartingStep ==
  ASSUME Inv, [Next]_vars
  PROVE  Starting'
<1> SUFFICES ASSUME tick' = "starting" PROVE Starting'
  BY DEF Starting
<1>0. TypeOK /\ Ledger /\ Starting
  BY DEF Inv
<1>1. ASSUME NEW r \in Runs, Claim(r) PROVE Starting'
  <2>1. up /\ begun[r] = 0 /\ told[r] = {} /\ watch = "off"
    BY <1>0, <1>1 DEF Inv, Down, Resting, TypeOK, Ledger, Claim, Offered
  <2> QED BY <1>1, <2>1 DEF Starting, Claim, Recorded, Written, masora
<1>2. CASE \A r \in Runs : ~Claim(r)
  <2>1. tick = "starting"
    BY <1>2 DEF Next, vars, Tick, Ask, NotStarted, Started, NoAnswer, Switch, Dies, Starts,
        Vanished, Finished, NeedsYou, Answered, Deadline, Waits, TimeUp, Expire, Abandon,
        CloseOwed, OfferedAgain, ClaimUnwritten, ClaimDead, Refuse, Becomes, TurnEnds,
        AsksLeave, GetsAnswer, Exits, Prompted, ThreadClosed, Reach, Abandoned, AsideEnds,
        Heard, Over
  <2>2. watch = "off" /\ mine \in Runs /\ up
    BY <2>1, MineIsRun DEF Inv, Starting, Down
  <2>3. CASE UNCHANGED vars \/ Switch
    BY <1>0, <2>1, <2>3 DEF Starting, vars, Switch, watcher
  <2>4. ASSUME NEW p \in posts, Reach(p) PROVE Starting'
    <3>1. p.says # "restarted"
      BY <2>1 DEF Inv, Restarts, Restart
    <3>2. told'[mine] \subseteq told[mine] \cup {p.says}
      BY <1>0, <2>2, <2>4 DEF TypeOK, Reach
    <3> QED BY <1>0, <2>1, <2>4, <3>1, <3>2 DEF Starting, Reach, watcher
  <2>5. ASSUME NEW p \in posts, AsideEnds(p) PROVE Starting'
    <3>1. disk.ids \subseteq disk'.ids
      BY <1>0, <2>2, <2>5 DEF Ledger, AsideEnds, Written, NotWritten
    <3> QED BY <1>0, <2>1, <2>5, <3>1 DEF Starting, AsideEnds, masora, watcher
  <2>6. ASSUME NEW r \in Runs, TimeUp(r) \/ Expire(r) PROVE Starting'
    BY <1>0, <2>1, <2>6 DEF Starting, TimeUp, Expire, watcher
  <2>7. ASSUME NEW r \in Runs, NEW state, Becomes(r, state) PROVE Starting'
    BY <1>0, <2>1, <2>7 DEF Starting, Becomes, masora, watcher
  <2>8. ASSUME NEW p \in posts, Abandoned(p) PROVE Starting'
    BY <2>1, <2>8 DEF Inv, Restarts, Restart, Abandoned
  <2> QED
    BY <1>2, <2>1, <2>2, <2>3, <2>4, <2>5, <2>6, <2>7, <2>8
    DEF Next, Tick, Ask, NotStarted, Started, NoAnswer, Dies, Starts, Vanished, Finished,
        NeedsYou, Answered, Deadline, Abandon, OfferedAgain, Offered, ClaimUnwritten,
        ClaimDead, Refuse, TurnEnds, AsksLeave, GetsAnswer, Exits, Prompted, ThreadClosed,
        Heard, Over
<1> QED BY <1>1, <1>2
\* A step after which no run is claimed and has a console that had not both before.
LEMMA OwnedKept ==
  ASSUME Inv, told' = told,
         \A r \in Runs : con'[r] # "none" /\ r \in open' => con[r] # "none" /\ r \in open,
         watch = "off" \/ (mine' = mine /\ watch' # "off")
  PROVE  Owned'
  BY DEF Inv, Owned

LEMMA OwnedStep ==
  ASSUME Inv, [Next]_vars
  PROVE  Owned'
<1>0. TypeOK /\ Ledger /\ Owned
  BY DEF Inv
<1>1. CASE UNCHANGED vars \/ Switch
  BY <1>0, <1>1 DEF Owned, vars, Switch, watcher
<1>2. CASE Tick \/ Ask \/ NoAnswer
  BY <1>0, <1>2 DEF Owned, Tick, Ask, NoAnswer, masora, watcher
<1>3. CASE Answered
  BY <1>0, <1>3 DEF Owned, Answered, masora
<1>4. CASE NotStarted
  BY <1>4, OwnedKept DEF Inv, Starting, NotStarted, masora
<1>5. CASE Started
  <2>1. watch = "off" /\ mine \in Runs /\ "restarted" \notin told[mine]
    BY <1>5, MineIsRun DEF Inv, Starting, Started
  <2>2. \A r \in Runs : con[r] # "none" => r \notin open
    BY <1>0, <2>1 DEF Owned
  <2> QED BY <1>0, <1>5, <2>1, <2>2 DEF TypeOK, Owned, Started, masora
<1>6. CASE Dies \/ Starts
  BY <1>6 DEF Inv, Down, Owned, Dies, Starts
<1>7. CASE Vanished \/ Finished \/ NeedsYou \/ Deadline
  <2>1. watch = "loop" /\ watch' # "off" /\ UNCHANGED <<told, open, mine>>
    BY <1>7 DEF Vanished, Finished, NeedsYou, Deadline, Waits, masora
  <2>2. con' = con \/ con' = Stopped
    BY <1>7 DEF Vanished, Finished, NeedsYou, Deadline
  <2>3. \A r \in Runs : con'[r] # "none" => con[r] # "none"
    BY <1>0, <2>1, <2>2, MineIsRun DEF TypeOK, Stopped
  <2> QED BY <2>1, <2>3, OwnedKept
<1>8. ASSUME NEW p \in posts, Reach(p) PROVE Owned'
  <2>1. p.run \in Runs /\ p.says \in Says
    BY <1>0 DEF TypeOK, Post
  <2>2. p.says = "restarted" => watch = "off"
    BY <1>0 DEF Inv, Restarts, Restart, Resting
  <2>3. \A r \in Runs : told'[r] \subseteq told[r] \cup {p.says}
    BY <1>0, <1>8, <2>1 DEF TypeOK, Reach
  <2> QED BY <1>0, <1>8, <2>2, <2>3 DEF Owned, Reach, watcher
<1>9. ASSUME NEW p \in posts, Abandoned(p) \/ AsideEnds(p) PROVE Owned'
  <2>1. UNCHANGED <<told, con, mine, watch>> /\ open' \subseteq open
    BY <1>9 DEF Abandoned, CloseOwed, AsideEnds, masora, watcher
  <2> QED BY <2>1, OwnedKept
<1>10. ASSUME NEW p \in posts, Heard(p) PROVE Owned'
  <2>1. watch = "needs" /\ watch' # "off" /\ UNCHANGED <<told, open, mine>>
    BY <1>10 DEF Heard, masora
  <2>2. con' = con \/ con' = Stopped
    BY <1>10 DEF Heard
  <2>3. \A r \in Runs : con'[r] # "none" => con[r] # "none"
    BY <1>0, <2>1, <2>2, MineIsRun DEF TypeOK, Stopped
  <2> QED BY <2>1, <2>3, OwnedKept
<1>11. ASSUME NEW p \in posts, Over(p) PROVE Owned'
  <2>1. watch # "off" /\ open' = open \ {mine} /\ (con' = con \/ con' = Stopped)
    BY <1>11 DEF Over
  <2>2. \A r \in Runs : con'[r] # "none" => con[r] # "none"
    BY <1>0, <2>1, MineIsRun DEF TypeOK, Stopped
  <2> QED BY <1>0, <2>1, <2>2 DEF Owned
<1>12. ASSUME NEW r \in Runs, Abandon(r) \/ OfferedAgain(r) PROVE Owned'
  <2>1. UNCHANGED <<told, con, mine, watch>> /\ open' \subseteq open
    BY <1>12 DEF Abandon, CloseOwed, OfferedAgain, masora, watcher
  <2> QED BY <2>1, OwnedKept
<1>13. ASSUME NEW r \in Runs, ClaimUnwritten(r) \/ ClaimDead(r) \/ Refuse(r) \/ Claim(r)
       PROVE  Owned'
  <2>1. watch = "off" /\ con[r] = "none"
    BY <1>0, <1>13
    DEF Inv, Resting, Ledger, Offered, ClaimUnwritten, ClaimDead, Refuse, Claim
  <2>2. UNCHANGED <<told, con>> /\ open' \subseteq open \cup {r}
    BY <1>13 DEF ClaimUnwritten, ClaimDead, Refuse, Claim, Recorded, masora
  <2> QED BY <2>1, <2>2, OwnedKept
<1>14. ASSUME NEW r \in Runs, TimeUp(r) \/ Expire(r) PROVE Owned'
  BY <1>0, <1>14 DEF Owned, TimeUp, Expire, watcher
<1>15. ASSUME NEW r \in Runs, NEW state, con[r] # "none", Becomes(r, state) PROVE Owned'
  BY <1>0, <1>15 DEF TypeOK, Owned, Becomes, masora, watcher
<1> QED
  BY <1>1, <1>2, <1>3, <1>4, <1>5, <1>6, <1>7, <1>8, <1>9, <1>10, <1>11, <1>12, <1>13, <1>14,
     <1>15
  DEF Next, TurnEnds, AsksLeave, GetsAnswer, Exits, Prompted, ThreadClosed

-----------------------------------------------------------------------------
(* The theorems.                                                           *)

LEMMA Initial ==
  Init => Inv
<1> SUFFICES ASSUME Init PROVE Inv
  OBVIOUS
<1>1. TypeOK
  <2>1. told \in [Runs -> SUBSET Ends] /\ begun \in [Runs -> Nat]
    BY DEF Init
  <2>2. con \in [Runs -> {"none", "working", "asking", "idle", "exited"}]
    BY DEF Init
  <2>3. disk \in [ids : SUBSET Runs, open : SUBSET Runs] /\ trouble \in 0..MaxTrouble
    BY RunsAssumption DEF Init
  <2> QED BY <2>1, <2>2, <2>3 DEF Init, TypeOK
<1>2. RunsOnce /\ Ledger /\ Down
  BY DEF Init, RunsOnce, Ledger, Down
<1>3. Starting /\ Resting /\ Restarts /\ Owned
  BY DEF Init, Starting, Resting, Restarts, Owned
<1> QED BY <1>1, <1>2, <1>3 DEF Inv

LEMMA Invariance ==
  Spec => []Inv
<1>1. Inv /\ [Next]_vars => Inv'
  BY TypeStep, LedgerStep, DownStep, StartingStep, RestingStep, RestartsStep, OwnedStep DEF Inv
<1> QED BY <1>1, Initial, PTL DEF Spec

\* Types.
THEOREM TypeCorrect == Spec => []TypeOK
<1>1. Inv => TypeOK
  BY DEF Inv
<1> QED BY <1>1, Invariance, PTL

\* No brief is sent to an agent twice, whatever is offered again, wherever the app dies and
\* whichever write of the ledger fails (#claimOne).
THEOREM NeverTwice == Spec => []RunsOnce
<1>1. Inv => RunsOnce
  BY DEF Inv
<1> QED BY <1>1, Invariance, PTL

\* A claimed run whose agent is at work is the run being watched, and no report says that
\* the desktop restarted under it (tick, #claimOne, #abandon).
THEOREM OneRun == Spec => []OneAtATime
<1>1. Inv => OneAtATime
  <2> SUFFICES ASSUME Inv, NEW r \in Runs, con[r] \in {"working", "asking"}, r \in open
               PROVE  busy /\ mine = r /\ "restarted" \notin told[r]
    BY DEF OneAtATime
  <2> QED BY DEF Inv, Resting, Owned
<1> QED BY <1>1, Invariance, PTL
=============================================================================
