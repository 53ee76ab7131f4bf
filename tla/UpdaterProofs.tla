---------------------------- MODULE UpdaterProofs ----------------------------
(***************************************************************************)
(* Theorems about the client updater, for any number of processes, files   *)
(* and releases, and any amount of trouble.                                *)
(***************************************************************************)
EXTENDS Updater, TLAPS

Typed == TypeOK /\ Underway

LEMMA InitTyped == Init => Typed
  BY UpdaterAssumption DEF Init, TypeOK, UpdaterAssumption, Steps, NotSaving, Typed, Underway, Sent, Happened

LEMMA NoteTyped ==
  ASSUME past \subseteq Happened, NEW w \in Happened, NEW P \in BOOLEAN, Note(w, P)
  PROVE  past' \subseteq Happened
  BY DEF Note

\* The process u forgets, and goes to s.
LEMMA ForgetTyped ==
  ASSUME TypeOK, Underway, NEW u \in Updaters, Forget(u), NEW s \in {"idle", "refresh"}, Goto(u, s)
  PROVE  /\ pc' \in [Updaters -> Steps] /\ target' \in [Updaters -> 0..Last]
         /\ todo' \in [Updaters -> SUBSET Files] /\ ready' \in [Updaters -> SUBSET Files]
         /\ saving' \in [Updaters -> [name : Files \cup {NoFile}, at : {"incoming", "disk", "nowhere"}]]
         /\ Underway'
<1>1. /\ pc' \in [Updaters -> Steps] /\ target' \in [Updaters -> 0..Last]
      /\ todo' \in [Updaters -> SUBSET Files] /\ ready' \in [Updaters -> SUBSET Files]
      /\ saving' \in [Updaters -> [name : Files \cup {NoFile}, at : {"incoming", "disk", "nowhere"}]]
  BY UpdaterAssumption DEF TypeOK, Forget, Goto, Steps, NotSaving, UpdaterAssumption
<1>2. Underway'
  BY DEF TypeOK, Underway, Forget, Goto, Sent
<1> QED
  BY <1>1, <1>2

\* Every step of an updater, and everything around it, keeps the types.
LEMMA NextTyped == Typed /\ [Next]_vars => Typed'
<1> SUFFICES ASSUME Typed, [Next]_vars PROVE Typed'
  OBVIOUS
<1> USE UpdaterAssumption DEF UpdaterAssumption
<1>0. TypeOK /\ Underway
  BY DEF Typed
<1>1. CASE Publish
  BY <1>0, <1>1 DEF Typed, TypeOK, Underway, Sent, Publish, procVars, fileVars
<1>2. CASE LockAges
  <2>1. past' \subseteq Happened
    BY <1>0, <1>2, NoteTyped DEF LockAges, TypeOK, Happened
  <2>2. trouble' \in 0..MaxTrouble
    BY <1>0, <1>2 DEF LockAges, Trouble, TypeOK
  <2> QED
    BY <1>0, <1>2, <2>1, <2>2 DEF Typed, TypeOK, Underway, Sent, LockAges, procVars
<1>3. ASSUME NEW u \in Updaters, Step(u) PROVE Typed'
  <2>1. CASE Look(u)
    <3>1. past' \subseteq Happened
      BY <1>0, <2>1, NoteTyped DEF Look, TypeOK, Happened
    <3> QED
      BY <1>0, <2>1, <3>1 DEF Typed, TypeOK, Underway, Sent, Look, Goto, Steps, fileVars
  <2>2. CASE Take(u)
    <3>1. past' \subseteq Happened
      BY <1>0, <2>2, NoteTyped DEF Take, TypeOK, Happened
    <3> QED
      BY <1>0, <2>2, <3>1 DEF Typed, TypeOK, Underway, Sent, Take, Goto, Steps
  <2>3. CASE FetchManifest(u)
    BY <1>0, <2>3 DEF Typed, TypeOK, Underway, Sent, FetchManifest, Goto, Steps, fileVars
  <2>4. CASE Compare(u)
    <3>1. Stale(u) \in SUBSET Files
      BY DEF Stale
    <3>2. TypeOK'
      BY <1>0, <2>4, <3>1 DEF TypeOK, Compare, Goto, Steps, fileVars
    <3>3. Underway'
      BY <1>0, <2>4 DEF TypeOK, Compare, Goto, Steps, Underway, Sent
    <3> QED
      BY <3>2, <3>3 DEF Typed
  <2>5. ASSUME NEW f \in Files, Open(u, f) PROVE Typed'
    <3>1. TypeOK'
      BY <1>0, <2>5 DEF TypeOK, Open, Goto, Steps
    <3>2. Underway'
      BY <1>0, <2>5 DEF TypeOK, Open, Goto, Steps, Underway, Sent
    <3> QED
      BY <3>1, <3>2 DEF Typed
  <2>6. ASSUME NEW f \in Files, Rename(u, f) PROVE Typed'
    <3>1. \A v \in Updaters : saving[v] \in [name : Files \cup {NoFile}, at : {"incoming", "disk", "nowhere"}]
      BY <1>0 DEF TypeOK
    <3>2. \A v \in Updaters :
             /\ Follow(saving[v], f) \in [name : Files \cup {NoFile}, at : {"incoming", "disk", "nowhere"}]
             /\ Follow(saving[v], f).name = saving[v].name
      BY <3>1 DEF Follow
    <3>3. /\ \A v \in Updaters : saving'[v] = Follow(saving[v], f)
          /\ saving' \in [Updaters -> [name : Files \cup {NoFile}, at : {"incoming", "disk", "nowhere"}]]
      BY <2>6, <3>2 DEF Rename
    <3>4. disk' \in [Files -> Contents \cup {Torn}] /\ incoming' \in [Files -> Contents \cup {Torn, NoFile}]
      BY <1>0, <2>6 DEF TypeOK, Rename
    <3>5. TypeOK'
      BY <1>0, <2>6, <3>3, <3>4 DEF TypeOK, Rename
    <3>6. Underway'
      BY <1>0, <2>6, <3>2, <3>3 DEF Underway, Sent, Rename
    <3> QED
      BY <3>5, <3>6 DEF Typed
  <2>7. CASE Save(u)
    <3> DEFINE g == saving[u].name
    <3>1. g \in Files /\ target[u] \in 1..Last
      BY <1>0, <2>7 DEF Underway, Sent, Save
    <3>2. Build[target[u]][g] \in Contents
      BY <3>1
    <3>3. /\ incoming' \in [Files -> Contents \cup {Torn, NoFile}]
          /\ disk' \in [Files -> Contents \cup {Torn}]
          /\ ready' \in [Updaters -> SUBSET Files]
      BY <1>0, <2>7, <3>1, <3>2 DEF TypeOK, Save
    <3>4. TypeOK'
      BY <1>0, <2>7, <3>3 DEF TypeOK, Save, Goto, Steps, NotSaving
    <3>5. Underway'
      BY <1>0, <2>7 DEF TypeOK, Save, Goto, Steps, Underway, Sent
    <3> QED
      BY <3>4, <3>5 DEF Typed
  <2>8. CASE GiveUp(u)
    BY <1>0, <2>8 DEF Typed, TypeOK, Underway, Sent, GiveUp, Trouble, Goto, Steps, fileVars
  <2>9. CASE RenameFails(u)
    <3>1. past' \subseteq Happened
      BY <1>0, <2>9, NoteTyped DEF RenameFails, Cut, TypeOK, Happened
    <3> QED
      BY <1>0, <2>9, <3>1 DEF Typed, TypeOK, Underway, Sent, RenameFails, Trouble, Goto, Steps, fileVars
  <2>10. CASE WriteManifest(u)
    <3>1. target[u] \in 0..Last
      BY <1>0 DEF TypeOK
    <3>2. TypeOK'
      BY <1>0, <2>10, <3>1 DEF TypeOK, WriteManifest, Goto, Steps
    <3>3. Underway'
      BY <1>0, <2>10 DEF TypeOK, Underway, Sent, WriteManifest, Goto, Steps
    <3> QED
      BY <3>2, <3>3 DEF Typed
  <2>11. CASE Release(u)
    BY <1>0, <2>11, ForgetTyped DEF Typed, TypeOK, Release
  <2>12. CASE Refused(u)
    BY <1>0, <2>12 DEF Typed, TypeOK, Underway, Sent, Refused, Goto, Steps, fileVars
  <2>13. CASE Exit(u)
    BY <1>0, <2>13 DEF Typed, TypeOK, Underway, Sent, Exit, Goto, Steps, fileVars
  <2> QED
    BY <1>3, <2>1, <2>2, <2>3, <2>4, <2>5, <2>6, <2>7, <2>8, <2>9, <2>10, <2>11, <2>12, <2>13 DEF Step
<1>4. ASSUME NEW u \in Updaters, Crash(u) PROVE Typed'
  <2>1. past' \subseteq Happened
    BY <1>0, <1>4, NoteTyped DEF Crash, Cut, TypeOK, Happened
  <2>2. trouble' \in 0..MaxTrouble
    BY <1>0, <1>4 DEF Crash, Trouble, TypeOK
  <2> QED
    BY <1>0, <1>4, <2>1, <2>2, ForgetTyped DEF Typed, TypeOK, Crash, fileVars
<1>6. ASSUME NEW u \in Updaters, Watchdog(u) PROVE Typed'
  <2>1. past' \subseteq Happened
    BY <1>0, <1>6, NoteTyped DEF Watchdog, TypeOK, Happened
  <2>2. trouble' \in 0..MaxTrouble
    BY <1>0, <1>6 DEF Watchdog, Trouble, TypeOK
  <2> QED
    BY <1>0, <1>6, <2>1, <2>2, ForgetTyped DEF Typed, TypeOK, Watchdog
<1>5. CASE UNCHANGED vars
  BY <1>0, <1>5 DEF Typed, TypeOK, Underway, Sent, vars, procVars, fileVars
<1> QED
  BY <1>1, <1>2, <1>3, <1>4, <1>5, <1>6 DEF Next

\* Every variable of Updater keeps its type, whatever fails or interleaves.
THEOREM TypeCorrect == Spec => []TypeOK
<1>1. Spec => []Typed
  BY InitTyped, NextTyped, PTL DEF Spec
<1>2. Typed => TypeOK
  BY DEF Typed
<1> QED
  BY <1>1, <1>2, PTL

-----------------------------------------------------------------------------
(* The lock. *)

LEMMA InitLock == Init => LockInv
  BY DEF Init, LockInv, Busy, Working

\* An updater looks, unless somebody slips, only when nobody else is past its look:
\* the lock of one at work is fresh.
LEMMA NextLock ==
  ASSUME Typed, LockInv, [Next]_vars
  PROVE  LockInv'
<1> SUFFICES ASSUME "slipped" \notin past'
             PROVE  (/\ "overlap" \notin past
                     /\ \A u, v \in Updaters : Busy(u) /\ Busy(v) => u = v
                     /\ \A u \in Updaters : Working(u) => lock = "fresh")'
  BY DEF LockInv
<1> USE DEF Busy, Working
<1>0. ASSUME past \subseteq past'
      PROVE  /\ "slipped" \notin past /\ "overlap" \notin past
             /\ \A u, v \in Updaters : Busy(u) /\ Busy(v) => u = v
             /\ \A u \in Updaters : Working(u) => lock = "fresh"
  BY <1>0 DEF LockInv
<1>a. pc \in [Updaters -> Steps]
  BY DEF Typed, TypeOK
<1> DEFINE Goal == (/\ "overlap" \notin past
                    /\ \A u, v \in Updaters : Busy(u) /\ Busy(v) => u = v
                    /\ \A u \in Updaters : Working(u) => lock = "fresh")'
<1>1. CASE Publish
  BY <1>0, <1>1 DEF Publish, procVars, fileVars
<1>2. CASE LockAges
  <2>1. past \subseteq past' /\ \A u \in Updaters : ~Working(u)
    BY <1>2 DEF LockAges, Note
  <2>2. "overlap" \notin past'
    BY <1>0, <1>2, <2>1 DEF LockAges, Note
  <2> QED
    BY <1>0, <1>2, <2>1, <2>2 DEF LockAges, procVars
<1>3. ASSUME NEW u \in Updaters, Step(u) PROVE Goal
  <2>1. CASE Look(u)
    <3>1. past' = past /\ \A v \in Updaters : pc[v] # "take"
      BY <2>1 DEF Look, Note
    <3>2. \A v \in Updaters : ~Busy(v)
      BY <1>0, <2>1, <3>1 DEF Look
    <3> QED
      BY <1>0, <1>a, <2>1, <3>1, <3>2 DEF Look, Goto
  <2>2. CASE Take(u)
    <3>1. past \subseteq past' /\ Busy(u) /\ ~Working(u)
      BY <2>2 DEF Take, Note
    <3>2. \A v \in Updaters : ~Working(v)
      BY <1>0, <3>1
    <3>3. past' = past
      BY <2>2, <3>2 DEF Take, Note
    <3> QED
      BY <1>0, <1>a, <2>2, <3>3 DEF Take, Goto
  <2>3. CASE past' = past /\ Working(u) /\ lock' = lock /\ Working(u)'
               /\ pc' = [pc EXCEPT ![u] = pc'[u]]
    BY <1>0, <1>a, <2>3
  <2>4. CASE past' = past /\ lock' = lock /\ pc' = [pc EXCEPT ![u] = pc'[u]] /\ ~Busy(u)'
    BY <1>0, <1>a, <2>4
  <2>5. CASE Release(u)
    <3>1. past' = past /\ Working(u) /\ Busy(u) /\ pc' = [pc EXCEPT ![u] = "refresh"]
      BY <2>5 DEF Release, Goto
    <3>2. \A v \in Updaters : ~Busy(v)'
      BY <1>0, <1>a, <3>1
    <3> QED
      BY <1>0, <3>1, <3>2
  <2>6. CASE Refused(u)
    BY <1>a, <2>4, <2>6 DEF Refused, Goto, fileVars
  <2>7. CASE Exit(u)
    BY <1>a, <2>4, <2>7 DEF Exit, Goto, fileVars
  <2>8. CASE FetchManifest(u)
    BY <1>a, <2>3, <2>8 DEF FetchManifest, Goto, fileVars
  <2>9. CASE Compare(u)
    BY <1>a, <2>3, <2>9 DEF Compare, Goto, fileVars
  <2>10. ASSUME NEW f \in Files, Open(u, f) PROVE Goal
    BY <1>a, <2>3, <2>10 DEF Open, Goto
  <2>11. ASSUME NEW f \in Files, Rename(u, f) PROVE Goal
    BY <1>a, <2>3, <2>11 DEF Rename
  <2>12. CASE Save(u)
    BY <1>a, <2>3, <2>12 DEF Save, Goto
  <2>13. CASE GiveUp(u)
    BY <1>a, <2>3, <2>13 DEF GiveUp, Goto, fileVars
  <2>14. CASE RenameFails(u)
    <3>1. past \subseteq past' /\ ("overlap" \in past' => "overlap" \in past)
      BY <2>14 DEF RenameFails, Note
    <3> QED
      BY <1>0, <1>a, <2>14, <3>1 DEF RenameFails, Goto, fileVars
  <2>15. CASE WriteManifest(u)
    BY <1>a, <2>3, <2>15 DEF WriteManifest, Goto
  <2> HIDE DEF Goal
  <2> QED
    BY <1>3, <2>1, <2>2, <2>5, <2>6, <2>7, <2>8, <2>9, <2>10, <2>11, <2>12, <2>13, <2>14, <2>15 DEF Step
<1>4. ASSUME NEW u \in Updaters, Crash(u) PROVE Goal
  <2>1. past \subseteq past' /\ ("overlap" \in past' => "overlap" \in past)
    BY <1>4 DEF Crash, Note
  <2> QED
    BY <1>0, <1>a, <1>4, <2>1 DEF Crash, Goto, fileVars
<1>5. ASSUME NEW u \in Updaters, Watchdog(u) PROVE Goal
  <2>1. /\ past' = past /\ (pc[u] # "refresh" \/ lock = "absent") /\ lock' = "absent"
        /\ pc' = [pc EXCEPT ![u] = "idle"] /\ pc[u] \in {"manifest", "fetch", "refresh"}
    BY <1>5 DEF Watchdog, Note, Goto
  <2>2. \A v \in Updaters : ~Working(v)'
    BY <1>0, <1>a, <2>1
  <2> QED
    BY <1>0, <1>a, <2>1, <2>2
<1>6. CASE UNCHANGED vars
  BY <1>0, <1>6 DEF vars, procVars, fileVars
<1> HIDE DEF Goal
<1>7. Goal
  BY <1>1, <1>2, <1>3, <1>4, <1>5, <1>6 DEF Next, Goal
<1> QED
  BY <1>7 DEF Goal

\* "One updater at a time": two at work together means that one slipped by the lock, and
\* the three ways of that are the only ones.
THEOREM OneAtATime == Spec => []OneUpdater
<1>1. Init => Typed /\ LockInv
  BY InitTyped, InitLock
<1>2. Typed /\ LockInv /\ [Next]_vars => (Typed /\ LockInv)'
  BY NextTyped, NextLock
<1>3. LockInv => OneUpdater
  BY DEF LockInv, OneUpdater
<1> QED
  BY <1>1, <1>2, <1>3, PTL DEF Spec

-----------------------------------------------------------------------------
(* The files. *)

Inv == Typed /\ ("overlap" \notin past => FileInv)

LEMMA InitInv == Init => Inv
<1> SUFFICES ASSUME Init PROVE Inv
  OBVIOUS
<1>1. Typed
  BY InitTyped
<1>2. DiskInv /\ KeptInv
  BY UpdaterAssumption DEF Init, DiskInv, Between, Sent, KeptInv, Kept, UpdaterAssumption
<1>3. Alone /\ \A u \in Updaters : StageOf(u)
  BY DEF Init, Alone, Working, StageOf, NotSaving
<1> QED
  BY <1>1, <1>2, <1>3 DEF Inv, FileInv

\* What has happened has happened.
LEMMA PastGrows == [Next]_vars => past \subseteq past'
<1> SUFFICES ASSUME [Next]_vars PROVE past \subseteq past'
  OBVIOUS
<1>1. CASE Publish \/ LockAges
  BY <1>1 DEF Publish, LockAges, Note
<1>2. ASSUME NEW u \in Updaters, Step(u) PROVE past \subseteq past'
  BY <1>2 DEF Step, Look, Take, Refused, FetchManifest, Compare, Open, Rename, Save, GiveUp,
              RenameFails, WriteManifest, Release, Exit, Note
<1>3. ASSUME NEW u \in Updaters, Watchdog(u) \/ Crash(u) PROVE past \subseteq past'
  BY <1>3 DEF Watchdog, Crash, Note
<1>4. CASE UNCHANGED vars
  BY <1>4 DEF vars
<1> QED
  BY <1>1, <1>2, <1>3, <1>4 DEF Next

\* A file is not trusted again.
LEMMA TrustFades ==
  ASSUME past \subseteq past', NEW f, Trusted(f)'
  PROVE  Trusted(f)
<1>1. Forward(f)' <=> Forward(f)
  BY DEF Forward
<1> QED
  BY <1>1 DEF Trusted

\* As long as no two are at work together, at most one is.
LEMMA NextAlone ==
  ASSUME Typed, Alone, [Next]_vars, "overlap" \notin past'
  PROVE  Alone'
<1> USE DEF Alone, Working
<1>0. pc \in [Updaters -> Steps]
  BY DEF Typed, TypeOK
<1>1. CASE Publish \/ LockAges \/ UNCHANGED vars
  BY <1>1 DEF Publish, LockAges, procVars, vars
<1>2. ASSUME NEW u \in Updaters, pc' = [pc EXCEPT ![u] = pc'[u]],
             Working(u) \/ ~Working(u)'
      PROVE  Alone'
  BY <1>0, <1>2
<1>3. ASSUME NEW u \in Updaters, Step(u) PROVE Alone'
  <2>1. CASE Take(u)
    <3>1. \A v \in Updaters : ~Working(v)
      BY <2>1 DEF Take, Note
    <3> QED
      BY <1>0, <2>1, <3>1 DEF Take, Goto
  <2>2. CASE Look(u) \/ Refused(u) \/ Exit(u)
    BY <1>0, <1>2, <2>2 DEF Look, Refused, Exit, Goto
  <2>3. CASE FetchManifest(u) \/ Compare(u) \/ Save(u) \/ GiveUp(u) \/ RenameFails(u)
             \/ WriteManifest(u) \/ Release(u)
    BY <1>0, <1>2, <2>3 DEF FetchManifest, Compare, Save, GiveUp, RenameFails, WriteManifest,
                            Release, Goto
  <2>4. ASSUME NEW f \in Files, Open(u, f) \/ Rename(u, f) PROVE Alone'
    BY <1>0, <1>2, <2>4 DEF Open, Rename, Goto
  <2> QED
    BY <1>3, <2>1, <2>2, <2>3, <2>4 DEF Step
<1>4. ASSUME NEW u \in Updaters, Watchdog(u) \/ Crash(u) PROVE Alone'
  BY <1>0, <1>2, <1>4 DEF Watchdog, Crash, Goto
<1> QED
  BY <1>1, <1>3, <1>4 DEF Next

\* The files in place have been released; those never taken back lie between the local
\* manifest and the one being installed.
LEMMA NextDisk ==
  ASSUME Typed, FileInv, [Next]_vars, "overlap" \notin past'
  PROVE  DiskInv'
<1> USE UpdaterAssumption DEF UpdaterAssumption
<1>0. /\ TypeOK /\ Alone /\ DiskInv /\ \A v \in Updaters : StageOf(v)
      /\ release \in 1..Last /\ manifest \in 0..Last /\ pc \in [Updaters -> Steps]
      /\ \A v \in Updaters : target[v] \in 0..Last
      /\ disk \in [Files -> Contents \cup {Torn}]
  BY DEF FileInv, Typed, TypeOK
<1>f. \A f \in Files : Forward(f)' <=> Forward(f)
  BY DEF Forward
<1>a. ASSUME UNCHANGED <<disk, manifest, release>>,
             \A v \in Updaters : Sent(v)' => Sent(v) /\ target'[v] = target[v]
      PROVE  DiskInv'
  BY <1>0, <1>f, <1>a DEF DiskInv, Between
<1>1. CASE Publish
  <2>1. release' \in Nat /\ release <= release' /\ release \in Nat
    BY <1>0, <1>1 DEF Publish
  <2>2. \A f \in Files : Forward(f) => Between(f, release)'
    BY <1>0, <1>1, <2>1 DEF DiskInv, Between, Publish, fileVars
  <2>3. \A f \in Files : \E r \in 1..release' : disk'[f] = Build[r][f]
    BY <1>0, <1>1, <2>1 DEF DiskInv, Publish, fileVars
  <2> QED
    BY <1>0, <1>f, <1>1, <2>1, <2>2, <2>3 DEF DiskInv, Between, Publish, procVars, fileVars, Sent
<1>2. CASE LockAges
  BY <1>a, <1>2 DEF LockAges, procVars, Sent
<1>3. ASSUME NEW u \in Updaters, Step(u) PROVE DiskInv'
  <2>0. ASSUME Working(u), NEW v \in Updaters, v # u PROVE ~Sent(v)
    BY <1>0, <2>0 DEF Alone, Working, Sent
  <2>1. CASE Look(u)
    BY <1>a, <1>0, <2>1 DEF Look, Goto, Sent, fileVars
  <2>2. CASE Take(u)
    BY <1>a, <1>0, <2>2 DEF Take, Goto, Sent
  <2>3. CASE FetchManifest(u)
    <3>1. /\ UNCHANGED <<release, disk, manifest>>
          /\ target' = [target EXCEPT ![u] = release]
          /\ pc' = [pc EXCEPT ![u] = "compare"] /\ pc[u] = "manifest"
      BY <2>3 DEF FetchManifest, Goto, fileVars
    <3>2. ASSUME NEW v \in Updaters, Sent(v)' PROVE v = u
      BY <1>0, <2>0, <3>1, <3>2 DEF Sent, Working
    <3>3. target'[u] = release
      BY <1>0, <3>1 DEF TypeOK
    <3> QED
      BY <1>0, <1>f, <3>1, <3>2, <3>3 DEF DiskInv, Between
  <2>4. CASE Compare(u)
    BY <1>a, <1>0, <2>4 DEF Compare, Goto, Sent, fileVars
  <2>5. ASSUME NEW f \in Files, Open(u, f) PROVE DiskInv'
    BY <1>a, <1>0, <2>5 DEF Open, Goto, Sent
  <2>6. ASSUME NEW f \in Files, Rename(u, f) PROVE DiskInv'
    <3>1. /\ UNCHANGED <<release, manifest, target, pc>> /\ pc[u] = "rename"
          /\ disk' = [disk EXCEPT ![f] = Build[target[u]][f]]
      BY <1>0, <2>6 DEF Rename, StageOf
    <3>2. ASSUME NEW v \in Updaters, Sent(v) PROVE v = u
      BY <2>0, <3>1, <3>2 DEF Working
    <3>3. target[u] \in 1..target[u] /\ target[u] \in 1..release /\ manifest <= target[u]
      BY <1>0, <3>1 DEF DiskInv, Sent
    <3>4. \A g \in Files : Forward(g) => Between(g, target[u])' /\ Between(g, release)'
      <4> SUFFICES ASSUME NEW g \in Files, Forward(g) PROVE Between(g, target[u])' /\ Between(g, release)'
        OBVIOUS
      <4>1. CASE g = f
        <5>1. disk'[g] = Build[target[u]][g]
          BY <1>0, <3>1, <4>1
        <5> QED
          BY <3>1, <3>3, <5>1 DEF Between
      <4>2. CASE g # f
        <5>1. disk'[g] = disk[g]
          BY <1>0, <3>1, <4>2
        <5>2. Between(g, target[u]) /\ Between(g, release)
          BY <1>0, <3>1 DEF DiskInv, Sent
        <5> QED
          BY <3>1, <5>1, <5>2 DEF Between
      <4> QED
        BY <4>1, <4>2
    <3>5. \A g \in Files : \E r \in 1..release' : disk'[g] = Build[r][g]
      <4> TAKE g \in Files
      <4>1. CASE g = f
        BY <1>0, <3>1, <3>3, <4>1
      <4>2. CASE g # f
        BY <1>0, <3>1, <4>2 DEF DiskInv
      <4> QED
        BY <4>1, <4>2
    <3> QED
      BY <1>0, <1>f, <3>1, <3>2, <3>4, <3>5 DEF DiskInv, Sent
  <2>7. CASE Save(u)
    <3>1. saving[u].at = "incoming"
      BY <1>0, <2>7 DEF Save, StageOf
    <3> QED
      BY <1>a, <1>0, <2>7, <3>1 DEF Save, Goto, Sent
  <2>8. CASE GiveUp(u)
    BY <1>a, <1>0, <2>8 DEF GiveUp, Goto, Sent, fileVars
  <2>9. CASE RenameFails(u)
    BY <1>a, <1>0, <2>9 DEF RenameFails, Goto, Sent, fileVars
  <2>10. CASE WriteManifest(u)
    <3>1. /\ UNCHANGED <<release, target, disk>> /\ pc[u] = "rename"
          /\ manifest' = target[u] /\ pc' = [pc EXCEPT ![u] = "done"]
      BY <2>10 DEF WriteManifest, Goto
    <3>2. \A f \in Files : Forward(f) => disk[f] = Build[target[u]][f]
      BY <1>0, <2>10 DEF WriteManifest, StageOf, Due, NotSaving, Trusted
    <3>3. target[u] \in 1..release
      BY <1>0, <3>1 DEF DiskInv, Sent
    <3>4. ASSUME NEW v \in Updaters, Sent(v)' PROVE v = u
      BY <1>0, <2>0, <3>1, <3>4 DEF Sent, Working
    <3>5. /\ target[u] \in 1..target[u] /\ target[u] \in 1..release
          /\ target[u] <= target[u] /\ target[u] <= release
      BY <3>3
    <3>6. \A f \in Files : Forward(f) => Between(f, release)' /\ Between(f, target[u])'
      BY <3>1, <3>2, <3>5 DEF Between
    <3>7. \A v \in Updaters : Sent(v)' =>
            /\ 1 <= target[v]' /\ manifest' <= target[v]' /\ target[v]' <= release'
            /\ \A f \in Files : Forward(f) => Between(f, target[v])'
      BY <3>1, <3>3, <3>4, <3>5, <3>6
    <3>8. \A f \in Files : \E r \in 1..release' : disk'[f] = Build[r][f]
      BY <1>0, <3>1 DEF DiskInv
    <3>9. manifest' <= release'
      BY <3>1, <3>5
    <3> QED
      BY <1>f, <3>6, <3>7, <3>8, <3>9 DEF DiskInv
  <2>11. CASE Release(u)
    BY <1>a, <1>0, <2>11 DEF Release, Forget, Goto, Sent, TypeOK
  <2>12. CASE Refused(u) \/ Exit(u)
    BY <1>a, <1>0, <2>12 DEF Refused, Exit, Goto, Sent, fileVars
  <2> QED
    BY <1>3, <2>1, <2>2, <2>3, <2>4, <2>5, <2>6, <2>7, <2>8, <2>9, <2>10, <2>11, <2>12 DEF Step
<1>4. ASSUME NEW u \in Updaters, Watchdog(u) \/ Crash(u) PROVE DiskInv'
  BY <1>a, <1>0, <1>4 DEF Watchdog, Crash, Forget, Goto, Sent, TypeOK, fileVars
<1>5. CASE UNCHANGED vars
  BY <1>a, <1>5 DEF vars, procVars, fileVars, Sent
<1> QED
  BY <1>1, <1>2, <1>3, <1>4, <1>5 DEF Next

\* Unless somebody has been stopped among the renames, manifest.json stays right.
LEMMA NextKept ==
  ASSUME Typed, FileInv, [Next]_vars, "overlap" \notin past'
  PROVE  KeptInv'
<1> SUFFICES ASSUME "cut" \notin past'
             PROVE  \A f \in Files :
                      Kept(f)' \/ \E u \in Updaters : pc'[u] = "rename" /\ f \in Stale(u)' \ ready'[u]
  BY DEF KeptInv
<1> DEFINE Goal == \A f \in Files :
                     Kept(f)' \/ \E u \in Updaters : pc'[u] = "rename" /\ f \in Stale(u)' \ ready'[u]
<1>0. /\ TypeOK /\ Alone /\ \A v \in Updaters : StageOf(v)
      /\ pc \in [Updaters -> Steps] /\ disk \in [Files -> Contents \cup {Torn}]
      /\ \A v \in Updaters : ready[v] \subseteq Files
      /\ \A f \in Files : Kept(f) \/ \E v \in Updaters : pc[v] = "rename" /\ f \in Stale(v) \ ready[v]
      /\ \A f \in Files : Trusted(f)
  BY PastGrows DEF FileInv, KeptInv, Typed, TypeOK, Trusted
<1>a. ASSUME UNCHANGED <<disk, manifest>>,
             \A v \in Updaters : pc[v] = "rename" =>
               pc'[v] = "rename" /\ target'[v] = target[v] /\ ready'[v] = ready[v]
      PROVE  Goal
  BY <1>0, <1>a DEF Kept, Stale
<1>b. ASSUME NEW u \in Updaters, pc[u] = "rename", ready[u] = Stale(u), UNCHANGED <<disk, manifest>>
      PROVE  Goal
  <2>1. \A v \in Updaters : pc[v] = "rename" => v = u
    BY <1>0, <1>b DEF Alone, Working
  <2> QED
    BY <1>0, <1>b, <2>1 DEF Kept
<1>1. CASE Publish \/ LockAges
  BY <1>a, <1>1 DEF Publish, LockAges, procVars, fileVars
<1>2. ASSUME NEW u \in Updaters, Step(u) PROVE Goal
  <2>1. CASE Look(u) \/ Take(u) \/ Refused(u) \/ Exit(u) \/ FetchManifest(u)
    BY <1>0, <1>a, <2>1 DEF Look, Take, Refused, Exit, FetchManifest, Goto, fileVars, TypeOK
  <2>2. CASE Compare(u)
    BY <1>0, <1>a, <2>2 DEF Compare, Goto, fileVars, TypeOK
  <2>3. ASSUME NEW f \in Files, Open(u, f) PROVE Goal
    BY <1>0, <1>a, <2>3 DEF Open, Goto
  <2>4. CASE Save(u)
    <3>1. saving[u].at = "incoming"
      BY <1>0, <2>4 DEF Save, StageOf
    <3> QED
      BY <1>0, <1>a, <2>4, <3>1 DEF Save, Goto, TypeOK
  <2>5. CASE GiveUp(u) \/ Release(u)
    BY <1>0, <1>a, <2>5 DEF GiveUp, Release, Forget, Goto, fileVars, TypeOK
  <2>6. ASSUME NEW f \in Files, Rename(u, f) PROVE Goal
    <3>1. /\ pc[u] = "rename" /\ f \in ready[u] /\ UNCHANGED <<pc, target, manifest>>
          /\ \A g \in Files : g # f => disk'[g] = disk[g]
          /\ ready'[u] = ready[u] \ {f} /\ \A v \in Updaters : v # u => ready'[v] = ready[v]
      BY <1>0, <2>6 DEF Rename, TypeOK
    <3>2. f \in Stale(u)' \ ready'[u]
      BY <1>0, <3>1 DEF StageOf, Due, Stale
    <3>3. ASSUME NEW g \in Files, g # f
          PROVE  Kept(g)' \/ \E v \in Updaters : pc'[v] = "rename" /\ g \in Stale(v)' \ ready'[v]
      <4>1. CASE Kept(g)
        BY <3>1, <3>3, <4>1 DEF Kept
      <4>2. ASSUME NEW v \in Updaters, pc[v] = "rename", g \in Stale(v) \ ready[v]
            PROVE  pc'[v] = "rename" /\ g \in Stale(v)' \ ready'[v]
        BY <3>1, <3>3, <4>2 DEF Stale
      <4> QED
        BY <1>0, <4>1, <4>2
    <3> QED
      BY <3>1, <3>2, <3>3
  <2>7. CASE RenameFails(u)
    <3>1. ready[u] = Stale(u) /\ pc[u] = "rename"
      BY <2>7 DEF RenameFails, Note, Cut
    <3> QED
      BY <1>b, <2>7, <3>1 DEF RenameFails, fileVars
  <2>8. CASE WriteManifest(u)
    <3>1. \A f \in Files : disk[f] = Build[target[u]][f]
      BY <1>0, <2>8 DEF WriteManifest, StageOf, Due, NotSaving
    <3> QED
      BY <2>8, <3>1 DEF WriteManifest, Kept
  <2> HIDE DEF Goal
  <2> QED
    BY <1>2, <2>1, <2>2, <2>3, <2>4, <2>5, <2>6, <2>7, <2>8 DEF Step
<1>3. ASSUME NEW u \in Updaters, Crash(u) PROVE Goal
  <2>1. CASE pc[u] = "rename"
    <3>1. ready[u] = Stale(u)
      BY <1>3, <2>1 DEF Crash, Note, Cut
    <3> QED
      BY <1>b, <1>3, <2>1, <3>1 DEF Crash, fileVars
  <2>2. CASE pc[u] # "rename"
    BY <1>0, <1>a, <1>3, <2>2 DEF Crash, Forget, Goto, fileVars, TypeOK
  <2> QED
    BY <2>1, <2>2
<1>4. ASSUME NEW u \in Updaters, Watchdog(u) PROVE Goal
  BY <1>0, <1>a, <1>4 DEF Watchdog, Forget, Goto, TypeOK
<1>5. CASE UNCHANGED vars
  BY <1>a, <1>5 DEF vars, procVars, fileVars
<1>6. Goal
  <2> HIDE DEF Goal
  <2>1. CASE Publish \/ LockAges \/ UNCHANGED vars
    BY <1>1, <1>5, <2>1 DEF Goal
  <2> QED
    BY <1>2, <1>3, <1>4, <2>1 DEF Next
<1> QED
  BY <1>6

\* A file with one checksum in the local manifest and the one sent has that checksum, if
\* the local manifest can be trusted about it.
LEMMA UnchangedIsInPlace ==
  ASSUME Typed, FileInv, NEW u \in Updaters, pc[u] = "compare",
         NEW f \in Files, f \notin Stale(u), Trusted(f)
  PROVE  disk[f] = Build[target[u]][f]
<1>1. /\ manifest \in 1..Last /\ Build[manifest][f] = Build[target[u]][f]
      /\ target[u] \in 1..Last
  BY DEF Stale, Typed, TypeOK, Underway, Sent
<1>2. CASE Forward(f)
  <2>1. PICK r \in 1..target[u] : manifest <= r /\ disk[f] = Build[r][f]
    BY <1>2 DEF FileInv, DiskInv, Sent, Between
  <2>2. r \in 1..Last /\ r <= target[u]
    BY <1>1, <2>1, UpdaterAssumption DEF UpdaterAssumption
  <2> QED
    BY <1>1, <1>2, <2>1, <2>2 DEF Forward
<1>3. CASE "cut" \notin past
  <2>1. \A v \in Updaters : pc[v] # "rename"
    BY DEF FileInv, Alone, Working
  <2>2. Kept(f)
    BY <1>3, <2>1 DEF FileInv, KeptInv
  <2> QED
    BY <1>1, <2>2 DEF Kept
<1> QED
  BY <1>2, <1>3 DEF Trusted

\* What others do to their own state, the hub and the lock, leaves v's staging alone.
LEMMA StageKept ==
  ASSUME NEW v \in Updaters, StageOf(v), past \subseteq past',
         UNCHANGED <<incoming, disk, manifest>>,
         pc'[v] = pc[v], target'[v] = target[v], todo'[v] = todo[v], ready'[v] = ready[v],
         saving'[v] = saving[v]
  PROVE  StageOf(v)'
<1>1. /\ Due(v)' = Due(v) /\ Stale(v)' = Stale(v)
      /\ \A f \in Files : Trusted(f)' => Trusted(f)
  BY TrustFades DEF Due, Stale
<1> QED
  BY <1>1 DEF StageOf

LEMMA StageIdle ==
  ASSUME NEW v \in Updaters, saving'[v] = NotSaving,
         pc'[v] \notin {"fetch", "save", "rename", "done"}
  PROVE  StageOf(v)'
  BY DEF StageOf

\* An updater stages only what it verified; what it need not replace is in place, where
\* the local manifest can be trusted.
LEMMA NextStage ==
  ASSUME Typed, FileInv, [Next]_vars, "overlap" \notin past'
  PROVE  \A v \in Updaters : StageOf(v)'
<1> USE UpdaterAssumption DEF UpdaterAssumption
<1>0. /\ TypeOK /\ Alone /\ \A v \in Updaters : StageOf(v)
      /\ past \subseteq past' /\ pc \in [Updaters -> Steps]
      /\ \A v \in Updaters : todo[v] \subseteq Files /\ ready[v] \subseteq Files
      /\ \A f \in Files : Trusted(f)' => Trusted(f)
  BY PastGrows, TrustFades DEF FileInv, Typed, TypeOK
<1>a. ASSUME UNCHANGED <<procVars, incoming, disk, manifest>> PROVE \A v \in Updaters : StageOf(v)'
  BY <1>0, <1>a, StageKept DEF procVars
\* u does nothing to the files, and is not at work after it, or not yet.
<1>b. ASSUME NEW u \in Updaters, UNCHANGED <<incoming, disk, manifest>>,
             saving'[u] = NotSaving, pc'[u] \notin {"fetch", "save", "rename", "done"},
             \A v \in Updaters : v # u => /\ pc'[v] = pc[v] /\ target'[v] = target[v]
                                          /\ todo'[v] = todo[v] /\ ready'[v] = ready[v]
                                          /\ saving'[v] = saving[v]
      PROVE  \A v \in Updaters : StageOf(v)'
  BY <1>0, <1>b, StageKept, StageIdle
\* u is at work: nobody else is.
<1>c. ASSUME NEW u \in Updaters, Working(u), StageOf(u)',
             \A v \in Updaters : v # u => pc'[v] = pc[v] /\ saving'[v] = saving[v]
      PROVE  \A v \in Updaters : StageOf(v)'
  <2> SUFFICES ASSUME NEW v \in Updaters, v # u PROVE StageOf(v)'
    BY <1>c
  <2>1. pc[v] \in {"idle", "take", "refresh"} /\ saving[v] = NotSaving
    BY <1>0, <1>c DEF Alone, Working, StageOf
  <2> QED
    BY <1>c, <2>1, StageIdle
<1>1. CASE Publish \/ LockAges
  BY <1>a, <1>1 DEF Publish, LockAges, fileVars
<1>2. ASSUME NEW u \in Updaters, Step(u) PROVE \A v \in Updaters : StageOf(v)'
  <2>0. pc[u] # "save" => saving[u] = NotSaving
    BY <1>0 DEF StageOf
  <2>1. CASE Look(u) \/ Take(u) \/ Refused(u) \/ Exit(u)
    BY <1>0, <1>b, <2>0, <2>1 DEF Look, Take, Refused, Exit, Goto, fileVars
  <2>2. CASE Release(u)
    BY <1>0, <1>b, <2>2 DEF Release, Forget, Goto, TypeOK
  <2>3. CASE FetchManifest(u)
    BY <1>0, <1>b, <2>0, <2>3 DEF FetchManifest, Goto, TypeOK, fileVars
  <2>4. CASE Compare(u)
    <3>1. /\ pc[u] = "compare" /\ UNCHANGED <<release, target, saving, fileVars, past>>
          /\ pc' = [pc EXCEPT ![u] = IF Stale(u) = {} THEN "done" ELSE "fetch"]
          /\ todo'[u] = Stale(u) /\ ready'[u] = {} /\ Stale(u)' = Stale(u)
      BY <1>0, <2>4 DEF Compare, Goto, TypeOK, Stale, fileVars
    <3>2. saving[u] = NotSaving /\ saving'[u] = NotSaving
      BY <2>0, <3>1
    <3>3. ASSUME NEW f \in Files \ Stale(u), Trusted(f)' PROVE disk'[f] = Build[target'[u]][f]
      BY <1>0, <3>1, <3>3, UnchangedIsInPlace DEF fileVars
    <3>4. Stale(u) \subseteq Files
      BY DEF Stale
    <3>5. StageOf(u)'
      <4>1. CASE Stale(u) = {}
        <5>1. pc'[u] = "done"
          BY <1>0, <3>1, <4>1
        <5> QED
          BY <3>2, <3>3, <4>1, <5>1 DEF StageOf
      <4>2. CASE Stale(u) # {}
        <5>1. pc'[u] = "fetch"
          BY <1>0, <3>1, <4>2
        <5>2. saving'[u].name \notin todo'[u] \cup ready'[u]
          BY <3>1, <3>2, <3>4 DEF NotSaving
        <5>3. Due(u)' = Stale(u)'
          BY <3>1, <3>2 DEF Due, NotSaving
        <5> QED
          BY <3>1, <3>2, <3>3, <5>1, <5>2, <5>3 DEF StageOf
      <4> QED
        BY <4>1, <4>2
    <3> QED
      BY <1>c, <1>0, <3>1, <3>5 DEF Working
  <2>5. ASSUME NEW f \in Files, Open(u, f) PROVE \A v \in Updaters : StageOf(v)'
    <3>1. /\ pc[u] = "fetch" /\ f \in todo[u] /\ pc' = [pc EXCEPT ![u] = "save"]
          /\ pc'[u] = "save" /\ todo'[u] = todo[u] \ {f}
          /\ saving'[u] = [name |-> f, at |-> "incoming"]
          /\ \A v \in Updaters : v # u => pc'[v] = pc[v] /\ saving'[v] = saving[v]
          /\ \A g \in Files : g # f => incoming'[g] = incoming[g]
          /\ UNCHANGED <<ready, target, disk, manifest>>
      BY <1>0, <2>5 DEF Open, Goto, TypeOK
    <3>2. saving[u].name = NoFile /\ f \notin ready[u]
      BY <1>0, <2>0, <3>1 DEF StageOf, NotSaving
    <3>3. Due(u)' = Due(u) /\ Stale(u)' = Stale(u)
      BY <3>1, <3>2 DEF Due, Stale
    <3>4. StageOf(u)'
      <4>1. \A g \in ready'[u] : incoming'[g] = Build[target'[u]][g]
        BY <1>0, <3>1, <3>2 DEF StageOf
      <4>2. todo'[u] \cap ready'[u] = {} /\ saving'[u].name \notin todo'[u] \cup ready'[u]
        BY <1>0, <3>1, <3>2 DEF StageOf
      <4>3. \A g \in Files \ Due(u)' : Trusted(g)' => disk'[g] = Build[target'[u]][g]
        BY <1>0, <3>1, <3>3 DEF StageOf
      <4>4. Due(u)' \subseteq Stale(u)'
        BY <1>0, <3>1, <3>3 DEF StageOf
      <4> QED
        BY <3>1, <4>1, <4>2, <4>3, <4>4 DEF StageOf
    <3> QED
      BY <1>c, <3>1, <3>4 DEF Working
  <2>6. ASSUME NEW f \in Files, Rename(u, f) PROVE \A v \in Updaters : StageOf(v)'
    <3>1. /\ pc[u] = "rename" /\ f \in ready[u] /\ UNCHANGED <<pc, todo, target, manifest>>
          /\ ready'[u] = ready[u] \ {f}
          /\ disk'[f] = incoming[f]
          /\ \A g \in Files : g # f => disk'[g] = disk[g] /\ incoming'[g] = incoming[g]
          /\ \A v \in Updaters : saving'[v] = Follow(saving[v], f)
      BY <1>0, <2>6 DEF Rename, TypeOK
    <3>2. ASSUME NEW v \in Updaters PROVE saving[v] = NotSaving /\ saving'[v] = NotSaving
      <4>1. pc[v] # "save"
        BY <1>0, <3>1 DEF Alone, Working
      <4>2. saving[v] = NotSaving
        BY <1>0, <4>1 DEF StageOf
      <4>3. saving[v].name # f
        BY <4>2 DEF NotSaving
      <4> QED
        BY <3>1, <4>2, <4>3 DEF Follow
    <3>3. Due(u)' = Due(u) \ {f} /\ Stale(u)' = Stale(u)
      BY <1>0, <3>1, <3>2 DEF Due, Stale, NotSaving, StageOf
    <3>4. StageOf(u)'
      <4>1. \A g \in ready'[u] : incoming'[g] = Build[target'[u]][g]
        BY <1>0, <3>1 DEF StageOf
      <4>2. \A g \in Files \ Due(u)' : Trusted(g)' => disk'[g] = Build[target'[u]][g]
        BY <1>0, <3>1, <3>3 DEF StageOf
      <4>3. /\ todo'[u] = {}
            /\ todo'[u] \cap ready'[u] = {} /\ saving'[u].name \notin todo'[u] \cup ready'[u]
        BY <1>0, <3>1, <3>2 DEF StageOf, NotSaving
      <4>4. Due(u)' \subseteq Stale(u)'
        BY <1>0, <3>1, <3>3 DEF StageOf
      <4> QED
        BY <3>1, <3>2, <4>1, <4>2, <4>3, <4>4 DEF StageOf
    <3> QED
      BY <1>c, <3>1, <3>2, <3>4 DEF Working
  <2>7. CASE Save(u)
    <3> DEFINE g == saving[u].name
    <3>1. g \in Files /\ saving[u].at = "incoming" /\ pc[u] = "save"
      BY <1>0, <2>7 DEF Save, StageOf
    <3>2. /\ incoming' = [incoming EXCEPT ![g] = Build[target[u]][g]]
          /\ UNCHANGED <<disk, todo, target, manifest>>
          /\ ready'[u] = ready[u] \cup {g}
          /\ saving'[u] = NotSaving
          /\ pc'[u] = IF todo[u] = {} THEN "rename" ELSE "fetch"
          /\ \A v \in Updaters : v # u => pc'[v] = pc[v] /\ saving'[v] = saving[v]
      BY <1>0, <2>7, <3>1 DEF Save, Goto, TypeOK
    <3>3. \A h \in Files : incoming'[h] = IF h = g THEN Build[target[u]][g] ELSE incoming[h]
      BY <1>0, <3>1, <3>2 DEF TypeOK
    <3>4. Due(u)' = Due(u) /\ Stale(u)' = Stale(u)
      BY <3>1, <3>2 DEF Due, Stale, NotSaving
    <3>5. StageOf(u)'
      <4>1. \A h \in ready'[u] : incoming'[h] = Build[target'[u]][h]
        BY <1>0, <3>1, <3>2, <3>3 DEF StageOf
      <4>2. todo'[u] \cap ready'[u] = {}
        BY <1>0, <3>1, <3>2 DEF StageOf
      <4>3. saving'[u].name \notin todo'[u] \cup ready'[u]
        BY <1>0, <3>1, <3>2 DEF NotSaving
      <4>4. \A h \in Files \ Due(u)' : Trusted(h)' => disk'[h] = Build[target'[u]][h]
        BY <1>0, <3>1, <3>2, <3>4 DEF StageOf
      <4>5. Due(u)' \subseteq Stale(u)'
        BY <1>0, <3>1, <3>4 DEF StageOf
      <4> QED
        BY <3>2, <4>1, <4>2, <4>3, <4>4, <4>5 DEF StageOf
    <3> QED
      BY <1>c, <3>1, <3>2, <3>5 DEF Working
  <2>8. CASE GiveUp(u)
    BY <1>0, <1>b, <2>0, <2>8 DEF GiveUp, Goto, fileVars
  <2>9. CASE RenameFails(u)
    BY <1>0, <1>b, <2>0, <2>9 DEF RenameFails, Goto, fileVars
  <2>10. CASE WriteManifest(u)
    <3>1. /\ pc[u] = "rename" /\ ready[u] = {} /\ UNCHANGED <<saving, disk, target>>
          /\ pc' = [pc EXCEPT ![u] = "done"] /\ pc'[u] = "done"
      BY <1>0, <2>10 DEF WriteManifest, Goto
    <3>2. saving[u] = NotSaving /\ \A f \in Files : Trusted(f) => disk[f] = Build[target[u]][f]
      BY <1>0, <2>0, <3>1 DEF StageOf, Due, NotSaving
    <3>3. StageOf(u)'
      BY <1>0, <3>1, <3>2 DEF StageOf
    <3> QED
      BY <1>c, <1>0, <3>1, <3>3 DEF Working
  <2> QED
    BY <1>2, <2>1, <2>2, <2>3, <2>4, <2>5, <2>6, <2>7, <2>8, <2>9, <2>10 DEF Step
<1>3. ASSUME NEW u \in Updaters, Watchdog(u) \/ Crash(u) PROVE \A v \in Updaters : StageOf(v)'
  BY <1>0, <1>b, <1>3 DEF Watchdog, Crash, Forget, Goto, TypeOK, fileVars
<1>4. CASE UNCHANGED vars
  BY <1>a, <1>4 DEF vars, fileVars
<1> QED
  BY <1>1, <1>2, <1>3, <1>4 DEF Next

LEMMA AlwaysInv == Spec => []Inv
<1>1. Inv /\ [Next]_vars => Inv'
  <2> SUFFICES ASSUME Inv, [Next]_vars PROVE Inv'
    OBVIOUS
  <2>1. Typed' /\ past \subseteq past'
    BY NextTyped, PastGrows DEF Inv
  <2>2. ASSUME "overlap" \notin past' PROVE FileInv'
    <3>1. Typed /\ FileInv
      BY <2>1, <2>2 DEF Inv
    <3>2. Alone'
      BY <2>2, <3>1, NextAlone DEF FileInv
    <3>3. DiskInv' /\ KeptInv'
      BY <2>2, <3>1, NextDisk, NextKept
    <3>4. \A v \in Updaters : StageOf(v)'
      BY <2>2, <3>1, NextStage
    <3> QED
      BY <3>2, <3>3, <3>4 DEF FileInv
  <2> QED
    BY <2>1, <2>2 DEF Inv
<1> QED
  BY <1>1, InitInv, PTL DEF Spec

\* Every file a hook may load is whole and of a release of the hub, whatever fetch,
\* rename or process fails, until two updaters have worked together.
THEOREM OnlyVerified == Spec => []FilesVerified
<1>1. Inv => FilesVerified
  BY DEF Inv, FileInv, DiskInv, FilesVerified
<1> QED
  BY <1>1, AlwaysInv, PTL

\* Until two updaters have worked together, one that calls the machine current leaves
\* every file as in the release it was sent, but for those that are taken back after
\* somebody was stopped among the renames.
THEOREM CurrentIsWhole == Spec => []CurrentIsInstalled
<1>1. Inv => CurrentIsInstalled
  BY DEF Inv, FileInv, StageOf, CurrentIsInstalled
<1> QED
  BY <1>1, AlwaysInv, PTL
=============================================================================
