------------------------------- MODULE Updater -------------------------------
(***************************************************************************)
(* The hook client's updater (client/updater.mjs).  Hooks start it in the  *)
(* background; each one is a process that takes update.lock, compares the  *)
(* hub's signed manifest with the local manifest.json, stages every file   *)
(* whose checksum differs, renames them into place one by one and then     *)
(* writes manifest.json.  The lock is a look at a file and a plain write,  *)
(* so it does not always exclude: `past' notes when it did not.            *)
(*                                                                         *)
(* The processes share the lock file, the staging files `.<name>.incoming' *)
(* and the client directory; a step is one file operation or one answer of *)
(* the hub.  manifest.json is written atomically.  The hub's releases are  *)
(* numbered in the order it publishes them; only the content of a file is  *)
(* compared.  The last-check stamp, which spaces the runs, is left out: an *)
(* updater may start at any time.                                          *)
(***************************************************************************)
EXTENDS Naturals, FiniteSets

CONSTANTS
  Updaters,    \* processes, each run again and again
  Files,       \* the client's build files
  Last,        \* releases are 1..Last
  Contents,    \* what a build file may hold
  Build,       \* release -> file -> content
  Torn,        \* a file being written
  NoFile,
  Faults,      \* which of "sleep", "net", "hang", "rename", "crash" can happen
  MaxTrouble   \* bound: how many of them in a behaviour

ASSUME UpdaterAssumption ==
  /\ Last \in Nat \ {0}
  /\ Build \in [1..Last -> [Files -> Contents]]
  /\ Torn \notin Contents /\ NoFile \notin Contents \cup Files
  /\ Faults \subseteq {"sleep", "net", "hang", "rename", "crash"}
  /\ MaxTrouble \in Nat

VARIABLES
  release,     \* what the hub serves
  pc,          \* where each updater is
  lock,        \* update.lock: not there, or how old the time in it is
  target,      \* the release whose manifest the updater was sent
  todo,        \* the stale files it has still to fetch
  ready,       \* `staged': those it has still to rename
  saving,      \* the file its open descriptor writes, and where that file now is
  incoming,    \* CLIENT_DIR/.<name>.incoming
  disk,        \* CLIENT_DIR/<name>
  manifest,    \* manifest.json: a release, 0 when there is none
  trouble,
  past         \* what has happened so far: see Happened

procVars == <<pc, target, todo, ready, saving>>
fileVars == <<lock, incoming, disk, manifest>>
vars == <<release, procVars, fileVars, trouble, past>>

Steps == {"idle", "take", "manifest", "compare", "fetch", "save", "rename", "done", "failed",
          "refresh"}

\* Between takeLock and the finally.
Working(u) == pc[u] \notin {"idle", "take", "refresh"}

\* "slipped": the lock was seen, or removed, by one it should have kept out.
\* "overlap": two updaters were at work together.
\* "cut": an updater was stopped after some of its renames.
Happened == {"slipped", "overlap", "cut"}

NotSaving == [name |-> NoFile, at |-> "nowhere"]

TypeOK ==
  /\ release \in 1..Last
  /\ pc \in [Updaters -> Steps]
  /\ lock \in {"absent", "fresh", "stale"}
  /\ target \in [Updaters -> 0..Last]
  /\ todo \in [Updaters -> SUBSET Files]
  /\ ready \in [Updaters -> SUBSET Files]
  /\ saving \in [Updaters -> [name : Files \cup {NoFile}, at : {"incoming", "disk", "nowhere"}]]
  /\ incoming \in [Files -> Contents \cup {Torn, NoFile}]
  /\ disk \in [Files -> Contents \cup {Torn}]
  /\ manifest \in 0..Last
  /\ trouble \in 0..MaxTrouble
  /\ past \subseteq Happened

\* The installer has put release 1 in place, and may or may not have left its
\* manifest.
Init ==
  /\ release = 1
  /\ pc = [u \in Updaters |-> "idle"]
  /\ lock = "absent"
  /\ target = [u \in Updaters |-> 0]
  /\ todo = [u \in Updaters |-> {}]
  /\ ready = [u \in Updaters |-> {}]
  /\ saving = [u \in Updaters |-> NotSaving]
  /\ incoming = [f \in Files |-> NoFile]
  /\ disk = Build[1]
  /\ manifest \in {0, 1}
  /\ trouble = 0
  /\ past = {}

Goto(u, s) == pc' = [pc EXCEPT ![u] = s]

\* The main function of the process is over, and what it knew with it.
Forget(u) ==
  /\ target' = [target EXCEPT ![u] = 0]
  /\ todo' = [todo EXCEPT ![u] = {}]
  /\ ready' = [ready EXCEPT ![u] = {}]
  /\ saving' = [saving EXCEPT ![u] = NotSaving]

\* One more thing has gone wrong.
Trouble(kind) ==
  /\ kind \in Faults /\ trouble < MaxTrouble
  /\ trouble' = trouble + 1

\* From now on, `what' has happened, if it happens here.
Note(what, happens) == past' = past \cup {w \in {what} : happens}

-----------------------------------------------------------------------------
(* takeLock and releaseLock. *)

\* Look, which never clears a lock.
LookNeverClears(u) ==
  /\ pc[u] = "idle" /\ lock = "absent"
  /\ Goto(u, "take")
  /\ Note("slipped", \E v \in Updaters : pc[v] = "take")
  /\ UNCHANGED <<release, target, todo, ready, saving, fileVars, trouble>>

\* Look, taking any lock for a crashed updater's.
LookIgnoresAge(u) ==
  /\ pc[u] = "idle"
  /\ Goto(u, "take")
  /\ Note("slipped", \E v \in Updaters : pc[v] = "take")
  /\ UNCHANGED <<release, target, todo, ready, saving, fileVars, trouble>>

\* No lock, or one older than LOCK_STALE_MS.  Another process may be between its
\* own look and its write: it slips by.
Look(u) ==
  /\ pc[u] = "idle" /\ lock # "fresh"
  /\ Goto(u, "take")
  /\ Note("slipped", \E v \in Updaters : pc[v] = "take")
  /\ UNCHANGED <<release, target, todo, ready, saving, fileVars, trouble>>

Take(u) ==
  /\ pc[u] = "take" /\ Goto(u, "manifest")
  /\ lock' = "fresh"
  /\ Note("overlap", \E v \in Updaters : Working(v))
  /\ UNCHANGED <<release, target, todo, ready, saving, incoming, disk, manifest, trouble>>

\* Somebody's lock is there: straight to refreshActivity.  (That ends within 10 s of
\* the start, so it matters only if the machine then sleeps: see Watchdog.)
Refused(u) ==
  /\ pc[u] = "idle" /\ lock = "fresh" /\ "sleep" \in Faults
  /\ Goto(u, "refresh")
  /\ UNCHANGED <<release, target, todo, ready, saving, fileVars, trouble, past>>

\* The finally: whoever holds the lock by now, it is removed.
Release(u) ==
  /\ pc[u] \in {"done", "failed"} /\ Goto(u, "refresh")
  /\ lock' = "absent"
  /\ Forget(u)
  /\ UNCHANGED <<release, incoming, disk, manifest, trouble, past>>

\* refreshActivity is through, and the process ends.
Exit(u) ==
  /\ pc[u] = "refresh" /\ Goto(u, "idle")
  /\ UNCHANGED <<release, target, todo, ready, saving, fileVars, trouble, past>>

\* A minute after its start, in any await: it removes the lock and exits.  In
\* refreshActivity the lock is no longer its own.
Watchdog(u) ==
  /\ pc[u] \in {"manifest", "fetch", "refresh"} /\ Trouble("hang")
  /\ Goto(u, "idle")
  /\ lock' = "absent"
  /\ Note("slipped", pc[u] = "refresh" /\ lock # "absent")
  /\ Forget(u)
  /\ UNCHANGED <<release, incoming, disk, manifest>>

\* Five minutes pass.  (Unless the machine sleeps, the watchdog has ended every
\* updater by then.)
LockAges ==
  /\ lock = "fresh"
  /\ IF \E u \in Updaters : Working(u) THEN Trouble("sleep") ELSE UNCHANGED trouble
  /\ lock' = "stale"
  /\ Note("slipped", \E u \in Updaters : Working(u))
  /\ UNCHANGED <<release, procVars, incoming, disk, manifest>>

-----------------------------------------------------------------------------
(* The check and the download. *)

FetchManifest(u) ==
  /\ pc[u] = "manifest" /\ Goto(u, "compare")
  /\ target' = [target EXCEPT ![u] = release]
  /\ UNCHANGED <<release, todo, ready, saving, fileVars, trouble, past>>

\* The files whose checksum in the two manifests differs.
Stale(u) == {f \in Files : manifest = 0 \/ Build[manifest][f] # Build[target[u]][f]}

Compare(u) ==
  /\ pc[u] = "compare"
  /\ Goto(u, IF Stale(u) = {} THEN "done" ELSE "fetch")
  /\ todo' = [todo EXCEPT ![u] = Stale(u)]
  /\ ready' = [ready EXCEPT ![u] = {}]
  /\ UNCHANGED <<release, target, saving, fileVars, trouble, past>>

\* Open, on the file in place.
OpenInPlace(u, f) ==
  /\ pc[u] = "fetch" /\ f \in todo[u]
  /\ Build[release][f] = Build[target[u]][f]
  /\ Goto(u, "save")
  /\ todo' = [todo EXCEPT ![u] = @ \ {f}]
  /\ saving' = [saving EXCEPT ![u] = [name |-> f, at |-> "disk"]]
  /\ disk' = [disk EXCEPT ![f] = Torn]
  /\ UNCHANGED <<release, target, ready, lock, incoming, manifest, trouble, past>>

\* The hub's answer has the checksum asked for; the staging file is opened, and
\* truncated.
Open(u, f) ==
  /\ pc[u] = "fetch" /\ f \in todo[u]
  /\ Build[release][f] = Build[target[u]][f]
  /\ Goto(u, "save")
  /\ todo' = [todo EXCEPT ![u] = @ \ {f}]
  /\ saving' = [saving EXCEPT ![u] = [name |-> f, at |-> "incoming"]]
  /\ incoming' = [incoming EXCEPT ![f] = Torn]
  /\ UNCHANGED <<release, target, ready, lock, disk, manifest, trouble, past>>

\* Save, noting the file's name after its descriptor is closed.
SaveForgetsName(u) ==
  /\ pc[u] = "save"
  /\ incoming' = [incoming EXCEPT ![saving[u].name] = Build[target[u]][saving[u].name]]
  /\ saving' = [saving EXCEPT ![u] = NotSaving]
  /\ ready' = [ready EXCEPT ![u] = @ \cup {saving'[u].name}]
  /\ Goto(u, IF todo[u] = {} THEN "rename" ELSE "fetch")
  /\ UNCHANGED <<release, target, todo, lock, disk, manifest, trouble, past>>

\* What was verified is written, to wherever the file is by now.
Save(u) ==
  /\ pc[u] = "save"
  /\ LET f == saving[u].name IN
     /\ incoming' = IF saving[u].at = "incoming"
                    THEN [incoming EXCEPT ![f] = Build[target[u]][f]] ELSE incoming
     /\ disk' = IF saving[u].at = "disk"
                THEN [disk EXCEPT ![f] = Build[target[u]][f]] ELSE disk
     /\ ready' = [ready EXCEPT ![u] = @ \cup {f}]
  /\ saving' = [saving EXCEPT ![u] = NotSaving]
  /\ Goto(u, IF todo[u] = {} THEN "rename" ELSE "fetch")
  /\ UNCHANGED <<release, target, todo, lock, manifest, trouble, past>>

\* A checksum that does not match (the hub has moved on), or an answer that does
\* not come.
GiveUp(u) ==
  /\ \/ /\ pc[u] = "fetch"
        /\ \E f \in todo[u] : Build[release][f] # Build[target[u]][f]
        /\ UNCHANGED trouble
     \/ pc[u] \in {"manifest", "fetch"} /\ Trouble("net")
  /\ Goto(u, "failed")
  /\ UNCHANGED <<release, target, todo, ready, saving, fileVars, past>>

-----------------------------------------------------------------------------
(* The renames and manifest.json: one synchronous run of the process. *)

\* A descriptor follows its file: f is renamed, and the old f unlinked.
Follow(s, f) ==
  IF s.name # f THEN s
  ELSE [s EXCEPT !.at = IF @ = "incoming" THEN "disk" ELSE "nowhere"]

Rename(u, f) ==
  /\ pc[u] = "rename" /\ f \in ready[u]
  /\ incoming[f] # NoFile
  /\ disk' = [disk EXCEPT ![f] = incoming[f]]
  /\ incoming' = [incoming EXCEPT ![f] = NoFile]
  /\ saving' = [v \in Updaters |-> Follow(saving[v], f)]
  /\ ready' = [ready EXCEPT ![u] = @ \ {f}]
  /\ UNCHANGED <<release, pc, target, todo, lock, manifest, trouble, past>>

\* An updater stopped here has put some of its files in place, not all, or has not
\* said so in manifest.json.
Cut(u) == pc[u] = "rename" /\ ready[u] # Stale(u)

\* The file is open elsewhere, or another updater has renamed the staged copy.
RenameFails(u) ==
  /\ pc[u] = "rename" /\ Goto(u, "failed")
  /\ ready[u] # {}
  /\ IF \A f \in ready[u] : incoming[f] # NoFile THEN Trouble("rename") ELSE UNCHANGED trouble
  /\ Note("cut", Cut(u))
  /\ UNCHANGED <<release, target, todo, ready, saving, fileVars>>

\* WriteManifest, before the last rename.
WriteManifestEarly(u) ==
  /\ pc[u] = "rename" /\ Cardinality(ready[u]) <= 1
  /\ manifest' = target[u]
  /\ Goto(u, "done")
  /\ UNCHANGED <<release, target, todo, ready, saving, lock, incoming, disk, trouble, past>>

WriteManifest(u) ==
  /\ pc[u] = "rename" /\ ready[u] = {}
  /\ manifest' = target[u]
  /\ Goto(u, "done")
  /\ UNCHANGED <<release, target, todo, ready, saving, lock, incoming, disk, trouble, past>>

-----------------------------------------------------------------------------
(* The surroundings. *)

Publish ==
  /\ release < Last /\ release' = release + 1
  /\ UNCHANGED <<procVars, fileVars, trouble, past>>

\* The process is killed: what it wrote stays, the lock too; its descriptor is closed.
Crash(u) ==
  /\ pc[u] # "idle" /\ Trouble("crash")
  /\ Goto(u, "idle")
  /\ Forget(u)
  /\ Note("cut", Cut(u))
  /\ UNCHANGED <<release, fileVars>>

-----------------------------------------------------------------------------
Step(u) ==
  \/ Look(u) \/ Take(u) \/ Refused(u) \/ FetchManifest(u) \/ Compare(u)
  \/ \E f \in Files : Open(u, f) \/ Rename(u, f)
  \/ Save(u) \/ GiveUp(u) \/ RenameFails(u) \/ WriteManifest(u) \/ Release(u) \/ Exit(u)

Next == Publish \/ LockAges \/ \E u \in Updaters : Step(u) \/ Watchdog(u) \/ Crash(u)

Spec == Init /\ [][Next]_vars

\* Hooks keep starting updaters, each one runs on, and the clock does too.
FairSpec ==
  /\ Spec
  /\ WF_vars(Publish) /\ WF_vars(LockAges)
  /\ \A u \in Updaters : WF_vars(Step(u))

-----------------------------------------------------------------------------
(* What must hold. *)

\* f never goes back to what an earlier release held.
Forward(f) ==
  \A q, r, s \in 1..Last :
    q <= r /\ r <= s /\ Build[q][f] = Build[s][f] => Build[r][f] = Build[s][f]

\* manifest.json tells what f holds: nobody was stopped among the renames, or f is
\* never taken back.
Trusted(f) == "cut" \notin past \/ Forward(f)

\* "One updater at a time", but for three holes: two look before either has written,
\* one sleeps at work until its lock is stale, a watchdog removes another's lock.
OneUpdater == "overlap" \in past => "slipped" \in past

\* "It never replaces a file it has not verified": as long as no two updaters have
\* been at work together, every file a hook may load is whole and one the hub has
\* released, whatever was interrupted.
FilesVerified ==
  "overlap" \notin past => \A f \in Files : \E r \in 1..release : disk[f] = Build[r][f]

\* "A half-finished update cannot leave a mixed set": an updater that ends by calling
\* this machine current leaves all the files of the manifest it was sent.  Not so
\* after two have worked together; and of an updater stopped among its renames
\* a file may stay that a later release takes back.
CurrentIsInstalled ==
  "overlap" \notin past =>
    \A u \in Updaters : pc[u] = "done" =>
      \A f \in Files : Trusted(f) => disk[f] = Build[target[u]][f]

\* "Never wedged by a crashed one": when the hub stops releasing and things stop
\* going wrong, every file ends up as in the last release and stays so.  The same
\* two exceptions.
Converges ==
  \/ <>("overlap" \in past)
  \/ \A f \in Files : <>[](Trusted(f) => disk[f] = Build[Last][f] /\ manifest = Last)

\* "One updater at a time", and "a half-finished update cannot leave a mixed set of files
\* behind", to the letter.  Not so: section 5 of the README.
NeverTwo == "overlap" \notin past
NeverMixed ==
  "overlap" \notin past =>
    \A u \in Updaters : pc[u] = "done" => disk = Build[target[u]]

-----------------------------------------------------------------------------
(* The inductive invariants behind them (UpdaterProofs.tla).                *)

\* Past its look at the lock, and not yet through.
Busy(u) == pc[u] \notin {"idle", "refresh"}

Sent(u) == pc[u] \in {"compare", "fetch", "save", "rename", "done"}

\* Who was sent a manifest knows its release, and who is saving a file its name.
Underway ==
  \A u \in Updaters : /\ Sent(u) => target[u] \in 1..Last
                      /\ pc[u] = "save" => saving[u].name \in Files

\* While nothing slips, one process is past its look, and at work it has its lock.
LockInv ==
  "slipped" \notin past =>
    /\ "overlap" \notin past
    /\ \A u, v \in Updaters : Busy(u) /\ Busy(v) => u = v
    /\ \A u \in Updaters : Working(u) => lock = "fresh"

Alone == \A u, v \in Updaters : Working(u) /\ Working(v) => u = v

\* f is of a release from manifest.json's to n.
Between(f, n) == \E r \in 1..n : manifest <= r /\ disk[f] = Build[r][f]

\* manifest.json tells what f holds.
Kept(f) == manifest = 0 \/ disk[f] = Build[manifest][f]

\* What an updater still has to put in place.
Due(u) == todo[u] \cup ready[u] \cup ({saving[u].name} \ {NoFile})

\* What is in place has been released; if never taken back, it lies between the local
\* manifest and the one being installed.
DiskInv ==
  /\ manifest <= release
  /\ \A f \in Files : \E r \in 1..release : disk[f] = Build[r][f]
  /\ \A f \in Files : Forward(f) => Between(f, release)
  /\ \A u \in Updaters : Sent(u) =>
       /\ 1 <= target[u] /\ manifest <= target[u] /\ target[u] <= release
       /\ \A f \in Files : Forward(f) => Between(f, target[u])

\* Unless somebody was stopped among the renames, manifest.json is right about every
\* file but those that the one renaming has put in place.
KeptInv ==
  "cut" \notin past =>
    \A f \in Files : Kept(f) \/ \E u \in Updaters : pc[u] = "rename" /\ f \in Stale(u) \ ready[u]

\* What is staged is verified, and what is not due is in place already.
StageOf(u) ==
  /\ pc[u] = "save" => saving[u].at = "incoming" /\ saving[u].name \in Files
  /\ pc[u] # "save" => saving[u] = NotSaving
  /\ pc[u] \in {"fetch", "save", "rename"} =>
       /\ \A f \in ready[u] : incoming[f] = Build[target[u]][f]
       /\ todo[u] \cap ready[u] = {} /\ saving[u].name \notin todo[u] \cup ready[u]
       /\ Due(u) \subseteq Stale(u)
       /\ \A f \in Files \ Due(u) : Trusted(f) => disk[f] = Build[target[u]][f]
  /\ pc[u] = "rename" => todo[u] = {}
  /\ pc[u] = "done" => \A f \in Files : Trusted(f) => disk[f] = Build[target[u]][f]

FileInv == Alone /\ DiskInv /\ KeptInv /\ \A u \in Updaters : StageOf(u)

UpdaterInv == Underway /\ LockInv /\ ("overlap" \notin past => FileInv)
=============================================================================
