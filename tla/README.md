# Zevet: TLA+ models and proofs

Zevet shows a team what its coding agents are doing and lets teammates act on
each other's running sessions. This directory holds TLA+ models of its
coordination logic, TLC configurations that check them on small instances, and
TLAPS proofs of the results that matter most. Paths below are relative to the
repository root (`src/` here).

## 1. The system

### 1.1 Components

| component | where | state it keeps | operations | models |
|---|---|---|---|---|
| take-overs | `hub/server.mjs` (`/api/takeover*`), `desktop/agent-takeover.js`, `desktop/main.js` | hub: `steers.byId`, `takeovers` (one hold per owner+session); desktops: frames under way, `takeoversAsked` | request, deliver, approve/decline, baton, halt, start, report | `SessionHold`, `Takeover` |
| approval cards | `hub/server.mjs` (`/api/approval/*`), `desktop/agent-approval.js`, `desktop/approval-claims.js`, `desktop/main.js` | hub: `approvals` (cards, TTL, attempts); app: `pending`, hold timers, `inflight`, `pendingPermits`, `approval-claims.json` | ask, publish, answer, hold, release, local click, expire, interrupt, sweep, owner gone | `Permit`, `Approval` |
| client updater | `client/updater.mjs`, started by `client/hook.mjs` | `update.lock`, `manifest.json`, `.<name>.incoming`, the client files | lock, compare, fetch+verify, stage, rename, write manifest, watchdog | `Updater` |
| document rooms | `hub/server.mjs` (websocket relay), `desktop/doc-sync.js`, `board/src/lib/room-sync.mjs` | hub: `rooms` (log, bytes, sockets); desktop: connection state, pending queue, snapshots, backoff; board: the room's state | join, replay, relay, compact, evict, send, reconnect, leave | `Rooms` |
| steers and spawns | `hub/server.mjs` (`/api/steer`, `/api/spawn`, `/api/steer/status`), `desktop/agent-steer.js`, `desktop/agent-spawn.js`, `desktop/main.js` | hub: `steers.byId`, `startedBy`, the policy; app: `seen`, asks, `remoteStarted` | request, relay, deliver, ask, inject/start, report, channel up/down | `Steers` |
| app update | `desktop/app-update.js`, `background-update.js`, `idle-install.js`, `update-rollback.js`, `desktop/main.js` | `rollback.json`, the updates directory, the updater's state, installers running | check, download, prune, install, launch, verdict, go back | `Rollback` (Windows) |
| app payload | `desktop/payload-swap.js`, `bootstrap.js`, `payload-sweep.js` | staged/trial/current/last-good payload, boot strikes | stage, activate, confirm, revert, sweep | planned: `Payload` |
| hub accounts | `hub/accounts.mjs`, routes of `hub/server.mjs` | `accounts.json`: people, owner, blocked, sessions, invite keys; links under way | sign in, redeem, link, unlink, allow, revoke, set role, combine, sign out | `Accounts` |
| hub board | `hub/server.mjs` `makeBoard` | events in memory and in `.jsonl`, compaction, snapshots | record, replay, compact | planned |
| path claims | `hub/server.mjs`, `desktop/claims.js`, `desktop/payer.js` | claim map with TTL | claim, release, expire, replay | planned |
| Masora runs | `desktop/masora-runs.js`, `masora-runs-wire.js` | `masora-runs.json` (runs claimed, runs not reported), the run under way | poll, claim, start, watch, report, abandon | `Runs` |
| agent consoles, schedules | `desktop/agent-console.js`, `agent-sessions.js`, `masora-push.js`, `schedule.js` | turn queues, retries | start, queue, interrupt | planned |
| team documents of the board | `board/src/lib/tasks.mjs`, `team-chat.mjs` | synchronised documents | edit, merge, seed | planned |
| sign-in providers | `hub/*-auth.mjs` | none kept | exchange a code for a person | input of `Accounts` |
| installers, hook client, local files, code index, ask server, UI, voice, build scripts | `client/`, `desktop/`, `board/src/components`, `editor/`, `scripts/` | | | not modelled: I/O, glue or data processing (see PROJECT.json) |

### 1.2 How they interact

Desktops talk to the hub in two ways: short HTTP POSTs, each handled by the hub
synchronously and to the end, and one long channel per desktop on which the hub
pushes frames. A push goes to every open channel of a person, and one person may
have several desktops. Nothing acknowledges a frame; a desktop reports with a POST
of its own, fire and forget. The hub's request records live in memory, in maps of
bounded size. So the order in which POSTs, frames and clicks are seen is free,
each may be lost, a desktop may die between any two of them, and the hub may
have forgotten what a late report is about. On one machine the hook client and
the updater are short processes that share only files.

### 1.3 What is hard

 * the owner's click, a teammate's answer, two timers and an app that quits race
   for one permit; whoever is named on the board must be who decided;
 * a mismatching answer re-opens a card while reports about it are under way;
 * the reply to a POST may arrive after the frame it caused; `takeoversAsked` is
   only filled by the reply;
 * a hold on a session must be exclusive, must lapse if its holder dies, and must
   not be given back by a late report of an older request;
 * two updaters, or one that dies between two renames, share files with the hooks
   that load them;
 * rooms: a reconnecting client must give the others what it did while away, to a
   hub that may have forgotten the room, while its old connection may still be
   in it; a snapshot replaces a log that has grown since it was taken;
 * a person's several accounts turn up in any order and by any door, and rows that
   prove to be one human's are folded while sessions and links refer to them;
 * a spawn or a steer goes to every desktop of a person at once, and each of them
   asks, answers and reports on its own;
 * an installer outlives the app that started it, and the verdict on a new version
   is given by that version, if it lives that long;
 * a run that Masora queues is offered until its end is heard of, while the app, its
   ledger and the calls may fail at any step; starting it twice would act twice.

The full list, line by line, is `hazards` in PROJECT.json.

## 2. Modules

| module | what it is |
|---|---|
| `SessionHold` | what the hub promises about one session: at most one holder, a won session is final |
| `Takeover` | the hub, the owner's desks and the takers' desks; implements `SessionHold` |
| `MCTakeover` | people, desks and requests for TLC |
| `TakeoverProofs` | theorems about `Takeover` |
| `Permit` | what a team may believe of the permission prompts on a machine and their cards: an abstract machine and an abstract board |
| `Approval` | hub and executing app of an approval card; implements `Permit` |
| `MCApproval` | instances for TLC |
| `ApprovalProofs` | theorems about `Approval`, `Permit` and the one implementing the other |
| `Updater` | updater processes, their files, the hub's releases |
| `MCUpdater` | three releases, one of which takes a file back |
| `UpdaterProofs` | theorems about `Updater` |
| `Rooms` | the hub's rooms, the connections and the clients' states |
| `MCRooms` | clients, rooms and edits for TLC |
| `RoomsProofs` | theorems about `Rooms` |
| `Accounts` | the team's people, invites, sessions and links |
| `MCAccounts` | two humans with three accounts, for TLC |
| `AccountsProofs` | theorems about `Accounts` |
| `Steers` | the hub's relay of steers and spawns, and the desktops' inboxes |
| `MCSteers` | requests and desktops for TLC |
| `SteersProofs` | theorems about `Steers` |
| `Rollback` | the installed app, its installers and `rollback.json` |
| `MCRollback` | `Rollback` for TLC |
| `RollbackProofs` | theorems about `Rollback` |
| `Runs` | one desktop's Masora runs: poller, ledger, watcher, reports |
| `MCRuns` | two runs for TLC |
| `RunsProofs` | theorems about `Runs` |

### 2.1 Takeover

One session of one person (`Owner`), running on desk `Home`. `status`, `byId`,
`age`, `approval` and `lock` are the hub's record of each request and its
`takeovers` entry; `inbox[d][r]` is where `createTakeoverInbox.handle` is for
request r on the owner's desk d, `hand[d][r]` where `createBatonInbox.handle`
is on a taker's desk. `reply` and `asked` separate the POST's answer from the
frame. A hub route is one action (the hub is single threaded); an inbox
handler is one action between two of its awaits. A call is handled, or lost,
or handled and its answer lost, whole or in part (`"lose"`). Of an answer lost in part
only the head has arrived: `takeoverPost` then takes the call for done but does not see
the hub's `offline` (third alternative of `SendBaton`). An app dies with its handlers
(`"crash"`); other traffic pushes records and holds out of the hub's maps
(`"evict"`); `"slow"` lets handlers take longer than the hub's clock allows for.
Ticks stand for minutes: without `"slow"` everything except the wait for the
owner's click takes less than a tick and the card closes after `AskMs`.

`consented`, `stopped` and `turns` are what happened to people: who said yes,
whose turn was stopped, which taker's turn was started.

Left out: roles, rate limits, sizes, sealing (a frame that does not open is
`CannotOpen`), the text of records, duplicate frames (dropped by `seen`),
request ids used twice (refused by the hub, 409).

### 2.2 Approval

`rec`, `ids`, `due` are the hub's cards; `pending`, `hold`, `inflight` the
approval host's maps; `prompt` and `decider` what the agent was told and by
whom; `claimed` the ids in `approval-claims.json`, which survive a crash.
`publishing` and `reports` are POSTs under way: delivered in any order, once or
never. Timers may run out at any moment, so no clock is modelled. A mismatching
answer (`good = FALSE`) is one whose hash or card does not fit, an outdated
screen. `ids` makes the hub forget the oldest card when it holds `Keep`.

`Permit` knows no channel, timer, report or disk: a machine that is asked, answered
and gives up, and a board with a status per card. It says when the two may differ and how:
the board may lag, forget, or come to `unknown`; an outcome it shows is what happened and
stays, except that an approval may turn unknown; an answer of an Editor is applied only as
it stands on the board, or once the board no longer claims to know; and a card is reopened,
held or given up only while no Editor's answer has been applied. A step of `Permit` is a
relation that holds for each card, since one step of the code (a sweep, the owner going
offline, a crash) moves many.

Left out: rate limits, roles, sealing, the card's text, tool calls without an id
(which the code does not claim), standing grants ("always allow this", answered without
a prompt or a card), and the gap between the ask-server's timer and
the host's TTL, which are set in the same handler and fire here as one step.

### 2.3 Updater

A process of `client/updater.mjs` goes through `take`, `manifest`, `compare`,
`fetch`/`save`, `rename`, then `done` or `failed`. Each file operation is a step
of its own, since another process may come between two of them; a write is two
steps (truncated, then whole), and a descriptor follows its file when another
process renames it (`Follow`). The hub publishes releases 1..`Last` at any time, also
between an updater's fetches; only contents are compared, as the code does with
checksums. Looking at the lock (`Look`) and writing it (`Take`) are two steps, and any
process may come between them. A process ends in `refresh` (`refreshActivity`), where it
no longer holds the lock, or as `Refused` never did; its watchdog (`Watchdog`) may still
fire there and remove whoever's lock it finds. `"sleep"` lets a lock grow stale under a
live process (a laptop that sleeps: the watchdog's timer does not run while the lock's
age does), `"hang"` is a call that does not end before the watchdog does, `"net"`,
`"rename"` and `"crash"` are a failed fetch, a refused rename and a killed process,
`MaxTrouble` of them in all.

`past` is what has happened so far, for the properties to name their exceptions:
`"slipped"` (the lock was passed or taken away by one it should have kept out),
`"overlap"` (two processes were at work together), `"cut"` (one was stopped after some of
its renames). No action reads it.

Left out: configuration errors, the manifest's signature and shape (a manifest
that fails either ends the run as `GiveUp` does), the `last-check` stamp (it
only spaces the runs) and `activity.md`.

### 2.4 Rooms

A client is one `Room` of `doc-sync.js` with the state that `room-sync.mjs` keeps
with it. The merge of a room's state is commutative and idempotent, so a state is
a set of edits, and a frame the set it carries. A connection k has a queue each
way (`up[k]`, `down[k]`); `ws[c] = k` says the client has it open, `side[k]` what
the hub makes of it. The two notice its end on their own (`Down`, `ForgetConn`), so
a client may have reconnected while its old connection is in the room and what it
sent there is still being read. The hub handles one frame per step (`JoinRoom`,
`SnapshotMarker`, `Relay`). `ready` and `snapshot-due` reach the renderer by IPC,
so they wait in `events` and are answered with the state of that later moment.
`"drop"` breaks connections, losing any suffix of what was sent; `"restart"`
empties the hub; `"leave"` lets a client close the room and come back, to this
room or another, with nothing kept.

Left out: roles (`taskWriteRefused`), sealing, the websocket handshake and frames,
pings (a silent connection is ended by `ForgetConn`), the order of use among idle
rooms (any may make way), and seeding of a document from a file.

### 2.5 Accounts

A person is a row of `rows`: identities, the primary one, a role, perhaps an invite
key. An identity whose id is `Pending` is an invite. Every route that changes who is
on the team is one action: the file is read and saved between two awaits, so a handler
is atomic after its last one. What is checked before an await is not known to hold after it:
the owner's calls act on a session that was the owner's once (`OwnerAsked`). `Adopt` is `#adopt` with all it does (answer the invites
`u` proves, take its identity, fold in whoever shares a proven address), `Settle` is
`#merge` and `#repoint`, which follow the sessions. A link is two steps with a session
read at the first (`LinkStart`, `LinkFinish`): anything may happen between them. GitHub's
device flow holds the session itself, so what folds do to it is seen (`Followed`); the
other providers keep a copy, and nothing follows that.
Where the code takes the first of several matching rows, the model takes any.

What a provider says of who signs in is an input (`Users`, `Guests`), and so is what
the owner types (`Invitees`). `HumanOf`, which only properties use, says whose an
account is.

Left out: names and aliases, presence, shared credentials, policies, mail, Masora
claims, the scheduled `mergeProvable`, `linkEmail`.

### 2.6 Steers

One target person with several desktops. `status`, `under` and `marked` are the hub's
record of a request, the policy it was relayed under, and the board's "started by";
`pc[d][q]` is which await the handler of request q on desktop d is in, and `posts` are the
reports under way. A report is handled (`HubStatus`), lost (`Lose`), or given up on
after its 10 s and handled late or never (`GiveUp`). The desktop's checks happen where
the code makes them: the cap on running agents before `accepted` is awaited, the
agent's start after it. `StopChannel` answers every open question with null, as
`stopSteerChannel` does; a crash takes handlers and agents along; a hub restart forgets
records but not the policy.

Left out: roles, rate limits, sizes, sealing, reasons, and the text of a prompt.

### 2.7 Rollback

One Windows machine. `feed` is what the update feed offers, `disk` which installers
are in the updates directory, `installers` those started and not yet done;
`pending`, `lastGood` and `bad` are `rollback.json`. An installer waits for the
app to be gone, so between its start and its end the old version may be launched
again, quit again, or updated by the hourly `Job`. `Check` is a check with its
download and its pruning (`keepFiles`); `Restart`, `Quit` and `Job` are the three ways
an update is put on; `Boots` is what a launch does with the record. The verdict
(`Confirm`, `Retry`, `Report`, `Verify`) comes from the running version only. `held`
is the record `settle` read before it awaits the check of the last good installer.
A version not in `Healthy` never comes up; one in `Crashing` also ends before its
120 s are over, so no verdict is ever given on it.

Left out: macOS and Linux replacement, signatures and checksums, prerelease numbers,
limits on attempts (an action may happen or not), the database head (none is passed).

### 2.8 Runs

`ids` and `open` are the ledger in memory, `disk` the file; `tick` is which await of
`#claimOne` (and of `#abandon` within it) the poll is in, `watch` which of `#watch`, and
`posts` are the reports under way, each of which reaches Masora or not before its caller
stops waiting. The report of a run refused or not started is awaited by nobody, so the
next poll may overlap it. `con` is what the watcher reads of each run's console, moved by
its agent and by people (a finished run's console may be prompted); `told` is what
Masora has heard, which may hand out any run whose end it has not heard of. Of a run's clock
two moments matter: its bound (`late`) and its token's expiry (`expired`). A ledger write may
fail wherever the code writes, and the app may die at any step (`MaxTrouble` of both).

Left out: an unreadable ledger (nothing is claimed), one of more than 500 runs (older ones
are forgotten, and could run again), pairing, what a report says, outcomes on the row, and
the time between two polls, which is free.

## 3. Runs

| run | instance | shows |
|---|---|---|
| `takeover` | 2 takers, 3 desks, 2 requests; calls and answers lost, crashes | the whole implements `SessionHold`, hence one started take-over (`OneStarted`) and a hold final once started (`FinalHold`); unfinished holds lapse (under `FairSpec`) |
| `takeover_late` | 1 taker who asks twice, 2 desks; calls and answers lost, crashes, handlers of any slowness, a hub that forgets | types, with what a final hold is; the owner is stopped only for a request whose baton the hub took; a taker's turn needs the relay and, under `ask`, a yes |
| `takeover_twin` | a taker with two desktops, nothing fails | violation of `OneTurn` (finding 1) |
| `approvals` | 2 asks of 1 call, 2 Editors, 3 mismatches, 2 desktops of the owner | types; the whole implements `Permit` (so an outcome stays); attribution and honest expiry (`ToldTruly`), a call runs at most once, first valid answer wins, cards settle |
| `updater` | 2 processes, 2 files, 3 releases, the last of which takes a file back, 2 troubles | types; the lock fails in three ways only; until two have worked together, only verified files are in place, what is called current is installed and reached, but for the files of an interrupted update that are taken back |
| `rooms` | 2 clients, 2 edits, 2 rooms on a hub that keeps 1, 3 connections; drops, restarts, departures | types and the pending queue's limit, nobody in a room misses what the hub keeps of it, nobody is unseated |
| `rooms_converge` | 2 clients of one room, 1 edit, 3 connections; drops, restarts, a trimmed log | clients that stay connected end up alike |
| `rooms_snapshot` | 2 clients, nothing fails | violation of `SnapshotsHarmless` (finding 2) |
| `accounts` | 2 humans, 3 accounts, 2 invites, 3 rows, 3 sessions, 2 keys | types; an account is on one row; proven addresses are on one row; the removed stay out; a key comes in once; humans do not mix; no account is lost; roles do not climb; sessions follow unless they become nobody's |
| `steers` | 1 steer, 2 spawns, 2 desktops, 2 frames, 1 fault | types; consent; what the sender is told is true; endings arrive; handlers end |
| `rollback` | 4 versions, the third crashes, the fourth hangs, 3 troubles | types and the strike limit; installers started are not withdrawn, going back is to a proven version; a version that hangs is left |
| `runs` | 2 runs, 1 trouble (a death of the app or a failed write) | no brief is sent twice; the run under way is the watched one, and nobody is told of a restart that was none while it works; no run stays claimed |

**Why these bounds.** Two requests compete for one session: every property of a
hold speaks of at most two requests. `AskMs = 1`, `PendingMs = 2` keep the
order of the code's 10 and 15 minutes, which is all the guards use. Two cards
for one call make a retry, two Editors every race for a card, and a third mismatch
reaches `ReopenMax`. Only one card is published of a call, so `PendingMax` and `Keep` are
not reached with one call, and two calls are out of TLC's reach: of those limits the
proofs speak, which hold for every value. `takeover_late` adds the slow handlers and the
forgetting hub that `takeover` cannot have (its promise needs prompt handlers); for the
whole of it to fit it has one taker, whose second request does to the first what
anybody's would. Two processes are enough for exclusion; two files make a mixed set, three
releases let an update be overtaken by a third, or a file be taken back. Bounds that exist only in the models: the
policy changes only while something still depends on it (`SetPolicy`), `age`
stops at `PendingMs`, `MaxTrouble`. In `Rooms`, connections are numbered 1..`MaxConns`
and a fault happens only while every client that will have to reconnect has one left
(`Spare`), so the bound never keeps a client away; snapshots are due only when
earlier frames have been read. Two clients and three connections give a
connection that outlives its successor, `LogMax = 2` a log that is trimmed as soon
as it holds an edit and another frame, and one kept room an eviction and a refusal.
Run `rooms` uses the symmetry of clients, and of rooms: no invariant
names one. In `Accounts` the users are chosen so that each way of being recognised occurs
and can be confused: an address two providers prove, an id two providers share, an
account whose address the provider withholds; a third row is what makes folds meet;
a link under way, an open session and one more are the three tokens. In `Steers` two
frames are one request at two desktops, or two requests at one: races of either
kind; three frames are out of TLC's reach. `MaxRunning` and `PendingMax` are 1, so
that both limits are met. In `Rollback` two healthy versions, one that crashes and one
that hangs let one be published, or withdrawn, while another is on trial, and a version
that is never judged be replaced by the next; a third trouble lets the rollback's
installer fail after two slow launches. In `Accounts` a link begins only if an account of
that provider exists that could end it. In `Runs` two runs let one be owed a report while another
is claimed or under way; the proofs cover more than one trouble.

**Fairness.** `Takeover!FairSpec`: each inbox handler runs on and time passes;
nothing is assumed about clicks, connections or the network. A dead app's
handlers are not enabled, so it owes nothing. `Approval!FairSpec`: only the
clock and the hub's 15 s sweep. `Updater!FairSpec`: the hub publishes what
there is, hooks keep starting updaters (one every half hour of work), a process
runs on unless it dies, and time makes an abandoned lock stale. `Rooms!FairSpec`: both
sides read what has arrived, the renderer answers its events, an ended
connection is noticed and retried after (the backoff timer), and the snapshot timer
fires again and again (strong fairness, because the bound on it is not of the code).
`Steers!FairSpec`: a handler runs on once what it awaits is there, a question has a
timer, and a report ends, at the latest with its 10 s. `Rollback!FairSpec`: the app is
opened and closed again and again. That every so often it stays open for the two minutes
of a verdict, and for the moment of a verification, is an assumption about its user
(strong fairness, since the app may be closed in between as often as they like), not
something the code brings about: without it a version is never judged. Of the installers
that wait for the app to be gone one gets its turn, whichever.
`Runs!FairSpec`: the 30 s poll and the 1 s watch go on, a call ends with its 15 s, a start
ends, bounds and tokens expire, and the app is opened again.

**Deadlock** is not checked: every instance has finitely many requests and
the system rests when they are over.

## 4. Proofs

All theorems hold for every value of the constants that meets the module's
named assumption.

*Takeover* (`TakeoverProofs`). `TypeCorrect`. `RelayFirst` and `ConsentFirst`: the
owner's turn stops only for a request whose baton the hub took while it was due, relayed
or, where its answer may arrive in part, found no taker for; and a taker's runs only with
the owner's yes where the policy asks. Both hold whatever is slow, lost, dead or
forgotten. The
inductive invariant `ConsentInv` follows a request along its path (a card past
`ask` is agreed to; whatever is past the baton has a record that says so for
good). `OneWinner`, `HoldIsFinal` and `Refinement` (`Spec => Hold!Spec`) assume
`Prompt`: `"slow"` and `"evict"` are not in `Faults`. Their invariant `HoldInv` is
needed because `OneStarted` alone is not inductive: what excludes a second start
is that as long as anyone works on a request its age is at most `AskMs`, hence
less than `PendingMs`, hence its hold is live and still the recorded one. Without
`Prompt` the code does not promise it: a handler slower than 15 minutes can
start a turn on a hold that has been given to someone else.

*Approval* (`ApprovalProofs`). `TypeCorrect`, `Attribution`, `OnceOnly`,
`OutcomeIsFinal`, `FirstWins`, `Refinement` (`Spec => Promise!Spec`), without further
assumptions. The
invariant `ApprovalInv` says that the answer the hub relayed is a single token:
it is a frame on the channel, or a hold, or an objection under way, or applied,
never two of these, and it is the one on record. That is why a late report
cannot match a record it was not made for. `Refinement` is proved card by card, the prompt
(`MachineStep`) apart from the board (`BoardStep`): the two move in one step only when the
app dies (`BoardOrMachine`), and then the prompts are given up and the board says at most
`unknown`. `PermitIsTruthful` shows that the abstract specification is worth
implementing: from `Permit` alone it follows that outcomes are true, credited, and that a
call is allowed once.

*Updater* (`UpdaterProofs`). `TypeCorrect`, `OneAtATime`, `OnlyVerified`,
`CurrentIsWhole`, without further assumptions: what the code does not keep is an
exception that the properties state. `OneAtATime`: two are at work together only if one
slipped by the lock, and the three ways of that are the only ones. The other two hold as
long as no two have worked together. Their invariant (`UpdaterInv`) has two halves.
`KeptInv`: unless somebody was stopped among its renames, manifest.json is right about
every file but those that the one renaming has put in place. `DiskInv`: whoever was
stopped, a file that releases never take back is of a release between the local manifest
and the one being installed. Either way a file on which the two manifests agree is that
file (`Trusted`), so comparing manifests is as good as comparing files. Section 5 tells
how to see that none of the exceptions can be dropped.

*Rooms* (`RoomsProofs`). `TypeCorrect`, `NobodyUnseated`, `NobodyMisses`, without
further assumptions. `NoGap` alone is not inductive. `Wired` says that the hub and the
clients agree about connections (a socket is in a room's set exactly when it has
joined it; a room not kept has no log, which is what makes a join that creates a
room safe). `Own` says that whatever a client has sent, or holds back, is part of its
state: the hub never sends a frame back to its sender, and only for that reason does
the sender miss nothing of the log it has just written to.

*Accounts* (`AccountsProofs`). `TypeCorrect`, `OneRow`, `AddressesApart`,
`RemovedStayOut`, `KeysOnce`, and of what a step may do `NobodyIsLost`, `NobodyClimbs`,
`SessionsAreFollowed` (of sessions that stay somebody's), without further assumptions. The invariants are inductive together
with `KeysFresh` (a key or a "key-..." id that is on a row, or blocked, has been minted, so
the next key collides with nobody), `InvitesBare` (an invite nobody has accepted has proved
no address: answering it can bring nobody's address along) and `PrimaryOwned` (the primary of
whoever has signed in is one of their accounts: a fold has a session to move to).
Every door ends in `Adopt` and then `Settle`, so the argument is about these two: the
person that is written has one identity of each account (`AdoptedFacts`), no row
outside the fold holds any of them (`AdoptedAlone`, `SeatFacts`), and then
folding, whatever the rows, neither doubles nor brings back an account
(`SettleRows`, `SettleSafe`). `LinkFinish` needs its own case: it takes rows apart
before it puts them together. For `AddressesApart` the person folded must reach everybody
who shares an address with it (`Reach`), those included that only the folded rows bring;
for the action properties it must be an heir of the rows it replaces (`Heir`: their
accounts, no higher a role, the primary of the row it stays on). What every step but three
carries over is `Carried`; `Unlink`, `Revoke` and `SetRole` are the exceptions, each for one
of the three properties. `NobodyMixed` assumes `HonestUsers`: an id a provider gives out
stays one human's, and so does an address that a provider has verified or a human has
published. That is about providers, not about the code, which has no other way to tell
humans apart; `MCAccounts` states it of its instance. The invariant is `OneHuman`: all that
a row holds, addresses proved and accounts invited included, is of one human.

*Steers* (`SteersProofs`). `TypeCorrect`, `Consented`, `TruthOfSuccess`,
`EveryEndingReported`, without further assumptions. What a report claims is true when it is sent, and the facts it claims
never become false (`ran` and `said` only grow), so it is still true when it arrives,
however late; the invariant says so of every report under way and every place a
handler can be in, and the hub's record inherits it from the report. For
`EveryEndingReported` the record and the handler go in step (`Track`): a handler has one
report under way at most (`OneReport`), waits for it, and it says where the handler is
(`InFlight`), so the record is what the handler last said, or takes what it says now
(`Followed`): no report of the protocol meets a record that refuses it.

*Rollback* (`RollbackProofs`). `TypeCorrect` and `OnlyProven`, without further
assumptions. `WayBack`: the last good version, the one on record to go back to, and the one a verification
under way has read are all proven; `Ahead`: what is ready to install is newer than
what is installed, so an installer of an older version can only be a rollback's.
`Alone`: a verification is under way only in an open app that no longer watches.

*Runs* (`RunsProofs`). `TypeCorrect`, `NeverTwice`, `OneRun`, without further
assumptions. `Ledger` is why a brief is sent once: whatever was sent is in the file, and a
running app knows all that is in the file. `Restarts` and `Resting` say that a restart is
reported only while the tick looks for a run, of one run at a time, and with nothing under
way; then a claimed run with a console (`Owned`) is never the one reported.

**Only model-checked**: liveness, which is out of the prover's reach (`HoldLapses`,
`CardsSettle`, both `Converges`, `EveryHandlerEnds`, `HungLeft`, `RunsEnd`). Every other property
of the passing runs is a theorem, some under an assumption named above (Takeover's
`Prompt`, `HonestUsers`). The runs still matter for them: they show that the instances
reach the interesting states, and each property is violated when a definition is changed as
a bug would change it (`mutants` in PROJECT.json).

## 5. Where the code and its words differ

Two of these have a run:

1. `takeover_twin`: "Exactly one taker wins a session". The hub pushes the baton
   to every desktop of the taker; the one that did not ask reports `start-failed`,
   the hub releases the hold, the asking desktop starts the turn all the same,
   and a second taker can then win: two takers' turns run.
2. `rooms_snapshot`: a snapshot erases from the hub's log what was relayed while it was
   on its way; once those who have it leave the room, it is gone.

The others are seen by changing a configuration as told:

3. *Approval*: prompts reported as never having run stay clickable
   (`InterruptedNeverRan` as an invariant in `Approval.cfg`).
4. *Updater*: "One updater at a time" (`client/updater.mjs:114`). The lock is a look and a
   write, not an exclusive create; a laptop that sleeps lets it grow stale under a process
   at work; and a watchdog that fires in `refreshActivity` removes another's (`NeverTwo` as
   an invariant in `Updater.cfg`). "a half-finished update cannot leave a
   mixed set of files behind" (`client/updater.mjs:215-216`): after an update stopped among
   its renames, and a release that takes one of the renamed files back, the updater calls a
   mixed set current for good (`NeverMixed` as an invariant in `Updater.cfg`).
5. *Accounts*: "signIn claims this exact row" (`hub/accounts.mjs:1073`). An invite
   accepted through a provider keeps its key; redeemed later, the key finds no pending
   row and seats a second person with the default role (`RedeemClaimsRow` as a
   PROPERTY in `Accounts.cfg`). Also, `unlink` moves sessions to the new
   primary only if its login differs (`accounts.mjs:1179`): giving up the primary of two
   accounts with one login (Google's and Masora's of one address) leaves them nobody's.
6. *Steers*: "at most three agents started by teammates run on one machine at a time"
   (`README.md:440`). The count is read before `accepted` is awaited
   (`agent-spawn.js:217`); two spawns handled at once both pass (one desktop, two spawns,
   `PendingMax = 2`, `CapKept` as an invariant). With two desktops the hub settles on
   whichever reports first: a request may be told declined and run on the other.
7. *Rollback*: "Installers pruneUpdates must leave alone: the rollback target and
   the one that got us here" (`update-rollback.js:132`). `keepFiles` names the
   target and the last good one but not the version on trial, so a check that ends as
   `current`, or a newer download, before the trial is over removes its installer, and
   after it is confirmed there is no way back to it (`TargetKept` as an invariant in
   `Rollback.cfg`). "A crash or exit is the build's fault at once"
   (`update-rollback.js:28-29`): only the running version gives a verdict on itself, 120 s
   after its launch; one that ends before is never judged (`CrashLeft` as a PROPERTY in
   `Rollback.cfg`). And an update begun while another is on trial, or a launch of the old version while the
   installer still waits, overwrites or clears the record: a version then stays that
   was never proved, with no way back.
8. *Runs*: "a finished run's console has nothing left to say" (`masora-runs.js:295`). The
   report before it is awaited for up to 15 s, and who prompts the console meanwhile loses
   the turn (`StopsNobody` as a PROPERTY in `Runs.cfg`). "the app restarted mid-run"
   (`masora-runs.js:18`) is also said of a refused run, if its own report is slow and a poll
   comes first (`RestartIsTrue` as an invariant), and of a finished one whose
   ledger could not be written after its report. A report of a run's end is tried once, one
   of a restart until the token expires.
9. *Takeover*: "Their turn stops only after the hub has relayed the baton" (`README.md:450`).
   `takeoverPost` answers `ok` for a 200 whose body it could not read
   (`desktop/main.js:5257-5263`); if that body said `offline`, the hub has let go of the
   session and relayed nothing, and the owner's turn is stopped all the same
   (`agent-takeover.js:256`; `HaltOnlyAfterRelay` as an invariant in `TakeoverLate.cfg`).

## 6. What is left

Done: Takeover (with `SessionHold`), Approval (with `Permit`), Updater, Rooms, Accounts, Steers, Rollback and Runs, each with
its proofs. Candidates to follow, the most valuable first:

1. `Claims`: the hub's map of claimed paths and payers, keyed by actor and session,
   with its 2 h TTL; the desktops post claims and releases without waiting, so a
   release and a later claim may change places.
2. `Payload`: staging, activation at launch, trial boot, revert, three strikes and the
   sweep. The launcher that reads its state is a packaged dependency outside the
   repository, which the model would have to take from its use.
3. An abstract room (a growing set of edits, delivered to everyone who stays), and
   `Rooms` shown to implement it where no connection fails.
4. `Board` (events, compaction, restart), then agent consoles and schedules.

**Not modelled.** The interface (board, editor), voice, computer use, providers'
sign-in, installers of the client, the code index, local files and the build scripts:
each is I/O, rendering or data processing with little state that two actors share. They
are most of the repository's lines, and what could be wrong in them is not what a
state machine tells. Session sharing, consoles and schedules have states
worth modelling and are left for later. PROJECT.json gives the reason for each part.
