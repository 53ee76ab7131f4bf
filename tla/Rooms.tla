-------------------------------- MODULE Rooms --------------------------------
(***************************************************************************)
(* Document rooms: the hub's websocket relay (hub/server.mjs), the desktop *)
(* side of a room (class Room of desktop/doc-sync.js) and the state kept   *)
(* with it (board/src/lib/room-sync.mjs).                                  *)
(*                                                                         *)
(* A room's state is a set of edits, since its merge is commutative and    *)
(* idempotent; a frame is the set of edits it carries.  A connection is    *)
(* two queues, `up' and `down'; the hub and the client notice its end      *)
(* independently, so an old connection may outlive the next one.  The      *)
(* hub's handling of one frame is one step, and so is the end of a         *)
(* connection.  Roles, sealing and the frame format are left out; the room *)
(* that makes way is any idle one, not the least recently used.            *)
(***************************************************************************)
EXTENDS Naturals, Sequences, SequencesExt, FiniteSets

CONSTANTS
  Clients,
  Edits,
  RoomNames,
  MaxConns,    \* bound: connections 1..MaxConns are opened in a behaviour, the
               \* faults leaving one for every client that will need it
  MaxRooms,    \* rooms the hub keeps
  LogMax,      \* size of a room's log
  PendingMax,  \* frames a client keeps while it is not connected (64)
  Faults       \* which of "drop", "restart", "leave" can happen

ASSUME RoomsAssumption ==
  /\ Clients # {} /\ RoomNames # {}
  /\ MaxConns \in Nat /\ MaxRooms \in Nat \ {0} /\ LogMax \in Nat /\ PendingMax \in Nat
  /\ Faults \subseteq {"drop", "restart", "leave"}

Conns == 1..MaxConns
NoConn == 0

VARIABLES
  room,        \* client: the room it has open, or opened last
  doc,         \* client: its state of the room
  made,        \* edits made
  ws,          \* client: its open connection
  pending,     \* client: sealed frames waiting for a connection
  events,      \* client: "ready" and "snapshot-due" on their way to the renderer
  left,        \* clients that have closed the room
  owner,       \* connection -> its client and room
  up,          \* connection -> messages to the hub
  down,        \* connection -> frames to the client
  side,        \* connection -> what the hub makes of it
  snap,        \* connections with conn.pendingSnapshot
  rooms,       \* hub: the rooms it has
  log,         \* hub: room.log
  sockets      \* hub: room.sockets

clientVars == <<room, doc, made, ws, pending, events, left>>
wireVars == <<owner, up, down>>
hubVars == <<side, snap, rooms, log, sockets>>
vars == <<clientVars, wireVars, hubVars>>

Blobs == SUBSET Edits
Messages == [type : {"join", "snapshot", "blob"}, blob : Blobs]
Join == [type |-> "join", blob |-> {}]
Marker == [type |-> "snapshot", blob |-> {}]
Frame(b) == [type |-> "blob", blob |-> b]

TypeOK ==
  /\ room \in [Clients -> RoomNames]
  /\ doc \in [Clients -> Blobs] /\ made \in Blobs
  /\ ws \in [Clients -> Conns \cup {NoConn}]
  /\ pending \in [Clients -> Seq(Blobs)]
  /\ \A c \in Clients : Len(pending[c]) <= PendingMax \/ Len(pending[c]) = 1
  /\ events \in [Clients -> SUBSET {"ready", "snapshot-due"}]
  /\ left \subseteq Clients
  /\ owner \in [Conns -> [client : Clients, room : RoomNames]]
  /\ up \in [Conns -> Seq(Messages)]
  /\ down \in [Conns -> Seq(Blobs)]
  /\ side \in [Conns -> {"unused", "open", "joined", "gone"}]
  /\ snap \subseteq Conns
  /\ rooms \subseteq RoomNames
  /\ log \in [RoomNames -> Seq(Blobs)]
  /\ sockets \in [RoomNames -> SUBSET Conns]

Init ==
  /\ room \in [Clients -> RoomNames]
  /\ doc = [c \in Clients |-> {}] /\ made = {}
  /\ ws = [c \in Clients |-> NoConn]
  /\ pending = [c \in Clients |-> <<>>]
  /\ events = [c \in Clients |-> {}]
  /\ left = {}
  /\ owner = [k \in Conns |-> CHOOSE o \in [client : Clients, room : RoomNames] : TRUE]
  /\ up = [k \in Conns |-> <<>>] /\ down = [k \in Conns |-> <<>>]
  /\ side = [k \in Conns |-> "unused"]
  /\ snap = {} /\ rooms = {}
  /\ log = [r \in RoomNames |-> <<>>]
  /\ sockets = [r \in RoomNames |-> {}]

RoomFor(k) == owner[k].room
Reads(k) == side[k] # "unused" /\ ws[owner[k].client] = k

\* Bound: every client that must connect has a connection left, and n more.
Unused == {k \in Conns : side[k] = "unused"}
Waiting == {c \in Clients \ left : ws[c] = NoConn \/ side[ws[c]] = "gone"}
Spare(n) == Cardinality(Unused) >= Cardinality(Waiting) + n

-----------------------------------------------------------------------------
(* The client. *)

\* Send, holding one frame too many.
SendOneMore(c, blob, snapshot) ==
  IF ws[c] = NoConn
  THEN /\ pending' = [pending EXCEPT ![c] =
            IF snapshot THEN <<blob>> ELSE IF Len(@) <= PendingMax THEN Append(@, blob) ELSE @]
       /\ UNCHANGED up
  ELSE /\ up' = [up EXCEPT ![ws[c]] = @ \o (IF snapshot THEN <<Marker>> ELSE <<>>) \o <<Frame(blob)>>]
       /\ UNCHANGED pending

\* Room.send: now, or once the socket is back.
Send(c, blob, snapshot) ==
  IF ws[c] = NoConn
  THEN /\ pending' = [pending EXCEPT ![c] =
            IF snapshot THEN <<blob>> ELSE IF Len(@) < PendingMax THEN Append(@, blob) ELSE @]
       /\ UNCHANGED up
  ELSE /\ up' = [up EXCEPT ![ws[c]] = @ \o (IF snapshot THEN <<Marker>> ELSE <<>>) \o <<Frame(blob)>>]
       /\ UNCHANGED pending

\* A local edit: its delta is sent.
Edit(c, e) ==
  /\ c \notin left /\ e \notin made
  /\ made' = made \cup {e}
  /\ doc' = [doc EXCEPT ![c] = @ \cup {e}]
  /\ Send(c, {e}, FALSE)
  /\ UNCHANGED <<room, ws, events, left, owner, down, hubVars>>

\* connect, up to the `open' event: join, then what was held back; the renderer
\* is told it may send.
Connect(c) ==
  /\ c \notin left /\ ws[c] = NoConn
  /\ \E k \in Unused :
       /\ \A j \in Unused : k <= j
       /\ ws' = [ws EXCEPT ![c] = k]
       /\ owner' = [owner EXCEPT ![k] = [client |-> c, room |-> room[c]]]
       /\ side' = [side EXCEPT ![k] = "open"]
       /\ up' = [up EXCEPT ![k] = <<Join>> \o [i \in 1..Len(pending[c]) |-> Frame(pending[c][i])]]
  /\ pending' = [pending EXCEPT ![c] = <<>>]
  /\ events' = [events EXCEPT ![c] = @ \cup {"ready"}]
  /\ UNCHANGED <<room, doc, made, left, down, snap, rooms, log, sockets>>

\* Answer, but for "ready".
AnswerNotReady(c, kind) ==
  /\ kind \in events[c]
  /\ events' = [events EXCEPT ![c] = @ \ {kind}]
  /\ IF kind = "ready" THEN UNCHANGED <<pending, up>> ELSE Send(c, doc[c], TRUE)
  /\ UNCHANGED <<room, doc, made, ws, left, owner, down, hubVars>>

\* The renderer answers both events with its whole state.
Answer(c, kind) ==
  /\ kind \in events[c]
  /\ events' = [events EXCEPT ![c] = @ \ {kind}]
  /\ Send(c, doc[c], kind = "snapshot-due")
  /\ UNCHANGED <<room, doc, made, ws, left, owner, down, hubVars>>

\* The snapshot timer.  (Bound: once earlier traffic has been read.)
SnapshotDue(c) ==
  /\ ws[c] # NoConn /\ events[c] = {}
  /\ \A k \in Conns : up[k] = <<>> /\ down[k] = <<>>
  /\ events' = [events EXCEPT ![c] = {"snapshot-due"}]
  /\ UNCHANGED <<room, doc, made, ws, pending, left, wireVars, hubVars>>

Receive(c) ==
  /\ ws[c] # NoConn /\ down[ws[c]] # <<>>
  /\ doc' = [doc EXCEPT ![c] = @ \cup Head(down[ws[c]])]
  /\ down' = [down EXCEPT ![ws[c]] = Tail(@)]
  /\ UNCHANGED <<room, made, ws, pending, events, left, owner, up, hubVars>>

\* The client notices the end of its connection; what it sent last may be lost.
Down(c) ==
  /\ ws[c] # NoConn
  /\ side[ws[c]] = "gone" \/ ("drop" \in Faults /\ Spare(1))
  /\ \E n \in 0..Len(up[ws[c]]) : up' = [up EXCEPT ![ws[c]] = SubSeq(@, 1, n)]
  /\ down' = [down EXCEPT ![ws[c]] = <<>>]
  /\ ws' = [ws EXCEPT ![c] = NoConn]
  /\ UNCHANGED <<room, doc, made, pending, events, left, owner, hubVars>>

\* The room is closed here: nothing of it is kept on this machine.
Leave(c) ==
  /\ "leave" \in Faults /\ c \notin left /\ ws[c] # NoConn /\ Spare(1)
  /\ left' = left \cup {c}
  /\ doc' = [doc EXCEPT ![c] = {}]
  /\ pending' = [pending EXCEPT ![c] = <<>>]
  /\ events' = [events EXCEPT ![c] = {}]
  /\ down' = [down EXCEPT ![ws[c]] = <<>>]
  /\ ws' = [ws EXCEPT ![c] = NoConn]
  /\ UNCHANGED <<room, made, owner, up, hubVars>>

Return(c) ==
  /\ c \in left /\ Spare(1)
  /\ left' = left \ {c}
  /\ \E r \in RoomNames : room' = [room EXCEPT ![c] = r]
  /\ UNCHANGED <<doc, made, ws, pending, events, wireVars, hubVars>>

-----------------------------------------------------------------------------
(* The hub. *)

Consume(k) == up' = [up EXCEPT ![k] = Tail(@)]

\* The connection ends; frames still queued on it are not read.
Ended(k) ==
  /\ side' = [side EXCEPT ![k] = "gone"]
  /\ up' = [up EXCEPT ![k] = <<>>]
  /\ snap' = snap \ {k}

\* Enter, subscribing to what comes without the replay.
EnterWithoutReplay(k) ==
  /\ sockets' = [sockets EXCEPT ![RoomFor(k)] = @ \cup {k}]
  /\ side' = [side EXCEPT ![k] = "joined"]
  /\ Consume(k)
  /\ UNCHANGED <<snap, down>>

\* joinRoom: the log, then what comes.
Enter(k) ==
  /\ down' = IF Reads(k) THEN [down EXCEPT ![k] = log[RoomFor(k)]] ELSE down
  /\ sockets' = [sockets EXCEPT ![RoomFor(k)] = @ \cup {k}]
  /\ side' = [side EXCEPT ![k] = "joined"]
  /\ Consume(k)
  /\ UNCHANGED snap

\* Idle, taking any room.
IdleAny == rooms

\* Rooms nobody is in.
Idle == {q \in rooms : sockets[q] = {}}

\* One of which makes way for a new one, if there are too many rooms.
JoinRoom(k) ==
  /\ side[k] = "open" /\ up[k] # <<>> /\ Head(up[k]) = Join
  /\ \/ /\ RoomFor(k) \in rooms \/ Cardinality(rooms) < MaxRooms
        /\ rooms' = rooms \cup {RoomFor(k)}
        /\ Enter(k)
        /\ UNCHANGED log
     \/ /\ RoomFor(k) \notin rooms /\ Cardinality(rooms) >= MaxRooms
        /\ \E q \in Idle :
             /\ rooms' = (rooms \ {q}) \cup {RoomFor(k)}
             /\ log' = [log EXCEPT ![q] = <<>>]
        /\ Enter(k)
     \/ /\ RoomFor(k) \notin rooms /\ Cardinality(rooms) >= MaxRooms /\ Idle = {}
        /\ Ended(k)
        /\ UNCHANGED <<rooms, log, sockets, down>>
  /\ UNCHANGED <<clientVars, owner>>

SnapshotMarker(k) ==
  /\ side[k] = "joined" /\ up[k] # <<>> /\ Head(up[k]) = Marker
  /\ snap' = snap \cup {k}
  /\ Consume(k)
  /\ UNCHANGED <<clientVars, owner, down, side, rooms, log, sockets>>

\* A frame has some size whatever it carries.
Bytes(l) == FoldLeft(LAMBDA n, b : n + 1 + Cardinality(b), 0, l)

\* The oldest entries go while what is left is over the log's size; the newest stays.
Trim(l) ==
  LET over == {n \in 1..(Len(l) - 1) : Bytes(SubSeq(l, n, Len(l))) > LogMax}
  IN SubSeq(l, Cardinality(over) + 1, Len(l))

\* relay: into the log, and to everyone else in the room.
Relay(k) ==
  /\ side[k] = "joined" /\ up[k] # <<>> /\ Head(up[k]).type = "blob"
  /\ LET blob == Head(up[k]).blob
         r == RoomFor(k)
     IN IF r \notin rooms THEN UNCHANGED <<log, snap, down>>
        ELSE /\ log' = [log EXCEPT ![r] = IF k \in snap THEN <<blob>> ELSE Trim(Append(@, blob))]
             /\ snap' = snap \ {k}
             /\ down' = [j \in Conns |-> IF j \in sockets[r] \ {k} /\ Reads(j)
                                         THEN Append(down[j], blob) ELSE down[j]]
  /\ Consume(k)
  /\ UNCHANGED <<clientVars, owner, side, rooms, sockets>>

\* The hub notices the end of a connection (or ends one that is silent, or stopped
\* draining): forgetConn.
ForgetConn(k) ==
  /\ side[k] \in {"open", "joined"}
  /\ (~Reads(k) /\ up[k] = <<>>) \/ (Reads(k) /\ "drop" \in Faults /\ Spare(1))
  /\ Ended(k)
  /\ LET r == RoomFor(k) IN
     /\ sockets' = [sockets EXCEPT ![r] = @ \ {k}]
     /\ rooms' = IF sockets[r] \ {k} = {} /\ log[r] = <<>> THEN rooms \ {r} ELSE rooms
  /\ UNCHANGED <<clientVars, owner, down, log>>

\* Rooms are in memory, and gone on restart.
Restart ==
  /\ "restart" \in Faults
  /\ \E k \in Conns : side[k] \in {"open", "joined"}
  /\ Spare(Cardinality(Clients \ (left \cup Waiting)))
  /\ side' = [k \in Conns |-> IF side[k] = "unused" THEN "unused" ELSE "gone"]
  /\ up' = [k \in Conns |-> <<>>]
  /\ snap' = {} /\ rooms' = {}
  /\ log' = [r \in RoomNames |-> <<>>]
  /\ sockets' = [r \in RoomNames |-> {}]
  /\ UNCHANGED <<clientVars, owner, down>>

-----------------------------------------------------------------------------
ClientStep(c) ==
  \/ Connect(c) \/ SnapshotDue(c) \/ Receive(c) \/ Down(c) \/ Leave(c) \/ Return(c)
  \/ \E e \in Edits : Edit(c, e)
  \/ \E kind \in {"ready", "snapshot-due"} : Answer(c, kind)

HubStep(k) == JoinRoom(k) \/ SnapshotMarker(k) \/ Relay(k) \/ ForgetConn(k)

Next == (\E c \in Clients : ClientStep(c)) \/ (\E k \in Conns : HubStep(k)) \/ Restart

Spec == Init /\ [][Next]_vars

\* Frames are read on both sides, events answered, ends of connections noticed and
\* retried after, and the snapshot timer runs (strongly, since its bound disables it
\* now and then and nothing disables the timer).
FairSpec ==
  /\ Spec
  /\ \A c \in Clients :
       /\ WF_vars(Connect(c)) /\ WF_vars(Receive(c)) /\ SF_vars(SnapshotDue(c))
       /\ WF_vars(ws[c] # NoConn /\ side[ws[c]] = "gone" /\ Down(c))
       /\ \A kind \in {"ready", "snapshot-due"} : WF_vars(Answer(c, kind))
  /\ \A k \in Conns :
       /\ WF_vars(JoinRoom(k) \/ SnapshotMarker(k) \/ Relay(k))
       /\ WF_vars(~Reads(k) /\ ForgetConn(k))

-----------------------------------------------------------------------------
(* What must hold. *)

Carried(q) == UNION {q[i] : i \in 1..Len(q)}

\* "Replay, then subscribe, with nothing in between": whoever is in a room has, or
\* is being sent, everything the hub keeps of it, however joins, frames,
\* snapshots, evictions and reconnections overlap.
NoGap ==
  \A k \in Conns : side[k] = "joined" /\ Reads(k) =>
    Carried(log[RoomFor(k)]) \subseteq doc[owner[k].client] \cup Carried(down[k])

\* A room somebody is in is never evicted or replaced under them: "evicting a room
\* people are sitting in would silently desynchronise them".
Seated ==
  \A k \in Conns : side[k] = "joined" =>
    RoomFor(k) \in rooms /\ k \in sockets[RoomFor(k)]

\* Clients that stay connected to a room end up with the same state, whatever was
\* dropped, trimmed or lost with the hub before: "an offline edit or a restarted hub
\* converges".
Converges ==
  \A c, d \in Clients :
    <>[](room[c] = room[d] /\ ws[c] # NoConn /\ ws[d] # NoConn) => <>[](doc[c] = doc[d])

\* What the hub, the clients connected to a room and the frames between them hold
\* of it.
Known(r) ==
  LET here == {c \in Clients : room[c] = r /\ ws[c] # NoConn}
  IN UNION ({doc[c] \cup Carried(down[ws[c]]) : c \in here} \cup {Carried(log[r])}
            \cup {UNION {up[k][i].blob : i \in DOMAIN up[k]} : k \in {j \in Conns : RoomFor(j) = r}})

\* Snapshots and departures lose nothing of a room while no connection fails: "two
\* clients snapshotting at once is harmless, because each blob is a complete state".
SnapshotsHarmless == [][\A r \in RoomNames : Known(r) \subseteq Known(r)']_vars
=============================================================================
