----------------------------- MODULE RoomsProofs -----------------------------
(***************************************************************************)
(* Proofs about Rooms, for any number of clients, rooms and connections:   *)
(* the types, the bound on pending queues, that a connection in a room is  *)
(* seated, and that it misses nothing the hub keeps.                       *)
(***************************************************************************)
EXTENDS Rooms, FiniteSetTheorems, TLAPS

-----------------------------------------------------------------------------
(* Frames carried by a sequence. *)

\* What a sequence carries grows by what is appended to it.
LEMMA CarriedAppend ==
  ASSUME NEW q \in Seq(Blobs), NEW b \in Blobs
  PROVE  /\ Append(q, b) \in Seq(Blobs) /\ Append(q, b) # <<>>
         /\ Carried(Append(q, b)) = Carried(q) \cup b
<1>0. Append(q, b) # <<>>
  OBVIOUS
<1>1. /\ Append(q, b) \in Seq(Blobs) /\ Len(Append(q, b)) = Len(q) + 1 /\ Len(q) \in Nat
      /\ Append(q, b)[Len(q) + 1] = b
      /\ \A i \in 1..Len(q) : Append(q, b)[i] = q[i]
  OBVIOUS
<1>2. ASSUME NEW e \in Carried(Append(q, b)) PROVE e \in Carried(q) \cup b
  <2>1. PICK i \in 1..Len(Append(q, b)) : e \in Append(q, b)[i]
    BY <1>2 DEF Carried
  <2>2. i \in 1..Len(q) \/ i = Len(q) + 1
    BY <1>1
  <2> QED
    BY <1>1, <2>1, <2>2 DEF Carried
<1>3. ASSUME NEW e \in Carried(q) PROVE e \in Carried(Append(q, b))
  <2>1. PICK i \in 1..Len(q) : e \in q[i]
    BY <1>3 DEF Carried
  <2>2. i \in 1..Len(Append(q, b)) /\ e \in Append(q, b)[i]
    BY <1>1, <2>1
  <2> QED
    BY <2>2 DEF Carried
<1>4. ASSUME NEW e \in b PROVE e \in Carried(Append(q, b))
  <2>1. Len(q) + 1 \in 1..Len(Append(q, b)) /\ e \in Append(q, b)[Len(q) + 1]
    BY <1>1, <1>4
  <2> QED
    BY <2>1 DEF Carried
<1> QED
  BY <1>0, <1>1, <1>2, <1>3, <1>4

\* It consists of what its head carries and what its tail does.
LEMMA CarriedTail ==
  ASSUME NEW q \in Seq(Blobs), q # <<>>
  PROVE  /\ Head(q) \in Blobs /\ Tail(q) \in Seq(Blobs)
         /\ Carried(q) \subseteq Head(q) \cup Carried(Tail(q))
<1>1. /\ Head(q) \in Blobs /\ Tail(q) \in Seq(Blobs) /\ Len(q) \in Nat /\ Len(q) > 0
      /\ Len(Tail(q)) = Len(q) - 1 /\ Head(q) = q[1]
      /\ \A i \in 1..(Len(q) - 1) : Tail(q)[i] = q[i + 1]
  OBVIOUS
<1>2. ASSUME NEW e \in Carried(q) PROVE e \in Head(q) \cup Carried(Tail(q))
  <2>1. PICK i \in 1..Len(q) : e \in q[i]
    BY <1>2 DEF Carried
  <2>2. CASE i = 1
    BY <1>1, <2>1, <2>2
  <2>3. CASE i # 1
    <3>1. i - 1 \in 1..Len(Tail(q)) /\ Tail(q)[i - 1] = q[i]
      BY <1>1, <2>3
    <3> QED
      BY <2>1, <3>1 DEF Carried
  <2> QED
    BY <2>2, <2>3
<1> QED
  BY <1>1, <1>2

\* An empty sequence carries nothing, a frame alone what it holds.
LEMMA CarriedFew ==
  ASSUME NEW b \in Blobs
  PROVE  /\ Carried(<<>>) = {} /\ <<>> \in Seq(Blobs)
         /\ Carried(<<b>>) = b /\ <<b>> \in Seq(Blobs)
<1>1. Len(<<>>) = 0 /\ Len(<<b>>) = 1 /\ <<b>>[1] = b /\ <<b>> \in Seq(Blobs) /\ <<>> \in Seq(Blobs)
  OBVIOUS
<1>2. Carried(<<>>) = {}
  BY <1>1 DEF Carried
<1>3. \A e : e \in Carried(<<b>>) <=> e \in b
  <2>1. \A i : i \in 1..Len(<<b>>) <=> i = 1
    BY <1>1
  <2> QED
    BY <1>1, <2>1 DEF Carried
<1> QED
  BY <1>1, <1>2, <1>3

\* Trimming a log keeps its newest entry and brings nothing new.
LEMMA CarriedTrim ==
  ASSUME NEW q \in Seq(Blobs), q # <<>>
  PROVE  Trim(q) \in Seq(Blobs) /\ Carried(Trim(q)) \subseteq Carried(q)
<1> DEFINE over == {n \in 1..(Len(q) - 1) : Bytes(SubSeq(q, n, Len(q))) > LogMax}
           first == Cardinality(over) + 1
<1>1. Len(q) \in Nat /\ Len(q) > 0
  OBVIOUS
<1>2. Cardinality(over) \in 0..(Len(q) - 1)
  <2>1. IsFiniteSet(1..(Len(q) - 1)) /\ Cardinality(1..(Len(q) - 1)) = Len(q) - 1
    BY <1>1, FS_Interval
  <2>2. over \subseteq 1..(Len(q) - 1)
    OBVIOUS
  <2>3. Cardinality(over) <= Len(q) - 1 /\ IsFiniteSet(over)
    BY <2>1, <2>2, FS_Subset
  <2>4. Cardinality(over) \in Nat
    BY <2>3, FS_CardinalityType
  <2> QED
    BY <2>3, <2>4, <1>1
<1>3. first \in 1..Len(q) /\ Trim(q) = SubSeq(q, first, Len(q))
  BY <1>1, <1>2 DEF Trim
<1> HIDE DEF first, over
<1>4. /\ Trim(q) \in Seq(Blobs) /\ Len(Trim(q)) = Len(q) - first + 1
      /\ \A i \in 1..(Len(q) - first + 1) : Trim(q)[i] = q[first + i - 1]
  BY <1>1, <1>3
<1>5. ASSUME NEW e \in Carried(Trim(q)) PROVE e \in Carried(q)
  <2>1. PICK i \in 1..Len(Trim(q)) : e \in Trim(q)[i]
    BY <1>5 DEF Carried
  <2>2. first + i - 1 \in 1..Len(q) /\ e \in q[first + i - 1]
    BY <1>1, <1>3, <1>4, <2>1
  <2> QED
    BY <2>2 DEF Carried
<1> QED
  BY <1>4, <1>5

-----------------------------------------------------------------------------
(* Types. *)

\* The messages a client sends.
LEMMA MessageTypes ==
  /\ Join \in Messages /\ Marker \in Messages
  /\ \A b \in Blobs : Frame(b) \in Messages
  BY DEF Join, Marker, Frame, Messages, Blobs

\* What a client sends is kept in order, within bounds.
LEMMA SendTyped ==
  ASSUME TypeOK, NEW c \in Clients, NEW b \in Blobs, NEW snapshot \in BOOLEAN, Send(c, b, snapshot)
  PROVE  /\ up' \in [Conns -> Seq(Messages)]
         /\ pending' \in [Clients -> Seq(Blobs)]
         /\ \A d \in Clients : Len(pending'[d]) <= PendingMax \/ Len(pending'[d]) = 1
<1> USE RoomsAssumption DEF RoomsAssumption
<1>0. /\ up \in [Conns -> Seq(Messages)] /\ pending \in [Clients -> Seq(Blobs)]
      /\ \A d \in Clients : Len(pending[d]) <= PendingMax \/ Len(pending[d]) = 1
      /\ ws[c] \in Conns \cup {NoConn} /\ pending[c] \in Seq(Blobs)
  BY DEF TypeOK
<1>1. CASE ws[c] = NoConn
  <2>1. <<b>> \in Seq(Blobs) /\ Len(<<b>>) = 1
    OBVIOUS
  <2>2. /\ Append(pending[c], b) \in Seq(Blobs) /\ Len(Append(pending[c], b)) = Len(pending[c]) + 1
        /\ Len(pending[c]) \in Nat
    BY <1>0
  <2>3. PICK q : /\ pending' = [pending EXCEPT ![c] = q]
                 /\ q \in {<<b>>, pending[c]} \/ (q = Append(pending[c], b) /\ Len(pending[c]) < PendingMax)
    BY <1>1 DEF Send
  <2>4. q \in Seq(Blobs) /\ (Len(q) <= PendingMax \/ Len(q) = 1)
    <3>1. CASE q = <<b>>
      BY <2>1, <3>1
    <3>2. CASE q = pending[c]
      BY <1>0, <3>2
    <3>3. CASE q = Append(pending[c], b) /\ Len(pending[c]) < PendingMax
      BY <2>2, <3>3
    <3> QED
      BY <2>3, <3>1, <3>2, <3>3
  <2>5. up' = up
    BY <1>1 DEF Send
  <2> QED
    BY <1>0, <2>3, <2>4, <2>5
<1>2. CASE ws[c] # NoConn
  <2>1. up[ws[c]] \in Seq(Messages) /\ ws[c] \in Conns
    BY <1>0, <1>2
  <2>2. <<Marker>> \in Seq(Messages) /\ <<Frame(b)>> \in Seq(Messages) /\ <<>> \in Seq(Messages)
    BY MessageTypes
  <2>3. up[ws[c]] \o (IF snapshot THEN <<Marker>> ELSE <<>>) \o <<Frame(b)>> \in Seq(Messages)
    BY <2>1, <2>2
  <2>4. /\ up' = [up EXCEPT ![ws[c]] = up[ws[c]] \o (IF snapshot THEN <<Marker>> ELSE <<>>) \o <<Frame(b)>>]
        /\ pending' = pending
    BY <1>2 DEF Send
  <2> QED
    BY <1>0, <2>1, <2>3, <2>4
<1> QED
  BY <1>1, <1>2

LEMMA InitTyped == Init => TypeOK
<1> SUFFICES ASSUME Init PROVE TypeOK
  OBVIOUS
<1> USE RoomsAssumption DEF RoomsAssumption
<1>1. (CHOOSE o \in [client : Clients, room : RoomNames] : TRUE) \in [client : Clients, room : RoomNames]
  <2>1. PICK c \in Clients, r \in RoomNames : TRUE
    OBVIOUS
  <2>2. [client |-> c, room |-> r] \in [client : Clients, room : RoomNames]
    OBVIOUS
  <2> QED
    BY <2>2
<1>2. owner \in [Conns -> [client : Clients, room : RoomNames]]
  BY <1>1 DEF Init
<1>3. Len(<<>>) = 0 /\ <<>> \in Seq(Blobs) /\ <<>> \in Seq(Messages)
  OBVIOUS
<1>4. \A c \in Clients : Len(pending[c]) <= PendingMax
  BY <1>3 DEF Init
<1> QED
  BY <1>2, <1>3, <1>4 DEF Init, TypeOK, Blobs, NoConn

\* Every step keeps the types.
LEMMA NextTyped == TypeOK /\ [Next]_vars => TypeOK'
<1> SUFFICES ASSUME TypeOK, [Next]_vars PROVE TypeOK'
  OBVIOUS
<1> USE RoomsAssumption DEF RoomsAssumption
<1>1. ASSUME NEW c \in Clients, ClientStep(c) PROVE TypeOK'
  <2>1. ASSUME NEW e \in Edits, Edit(c, e) PROVE TypeOK'
    <3>1. {e} \in Blobs
      BY DEF Blobs
    <3>2. /\ up' \in [Conns -> Seq(Messages)]
          /\ pending' \in [Clients -> Seq(Blobs)]
          /\ \A d \in Clients : Len(pending'[d]) <= PendingMax \/ Len(pending'[d]) = 1
      BY <2>1, <3>1, SendTyped DEF Edit
    <3> QED
      BY <2>1, <3>2 DEF TypeOK, Edit, hubVars, Blobs
  <2>2. ASSUME NEW kind \in {"ready", "snapshot-due"}, Answer(c, kind) PROVE TypeOK'
    <3>1. doc[c] \in Blobs
      BY DEF TypeOK
    <3>2. /\ up' \in [Conns -> Seq(Messages)]
          /\ pending' \in [Clients -> Seq(Blobs)]
          /\ \A d \in Clients : Len(pending'[d]) <= PendingMax \/ Len(pending'[d]) = 1
      BY <2>2, <3>1, SendTyped DEF Answer
    <3> QED
      BY <2>2, <3>2 DEF TypeOK, Answer, hubVars
  <2>3. CASE Connect(c)
    <3>1. PICK k \in Unused :
             /\ ws' = [ws EXCEPT ![c] = k]
             /\ owner' = [owner EXCEPT ![k] = [client |-> c, room |-> room[c]]]
             /\ side' = [side EXCEPT ![k] = "open"]
             /\ up' = [up EXCEPT ![k] = <<Join>> \o [i \in 1..Len(pending[c]) |-> Frame(pending[c][i])]]
      BY <2>3 DEF Connect
    <3>2. k \in Conns
      BY DEF Unused
    <3>3. pending[c] \in Seq(Blobs) /\ Len(pending[c]) \in Nat /\ \A i \in 1..Len(pending[c]) : pending[c][i] \in Blobs
      BY DEF TypeOK
    <3>4. [i \in 1..Len(pending[c]) |-> Frame(pending[c][i])] \in Seq(Messages)
      BY <3>3, MessageTypes
    <3>5. <<Join>> \o [i \in 1..Len(pending[c]) |-> Frame(pending[c][i])] \in Seq(Messages)
      BY <3>4, MessageTypes
    <3>6. up' \in [Conns -> Seq(Messages)]
      BY <3>1, <3>2, <3>5 DEF TypeOK
    <3>7. [client |-> c, room |-> room[c]] \in [client : Clients, room : RoomNames]
      BY DEF TypeOK
    <3>8. pending' \in [Clients -> Seq(Blobs)] /\ \A d \in Clients : Len(pending'[d]) <= PendingMax \/ Len(pending'[d]) = 1
      <4>1. Len(<<>>) = 0 /\ <<>> \in Seq(Blobs)
        OBVIOUS
      <4> QED
        BY <2>3, <4>1 DEF TypeOK, Connect
    <3>9. owner' \in [Conns -> [client : Clients, room : RoomNames]]
      BY <3>1, <3>2, <3>7 DEF TypeOK
    <3> QED
      BY <2>3, <3>1, <3>2, <3>6, <3>8, <3>9 DEF TypeOK, Connect
  <2>4. CASE SnapshotDue(c)
    BY <2>4 DEF TypeOK, SnapshotDue, wireVars, hubVars
  <2>5. CASE Receive(c)
    <3>1. ws[c] \in Conns /\ down[ws[c]] \in Seq(Blobs) /\ down[ws[c]] # <<>>
      BY <2>5 DEF TypeOK, Receive
    <3>2. Head(down[ws[c]]) \in Blobs /\ Tail(down[ws[c]]) \in Seq(Blobs)
      BY <3>1
    <3>3. doc[c] \cup Head(down[ws[c]]) \in Blobs
      BY <3>2 DEF TypeOK, Blobs
    <3>4. doc' \in [Clients -> Blobs] /\ down' \in [Conns -> Seq(Blobs)]
      BY <2>5, <3>1, <3>2, <3>3 DEF TypeOK, Receive
    <3> QED
      BY <2>5, <3>4 DEF TypeOK, Receive, hubVars
  <2>6. CASE Down(c)
    <3>1. ws[c] \in Conns /\ up[ws[c]] \in Seq(Messages)
      BY <2>6 DEF TypeOK, Down
    <3>2. PICK n \in 0..Len(up[ws[c]]) : up' = [up EXCEPT ![ws[c]] = SubSeq(up[ws[c]], 1, n)]
      BY <2>6 DEF Down
    <3>3. SubSeq(up[ws[c]], 1, n) \in Seq(Messages) /\ <<>> \in Seq(Blobs)
      BY <3>1
    <3>4. up' \in [Conns -> Seq(Messages)] /\ down' \in [Conns -> Seq(Blobs)]
      BY <2>6, <3>1, <3>2, <3>3 DEF TypeOK, Down
    <3> QED
      BY <2>6, <3>4 DEF TypeOK, Down, hubVars
  <2>7. CASE Leave(c)
    <3>1. Len(<<>>) = 0 /\ <<>> \in Seq(Blobs)
      OBVIOUS
    <3>2. pending' \in [Clients -> Seq(Blobs)] /\ \A d \in Clients : Len(pending'[d]) <= PendingMax \/ Len(pending'[d]) = 1
      BY <2>7, <3>1 DEF TypeOK, Leave
    <3> QED
      BY <2>7, <3>1, <3>2 DEF TypeOK, Leave, hubVars, Blobs
  <2>8. CASE Return(c)
    BY <2>8 DEF TypeOK, Return, wireVars, hubVars
  <2> QED
    BY <1>1, <2>1, <2>2, <2>3, <2>4, <2>5, <2>6, <2>7, <2>8 DEF ClientStep
<1>2. ASSUME NEW k \in Conns, HubStep(k) PROVE TypeOK'
  <2>0. /\ up[k] \in Seq(Messages) /\ <<>> \in Seq(Blobs) /\ <<>> \in Seq(Messages)
        /\ RoomFor(k) \in RoomNames /\ log[RoomFor(k)] \in Seq(Blobs)
    BY DEF TypeOK, RoomFor
  <2>a. up[k] # <<>> => Tail(up[k]) \in Seq(Messages) /\ Head(up[k]) \in Messages
    BY <2>0
  <2>1. CASE JoinRoom(k)
    <3>1. CASE Enter(k)
      <4>1. up' \in [Conns -> Seq(Messages)] /\ down' \in [Conns -> Seq(Blobs)]
        BY <2>0, <2>a, <2>1, <3>1 DEF Enter, Consume, TypeOK, JoinRoom
      <4>2. sockets' \in [RoomNames -> SUBSET Conns] /\ side' \in [Conns -> {"unused", "open", "joined", "gone"}]
        BY <2>0, <3>1 DEF Enter, TypeOK
      <4>3. rooms' \subseteq RoomNames /\ log' \in [RoomNames -> Seq(Blobs)]
        <5>1. CASE rooms' = rooms \cup {RoomFor(k)} /\ log' = log
          BY <2>0, <5>1 DEF TypeOK
        <5>2. CASE \E q \in Idle : /\ rooms' = (rooms \ {q}) \cup {RoomFor(k)}
                                   /\ log' = [log EXCEPT ![q] = <<>>]
          BY <2>0, <5>2 DEF Idle, TypeOK
        <5>3. CASE rooms' = rooms /\ log' = log
          BY <5>3 DEF TypeOK
        <5> QED
          BY <2>1, <5>1, <5>2, <5>3 DEF JoinRoom
      <4> QED
        BY <2>1, <3>1, <4>1, <4>2, <4>3 DEF JoinRoom, Enter, TypeOK, clientVars
    <3>2. CASE Ended(k) /\ UNCHANGED <<rooms, log, sockets, down>>
      BY <2>0, <2>1, <3>2 DEF JoinRoom, Ended, TypeOK, clientVars
    <3> QED
      BY <2>1, <3>1, <3>2 DEF JoinRoom
  <2>2. CASE SnapshotMarker(k)
    BY <2>0, <2>a, <2>2 DEF SnapshotMarker, Consume, TypeOK, clientVars
  <2>3. CASE Relay(k)
    <3> DEFINE blob == Head(up[k]).blob
               r == RoomFor(k)
    <3>1. blob \in Blobs
      BY <2>a, <2>3 DEF Relay, Messages
    <3>2. Trim(Append(log[r], blob)) \in Seq(Blobs) /\ <<blob>> \in Seq(Blobs)
      <4>2. \A l \in Seq(Blobs) : \A b \in Blobs : Trim(Append(l, b)) \in Seq(Blobs)
        BY CarriedAppend, CarriedTrim
      <4>3. <<blob>> \in Seq(Blobs)
        BY <3>1, CarriedFew
      <4> QED
        BY <2>0, <3>1, <4>2, <4>3
    <3>3. \A j \in Conns : down[j] \in Seq(Blobs) /\ Append(down[j], blob) \in Seq(Blobs)
      BY <3>1 DEF TypeOK
    <3>4. up' \in [Conns -> Seq(Messages)]
      BY <2>0, <2>a, <2>3 DEF Relay, Consume, TypeOK
    <3>5. /\ log' \in [RoomNames -> Seq(Blobs)] /\ snap' \subseteq Conns
          /\ down' \in [Conns -> Seq(Blobs)]
      <4>1. CASE r \notin rooms
        BY <2>3, <4>1 DEF Relay, TypeOK
      <4>2. CASE r \in rooms
        <5>1. /\ log' = [log EXCEPT ![r] = IF k \in snap THEN <<blob>> ELSE Trim(Append(log[r], blob))]
              /\ snap' = snap \ {k}
              /\ down' = [j \in Conns |-> IF j \in sockets[r] \ {k} /\ Reads(j)
                                           THEN Append(down[j], blob) ELSE down[j]]
          BY <2>3, <4>2 DEF Relay
        <5>2. log' \in [RoomNames -> Seq(Blobs)]
          BY <3>2, <5>1 DEF TypeOK
        <5>3. down' \in [Conns -> Seq(Blobs)]
          BY <3>3, <5>1
        <5> QED
          BY <5>1, <5>2, <5>3 DEF TypeOK
      <4> QED
        BY <4>1, <4>2
    <3> QED
      BY <2>3, <3>4, <3>5 DEF Relay, TypeOK, clientVars
  <2>4. CASE ForgetConn(k)
    BY <2>0, <2>4 DEF ForgetConn, Ended, TypeOK, clientVars
  <2> QED
    BY <1>2, <2>1, <2>2, <2>3, <2>4 DEF HubStep
<1>3. CASE Restart
  <2>1. <<>> \in Seq(Blobs) /\ <<>> \in Seq(Messages)
    OBVIOUS
  <2> QED
    BY <1>3, <2>1 DEF Restart, TypeOK, clientVars
<1>4. CASE UNCHANGED vars
  BY <1>4 DEF vars, clientVars, wireVars, hubVars, TypeOK
<1> QED
  BY <1>1, <1>2, <1>3, <1>4 DEF Next

\* Every variable keeps its type, and no pending queue exceeds its limit.
THEOREM TypeCorrect == Spec => []TypeOK
  BY InitTyped, NextTyped, PTL DEF Spec

-----------------------------------------------------------------------------
(* The hub and the clients agree on connections. *)

\* A client's connection is its own; a connection is among a room's sockets exactly
\* when it is in that room, which is then kept; a room that is not kept has no log.
Wired ==
  /\ \A c \in Clients : ws[c] # NoConn => side[ws[c]] # "unused" /\ owner[ws[c]].client = c
  /\ Seated
  /\ \A r \in RoomNames : \A k \in sockets[r] : side[k] = "joined" /\ RoomFor(k) = r
  /\ \A r \in RoomNames : r \notin rooms => log[r] = <<>>

LEMMA InitWired == Init => Wired
  BY DEF Init, Wired, Seated, NoConn

LEMMA NextWired == TypeOK /\ Wired /\ [Next]_vars => Wired'
<1> SUFFICES ASSUME TypeOK, Wired, [Next]_vars PROVE Wired'
  OBVIOUS
<1>0. NoConn \notin Conns
  BY DEF NoConn, Conns
\* Steps that touch neither connections nor rooms.
<1>a. ASSUME UNCHANGED <<ws, owner, side, rooms, log, sockets>> PROVE Wired'
  BY <1>a DEF Wired, Seated, RoomFor
\* Steps that only give up a connection on the client's side.
<1>b. ASSUME NEW c \in Clients, ws' = [ws EXCEPT ![c] = NoConn],
             UNCHANGED <<owner, side, rooms, log, sockets>>
      PROVE  Wired'
  <2>1. \A d \in Clients : ws'[d] # NoConn => ws'[d] = ws[d]
    BY <1>b DEF TypeOK
  <2> QED
    BY <1>b, <2>1 DEF Wired, Seated, RoomFor
<1>1. ASSUME NEW c \in Clients, ClientStep(c) PROVE Wired'
  <2>1. ASSUME NEW e \in Edits, Edit(c, e) PROVE Wired'
    BY <1>a, <2>1 DEF Edit, hubVars
  <2>2. ASSUME NEW kind \in {"ready", "snapshot-due"}, Answer(c, kind) PROVE Wired'
    BY <1>a, <2>2 DEF Answer, hubVars
  <2>3. CASE Connect(c)
    <3>1. PICK k \in Unused :
             /\ ws' = [ws EXCEPT ![c] = k]
             /\ owner' = [owner EXCEPT ![k] = [client |-> c, room |-> room[c]]]
             /\ side' = [side EXCEPT ![k] = "open"]
      BY <2>3 DEF Connect
    <3>2. k \in Conns /\ side[k] = "unused"
      BY DEF Unused
    <3>3. UNCHANGED <<rooms, log, sockets>>
      BY <2>3 DEF Connect
    <3>4. \A d \in Clients : ws'[d] # NoConn => side'[ws'[d]] # "unused" /\ owner'[ws'[d]].client = d
      <4>1. ASSUME NEW d \in Clients, d # c, ws[d] # NoConn
            PROVE side'[ws'[d]] # "unused" /\ owner'[ws'[d]].client = d
        <5>1. ws'[d] = ws[d] /\ ws[d] \in Conns /\ ws[d] # k
          BY <3>1, <3>2, <4>1 DEF TypeOK, Wired
        <5> QED
          BY <3>1, <3>2, <4>1, <5>1 DEF TypeOK, Wired
      <4>2. side'[ws'[c]] # "unused" /\ owner'[ws'[c]].client = c
        BY <3>1, <3>2 DEF TypeOK
      <4> QED
        BY <3>1, <4>1, <4>2 DEF TypeOK
    <3>5. \A j \in Conns : j # k => side'[j] = side[j] /\ RoomFor(j)' = RoomFor(j)
      BY <3>1, <3>2 DEF TypeOK, RoomFor
    <3>6. side'[k] = "open" /\ \A r \in RoomNames : k \notin sockets[r] /\ sockets[r] \subseteq Conns
      BY <3>1, <3>2 DEF TypeOK, Wired
    <3>7. Seated'
      BY <3>3, <3>5, <3>6 DEF Wired, Seated
    <3>8. \A r \in RoomNames : \A j \in sockets'[r] : side'[j] = "joined" /\ RoomFor(j)' = r
      BY <3>3, <3>5, <3>6 DEF Wired
    <3> QED
      BY <3>3, <3>4, <3>7, <3>8 DEF Wired
  <2>4. CASE SnapshotDue(c)
    BY <1>a, <2>4 DEF SnapshotDue, wireVars, hubVars
  <2>5. CASE Receive(c)
    BY <1>a, <2>5 DEF Receive, hubVars
  <2>6. CASE Down(c)
    BY <1>b, <2>6 DEF Down, hubVars
  <2>7. CASE Leave(c)
    BY <1>b, <2>7 DEF Leave, hubVars
  <2>8. CASE Return(c)
    BY <1>a, <2>8 DEF Return, wireVars, hubVars
  <2> QED
    BY <1>1, <2>1, <2>2, <2>3, <2>4, <2>5, <2>6, <2>7, <2>8 DEF ClientStep
<1>2. ASSUME NEW k \in Conns, HubStep(k) PROVE Wired'
  <2>0. /\ RoomFor(k) \in RoomNames /\ \A r \in RoomNames : sockets[r] \subseteq Conns
        /\ \A c \in Clients : ws[c] \in Conns \cup {NoConn}
    BY DEF TypeOK, RoomFor
  <2>1. CASE JoinRoom(k)
    <3>0. UNCHANGED <<ws, owner>> /\ \A j \in Conns : RoomFor(j)' = RoomFor(j)
      BY <2>1 DEF JoinRoom, clientVars, RoomFor
    <3>1. side[k] = "open"
      BY <2>1 DEF JoinRoom
    <3>2. CASE Enter(k)
      <4>1. /\ side' = [side EXCEPT ![k] = "joined"]
            /\ sockets' = [sockets EXCEPT ![RoomFor(k)] = sockets[RoomFor(k)] \cup {k}]
        BY <3>2 DEF Enter
      <4>2. \A c \in Clients : ws'[c] # NoConn => side'[ws'[c]] # "unused" /\ owner'[ws'[c]].client = c
        BY <2>0, <3>0, <4>1 DEF TypeOK, Wired
      <4>3. \A r \in RoomNames : \A j \in sockets'[r] : side'[j] = "joined" /\ RoomFor(j)' = r
        BY <2>0, <3>0, <4>1 DEF TypeOK, Wired
      <4>4. \A j \in Conns : side'[j] = "joined" => j \in sockets'[RoomFor(j)]
        BY <2>0, <3>0, <4>1 DEF TypeOK, Wired, Seated
      <4>5. /\ \A j \in Conns : side'[j] = "joined" => RoomFor(j) \in rooms'
            /\ \A r \in RoomNames : r \notin rooms' => log'[r] = <<>>
        <5>1. CASE rooms' = rooms \cup {RoomFor(k)} /\ log' = log
          <6>1. \A j \in Conns : side'[j] = "joined" => j = k \/ RoomFor(j) \in rooms
            BY <4>1 DEF TypeOK, Wired, Seated
          <6> QED
            BY <5>1, <6>1 DEF Wired
        <5>2. CASE \E q \in Idle : /\ rooms' = (rooms \ {q}) \cup {RoomFor(k)}
                                   /\ log' = [log EXCEPT ![q] = <<>>]
          <6>1. PICK q \in Idle : /\ rooms' = (rooms \ {q}) \cup {RoomFor(k)}
                                  /\ log' = [log EXCEPT ![q] = <<>>]
            BY <5>2
          <6>2. q \in RoomNames /\ sockets[q] = {}
            BY DEF Idle, TypeOK
          <6>3. \A j \in Conns : side'[j] = "joined" => j = k \/ (RoomFor(j) \in rooms /\ RoomFor(j) # q)
            BY <4>1, <6>2 DEF TypeOK, Wired, Seated
          <6>4. \A r \in RoomNames : r \notin rooms' => log'[r] = <<>>
            BY <6>1, <6>2 DEF Wired, TypeOK
          <6> QED
            BY <6>1, <6>3, <6>4
        <5>3. CASE Ended(k)
          BY <4>1, <5>3 DEF Ended, TypeOK
        <5> QED
          BY <2>1, <5>1, <5>2, <5>3 DEF JoinRoom
      <4> QED
        BY <3>0, <4>2, <4>3, <4>4, <4>5 DEF Wired, Seated
    <3>3. CASE Ended(k) /\ UNCHANGED <<rooms, log, sockets, down>>
      <4>1. side' = [side EXCEPT ![k] = "gone"]
        BY <3>3 DEF Ended
      <4>2. \A r \in RoomNames : k \notin sockets[r]
        BY <3>1 DEF Wired
      <4>3. \A j \in Conns : side'[j] = IF j = k THEN "gone" ELSE side[j]
        BY <4>1 DEF TypeOK
      <4>4. \A c \in Clients : ws'[c] # NoConn => side'[ws'[c]] # "unused" /\ owner'[ws'[c]].client = c
        BY <2>0, <3>0, <4>3 DEF Wired
      <4>5. \A r \in RoomNames : \A j \in sockets'[r] : side'[j] = "joined" /\ RoomFor(j)' = r
        BY <2>0, <3>0, <3>3, <4>2, <4>3 DEF Wired
      <4>6. Seated'
        BY <3>0, <3>3, <4>3 DEF Wired, Seated
      <4> QED
        BY <3>3, <4>4, <4>5, <4>6 DEF Wired
    <3> QED
      BY <2>1, <3>2, <3>3 DEF JoinRoom
  <2>2. CASE SnapshotMarker(k)
    BY <1>a, <2>2 DEF SnapshotMarker, clientVars
  <2>3. CASE Relay(k)
    <3>1. UNCHANGED <<ws, owner, side, rooms, sockets>>
      BY <2>3 DEF Relay, clientVars
    <3>2. \A r \in RoomNames : r \notin rooms => log'[r] = log[r]
      <4>1. CASE RoomFor(k) \notin rooms
        BY <2>3, <4>1 DEF Relay
      <4>2. CASE RoomFor(k) \in rooms
        <5>1. PICK l : log' = [log EXCEPT ![RoomFor(k)] = l]
          BY <2>3, <4>2 DEF Relay
        <5> QED
          BY <4>2, <5>1 DEF TypeOK
      <4> QED
        BY <4>1, <4>2
    <3> QED
      BY <3>1, <3>2 DEF Wired, Seated, RoomFor
  <2>4. CASE ForgetConn(k)
    <3>1. /\ UNCHANGED <<ws, owner, log>> /\ side' = [side EXCEPT ![k] = "gone"]
          /\ sockets' = [sockets EXCEPT ![RoomFor(k)] = sockets[RoomFor(k)] \ {k}]
          /\ rooms' = IF sockets[RoomFor(k)] \ {k} = {} /\ log[RoomFor(k)] = <<>>
                      THEN rooms \ {RoomFor(k)} ELSE rooms
      BY <2>4 DEF ForgetConn, Ended, clientVars
    <3>2. \A j \in Conns : side'[j] = (IF j = k THEN "gone" ELSE side[j]) /\ RoomFor(j)' = RoomFor(j)
      BY <3>1 DEF TypeOK, RoomFor
    <3>3. \A r \in RoomNames : sockets'[r] = IF r = RoomFor(k) THEN sockets[r] \ {k} ELSE sockets[r]
      BY <2>0, <3>1 DEF TypeOK
    <3>4. \A c \in Clients : ws'[c] # NoConn => side'[ws'[c]] # "unused" /\ owner'[ws'[c]].client = c
      BY <2>0, <3>1, <3>2 DEF Wired
    <3>a. \A r \in RoomNames : k \in sockets[r] => r = RoomFor(k)
      BY DEF Wired
    <3>5. \A r \in RoomNames : \A j \in sockets'[r] : j \in sockets[r] /\ j # k
      BY <3>3, <3>a
    <3>6. \A r \in RoomNames : \A j \in sockets'[r] : side'[j] = "joined" /\ RoomFor(j)' = r
      BY <2>0, <3>2, <3>5 DEF Wired
    <3>7. ASSUME NEW j \in Conns, side'[j] = "joined" PROVE RoomFor(j)' \in rooms' /\ j \in sockets'[RoomFor(j)']
      <4>1. j # k /\ side[j] = "joined"
        BY <3>2, <3>7
      <4>2. RoomFor(j) \in rooms /\ j \in sockets[RoomFor(j)] /\ RoomFor(j) \in RoomNames
        BY <4>1 DEF Wired, Seated, TypeOK, RoomFor
      <4>3. RoomFor(j) = RoomFor(k) => sockets[RoomFor(k)] \ {k} # {}
        BY <4>1, <4>2
      <4>4. RoomFor(j) \in rooms' /\ j \in sockets'[RoomFor(j)]
        BY <3>1, <3>3, <4>1, <4>2, <4>3
      <4> QED
        BY <3>2, <4>4
    <3>8. Seated'
      BY <3>7 DEF Seated
    <3>9. \A r \in RoomNames : r \notin rooms' => log'[r] = <<>>
      BY <3>1 DEF Wired
    <3> QED
      BY <3>4, <3>6, <3>8, <3>9 DEF Wired
  <2> QED
    BY <1>2, <2>1, <2>2, <2>3, <2>4 DEF HubStep
<1>3. CASE Restart
  <2>1. UNCHANGED <<ws, owner>> /\ \A j \in Conns : side'[j] = IF side[j] = "unused" THEN "unused" ELSE "gone"
    BY <1>3 DEF Restart, clientVars
  <2>2. /\ \A r \in RoomNames : sockets'[r] = {} /\ log'[r] = <<>>
        /\ \A c \in Clients : ws[c] # NoConn => ws[c] \in Conns
    BY <1>3 DEF Restart, TypeOK
  <2> QED
    BY <2>1, <2>2 DEF Wired, Seated
<1>4. CASE UNCHANGED vars
  BY <1>a, <1>4 DEF vars, clientVars, wireVars, hubVars
<1> QED
  BY <1>1, <1>2, <1>3, <1>4 DEF Next

\* A connection in a room is among the room's sockets, and the room is kept.
THEOREM NobodyUnseated == Spec => []Seated
<1>1. Init => TypeOK /\ Wired
  BY InitTyped, InitWired
<1>2. TypeOK /\ Wired /\ [Next]_vars => (TypeOK /\ Wired)'
  BY NextTyped, NextWired
<1>3. TypeOK /\ Wired => Seated
  BY DEF Wired
<1> QED
  BY <1>1, <1>2, <1>3, PTL DEF Spec

-----------------------------------------------------------------------------
(* Nobody in a room misses anything. *)

\* What a client has sent, or will, is part of its state.
Own ==
  /\ \A c \in Clients : \A i \in 1..Len(pending[c]) : pending[c][i] \subseteq doc[c]
  /\ \A k \in Conns : Reads(k) =>
       \A i \in 1..Len(up[k]) : up[k][i].blob \subseteq doc[owner[k].client]

LEMMA InitOwn == Init => Own
<1> SUFFICES ASSUME Init PROVE Own
  OBVIOUS
<1>1. Len(<<>>) = 0
  OBVIOUS
<1>2. (\A c \in Clients : Len(pending[c]) = 0) /\ (\A k \in Conns : Len(up[k]) = 0)
  BY <1>1 DEF Init
<1> QED
  BY <1>2 DEF Own

\* Sending a part of the state that the client then has.
LEMMA SendOwn ==
  ASSUME TypeOK, Wired, Own, NEW c \in Clients, NEW b \in Blobs, NEW snapshot \in BOOLEAN,
         Send(c, b, snapshot),
         doc' \in [Clients -> Blobs], \A d \in Clients : doc[d] \subseteq doc'[d], b \subseteq doc'[c],
         UNCHANGED <<ws, owner, side>>
  PROVE  Own'
<1>0. /\ \A d \in Clients : pending[d] \in Seq(Blobs)
      /\ \A k \in Conns : up[k] \in Seq(Messages) /\ owner[k].client \in Clients
      /\ \A d \in Clients : \A i \in 1..Len(pending[d]) : pending[d][i] \subseteq doc'[d]
      /\ \A k \in Conns : Reads(k) =>
           \A i \in 1..Len(up[k]) : up[k][i].blob \subseteq doc'[owner[k].client]
      /\ \A k \in Conns : Reads(k)' = Reads(k)
  BY DEF TypeOK, Own, Reads
<1>1. CASE ws[c] = NoConn
  <2>1. PICK q : /\ pending' = [pending EXCEPT ![c] = q] /\ up' = up
                 /\ q = <<b>> \/ q = pending[c] \/ q = Append(pending[c], b)
    BY <1>1 DEF Send
  <2>2. \A i \in 1..Len(q) : q[i] \subseteq doc'[c]
    <3>1. CASE q = <<b>>
      BY <3>1
    <3>2. CASE q = pending[c]
      BY <1>0, <3>2
    <3>3. CASE q = Append(pending[c], b)
      <4>1. ASSUME NEW i \in 1..Len(q) PROVE q[i] \subseteq doc'[c]
        <5>1. pending[c] \in Seq(Blobs) /\ Len(q) = Len(pending[c]) + 1 /\ Len(pending[c]) \in Nat
          BY <1>0, <3>3
        <5>2. CASE i = Len(pending[c]) + 1
          BY <3>3, <5>1, <5>2
        <5>3. CASE i # Len(pending[c]) + 1
          <6>1. i \in 1..Len(pending[c]) /\ q[i] = pending[c][i]
            BY <3>3, <5>1, <5>3
          <6> QED
            BY <1>0, <6>1
        <5> QED
          BY <5>2, <5>3
      <4> QED
        BY <4>1
    <3> QED
      BY <2>1, <3>1, <3>2, <3>3
  <2>3. \A d \in Clients : pending'[d] = IF d = c THEN q ELSE pending[d]
    BY <2>1 DEF TypeOK
  <2> QED
    BY <1>0, <2>1, <2>2, <2>3 DEF Own
<1>2. CASE ws[c] # NoConn
  <2> DEFINE k == ws[c]
             tail == (IF snapshot THEN <<Marker>> ELSE <<>>) \o <<Frame(b)>>
  <2>1. k \in Conns /\ owner[k].client = c /\ Reads(k)
    BY <1>2 DEF TypeOK, Wired, Reads
  <2>2. /\ up' = [up EXCEPT ![k] = up[k] \o (IF snapshot THEN <<Marker>> ELSE <<>>) \o <<Frame(b)>>]
        /\ pending' = pending
    BY <1>2 DEF Send
  <2>3. ASSUME NEW i \in 1..Len(up'[k]) PROVE up'[k][i].blob \subseteq doc'[c]
    <3>1. up[k] \in Seq(Messages) /\ Len(up[k]) \in Nat
      BY <1>0, <2>1
    <3>2. Marker.blob = {} /\ Frame(b).blob = b
      BY DEF Marker, Frame
    <3>3. up'[k] = up[k] \o (IF snapshot THEN <<Marker>> ELSE <<>>) \o <<Frame(b)>>
      BY <2>1, <2>2 DEF TypeOK
    <3>4. up'[k][i] = Marker \/ up'[k][i] = Frame(b) \/ (i \in 1..Len(up[k]) /\ up'[k][i] = up[k][i])
      <4>1. CASE snapshot
        <5>1. up'[k] = up[k] \o <<Marker>> \o <<Frame(b)>>
          BY <3>3, <4>1
        <5> HIDE DEF k
        <5> QED
          BY <3>1, <5>1
      <4>2. CASE ~snapshot
        <5>1. up'[k] = up[k] \o <<>> \o <<Frame(b)>>
          BY <3>3, <4>2
        <5> HIDE DEF k
        <5> QED
          BY <3>1, <5>1
      <4> QED
        BY <4>1, <4>2
    <3>5. i \in 1..Len(up[k]) => up[k][i].blob \subseteq doc'[c]
      BY <1>0, <2>1
    <3> QED
      BY <3>2, <3>4, <3>5
  <2>4. \A j \in Conns : j # k => up'[j] = up[j]
    BY <2>1, <2>2 DEF TypeOK
  <2> QED
    BY <1>0, <2>1, <2>2, <2>3, <2>4 DEF Own
<1> QED
  BY <1>1, <1>2

\* A step of the hub on one connection, which reads a frame or stops reading.
LEMMA HubOwn ==
  ASSUME TypeOK, Own, NEW k \in Conns,
         up' = [up EXCEPT ![k] = <<>>] \/ (up[k] # <<>> /\ up' = [up EXCEPT ![k] = Tail(up[k])]),
         UNCHANGED clientVars, owner' = owner,
         \A j \in Conns : side[j] = "unused" => side'[j] = "unused"
  PROVE  Own'
<1>1. /\ UNCHANGED <<ws, doc, pending>> /\ up[k] \in Seq(Messages)
      /\ \A j \in Conns : Reads(j)' => Reads(j)
  BY DEF clientVars, Reads, TypeOK
<1>2. \A j \in Conns : j # k => up'[j] = up[j]
  BY DEF TypeOK
<1>3. ASSUME NEW i \in 1..Len(up'[k]) PROVE \E n \in 1..Len(up[k]) : up'[k][i] = up[k][n]
  <2>1. CASE up' = [up EXCEPT ![k] = <<>>]
    <3>1. up'[k] = <<>>
      BY <2>1 DEF TypeOK
    <3> QED
      BY <1>3, <3>1
  <2>2. CASE up[k] # <<>> /\ up' = [up EXCEPT ![k] = Tail(up[k])]
    <3>1. up'[k] = Tail(up[k])
      BY <2>2 DEF TypeOK
    <3>2. /\ Len(Tail(up[k])) = Len(up[k]) - 1 /\ Len(up[k]) \in Nat
          /\ \A n \in 1..(Len(up[k]) - 1) : Tail(up[k])[n] = up[k][n + 1]
      BY <1>1, <2>2
    <3>3. i \in 1..(Len(up[k]) - 1)
      BY <1>3, <3>1, <3>2
    <3>4. i + 1 \in 1..Len(up[k]) /\ up'[k][i] = up[k][i + 1]
      BY <3>1, <3>2, <3>3
    <3> QED
      BY <3>4
  <2> QED
    BY <2>1, <2>2
<1> QED
  BY <1>1, <1>2, <1>3 DEF Own

LEMMA NextOwn == TypeOK /\ Wired /\ Own /\ [Next]_vars => Own'
<1> SUFFICES ASSUME TypeOK, Wired, Own, [Next]_vars PROVE Own'
  OBVIOUS
<1>0. TypeOK'
  BY NextTyped
<1>b. NoConn \notin Conns
  BY DEF NoConn, Conns
<1>1. ASSUME NEW c \in Clients, ClientStep(c) PROVE Own'
  <2>1. ASSUME NEW e \in Edits, Edit(c, e) PROVE Own'
    <3>1. {e} \in Blobs /\ FALSE \in BOOLEAN
      BY DEF Blobs
    <3>2. /\ Send(c, {e}, FALSE) /\ UNCHANGED <<ws, owner, side>>
          /\ doc' \in [Clients -> Blobs]
          /\ \A d \in Clients : doc[d] \subseteq doc'[d]
          /\ {e} \subseteq doc'[c]
      BY <1>0, <2>1 DEF Edit, hubVars, TypeOK
    <3> QED
      BY <3>1, <3>2, SendOwn
  <2>2. ASSUME NEW kind \in {"ready", "snapshot-due"}, Answer(c, kind) PROVE Own'
    <3>1. doc[c] \in Blobs /\ (kind = "snapshot-due") \in BOOLEAN
      BY DEF TypeOK
    <3>2. /\ Send(c, doc[c], kind = "snapshot-due") /\ UNCHANGED <<ws, owner, side, doc>>
          /\ doc' \in [Clients -> Blobs]
          /\ \A d \in Clients : doc[d] \subseteq doc'[d]
          /\ doc[c] \subseteq doc'[c]
      BY <1>0, <2>2 DEF Answer, hubVars, TypeOK
    <3> QED
      BY <3>1, <3>2, SendOwn
  <2>3. CASE Connect(c)
    <3>1. PICK k \in Unused :
             /\ ws' = [ws EXCEPT ![c] = k]
             /\ owner' = [owner EXCEPT ![k] = [client |-> c, room |-> room[c]]]
             /\ side' = [side EXCEPT ![k] = "open"]
             /\ up' = [up EXCEPT ![k] = <<Join>> \o [i \in 1..Len(pending[c]) |-> Frame(pending[c][i])]]
      BY <2>3 DEF Connect
    <3>2. k \in Conns /\ side[k] = "unused" /\ doc' = doc /\ pending' = [pending EXCEPT ![c] = <<>>]
      BY <2>3 DEF Unused, Connect
    <3>3. \A d \in Clients : \A i \in 1..Len(pending'[d]) : pending'[d][i] \subseteq doc'[d]
      <4>1. Len(<<>>) = 0 /\ pending'[c] = <<>> /\ \A d \in Clients : d # c => pending'[d] = pending[d]
        BY <3>2 DEF TypeOK
      <4> QED
        BY <3>2, <4>1 DEF Own
    <3>4. ASSUME NEW i \in 1..Len(up'[k]) PROVE up'[k][i].blob \subseteq doc[c]
      <4> DEFINE n == Len(pending[c])
                 held == [j \in 1..n |-> Frame(pending[c][j])]
      <4>1. n \in Nat /\ \A j \in 1..n : pending[c][j] \in Blobs
        BY DEF TypeOK
      <4>2. held \in Seq(Messages) /\ Len(held) = n /\ \A j \in 1..n : held[j] = Frame(pending[c][j])
        BY <4>1, MessageTypes
      <4> HIDE DEF held
      <4>3. up'[k] = <<Join>> \o held
        BY <3>1, <3>2 DEF TypeOK, held
      <4>4. up'[k][i] = Join \/ \E j \in 1..n : up'[k][i] = held[j]
        <5>1. CASE i = 1
          BY <4>1, <4>2, <4>3, <5>1
        <5>2. CASE i # 1
          <6> HIDE DEF n
          <6>1. i - 1 \in 1..n /\ up'[k][i] = held[i - 1]
            BY <3>4, <4>1, <4>2, <4>3, <5>2
          <6> QED
            BY <6>1
        <5> QED
          BY <5>1, <5>2
      <4>5. Join.blob = {} /\ \A b : Frame(b).blob = b
        BY DEF Join, Frame
      <4> QED
        BY <4>2, <4>4, <4>5 DEF Own
    <3>5. ASSUME NEW j \in Conns, j # k, Reads(j)' PROVE Reads(j) /\ up'[j] = up[j] /\ owner'[j] = owner[j]
      <4>1. side'[j] = side[j] /\ up'[j] = up[j] /\ owner'[j] = owner[j]
        BY <3>1, <3>2, <3>5 DEF TypeOK
      <4>2. owner[j].client \in Clients /\ ws'[owner[j].client] = j
        BY <3>5, <4>1 DEF Reads, TypeOK
      <4>3. owner[j].client # c
        BY <3>1, <3>5, <4>2 DEF TypeOK
      <4> QED
        BY <3>1, <3>5, <4>1, <4>2, <4>3 DEF Reads, TypeOK
    <3>6. owner'[k].client = c
      BY <3>1, <3>2 DEF TypeOK
    <3> QED
      BY <3>2, <3>3, <3>4, <3>5, <3>6 DEF Own
  <2>4. CASE SnapshotDue(c)
    BY <2>4 DEF SnapshotDue, wireVars, hubVars, Own, Reads
  <2>5. CASE Receive(c)
    <3>1. /\ UNCHANGED <<ws, owner, side, up, pending>>
          /\ \A d \in Clients : doc[d] \subseteq doc'[d]
      BY <2>5 DEF Receive, hubVars, TypeOK
    <3>2. \A k \in Conns : owner[k].client \in Clients
      BY DEF TypeOK
    <3> QED
      BY <3>1, <3>2 DEF Own, Reads
  <2>6. CASE Down(c)
    <3>1. /\ UNCHANGED <<doc, pending, owner, side>> /\ ws' = [ws EXCEPT ![c] = NoConn]
          /\ ws[c] \in Conns
          /\ \E n \in 0..Len(up[ws[c]]) : up' = [up EXCEPT ![ws[c]] = SubSeq(up[ws[c]], 1, n)]
      BY <2>6 DEF Down, hubVars, TypeOK
    <3>2. ASSUME NEW j \in Conns, Reads(j)' PROVE Reads(j) /\ j # ws[c]
      BY <1>b, <3>1, <3>2 DEF Reads, TypeOK, Wired, NoConn, Conns
    <3>3. \A j \in Conns : j # ws[c] => up'[j] = up[j]
      BY <3>1 DEF TypeOK
    <3> QED
      BY <3>1, <3>2, <3>3 DEF Own
  <2>7. CASE Leave(c)
    <3>1. /\ UNCHANGED <<owner, side, up>> /\ ws' = [ws EXCEPT ![c] = NoConn]
          /\ \A d \in Clients : d # c => doc'[d] = doc[d] /\ pending'[d] = pending[d]
          /\ pending'[c] = <<>>
      BY <2>7 DEF Leave, hubVars, TypeOK
    <3>2. ASSUME NEW j \in Conns, Reads(j)' PROVE Reads(j) /\ owner[j].client \in Clients \ {c}
      BY <1>b, <3>1, <3>2 DEF Reads, TypeOK
    <3>3. Len(<<>>) = 0
      OBVIOUS
    <3> QED
      BY <3>1, <3>2, <3>3 DEF Own
  <2>8. CASE Return(c)
    BY <2>8 DEF Return, wireVars, hubVars, Own, Reads
  <2> QED
    BY <1>1, <2>1, <2>2, <2>3, <2>4, <2>5, <2>6, <2>7, <2>8 DEF ClientStep
<1>2. ASSUME NEW k \in Conns, HubStep(k) PROVE Own'
  <2>1. CASE JoinRoom(k)
    <3>1. side[k] = "open" /\ up[k] # <<>> /\ UNCHANGED clientVars /\ owner' = owner
      BY <2>1 DEF JoinRoom
    <3>2. CASE Enter(k)
      BY <3>1, <3>2, HubOwn DEF Enter, Consume, TypeOK
    <3>3. CASE Ended(k)
      BY <3>1, <3>3, HubOwn DEF Ended, TypeOK
    <3> QED
      BY <2>1, <3>2, <3>3 DEF JoinRoom
  <2>2. CASE SnapshotMarker(k)
    BY <2>2, HubOwn DEF SnapshotMarker, Consume
  <2>3. CASE Relay(k)
    BY <2>3, HubOwn DEF Relay, Consume
  <2>4. CASE ForgetConn(k)
    BY <2>4, HubOwn DEF ForgetConn, Ended, TypeOK
  <2> QED
    BY <1>2, <2>1, <2>2, <2>3, <2>4 DEF HubStep
<1>3. CASE Restart
  <2>1. /\ UNCHANGED <<doc, pending>> /\ Len(<<>>) = 0
        /\ \A k \in Conns : up'[k] = <<>>
    BY <1>3 DEF Restart, clientVars
  <2> QED
    BY <2>1 DEF Own
<1>4. CASE UNCHANGED vars
  BY <1>4 DEF vars, clientVars, wireVars, hubVars, Own, Reads
<1> QED
  BY <1>1, <1>2, <1>3, <1>4 DEF Next

\* What NoGap says of one connection.
NoGapAt(j) ==
  side[j] = "joined" /\ Reads(j) =>
    Carried(log[RoomFor(j)]) \subseteq doc[owner[j].client] \cup Carried(down[j])

\* A connection that still is in its room, whose log has not grown while its client
\* has kept what it had, misses nothing.
LEMMA NoGapKept ==
  ASSUME NoGap, NEW j \in Conns,
         (side[j] = "joined" /\ Reads(j))' =>
           /\ side[j] = "joined" /\ Reads(j) /\ owner'[j] = owner[j]
           /\ Carried(log'[RoomFor(j)]) \subseteq Carried(log[RoomFor(j)])
           /\ doc[owner[j].client] \cup Carried(down[j])
                \subseteq doc'[owner[j].client] \cup Carried(down'[j])
  PROVE  NoGapAt(j)'
<1> SUFFICES ASSUME (side[j] = "joined" /\ Reads(j))' PROVE (Carried(log[RoomFor(j)]) \subseteq doc[owner[j].client] \cup Carried(down[j]))'
  BY DEF NoGapAt
<1>1. RoomFor(j)' = RoomFor(j) /\ owner'[j].client = owner[j].client
  BY DEF RoomFor
<1>2. Carried(log[RoomFor(j)]) \subseteq doc[owner[j].client] \cup Carried(down[j])
  BY DEF NoGap
<1>3. /\ Carried(log[RoomFor(j)])' = Carried(log'[RoomFor(j)])
      /\ Carried(down[j])' = Carried(down'[j])
  BY <1>1 DEF Carried
<1> QED
  BY <1>1, <1>2, <1>3

LEMMA NextNoGap == TypeOK /\ Wired /\ Own /\ NoGap /\ [Next]_vars => NoGap'
<1> SUFFICES ASSUME TypeOK, Wired, Own, NoGap, [Next]_vars, NEW j \in Conns PROVE NoGapAt(j)'
  BY DEF NoGapAt, NoGap, Conns, Reads, RoomFor, Carried
<1> DEFINE d == owner[j].client
<1>0. /\ d \in Clients /\ RoomFor(j) \in RoomNames /\ log[RoomFor(j)] \in Seq(Blobs)
      /\ down[j] \in Seq(Blobs) /\ NoConn \notin Conns
  <2>1. owner[j] \in [client : Clients, room : RoomNames] /\ down[j] \in Seq(Blobs)
    BY DEF TypeOK
  <2>2. d \in Clients /\ RoomFor(j) \in RoomNames
    BY <2>1 DEF RoomFor
  <2>3. log[RoomFor(j)] \in Seq(Blobs)
    BY <2>2 DEF TypeOK
  <2>4. NoConn \notin Conns
    BY DEF NoConn, Conns
  <2> QED
    BY <2>1, <2>2, <2>3, <2>4
\* Steps after which the connection stands as before, with the same log.
<1>a. ASSUME UNCHANGED <<side, log, owner>>, ws'[d] = j => ws[d] = j,
             ws[d] = j /\ ws'[d] = j => doc[d] \subseteq doc'[d] /\ down'[j] = down[j]
      PROVE  NoGapAt(j)'
  <2>1. (side[j] = "joined" /\ Reads(j))' =>
           /\ side[j] = "joined" /\ Reads(j) /\ ws[d] = j /\ ws'[d] = j /\ owner'[j] = owner[j]
    BY <1>a DEF Reads
  <2> QED
    BY <1>a, <2>1, NoGapKept
<1>1. ASSUME NEW c \in Clients, ClientStep(c) PROVE NoGapAt(j)'
  <2>1. ASSUME NEW e \in Edits, Edit(c, e) PROVE NoGapAt(j)'
    <3>1. UNCHANGED <<side, log, owner, ws, down>> /\ doc[d] \subseteq doc'[d]
      BY <1>0, <2>1 DEF Edit, hubVars, TypeOK
    <3> QED
      BY <1>a, <3>1
  <2>2. ASSUME NEW kind \in {"ready", "snapshot-due"}, Answer(c, kind) PROVE NoGapAt(j)'
    BY <1>a, <2>2 DEF Answer, hubVars
  <2>3. CASE Connect(c)
    <3>1. PICK k \in Unused :
             /\ ws' = [ws EXCEPT ![c] = k]
             /\ owner' = [owner EXCEPT ![k] = [client |-> c, room |-> room[c]]]
             /\ side' = [side EXCEPT ![k] = "open"]
      BY <2>3 DEF Connect
    <3>2. k \in Conns /\ side[k] = "unused" /\ UNCHANGED <<doc, down, log>>
      BY <2>3 DEF Unused, Connect
    <3>3. CASE j = k
      <4>1. side'[j] = "open"
        BY <3>1, <3>2, <3>3 DEF TypeOK
      <4> QED
        BY <4>1 DEF NoGapAt
    <3>4. CASE j # k
      <4>1. side'[j] = side[j] /\ owner'[j] = owner[j]
        BY <3>1, <3>2, <3>4 DEF TypeOK
      <4>2. Reads(j)' => Reads(j)
        <5>1. ws'[d] = j => ws[d] = j
          BY <1>0, <3>1, <3>4 DEF TypeOK
        <5> QED
          BY <4>1, <5>1 DEF Reads
      <4> QED
        BY <3>2, <4>1, <4>2, NoGapKept
    <3> QED
      BY <3>3, <3>4
  <2>4. CASE SnapshotDue(c)
    BY <1>a, <2>4 DEF SnapshotDue, wireVars, hubVars
  <2>5. CASE Receive(c)
    <3>1. /\ UNCHANGED <<side, log, owner, ws>> /\ ws[c] \in Conns /\ down[ws[c]] # <<>>
          /\ doc' = [doc EXCEPT ![c] = doc[c] \cup Head(down[ws[c]])]
          /\ down' = [down EXCEPT ![ws[c]] = Tail(down[ws[c]])]
      BY <2>5 DEF Receive, hubVars, TypeOK
    <3>2. CASE j # ws[c]
      <4>1. down'[j] = down[j] /\ doc[d] \subseteq doc'[d]
        BY <1>0, <3>1, <3>2 DEF TypeOK
      <4> QED
        BY <1>a, <3>1, <4>1
    <3>3. CASE j = ws[c]
      <4>1. d = c
        BY <3>1, <3>3, <1>0 DEF Wired
      <4>2. doc'[d] = doc[d] \cup Head(down[j]) /\ down'[j] = Tail(down[j])
        BY <3>1, <3>3, <4>1 DEF TypeOK
      <4>3. Carried(down[j]) \subseteq Head(down[j]) \cup Carried(Tail(down[j]))
        BY <1>0, <3>1, <3>3, CarriedTail
      <4>4. doc[d] \cup Carried(down[j]) \subseteq doc'[d] \cup Carried(down'[j])
        BY <4>2, <4>3
      <4>5. Reads(j)' => Reads(j)
        BY <3>1 DEF Reads
      <4> QED
        BY <3>1, <4>4, <4>5, NoGapKept
    <3> QED
      BY <3>2, <3>3
  <2>6. CASE Down(c)
    <3>1. /\ UNCHANGED <<side, log, owner, doc>> /\ ws' = [ws EXCEPT ![c] = NoConn]
          /\ ws[c] \in Conns /\ down' = [down EXCEPT ![ws[c]] = <<>>]
      BY <2>6 DEF Down, hubVars, TypeOK
    <3>2. ws'[d] = j => d # c /\ ws[d] = j /\ j # ws[c]
      BY <1>0, <3>1 DEF TypeOK, Wired
    <3>3. j # ws[c] => down'[j] = down[j]
      BY <3>1 DEF TypeOK
    <3> QED
      BY <1>a, <3>1, <3>2, <3>3
  <2>7. CASE Leave(c)
    <3>1. /\ UNCHANGED <<side, log, owner>> /\ ws' = [ws EXCEPT ![c] = NoConn]
          /\ ws[c] \in Conns /\ down' = [down EXCEPT ![ws[c]] = <<>>]
          /\ d # c => doc'[d] = doc[d]
      BY <1>0, <2>7 DEF Leave, hubVars, TypeOK
    <3>2. ws'[d] = j => d # c /\ ws[d] = j /\ j # ws[c]
      BY <1>0, <3>1 DEF TypeOK, Wired
    <3>3. j # ws[c] => down'[j] = down[j]
      BY <3>1 DEF TypeOK
    <3> QED
      BY <1>a, <3>1, <3>2, <3>3
  <2>8. CASE Return(c)
    BY <1>a, <2>8 DEF Return, wireVars, hubVars
  <2> QED
    BY <1>1, <2>1, <2>2, <2>3, <2>4, <2>5, <2>6, <2>7, <2>8 DEF ClientStep
<1>2. ASSUME NEW k \in Conns, HubStep(k) PROVE NoGapAt(j)'
  <2>1. CASE JoinRoom(k)
    <3>1. UNCHANGED <<ws, doc, owner>> /\ side[k] = "open"
      BY <2>1 DEF JoinRoom, clientVars
    <3>2. Carried(log'[RoomFor(j)]) \subseteq Carried(log[RoomFor(j)])
      <4>1. CASE log' = log
        BY <4>1
      <4>2. CASE \E q \in Idle : log' = [log EXCEPT ![q] = <<>>]
        <5>1. log'[RoomFor(j)] = log[RoomFor(j)] \/ log'[RoomFor(j)] = <<>>
          BY <1>0, <4>2 DEF TypeOK, Idle
        <5>2. Carried(<<>>) = {}
          BY CarriedFew DEF Blobs
        <5> QED
          BY <5>1, <5>2
      <4> QED
        BY <2>1, <4>1, <4>2 DEF JoinRoom
    <3>3. CASE Enter(k) /\ j = k
      <4>1. side'[j] = "joined" /\ down' = IF Reads(j) THEN [down EXCEPT ![j] = log[RoomFor(j)]] ELSE down
        BY <3>3 DEF Enter, TypeOK
      <4>2. Reads(j)' => Reads(j) /\ RoomFor(j)' = RoomFor(j)
        BY <3>1, <3>3 DEF Reads, RoomFor
      <4>3. Reads(j) => down'[j] = log[RoomFor(j)]
        BY <4>1 DEF TypeOK
      <4>4. Reads(j)' => Carried(log'[RoomFor(j)]) \subseteq Carried(down'[j])
        BY <3>2, <4>2, <4>3
      <4>5. Reads(j)' => (Carried(log[RoomFor(j)]) \subseteq doc[owner[j].client] \cup Carried(down[j]))'
        BY <4>2, <4>4 DEF Carried
      <4> QED
        BY <4>5 DEF NoGapAt
    <3>4. CASE Enter(k) /\ j # k
      <4>1. side'[j] = side[j] /\ down'[j] = down[j]
        BY <3>4 DEF Enter, TypeOK
      <4>2. Reads(j)' => Reads(j)
        BY <3>1, <4>1 DEF Reads
      <4> QED
        BY <3>1, <3>2, <4>1, <4>2, NoGapKept
    <3>5. CASE Ended(k) /\ UNCHANGED <<rooms, log, sockets, down>>
      <4>1. side'[j] = IF j = k THEN "gone" ELSE side[j]
        BY <3>5 DEF Ended, TypeOK
      <4>2. side'[j] = "joined" /\ Reads(j)' => side[j] = "joined" /\ Reads(j)
        BY <3>1, <4>1 DEF Reads
      <4> QED
        BY <3>1, <3>5, <4>2, NoGapKept
    <3> QED
      BY <2>1, <3>3, <3>4, <3>5 DEF JoinRoom
  <2>2. CASE SnapshotMarker(k)
    BY <1>a, <2>2 DEF SnapshotMarker, clientVars
  <2>3. CASE Relay(k)
    <3> DEFINE blob == Head(up[k]).blob
               r == RoomFor(k)
    <3>1. /\ side[k] = "joined" /\ UNCHANGED <<ws, doc, owner, side>> /\ up[k] # <<>>
          /\ up[k] \in Seq(Messages) /\ r \in RoomNames
      BY <2>3 DEF Relay, clientVars, TypeOK, RoomFor
    <3>2. blob \in Blobs /\ blob = up[k][1].blob /\ 1 \in 1..Len(up[k])
      <4>1. 1 \in 1..Len(up[k]) /\ up[k][1] = Head(up[k]) /\ Head(up[k]) \in Messages
        BY <3>1
      <4> QED
        BY <4>1 DEF Messages
    <3>3. r \in rooms
      BY <3>1 DEF Wired, Seated
    <3>4. /\ log' = [log EXCEPT ![r] = IF k \in snap THEN <<blob>> ELSE Trim(Append(log[r], blob))]
          /\ down' = [i \in Conns |-> IF i \in sockets[r] \ {k} /\ Reads(i)
                                       THEN Append(down[i], blob) ELSE down[i]]
      BY <2>3, <3>3 DEF Relay
    <3> HIDE DEF blob, r
    <3>5. Carried(log'[r]) \subseteq Carried(log[r]) \cup blob
      <4>1. log[r] \in Seq(Blobs)
        BY <3>1 DEF TypeOK
      <4>2. /\ Append(log[r], blob) \in Seq(Blobs) /\ Append(log[r], blob) # <<>>
            /\ Carried(Append(log[r], blob)) = Carried(log[r]) \cup blob
        BY <3>2, <4>1, CarriedAppend
      <4>3. Carried(Trim(Append(log[r], blob))) \subseteq Carried(log[r]) \cup blob
        BY <4>2, CarriedTrim
      <4>4. Carried(<<blob>>) = blob
        BY <3>2, CarriedFew
      <4>5. log'[r] = <<blob>> \/ log'[r] = Trim(Append(log[r], blob))
        BY <3>1, <3>4 DEF TypeOK
      <4> QED
        BY <4>3, <4>4, <4>5
    <3>6. Reads(j)' = Reads(j)
      BY <3>1 DEF Reads
    <3>7. CASE RoomFor(j) # r
      <4>1. log'[RoomFor(j)] = log[RoomFor(j)]
        BY <1>0, <3>4, <3>7 DEF TypeOK
      <4>2. j \notin sockets[r]
        BY <3>1, <3>7 DEF Wired
      <4>3. down'[j] = down[j]
        BY <3>4, <4>2
      <4> QED
        BY <3>1, <3>6, <4>1, <4>3, NoGapKept
    <3>8. CASE RoomFor(j) = r
      <4> SUFFICES ASSUME side[j] = "joined", Reads(j)
                   PROVE  Carried(log'[r]) \subseteq doc[d] \cup Carried(down'[j])
        BY <3>1, <3>6, <3>8 DEF NoGapAt, RoomFor, Carried
      <4>1. Carried(log[r]) \subseteq doc[d] \cup Carried(down[j])
        BY <3>8 DEF NoGap
      <4>2. CASE j = k
        <5>1. down'[j] = down[j]
          BY <3>4, <4>2
        <5>2. blob \subseteq doc[d]
          BY <3>2, <4>2 DEF Own
        <5> QED
          BY <3>5, <4>1, <5>1, <5>2
      <4>3. CASE j # k
        <5>1. j \in sockets[r]
          BY <3>8 DEF Wired, Seated
        <5>2. down'[j] = Append(down[j], blob)
          BY <3>4, <4>3, <5>1
        <5>3. Carried(down'[j]) = Carried(down[j]) \cup blob
          BY <1>0, <3>2, <5>2, CarriedAppend
        <5> QED
          BY <3>5, <4>1, <5>3
      <4> QED
        BY <4>2, <4>3
    <3> QED
      BY <3>7, <3>8
  <2>4. CASE ForgetConn(k)
    <3>1. UNCHANGED <<ws, doc, owner, down, log>> /\ side'[j] = IF j = k THEN "gone" ELSE side[j]
      BY <2>4 DEF ForgetConn, Ended, TypeOK, clientVars
    <3>2. side'[j] = "joined" /\ Reads(j)' => side[j] = "joined" /\ Reads(j)
      BY <3>1 DEF Reads
    <3> QED
      BY <3>1, <3>2, NoGapKept
  <2> QED
    BY <1>2, <2>1, <2>2, <2>3, <2>4 DEF HubStep
<1>3. CASE Restart
  <2>1. side'[j] # "joined"
    BY <1>3 DEF Restart
  <2> QED
    BY <2>1 DEF NoGapAt
<1>4. CASE UNCHANGED vars
  BY <1>a, <1>4 DEF vars, clientVars, wireVars, hubVars
<1> QED
  BY <1>1, <1>2, <1>3, <1>4 DEF Next

\* Whoever is in a room has, or is being sent, everything the hub keeps of it.
THEOREM NobodyMisses == Spec => []NoGap
<1> DEFINE Inv == TypeOK /\ Wired /\ Own /\ NoGap
<1>1. Init => Inv
  <2>1. Init => NoGap
    BY DEF Init, NoGap
  <2> QED
    BY <2>1, InitTyped, InitWired, InitOwn
<1>2. Inv /\ [Next]_vars => Inv'
  BY NextTyped, NextWired, NextOwn, NextNoGap
<1> QED
  BY <1>1, <1>2, PTL DEF Spec
=============================================================================
