------------------------------ MODULE WsProofs ------------------------------
(* The rooms for any sets of connections and rooms, and what reaches the     *)
(* wire for any queue and any number of messages.                            *)
EXTENDS WsRooms, WsConnection, TLAPS


\* What GonePurged rests on: while remove_from_all runs, every room that still
\* holds the connection is on its list; nobody else puts it into a room.
PurgeCoversRooms ==
    \A c \in Conns : phase[c] = "purging" =>
        \A r \in Rooms : c \in members[r] => r \in purge[c]

RoomInv ==
    /\ TypeOK
    /\ NoGhostMember
    /\ PurgeCoversRooms
    /\ GonePurged
    /\ EmptyRoomsDeleted

-----------------------------------------------------------------------------
\* The first half of leave() keeps the invariants that do not depend on where
\* in its life the connection is.
LEMMA TakeOutKeeps ==
    ASSUME RoomInv, NEW c \in Conns, NEW r \in Rooms, leaving[c] = NoRoom,
           TakeOut(c, r), UNCHANGED existing
    PROVE  /\ members' \in [Rooms -> SUBSET Conns]
           /\ leaving' \in [Conns -> Rooms \cup {NoRoom}]
           /\ joined' \in [Conns -> SUBSET Rooms]
           /\ \A q \in Rooms : members'[q] \subseteq members[q]
           /\ \A q \in Rooms \ existing' : members'[q] = {}
           /\ NoGhostMember'
           /\ EmptyRoomsDeleted'
<1>t. TypeOK
  BY DEF RoomInv
<1>1. /\ members' \in [Rooms -> SUBSET Conns]
      /\ leaving' \in [Conns -> Rooms \cup {NoRoom}]
      /\ joined' \in [Conns -> SUBSET Rooms]
  BY <1>t DEF TakeOut, TypeOK
<1>2. \A q \in Rooms : members'[q] \subseteq members[q]
  BY <1>t DEF TakeOut, TypeOK
<1>3. \A q \in Rooms \ existing' : members'[q] = {}
  BY <1>2, <1>t DEF TypeOK
<1>4. NoGhostMember'
  BY <1>t DEF TakeOut, TypeOK, RoomInv, NoGhostMember
<1>5. EmptyRoomsDeleted'
  <2> SUFFICES ASSUME NEW q \in existing', members'[q] = {}
               PROVE  \E d \in Conns : leaving'[d] = q
    BY DEF EmptyRoomsDeleted
  <2>0. q \in existing /\ q \in Rooms
    BY <1>t DEF TypeOK
  <2>1. CASE q = r
    <3>1. members[r] \ {c} = {}
      BY <2>1, <1>t DEF TakeOut, TypeOK
    <3>2. leaving'[c] = r
      BY <3>1, <2>0, <2>1, <1>t DEF TakeOut, TypeOK
    <3> QED
      BY <3>2, <2>1
  <2>2. CASE q # r
    <3>1. members[q] = {}
      BY <2>2, <2>0, <1>t DEF TakeOut, TypeOK
    <3>2. PICK d \in Conns : leaving[d] = q
      BY <3>1, <2>0 DEF RoomInv, EmptyRoomsDeleted
    <3>3. d # c
      BY <3>2, <2>0, NoRoomIsNoRoom
    <3>4. leaving'[d] = q
      BY <3>2, <3>3, <1>t DEF TakeOut, TypeOK
    <3> QED
      BY <3>4
  <2> QED
    BY <2>1, <2>2
<1> QED
  BY <1>1, <1>2, <1>3, <1>4, <1>5

-----------------------------------------------------------------------------
\* The invariant holds at the start.
LEMMA InitIInv == Init => RoomInv
BY DEF Init, RoomInv, TypeOK, Phases, NoGhostMember, PurgeCoversRooms, GonePurged,
       EmptyRoomsDeleted

\* Every step keeps it.
LEMMA StepIInv == RoomInv /\ [Next]_vars => RoomInv'
<1> SUFFICES ASSUME RoomInv, [Next]_vars PROVE RoomInv'
  OBVIOUS
<1>t. TypeOK /\ NoGhostMember /\ PurgeCoversRooms /\ GonePurged /\ EmptyRoomsDeleted
  BY DEF RoomInv
<1>1. ASSUME NEW c \in Conns, Connect(c) PROVE RoomInv'
  BY <1>1, <1>t DEF Connect, Ready, RoomInv, TypeOK, Phases, NoGhostMember,
                    PurgeCoversRooms, GonePurged, EmptyRoomsDeleted
<1>2. ASSUME NEW c \in Conns, NEW r \in Rooms, Join(c, r) PROVE RoomInv'
  <2>1. TypeOK' /\ NoGhostMember'
    BY <1>2, <1>t DEF Join, Ready, TypeOK, NoGhostMember
  <2>2. PurgeCoversRooms' /\ GonePurged'
    BY <1>2, <1>t DEF Join, Ready, TypeOK, PurgeCoversRooms, GonePurged
  <2>3. EmptyRoomsDeleted'
    BY <1>2, <1>t DEF Join, TypeOK, EmptyRoomsDeleted
  <2> QED
    BY <2>1, <2>2, <2>3 DEF RoomInv
<1>3. ASSUME NEW c \in Conns, NEW r \in Rooms, Leave(c, r) PROVE RoomInv'
  <2>1. /\ members' \in [Rooms -> SUBSET Conns]
        /\ leaving' \in [Conns -> Rooms \cup {NoRoom}]
        /\ joined' \in [Conns -> SUBSET Rooms]
        /\ \A q \in Rooms : members'[q] \subseteq members[q]
        /\ \A q \in Rooms \ existing' : members'[q] = {}
        /\ NoGhostMember'
        /\ EmptyRoomsDeleted'
    BY <1>3, TakeOutKeeps DEF Leave, Ready
  <2>2. TypeOK'
    BY <2>1, <1>3, <1>t DEF Leave, TypeOK
  <2>3. PurgeCoversRooms' /\ GonePurged'
    BY <2>1, <1>3, <1>t DEF Leave, PurgeCoversRooms, GonePurged
  <2> QED
    BY <2>1, <2>2, <2>3 DEF RoomInv
<1>4. ASSUME NEW c \in Conns, DeleteRoom(c) PROVE RoomInv'
  <2>1. TypeOK' /\ NoGhostMember'
    BY <1>4, <1>t DEF DeleteRoom, TypeOK, NoGhostMember
  <2>2. PurgeCoversRooms' /\ GonePurged'
    BY <1>4, <1>t DEF DeleteRoom, TypeOK, PurgeCoversRooms, GonePurged
  <2>3. EmptyRoomsDeleted'
    BY <1>4, <1>t DEF DeleteRoom, TypeOK, EmptyRoomsDeleted
  <2> QED
    BY <2>1, <2>2, <2>3 DEF RoomInv
<1>5. ASSUME NEW c \in Conns, RemoveConn(c) PROVE RoomInv'
  BY <1>5, <1>t DEF RemoveConn, Ready, RoomInv, TypeOK, Phases, NoGhostMember,
                    PurgeCoversRooms, GonePurged, EmptyRoomsDeleted
<1>6. ASSUME NEW c \in Conns, CollectRooms(c) PROVE RoomInv'
  <2>1. TypeOK'
    BY <1>6, <1>t DEF CollectRooms, TypeOK, Phases
  <2>2. PurgeCoversRooms'
    BY <1>6, <1>t DEF CollectRooms, TypeOK, PurgeCoversRooms
  <2>3. NoGhostMember' /\ GonePurged' /\ EmptyRoomsDeleted'
    BY <1>6, <1>t DEF CollectRooms, TypeOK, NoGhostMember, GonePurged, EmptyRoomsDeleted
  <2> QED
    BY <2>1, <2>2, <2>3 DEF RoomInv
<1>7. ASSUME NEW c \in Conns, NEW r \in Rooms, PurgeRoom(c, r) PROVE RoomInv'
  <2>1. /\ members' \in [Rooms -> SUBSET Conns]
        /\ leaving' \in [Conns -> Rooms \cup {NoRoom}]
        /\ joined' \in [Conns -> SUBSET Rooms]
        /\ \A q \in Rooms : members'[q] \subseteq members[q]
        /\ \A q \in Rooms \ existing' : members'[q] = {}
        /\ NoGhostMember'
        /\ EmptyRoomsDeleted'
    BY <1>7, TakeOutKeeps DEF PurgeRoom, Ready
  <2>2. TypeOK'
    BY <2>1, <1>7, <1>t DEF PurgeRoom, TypeOK
  <2>3. c \notin members'[r]
    BY <1>7, <1>t DEF PurgeRoom, TakeOut, TypeOK
  <2>4. PurgeCoversRooms'
    BY <2>1, <2>3, <1>7, <1>t DEF PurgeRoom, TypeOK, PurgeCoversRooms
  <2>5. GonePurged'
    BY <2>1, <1>7, <1>t DEF PurgeRoom, GonePurged
  <2> QED
    BY <2>1, <2>2, <2>4, <2>5 DEF RoomInv
<1>8. ASSUME NEW c \in Conns, PurgeDone(c) PROVE RoomInv'
  BY <1>8, <1>t DEF PurgeDone, Ready, RoomInv, TypeOK, Phases, NoGhostMember,
                    PurgeCoversRooms, GonePurged, EmptyRoomsDeleted
<1>9. CASE UNCHANGED vars
  BY <1>9, <1>t DEF vars, RoomInv, TypeOK, NoGhostMember, PurgeCoversRooms,
                    GonePurged, EmptyRoomsDeleted
<1> QED
  BY <1>1, <1>2, <1>3, <1>4, <1>5, <1>6, <1>7, <1>8, <1>9 DEF Next

\* The invariant holds in every reachable state.
LEMMA IInvariant == Spec => []RoomInv
BY InitIInv, StepIInv, PTL DEF Spec

-----------------------------------------------------------------------------
\* For any connections and rooms: members are connections that joined and have not
\* left, a connection whose removal is complete is in no room, and an empty room
\* always has a task that is about to delete it.
THEOREM RoomsAreExact == Spec => []RoomsExact
<1>1. RoomInv => RoomsExact
  BY DEF RoomInv, RoomsExact
<1> QED
  BY IInvariant, <1>1, PTL

-----------------------------------------------------------------------------
(* The connection.                                                         *)

\* The messages that have left the queue: those on the wire and the one being written.
Taken == Len(wire) + (IF current \in 1 .. MaxEmits THEN 1 ELSE 0)

\* What the order on the wire rests on: as long as the write loop runs, the wire
\* holds the first messages, the one being written is the next, and the queue
\* holds the others in order, between pings and close frames.
StreamInv ==
    /\ writer = "writing" <=> current # None
    /\ writer # "ended" =>
        /\ \A i \in 1 .. Len(wire) : wire[i] = i
        /\ current \in 1 .. MaxEmits => current = Len(wire) + 1
        /\ Taken <= accepted
        /\ \A i \in 1 .. Len(queue) : queue[i] \in 1 .. MaxEmits => queue[i] \in (Taken + 1) .. accepted
        /\ \A i, j \in 1 .. Len(queue) :
              i < j /\ queue[i] \in 1 .. MaxEmits /\ queue[j] \in 1 .. MaxEmits => queue[i] < queue[j]
        /\ \A n \in (Taken + 1) .. accepted : \E i \in 1 .. Len(queue) : queue[i] = n

\* The loops do not run before both handlers have returned.
LoopsInv == conn \in {"new", "handler"} => writer = "new"

\* A ping or a close frame is none of the messages.
LEMMA OtherFrames ==
    /\ Ping \in Frames /\ CloseFrame \in Frames
    /\ Ping \notin 1 .. MaxEmits /\ CloseFrame \notin 1 .. MaxEmits /\ None \notin 1 .. MaxEmits
    /\ None \notin Frames
  BY FramesDistinct DEF Frames

\* What try_send and recv do to the queue keeps its type and its bound.
LEMMA QueueTypes ==
    ASSUME ConnTypeOK
    PROVE  /\ \A f \in Frames : Len(queue) < QueueSize =>
                 Append(queue, f) \in Seq(Frames) /\ Len(Append(queue, f)) <= QueueSize
           /\ queue # <<>> => Head(queue) \in Frames /\ Tail(queue) \in Seq(Frames)
                              /\ Len(Tail(queue)) <= QueueSize
  BY QueueNotEmpty DEF ConnTypeOK

\* Every step keeps the types of the connection.
LEMMA ConnTypeStep == ConnTypeOK /\ StreamInv /\ [ConnNext]_connVars => ConnTypeOK'
<1> SUFFICES ASSUME ConnTypeOK, StreamInv, [ConnNext]_connVars PROVE ConnTypeOK'
  OBVIOUS
<1>q. QueueSize \in Nat
  BY QueueNotEmpty
<1>1. CASE Register \/ StartLoops \/ ReadCancelled \/ ReadEnd \/ Remove
  BY <1>1 DEF Register, StartLoops, ReadCancelled, ReadEnd, Remove, ConnTypeOK
<1>2. CASE ReadTooLarge \/ Close
  <2>1. queue' \in Seq(Frames) /\ Len(queue') <= QueueSize
    BY <1>2, QueueTypes, OtherFrames DEF ReadTooLarge, Close, CloseEntry, CanSend, ConnTypeOK
  <2> QED
    BY <1>2, <2>1 DEF ReadTooLarge, Close, CloseEntry, ConnTypeOK
<1>3. CASE WriteCancelled \/ WriteChannelClosed
  BY <1>3, OtherFrames DEF WriteCancelled, WriteChannelClosed, ConnTypeOK
<1>4. CASE WriteNext
  <2>1. queue' \in Seq(Frames) /\ Len(queue') <= QueueSize /\ current' \in Frames
    BY <1>4, QueueTypes DEF WriteNext
  <2> QED
    BY <1>4, <2>1 DEF WriteNext, ConnTypeOK
<1>5. CASE WriteDone
  <2>1. current \in Frames
    BY <1>5 DEF WriteDone, StreamInv, ConnTypeOK
  <2>2. wire' \in Seq(Frames)
    BY <1>5, <2>1 DEF WriteDone, Written, ConnTypeOK
  <2> QED
    BY <1>5, <2>2 DEF WriteDone, ConnTypeOK
<1>6. CASE HeartbeatCancelled \/ HeartbeatTick
  <2>1. queue' \in Seq(Frames) /\ Len(queue') <= QueueSize
    BY <1>6, QueueTypes, OtherFrames DEF HeartbeatCancelled, HeartbeatTick, CanSend, ConnTypeOK
  <2> QED
    BY <1>6, <2>1 DEF HeartbeatCancelled, HeartbeatTick, ConnTypeOK
<1>7. CASE Emit
  <2>1. accepted + 1 \in Frames /\ accepted' \in 0 .. MaxEmits
    BY <1>7, EmitsAreNat DEF Emit, Frames, ConnTypeOK
  <2>2. queue' \in Seq(Frames) /\ Len(queue') <= QueueSize
    BY <1>7, <2>1, QueueTypes DEF Emit, CanSend
  <2> QED
    BY <1>7, <2>1, <2>2 DEF Emit, ConnTypeOK
<1>8. CASE PeerCloses \/ PeerVanishes
  BY <1>8 DEF PeerCloses, PeerVanishes, ConnTypeOK
<1>9. CASE UNCHANGED connVars
  BY <1>9 DEF connVars, ConnTypeOK
<1> QED
  BY <1>1, <1>2, <1>3, <1>4, <1>5, <1>6, <1>7, <1>8, <1>9
     DEF ConnNext, ConnStep, WriterStep, HeartbeatStep

-----------------------------------------------------------------------------
\* A ping or a close frame put at the end of the queue disturbs no message.
LEMMA OtherFrameQueued ==
    ASSUME ConnTypeOK, StreamInv, NEW f \in {Ping, CloseFrame}, queue' = Append(queue, f),
           UNCHANGED <<writer, current, wire, accepted>>
    PROVE  StreamInv'
<1>1. /\ Len(queue') = Len(queue) + 1
      /\ \A i \in 1 .. Len(queue) : queue'[i] = queue[i]
      /\ queue'[Len(queue) + 1] = f
      /\ Len(queue) \in Nat
  BY DEF ConnTypeOK
<1>2. f \notin 1 .. MaxEmits
  BY OtherFrames
<1>3. Taken' = Taken
  BY DEF Taken
<1> QED
  BY <1>1, <1>2, <1>3 DEF StreamInv

\* An emit puts the next message behind all others.
LEMMA MessageQueued ==
    ASSUME ConnTypeOK, StreamInv, Emit
    PROVE  StreamInv'
<1>1. /\ Len(queue') = Len(queue) + 1
      /\ \A i \in 1 .. Len(queue) : queue'[i] = queue[i]
      /\ queue'[Len(queue) + 1] = accepted + 1
      /\ Len(queue) \in Nat
  BY EmitsAreNat DEF ConnTypeOK, Emit, Frames
<1>2. Taken' = Taken /\ accepted' = accepted + 1 /\ accepted \in Nat /\ Taken \in Nat
  BY DEF Taken, Emit, ConnTypeOK
<1>3. UNCHANGED <<writer, current, wire>>
  BY DEF Emit
<1>4. CASE writer = "ended"
  BY <1>3, <1>4 DEF StreamInv
<1>5. CASE writer # "ended"
  <2>1. \A i \in 1 .. Len(queue') : queue'[i] \in 1 .. MaxEmits => queue'[i] \in (Taken' + 1) .. accepted'
    <3>1. \A i \in 1 .. Len(queue) : queue[i] \in 1 .. MaxEmits => queue[i] \in (Taken + 1) .. accepted
      BY <1>5 DEF StreamInv
    <3>2. Taken <= accepted
      BY <1>5 DEF StreamInv
    <3> QED
      BY <1>1, <1>2, <3>1, <3>2
  <2>2. ASSUME NEW i \in 1 .. Len(queue'), NEW j \in 1 .. Len(queue'),
               i < j, queue'[i] \in 1 .. MaxEmits, queue'[j] \in 1 .. MaxEmits
        PROVE  queue'[i] < queue'[j]
    <3>1. i \in 1 .. Len(queue) /\ queue'[i] = queue[i]
      BY <1>1, <2>2
    <3>2. CASE j \in 1 .. Len(queue)
      BY <1>1, <1>5, <2>2, <3>1, <3>2 DEF StreamInv
    <3>3. CASE j = Len(queue) + 1
      <4>1. queue[i] \in (Taken + 1) .. accepted
        BY <1>5, <2>2, <3>1 DEF StreamInv
      <4> QED
        BY <1>1, <1>2, <3>1, <3>3, <4>1
    <3> QED
      BY <1>1, <2>2, <3>2, <3>3
  <2>3. ASSUME NEW n \in (Taken' + 1) .. accepted'
        PROVE  \E i \in 1 .. Len(queue') : queue'[i] = n
    <3>1. CASE n = accepted + 1
      BY <1>1, <3>1
    <3>2. CASE n # accepted + 1
      <4>1. n \in (Taken + 1) .. accepted
        BY <1>2, <2>3, <3>2
      <4>2. PICK i \in 1 .. Len(queue) : queue[i] = n
        BY <1>5, <4>1 DEF StreamInv
      <4> QED
        BY <1>1, <4>2
    <3> QED
      BY <3>1, <3>2
  <2>4. Taken' <= accepted'
    BY <1>2, <1>5 DEF StreamInv
  <2> QED
    BY <1>3, <1>5, <2>1, <2>2, <2>3, <2>4 DEF StreamInv
<1> QED
  BY <1>4, <1>5

\* Taking the first frame out keeps the messages of the queue in order.
LEMMA QueueOrderKept ==
    ASSUME ConnTypeOK, StreamInv, writer # "ended", Len(queue) \in Nat, Len(queue') = Len(queue) - 1,
           \A i \in 1 .. Len(queue') : queue'[i] = queue[i + 1]
    PROVE  \A j, k \in 1 .. Len(queue') :
               j < k /\ queue'[j] \in 1 .. MaxEmits /\ queue'[k] \in 1 .. MaxEmits => queue'[j] < queue'[k]
<1>1. SUFFICES ASSUME NEW j \in 1 .. Len(queue'), NEW k \in 1 .. Len(queue'), j < k,
                      queue'[j] \in 1 .. MaxEmits, queue'[k] \in 1 .. MaxEmits
               PROVE  queue'[j] < queue'[k]
  OBVIOUS
<1>2. j + 1 \in 1 .. Len(queue) /\ k + 1 \in 1 .. Len(queue) /\ j + 1 < k + 1
  BY <1>1
<1> QED
  BY <1>1, <1>2 DEF StreamInv

\* The frame that write_loop takes from the queue: if it is a message, the next one.
LEMMA MessageTaken ==
    ASSUME ConnTypeOK, StreamInv, WriteNext
    PROVE  StreamInv'
<1>1. /\ Len(queue) \in Nat /\ Len(queue) > 0
      /\ Len(queue') = Len(queue) - 1
      /\ \A i \in 1 .. Len(queue') : queue'[i] = queue[i + 1]
      /\ current' = queue[1] /\ current' \in Frames
      /\ current = None /\ wire' = wire /\ accepted' = accepted /\ writer # "ended" /\ writer' = "writing"
  BY DEF ConnTypeOK, WriteNext, StreamInv
<1>2. Taken = Len(wire) /\ Len(wire) \in Nat /\ accepted \in Nat
  BY <1>1, OtherFrames DEF Taken, ConnTypeOK
<1>3. CASE current' \in 1 .. MaxEmits
  <2>1. queue[1] \in (Len(wire) + 1) .. accepted
    BY <1>1, <1>2, <1>3 DEF StreamInv
  <2>2. PICK i \in 1 .. Len(queue) : queue[i] = Len(wire) + 1
    BY <1>1, <1>2, <2>1 DEF StreamInv
  <2>3. queue[i] \in 1 .. MaxEmits
    BY <2>1, <2>2, <1>2, <1>3, <1>1, EmitsAreNat
  <2>4. queue[1] = Len(wire) + 1
    BY <2>1, <2>2, <2>3, <1>1, <1>3, <1>2 DEF StreamInv
  <2>5. Taken' = Len(wire) + 1
    BY <1>1, <1>3 DEF Taken
  <2>6. \A j \in 1 .. Len(queue') : queue'[j] \in 1 .. MaxEmits => queue'[j] \in (Len(wire) + 2) .. accepted
    <3>1. SUFFICES ASSUME NEW j \in 1 .. Len(queue'), queue'[j] \in 1 .. MaxEmits
                   PROVE  queue'[j] \in (Len(wire) + 2) .. accepted
      OBVIOUS
    <3>2. j + 1 \in 1 .. Len(queue) /\ 1 \in 1 .. Len(queue) /\ 1 < j + 1 /\ queue'[j] = queue[j + 1]
      BY <1>1
    <3>3. queue[j + 1] \in (Taken + 1) .. accepted /\ queue[1] < queue[j + 1]
      BY <1>1, <1>3, <3>1, <3>2 DEF StreamInv
    <3> QED
      BY <3>2, <3>3, <2>4, <1>2
  <2>7. \A n \in (Len(wire) + 2) .. accepted : \E j \in 1 .. Len(queue') : queue'[j] = n
    <3>1. SUFFICES ASSUME NEW n \in (Len(wire) + 2) .. accepted
                   PROVE  \E j \in 1 .. Len(queue') : queue'[j] = n
      OBVIOUS
    <3>2. PICK k \in 1 .. Len(queue) : queue[k] = n
      BY <1>1, <1>2 DEF StreamInv
    <3>3. k - 1 \in 1 .. Len(queue') /\ queue'[k - 1] = n
      BY <3>2, <2>4, <1>1, <1>2
    <3> QED
      BY <3>3
  <2>8. \A j, k \in 1 .. Len(queue') : j < k /\ queue'[j] \in 1 .. MaxEmits /\ queue'[k] \in 1 .. MaxEmits
                                         => queue'[j] < queue'[k]
    BY QueueOrderKept, <1>1
  <2>9. Taken' <= accepted
    BY <2>5, <2>1, <1>2
  <2> QED
    BY <2>4, <2>5, <2>6, <2>7, <2>8, <2>9, <1>1, <1>2, OtherFrames DEF StreamInv
<1>4. CASE current' \notin 1 .. MaxEmits
  <2>1. Taken' = Taken
    BY <1>1, <1>2, <1>4 DEF Taken
  <2>2. current' # None
    BY <1>1, OtherFrames
  <2>3. \A n \in (Taken + 1) .. accepted : \E j \in 1 .. Len(queue') : queue'[j] = n
    <3>1. SUFFICES ASSUME NEW n \in (Taken + 1) .. accepted
                   PROVE  \E j \in 1 .. Len(queue') : queue'[j] = n
      OBVIOUS
    <3>2. PICK k \in 1 .. Len(queue) : queue[k] = n
      BY <1>1, <1>2 DEF StreamInv
    <3>3. n \in 1 .. MaxEmits
      BY <1>2, EmitsAreNat DEF ConnTypeOK
    <3>4. k - 1 \in 1 .. Len(queue') /\ queue'[k - 1] = n
      BY <3>2, <3>3, <1>4, <1>1, <1>2
    <3> QED
      BY <3>4
  <2>4. \A j \in 1 .. Len(queue') : queue'[j] \in 1 .. MaxEmits => queue'[j] \in (Taken + 1) .. accepted
    BY <1>1 DEF StreamInv
  <2>5. \A j, k \in 1 .. Len(queue') : j < k /\ queue'[j] \in 1 .. MaxEmits /\ queue'[k] \in 1 .. MaxEmits
                                         => queue'[j] < queue'[k]
    BY QueueOrderKept, <1>1
  <2> QED
    BY <2>1, <2>2, <2>3, <2>4, <2>5, <1>1, <1>4 DEF StreamInv
<1> QED
  BY <1>3, <1>4

\* A write that succeeds puts the frame on the wire; one that fails ends the loop.
LEMMA FrameWritten ==
    ASSUME ConnTypeOK, StreamInv, WireOrder, WriteDone
    PROVE  StreamInv' /\ WireOrder'
<1>0. /\ Len(wire) \in Nat /\ writer # "ended" /\ current # None /\ current \in Frames
      /\ queue' = queue /\ accepted' = accepted /\ current' = None /\ writer' # "writing"
  BY DEF WriteDone, StreamInv, ConnTypeOK
<1>1. CASE wire' = wire
  <2>1. Taken' = IF current \in 1 .. MaxEmits THEN Taken - 1 ELSE Taken
    BY <1>0, <1>1, OtherFrames DEF Taken
  <2>2. writer' # "ended" => current = Ping
    BY <1>1, <1>0 DEF WriteDone, Written, ConnTypeOK
  <2>3. StreamInv'
    BY <1>0, <1>1, <2>1, <2>2, OtherFrames DEF StreamInv
  <2> QED
    BY <1>1, <2>3 DEF WireOrder
<1>2. CASE wire' # wire
  <2>1. wire' = Append(wire, current) /\ current # Ping
    BY <1>2 DEF WriteDone, Written
  <2>2. Len(wire') = Len(wire) + 1 /\ wire'[Len(wire) + 1] = current
        /\ \A i \in 1 .. Len(wire) : wire'[i] = wire[i]
    BY <2>1, <1>0 DEF ConnTypeOK
  <2>3. CASE current = CloseFrame
    <3>1. writer' = "ended"
      BY <2>3 DEF WriteDone
    <3> QED
      BY <3>1, <2>2, <2>3, <1>0 DEF StreamInv, WireOrder
  <2>4. CASE current \in 1 .. MaxEmits
    <3>1. current = Len(wire) + 1
      BY <2>4, <1>0 DEF StreamInv
    <3>2. Taken' = Taken
      BY <2>2, <2>4, <1>0, OtherFrames DEF Taken
    <3>3. writer' # "ended" => writer # "ended" /\ writer' # "writing" /\ current' = None
      BY <1>0
    <3>4. \A i \in 1 .. Len(wire') : wire'[i] = i
      BY <3>1, <2>2, <1>0 DEF StreamInv
    <3>5. WireOrder'
      BY <3>4 DEF WireOrder
    <3>6. StreamInv'
      BY <3>2, <3>3, <3>4, <1>0, OtherFrames DEF StreamInv
    <3> QED
      BY <3>5, <3>6
  <2> QED
    BY <2>1, <2>3, <2>4, <1>0 DEF Frames
<1> QED
  BY <1>1, <1>2

\* Every step keeps LoopsInv.
LEMMA LoopsStep == LoopsInv /\ [ConnNext]_connVars => LoopsInv'
  BY DEF LoopsInv, ConnNext, ConnStep, WriterStep, HeartbeatStep, connVars, Register, StartLoops,
         ReadCancelled, ReadEnd, Remove, ReadTooLarge, Close, WriteCancelled, WriteNext, WriteDone,
         WriteChannelClosed, HeartbeatCancelled, HeartbeatTick, Emit, PeerCloses, PeerVanishes

\* Every step keeps the stream of messages.
LEMMA StreamStep ==
    ConnTypeOK /\ LoopsInv /\ StreamInv /\ WireOrder /\ [ConnNext]_connVars => StreamInv' /\ WireOrder'
<1> SUFFICES ASSUME ConnTypeOK, LoopsInv, StreamInv, WireOrder, [ConnNext]_connVars
             PROVE  StreamInv' /\ WireOrder'
  OBVIOUS
<1>0. ASSUME UNCHANGED <<queue, current, wire, accepted>>,
             writer' # "ended" => writer # "ended", (writer' = "writing") <=> (writer = "writing")
      PROVE  StreamInv' /\ WireOrder'
  <2>1. Taken' = Taken
    BY <1>0 DEF Taken
  <2> QED
    BY <1>0, <2>1 DEF StreamInv, WireOrder
<1>1. CASE Register \/ ReadCancelled \/ ReadEnd \/ Remove
  BY <1>0, <1>1 DEF Register, ReadCancelled, ReadEnd, Remove
<1>2. CASE StartLoops
  BY <1>0, <1>2 DEF StartLoops, LoopsInv
<1>3. CASE ReadTooLarge \/ Close
  <2>1. CASE CanSend
    BY <1>3, <2>1, OtherFrameQueued DEF ReadTooLarge, Close, CloseEntry, WireOrder
  <2>2. CASE ~CanSend
    BY <1>3, <2>2, <1>0 DEF ReadTooLarge, Close, CloseEntry
  <2> QED
    BY <2>1, <2>2
<1>4. CASE WriteCancelled
  <2>1. Taken' = Taken
    BY <1>4, OtherFrames DEF WriteCancelled, Taken, StreamInv
  <2> QED
    BY <1>4, <2>1, OtherFrames DEF WriteCancelled, StreamInv, WireOrder
<1>5. CASE WriteNext
  BY <1>5, MessageTaken DEF WriteNext, WireOrder
<1>6. CASE WriteDone
  BY <1>6, FrameWritten
<1>7. CASE WriteChannelClosed
  BY <1>0, <1>7 DEF WriteChannelClosed
<1>8. CASE HeartbeatCancelled
  BY <1>0, <1>8 DEF HeartbeatCancelled
<1>9. CASE HeartbeatTick
  <2>1. CASE CanSend
    BY <1>9, <2>1, OtherFrameQueued DEF HeartbeatTick, WireOrder
  <2>2. CASE ~CanSend
    BY <1>9, <2>2, <1>0 DEF HeartbeatTick
  <2> QED
    BY <2>1, <2>2
<1>10. CASE Emit
  BY <1>10, MessageQueued DEF Emit, WireOrder
<1>11. CASE PeerCloses \/ PeerVanishes
  BY <1>0, <1>11 DEF PeerCloses, PeerVanishes
<1>12. CASE UNCHANGED connVars
  BY <1>0, <1>12 DEF connVars
<1> QED
  BY <1>1, <1>2, <1>3, <1>4, <1>5, <1>6, <1>7, <1>8, <1>9, <1>10, <1>11, <1>12
     DEF ConnNext, ConnStep, WriterStep, HeartbeatStep

\* The stream holds every accepted message.
LEMMA StreamKeepsMessages == ConnTypeOK /\ StreamInv => MessagesKept
<1> SUFFICES ASSUME ConnTypeOK, StreamInv, writer # "ended", NEW n \in 1 .. accepted
             PROVE  n \in Elements(wire) \cup Elements(queue) \cup {current}
  BY DEF MessagesKept
<1>0. Len(wire) \in Nat /\ accepted \in Nat
  BY DEF ConnTypeOK
<1>1. CASE n <= Len(wire)
  BY <1>0, <1>1 DEF StreamInv, Elements
<1>2. CASE n > Len(wire) /\ n <= Taken
  BY <1>0, <1>2 DEF StreamInv, Taken
<1>3. CASE n > Taken
  <2>1. n \in (Taken + 1) .. accepted
    BY <1>0, <1>3 DEF Taken
  <2>2. PICK i \in 1 .. Len(queue) : queue[i] = n
    BY <2>1 DEF StreamInv
  <2> QED
    BY <2>2 DEF Elements
<1> QED
  BY <1>0, <1>1, <1>2, <1>3 DEF Taken

\* The frames go out in the order in which they were accepted, nothing follows a
\* close frame, and no accepted message is lost while the write loop runs: for
\* every size of the queue and every number of messages.
THEOREM WireIsSound == ConnSpec => []WireSound
<1> DEFINE Inv == ConnTypeOK /\ LoopsInv /\ StreamInv /\ WireOrder
<1>1. ConnInit => Inv
  <2> SUFFICES ASSUME ConnInit PROVE Inv
    OBVIOUS
  <2>1. Len(wire) = 0 /\ Len(queue) = 0 /\ Taken = 0
    BY OtherFrames DEF ConnInit, Taken
  <2>2. queue \in Seq(Frames) /\ wire \in Seq(Frames) /\ Len(queue) <= QueueSize /\ accepted \in 0 .. MaxEmits
    BY <2>1, QueueNotEmpty, EmitsAreNat DEF ConnInit
  <2>3. ConnTypeOK
    BY <2>2 DEF ConnInit, ConnTypeOK
  <2> QED
    BY <2>1, <2>3, OtherFrames DEF ConnInit, LoopsInv, StreamInv, WireOrder
<1>2. Inv /\ [ConnNext]_connVars => Inv'
  BY ConnTypeStep, LoopsStep, StreamStep
<1>3. Inv => WireSound
  BY StreamKeepsMessages DEF WireSound
<1> QED
  BY <1>1, <1>2, <1>3, PTL DEF ConnSpec
=============================================================================
