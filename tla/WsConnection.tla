---------------------------- MODULE WsConnection ----------------------------
(***************************************************************************)
(* One WebSocket connection of the HTTP server (ffi/doo_ffi_http/src/ws):  *)
(* the task that accepts it and then runs the read loop, the write loop    *)
(* fed by a bounded channel, the heartbeat loop, the registry entry with   *)
(* its watch channel for cancellation, and the application threads that    *)
(* emit to the connection or close it.  Connections do not share state     *)
(* here; rooms, where they do, are module WsRooms.                         *)
(***************************************************************************)
EXTENDS Naturals, Sequences

CONSTANTS
    QueueSize,  \* send_queue_size of WsConfig
    MaxEmits,   \* bound on the model: messages the application emits
    Ping, CloseFrame,  \* the frames that are not messages
    None        \* no frame

ASSUME QueueNotEmpty == QueueSize \in Nat \ {0}
ASSUME EmitsAreNat == MaxEmits \in Nat
ASSUME FramesDistinct ==
    /\ Ping # CloseFrame /\ Ping # None /\ CloseFrame # None
    /\ \A n \in 1 .. MaxEmits : n \notin {Ping, CloseFrame, None}

VARIABLES
    conn,       \* where handle_ws_connection is
    reg,        \* the ConnState in ConnRegistry, with its closed flag
    cancelled,  \* TRUE was sent on the watch channel
    queue,      \* the bounded mpsc channel
    writer,     \* write_loop
    current,    \* the frame write_loop is writing to the socket
    heartbeat,  \* heartbeat_loop
    peer,       \* the other end: up, gone silent, or closed
    accepted,   \* emits answered with Ok; the n-th of them is message n
    wire        \* the frames that went out, pings left aside

connVars == <<conn, reg, cancelled, queue, writer, current, heartbeat, peer,
          accepted, wire>>

Frames == (1 .. MaxEmits) \cup {Ping, CloseFrame}

ConnTypeOK ==
    /\ conn \in {"new", "handler", "reading", "closing", "done"}
    /\ reg \in {"absent", "open", "closed", "removed"}
    /\ cancelled \in BOOLEAN
    /\ queue \in Seq(Frames) /\ Len(queue) <= QueueSize
    /\ writer \in {"new", "run", "writing", "ended"}
    /\ current \in Frames \cup {None}
    /\ heartbeat \in {"new", "run", "ended"}
    /\ peer \in {"up", "silent", "closed"}
    /\ accepted \in 0 .. MaxEmits
    /\ wire \in Seq(Frames)

ConnInit ==
    /\ conn = "new"
    /\ reg = "absent"
    /\ cancelled = FALSE
    /\ queue = <<>>
    /\ writer = "new"
    /\ current = None
    /\ heartbeat = "new"
    /\ peer = "up"
    /\ accepted = 0
    /\ wire = <<>>

-----------------------------------------------------------------------------
(* The watch channel.  close() sends TRUE on it; remove() drops its only   *)
(* Sender.  changed() answers Ok when a value was sent, Err once the       *)
(* Sender is gone, and otherwise stays pending.                            *)

InRegistry == reg \in {"open", "closed"}
ChangedOk  == cancelled
ChangedErr == ~cancelled /\ reg = "removed"

\* Mutated: an unbounded channel.
CanSendUnbounded == writer # "ended"

\* try_send fails when write_loop has dropped the receiver or the queue is full.
CanSend == writer # "ended" /\ Len(queue) < QueueSize

\* Mutated: the tasks are not told.
CloseSilently ==
    /\ reg' = "closed"
    /\ queue' = IF CanSend THEN Append(queue, CloseFrame) ELSE queue
    /\ UNCHANGED cancelled

\* ConnRegistry::close: mark closed, try to queue a Close, signal the tasks.
CloseEntry ==
    /\ reg' = "closed"
    /\ queue' = IF CanSend THEN Append(queue, CloseFrame) ELSE queue
    /\ cancelled' = TRUE

-----------------------------------------------------------------------------
(* handle_ws_connection                                                    *)

\* The connection is registered, then the user's handler and onConnect run.
Register ==
    /\ conn = "new"
    /\ conn' = "handler"
    /\ reg' = "open"
    /\ UNCHANGED <<cancelled, queue, writer, current, heartbeat, peer, accepted, wire>>

\* Both handlers have returned: the write and heartbeat tasks are spawned and
\* the read loop starts.
StartLoops ==
    /\ conn = "handler"
    /\ conn' = "reading"
    /\ writer' = "run"
    /\ heartbeat' = "run"
    /\ UNCHANGED <<reg, cancelled, queue, current, peer, accepted, wire>>

ReadCancelled ==
    /\ conn = "reading"
    /\ ChangedOk
    /\ conn' = "closing"
    /\ UNCHANGED <<reg, cancelled, queue, writer, current, heartbeat, peer, accepted, wire>>

\* A frame beyond max_message_size: onError, close(), leave the loop.
ReadTooLarge ==
    /\ conn = "reading"
    /\ peer = "up"
    /\ InRegistry
    /\ CloseEntry
    /\ conn' = "closing"
    /\ UNCHANGED <<writer, current, heartbeat, peer, accepted, wire>>

\* A Close frame, a read error or the end of the stream.
ReadEnd ==
    /\ conn = "reading"
    /\ peer = "closed"
    /\ conn' = "closing"
    /\ UNCHANGED <<reg, cancelled, queue, writer, current, heartbeat, peer, accepted, wire>>

\* onDisconnect has run; the entry leaves the registry, which drops the watch
\* Sender and the registry's queue sender without a word on either channel.
Remove ==
    /\ conn = "closing"
    /\ conn' = "done"
    /\ reg' = "removed"
    /\ UNCHANGED <<cancelled, queue, writer, current, heartbeat, peer, accepted, wire>>

-----------------------------------------------------------------------------
(* Application threads and handlers, through doo_ws_conn_emit, broadcast   *)
(* and room emit, and doo_ws_conn_close or doo_ws_shutdown.                *)

\* A message is accepted while the entry is there, open, and the queue has
\* room; otherwise the caller gets an error and nothing changes.
Emit ==
    /\ accepted < MaxEmits
    /\ reg = "open"
    /\ CanSend
    /\ accepted' = accepted + 1
    /\ queue' = Append(queue, accepted + 1)
    /\ UNCHANGED <<conn, reg, cancelled, writer, current, heartbeat, peer, wire>>

Close ==
    /\ InRegistry
    /\ CloseEntry
    /\ UNCHANGED <<conn, writer, current, heartbeat, peer, accepted, wire>>

-----------------------------------------------------------------------------
(* write_loop                                                              *)

\* Cancelled: a Close frame is the last thing written.
WriteCancelled ==
    /\ writer = "run"
    /\ ChangedOk
    /\ writer' = "writing"
    /\ current' = CloseFrame
    /\ UNCHANGED <<conn, reg, cancelled, queue, heartbeat, peer, accepted, wire>>

\* select! takes either ready branch: a queued message may win over the cancel.
WriteNext ==
    /\ writer = "run"
    /\ queue # <<>>
    /\ writer' = "writing"
    /\ current' = Head(queue)
    /\ queue' = Tail(queue)
    /\ UNCHANGED <<conn, reg, cancelled, heartbeat, peer, accepted, wire>>

Written == IF peer = "closed" \/ current = Ping THEN wire ELSE Append(wire, current)

\* Mutated: after a Close frame the loop goes on.
WriteDoneGoesOn ==
    /\ writer = "writing"
    /\ wire' = Written
    /\ current' = None
    /\ writer' = IF peer = "closed" THEN "ended" ELSE "run"
    /\ UNCHANGED <<conn, reg, cancelled, queue, heartbeat, peer, accepted>>

\* The write completes, or fails because the peer has gone; a Close or a
\* failure ends the loop.
WriteDone ==
    /\ writer = "writing"
    /\ wire' = Written
    /\ current' = None
    /\ writer' = IF peer = "closed" \/ current = CloseFrame THEN "ended" ELSE "run"
    /\ UNCHANGED <<conn, reg, cancelled, queue, heartbeat, peer, accepted>>

\* Every Sender of the queue is gone: the registry's, the one that
\* handle_ws_connection holds until it returns, and the heartbeat's.
WriteChannelClosed ==
    /\ writer = "run"
    /\ queue = <<>>
    /\ conn = "done"
    /\ heartbeat = "ended"
    /\ writer' = "ended"
    /\ UNCHANGED <<conn, reg, cancelled, queue, current, heartbeat, peer, accepted, wire>>

-----------------------------------------------------------------------------
(* heartbeat_loop                                                          *)

HeartbeatCancelled ==
    /\ heartbeat = "run"
    /\ ChangedOk
    /\ heartbeat' = "ended"
    /\ UNCHANGED <<conn, reg, cancelled, queue, writer, current, peer, accepted, wire>>

\* Mutated: a ping pushes the oldest message out of a full queue.
HeartbeatEvicts ==
    /\ heartbeat = "run"
    /\ ~ChangedOk /\ ~ChangedErr
    /\ CASE CanSend -> queue' = Append(queue, Ping) /\ UNCHANGED heartbeat
         [] writer = "ended" -> heartbeat' = "ended" /\ UNCHANGED queue
         [] OTHER -> queue' = Append(Tail(queue), Ping) /\ UNCHANGED heartbeat
    /\ UNCHANGED <<conn, reg, cancelled, writer, current, peer, accepted, wire>>

\* The timer elapses.  Each turn of the loop starts a new sleep, so it can only
\* elapse while changed() stays pending.
HeartbeatTick ==
    /\ heartbeat = "run"
    /\ ~ChangedOk /\ ~ChangedErr
    /\ IF CanSend
         THEN queue' = Append(queue, Ping) /\ UNCHANGED heartbeat
         ELSE heartbeat' = "ended" /\ UNCHANGED queue
    /\ UNCHANGED <<conn, reg, cancelled, writer, current, peer, accepted, wire>>

-----------------------------------------------------------------------------
(* The peer and the network.                                               *)

PeerCloses ==
    /\ peer # "closed"
    /\ peer' = "closed"
    /\ UNCHANGED <<conn, reg, cancelled, queue, writer, current, heartbeat, accepted, wire>>

\* No close, no reset: the host or the path to it has disappeared.
PeerVanishes ==
    /\ peer = "up"
    /\ peer' = "silent"
    /\ UNCHANGED <<conn, reg, cancelled, queue, writer, current, heartbeat, accepted, wire>>

-----------------------------------------------------------------------------
ConnStep == Register \/ StartLoops \/ ReadCancelled \/ ReadTooLarge \/ ReadEnd \/ Remove
WriterStep == WriteCancelled \/ WriteNext \/ WriteDone \/ WriteChannelClosed
HeartbeatStep == HeartbeatCancelled \/ HeartbeatTick

ConnNext == \/ ConnStep \/ WriterStep \/ HeartbeatStep
        \/ Emit \/ Close \/ PeerCloses \/ PeerVanishes

ConnSpec == ConnInit /\ [][ConnNext]_connVars

\* Tokio polls a task that is ready, and the handlers return.  A write to a
\* silent peer may block for ever once the socket buffer is full.
ConnFairness ==
    /\ WF_connVars(Register) /\ WF_connVars(StartLoops)
    /\ WF_connVars(ReadCancelled) /\ WF_connVars(ReadEnd) /\ WF_connVars(Remove)
    /\ WF_connVars(WriteCancelled \/ WriteNext) /\ WF_connVars(WriteChannelClosed)
    /\ WF_connVars(WriteDone /\ peer # "silent")
    /\ WF_connVars(HeartbeatCancelled) /\ WF_connVars(HeartbeatTick)

ConnFairSpec == ConnSpec /\ ConnFairness

-----------------------------------------------------------------------------
(* Safety.                                                                 *)

\* The peer sees the accepted messages in the order the emits were answered,
\* none twice and none skipped, and nothing after a Close frame, whichever
\* branches of select! win in write_loop.
WireOrder ==
    \A i \in 1 .. Len(wire) :
        wire[i] = i \/ (wire[i] = CloseFrame /\ i = Len(wire))

Elements(s) == {s[i] : i \in 1 .. Len(s)}

\* While the write loop runs, an accepted message is on the wire, in the
\* queue, or being written: backpressure refuses messages, it loses none.
MessagesKept ==
    writer # "ended" =>
        1 .. accepted \subseteq Elements(wire) \cup Elements(queue) \cup {current}

-----------------------------------------------------------------------------
(* Liveness, under ConnFairSpec.                                           *)

AllEnded == conn = "done" /\ writer = "ended" /\ heartbeat = "ended"

\* close(), from whatever thread and at whatever moment (inside the user's
\* handler, before the loops exist, with a full queue), ends all three loops
\* and removes the entry, unless the peer has vanished and a write blocks.
CloseEndsTasks == (reg = "closed") ~> (AllEnded \/ peer = "silent")

\* An accepted message goes out as long as the connection stays open.
EmitsGoOut ==
    \A n \in 1 .. MaxEmits :
        (accepted = n) ~> (n \in Elements(wire) \/ reg # "open" \/ peer # "up")

\* What reaches the wire: frames in order, nothing after a close frame, and no
\* accepted message dropped while the writer runs.
WireSound == WireOrder /\ MessagesKept

\* After close() the tasks of the connection end, and accepted messages go out.
ConnectionLive == CloseEndsTasks /\ EmitsGoOut
=============================================================================
