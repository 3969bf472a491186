---------------------------- MODULE ServerDrain ----------------------------
(***************************************************************************)
(* The accept loop of the HTTP server (ffi/doo_ffi_http/src/server.rs):    *)
(* connections limited by a semaphore, one Tokio task per connection that  *)
(* counts itself in ACTIVE_REQUESTS, keep-alive requests, upgrades to      *)
(* WebSocket, and the drain that a signal or doo_runtime_shutdown starts.  *)
(* What a handler does with a request is left out.                         *)
(***************************************************************************)
EXTENDS Naturals, FiniteSets

CONSTANTS
    Conns,     \* client connections, a bound on the model: each is made once
    MaxConns   \* DOO_MAX_CONNECTIONS: permits of the semaphore

ASSUME ConnsFinite == IsFiniteSet(Conns)
ASSUME MaxConnsIsNat == MaxConns \in Nat

VARIABLES
    server,    \* where the accept loop is
    signalled, \* a signal has come, or the cancel token is cancelled
    report,    \* how the loop ended
    permits,   \* what the semaphore has left
    active,    \* ACTIVE_REQUESTS
    conn,      \* where each connection is
    ws,        \* connections upgraded to WebSocket and still open
    awaited    \* history: connections counted when the drain began, not over yet

vars == <<server, signalled, report, permits, active, conn, ws, awaited>>

\* backlog: in the listen queue.  spawned: the task exists and has not run yet.
\* ending: the future of the connection is over, ACTIVE_REQUESTS still counts
\* it.  uncounted: only the permit is left to give back.
ConnStates == {"new", "backlog", "refused", "spawned", "idle", "request",
               "ending", "uncounted", "closed"}
HoldsPermit == {"spawned", "idle", "request", "ending", "uncounted"}
IsCounted   == {"idle", "request", "ending"}

TypeOK ==
    /\ server \in {"accepting", "draining", "exited"}
    /\ signalled \in BOOLEAN
    /\ report \in {"none", "drained", "timeout", "failed"}
    /\ permits \in 0 .. MaxConns
    /\ active \in Nat
    /\ conn \in [Conns -> ConnStates]
    /\ ws \subseteq Conns
    /\ awaited \subseteq Conns

Init ==
    /\ server = "accepting"
    /\ signalled = FALSE
    /\ report = "none"
    /\ permits = MaxConns
    /\ active = 0
    /\ conn = [c \in Conns |-> "new"]
    /\ ws = {}
    /\ awaited = {}

-----------------------------------------------------------------------------
Move(c, from, to) == conn[c] = from /\ conn' = [conn EXCEPT ![c] = to]
Alive == server # "exited"

(* The accept loop.  select! is biased: a pending signal comes before a    *)
(* connection that waits.                                                  *)

\* Mutated: at the limit the loop leaves the client in the queue.
AcceptWaits(c) ==
    /\ server = "accepting"
    /\ ~signalled
    /\ permits > 0
    /\ Move(c, "backlog", "spawned")
    /\ permits' = permits - 1
    /\ UNCHANGED <<server, signalled, report, active, ws, awaited>>

\* Mutated: the permit is taken and dropped again at once.
AcceptDropsPermit(c) ==
    /\ server = "accepting"
    /\ ~signalled
    /\ IF permits > 0 THEN Move(c, "backlog", "spawned") ELSE Move(c, "backlog", "refused")
    /\ UNCHANGED <<server, signalled, report, permits, active, ws, awaited>>

\* With no permit left the stream is dropped at once.
Accept(c) ==
    /\ server = "accepting"
    /\ ~signalled
    /\ IF permits > 0
         THEN Move(c, "backlog", "spawned") /\ permits' = permits - 1
         ELSE Move(c, "backlog", "refused") /\ UNCHANGED permits
    /\ UNCHANGED <<server, signalled, report, active, ws, awaited>>

\* accept() fails: the error leaves the loop, and the server, without a drain.
AcceptFails ==
    /\ server = "accepting"
    /\ ~signalled
    /\ server' = "exited"
    /\ report' = "failed"
    /\ UNCHANGED <<signalled, permits, active, conn, ws, awaited>>

\* The signal is taken: DRAINING is set, the runtime is told to shut down.
BeginDrain ==
    /\ server = "accepting"
    /\ signalled
    /\ server' = "draining"
    /\ awaited' = {c \in Conns : conn[c] \in IsCounted}
    /\ UNCHANGED <<signalled, report, permits, active, conn, ws>>

\* Mutated: one connection may be left.
DrainedAlmost ==
    /\ server = "draining"
    /\ report = "none"
    /\ active <= 1
    /\ report' = "drained"
    /\ UNCHANGED <<server, signalled, permits, active, conn, ws, awaited>>

\* A turn of the drain loop reads the counter and finds zero.
Drained ==
    /\ server = "draining"
    /\ report = "none"
    /\ active = 0
    /\ report' = "drained"
    /\ UNCHANGED <<server, signalled, permits, active, conn, ws, awaited>>

\* Mutated: the deadline is not looked at.
DrainNoDeadline ==
    /\ server = "draining"
    /\ report = "none"
    /\ active # active
    /\ report' = "timeout"
    /\ UNCHANGED <<server, signalled, permits, active, conn, ws, awaited>>

\* A turn finds connections and the deadline passed.  (A turn that finds
\* neither sleeps 250 ms and changes nothing.)
DrainTimeout ==
    /\ server = "draining"
    /\ report = "none"
    /\ active # 0
    /\ report' = "timeout"
    /\ UNCHANGED <<server, signalled, permits, active, conn, ws, awaited>>

\* The function returns, and with main the process ends: no task runs on.
Exit ==
    /\ server = "draining"
    /\ report # "none"
    /\ server' = "exited"
    /\ UNCHANGED <<signalled, report, permits, active, conn, ws, awaited>>

-----------------------------------------------------------------------------
(* The task of a connection.                                               *)

\* The task gets its first turn on a worker thread and counts itself.
StartTask(c) ==
    /\ Alive
    /\ Move(c, "spawned", "idle")
    /\ active' = active + 1
    /\ UNCHANGED <<server, signalled, report, permits, ws, awaited>>

\* handle_request begins on a connection that is kept alive; nothing in it
\* looks at DRAINING except the readiness probe.
BeginRequest(c) ==
    /\ Alive
    /\ Move(c, "idle", "request")
    /\ UNCHANGED <<server, signalled, report, permits, active, ws, awaited>>

EndRequest(c) ==
    /\ Alive
    /\ Move(c, "request", "idle")
    /\ UNCHANGED <<server, signalled, report, permits, active, ws, awaited>>

\* The request was an upgrade: hyper is done with the connection, and a task
\* of its own serves the WebSocket from here on.
Upgrade(c) ==
    /\ Alive
    /\ Move(c, "request", "ending")
    /\ ws' = ws \cup {c}
    /\ UNCHANGED <<server, signalled, report, permits, active, awaited>>

\* The client closes, an error ends the connection, or it is not kept alive.
EndConnection(c) ==
    /\ Alive
    /\ Move(c, "idle", "ending") \/ Move(c, "request", "ending")
    /\ UNCHANGED <<server, signalled, report, permits, active, ws, awaited>>

\* Mutated: a connection that became a WebSocket stays in the count.
UncountUnlessWs(c) ==
    /\ Alive
    /\ Move(c, "ending", "uncounted")
    /\ active' = IF c \in ws THEN active ELSE active - 1
    /\ awaited' = awaited \ {c}
    /\ UNCHANGED <<server, signalled, report, permits, ws>>

Uncount(c) ==
    /\ Alive
    /\ Move(c, "ending", "uncounted")
    /\ active' = active - 1
    /\ awaited' = awaited \ {c}
    /\ UNCHANGED <<server, signalled, report, permits, ws>>

\* drop(permit).
GiveBack(c) ==
    /\ Alive
    /\ Move(c, "uncounted", "closed")
    /\ permits' = permits + 1
    /\ UNCHANGED <<server, signalled, report, active, ws, awaited>>

WsEnds(c) ==
    /\ Alive
    /\ c \in ws
    /\ ws' = ws \ {c}
    /\ UNCHANGED <<server, signalled, report, permits, active, conn, awaited>>

-----------------------------------------------------------------------------
(* The clients, and whoever stops the server.                              *)

Connect(c) ==
    /\ Alive
    /\ Move(c, "new", "backlog")
    /\ UNCHANGED <<server, signalled, report, permits, active, ws, awaited>>

Signal ==
    /\ Alive
    /\ ~signalled
    /\ signalled' = TRUE
    /\ UNCHANGED <<server, report, permits, active, conn, ws, awaited>>

LoopStep == AcceptFails \/ BeginDrain \/ Drained \/ DrainTimeout \/ Exit

TaskStep(c) == StartTask(c) \/ Uncount(c) \/ GiveBack(c)

ConnStep(c) == \/ Connect(c) \/ Accept(c) \/ TaskStep(c)
               \/ BeginRequest(c) \/ EndRequest(c) \/ Upgrade(c)
               \/ EndConnection(c) \/ WsEnds(c)

Next == LoopStep \/ Signal \/ \E c \in Conns : ConnStep(c)

Spec == Init /\ [][Next]_vars

\* The accept loop and the tasks are polled, and the clock reaches the
\* deadline of the drain.  Clients, handlers and signals owe nothing.
Fairness ==
    /\ WF_vars(\E c \in Conns : Accept(c))
    /\ WF_vars(BeginDrain) /\ WF_vars(Drained) /\ WF_vars(DrainTimeout) /\ WF_vars(Exit)
    /\ \A c \in Conns : WF_vars(TaskStep(c))

FairSpec == Spec /\ Fairness

-----------------------------------------------------------------------------
(* Safety.                                                                 *)

Holders == {c \in Conns : conn[c] \in HoldsPermit}
CountedConns == {c \in Conns : conn[c] \in IsCounted}

\* No permit is lost and none is given back twice, and ACTIVE_REQUESTS is
\* exact, upgrades included: the permits out are the connections being served,
\* and the counter never exceeds them.
ConnAccounting ==
    /\ permits + Cardinality(Holders) = MaxConns
    /\ active = Cardinality(CountedConns)
    /\ active + permits <= MaxConns

\* "All connections drained" is only reported when every connection that was
\* counted at the time of the signal is over.
DrainedHonest == report = "drained" => awaited = {}

-----------------------------------------------------------------------------
(* Liveness, under FairSpec.                                               *)

\* Once told to, the server stops, whatever its clients do.
DrainEnds == signalled ~> (server = "exited")

\* A client in the listen queue gets an answer, if only a refusal, unless the
\* server is told to stop.
BacklogServed ==
    \A c \in Conns : (conn[c] = "backlog") ~>
        (conn[c] # "backlog" \/ signalled \/ server = "exited")

\* A drain ends, and waiting connections are served or refused.
ServerLive == DrainEnds /\ BacklogServed
=============================================================================
