------------------------------- MODULE Server -------------------------------
(***************************************************************************)
(* The process that main.rs starts: the connection pool that SSE streams,  *)
(* requests and keepalive tasks share, and the graceful shutdown.          *)
(*                                                                         *)
(* A stream (run_stream) keeps the connection of its snapshot transaction  *)
(* while it builds a batch, and merkle_cache.rs takes a second one from    *)
(* the same pool for each of its statements.  An acquisition that gets no  *)
(* connection within acquire_timeout fails.  A request is a bootstrap: it  *)
(* needs a connection and starts a task.  A step names what its process    *)
(* is at; in a step of Waiting it waits for a connection.                  *)
(***************************************************************************)
EXTENDS Naturals, FiniteSets

CONSTANTS
  Streams,       \* SSE clients, each with at most one stream
  Sessions,      \* sessions, each with at most one request and one task
  MaxConnections \* max_connections of the pool

ASSUME ServerAssumption ==
  /\ IsFiniteSet(Streams) /\ IsFiniteSet(Sessions)
  /\ MaxConnections \in Nat \ {0}

VARIABLES
  phase,     \* "serving", "draining", "stopping", "stopped", "exited"
  taken,     \* the connections in use: <<owner, what for>>
  connected, \* the SSE clients whose response is not over
  stream,    \* the step of each run_stream
  request,   \* the step of each bootstrap
  task       \* the step of each keepalive task

vars == <<phase, taken, connected, stream, request, task>>

Waiting == {"enter", "snapshot", "cache", "insert", "raise"}

Granted ==
  [enter |-> "entering", snapshot |-> "building", cache |-> "looking",
   insert |-> "inserting", raise |-> "raising"]

\* A snapshot transaction is open.
Building ==
  {"building", "cache", "looking", "dial", "fetch", "insert", "inserting", "raise", "raising"}

\* A statement runs on a connection of its own.
Querying == {"entering", "looking", "inserting", "raising"}

TypeOK ==
  /\ phase \in {"serving", "draining", "stopping", "stopped", "exited"}
  /\ taken \subseteq (Streams \X {"snapshot", "query"}) \cup (Sessions \X {"request", "ping"})
  /\ connected \subseteq Streams
  /\ stream \in [Streams -> Waiting \cup Building \cup Querying \cup {"off", "rest", "send"}]
  /\ request \in [Sessions -> {"none", "connect", "persist", "persisting", "start"}]
  /\ task \in [Sessions -> {"none", "sleep", "wait", "pinging"}]

Init ==
  /\ phase = "serving" /\ taken = {} /\ connected = {}
  /\ stream = [s \in Streams |-> "off"]
  /\ request = [u \in Sessions |-> "none"]
  /\ task = [u \in Sessions |-> "none"]

Free == Cardinality(taken) < MaxConnections

Acquired(owner, use) == Free /\ taken' = taken \cup {<<owner, use>>}

Released(owner, uses) == taken' = taken \ ({owner} \X uses)

Running == phase # "exited"

GoTo(s, step) == stream' = [stream EXCEPT ![s] = step]

-----------------------------------------------------------------------------
(* SSE streams.                                                            *)

\* subscribe_feed: a new connection is only accepted before the shutdown.
Connect(s) ==
  /\ phase = "serving"
  /\ s \notin connected /\ stream[s] = "off"
  /\ connected' = connected \cup {s}
  /\ GoTo(s, "enter")
  /\ UNCHANGED <<phase, taken, request, task>>

\* The pool grants what the stream waits for.
Acquire(s) ==
  /\ Running
  /\ stream[s] \in Waiting
  /\ Acquired(s, IF stream[s] = "snapshot" THEN "snapshot" ELSE "query")
  /\ GoTo(s, Granted[stream[s]])
  /\ UNCHANGED <<phase, connected, request, task>>

\* Mutant of AfterTimeout: the cache is waited for as long as it takes.
AfterTimeoutPatient(s) ==
  CASE stream[s] \in {"enter", "snapshot"} -> "off"
    [] stream[s] \in {"insert", "raise"} -> "building"
    [] OTHER -> stream[s]

\* What becomes of a stream that got no connection: without its session or its
\* snapshot it ends, without the cache it goes upstream, what it cannot store
\* it leaves.
AfterTimeout(s) ==
  CASE stream[s] \in {"enter", "snapshot"} -> "off"
    [] stream[s] = "cache" -> "dial"
    [] OTHER -> "building"

\* acquire_timeout.
TimeOut(s) ==
  /\ Running
  /\ stream[s] \in Waiting /\ ~Free
  /\ GoTo(s, AfterTimeout(s))
  /\ UNCHANGED <<phase, taken, connected, request, task>>

\* A statement of the stream's own connection is done.
Entered(s) ==
  /\ Running
  /\ stream[s] = "entering"
  /\ GoTo(s, "snapshot")
  /\ Released(s, {"query"})
  /\ UNCHANGED <<phase, connected, request, task>>

\* build_block_bundles_tx comes to a gap in the merkle tree.
MeetGap(s) ==
  /\ Running
  /\ stream[s] = "building"
  /\ GoTo(s, "cache")
  /\ UNCHANGED <<phase, taken, connected, request, task>>

\* get_cached_updates: the range is cached, or it is not.
LookedUp(s) ==
  /\ Running
  /\ stream[s] = "looking"
  /\ \E next \in {"building", "dial"} : GoTo(s, next)
  /\ Released(s, {"query"})
  /\ UNCHANGED <<phase, connected, request, task>>

\* fetch_merkle_updates up to the subscription: the connection is made, and the
\* messages are sent, or that fails.  Neither has a timeout.
Dialed(s) ==
  /\ Running
  /\ stream[s] = "dial"
  /\ \E next \in {"building", "fetch"} : GoTo(s, next)
  /\ UNCHANGED <<phase, taken, connected, request, task>>

\* The rest of it: updates, an error or the timeout of the collection.
Fetched(s) ==
  /\ Running
  /\ stream[s] = "fetch"
  /\ \E next \in {"building", "insert"} : GoTo(s, next)
  /\ UNCHANGED <<phase, taken, connected, request, task>>

\* store_updates: its statements; a failure is only logged.
Stored(s) ==
  /\ Running
  /\ \/ stream[s] = "inserting" /\ GoTo(s, "raise")
     \/ stream[s] \in {"inserting", "raising"} /\ GoTo(s, "building")
  /\ Released(s, {"query"})
  /\ UNCHANGED <<phase, connected, request, task>>

\* Mutant of FinishBuild: the snapshot stays open while the batch is sent.
FinishBuildOpen(s) ==
  /\ Running
  /\ stream[s] = "building"
  /\ \E next \in {"send", "rest"} : GoTo(s, next)
  /\ UNCHANGED <<phase, taken, connected, request, task>>

\* The batch is built, or there is nothing to send: the snapshot is committed.
FinishBuild(s) ==
  /\ Running
  /\ stream[s] = "building"
  /\ \E next \in {"send", "rest"} : GoTo(s, next)
  /\ Released(s, {"snapshot"})
  /\ UNCHANGED <<phase, connected, request, task>>

\* send_event: the client takes the batch, or the stream ends: the client is
\* gone or too slow, or what was sent was a reset.
Send(s) ==
  /\ Running
  /\ stream[s] = "send"
  /\ \/ s \in connected /\ GoTo(s, "rest")
     \/ GoTo(s, "off")
  /\ UNCHANGED <<phase, taken, connected, request, task>>

\* The head of the loop: tx.is_closed.
Loop(s) ==
  /\ Running
  /\ stream[s] = "rest"
  /\ GoTo(s, IF s \in connected THEN "snapshot" ELSE "off")
  /\ UNCHANGED <<phase, taken, connected, request, task>>

\* A statement of the stream's snapshot fails.
StreamFails(s) ==
  /\ Running
  /\ stream[s] \in {"entering", "building"}
  /\ GoTo(s, "off")
  /\ Released(s, {"snapshot", "query"})
  /\ UNCHANGED <<phase, connected, request, task>>

\* The client closes its connection.
Leave(s) ==
  /\ s \in connected
  /\ connected' = connected \ {s}
  /\ UNCHANGED <<phase, taken, stream, request, task>>

\* The client reads to the end of a response whose stream has ended.
EndOfBody(s) ==
  /\ s \in connected /\ stream[s] = "off"
  /\ connected' = connected \ {s}
  /\ UNCHANGED <<phase, taken, stream, request, task>>

-----------------------------------------------------------------------------
(* Requests.                                                               *)

Ask(u) ==
  /\ phase = "serving"
  /\ request[u] = "none"
  /\ request' = [request EXCEPT ![u] = "connect"]
  /\ UNCHANGED <<phase, taken, connected, stream, task>>

\* Upstream answers within its timeout, or the request fails.
UpstreamAnswers(u) ==
  /\ request[u] = "connect"
  /\ \E next \in {"persist", "none"} : request' = [request EXCEPT ![u] = next]
  /\ UNCHANGED <<phase, taken, connected, stream, task>>

AcquireForRequest(u) ==
  /\ request[u] = "persist"
  /\ \/ Acquired(u, "request") /\ request' = [request EXCEPT ![u] = "persisting"]
     \/ ~Free /\ request' = [request EXCEPT ![u] = "none"] /\ UNCHANGED taken
  /\ UNCHANGED <<phase, connected, stream, task>>

Persisted(u) ==
  /\ request[u] = "persisting"
  /\ \E next \in {"start", "none"} : request' = [request EXCEPT ![u] = next]
  /\ Released(u, {"request"})
  /\ UNCHANGED <<phase, connected, stream, task>>

\* KeepaliveManager::start: an old task is aborted, wherever it is.
Start(u) ==
  /\ request[u] = "start"
  /\ request' = [request EXCEPT ![u] = "none"]
  /\ task' = [task EXCEPT ![u] = "sleep"]
  /\ Released(u, {"ping"})
  /\ UNCHANGED <<phase, connected, stream>>

\* The client goes away and the handler is dropped.
Drop(u) ==
  /\ request[u] # "none"
  /\ request' = [request EXCEPT ![u] = "none"]
  /\ Released(u, {"request"})
  /\ UNCHANGED <<phase, connected, stream, task>>

-----------------------------------------------------------------------------
(* Keepalive tasks.                                                        *)

Wake(u) ==
  /\ task[u] = "sleep"
  /\ task' = [task EXCEPT ![u] = "wait"]
  /\ UNCHANGED <<phase, taken, connected, stream, request>>

AcquireForPing(u) ==
  /\ task[u] = "wait"
  /\ \/ Acquired(u, "ping") /\ task' = [task EXCEPT ![u] = "pinging"]
     \/ ~Free /\ task' = [task EXCEPT ![u] = "sleep"] /\ UNCHANGED taken
  /\ UNCHANGED <<phase, connected, stream, request>>

Pinged(u) ==
  /\ task[u] = "pinging"
  /\ task' = [task EXCEPT ![u] = "sleep"]
  /\ Released(u, {"ping"})
  /\ UNCHANGED <<phase, connected, stream, request>>

\* disconnect: KeepaliveManager::stop, also from a request that is drained.
Stop(u) ==
  /\ phase \in {"serving", "draining"}
  /\ task[u] # "none"
  /\ task' = [task EXCEPT ![u] = "none"]
  /\ Released(u, {"ping"})
  /\ UNCHANGED <<phase, connected, stream, request>>

-----------------------------------------------------------------------------
(* Shutdown.                                                               *)

\* shutdown_signal.
Signal ==
  /\ phase = "serving"
  /\ phase' = "draining"
  /\ UNCHANGED <<taken, connected, stream, request, task>>

\* Mutant of Drained: requests in progress are not waited for.
DrainedOfStreams ==
  /\ phase = "draining"
  /\ connected = {}
  /\ phase' = "stopping"
  /\ UNCHANGED <<taken, connected, stream, request, task>>

\* Mutant of Drained: the keepalive loops are waited for before they are told
\* to stop.
DrainedOfTasks ==
  /\ phase = "draining"
  /\ connected = {} /\ \A u \in Sessions : request[u] = "none" /\ task[u] = "none"
  /\ phase' = "stopping"
  /\ UNCHANGED <<taken, connected, stream, request, task>>

\* axum::serve returns when no response is in progress any more.
Drained ==
  /\ phase = "draining"
  /\ connected = {} /\ \A u \in Sessions : request[u] = "none"
  /\ phase' = "stopping"
  /\ UNCHANGED <<taken, connected, stream, request, task>>

\* Mutant of StopAll: the map of tasks is dropped instead of being drained.
StopAllClears ==
  /\ phase = "stopping"
  /\ phase' = "stopped"
  /\ task' = <<>>
  /\ taken' = taken \ (Sessions \X {"ping"})
  /\ UNCHANGED <<connected, stream, request>>

\* KeepaliveManager::stop_all.
StopAll ==
  /\ phase = "stopping"
  /\ phase' = "stopped"
  /\ task' = [u \in Sessions |-> "none"]
  /\ taken' = taken \ (Sessions \X {"ping"})
  /\ UNCHANGED <<connected, stream, request>>

\* main returns: streams whose clients have gone are cut wherever they are.
Exit ==
  /\ phase = "stopped"
  /\ phase' = "exited"
  /\ stream' = [s \in Streams |-> "off"]
  /\ taken' = taken \ (Streams \X {"snapshot", "query"})
  /\ UNCHANGED <<connected, request, task>>

-----------------------------------------------------------------------------
Stream(s) ==
  \/ Acquire(s) \/ TimeOut(s) \/ Entered(s) \/ LookedUp(s) \/ Fetched(s) \/ Stored(s)
  \/ Send(s) \/ Loop(s)

Handle(u) ==
  \/ UpstreamAnswers(u) \/ AcquireForRequest(u) \/ Persisted(u) \/ Start(u)

Keepalive(u) == Wake(u) \/ AcquireForPing(u) \/ Pinged(u)

Shutdown == Drained \/ StopAll \/ Exit

Next ==
  \/ \E s \in Streams :
       \/ Stream(s) \/ Connect(s) \/ MeetGap(s) \/ Dialed(s) \/ FinishBuild(s)
       \/ StreamFails(s) \/ Leave(s) \/ EndOfBody(s)
  \/ \E u \in Sessions : Ask(u) \/ Handle(u) \/ Drop(u) \/ Keepalive(u) \/ Stop(u)
  \/ Signal \/ Shutdown

Spec == Init /\ [][Next]_vars

\* Tasks and handlers go on: statements end, the pool serves in order or the
\* acquisition times out, the upstream calls of a bootstrap and the collection
\* of updates have timeouts, and a batch has a last transaction.  Upstream owes
\* no answer to Dialed, clients owe nothing, and nobody has to stop the server.
FairSpec ==
  /\ Spec
  /\ \A s \in Streams : WF_vars(Stream(s)) /\ SF_vars(FinishBuild(s))
  /\ \A u \in Sessions : WF_vars(Handle(u)) /\ WF_vars(Keepalive(u))
  /\ WF_vars(Shutdown)

-----------------------------------------------------------------------------
(* Properties.                                                             *)

\* The connections in use are those of the steps: no timeout, failure, abort
\* or dropped handler keeps one.
NoneLeaks ==
  taken =
    {l \in Streams \X {"snapshot"} : stream[l[1]] \in Building}
      \cup {l \in Streams \X {"query"} : stream[l[1]] \in Querying}
      \cup {l \in Sessions \X {"request"} : request[l[1]] = "persisting"}
      \cup {l \in Sessions \X {"ping"} : task[l[1]] = "pinging"}

\* The shutdown ends no response and no request half-way, and no keepalive
\* task is started behind stop_all.
CleanExit ==
  /\ phase \in {"stopping", "stopped", "exited"} =>
       connected = {} /\ \A u \in Sessions : request[u] = "none"
  /\ phase \in {"stopped", "exited"} => \A u \in Sessions : task[u] = "none"

\* Streams that hold all connections for their snapshots, and each wait for
\* one more, do not wait for ever: a snapshot is closed again, unless upstream
\* leaves this very stream without an answer to its connection; one that hangs
\* there stops no other.
SnapshotsCloseOrHang ==
  \A s \in Streams :
    stream[s] \in Building ~> (stream[s] \notin Building \/ [](stream[s] = "dial"))

\* Every snapshot is closed again, whatever upstream does, as with a timeout on
\* each upstream call.  The handshake and the sends have none, so it does not
\* hold; see README.
SnapshotsClose ==
  \A s \in Streams : stream[s] \in Building ~> stream[s] \notin Building

\* Once told to stop, and left by its SSE clients, the process exits.
ShutdownCompletes == (phase = "draining" /\ connected = {}) ~> phase = "exited"
=============================================================================
