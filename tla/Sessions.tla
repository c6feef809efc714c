------------------------------ MODULE Sessions ------------------------------
(***************************************************************************)
(* The life of sessions: bootstrap, connect and disconnect of              *)
(* src/sidecar/src/routes/session.rs, the keepalive tasks of keepalive.rs, *)
(* the upstream calls of upstream.rs, and clients that time out and retry. *)
(*                                                                         *)
(* A local session is derived from all credentials of a wallet, its        *)
(* upstream session from the viewing key alone, so two local sessions may  *)
(* share one.  Every statement, upstream call and lock is a step; handlers *)
(* interleave.                                                             *)
(***************************************************************************)
EXTENDS Naturals, FiniteSets

CONSTANTS
  Sessions,     \* local sessions
  Upstreams,    \* upstream sessions, one per viewing key
  UpstreamOf,   \* the upstream session of each local one
  Requests,     \* requests that may be in progress at once
  MaxFaults,    \* bound: statements and upstream calls that fail
  MaxTimeouts,  \* bound: requests a client gives up on
  MaxRestarts   \* bound: restarts of the process

NoRequest == "none"

ASSUME SessionsAssumption ==
  /\ UpstreamOf \in [Sessions -> Upstreams]
  /\ {MaxFaults, MaxTimeouts, MaxRestarts} \subseteq Nat
  /\ NoRequest \notin Requests

VARIABLES
  mapped,    \* the sessions whose session_profile row names their upstream session
  keepalive, \* upstream sessions with a keepalive task
  pings,     \* upstream sessions with an UPDATE of wallets on its way
  active,    \* wallets.active: the sessions the wallet-indexer works for
  req,       \* the requests in progress
  pending,   \* the request a client waits for, NoRequest for none
  status,    \* what a client knows of its session: "closed", "open", "unknown"
  faults, timeouts, restarts

serverVars == <<mapped, keepalive, pings, active>>
bounds == <<faults, timeouts, restarts>>
vars == <<serverVars, req, pending, status, bounds>>

Idle == [kind |-> "none"]

Request ==
  [kind : {"bootstrap"}, session : Sessions, step : {"connect", "persist", "rollback", "start"}]
    \cup [kind : {"disconnect"}, session : Sessions, step : {"lookup", "stop", "upstream"}]

TypeOK ==
  /\ mapped \subseteq Sessions
  /\ keepalive \subseteq Upstreams /\ pings \subseteq Upstreams /\ active \subseteq Upstreams
  /\ req \in [Requests -> Request \cup {Idle}]
  /\ pending \in [Sessions -> Requests \cup {NoRequest}]
  /\ status \in [Sessions -> {"closed", "open", "unknown"}]
  /\ faults \in 0 .. MaxFaults /\ timeouts \in 0 .. MaxTimeouts /\ restarts \in 0 .. MaxRestarts

Init ==
  /\ mapped = {} /\ keepalive = {} /\ pings = {} /\ active = {}
  /\ req = [r \in Requests |-> Idle]
  /\ pending = [s \in Sessions |-> NoRequest]
  /\ status = [s \in Sessions |-> "closed"]
  /\ faults = 0 /\ timeouts = 0 /\ restarts = 0

-----------------------------------------------------------------------------
(* Requests.                                                               *)

Ask(r, s, kind) ==
  /\ req[r] = Idle
  /\ pending[s] = NoRequest
  /\ kind = "disconnect" => status[s] # "closed"
  /\ req' = [req EXCEPT ![r] =
       [kind |-> kind, session |-> s, step |-> IF kind = "bootstrap" THEN "connect" ELSE "lookup"]]
  /\ pending' = [pending EXCEPT ![s] = r]
  /\ status' = IF kind = "disconnect" THEN [status EXCEPT ![s] = "unknown"] ELSE status
  /\ UNCHANGED <<serverVars, bounds>>

At(r, kind, step) == req[r] # Idle /\ req[r].kind = kind /\ req[r].step = step

Up(r) == UpstreamOf[req[r].session]

GoTo(r, step) ==
  /\ req' = [req EXCEPT ![r].step = step]
  /\ UNCHANGED <<pending, status>>

\* The request ends; its client, if it still waits, takes outcome for its
\* session.
Reply(r, outcome) ==
  LET s == req[r].session
  IN  /\ req' = [req EXCEPT ![r] = Idle]
      /\ IF pending[s] = r
         THEN /\ pending' = [pending EXCEPT ![s] = NoRequest]
              /\ status' = [status EXCEPT ![s] = outcome]
         ELSE UNCHANGED <<pending, status>>

\* An error leaves the client with what it knew.
ReplyError(r) == Reply(r, status[req[r].session])

Fault == faults < MaxFaults /\ faults' = faults + 1 /\ UNCHANGED <<timeouts, restarts>>

-----------------------------------------------------------------------------
(* bootstrap.                                                              *)

\* Mutant of BootstrapConnect: keepalive starts with the connection.
ConnectAndStart(r) ==
  /\ At(r, "bootstrap", "connect")
  /\ active' = active \cup {Up(r)}
  /\ keepalive' = keepalive \cup {Up(r)}
  /\ GoTo(r, "persist")
  /\ UNCHANGED <<mapped, pings, bounds>>

BootstrapConnect(r) ==
  /\ At(r, "bootstrap", "connect")
  /\ active' = active \cup {Up(r)}
  /\ GoTo(r, "persist")
  /\ UNCHANGED <<mapped, keepalive, pings, bounds>>

\* Upstream refuses, or its answer is lost after it connected.
BootstrapConnectFails(r) ==
  /\ At(r, "bootstrap", "connect")
  /\ active' \in {active, active \cup {Up(r)}}
  /\ ReplyError(r)
  /\ Fault
  /\ UNCHANGED <<mapped, keepalive, pings>>

\* One transaction: the profile with its upstream session, and the address.
BootstrapPersist(r) ==
  /\ At(r, "bootstrap", "persist")
  /\ mapped' = mapped \cup {req[r].session}
  /\ GoTo(r, "start")
  /\ UNCHANGED <<keepalive, pings, active, bounds>>

\* The upsert of the profile fails.
BootstrapUpsertFails(r) ==
  /\ At(r, "bootstrap", "persist")
  /\ GoTo(r, "rollback")
  /\ Fault
  /\ UNCHANGED serverVars

\* The upstream session is disconnected, whatever comes of it.
BootstrapRollback(r) ==
  /\ At(r, "bootstrap", "rollback")
  /\ \/ active' = active \ {Up(r)} /\ UNCHANGED bounds
     \/ Fault /\ UNCHANGED active
  /\ ReplyError(r)
  /\ UNCHANGED <<mapped, keepalive, pings>>

\* Opening the transaction, the insert of the address or the commit fails.
BootstrapPersistFails(r) ==
  /\ At(r, "bootstrap", "persist")
  /\ ReplyError(r)
  /\ Fault
  /\ UNCHANGED serverVars

\* Mutant of Started: a task that exists is stopped and not replaced.
StartedOrStopped(u) == IF u \in keepalive THEN keepalive \ {u} ELSE keepalive \cup {u}

\* KeepaliveManager::start, under its lock: an existing task is replaced.
Started(u) == keepalive \cup {u}

\* Mutant of BootstrapStart: the task pings the local session.
BootstrapStartLocal(r) ==
  /\ At(r, "bootstrap", "start")
  /\ keepalive' = Started(req[r].session)
  /\ Reply(r, "open")
  /\ UNCHANGED <<mapped, pings, active, bounds>>

BootstrapStart(r) ==
  /\ At(r, "bootstrap", "start")
  /\ keepalive' = Started(Up(r))
  /\ Reply(r, "open")
  /\ UNCHANGED <<mapped, pings, active, bounds>>

\* connect: proxied, nothing is kept.
ProxyConnect(u) ==
  /\ active' = active \cup {u}
  /\ UNCHANGED <<mapped, keepalive, pings, req, pending, status, bounds>>

-----------------------------------------------------------------------------
(* disconnect.                                                             *)

DisconnectLookup(r) ==
  /\ At(r, "disconnect", "lookup")
  /\ IF req[r].session \in mapped THEN GoTo(r, "stop") ELSE Reply(r, "closed")
  /\ UNCHANGED <<serverVars, bounds>>

\* Mutant of Stopped: the task's handle is dropped without an abort, which
\* detaches the task.
StoppedDetached(u) == keepalive

\* KeepaliveManager::stop, under its lock.
Stopped(u) == keepalive \ {u}

\* Mutant of DisconnectStop: upstream is asked first, and the task is stopped
\* only if that succeeds.
StopOnSuccess(r) ==
  /\ At(r, "disconnect", "stop")
  /\ \/ /\ active' = active \ {Up(r)} /\ keepalive' = Stopped(Up(r))
        /\ Reply(r, "closed")
        /\ UNCHANGED bounds
     \/ ReplyError(r) /\ Fault /\ UNCHANGED <<active, keepalive>>
  /\ UNCHANGED <<mapped, pings>>

DisconnectStop(r) ==
  /\ At(r, "disconnect", "stop")
  /\ keepalive' = Stopped(Up(r))
  /\ GoTo(r, "upstream")
  /\ UNCHANGED <<mapped, pings, active, bounds>>

DisconnectUpstream(r) ==
  /\ At(r, "disconnect", "upstream")
  /\ active' = active \ {Up(r)}
  /\ Reply(r, "closed")
  /\ UNCHANGED <<mapped, keepalive, pings, bounds>>

\* The lookup or the upstream call fails; the call may have had its effect,
\* when its answer is lost or not understood.
DisconnectFails(r) ==
  /\ \/ At(r, "disconnect", "lookup") /\ UNCHANGED active
     \/ At(r, "disconnect", "upstream") /\ active' \in {active, active \ {Up(r)}}
  /\ ReplyError(r)
  /\ Fault
  /\ UNCHANGED <<mapped, keepalive, pings>>

-----------------------------------------------------------------------------
(* keepalive_loop and the wallet-indexer (external).                       *)

\* The interval is over: the statement goes out.
SendPing(u) ==
  /\ u \in keepalive /\ u \notin pings
  /\ pings' = pings \cup {u}
  /\ UNCHANGED <<mapped, keepalive, active, req, pending, status, bounds>>

\* Mutant of Pinged: last_active is set and active is not.
PingedInactive(u) == active

\* UPDATE wallets SET active = true.
Pinged(u) == active \cup {u}

\* PostgreSQL executes it, even if the task has been aborted since.
Ping(u) ==
  /\ u \in pings
  /\ active' = Pinged(u)
  /\ pings' = pings \ {u}
  /\ UNCHANGED <<mapped, keepalive, req, pending, status, bounds>>

\* The wallet-indexer gives up a wallet that is not pinged: KEEPALIVE_INTERVAL
\* is less than its TTL.
Expire(u) ==
  /\ u \in active
  /\ u \notin keepalive \cup pings
  /\ \A r \in Requests : req[r] # Idle => Up(r) # u
  /\ active' = active \ {u}
  /\ UNCHANGED <<mapped, keepalive, pings, req, pending, status, bounds>>

-----------------------------------------------------------------------------
(* Clients that give up, and restarts.                                     *)

\* The client does not wait any longer; the handler runs on, or is dropped
\* with the connection.
TimeOut(s) ==
  LET r == pending[s]
  IN  /\ r # NoRequest
      /\ timeouts < MaxTimeouts
      /\ timeouts' = timeouts + 1
      /\ pending' = [pending EXCEPT ![s] = NoRequest]
      /\ \/ UNCHANGED req
         \/ req' = [req EXCEPT ![r] = Idle]
      /\ UNCHANGED <<serverVars, status, faults, restarts>>

\* The process stops, gracefully (stop_all) or not, and starts again.
Restart ==
  /\ restarts < MaxRestarts
  /\ restarts' = restarts + 1
  /\ keepalive' = {}
  /\ req' = [r \in Requests |-> Idle]
  /\ pending' = [s \in Sessions |-> NoRequest]
  /\ UNCHANGED <<mapped, pings, active, status, faults, timeouts>>

-----------------------------------------------------------------------------
Bootstrap(r) ==
  \/ BootstrapConnect(r) \/ BootstrapConnectFails(r) \/ BootstrapPersist(r)
  \/ BootstrapUpsertFails(r) \/ BootstrapRollback(r) \/ BootstrapPersistFails(r)
  \/ BootstrapStart(r)

Disconnect(r) ==
  \/ DisconnectLookup(r) \/ DisconnectStop(r) \/ DisconnectUpstream(r) \/ DisconnectFails(r)

Next ==
  \/ \E r \in Requests : Bootstrap(r) \/ Disconnect(r)
  \/ \E r \in Requests, s \in Sessions, kind \in {"bootstrap", "disconnect"} : Ask(r, s, kind)
  \/ \E u \in Upstreams : SendPing(u) \/ Ping(u) \/ Expire(u) \/ ProxyConnect(u)
  \/ \E s \in Sessions : TimeOut(s)
  \/ Restart

Spec == Init /\ [][Next]_vars

\* Handlers and keepalive tasks go on, and the wallet-indexer looks for
\* wallets to give up.
FairSpec ==
  /\ Spec
  /\ \A r \in Requests : WF_vars(Bootstrap(r)) /\ WF_vars(Disconnect(r))
  /\ \A u \in Upstreams : WF_vars(SendPing(u)) /\ WF_vars(Ping(u)) /\ SF_vars(Expire(u))

-----------------------------------------------------------------------------
(* Properties.                                                             *)

\* Keepalive runs only for upstream sessions that a stored profile names: what
\* bootstrap could not store is not kept alive, whichever handlers interleave.
KeepaliveIsMapped == \A u \in keepalive : \E s \in mapped : UpstreamOf[s] = u

\* The sessions with the viewing key of u are all in the same state.
Every(u, st) == \A s \in Sessions : UpstreamOf[s] = u => status[s] = st

\* "Keepalive maintains wallet activity": a session whose bootstrap succeeded,
\* and that its client has not disconnected, has its keepalive task; as long
\* as no client has given up on a request and the process has not restarted.
OpenKeptAlive ==
  timeouts = 0 /\ restarts = 0 =>
    \A s \in Sessions : status[s] = "open" => UpstreamOf[s] \in keepalive

\* The same for a viewing key of which every session is open: repeated
\* bootstraps and interleaved disconnections never leave it without its task.
KeyKeptAlive ==
  timeouts = 0 /\ restarts = 0 =>
    \A s \in Sessions : Every(UpstreamOf[s], "open") => UpstreamOf[s] \in keepalive

\* A wallet that is kept alive and was disconnected behind its back becomes
\* active again.
KeptAliveIsActivated ==
  \A u \in Upstreams : u \in keepalive ~> (u \notin keepalive \/ u \in active)

\* A wallet whose clients have disconnected all its sessions does not stay
\* active upstream for ever, whatever failed on the way and through restarts;
\* unless a client gave up on a request, which may still be carried out.
ClosedGoesDown ==
  \A u \in Upstreams :
    Every(u, "closed") ~> (~Every(u, "closed") \/ u \notin active \/ timeouts > 0)

\* A disconnection that has found its upstream session takes the wallet down
\* in the end, even if the upstream call fails or the process restarts on the
\* way; unless a bootstrap of the same key is about to start the task again,
\* or a client gave up on a request, with which the handler may be dropped.
DisconnectTakesDown ==
  \A u \in Upstreams :
    (\E r \in Requests : At(r, "disconnect", "stop") /\ Up(r) = u)
      ~> \/ u \notin active
         \/ \E r \in Requests : At(r, "bootstrap", "start") /\ Up(r) = u
         \/ timeouts > 0
=============================================================================
