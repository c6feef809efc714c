-------------------------- MODULE Sessions_proofs --------------------------
(***************************************************************************)
(* Sessions for any number of sessions, keys and requests: the types, that *)
(* keepalive runs only for upstream sessions that a stored profile names   *)
(* (IInv), and that it runs for every key whose sessions are open (KeyInv).*)
(***************************************************************************)
EXTENDS Sessions, TLAPS

\* A bootstrap that has stored its profile finds it stored: what makes
\* KeepaliveIsMapped inductive.
StartIsMapped ==
  \A r \in Requests : At(r, "bootstrap", "start") => req[r].session \in mapped

IInv == TypeOK /\ StartIsMapped /\ KeepaliveIsMapped

\* The constants and parameters of a step, where every action takes them from.
LEMMA RequestSteps ==
  ASSUME TypeOK, NEW r \in Requests, req[r] # Idle
  PROVE  /\ req[r] \in Request
         /\ req[r].session \in Sessions
         /\ Up(r) \in Upstreams
  BY SessionsAssumption DEF TypeOK, Request, Up

\* Initially nothing is stored and nothing runs.
LEMMA InitIInv == Init => IInv
  BY SessionsAssumption
  DEF Init, IInv, TypeOK, StartIsMapped, KeepaliveIsMapped, At, Idle, NoRequest

\* A handler that ends, leaves a well-typed record of it, whatever its client
\* makes of the outcome, and every other request as it was.
LEMMA ReplyKeeps ==
  ASSUME TypeOK, NEW r \in Requests, req[r] # Idle,
         NEW outcome \in {"closed", "open", "unknown"}, Reply(r, outcome)
  PROVE  /\ req' \in [Requests -> Request \cup {Idle}]
         /\ pending' \in [Sessions -> Requests \cup {NoRequest}]
         /\ status' \in [Sessions -> {"closed", "open", "unknown"}]
         /\ req' = [req EXCEPT ![r] = Idle]
  BY RequestSteps DEF TypeOK, Reply

LEMMA ReplyErrorKeeps ==
  ASSUME TypeOK, NEW r \in Requests, req[r] # Idle, ReplyError(r)
  PROVE  /\ req' \in [Requests -> Request \cup {Idle}]
         /\ pending' \in [Sessions -> Requests \cup {NoRequest}]
         /\ status' \in [Sessions -> {"closed", "open", "unknown"}]
         /\ req' = [req EXCEPT ![r] = Idle]
<1>1. status[req[r].session] \in {"closed", "open", "unknown"}
  BY RequestSteps DEF TypeOK
<1> QED
  BY <1>1, ReplyKeeps DEF ReplyError

-----------------------------------------------------------------------------
(* Steps of the tables: the invariant holds if a step adds keepalive only  *)
(* for a stored session and forgets no stored one.                         *)

LEMMA BootstrapKeeps ==
  ASSUME IInv, NEW r \in Requests, Bootstrap(r)
  PROVE  IInv'
<1> USE DEF IInv
<1>1. /\ req[r] # Idle
      /\ req[r] \in Request
      /\ req[r].session \in Sessions
      /\ Up(r) \in Upstreams
      /\ req[r].kind = "bootstrap"
      /\ Up(r) = UpstreamOf[req[r].session]
  <2>1. At(r, "bootstrap", req[r].step)
    BY DEF Bootstrap, BootstrapConnect, BootstrapConnectFails, BootstrapPersist,
           BootstrapUpsertFails, BootstrapRollback, BootstrapPersistFails, BootstrapStart, At
  <2> QED
    BY <2>1, RequestSteps DEF At, Up
<1>2. CASE BootstrapConnect(r)
  BY <1>1, <1>2
  DEF BootstrapConnect, GoTo, At, TypeOK, StartIsMapped, KeepaliveIsMapped, Request, bounds
<1>3. CASE BootstrapConnectFails(r)
  BY <1>1, <1>3, ReplyErrorKeeps, SessionsAssumption
  DEF BootstrapConnectFails, Fault, At, TypeOK, StartIsMapped, KeepaliveIsMapped, Idle
<1>4. CASE BootstrapPersist(r)
  BY <1>1, <1>4
  DEF BootstrapPersist, GoTo, At, TypeOK, StartIsMapped, KeepaliveIsMapped, Request, bounds
<1>5. CASE BootstrapUpsertFails(r)
  BY <1>1, <1>5, SessionsAssumption
  DEF BootstrapUpsertFails, GoTo, Fault, At, TypeOK, StartIsMapped, KeepaliveIsMapped,
      Request, serverVars
<1>6. CASE BootstrapRollback(r)
  BY <1>1, <1>6, ReplyErrorKeeps, SessionsAssumption
  DEF BootstrapRollback, Fault, At, TypeOK, StartIsMapped, KeepaliveIsMapped, Idle, bounds
<1>7. CASE BootstrapPersistFails(r)
  BY <1>1, <1>7, ReplyErrorKeeps, SessionsAssumption
  DEF BootstrapPersistFails, Fault, At, TypeOK, StartIsMapped, KeepaliveIsMapped, Idle, serverVars
<1>8. CASE BootstrapStart(r)
  <2>1. req[r].session \in mapped
    BY <1>8 DEF BootstrapStart, StartIsMapped
  <2>2. /\ req' \in [Requests -> Request \cup {Idle}]
        /\ pending' \in [Sessions -> Requests \cup {NoRequest}]
        /\ status' \in [Sessions -> {"closed", "open", "unknown"}]
        /\ req' = [req EXCEPT ![r] = Idle]
    BY <1>1, <1>8, ReplyKeeps DEF BootstrapStart
  <2> QED
    BY <1>1, <1>8, <2>1, <2>2
    DEF BootstrapStart, Started, At, TypeOK, StartIsMapped, KeepaliveIsMapped, Idle, bounds
<1> QED
  BY <1>2, <1>3, <1>4, <1>5, <1>6, <1>7, <1>8 DEF Bootstrap

LEMMA DisconnectKeeps ==
  ASSUME IInv, NEW r \in Requests, Disconnect(r)
  PROVE  IInv'
<1> USE DEF IInv
<1>1. /\ req[r] # Idle
      /\ req[r] \in Request
      /\ req[r].session \in Sessions
      /\ req[r].kind = "disconnect"
  <2>1. At(r, "disconnect", req[r].step)
    BY DEF Disconnect, DisconnectLookup, DisconnectStop, DisconnectUpstream, DisconnectFails, At
  <2> QED
    BY <2>1, RequestSteps DEF At
<1>2. CASE DisconnectLookup(r)
  <2>1. CASE GoTo(r, "stop")
    BY <1>1, <1>2, <2>1
    DEF DisconnectLookup, GoTo, At, TypeOK, StartIsMapped, KeepaliveIsMapped, Request,
        serverVars, bounds
  <2>2. CASE Reply(r, "closed")
    BY <1>1, <1>2, <2>2, ReplyKeeps
    DEF DisconnectLookup, At, TypeOK, StartIsMapped, KeepaliveIsMapped, Idle, serverVars, bounds
  <2> QED
    BY <1>2, <2>1, <2>2 DEF DisconnectLookup
<1>3. CASE DisconnectStop(r)
  BY <1>1, <1>3
  DEF DisconnectStop, Stopped, GoTo, At, TypeOK, StartIsMapped, KeepaliveIsMapped, Request, bounds
<1>4. CASE DisconnectUpstream(r)
  BY <1>1, <1>4, ReplyKeeps
  DEF DisconnectUpstream, At, TypeOK, StartIsMapped, KeepaliveIsMapped, Idle, bounds
<1>5. CASE DisconnectFails(r)
  BY <1>1, <1>5, ReplyErrorKeeps, SessionsAssumption
  DEF DisconnectFails, Fault, At, TypeOK, StartIsMapped, KeepaliveIsMapped, Idle, serverVars
<1> QED
  BY <1>2, <1>3, <1>4, <1>5 DEF Disconnect

LEMMA AskKeeps ==
  ASSUME IInv, NEW r \in Requests, NEW s \in Sessions, NEW kind \in {"bootstrap", "disconnect"},
         Ask(r, s, kind)
  PROVE  IInv'
  BY DEF IInv, Ask, At, TypeOK, StartIsMapped, KeepaliveIsMapped, Request, Idle, serverVars, bounds

LEMMA UpstreamKeeps ==
  ASSUME IInv, NEW u \in Upstreams, SendPing(u) \/ Ping(u) \/ Expire(u) \/ ProxyConnect(u)
  PROVE  IInv'
<1> USE DEF IInv, TypeOK, StartIsMapped, KeepaliveIsMapped, At, bounds
<1>1. CASE SendPing(u)
  BY <1>1 DEF SendPing
<1>2. CASE Ping(u)
  BY <1>2 DEF Ping, Pinged
<1>3. CASE Expire(u)
  BY <1>3 DEF Expire
<1>4. CASE ProxyConnect(u)
  BY <1>4 DEF ProxyConnect
<1> QED
  BY <1>1, <1>2, <1>3, <1>4

\* A request that is dropped is Idle, which is at no step.
LEMMA TimeOutKeeps ==
  ASSUME IInv, NEW s \in Sessions, TimeOut(s)
  PROVE  IInv'
<1> USE DEF IInv
<1>1. pending[s] \in Requests
  BY DEF TypeOK, TimeOut
<1>2. TypeOK'
  BY <1>1, SessionsAssumption DEF TimeOut, TypeOK, serverVars
<1>3. StartIsMapped' /\ KeepaliveIsMapped'
  BY <1>1 DEF TimeOut, TypeOK, StartIsMapped, KeepaliveIsMapped, At, Idle, serverVars
<1> QED
  BY <1>2, <1>3

LEMMA RestartKeeps ==
  ASSUME IInv, Restart
  PROVE  IInv'
  BY SessionsAssumption
  DEF IInv, Restart, TypeOK, StartIsMapped, KeepaliveIsMapped, At, Idle

LEMMA StepIInv == IInv /\ [Next]_vars => IInv'
<1> SUFFICES ASSUME IInv, [Next]_vars
             PROVE  IInv'
  OBVIOUS
<1>1. CASE UNCHANGED vars
  BY <1>1
  DEF IInv, TypeOK, StartIsMapped, KeepaliveIsMapped, At, vars, serverVars, bounds
<1>2. CASE Next
  BY <1>2, BootstrapKeeps, DisconnectKeeps, AskKeeps, UpstreamKeeps, TimeOutKeeps, RestartKeeps
  DEF Next
<1> QED
  BY <1>1, <1>2

-----------------------------------------------------------------------------
\* The inductive invariant holds throughout: a handler of bootstrap reaches
\* keepalive.start only after its commit.
THEOREM SessionsInvariant == Spec => []IInv
  BY InitIInv, StepIInv, PTL DEF Spec

\* TypeOK: requests, tasks and rows have their types, and the bounds hold.
THEOREM SessionsTypeCorrect == Spec => []TypeOK
<1>1. IInv => TypeOK
  BY DEF IInv
<1> QED
  BY <1>1, SessionsInvariant, PTL

\* KeepaliveIsMapped: whatever handlers, timeouts, failures and restarts
\* interleave, no keepalive task runs for an upstream session that
\* disconnect could not find again in session_profile.
THEOREM KeepaliveStaysMapped == Spec => []KeepaliveIsMapped
<1>1. IInv => KeepaliveIsMapped
  BY DEF IInv
<1> QED
  BY <1>1, SessionsInvariant, PTL

-----------------------------------------------------------------------------
(* As long as no client has given up on a request, a session has one       *)
(* request in progress at most, and the client of a disconnection does not *)
(* take its session for open.                                              *)

OneHandler ==
  timeouts = 0 => \A r \in Requests : req[r] # Idle => pending[req[r].session] = r

ClosingIsUnknown ==
  timeouts = 0 =>
    \A r \in Requests :
      req[r] # Idle /\ req[r].kind = "disconnect" => status[req[r].session] = "unknown"

KeyInv == OneHandler /\ ClosingIsUnknown /\ KeyKeptAlive

\* A handler that goes on to its next step, with the task it starts or stops.
LEMMA GoToKeeps ==
  ASSUME IInv, KeyInv, NEW r \in Requests, req[r] # Idle, NEW step, GoTo(r, step),
         UNCHANGED <<timeouts, restarts>>,
         \/ keepalive \subseteq keepalive'
         \/ req[r].kind = "disconnect" /\ keepalive' = keepalive \ {Up(r)}
  PROVE  KeyInv'
<1>1. /\ req[r] \in Request /\ req[r].session \in Sessions
      /\ req \in [Requests -> Request \cup {Idle}]
  BY RequestSteps DEF IInv, TypeOK
<1>2. req' = [req EXCEPT ![r].step = step] /\ UNCHANGED <<pending, status>>
  BY DEF GoTo
<1>3. ASSUME NEW q \in Requests, req'[q] # Idle
      PROVE  /\ req[q] # Idle /\ req'[q].session = req[q].session
             /\ req'[q].kind = req[q].kind
  <2>1. CASE q = r
    BY <1>1, <1>2, <2>1 DEF Request
  <2>2. CASE q # r
    BY <1>1, <1>2, <1>3, <2>2
  <2>3. QED
    BY <2>1, <2>2
<1>4. OneHandler' /\ ClosingIsUnknown'
  BY <1>2, <1>3 DEF KeyInv, OneHandler, ClosingIsUnknown
<1>5. KeyKeptAlive'
  <2>1. CASE keepalive \subseteq keepalive'
    BY <1>2, <2>1 DEF KeyInv, KeyKeptAlive, Every
  <2>2. CASE req[r].kind = "disconnect" /\ keepalive' = keepalive \ {Up(r)}
    <3>1. timeouts = 0 => ~Every(Up(r), "open")
      BY <1>1, <2>2 DEF KeyInv, ClosingIsUnknown, Every, Up
    <3>2. QED
      BY <1>2, <2>2, <3>1 DEF KeyInv, KeyKeptAlive, Every
  <2>3. QED
    BY <2>1, <2>2
<1>6. QED
  BY <1>4, <1>5 DEF KeyInv

\* A handler that ends; only one that has started the task reports an open
\* session.
LEMMA ReplyStep ==
  ASSUME IInv, KeyInv, NEW r \in Requests, req[r] # Idle, NEW outcome, Reply(r, outcome),
         UNCHANGED <<timeouts, restarts>>, keepalive \subseteq keepalive',
         \/ outcome = "open" /\ Up(r) \in keepalive'
         \/ outcome = "closed"
         \/ outcome = status[req[r].session]
  PROVE  KeyInv'
<1> DEFINE s == req[r].session
<1>1. /\ req[r] \in Request /\ s \in Sessions /\ Up(r) = UpstreamOf[s]
      /\ req \in [Requests -> Request \cup {Idle}]
      /\ pending \in [Sessions -> Requests \cup {NoRequest}]
      /\ status \in [Sessions -> {"closed", "open", "unknown"}]
  BY RequestSteps DEF IInv, TypeOK, Up
<1>2. req' = [req EXCEPT ![r] = Idle]
  BY DEF Reply
<1>3. /\ \A t \in Sessions : t # s => pending'[t] = pending[t] /\ status'[t] = status[t]
      /\ status'[s] \in {outcome, status[s]}
  BY <1>1 DEF Reply
<1>4. ASSUME NEW q \in Requests, req'[q] # Idle
      PROVE  /\ q # r /\ req'[q] = req[q] /\ req[q].session \in Sessions
             /\ timeouts = 0 => req[q].session # s
  <2>1. q # r /\ req'[q] = req[q]
    BY <1>1, <1>2, <1>4
  <2>2. req[q].session \in Sessions
    BY <1>4, <2>1, RequestSteps DEF IInv
  <2>3. timeouts = 0 => pending[req[q].session] = q /\ pending[s] = r
    BY <1>4, <2>1 DEF KeyInv, OneHandler
  <2>4. QED
    BY <2>1, <2>2, <2>3
<1>5. OneHandler' /\ ClosingIsUnknown'
  BY <1>3, <1>4 DEF KeyInv, OneHandler, ClosingIsUnknown
<1>6. KeyKeptAlive'
  <2>1. ASSUME timeouts = 0, restarts = 0, NEW t \in Sessions, Every(UpstreamOf[t], "open")'
        PROVE  UpstreamOf[t] \in keepalive'
    <3>1. CASE Every(UpstreamOf[t], "open")
      BY <2>1, <3>1 DEF KeyInv, KeyKeptAlive
    <3>2. CASE ~Every(UpstreamOf[t], "open")
      <4>1. PICK v \in Sessions : UpstreamOf[v] = UpstreamOf[t] /\ status[v] # "open"
        BY <3>2 DEF Every
      <4>2. status'[v] = "open"
        BY <2>1, <4>1 DEF Every
      <4>3. v = s /\ outcome = "open"
        BY <1>3, <4>1, <4>2
      <4>4. status[s] # "open"
        BY <4>1, <4>3
      <4>5. QED
        BY <1>1, <4>1, <4>3, <4>4
    <3>3. QED
      BY <3>1, <3>2
  <2>2. QED
    BY <2>1 DEF KeyKeptAlive
<1>7. QED
  BY <1>5, <1>6 DEF KeyInv

LEMMA BootstrapKeepsKey ==
  ASSUME IInv, KeyInv, NEW r \in Requests, Bootstrap(r)
  PROVE  KeyInv'
<1>1. req[r] # Idle
  BY DEF Bootstrap, BootstrapConnect, BootstrapConnectFails, BootstrapPersist,
         BootstrapUpsertFails, BootstrapRollback, BootstrapPersistFails, BootstrapStart, At
<1>2. CASE BootstrapConnect(r) \/ BootstrapPersist(r)
  BY <1>1, <1>2, GoToKeeps DEF BootstrapConnect, BootstrapPersist, bounds
<1>3. CASE BootstrapUpsertFails(r)
  BY <1>1, <1>3, GoToKeeps DEF BootstrapUpsertFails, Fault, serverVars
<1>4. CASE BootstrapConnectFails(r) \/ BootstrapPersistFails(r)
  BY <1>1, <1>4, ReplyStep
     DEF BootstrapConnectFails, BootstrapPersistFails, ReplyError, Fault, serverVars
<1>5. CASE BootstrapRollback(r)
  BY <1>1, <1>5, ReplyStep DEF BootstrapRollback, ReplyError, Fault, bounds
<1>6. CASE BootstrapStart(r)
  BY <1>1, <1>6, ReplyStep DEF BootstrapStart, Started, bounds
<1>7. QED
  BY <1>2, <1>3, <1>4, <1>5, <1>6 DEF Bootstrap

LEMMA DisconnectKeepsKey ==
  ASSUME IInv, KeyInv, NEW r \in Requests, Disconnect(r)
  PROVE  KeyInv'
<1>1. req[r] # Idle /\ req[r].kind = "disconnect"
  BY DEF Disconnect, DisconnectLookup, DisconnectStop, DisconnectUpstream, DisconnectFails, At
<1>2. CASE DisconnectLookup(r)
  BY <1>1, <1>2, GoToKeeps, ReplyStep DEF DisconnectLookup, serverVars, bounds
<1>3. CASE DisconnectStop(r)
  BY <1>1, <1>3, GoToKeeps DEF DisconnectStop, Stopped, bounds
<1>4. CASE DisconnectUpstream(r)
  BY <1>1, <1>4, ReplyStep DEF DisconnectUpstream, bounds
<1>5. CASE DisconnectFails(r)
  BY <1>1, <1>5, ReplyStep DEF DisconnectFails, ReplyError, Fault, serverVars
<1>6. QED
  BY <1>2, <1>3, <1>4, <1>5 DEF Disconnect

\* A client has one request of a session in progress; asking for the
\* disconnection it gives its session up.
LEMMA AskKeepsKey ==
  ASSUME IInv, KeyInv, NEW r \in Requests, NEW s \in Sessions, NEW kind \in {"bootstrap", "disconnect"},
         Ask(r, s, kind)
  PROVE  KeyInv'
<1>1. /\ req \in [Requests -> Request \cup {Idle}]
      /\ pending \in [Sessions -> Requests \cup {NoRequest}]
      /\ status \in [Sessions -> {"closed", "open", "unknown"}]
  BY DEF IInv, TypeOK
<1>2. /\ req[r] = Idle /\ pending[s] = NoRequest
      /\ pending' = [pending EXCEPT ![s] = r]
      /\ status' = IF kind = "disconnect" THEN [status EXCEPT ![s] = "unknown"] ELSE status
      /\ UNCHANGED <<serverVars, bounds>>
  BY DEF Ask
<1>3. /\ \A q \in Requests : q # r => req'[q] = req[q]
      /\ req'[r].session = s /\ req'[r].kind = kind
  BY <1>1 DEF Ask
<1>4. ASSUME timeouts = 0, NEW q \in Requests, q # r, req[q] # Idle
      PROVE  req[q].session # s
  <2>1. pending[req[q].session] = q
    BY <1>4 DEF KeyInv, OneHandler
  <2>2. QED
    BY <1>2, <2>1, SessionsAssumption
<1>5. OneHandler'
  BY <1>1, <1>2, <1>3, <1>4 DEF KeyInv, OneHandler, bounds
<1>6. ClosingIsUnknown'
  BY <1>1, <1>2, <1>3, <1>4 DEF KeyInv, ClosingIsUnknown, bounds
<1>7. KeyKeptAlive'
  <2>1. \A t \in Sessions : status'[t] = "open" => status[t] = "open"
    BY <1>1, <1>2
  <2>2. QED
    BY <1>2, <2>1 DEF KeyInv, KeyKeptAlive, Every, serverVars, bounds
<1>8. QED
  BY <1>5, <1>6, <1>7 DEF KeyInv

LEMMA StepKeyInv == IInv /\ KeyInv /\ [Next]_vars => KeyInv'
<1> SUFFICES ASSUME IInv, KeyInv, [Next]_vars
             PROVE  KeyInv'
  OBVIOUS
<1>1. ASSUME NEW u \in Upstreams, SendPing(u) \/ Ping(u) \/ Expire(u) \/ ProxyConnect(u)
      PROVE  KeyInv'
  BY <1>1
     DEF SendPing, Ping, Expire, ProxyConnect, KeyInv, OneHandler, ClosingIsUnknown,
         KeyKeptAlive, Every, bounds
<1>2. ASSUME NEW s \in Sessions, TimeOut(s)
      PROVE  KeyInv'
  <2>1. timeouts' # 0
    BY <1>2, SessionsAssumption DEF TimeOut, IInv, TypeOK
  <2>2. QED
    BY <2>1 DEF KeyInv, OneHandler, ClosingIsUnknown, KeyKeptAlive
<1>3. CASE Restart
  <2>1. restarts' # 0 /\ \A r \in Requests : req'[r] = Idle
    BY <1>3, SessionsAssumption DEF Restart, IInv, TypeOK
  <2>2. QED
    BY <2>1 DEF KeyInv, OneHandler, ClosingIsUnknown, KeyKeptAlive
<1>4. CASE UNCHANGED vars
  BY <1>4 DEF vars, serverVars, bounds, KeyInv, OneHandler, ClosingIsUnknown, KeyKeptAlive, Every
<1>5. QED
  BY <1>1, <1>2, <1>3, <1>4, BootstrapKeepsKey, DisconnectKeepsKey, AskKeepsKey DEF Next

\* KeyKeptAlive: bootstraps that are repeated, disconnections that interleave
\* with them and requests that fail never leave a viewing key whose sessions
\* are all open without its keepalive task.
THEOREM OpenKeyIsKeptAlive == Spec => []KeyKeptAlive
<1>1. Init => KeyInv
  BY DEF Init, KeyInv, OneHandler, ClosingIsUnknown, KeyKeptAlive, Every
<1>2. KeyInv => KeyKeptAlive
  BY DEF KeyInv
<1>3. QED
  BY <1>1, <1>2, StepKeyInv, SessionsInvariant, PTL DEF Spec
=============================================================================
