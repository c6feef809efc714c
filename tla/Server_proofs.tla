---------------------------- MODULE Server_proofs ----------------------------
(***************************************************************************)
(* Server for any number of streams, sessions and connections: the types,  *)
(* that no connection is lost, and that the shutdown cuts nothing off.     *)
(***************************************************************************)
EXTENDS Server, TLAPS

Uses == (Streams \X {"snapshot", "query"}) \cup (Sessions \X {"request", "ping"})
StreamStep == Waiting \cup Building \cup Querying \cup {"off", "rest", "send"}

LEMMA GrantedStep ==
  ASSUME NEW w \in Waiting
  PROVE  /\ Granted[w] \in StreamStep
         /\ w = "snapshot" => Granted[w] \in Building \ Querying
         /\ w = "enter" => Granted[w] \in Querying \ Building
         /\ w \in {"cache", "insert", "raise"} => Granted[w] \in Querying \cap Building
<1>1. w \in {"enter", "snapshot", "cache", "insert", "raise"}
  BY DEF Waiting
<1>2. /\ Granted["enter"] = "entering" /\ Granted["snapshot"] = "building"
      /\ Granted["cache"] = "looking" /\ Granted["insert"] = "inserting"
      /\ Granted["raise"] = "raising"
  BY DEF Granted
<1>3. QED
  BY <1>1, <1>2 DEF StreamStep, Building, Querying

\* A stream in another step: the other streams stay where they are.
LEMMA GoToType ==
  ASSUME stream \in [Streams -> StreamStep], NEW s \in Streams, NEW n \in StreamStep, GoTo(s, n)
  PROVE  /\ stream' \in [Streams -> StreamStep] /\ stream'[s] = n
         /\ \A t \in Streams : t # s => stream'[t] = stream[t]
BY DEF GoTo

-----------------------------------------------------------------------------
LEMMA InitType == Init => TypeOK
BY DEF Init, TypeOK

\* The steps of a stream keep the types.
LEMMA StreamType ==
  ASSUME TypeOK, NEW s \in Streams,
         \/ Stream(s) \/ Connect(s) \/ MeetGap(s) \/ Dialed(s) \/ FinishBuild(s)
         \/ StreamFails(s) \/ Leave(s) \/ EndOfBody(s)
  PROVE  TypeOK'
<1>1. /\ taken \subseteq Uses /\ stream \in [Streams -> StreamStep]
      /\ connected \subseteq Streams
  BY DEF TypeOK, Uses, StreamStep
<1>2. UNCHANGED <<phase, request, task>>
  BY DEF Stream, Connect, MeetGap, Dialed, FinishBuild, StreamFails, Leave, EndOfBody, Acquire, TimeOut,
         Entered, LookedUp, Fetched, Stored, Send, Loop
<1>3. connected' \subseteq Streams
  BY <1>1 DEF Stream, Connect, MeetGap, Dialed, FinishBuild, StreamFails, Leave, EndOfBody, Acquire,
         TimeOut, Entered, LookedUp, Fetched, Stored, Send, Loop
<1>4. taken' \subseteq Uses
  <2>1. CASE Acquire(s)
    <3>1. <<s, "snapshot">> \in Uses /\ <<s, "query">> \in Uses
      BY DEF Uses
    <3>2. taken' \in {taken \cup {<<s, "snapshot">>}, taken \cup {<<s, "query">>}}
      BY <2>1 DEF Acquire, Acquired
    <3>3. QED
      BY <1>1, <3>1, <3>2
  <2>2. CASE ~Acquire(s)
    BY <1>1, <2>2 DEF Stream, Connect, MeetGap, Dialed, FinishBuild, StreamFails, Leave, EndOfBody,
         TimeOut, Entered, LookedUp, Fetched, Stored, Send, Loop, Released
  <2>3. QED
    BY <2>1, <2>2
<1>5. stream' \in [Streams -> StreamStep]
  <2>1. CASE Acquire(s)
    BY <1>1, <2>1, GrantedStep DEF Acquire, GoTo
  <2>2. CASE TimeOut(s)
    <3>1. AfterTimeout(s) \in StreamStep
      BY DEF AfterTimeout, StreamStep, Building
    <3>2. QED
      BY <1>1, <2>2, <3>1 DEF TimeOut, GoTo
  <2>3. CASE Connect(s) \/ MeetGap(s) \/ Entered(s)
    BY <1>1, <2>3 DEF Connect, MeetGap, Entered, GoTo, StreamStep, Waiting
  <2>4. CASE LookedUp(s) \/ Dialed(s) \/ Fetched(s) \/ Stored(s)
    BY <1>1, <2>4 DEF LookedUp, Dialed, Fetched, Stored, GoTo, StreamStep, Waiting, Building
  <2>5. CASE FinishBuild(s) \/ Send(s) \/ Loop(s) \/ StreamFails(s)
    BY <1>1, <2>5 DEF FinishBuild, Send, Loop, StreamFails, GoTo, StreamStep, Waiting
  <2>6. CASE Leave(s) \/ EndOfBody(s)
    BY <1>1, <2>6 DEF Leave, EndOfBody
  <2>7. QED
    BY <2>1, <2>2, <2>3, <2>4, <2>5, <2>6 DEF Stream
<1>6. QED
  BY <1>2, <1>3, <1>4, <1>5 DEF TypeOK, Uses, StreamStep

\* The steps of requests and keepalive tasks keep the types.
LEMMA SessionType ==
  ASSUME TypeOK, NEW u \in Sessions, Ask(u) \/ Handle(u) \/ Drop(u) \/ Keepalive(u) \/ Stop(u)
  PROVE  TypeOK'
<1>1. taken \subseteq Uses
  BY DEF TypeOK, Uses
<1>2. UNCHANGED <<phase, connected, stream>>
  BY DEF Ask, Handle, Drop, Keepalive, Stop, UpstreamAnswers, AcquireForRequest, Persisted, Start,
         Wake, AcquireForPing, Pinged
<1>3. /\ request' \in [Sessions -> {"none", "connect", "persist", "persisting", "start"}]
      /\ task' \in [Sessions -> {"none", "sleep", "wait", "pinging"}]
  BY DEF TypeOK, Ask, Handle, Drop, Keepalive, Stop, UpstreamAnswers, AcquireForRequest, Persisted,
         Start, Wake, AcquireForPing, Pinged
<1>4. taken' \subseteq Uses
  <2>1. <<u, "request">> \in Uses /\ <<u, "ping">> \in Uses
    BY DEF Uses
  <2>2. QED
    BY <1>1, <2>1 DEF Ask, Handle, Drop, Keepalive, Stop, UpstreamAnswers, AcquireForRequest,
         Persisted, Start, Wake, AcquireForPing, Pinged, Acquired, Released
<1>5. QED
  BY <1>2, <1>3, <1>4 DEF TypeOK, Uses

LEMMA NextType == TypeOK /\ [Next]_vars => TypeOK'
<1> SUFFICES ASSUME TypeOK, [Next]_vars PROVE TypeOK'
  OBVIOUS
<1>1. CASE Signal \/ Shutdown
  BY <1>1 DEF Signal, Shutdown, Drained, StopAll, Exit, TypeOK
<1>2. CASE UNCHANGED vars
  BY <1>2 DEF vars, TypeOK
<1>3. QED
  BY <1>1, <1>2, StreamType, SessionType DEF Next

\* Every variable keeps its type.
THEOREM ServerTypeCorrect == Spec => []TypeOK
<1>1. QED
  BY InitType, NextType, PTL DEF Spec

-----------------------------------------------------------------------------
(* Connections, one by one.                                                *)

\* What NoneLeaks says of the connections of one stream and of one session.
StreamHolds(s) ==
  /\ <<s, "snapshot">> \in taken <=> stream[s] \in Building
  /\ <<s, "query">> \in taken <=> stream[s] \in Querying

SessionHolds(u) ==
  /\ <<u, "request">> \in taken <=> request[u] = "persisting"
  /\ <<u, "ping">> \in taken <=> task[u] = "pinging"

EachHolds == (\A s \in Streams : StreamHolds(s)) /\ (\A u \in Sessions : SessionHolds(u))

LEMMA OneByOne == TypeOK => (NoneLeaks <=> EachHolds)
<1> SUFFICES ASSUME TypeOK PROVE NoneLeaks <=> EachHolds
  OBVIOUS
<1>1. taken \subseteq Uses
  BY DEF TypeOK, Uses
<1>2. ASSUME NoneLeaks PROVE EachHolds
  BY <1>2 DEF NoneLeaks, EachHolds, StreamHolds, SessionHolds
<1>3. ASSUME EachHolds PROVE NoneLeaks
  <2> DEFINE inUse ==
        {l \in Streams \X {"snapshot"} : stream[l[1]] \in Building}
          \cup {l \in Streams \X {"query"} : stream[l[1]] \in Querying}
          \cup {l \in Sessions \X {"request"} : request[l[1]] = "persisting"}
          \cup {l \in Sessions \X {"ping"} : task[l[1]] = "pinging"}
  <2>1. ASSUME NEW l \in taken PROVE l \in inUse
    <3>1. ASSUME NEW s \in Streams, l = <<s, "snapshot">> PROVE l \in inUse
      <4>1. l[1] = s /\ l \in Streams \X {"snapshot"}
        BY <3>1
      <4>2. StreamHolds(s)
        BY <1>3 DEF EachHolds
      <4>3. QED
        BY <2>1, <3>1, <4>1, <4>2 DEF StreamHolds
    <3>2. ASSUME NEW s \in Streams, l = <<s, "query">> PROVE l \in inUse
      <4>1. l[1] = s /\ l \in Streams \X {"query"}
        BY <3>2
      <4>2. StreamHolds(s)
        BY <1>3 DEF EachHolds
      <4>3. QED
        BY <2>1, <3>2, <4>1, <4>2 DEF StreamHolds
    <3>3. ASSUME NEW u \in Sessions, l = <<u, "request">> PROVE l \in inUse
      <4>1. l[1] = u /\ l \in Sessions \X {"request"}
        BY <3>3
      <4>2. SessionHolds(u)
        BY <1>3 DEF EachHolds
      <4>3. QED
        BY <2>1, <3>3, <4>1, <4>2 DEF SessionHolds
    <3>4. ASSUME NEW u \in Sessions, l = <<u, "ping">> PROVE l \in inUse
      <4>1. l[1] = u /\ l \in Sessions \X {"ping"}
        BY <3>4
      <4>2. SessionHolds(u)
        BY <1>3 DEF EachHolds
      <4>3. QED
        BY <2>1, <3>4, <4>1, <4>2 DEF SessionHolds
    <3>5. l \in Uses
      BY <1>1
    <3>6. QED
      BY <3>1, <3>2, <3>3, <3>4, <3>5 DEF Uses
  <2>2. ASSUME NEW l \in inUse PROVE l \in taken
    <3>1. CASE \E s \in Streams : l = <<s, "snapshot">> /\ stream[s] \in Building
      BY <1>3, <3>1 DEF EachHolds, StreamHolds
    <3>2. CASE \E s \in Streams : l = <<s, "query">> /\ stream[s] \in Querying
      BY <1>3, <3>2 DEF EachHolds, StreamHolds
    <3>3. CASE \E u \in Sessions : l = <<u, "request">> /\ request[u] = "persisting"
      BY <1>3, <3>3 DEF EachHolds, SessionHolds
    <3>4. CASE \E u \in Sessions : l = <<u, "ping">> /\ task[u] = "pinging"
      BY <1>3, <3>4 DEF EachHolds, SessionHolds
    <3>5. QED
      BY <2>2, <3>1, <3>2, <3>3, <3>4
  <2>3. QED
    BY <2>1, <2>2 DEF NoneLeaks
<1>4. QED
  BY <1>2, <1>3

\* A step in which one stream changes its step and its connections.
LEMMA StreamMoves ==
  ASSUME TypeOK, EachHolds, NEW s \in Streams, NEW n \in StreamStep, GoTo(s, n),
         UNCHANGED <<request, task>>,
         \A o, k : <<o, k>> \in taken' /\ ~(o = s /\ k \in {"snapshot", "query"})
                      <=> <<o, k>> \in taken /\ ~(o = s /\ k \in {"snapshot", "query"}),
         <<s, "snapshot">> \in taken' <=> n \in Building,
         <<s, "query">> \in taken' <=> n \in Querying
  PROVE  EachHolds'
<1>1. /\ stream'[s] = n
      /\ \A t \in Streams : t # s => stream'[t] = stream[t]
  BY GoToType DEF TypeOK, StreamStep
<1>2. ASSUME NEW t \in Streams PROVE StreamHolds(t)'
  <2>1. CASE t = s
    BY <1>1, <2>1 DEF StreamHolds
  <2>2. CASE t # s
    BY <1>1, <2>2 DEF EachHolds, StreamHolds
  <2>3. QED
    BY <2>1, <2>2
<1>3. ASSUME NEW u \in Sessions PROVE SessionHolds(u)'
  BY DEF EachHolds, SessionHolds
<1>4. QED
  BY <1>2, <1>3 DEF EachHolds

\* The connections that are left when owner releases some.
LEMMA Left ==
  ASSUME NEW owner, NEW uses, Released(owner, uses)
  PROVE  \A o, k : <<o, k>> \in taken' <=> <<o, k>> \in taken /\ ~(o = owner /\ k \in uses)
BY DEF Released

LEMMA StreamKeeps ==
  ASSUME TypeOK, EachHolds, NEW s \in Streams,
         \/ Stream(s) \/ Connect(s) \/ MeetGap(s) \/ Dialed(s) \/ FinishBuild(s)
         \/ StreamFails(s) \/ Leave(s) \/ EndOfBody(s)
  PROVE  EachHolds'
<1>0. StreamHolds(s) /\ stream[s] \in StreamStep
  BY DEF EachHolds, TypeOK, StreamStep
<1> DEFINE steps == {"off", "rest", "send", "enter", "snapshot", "entering", "building", "cache",
                     "looking", "dial", "fetch", "insert", "inserting", "raise", "raising"}
<1>1. StreamStep = steps
  BY DEF StreamStep, Waiting, Building, Querying
<1>2. CASE Acquire(s)
  <2> DEFINE use == IF stream[s] = "snapshot" THEN "snapshot" ELSE "query"
  <2>1. taken' = taken \cup {<<s, use>>} /\ GoTo(s, Granted[stream[s]]) /\ stream[s] \in Waiting
    BY <1>2 DEF Acquire, Acquired
  <2>2. \A o, k : <<o, k>> \in taken' <=> <<o, k>> \in taken \/ (o = s /\ k = use)
    BY <2>1
  <2>3. Granted[stream[s]] \in StreamStep
    BY <2>1, GrantedStep
  <2>4. <<s, "snapshot">> \in taken' <=> Granted[stream[s]] \in Building
    BY <1>0, <2>1, <2>2, GrantedStep DEF StreamHolds, Waiting, Building
  <2>5. <<s, "query">> \in taken' <=> Granted[stream[s]] \in Querying
    BY <1>0, <2>1, <2>2, GrantedStep DEF StreamHolds, Waiting, Building, Querying
  <2>6. UNCHANGED <<request, task>>
    BY <1>2 DEF Acquire
  <2>7. QED
    BY <2>1, <2>2, <2>3, <2>4, <2>5, <2>6, StreamMoves
<1>3. CASE TimeOut(s) \/ Connect(s) \/ MeetGap(s) \/ Dialed(s) \/ Fetched(s) \/ Send(s) \/ Loop(s)
  <2>1. UNCHANGED <<taken, request, task>>
    BY <1>3 DEF TimeOut, Connect, MeetGap, Dialed, Fetched, Send, Loop
  <2>2. PICK n \in StreamStep : GoTo(s, n) /\ (n \in Building <=> stream[s] \in Building)
                                 /\ (n \in Querying <=> stream[s] \in Querying)
    BY <1>1, <1>3 DEF TimeOut, Connect, MeetGap, Dialed, Fetched, Send, Loop, AfterTimeout, Waiting,
         Building, Querying
  <2>3. QED
    BY <1>0, <2>1, <2>2, StreamMoves DEF StreamHolds
<1>4. CASE Entered(s) \/ LookedUp(s) \/ Stored(s)
  <2>1. Released(s, {"query"}) /\ UNCHANGED <<request, task>>
    BY <1>4 DEF Entered, LookedUp, Stored
  <2>2. PICK n \in StreamStep : GoTo(s, n) /\ (n \in Building <=> stream[s] \in Building)
                                 /\ n \notin Querying
    BY <1>1, <1>4 DEF Entered, LookedUp, Stored, Building, Querying
  <2>3. QED
    BY <1>0, <2>1, <2>2, Left, StreamMoves DEF StreamHolds
<1>5. CASE FinishBuild(s)
  <2>1. Released(s, {"snapshot"}) /\ UNCHANGED <<request, task>> /\ stream[s] = "building"
    BY <1>5 DEF FinishBuild
  <2>2. PICK n \in StreamStep : GoTo(s, n) /\ n \notin Building /\ n \notin Querying
    BY <1>1, <1>5 DEF FinishBuild, Building, Querying
  <2>3. stream[s] \notin Querying
    BY <2>1 DEF Querying
  <2>4. QED
    BY <1>0, <2>1, <2>2, <2>3, Left, StreamMoves DEF StreamHolds
<1>6. CASE StreamFails(s)
  <2>1. Released(s, {"snapshot", "query"}) /\ UNCHANGED <<request, task>> /\ GoTo(s, "off")
    BY <1>6 DEF StreamFails
  <2>2. "off" \in StreamStep /\ "off" \notin Building /\ "off" \notin Querying
    BY DEF StreamStep, Building, Querying
  <2>3. \A o, k : <<o, k>> \in taken' <=> <<o, k>> \in taken /\ ~(o = s /\ k \in {"snapshot", "query"})
    BY <2>1, Left
  <2>4. <<s, "snapshot">> \notin taken' /\ <<s, "query">> \notin taken'
    BY <2>3
  <2>5. QED
    BY <2>1, <2>2, <2>3, <2>4, StreamMoves
<1>7. CASE Leave(s) \/ EndOfBody(s)
  BY <1>7 DEF Leave, EndOfBody, EachHolds, StreamHolds, SessionHolds
<1>8. QED
  BY <1>2, <1>3, <1>4, <1>5, <1>6, <1>7 DEF Stream

\* A step of one session's request or task.
LEMMA SessionKeeps ==
  ASSUME TypeOK, EachHolds, NEW u \in Sessions,
         Ask(u) \/ Handle(u) \/ Drop(u) \/ Keepalive(u) \/ Stop(u)
  PROVE  EachHolds'
<1>1. stream' = stream
  BY DEF Ask, Handle, Drop, Keepalive, Stop, UpstreamAnswers, AcquireForRequest, Persisted, Start,
         Wake, AcquireForPing, Pinged
<1>2. /\ \A v \in Sessions : v # u => request'[v] = request[v] /\ task'[v] = task[v]
      /\ \A o, k : ~(o = u /\ k \in {"request", "ping"}) => (<<o, k>> \in taken' <=> <<o, k>> \in taken)
  BY DEF TypeOK, Ask, Handle, Drop, Keepalive, Stop, UpstreamAnswers, AcquireForRequest, Persisted,
         Start, Wake, AcquireForPing, Pinged, Acquired, Released
<1>3. SessionHolds(u)'
  <2> USE DEF TypeOK, EachHolds, SessionHolds
  <2>1. CASE Ask(u) \/ UpstreamAnswers(u) \/ Wake(u)
    BY <2>1 DEF Ask, UpstreamAnswers, Wake
  <2>2. CASE AcquireForRequest(u) \/ AcquireForPing(u)
    BY <2>2 DEF AcquireForRequest, AcquireForPing, Acquired
  <2>3. CASE Persisted(u) \/ Drop(u)
    BY <2>3, Left DEF Persisted, Drop
  <2>4. CASE Start(u) \/ Pinged(u) \/ Stop(u)
    BY <2>4, Left DEF Start, Pinged, Stop
  <2>5. QED
    BY <2>1, <2>2, <2>3, <2>4 DEF Handle, Keepalive
<1>4. QED
  BY <1>1, <1>2, <1>3 DEF EachHolds, StreamHolds, SessionHolds

LEMMA ShutdownKeeps == TypeOK /\ EachHolds /\ (Signal \/ Shutdown) => EachHolds'
<1> SUFFICES ASSUME TypeOK, EachHolds, Signal \/ Shutdown PROVE EachHolds'
  OBVIOUS
<1>1. CASE Signal \/ Drained
  BY <1>1 DEF Signal, Drained, EachHolds, StreamHolds, SessionHolds
<1>2. CASE StopAll
  BY <1>2 DEF StopAll, EachHolds, StreamHolds, SessionHolds
<1>3. CASE Exit
  BY <1>3 DEF Exit, EachHolds, StreamHolds, SessionHolds, Building, Querying
<1>4. QED
  BY <1>1, <1>2, <1>3 DEF Shutdown

\* Every connection in use is one that a step still needs and will release.
THEOREM NoConnectionLeaks == Spec => []NoneLeaks
<1>1. Init => EachHolds
  BY DEF Init, EachHolds, StreamHolds, SessionHolds, Building, Querying
<1>2. TypeOK /\ EachHolds /\ [Next]_vars => EachHolds'
  <2>1. CASE UNCHANGED vars
    BY <2>1 DEF vars, EachHolds, StreamHolds, SessionHolds
  <2>2. QED
    BY <2>1, StreamKeeps, SessionKeeps, ShutdownKeeps DEF Next
<1>3. QED
  BY <1>1, <1>2, ServerTypeCorrect, OneByOne, PTL DEF Spec

-----------------------------------------------------------------------------
(* The shutdown, seen by each part of the server in turn.                  *)

\* No client connects to a stream once the drain is over.
LEMMA StreamExitsCleanly ==
  ASSUME TypeOK, CleanExit, NEW s \in Streams,
         \/ Stream(s) \/ Connect(s) \/ MeetGap(s) \/ Dialed(s) \/ FinishBuild(s)
         \/ StreamFails(s) \/ Leave(s) \/ EndOfBody(s)
  PROVE  CleanExit'
<1> USE DEF TypeOK, CleanExit
<1>1. CASE Stream(s)
  BY <1>1 DEF Stream, Acquire, TimeOut, Entered, LookedUp, Fetched, Stored, Send, Loop
<1>2. CASE Connect(s) \/ MeetGap(s) \/ Dialed(s) \/ FinishBuild(s)
  BY <1>2 DEF Connect, MeetGap, Dialed, FinishBuild
<1>3. CASE StreamFails(s) \/ Leave(s) \/ EndOfBody(s)
  BY <1>3 DEF StreamFails, Leave, EndOfBody
<1>4. QED
  BY <1>1, <1>2, <1>3

\* No session asks once the drain is over, so no task is started after they are stopped.
LEMMA SessionExitsCleanly ==
  ASSUME TypeOK, CleanExit, NEW u \in Sessions,
         Ask(u) \/ Handle(u) \/ Drop(u) \/ Keepalive(u) \/ Stop(u)
  PROVE  CleanExit'
BY DEF TypeOK, CleanExit, Ask, Handle, Drop, Keepalive, Stop, UpstreamAnswers, AcquireForRequest,
       Persisted, Start, Wake, AcquireForPing, Pinged

\* The drain waits for clients and requests, and every task is stopped before the exit.
LEMMA ShutdownExitsCleanly == TypeOK /\ CleanExit /\ (Signal \/ Shutdown) => CleanExit'
BY DEF TypeOK, CleanExit, Signal, Shutdown, Drained, StopAll, Exit

\* Nothing is cut off by the shutdown, and no keepalive task outlives it.
THEOREM ShutdownIsClean == Spec => []CleanExit
<1>1. Init => CleanExit
  BY DEF Init, CleanExit
<1>2. TypeOK /\ CleanExit /\ UNCHANGED vars => CleanExit'
  BY DEF CleanExit, vars
<1>3. TypeOK /\ CleanExit /\ Next => CleanExit'
  BY StreamExitsCleanly, SessionExitsCleanly, ShutdownExitsCleanly DEF Next
<1>4. QED
  BY <1>1, <1>2, <1>3, ServerTypeCorrect, PTL DEF Spec
=============================================================================
