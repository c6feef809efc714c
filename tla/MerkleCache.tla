---------------------------- MODULE MerkleCache ----------------------------
(***************************************************************************)
(* The cache of collapsed merkle updates of src/sidecar/src/merkle_cache.rs*)
(* the background task that fills it from an upstream subscription, and    *)
(* the requests that read it and store what they had to fetch themselves   *)
(* (get_merkle_update of routes/zswap.rs).                                 *)
(*                                                                         *)
(* A collapsed update is its range of commitment indices, <<first, last>>, *)
(* both inclusive.  A subscription brings the transactions that match the  *)
(* session's viewing key, in order, each with the update that bridges what *)
(* lies between it and the one before (external; graphql_ws.rs and the     *)
(* arms of run_subscription say so much).  Whether transactions match the  *)
(* random key of the background task at all is a constant.  The tables     *)
(* outlive the process, everything else dies with it.                      *)
(***************************************************************************)
EXTENDS Integers, Sequences, FiniteSets, FiniteSetsExt, SequencesExt

CONSTANTS
  MaxIndex, \* bound: commitments
  Matches, \* whether a transaction may match the key of the background task
  MaxBreaks, \* bound: connections that break before they caught up, and restarts
  MaxFaults, \* bound: statements that PostgreSQL fails
  MaxLosses, \* bound: upstream sessions that expire
  Requests   \* the ranges <<from, to>> that clients ask for, to exclusive

ASSUME CacheAssumption ==
  /\ {MaxIndex, MaxBreaks, MaxFaults, MaxLosses} \subseteq Nat
  /\ Matches \subseteq BOOLEAN
  /\ Requests \subseteq Nat \X Nat

VARIABLES
  tip,     \* upstream: next free commitment index
  matching, \* upstream: the commitments of the transactions that match the
           \* background task's key, <<first, first index after>>
  valid,   \* upstream: whether it knows the session that is stored
  rows,    \* table collapsed_merkle_cache
  highest, \* merkle_cache_state.highest_end_index
  stored,  \* whether merkle_cache_state holds a session
  task,    \* the task: "session", "subscribe", "read", "raise", "sleep"
  next,    \* the index up to which the subscription has come
  taken,   \* last index of the update that was just inserted
  request, \* the range asked for, NoRange when no request is served
  step,    \* the request: "idle", "lookup", "fetch", "store", "raise", "reply"
  chain,   \* the updates found so far
  breaks, faults, losses,
  passed   \* history: the indices that a failed statement or a request skips

upstreamVars == <<tip, matching, valid, losses>>
taskVars == <<task, next, taken>>
requestVars == <<request, step, chain>>
vars == <<upstreamVars, rows, highest, stored, taskVars, requestVars, breaks, faults, passed>>

NoRange == <<0, 0>>
Index == 0 .. MaxIndex - 1
Row == {r \in Index \X Index : r[1] <= r[2]}
Match == {m \in Index \X (1 .. MaxIndex) : m[1] < m[2]}

TypeOK ==
  /\ tip \in 0 .. MaxIndex
  /\ matching \subseteq Match
  /\ valid \in BOOLEAN /\ stored \in BOOLEAN
  /\ rows \subseteq Row
  /\ highest \in Index \cup {0}
  /\ task \in {"session", "subscribe", "read", "raise", "sleep"}
  /\ next \in 0 .. MaxIndex /\ taken \in Index \cup {0}
  /\ request \in Requests \cup {NoRange}
  /\ step \in {"idle", "lookup", "fetch", "store", "raise", "reply"}
  /\ chain \in Seq(Row)
  /\ passed \subseteq Index
  /\ breaks \in 0 .. MaxBreaks /\ faults \in 0 .. MaxFaults /\ losses \in 0 .. MaxLosses

Init ==
  /\ tip = 0 /\ matching = {} /\ valid = FALSE /\ losses = 0
  /\ rows = {} /\ highest = 0 /\ stored = FALSE
  /\ task = "session" /\ next = 0 /\ taken = 0
  /\ request = NoRange /\ step = "idle" /\ chain = <<>>
  /\ breaks = 0 /\ faults = 0 /\ passed = {}

-----------------------------------------------------------------------------
(* Upstream (external).                                                    *)

\* A transaction of one or two commitments.
Extend ==
  /\ \E n \in 1 .. 2, match \in Matches :
       /\ tip + n <= MaxIndex
       /\ tip' = tip + n
       /\ matching' = IF match THEN matching \cup {<<tip, tip + n>>} ELSE matching
  /\ UNCHANGED <<valid, losses, rows, highest, stored, taskVars, requestVars, breaks, faults, passed>>

\* The stored session expires upstream.
Expire ==
  /\ valid
  /\ losses < MaxLosses
  /\ valid' = FALSE
  /\ losses' = losses + 1
  /\ UNCHANGED <<tip, matching, rows, highest, stored, taskVars, requestVars, breaks, faults, passed>>

-----------------------------------------------------------------------------
(* The background task: subscription_loop and run_subscription.            *)

\* ensure_session: a stored session is used as it is, else one is made.
EnsureSession ==
  /\ task = "session"
  /\ task' = "subscribe"
  /\ IF stored THEN UNCHANGED <<stored, valid>> ELSE stored' = TRUE /\ valid' = TRUE
  /\ UNCHANGED <<tip, matching, losses, rows, highest, next, taken, requestVars, breaks, faults, passed>>

\* Mutant of ResumeIndex: the index after the highest one.
ResumeAfter == highest + 1

\* Mutant of Raised: the next free index instead of the last cached one.
RaisedPast(last) == Max({highest, last + 1})

\* GREATEST(highest_end_index, end_index).
Raised(last) == Max({highest, last})

\* get_highest_cached_index: the index to subscribe at.
ResumeIndex == highest

\* The subscription is set up; with an unknown session it ends with an error.
Subscribe ==
  /\ task = "subscribe"
  /\ next' = ResumeIndex
  /\ task' = IF valid THEN "read" ELSE "sleep"
  /\ UNCHANGED <<upstreamVars, rows, highest, stored, taken, requestVars, breaks, faults, passed>>

\* The next message: the first matching transaction that lies ahead.
Message(m) ==
  /\ m \in matching
  /\ next <= m[1]
  /\ \A o \in matching : next <= o[1] => m[1] <= o[1]

\* A transaction with the update that bridges the gap before it: cache_update,
\* first statement, INSERT ... ON CONFLICT DO NOTHING.
Insert ==
  /\ task = "read"
  /\ valid
  /\ \E m \in matching :
       /\ Message(m)
       /\ next < m[1]
       /\ rows' = rows \cup {<<next, m[1] - 1>>}
       /\ taken' = m[1] - 1
       /\ next' = m[2]
  /\ task' = "raise"
  /\ UNCHANGED <<upstreamVars, highest, stored, requestVars, breaks, faults, passed>>

\* A transaction that follows the one before has no update.
ReadWithoutTree ==
  /\ task = "read"
  /\ valid
  /\ \E m \in matching : Message(m) /\ next = m[1] /\ next' = m[2]
  /\ UNCHANGED <<upstreamVars, rows, highest, stored, task, taken, requestVars, breaks, faults,
                 passed>>

\* cache_update, second statement: UPDATE merkle_cache_state.
Raise ==
  /\ task = "raise"
  /\ highest' = Raised(taken)
  /\ task' = "read"
  /\ UNCHANGED <<upstreamVars, rows, stored, next, taken, requestVars, breaks, faults, passed>>

\* A statement of cache_update fails: the error is logged and the next message
\* is read.
CacheUpdateFails ==
  /\ faults < MaxFaults
  /\ faults' = faults + 1
  /\ \/ /\ task = "read" /\ valid
        /\ \E m \in matching :
             /\ Message(m)
             /\ next < m[1]
             /\ next' = m[2]
             /\ passed' = passed \cup (next .. m[1] - 1)
     \/ task = "raise" /\ UNCHANGED <<next, passed>>
  /\ task' = "read"
  /\ UNCHANGED <<upstreamVars, rows, highest, stored, taken, requestVars, breaks>>

\* Upstream may complete the subscription when nothing is left to send; it ends
\* it with an error when the session has expired; and it breaks, at any step up
\* to here.
EndSubscription ==
  /\ \/ task = "read" /\ (\A m \in matching : ~Message(m)) /\ UNCHANGED breaks
     \/ task = "read" /\ ~valid /\ UNCHANGED breaks
     \/ /\ task \in {"session", "subscribe", "read"}
        /\ breaks < MaxBreaks
        /\ breaks' = breaks + 1
  /\ task' = "sleep"
  /\ UNCHANGED <<upstreamVars, rows, highest, stored, next, taken, requestVars, faults, passed>>

\* The delay of subscription_loop is over.
Resubscribe ==
  /\ task = "sleep"
  /\ task' = "session"
  /\ UNCHANGED <<upstreamVars, rows, highest, stored, next, taken, requestVars, breaks, faults, passed>>

\* The process stops and starts again: between any two statements.
Restart ==
  /\ breaks < MaxBreaks
  /\ breaks' = breaks + 1
  /\ task' = "session" /\ next' = 0 /\ taken' = 0
  /\ request' = NoRange /\ step' = "idle" /\ chain' = <<>>
  /\ UNCHANGED <<upstreamVars, rows, highest, stored, faults, passed>>

-----------------------------------------------------------------------------
(* A request: get_merkle_update.                                           *)

Ask(r) ==
  /\ step = "idle"
  /\ r[1] < r[2] /\ r[2] <= tip
  /\ request' = r
  /\ chain' = <<>>
  /\ step' = "lookup"
  /\ UNCHANGED <<upstreamVars, rows, highest, stored, taskVars, breaks, faults, passed>>

\* Where the chain has to go on.
ChainEnd == IF chain = <<>> THEN request[1] ELSE Last(chain)[2] + 1

\* The rows that could follow in the chain.
Candidates == {r \in rows : r[1] = ChainEnd /\ r[2] <= request[2] - 1}

\* get_cached_updates: the longest update that starts where the chain ends.
Lookup ==
  /\ step = "lookup"
  /\ ChainEnd <= request[2] - 1
  /\ \E r \in Candidates :
       /\ \A q \in Candidates : q[2] <= r[2]
       /\ chain' = Append(chain, r)
  /\ UNCHANGED <<upstreamVars, rows, highest, stored, taskVars, request, step, breaks, faults, passed>>

\* Mutant of CoversRange: the last update may stop short.
CoversPrefix ==
  /\ chain # <<>>
  /\ chain[1][1] = request[1]
  /\ \A i \in 1 .. Len(chain) - 1 : chain[i + 1][1] = chain[i][2] + 1

\* covers_range.
CoversRange ==
  /\ chain # <<>>
  /\ chain[1][1] = request[1]
  /\ \A i \in 1 .. Len(chain) - 1 : chain[i + 1][1] = chain[i][2] + 1
  /\ Last(chain)[2] = request[2] - 1

\* The chain ends: a hit is answered, anything else goes upstream.
EndLookup ==
  /\ step = "lookup"
  /\ ChainEnd > request[2] - 1 \/ Candidates = {}
  /\ step' = IF CoversRange THEN "reply" ELSE "fetch"
  /\ chain' = IF CoversRange THEN chain ELSE <<>>
  /\ UNCHANGED <<upstreamVars, rows, highest, stored, taskVars, request, breaks, faults, passed>>

\* The query of get_cached_updates fails: a warning, and the request goes
\* upstream.
LookupFails ==
  /\ step = "lookup"
  /\ faults < MaxFaults
  /\ faults' = faults + 1
  /\ step' = "fetch"
  /\ chain' = <<>>
  /\ UNCHANGED <<upstreamVars, rows, highest, stored, taskVars, request, breaks, passed>>

\* fetch_merkle_updates: one update that is exactly the range, or none (the
\* next relevant transaction starts elsewhere, a timeout, a closed socket).
Fetch ==
  /\ step = "fetch"
  /\ \/ chain' = <<<<request[1], request[2] - 1>>>> /\ step' = "store"
     \/ chain' = <<>> /\ step' = "reply"
  /\ UNCHANGED <<upstreamVars, rows, highest, stored, taskVars, request, breaks, faults, passed>>

\* store_updates, first statement.
StoreInsert ==
  /\ step = "store"
  /\ rows' = rows \cup {chain[1]}
  /\ step' = "raise"
  /\ UNCHANGED <<upstreamVars, highest, stored, taskVars, request, chain, breaks, faults, passed>>

\* store_updates, second statement.
StoreRaise ==
  /\ step = "raise"
  /\ highest' = Raised(chain[1][2])
  /\ passed' = passed \cup (highest .. chain[1][1] - 1)
  /\ step' = "reply"
  /\ UNCHANGED <<upstreamVars, rows, stored, taskVars, request, chain, breaks, faults>>

\* A statement of store_updates fails: the reply is sent all the same.
StoreFails ==
  /\ faults < MaxFaults
  /\ faults' = faults + 1
  /\ step \in {"store", "raise"}
  /\ step' = "reply"
  /\ UNCHANGED <<upstreamVars, rows, highest, stored, taskVars, request, chain, breaks, passed>>

\* 200 with the updates of chain; or, from the fetch, an error response.
Respond ==
  /\ step \in {"reply", "fetch"}
  /\ step' = "idle" /\ request' = NoRange /\ chain' = <<>>
  /\ UNCHANGED <<upstreamVars, rows, highest, stored, taskVars, breaks, faults, passed>>

-----------------------------------------------------------------------------
Upstream == Extend \/ Expire

Task ==
  \/ EnsureSession \/ Subscribe \/ Insert \/ ReadWithoutTree \/ Raise
  \/ CacheUpdateFails \/ EndSubscription \/ Resubscribe

Request ==
  \/ \E r \in Requests : Ask(r)
  \/ Lookup \/ EndLookup \/ LookupFails \/ Fetch \/ StoreInsert \/ StoreRaise \/ StoreFails \/ Respond

Next == Upstream \/ Task \/ Restart \/ Request

Spec == Init /\ [][Next]_vars

\* The task keeps running: it connects in the end, and reads what upstream has
\* to send to its subscription.
FairSpec ==
  /\ Spec
  /\ WF_vars(EnsureSession)
  /\ WF_vars(Subscribe)
  /\ WF_vars(Insert)
  /\ WF_vars(ReadWithoutTree)
  /\ WF_vars(Raise)
  /\ WF_vars(Resubscribe)

-----------------------------------------------------------------------------
(* Properties.                                                             *)

Cached == UNION {r[1] .. r[2] : r \in rows}

\* The commitments of the transactions that match the task's key: no update
\* brings them, the transactions do.
Own == UNION {m[1] .. m[2] - 1 : m \in matching}

\* Nothing below the resume index, from which the subscription goes on after a
\* restart, is missing: failed statements and requests break that.
NoHoleBelowHighest == 0 .. highest - 1 \subseteq Cached \cup Own

\* The resume index passes an index that no update holds for two reasons only: a
\* statement that failed for it, and a request that stored a range further up.
\* Crashes between the two statements, broken connections, restarts and the
\* interleaving of requests with the task leave out nothing else.
OnlyPassedHoles == 0 .. highest - 1 \subseteq Cached \cup passed \cup Own

\* What a reply brings: each index of the range exactly once, whatever was
\* inserted while the chain was being looked up.
ReplyTiles ==
  step = "reply" /\ chain # <<>> =>
    /\ UNION {chain[i][1] .. chain[i][2] : i \in DOMAIN chain} = request[1] .. request[2] - 1
    /\ \A i, j \in DOMAIN chain : i < j => chain[i][2] < chain[j][1]

\* The indices of the gaps before the transactions that match the task's key.
Bridged == UNION {0 .. m[1] - 1 : m \in matching} \ Own


\* "Caches all MerkleTreeCollapsedUpdate events": in the end every commitment is
\* cached, while the session stays valid.  Not so when no transaction matches the
\* task's key, as merkle_cache.rs:9-10 has it of the random key; see README.
AllCached == \A i \in Index : i < tip ~> i \in Cached \cup passed \cup Own \/ losses > 0
=============================================================================
