----------------------------- MODULE Subscribe -----------------------------
(***************************************************************************)
(* GET /v1/feed/subscribe: the task run_stream of                          *)
(* src/sidecar/src/routes/subscribe.rs, the bounded channel between it and *)
(* the SSE response, and a client that follows API.md: it stores the items *)
(* it is sent, resumes with the cursor of the last one after it lost the   *)
(* connection, and restarts from safeRestartHeight after a reset.          *)
(*                                                                         *)
(* One poll of the stream reads one REPEATABLE READ snapshot, so it is one *)
(* step on the database; every send through the channel is a step of its   *)
(* own.  The sequence key of an item is kept as <<height, tx id>>: the     *)
(* items of one transaction are sent and stored together.  Definitions     *)
(* marked as mutants are wrong on purpose: each would break a property.    *)
(***************************************************************************)
EXTENDS ChainDb, FeedOrder, SequencesExt

CONSTANTS
  BatchSize,   \* BACKLOG_BATCH_SIZE
  ChannelCap,  \* CHANNEL_BUFFER_SIZE
  MaxDrops     \* bound: connections that fail

ASSUME SubscribeAssumption ==
  /\ BatchSize \in Nat \ {0}
  /\ ChannelCap \in Nat \ {0}
  /\ MaxDrops \in Nat

VARIABLES
  pc,         \* run_stream: "off", "poll", "send" (a batch), "reset" (the control event)
  current,    \* current_height
  fromCursor, \* from_cursor, NoCursor once it has been used
  lastHash,   \* last_block_hash, NoHash for None
  batch,      \* bundles of the fetched batch that are still to be sent
  batchTail,  \* hash of the last block of the fetched batch
  safeHeight, \* safe_restart_height of the reset to be sent
  hbDue,      \* last_heartbeat.elapsed() >= heartbeat_interval
  chan,       \* events in the channel and on the wire
  sent,       \* history: blocks this connection has handled, in order
  held,       \* the client's items
  cursor,     \* the client's cursor, NoCursor before the first item
  restartAt,  \* the client's fromHeight while it has no cursor
  drops       \* connections that failed

streamVars == <<pc, current, fromCursor, lastHash, batch, batchTail, safeHeight, hbDue, sent>>
clientVars == <<held, cursor, restartAt>>
vars == <<dbVars, streamVars, chan, clientVars, drops>>

Bundle == [block : BlockRow, items : SUBSET Nat]

Event ==
  [type : {"heartbeat", "control"}, height : Nat]
    \cup [type : {"block"}, bundle : Bundle]

Item == [height : Nat, tx : Nat, hash : Hash, parent : Nat]

TypeOK ==
  /\ DbTypeOK
  /\ pc \in {"off", "poll", "send", "reset"}
  /\ current \in Nat
  /\ fromCursor \in Key \cup {NoCursor}
  /\ lastHash \in Nat
  /\ batch \in Seq(Bundle)
  /\ batchTail \in Nat
  /\ safeHeight \in Nat
  /\ hbDue \in BOOLEAN
  /\ chan \in Seq(Event)
  /\ sent \in Seq(BlockRow)
  /\ held \subseteq Item
  /\ cursor \in Key \cup {NoCursor}
  /\ restartAt \in Nat
  /\ drops \in Nat

Init ==
  /\ DbInit
  /\ pc = "off"
  /\ current = 0
  /\ fromCursor = NoCursor
  /\ lastHash = NoHash
  /\ batch = <<>>
  /\ batchTail = NoHash
  /\ safeHeight = 0
  /\ hbDue = FALSE
  /\ chan = <<>>
  /\ sent = <<>>
  /\ held = {}
  /\ cursor = NoCursor
  /\ restartAt = 0
  /\ drops = 0

-----------------------------------------------------------------------------
(* One poll: the reads of the snapshot and the checks on the batch.        *)

\* Mutant of ToHeight: the ready height is taken as an exclusive bound.
ToHeightExclusive ==
  IF current + BatchSize - 1 < WalletReadyHeight
  THEN current + BatchSize - 1
  ELSE WalletReadyHeight - 1

ToHeight ==
  IF current + BatchSize - 1 <= WalletReadyHeight
  THEN current + BatchSize - 1
  ELSE WalletReadyHeight

Fetched == BlocksInRange(current, ToHeight)

Present(h) == \E b \in Fetched : b.height = h

At(h) == CHOOSE b \in Fetched : b.height = h

\* Mutant of Boundary: the block below is read again for every batch.
BoundaryReread == IF current > 0 THEN BlockHashAt(current - 1) ELSE NoHash

\* The hash the first fetched block must name as its parent.
Boundary ==
  IF lastHash = NoHash /\ current > 0 THEN BlockHashAt(current - 1) ELSE lastHash

Gap(h) == ~Present(h) /\ \E b \in Fetched : b.height > h

Mismatch(h) ==
  /\ Present(h)
  /\ \/ h = current /\ Boundary # NoHash /\ At(h).parent # Boundary
     \/ h > current /\ Present(h - 1) /\ At(h).parent # At(h - 1).hash

\* The heights at which the loop over the batch gives up.
Faults == {h \in current .. ToHeight : Gap(h) \/ Mismatch(h)}

\* Mutant of SafeRestart: the offending block counts as safe.
SafeRestartAtFault == Min(Faults)

\* Mutant of SafeRestart: not clamped at the first block.
SafeRestartUnclamped == Min(Faults) - 1

\* safe_restart_height: the block below the first offending one.
SafeRestart == Max({Min(Faults) - 1, 0})

MakeBundle(b) == [block |-> b, items |-> RelevantTxs(b)]

-----------------------------------------------------------------------------
(* run_stream.                                                             *)

\* The task returns: its locals are gone; the channel drains to the client.
Stop ==
  /\ pc' = "off"
  /\ current' = 0
  /\ fromCursor' = NoCursor
  /\ lastHash' = NoHash
  /\ batch' = <<>>
  /\ batchTail' = NoHash
  /\ safeHeight' = 0
  /\ hbDue' = FALSE
  /\ sent' = <<>>

HasRoom == Len(chan) < ChannelCap

Waiting == pc = "poll" /\ current > WalletReadyHeight

\* Mutant of HeartbeatDue: none while the wallet is not ready.
HeartbeatDueWhenReady == Waiting /\ hbDue /\ WalletReadyHeight >= 0

\* Not ready, or caught up, and heartbeat_interval has passed.
HeartbeatDue == Waiting /\ hbDue

Heartbeat ==
  /\ HeartbeatDue
  /\ HasRoom
  /\ chan' = Append(chan, [type |-> "heartbeat", height |-> current])
  /\ hbDue' = FALSE
  /\ UNCHANGED <<dbVars, pc, current, fromCursor, lastHash, batch, batchTail,
                 safeHeight, sent, clientVars, drops>>

\* heartbeat_interval passes.
Tick ==
  /\ pc # "off"
  /\ ~hbDue
  /\ hbDue' = TRUE
  /\ UNCHANGED <<dbVars, pc, current, fromCursor, lastHash, batch, batchTail,
                 safeHeight, sent, chan, clientVars, drops>>

\* A batch of contiguous, linked blocks is turned into bundles.  (An empty
\* range changes nothing: the stream sleeps and polls again.)
FetchBatch ==
  /\ pc = "poll"
  /\ current <= WalletReadyHeight
  /\ Faults = {}
  /\ \E n \in 1 .. BatchSize :
       /\ {b.height : b \in Fetched} = current .. (current + n - 1)
       /\ batch' = [i \in 1 .. n |-> MakeBundle(At(current + i - 1))]
       /\ batchTail' = At(current + n - 1).hash
  /\ lastHash' = Boundary
  /\ pc' = "send"
  /\ UNCHANGED <<dbVars, current, fromCursor, safeHeight, hbDue, sent, chan,
                 clientVars, drops>>

\* A gap or a parent mismatch: nothing of the batch is sent, only a reset.
DetectReset ==
  /\ pc = "poll"
  /\ current <= WalletReadyHeight
  /\ Faults # {}
  /\ safeHeight' = SafeRestart
  /\ pc' = "reset"
  /\ UNCHANGED <<dbVars, current, fromCursor, lastHash, batch, batchTail,
                 hbDue, sent, chan, clientVars, drops>>

SendReset ==
  /\ pc = "reset"
  /\ HasRoom
  /\ chan' = Append(chan, [type |-> "control", height |-> safeHeight])
  /\ Stop
  /\ UNCHANGED <<dbVars, clientVars, drops>>

\* Mutant of Retained: the item at the cursor is sent again.
RetainedFromCursor(bundle) ==
  IF fromCursor # NoCursor /\ bundle.block.height = fromCursor[1]
  THEN {i \in bundle.items : ~KeyLess(<<bundle.block.height, i>>, fromCursor)}
  ELSE bundle.items

\* Mutant of Retained: the block of the cursor is taken as complete.
RetainedAfterBlock(bundle) ==
  IF fromCursor # NoCursor /\ bundle.block.height = fromCursor[1]
  THEN {}
  ELSE bundle.items

\* The items of a bundle that remain after the one-off cursor filter.
Retained(bundle) ==
  IF fromCursor # NoCursor /\ bundle.block.height = fromCursor[1]
  THEN {i \in bundle.items : KeyLess(fromCursor, <<bundle.block.height, i>>)}
  ELSE bundle.items

\* One turn of the loop over the bundles: a bundle left without items is
\* skipped, any other is sent.
SendBundle ==
  LET bundle == Head(batch)
      h      == bundle.block.height
      items  == Retained(bundle)
  IN  /\ pc = "send"
      /\ fromCursor' =
           IF fromCursor # NoCursor /\ h = fromCursor[1] THEN NoCursor ELSE fromCursor
      /\ \/ items = {} /\ UNCHANGED chan
         \/ /\ items # {}
            /\ HasRoom
            /\ chan' = Append(chan, [type |-> "block",
                                     bundle |-> [bundle EXCEPT !.items = items]])
      /\ current' = h + 1
      /\ sent' = Append(sent, bundle.block)
      /\ batch' = Tail(batch)
      /\ \/ Len(batch) > 1 /\ UNCHANGED <<pc, lastHash, hbDue>>
         \/ Len(batch) = 1 /\ pc' = "poll" /\ lastHash' = batchTail /\ hbDue' = FALSE
      /\ UNCHANGED <<dbVars, batchTail, safeHeight, clientVars, drops>>

\* A connection that fails, of which the client makes MaxDrops.
Drop ==
  /\ drops < MaxDrops
  /\ drops' = drops + 1
  /\ Stop

\* sse_send_timeout on a full channel: the slow client is dropped; what is in
\* the channel still reaches it.
SendTimeout ==
  /\ ~HasRoom
  /\ \/ HeartbeatDue
     \/ pc = "reset"
     \/ pc = "send" /\ Retained(Head(batch)) # {}
  /\ Drop
  /\ UNCHANGED <<dbVars, chan, clientVars>>

\* A query fails, or the wallet is unknown: the stream ends without an event.
StreamError ==
  /\ pc = "poll"
  /\ Drop
  /\ UNCHANGED <<dbVars, chan, clientVars>>

-----------------------------------------------------------------------------
(* The client (external).                                                  *)

\* subscribe_feed: fromCursor overrides fromHeight.
Connect ==
  /\ pc = "off"
  /\ chan = <<>>
  /\ pc' = "poll"
  /\ fromCursor' = cursor
  /\ current' = IF cursor = NoCursor THEN restartAt ELSE cursor[1]
  /\ UNCHANGED <<dbVars, lastHash, batch, batchTail, safeHeight, hbDue, sent,
                 chan, clientVars, drops>>

\* The client stores the items of a bundle up to the one of transaction i.
Store(bundle, i) ==
  /\ held' = held \cup {ItemOf(bundle.block, j) : j \in {k \in bundle.items : k <= i}}
  /\ cursor' = <<bundle.block.height, i>>
  /\ UNCHANGED restartAt

ReceiveBlock ==
  /\ chan # <<>>
  /\ Head(chan).type = "block"
  /\ \E i \in Head(chan).bundle.items :
       /\ \A j \in Head(chan).bundle.items : j <= i
       /\ Store(Head(chan).bundle, i)
  /\ chan' = Tail(chan)
  /\ UNCHANGED <<dbVars, streamVars, drops>>

ReceiveHeartbeat ==
  /\ chan # <<>>
  /\ Head(chan).type = "heartbeat"
  /\ chan' = Tail(chan)
  /\ UNCHANGED <<dbVars, streamVars, clientVars, drops>>

\* The client drops what lies at or above safeRestartHeight.
ReceiveReset ==
  /\ chan # <<>>
  /\ Head(chan).type = "control"
  /\ held' = {i \in held : i.height < Head(chan).height}
  /\ cursor' = NoCursor
  /\ restartAt' = Head(chan).height
  /\ chan' = <<>>
  /\ UNCHANGED <<dbVars, streamVars, drops>>

\* The client goes away, perhaps in the middle of a bundle.  (run_stream
\* notices later; what it still does has no effect on anyone.)
Disconnect ==
  /\ pc # "off" \/ chan # <<>>
  /\ Drop
  /\ chan' = <<>>
  /\ \/ UNCHANGED clientVars
     \/ /\ chan # <<>>
        /\ Head(chan).type = "block"
        /\ \E i \in Head(chan).bundle.items : Store(Head(chan).bundle, i)
  /\ UNCHANGED dbVars

-----------------------------------------------------------------------------
Db == DbNext /\ UNCHANGED <<streamVars, chan, clientVars, drops>>

Stream ==
  \/ Heartbeat \/ FetchBatch \/ DetectReset \/ SendReset \/ SendBundle
  \/ SendTimeout \/ StreamError

Client ==
  \/ Connect \/ ReceiveBlock \/ ReceiveHeartbeat \/ ReceiveReset \/ Disconnect

Next == Db \/ Tick \/ Stream \/ Client

Spec == Init /\ [][Next]_vars

\* The runtime keeps polling the task, time passes, and the client keeps
\* reading and reconnects; the indexers and failures owe nothing.
FairSpec ==
  /\ Spec
  /\ WF_vars(Tick)
  /\ WF_vars(Heartbeat \/ FetchBatch \/ DetectReset)
  /\ WF_vars(SendReset)
  /\ WF_vars(SendBundle)
  /\ WF_vars(Connect)
  /\ WF_vars(ReceiveBlock)
  /\ WF_vars(ReceiveHeartbeat)
  /\ WF_vars(ReceiveReset)

-----------------------------------------------------------------------------
(* Properties.                                                             *)

\* Whatever the reorganisations between two batches, the blocks one
\* connection handles are contiguous and each names the one before it as its
\* parent: last_block_hash carries the check across batches.
StreamLinked ==
  \A i \in 1 .. Len(sent) - 1 :
    /\ sent[i + 1].height = sent[i].height + 1
    /\ sent[i + 1].parent = sent[i].hash

\* No block is handled before the wallet-indexer has checked all of its
\* transactions: a bundle is never sent short of an item that is found later.
ReadyOnly ==
  \A i \in 1 .. Len(sent) : \A t \in sent[i].txs : t.id <= lastIndexed

\* Every item on its way to the client sorts after all those it has stored:
\* over reconnections, none comes twice and none out of order.
FreshDelivery ==
  \A k \in 1 .. Len(chan) : chan[k].type = "block" =>
    LET h == chan[k].bundle.block.height
    IN  /\ \A i \in chan[k].bundle.items :
             cursor = NoCursor \/ KeyLess(cursor, <<h, i>>)
        /\ \A j \in 1 .. k - 1 : chan[j].type = "block" => chan[j].bundle.block.height < h

\* Items on their way to the client.
InFlight ==
  UNION {{ItemOf(chan[k].bundle.block, i) : i \in chan[k].bundle.items} :
           k \in {j \in 1 .. Len(chan) : chan[j].type = "block"}}

\* The stream never moves past an item that it has not handed over, nor the
\* client's cursor past one it has not stored, through reconnections, partly
\* processed bundles, dropped slow clients and resets.
NoLoss ==
  \A b \in blocks : \A t \in b.txs : t.relevant =>
    /\ cursor # NoCursor /\ ~KeyLess(cursor, <<b.height, t.id>>)
         => ItemOf(b, t.id) \in held
    /\ pc # "off" /\ b.height < current
         => ItemOf(b, t.id) \in held \cup InFlight

\* The blocks of which the client holds items lie on one chain.
ClientLinked ==
  \A i, j \in held :
    /\ i.height = j.height => i.hash = j.hash
    /\ i.height + 1 = j.height => j.parent = i.hash

\* Transaction k is the wallet's, indexed and in a ready block.
Ready(k) ==
  \E b \in blocks :
    k \in RelevantTxs(b) /\ b.height <= WalletReadyHeight

\* Every ready item reaches the client in the end, over reconnections: the
\* loop of run_stream leaves none behind.
EventuallyHeld ==
  \A k \in 1 .. MaxTxs : Ready(k) ~> (~Ready(k) \/ \E i \in held : i.tx = k)

\* A stream that has caught up, or whose wallet is not ready, sends something
\* sooner or later: a client can tell an idle stream from a dead one.
HeartbeatWhenCaughtUp == Waiting ~> (~Waiting \/ chan # <<>>)

\* "Progress heartbeat while waiting for new data": a stream that polls and has
\* nothing to send says so sooner or later, whichever branch it waits in.  The
\* branch of a ready range without rows does not: of a chain without blocks,
\* say, or one whose next rows are all late.
HeartbeatWhileIdle == pc = "poll" ~> (pc # "poll" \/ chan # <<>>)

\* The client holds an item of a block that was replaced, and the block above
\* it is ready.
Superseded ==
  \E i \in held :
    /\ \A b \in Known : b.hash # i.hash
    /\ BlockHashAt(i.height + 1) # NoHash
    /\ i.height < WalletReadyHeight

\* When the new fork is longer than the old one was, the client is told, and
\* drops what it holds of the old one: the stream does not go on behind a block
\* that it has sent and that was replaced.
ForkIsLeft == Superseded ~> ~Superseded

-----------------------------------------------------------------------------
(* Without reorganisations the client's items implement FeedReplica.       *)

Replica == INSTANCE FeedReplica WITH
  Before <- KeyLess,
  history <- UNION {{<<b.height, i>> : i \in RelevantTxs(b)} :
                      b \in {c \in blocks : c.height <= WalletReadyHeight}},
  copy <- {<<i.height, i.tx>> : i \in held}

\* Over reconnections, partly processed bundles, dropped slow clients and a
\* moving walletReadyHeight, what the client holds is a growing initial
\* segment of the wallet's ready items.
ClientIsReplica == Replica!ReplicaSpec

=============================================================================
