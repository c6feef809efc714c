-------------------------- MODULE Subscribe_proofs --------------------------
(***************************************************************************)
(* For every size of the batch and of the channel, whatever the indexers   *)
(* and the client do, in four invariants that build on each other:         *)
(*                                                                         *)
(*   StreamInv  the types, StreamLinked and ReadyOnly.  Neither is         *)
(*              inductive: what makes the next block fit lies in           *)
(*              last_block_hash while the stream polls, and in the rest of *)
(*              the batch while it sends.                                  *)
(*   FreshInv   FreshDelivery: the stream runs ahead of what is on the     *)
(*              wire, and that runs ahead of the client's cursor, except   *)
(*              in the cursor's block, where the filter waits.             *)
(*   LossInv    NoLoss, and that the client implements FeedReplica, as     *)
(*              long as no row was late and no block was replaced (after   *)
(*              that the properties are false): what is missing behind any *)
(*              point on the way is on the way before it.                  *)
(*   LinkInv    ClientLinked, while no block was replaced, or one was under *)
(*              a client that stays connected: the replaced block is the   *)
(*              highest one the client has, and a task that has sent it    *)
(*              stands right behind it or owes the client a reset.         *)
(***************************************************************************)
EXTENDS Subscribe, ChainDb_proofs, SequenceTheorems

\* The bundles still to be sent form a chain.
BatchLinked ==
  \A i \in 1 .. Len(batch) - 1 :
    /\ batch[i + 1].block.height = batch[i].block.height + 1
    /\ batch[i + 1].block.parent = batch[i].block.hash

\* The first of them continues what was sent.
BatchFollows ==
  /\ batch # <<>>
  /\ batch[1].block.height = current
  /\ sent # <<>> => batch[1].block.parent = Last(sent).hash
  /\ batchTail = batch[Len(batch)].block.hash

BatchReady ==
  \A i \in 1 .. Len(batch) : \A t \in batch[i].block.txs : t.id <= lastIndexed

\* A task that does not run has no history.
OffIsClean == pc = "off" => sent = <<>>

StreamInv ==
  /\ TypeOK
  /\ OffIsClean
  /\ DbInv
  /\ StreamLinked
  /\ ReadyOnly
  /\ BatchReady
  /\ pc \in {"poll", "send"} /\ sent # <<>> => current = Last(sent).height + 1
  /\ pc = "poll" /\ sent # <<>> => lastHash = Last(sent).hash
  /\ pc = "send" => BatchLinked /\ BatchFollows

-----------------------------------------------------------------------------
\* At(h) is the fetched row at a height where there is one.
LEMMA AtIsFetched ==
  ASSUME NEW h, Present(h)
  PROVE  At(h) \in Fetched /\ At(h).height = h
BY DEF Present, At

LEMMA ToHeightIsInt ==
  ASSUME StreamInv
  PROVE  /\ ToHeight \in Int
         /\ ToHeight <= WalletReadyHeight
BY ReadyHeight, SubscribeAssumption DEF ToHeight, StreamInv, TypeOK

\* A fetched row is a row that the wallet-indexer has completed.
LEMMA FetchedReady ==
  ASSUME StreamInv, NEW b \in Fetched
  PROVE  /\ b \in BlockRow
         /\ current <= b.height /\ b.height <= ToHeight
         /\ \A t \in b.txs : t.id <= lastIndexed
<1>1. b \in blocks /\ current <= b.height /\ b.height <= ToHeight
  BY DEF Fetched, BlocksInRange
<1>2. b \in BlockRow
  BY <1>1 DEF StreamInv, TypeOK, DbTypeOK
<1>3. b.height <= WalletReadyHeight
  BY <1>1, <1>2, ToHeightIsInt, ReadyHeight DEF StreamInv, BlockRow
<1>4. QED
  BY <1>1, <1>2, <1>3, ReadyHeight DEF StreamInv

\* A task that returns leaves nothing behind to be linked.
LEMMA StopInv ==
  ASSUME StreamInv, Stop, DbInv', chan' \in Seq(Event), held' \subseteq Item,
         cursor' \in Key \cup {NoCursor}, restartAt' \in Nat, drops' \in Nat
  PROVE  StreamInv'
<1>1. TypeOK'
  <2>1. DbTypeOK'
    BY DEF DbInv
  <2>2. /\ pc' \in {"off", "poll", "send", "reset"}
        /\ current' \in Nat /\ safeHeight' \in Nat
        /\ lastHash' \in Nat /\ batchTail' \in Nat
        /\ fromCursor' \in Key \cup {NoCursor}
        /\ hbDue' \in BOOLEAN
    BY DEF Stop, NoHash
  <2>3. batch' \in Seq(Bundle) /\ sent' \in Seq(BlockRow)
    BY EmptySeq DEF Stop
  <2>4. QED
    BY <2>1, <2>2, <2>3 DEF TypeOK
<1>2. sent' = <<>> /\ batch' = <<>> /\ pc' = "off"
  BY DEF Stop
<1>3. StreamLinked' /\ ReadyOnly' /\ BatchReady'
  BY <1>2 DEF StreamLinked, ReadyOnly, BatchReady
<1>4. QED
  BY <1>1, <1>2, <1>3 DEF StreamInv, OffIsClean

LEMMA HeartbeatInv == StreamInv /\ Heartbeat => StreamInv'
<1> SUFFICES ASSUME StreamInv, Heartbeat
             PROVE  StreamInv'
  OBVIOUS
<1>1. [type |-> "heartbeat", height |-> current] \in Event
  BY DEF Event, StreamInv, TypeOK
<1>2. chan' \in Seq(Event)
  BY <1>1 DEF Heartbeat, HeartbeatDue, StreamInv, TypeOK
<1>3. QED
  BY <1>2 DEF Heartbeat, HeartbeatDue, StreamInv, TypeOK, dbVars, clientVars, DbInv, DbTypeOK, Known,
     StreamLinked, ReadyOnly, BatchReady, BatchLinked, BatchFollows, OffIsClean

LEMMA TickInv == StreamInv /\ Tick => StreamInv'
BY DEF Tick, StreamInv, TypeOK, dbVars, clientVars, DbInv, DbTypeOK, Known,
   StreamLinked, ReadyOnly, BatchReady, BatchLinked, BatchFollows, OffIsClean

\* A batch without faults continues what was sent, and is linked.
LEMMA FetchBatchInv == StreamInv /\ FetchBatch => StreamInv'
<1> SUFFICES ASSUME StreamInv, FetchBatch
             PROVE  StreamInv'
  OBVIOUS
<1>1. PICK n \in 1 .. BatchSize :
        /\ {b.height : b \in Fetched} = current .. (current + n - 1)
        /\ batch' = [i \in 1 .. n |-> MakeBundle(At(current + i - 1))]
        /\ batchTail' = At(current + n - 1).hash
  BY DEF FetchBatch
<1>2. n \in Nat /\ n >= 1 /\ current \in Nat
  BY SubscribeAssumption DEF StreamInv, TypeOK
<1>3. ASSUME NEW i \in 1 .. n
      PROVE  /\ Present(current + i - 1)
             /\ At(current + i - 1) \in Fetched
             /\ At(current + i - 1).height = current + i - 1
             /\ At(current + i - 1) \in BlockRow
             /\ ~Mismatch(current + i - 1)
  <2>1. current + i - 1 \in current .. (current + n - 1)
    BY <1>2
  <2>2. Present(current + i - 1)
    BY <1>1, <2>1 DEF Present
  <2>3. At(current + i - 1) \in Fetched /\ At(current + i - 1).height = current + i - 1
    BY <2>2, AtIsFetched
  <2>4. current + i - 1 \in current .. ToHeight
    BY <1>2, <2>3, FetchedReady, ToHeightIsInt
  <2>5. ~Mismatch(current + i - 1)
    BY <2>4 DEF FetchBatch, Faults
  <2>6. QED
    BY <2>2, <2>3, <2>5, FetchedReady
<1>4. ASSUME NEW i \in 1 .. n
      PROVE  /\ batch'[i] = MakeBundle(At(current + i - 1))
             /\ batch'[i].block = At(current + i - 1)
             /\ batch'[i] \in Bundle
  <2>1. batch'[i] = MakeBundle(At(current + i - 1))
    BY <1>1
  <2>2. RelevantTxs(At(current + i - 1)) \in SUBSET Nat
    BY <1>3 DEF RelevantTxs, BlockRow, TxRow
  <2>3. QED
    BY <1>3, <2>1, <2>2 DEF MakeBundle, Bundle
<1>5. batch' \in Seq(Bundle) /\ Len(batch') = n
  <2>1. batch' \in [1 .. n -> Bundle]
    BY <1>1, <1>4
  <2>2. batch' \in Seq(Bundle)
    BY <1>2, <2>1, SeqDef
  <2>3. QED
    BY <1>2, <2>1, <2>2, LenProperties
<1>6. /\ pc' = "send" /\ lastHash' = Boundary
      /\ UNCHANGED <<dbVars, current, fromCursor, safeHeight, hbDue, sent, chan,
                     clientVars, drops>>
  BY DEF FetchBatch
<1>7. Boundary \in Nat
  <2>1. current > 0 => BlockHashAt(current - 1) \in Nat
    BY <1>2, HashAtIsNat DEF StreamInv
  <2>2. QED
    BY <2>1 DEF Boundary, StreamInv, TypeOK
<1>8. batchTail' = batch'[n].block.hash /\ batchTail' \in Nat
  <2>1. n \in 1 .. n
    BY <1>2
  <2>2. QED
    BY <1>1, <1>3, <1>4, <2>1 DEF BlockRow, Hash
<1>9. TypeOK' /\ DbInv'
  BY <1>5, <1>6, <1>7, <1>8
     DEF StreamInv, TypeOK, DbInv, DbTypeOK, Known, dbVars, clientVars
<1>10. BatchReady'
  BY <1>3, <1>4, <1>5, <1>6, FetchedReady DEF BatchReady, dbVars
<1>11. BatchLinked'
  <2>1. ASSUME NEW i \in 1 .. n - 1
        PROVE  /\ batch'[i + 1].block.height = batch'[i].block.height + 1
               /\ batch'[i + 1].block.parent = batch'[i].block.hash
    <3> DEFINE h == current + i
    <3>1. i \in 1 .. n /\ i + 1 \in 1 .. n /\ current + (i + 1) - 1 = h
      BY <1>2
    <3>2. batch'[i].block = At(h - 1) /\ batch'[i + 1].block = At(h)
      BY <1>2, <1>4, <3>1
    <3>3. Present(h) /\ ~Mismatch(h) /\ At(h).height = h
      BY <1>3, <3>1
    <3>4. Present(h - 1) /\ At(h - 1).height = h - 1
      BY <1>2, <1>3, <3>1
    <3>5. At(h).parent = At(h - 1).hash
      BY <1>2, <3>3, <3>4 DEF Mismatch
    <3>6. QED
      BY <1>2, <3>2, <3>3, <3>4, <3>5
  <2>2. QED
    BY <1>5, <2>1 DEF BatchLinked
<1>12. BatchFollows'
  <2>1. 1 \in 1 .. n /\ current + 1 - 1 = current
    BY <1>2
  <2>2. batch'[1].block = At(current) /\ At(current).height = current
    BY <1>3, <1>4, <2>1
  <2>3. Present(current) /\ ~Mismatch(current)
    BY <1>3, <2>1
  <2>4. ASSUME sent # <<>>
        PROVE  At(current).parent = Last(sent).hash
    <3>1. lastHash = Last(sent).hash
      BY <2>4 DEF StreamInv, FetchBatch
    <3>2. Last(sent) \in BlockRow
      BY <2>4 DEF Last, StreamInv, TypeOK
    <3>3. Boundary = lastHash /\ Boundary # NoHash
      BY <3>1, <3>2 DEF Boundary, NoHash, BlockRow, Hash
    <3>4. QED
      BY <2>3, <3>1, <3>3 DEF Mismatch
  <2>5. batch' # <<>>
    BY <1>2, <1>5
  <2>6. QED
    BY <1>5, <1>6, <1>8, <2>2, <2>4, <2>5 DEF BatchFollows
<1>13. StreamLinked' /\ ReadyOnly'
  BY <1>6 DEF StreamInv, StreamLinked, ReadyOnly, dbVars
<1>14. pc' \in {"poll", "send"} /\ sent' # <<>> => current' = Last(sent').height + 1
  BY <1>6 DEF StreamInv, FetchBatch
<1>15. QED
  BY <1>6, <1>9, <1>10, <1>11, <1>12, <1>13, <1>14 DEF StreamInv, OffIsClean

LEMMA DetectResetInv == StreamInv /\ DetectReset => StreamInv'
<1> SUFFICES ASSUME StreamInv, DetectReset
             PROVE  StreamInv'
  OBVIOUS
<1>1. safeHeight' \in Nat
  <2>1. Faults \in SUBSET Nat /\ Faults # {}
    BY ToHeightIsInt DEF DetectReset, Faults, StreamInv, TypeOK
  <2>2. Min(Faults) \in Nat
    BY <2>1, MinOfNats
  <2>3. Max({Min(Faults) - 1, 0}) \in {Min(Faults) - 1, 0}
    BY <2>2 DEF Max
  <2>4. \A y \in {Min(Faults) - 1, 0} : Max({Min(Faults) - 1, 0}) >= y
    BY <2>2 DEF Max
  <2>5. QED
    BY <2>2, <2>3, <2>4 DEF DetectReset, SafeRestart
<1>2. QED
  BY <1>1 DEF DetectReset, StreamInv, TypeOK, dbVars, clientVars, DbInv, DbTypeOK, Known,
     StreamLinked, ReadyOnly, BatchReady, OffIsClean

LEMMA SendResetInv == StreamInv /\ SendReset => StreamInv'
<1> SUFFICES ASSUME StreamInv, SendReset
             PROVE  StreamInv'
  OBVIOUS
<1>1. [type |-> "control", height |-> safeHeight] \in Event
  BY DEF Event, StreamInv, TypeOK
<1>2. chan' \in Seq(Event)
  BY <1>1 DEF SendReset, StreamInv, TypeOK
<1>3. DbInv' /\ UNCHANGED <<held, cursor, restartAt, drops>>
  BY DEF SendReset, dbVars, clientVars, DbInv, DbTypeOK, Known, StreamInv
<1>4. QED
  BY <1>2, <1>3, StopInv DEF SendReset, StreamInv, TypeOK

\* Sending the first bundle of the batch appends its block to the chain; after
\* the last one last_block_hash is the hash of the last block sent.
LEMMA SendBundleInv == StreamInv /\ SendBundle => StreamInv'
<1> SUFFICES ASSUME StreamInv, SendBundle
             PROVE  StreamInv'
  OBVIOUS
<1> DEFINE b == Head(batch).block
<1>1. /\ pc = "send" /\ BatchLinked /\ BatchFollows
      /\ batch \in Seq(Bundle) /\ batch # <<>> /\ sent \in Seq(BlockRow)
      /\ chan \in Seq(Event)
  BY DEF SendBundle, StreamInv, TypeOK, BatchFollows
<1>2. /\ Head(batch) = batch[1] /\ Head(batch) \in Bundle
      /\ Tail(batch) \in Seq(Bundle) /\ Len(Tail(batch)) = Len(batch) - 1
      /\ Len(batch) \in Nat \ {0}
      /\ \A i \in 1 .. Len(Tail(batch)) : Tail(batch)[i] = batch[i + 1]
  BY <1>1, HeadTailProperties, EmptySeq
<1>3. b \in BlockRow
  BY <1>2 DEF Bundle
<1>4. /\ current' = b.height + 1
      /\ sent' = Append(sent, b)
      /\ batch' = Tail(batch)
      /\ UNCHANGED <<dbVars, batchTail, safeHeight, clientVars, drops>>
  BY DEF SendBundle
<1>5. \/ Len(batch) > 1 /\ pc' = "send" /\ UNCHANGED <<lastHash, hbDue>>
      \/ Len(batch) = 1 /\ pc' = "poll" /\ lastHash' = batchTail /\ hbDue' = FALSE
  BY <1>1 DEF SendBundle
<1>6. sent' \in Seq(BlockRow) /\ sent' # <<>> /\ Len(sent') = Len(sent) + 1
      /\ Last(sent') = b /\ \A i \in 1 .. Len(sent) : sent'[i] = sent[i]
  BY <1>1, <1>3, <1>4 DEF Last
<1>7. chan' \in Seq(Event)
  <2>1. Retained(Head(batch)) \in SUBSET Nat
    BY <1>2 DEF Retained, Bundle
  <2>2. [Head(batch) EXCEPT !.items = Retained(Head(batch))] \in Bundle
    BY <1>2, <2>1 DEF Bundle
  <2>3. [type |-> "block",
         bundle |-> [Head(batch) EXCEPT !.items = Retained(Head(batch))]] \in Event
    BY <2>2 DEF Event
  <2>4. \/ chan' = chan
        \/ chan' = Append(chan, [type |-> "block",
                   bundle |-> [Head(batch) EXCEPT !.items = Retained(Head(batch))]])
    BY DEF SendBundle
  <2>5. QED
    BY <1>1, <2>3, <2>4
<1>8. fromCursor' \in Key \cup {NoCursor}
  BY DEF SendBundle, StreamInv, TypeOK
<1>9. TypeOK' /\ DbInv'
  <2>1. DbInv' /\ DbTypeOK'
    BY <1>4 DEF StreamInv, DbInv, DbTypeOK, Known, dbVars
  <2>2. current' \in Nat
    BY <1>3, <1>4 DEF BlockRow
  <2>3. lastHash' \in Nat /\ hbDue' \in BOOLEAN /\ pc' \in {"off", "poll", "send", "reset"}
    BY <1>5 DEF StreamInv, TypeOK
  <2>4. /\ batchTail' \in Nat /\ safeHeight' \in Nat /\ held' \subseteq Item
        /\ cursor' \in Key \cup {NoCursor} /\ restartAt' \in Nat /\ drops' \in Nat
    BY <1>4 DEF StreamInv, TypeOK, clientVars
  <2>5. batch' \in Seq(Bundle)
    BY <1>2, <1>4
  <2>6. QED
    BY <1>6, <1>7, <1>8, <2>1, <2>2, <2>3, <2>4, <2>5 DEF TypeOK
<1>10. StreamLinked'
  <2>1. ASSUME NEW i \in 1 .. Len(sent') - 1
        PROVE  /\ sent'[i + 1].height = sent'[i].height + 1
               /\ sent'[i + 1].parent = sent'[i].hash
    <3>1. CASE i < Len(sent)
      <4>1. Len(sent) \in Nat
        BY <1>1, LenProperties
      <4>2. i \in 1 .. Len(sent) - 1 /\ i \in 1 .. Len(sent) /\ i + 1 \in 1 .. Len(sent)
        BY <1>6, <3>1, <4>1
      <4>3. sent'[i] = sent[i] /\ sent'[i + 1] = sent[i + 1]
        BY <1>6, <4>2
      <4>4. QED
        BY <4>2, <4>3 DEF StreamInv, StreamLinked
    <3>2. CASE i = Len(sent)
      <4>1. sent # <<>> /\ sent'[i] = Last(sent) /\ sent'[i + 1] = b
        BY <1>1, <1>4, <1>6, <3>2 DEF Last
      <4>2. b.height = current /\ current = Last(sent).height + 1 /\ b.parent = Last(sent).hash
        BY <1>1, <1>2, <4>1 DEF StreamInv, BatchFollows
      <4>3. QED
        BY <4>1, <4>2
    <3>3. QED
      BY <1>1, <1>6, <3>1, <3>2
  <2>2. QED
    BY <2>1 DEF StreamLinked
<1>11. ReadyOnly' /\ BatchReady'
  <2>1. \A t \in b.txs : t.id <= lastIndexed
    BY <1>2 DEF StreamInv, BatchReady
  <2>2. ReadyOnly'
    <3>1. ASSUME NEW i \in 1 .. Len(sent')
          PROVE  \A t \in sent'[i].txs : t.id <= lastIndexed
      <4>1. CASE i \in 1 .. Len(sent)
        BY <1>6, <4>1 DEF StreamInv, ReadyOnly
      <4>2. CASE i = Len(sent')
        BY <1>6, <2>1, <4>2 DEF Last
      <4>3. QED
        BY <1>1, <1>6, <4>1, <4>2
    <3>2. QED
      BY <1>4, <3>1 DEF ReadyOnly, dbVars
  <2>3. BatchReady'
    BY <1>2, <1>4 DEF StreamInv, BatchReady, dbVars
  <2>4. QED
    BY <2>2, <2>3
<1>12. current' = Last(sent').height + 1
  BY <1>4, <1>6
<1>13. pc' = "poll" => lastHash' = Last(sent').hash
  BY <1>1, <1>2, <1>5, <1>6 DEF BatchFollows
<1>14. pc' = "send" => BatchLinked' /\ BatchFollows'
  <2>1. SUFFICES ASSUME pc' = "send"
                 PROVE  BatchLinked' /\ BatchFollows'
    OBVIOUS
  <2>2. Len(batch) > 1 /\ batch' # <<>>
    BY <1>2, <1>4, <1>5, <2>1
  <2>3. BatchLinked'
    BY <1>1, <1>2, <1>4 DEF BatchLinked
  <2>4. batch'[1] = batch[2] /\ batch'[Len(batch')] = batch[Len(batch)]
    BY <1>2, <1>4, <2>2
  <2>5. batch[2].block.height = b.height + 1 /\ batch[2].block.parent = b.hash
    BY <1>1, <1>2, <2>2 DEF BatchLinked
  <2>6. QED
    BY <1>1, <1>4, <1>6, <2>2, <2>3, <2>4, <2>5 DEF BatchFollows
<1>15. QED
  BY <1>5, <1>9, <1>10, <1>11, <1>12, <1>13, <1>14 DEF StreamInv, OffIsClean

LEMMA ConnectInv == StreamInv /\ Connect => StreamInv'
<1> SUFFICES ASSUME StreamInv, Connect
             PROVE  StreamInv'
  OBVIOUS
<1>1. fromCursor' \in Key \cup {NoCursor}
  BY DEF Connect, StreamInv, TypeOK
<1>2. current' \in Nat
  BY DEF Connect, StreamInv, TypeOK, Key
<1>3. sent' = sent /\ sent = <<>>
  BY DEF Connect, StreamInv, OffIsClean
<1>4. UNCHANGED <<dbVars, lastHash, batch, batchTail, safeHeight, hbDue, sent,
                  chan, clientVars, drops>> /\ pc' = "poll"
  BY DEF Connect
<1>5. TypeOK' /\ DbInv'
  BY <1>1, <1>2, <1>4
     DEF StreamInv, TypeOK, dbVars, clientVars, DbInv, DbTypeOK, Known
<1>6. StreamLinked' /\ ReadyOnly' /\ BatchReady'
  BY <1>4 DEF StreamInv, StreamLinked, ReadyOnly, BatchReady, dbVars
<1>7. QED
  BY <1>3, <1>4, <1>5, <1>6 DEF StreamInv, OffIsClean

\* What the client does with an event concerns only its own state.
LEMMA ClientStateInv ==
  ASSUME StreamInv, UNCHANGED <<dbVars, streamVars>>, chan' \in Seq(Event),
         held' \subseteq Item, cursor' \in Key \cup {NoCursor},
         restartAt' \in Nat, drops' \in Nat
  PROVE  StreamInv'
BY DEF StreamInv, TypeOK, dbVars, streamVars, DbInv, DbTypeOK, Known, OffIsClean,
   StreamLinked, ReadyOnly, BatchReady, BatchLinked, BatchFollows

LEMMA StoreType ==
  ASSUME StreamInv, NEW bundle \in Bundle, NEW i \in Nat, Store(bundle, i)
  PROVE  held' \subseteq Item /\ cursor' \in Key \cup {NoCursor} /\ restartAt' \in Nat
<1>1. bundle.block \in BlockRow /\ bundle.items \in SUBSET Nat
  BY DEF Bundle
<1>2. QED
  BY <1>1 DEF Store, ItemOf, StreamInv, TypeOK, Item, Key, BlockRow

\* The items of a block event on the wire are the ids of its bundle.
LEMMA HeadBlockType ==
  ASSUME StreamInv, chan # <<>>, Head(chan).type = "block"
  PROVE  Head(chan).bundle \in Bundle /\ Tail(chan) \in Seq(Event)
<1>1. Head(chan) \in Event /\ Tail(chan) \in Seq(Event)
  BY HeadTailProperties DEF StreamInv, TypeOK
<1>2. QED
  BY <1>1 DEF Event

LEMMA ClientInv ==
  StreamInv /\ (ReceiveBlock \/ ReceiveHeartbeat \/ ReceiveReset \/ Disconnect)
    => StreamInv'
<1> SUFFICES ASSUME StreamInv
             PROVE  ReceiveBlock \/ ReceiveHeartbeat \/ ReceiveReset \/ Disconnect
                      => StreamInv'
  OBVIOUS
<1>1. ASSUME ReceiveBlock
      PROVE  StreamInv'
  <2>1. PICK i \in Head(chan).bundle.items : Store(Head(chan).bundle, i)
    BY <1>1 DEF ReceiveBlock
  <2>2. Head(chan).bundle \in Bundle /\ Tail(chan) \in Seq(Event)
    BY <1>1, HeadBlockType DEF ReceiveBlock
  <2>3. i \in Nat
    BY <2>2 DEF Bundle
  <2>4. QED
    BY <1>1, <2>1, <2>2, <2>3, StoreType, ClientStateInv DEF ReceiveBlock, StreamInv, TypeOK
<1>2. ASSUME ReceiveHeartbeat
      PROVE  StreamInv'
  <2>1. Tail(chan) \in Seq(Event)
    BY <1>2, HeadTailProperties DEF ReceiveHeartbeat, StreamInv, TypeOK
  <2>2. QED
    BY <1>2, <2>1, ClientStateInv DEF ReceiveHeartbeat, StreamInv, TypeOK, clientVars
<1>3. ASSUME ReceiveReset
      PROVE  StreamInv'
  <2>1. Head(chan) \in Event /\ Head(chan).type = "control"
    BY <1>3, HeadTailProperties DEF ReceiveReset, StreamInv, TypeOK
  <2>2. Head(chan).height \in Nat
    BY <2>1 DEF Event
  <2>3. chan' \in Seq(Event) /\ held' \subseteq Item
    BY <1>3, EmptySeq DEF ReceiveReset, StreamInv, TypeOK
  <2>4. QED
    BY <1>3, <2>2, <2>3, ClientStateInv DEF ReceiveReset, StreamInv, TypeOK
<1>4. ASSUME Disconnect
      PROVE  StreamInv'
  <2>1. Stop /\ chan' = <<>> /\ drops' \in Nat /\ UNCHANGED dbVars
    BY <1>4 DEF Disconnect, Drop, StreamInv, TypeOK
  <2>2. DbInv' /\ chan' \in Seq(Event)
    BY <2>1, EmptySeq DEF StreamInv, DbInv, DbTypeOK, Known, dbVars
  <2>3. held' \subseteq Item /\ cursor' \in Key \cup {NoCursor} /\ restartAt' \in Nat
    <3>1. CASE UNCHANGED clientVars
      BY <3>1 DEF clientVars, StreamInv, TypeOK
    <3>2. CASE ~UNCHANGED clientVars
      <4>1. /\ chan # <<>> /\ Head(chan).type = "block"
            /\ \E i \in Head(chan).bundle.items : Store(Head(chan).bundle, i)
        BY <1>4, <3>2 DEF Disconnect
      <4>2. Head(chan).bundle \in Bundle
        BY <4>1, HeadBlockType
      <4>3. QED
        BY <4>1, <4>2, StoreType DEF Bundle
    <3>3. QED
      BY <3>1, <3>2
  <2>4. QED
    BY <2>1, <2>2, <2>3, StopInv
<1>5. QED
  BY <1>1, <1>2, <1>3, <1>4

LEMMA FailureInv == StreamInv /\ (SendTimeout \/ StreamError) => StreamInv'
<1> SUFFICES ASSUME StreamInv, SendTimeout \/ StreamError
             PROVE  StreamInv'
  OBVIOUS
<1>1. Stop /\ drops' \in Nat /\ UNCHANGED <<dbVars, chan, clientVars>>
  BY DEF SendTimeout, StreamError, Drop, StreamInv, TypeOK
<1>2. QED
  BY <1>1, StopInv DEF StreamInv, TypeOK, DbInv, DbTypeOK, Known, dbVars, clientVars

\* Blocks that were handled stay complete: last_indexed_transaction_id grows.
LEMMA DbInvariance == StreamInv /\ Db => StreamInv'
<1> SUFFICES ASSUME StreamInv, Db
             PROVE  StreamInv'
  OBVIOUS
<1>1. DbInv' /\ lastIndexed <= lastIndexed'
  BY DbStep DEF Db, StreamInv
<1>2. UNCHANGED <<streamVars, chan, clientVars, drops>>
  BY DEF Db
<1>3. lastIndexed \in Nat /\ lastIndexed' \in Nat
  BY <1>1 DEF StreamInv, DbInv, DbTypeOK
<1>4. TypeOK'
  BY <1>1, <1>2 DEF StreamInv, TypeOK, DbInv, streamVars, clientVars
<1>5. ReadyOnly'
  <2>1. ASSUME NEW i \in 1 .. Len(sent), NEW t \in sent[i].txs
        PROVE  t.id <= lastIndexed'
    <3>1. sent[i] \in BlockRow
      BY ElementOfSeq DEF StreamInv, TypeOK
    <3>2. t.id \in Nat /\ t.id <= lastIndexed
      BY <3>1 DEF StreamInv, ReadyOnly, BlockRow, TxRow
    <3>3. QED
      BY <1>1, <1>3, <3>2
  <2>2. QED
    BY <1>2, <2>1 DEF ReadyOnly, streamVars
<1>6. BatchReady'
  <2>1. ASSUME NEW i \in 1 .. Len(batch), NEW t \in batch[i].block.txs
        PROVE  t.id <= lastIndexed'
    <3>1. batch[i] \in Bundle
      BY ElementOfSeq DEF StreamInv, TypeOK
    <3>2. t.id \in Nat /\ t.id <= lastIndexed
      BY <3>1 DEF StreamInv, BatchReady, Bundle, BlockRow, TxRow
    <3>3. QED
      BY <1>1, <1>3, <3>2
  <2>2. QED
    BY <1>2, <2>1 DEF BatchReady, streamVars
<1>7. QED
  BY <1>1, <1>2, <1>4, <1>5, <1>6
     DEF StreamInv, streamVars, StreamLinked, BatchLinked, BatchFollows, OffIsClean

-----------------------------------------------------------------------------
\* The invariant holds throughout.
THEOREM StreamInvariant == Spec => []StreamInv
<1>1. ASSUME Init
      PROVE  StreamInv
  <2>1. DbInv
    BY <1>1 DEF Init, DbInit, DbInv, DbTypeOK, Known, Hash
  <2>2. batch \in Seq(Bundle) /\ chan \in Seq(Event) /\ sent \in Seq(BlockRow)
    BY <1>1, EmptySeq DEF Init
  <2>3. TypeOK
    BY <1>1, <2>1, <2>2 DEF Init, TypeOK, DbInv, NoHash
  <2>4. pc = "off" /\ sent = <<>> /\ batch = <<>>
    BY <1>1 DEF Init
  <2>5. QED
    BY <2>1, <2>3, <2>4 DEF StreamInv, StreamLinked, ReadyOnly, BatchReady, OffIsClean
<1>2. StreamInv /\ [Next]_vars => StreamInv'
  <2> SUFFICES ASSUME StreamInv, [Next]_vars
               PROVE  StreamInv'
    OBVIOUS
  <2>1. CASE Db
    BY <2>1, DbInvariance
  <2>2. CASE Tick
    BY <2>2, TickInv
  <2>3. CASE Stream
    BY <2>3, HeartbeatInv, FetchBatchInv, DetectResetInv, SendResetInv, SendBundleInv,
       FailureInv DEF Stream
  <2>4. CASE Client
    BY <2>4, ConnectInv, ClientInv DEF Client
  <2>5. CASE UNCHANGED vars
    <3>1. /\ UNCHANGED <<dbVars, streamVars>> /\ UNCHANGED chan
          /\ UNCHANGED <<held, cursor, restartAt, drops>>
      BY <2>5 DEF vars, clientVars
    <3>2. QED
      BY <3>1, ClientStateInv DEF StreamInv, TypeOK
  <2>6. QED
    BY <2>1, <2>2, <2>3, <2>4, <2>5 DEF Next
<1>3. QED
  BY <1>1, <1>2, PTL DEF Spec

\* Every variable keeps its type, whatever the bounds.
THEOREM TypeCorrect == Spec => []TypeOK
<1>1. StreamInv => TypeOK
  BY DEF StreamInv
<1>2. QED
  BY <1>1, StreamInvariant, PTL

\* The blocks of one connection form a chain, however the indexers reorganise
\* the tables between two of its polls.
THEOREM StreamIsLinked == Spec => []StreamLinked
<1>1. StreamInv => StreamLinked
  BY DEF StreamInv
<1>2. QED
  BY <1>1, StreamInvariant, PTL

\* No block is handled before the wallet-indexer has checked all of it.
THEOREM StreamIsReady == Spec => []ReadyOnly
<1>1. StreamInv => ReadyOnly
  BY DEF StreamInv
<1>2. QED
  BY <1>1, StreamInvariant, PTL

-----------------------------------------------------------------------------
(* Nothing comes twice or out of order, over connections, failures, resets *)
(* and reorganisations.                                                    *)

\* While a task runs, what it has sent lies below the height it is at.
SentBelow ==
  pc # "off" =>
    \A k \in 1 .. Len(chan) :
      chan[k].type = "block" => chan[k].bundle.block.height < current

\* It runs ahead of the client's cursor; at the block of the cursor itself it
\* still has the filter that drops what the client holds.
AheadOfCursor ==
  pc # "off" /\ cursor # NoCursor =>
    cursor[1] < current \/ (cursor[1] = current /\ fromCursor = cursor)

FreshInv == FreshDelivery /\ SentBelow /\ AheadOfCursor

\* What a step leaves on the wire is in order; where the cursor moves, it moves
\* to something that lay before all of it.
LEMMA TailIsFresh ==
  ASSUME StreamInv, FreshInv, chan # <<>>, chan' = Tail(chan), UNCHANGED streamVars,
         \/ UNCHANGED cursor
         \/ /\ Head(chan).type = "block"
            /\ \E i \in Nat : cursor' = <<Head(chan).bundle.block.height, i>>
  PROVE  FreshInv'
<1>1. /\ chan \in Seq(Event) /\ Len(chan) \in Nat \ {0} /\ Head(chan) = chan[1]
      /\ Len(chan') = Len(chan) - 1
      /\ \A k \in 1 .. Len(chan') : chan'[k] = chan[k + 1]
  BY HeadTailProperties, EmptySeq DEF StreamInv, TypeOK
<1>2. ASSUME NEW k \in 1 .. Len(chan'), chan'[k].type = "block"
      PROVE  /\ k + 1 \in 1 .. Len(chan) /\ chan[k + 1].type = "block"
             /\ chan'[k].bundle.block.height = chan[k + 1].bundle.block.height
             /\ chan'[k].bundle.items = chan[k + 1].bundle.items
             /\ chan'[k].bundle.block.height \in Nat
  <2>1. k + 1 \in 1 .. Len(chan) /\ chan'[k] = chan[k + 1]
    BY <1>1
  <2>2. chan[k + 1] \in Event
    BY <1>1, <2>1, ElementOfSeq
  <2>3. QED
    BY <1>2, <2>1, <2>2 DEF Event, Bundle, BlockRow
<1>3. ASSUME NEW k \in 1 .. Len(chan'), chan'[k].type = "block"
      PROVE  /\ \A i \in chan'[k].bundle.items :
                  cursor' = NoCursor \/ KeyLess(cursor', <<chan'[k].bundle.block.height, i>>)
             /\ \A j \in 1 .. k - 1 : chan'[j].type = "block" =>
                  chan'[j].bundle.block.height < chan'[k].bundle.block.height
  <2>1. ASSUME NEW j \in 1 .. k - 1, chan'[j].type = "block"
        PROVE  chan'[j].bundle.block.height < chan'[k].bundle.block.height
    <3>1. j \in 1 .. Len(chan') /\ j + 1 \in 1 .. (k + 1) - 1
      BY <1>1
    <3>2. QED
      BY <1>2, <1>3, <2>1, <3>1 DEF FreshInv, FreshDelivery
  <2>2. CASE UNCHANGED cursor
    BY <1>2, <1>3, <2>1, <2>2 DEF FreshInv, FreshDelivery
  <2>3. ASSUME Head(chan).type = "block",
               NEW i \in Nat, cursor' = <<Head(chan).bundle.block.height, i>>
        PROVE  \A n \in chan'[k].bundle.items :
                 KeyLess(cursor', <<chan'[k].bundle.block.height, n>>)
    <3>1. 1 \in 1 .. (k + 1) - 1
      BY <1>1
    <3>2. Head(chan).bundle.block.height < chan[k + 1].bundle.block.height
      BY <1>1, <1>2, <1>3, <2>3, <3>1 DEF FreshInv, FreshDelivery
    <3>3. QED
      BY <1>2, <1>3, <2>3, <3>2 DEF KeyLess
  <2>4. QED
    BY <2>1, <2>2, <2>3
<1>4. FreshDelivery'
  BY <1>3 DEF FreshDelivery
<1>5. SentBelow'
  BY <1>1, <1>2 DEF FreshInv, SentBelow, streamVars
<1>6. AheadOfCursor'
  <2>1. CASE UNCHANGED cursor
    BY <2>1 DEF FreshInv, AheadOfCursor, streamVars
  <2>2. CASE \E i \in Nat : cursor' = <<Head(chan).bundle.block.height, i>> /\ Head(chan).type = "block"
    BY <1>1, <2>2 DEF FreshInv, SentBelow, AheadOfCursor, streamVars
  <2>3. QED
    BY <2>1, <2>2
<1>7. QED
  BY <1>4, <1>5, <1>6 DEF FreshInv

\* A bundle is at the height of the task, and the filter has dropped what the
\* client holds of it.
LEMMA SendIsFresh ==
  ASSUME StreamInv, FreshInv, SendBundle
  PROVE  FreshInv'
<1> DEFINE bundle == Head(batch)
           event == [type |-> "block", bundle |-> [bundle EXCEPT !.items = Retained(bundle)]]
<1>1. /\ batch # <<>> /\ bundle = batch[1] /\ bundle \in Bundle
      /\ bundle.block.height = current /\ current \in Nat /\ pc = "send"
  BY HeadTailProperties, EmptySeq DEF SendBundle, StreamInv, TypeOK, BatchFollows
<1>2. /\ current' = current + 1
      /\ \/ UNCHANGED chan
         \/ chan' = Append(chan, event)
      /\ cursor' = cursor
  BY <1>1 DEF SendBundle, clientVars
<1>3. pc' # "off"
  BY <1>1 DEF SendBundle
<1>4. chan \in Seq(Event) /\ Len(chan) \in Nat
  BY LenProperties DEF StreamInv, TypeOK
<1>5. /\ event.type = "block" /\ event.bundle.block.height = current
      /\ event.bundle.items = Retained(bundle)
  BY <1>1 DEF Bundle
<1>6. \A k \in 1 .. Len(chan) :
        chan[k].type = "block" => /\ chan[k].bundle.block.height \in Nat
                                  /\ chan[k].bundle.block.height < current
  BY <1>1, <1>4, ElementOfSeq DEF FreshInv, SentBelow, Event, Bundle, BlockRow
<1>7. \A i \in Retained(bundle) : cursor = NoCursor \/ KeyLess(cursor, <<current, i>>)
  BY <1>1 DEF Retained, FreshInv, AheadOfCursor, KeyLess
<1>8. AheadOfCursor'
  <2>1. cursor # NoCursor => cursor[1] \in Nat /\ cursor[1] <= current
    BY <1>1 DEF FreshInv, AheadOfCursor, StreamInv, TypeOK, Key
  <2>2. QED
    BY <1>1, <1>2, <2>1 DEF AheadOfCursor
<1>9. CASE UNCHANGED chan
  <2>1. SentBelow'
    BY <1>1, <1>2, <1>6, <1>9 DEF SentBelow
  <2>2. FreshDelivery'
    BY <1>2, <1>9 DEF FreshInv, FreshDelivery
  <2>3. QED
    BY <1>8, <2>1, <2>2 DEF FreshInv
<1>10. CASE chan' = Append(chan, event)
  <2> HIDE DEF event
  <2>1. /\ Len(chan') = Len(chan) + 1 /\ chan'[Len(chan) + 1] = event
        /\ \A k \in 1 .. Len(chan) : chan'[k] = chan[k]
    BY <1>4, <1>10
  <2>2. \A k \in 1 .. Len(chan') : k \in 1 .. Len(chan) \/ k = Len(chan) + 1
    BY <1>4, <2>1
  <2>3. SentBelow'
    BY <1>1, <1>2, <1>5, <1>6, <2>1, <2>2 DEF SentBelow
  <2>4. ASSUME NEW k \in 1 .. Len(chan'), chan'[k].type = "block"
        PROVE  /\ \A i \in chan'[k].bundle.items :
                    cursor' = NoCursor \/ KeyLess(cursor', <<chan'[k].bundle.block.height, i>>)
               /\ \A j \in 1 .. k - 1 : chan'[j].type = "block" =>
                    chan'[j].bundle.block.height < chan'[k].bundle.block.height
    <3>1. \A j \in 1 .. k - 1 : j \in 1 .. Len(chan)
      BY <1>4, <2>1
    <3>2. CASE k \in 1 .. Len(chan)
      BY <1>2, <2>1, <2>4, <3>1, <3>2 DEF FreshInv, FreshDelivery
    <3>3. CASE k = Len(chan) + 1
      BY <1>2, <1>5, <1>6, <1>7, <2>1, <3>1, <3>3
    <3>4. QED
      BY <2>2, <3>2, <3>3
  <2>5. FreshDelivery'
    BY <2>4 DEF FreshDelivery
  <2>6. QED
    BY <1>8, <2>3, <2>5 DEF FreshInv
<1>11. QED
  BY <1>2, <1>9, <1>10

\* An event that is no bundle changes nothing for the bundles.
LEMMA ControlIsFresh ==
  ASSUME StreamInv, FreshInv, NEW event, event.type # "block", chan' = Append(chan, event),
         UNCHANGED cursor, pc' = "off" \/ UNCHANGED streamVars \/ UNCHANGED <<pc, current, fromCursor>>
  PROVE  FreshInv'
<1>1. chan \in Seq(Event) /\ Len(chan) \in Nat
  BY LenProperties DEF StreamInv, TypeOK
<1>2. /\ Len(chan') = Len(chan) + 1 /\ chan'[Len(chan) + 1] = event
      /\ \A k \in 1 .. Len(chan) : chan'[k] = chan[k]
  BY <1>1, AppendProperties
<1>3. \A k \in 1 .. Len(chan') : k \in 1 .. Len(chan) \/ k = Len(chan) + 1
  BY <1>1, <1>2
<1>4. SentBelow' /\ AheadOfCursor'
  BY <1>2, <1>3 DEF FreshInv, SentBelow, AheadOfCursor, streamVars
<1>5. ASSUME NEW k \in 1 .. Len(chan'), chan'[k].type = "block"
      PROVE  /\ \A i \in chan'[k].bundle.items :
                  cursor' = NoCursor \/ KeyLess(cursor', <<chan'[k].bundle.block.height, i>>)
             /\ \A j \in 1 .. k - 1 : chan'[j].type = "block" =>
                  chan'[j].bundle.block.height < chan'[k].bundle.block.height
  <2>1. k \in 1 .. Len(chan) /\ \A j \in 1 .. k - 1 : j \in 1 .. Len(chan)
    BY <1>1, <1>2, <1>3, <1>5
  <2>2. QED
    BY <1>2, <1>5, <2>1 DEF FreshInv, FreshDelivery
<1>6. FreshDelivery'
  BY <1>5 DEF FreshDelivery
<1>7. QED
  BY <1>4, <1>6 DEF FreshInv

LEMMA FreshStep == StreamInv /\ FreshInv /\ [Next]_vars => FreshInv'
<1> SUFFICES ASSUME StreamInv, FreshInv, [Next]_vars
             PROVE  FreshInv'
  OBVIOUS
<1> DEFINE Still == UNCHANGED <<chan, cursor>> /\ (pc' = "off" \/ UNCHANGED <<pc, current, fromCursor>>)
<1>1. ASSUME Still PROVE FreshInv'
  BY <1>1 DEF FreshInv, FreshDelivery, SentBelow, AheadOfCursor
<1>2. CASE Db \/ Tick \/ UNCHANGED vars
  <2>1. Still
    BY <1>2 DEF Db, Tick, vars, streamVars, clientVars
  <2>2. QED
    BY <1>1, <2>1
<1>3. CASE SendTimeout \/ StreamError
  <2>1. Still
    BY <1>3 DEF SendTimeout, StreamError, Drop, Stop, clientVars
  <2>2. QED
    BY <1>1, <2>1
<1>4. CASE FetchBatch \/ DetectReset
  BY <1>4 DEF FetchBatch, DetectReset, clientVars, FreshInv, FreshDelivery, SentBelow, AheadOfCursor
<1>5. CASE Heartbeat
  BY <1>5, ControlIsFresh DEF Heartbeat, clientVars
<1>6. CASE SendReset
  BY <1>6, ControlIsFresh DEF SendReset, Stop, clientVars
<1>7. CASE SendBundle
  BY <1>7, SendIsFresh
<1>8. CASE Connect
  <2>1. chan' = <<>> /\ cursor' = cursor /\ fromCursor' = cursor
        /\ (cursor # NoCursor => current' = cursor[1])
    BY <1>8 DEF Connect, clientVars
  <2>2. QED
    BY <2>1 DEF FreshInv, FreshDelivery, SentBelow, AheadOfCursor
<1>9. CASE ReceiveBlock
  <2>1. PICK i \in Head(chan).bundle.items : Store(Head(chan).bundle, i)
    BY <1>9 DEF ReceiveBlock
  <2>2. Head(chan).bundle \in Bundle
    BY <1>9, HeadBlockType DEF ReceiveBlock
  <2>3. i \in Nat
    BY <2>2 DEF Bundle
  <2>4. QED
    BY <1>9, <2>1, <2>3, TailIsFresh DEF ReceiveBlock, Store
<1>10. CASE ReceiveHeartbeat
  BY <1>10, TailIsFresh DEF ReceiveHeartbeat, clientVars
<1>11. CASE ReceiveReset
  BY <1>11 DEF ReceiveReset, FreshInv, FreshDelivery, SentBelow, AheadOfCursor
<1>12. CASE Disconnect
  BY <1>12 DEF Disconnect, Drop, Stop, FreshInv, FreshDelivery, SentBelow, AheadOfCursor
<1>13. QED
  BY <1>2, <1>3, <1>4, <1>5, <1>6, <1>7, <1>8, <1>9, <1>10, <1>11, <1>12
     DEF Next, Stream, Client

\* Over reconnections in the middle of bundles, slow clients, resets, late rows
\* and reorganisations, with any size of batch and channel: what is on its way
\* to the client sorts after all it has stored, and is in order.
THEOREM DeliveryIsFresh == Spec => []FreshDelivery
<1>1. Init => FreshInv
  BY DEF Init, FreshInv, FreshDelivery, SentBelow, AheadOfCursor
<1>2. FreshInv => FreshDelivery
  BY DEF FreshInv
<1>3. QED
  BY <1>1, <1>2, FreshStep, StreamInvariant, PTL DEF Spec

-----------------------------------------------------------------------------
(* Until the first reorganisation or late row nothing is lost.             *)

Has(b, i) == ItemOf(b, i) \in held

\* Item i of block b is in one of the first n events.
OnWire(b, i, n) ==
  \E j \in 1 .. n :
    chan[j].type = "block" /\ chan[j].bundle.block = b /\ i \in chan[j].bundle.items

\* The client has what lies at or before its cursor, which is in a block.
CursorComplete ==
  cursor # NoCursor =>
    /\ \E b \in blocks : b.height = cursor[1]
    /\ \A b \in blocks : \A i \in Owed(b) : ~KeyLess(cursor, <<b.height, i>>) => Has(b, i)

\* What a task has left behind is with the client or on the wire.
StreamComplete ==
  pc # "off" =>
    /\ \A h \in 0 .. current - 1 : \E b \in blocks : b.height = h
    /\ \A b \in blocks : \A i \in Owed(b) :
         b.height < current => Has(b, i) \/ OnWire(b, i, Len(chan))

\* Events carry items of ready blocks; what lies before them, or is missing in
\* them, is with the client or on the wire before them.
WireComplete ==
  \A k \in 1 .. Len(chan) : chan[k].type = "block" =>
    LET e == chan[k].bundle
    IN  /\ ReadyBlock(e.block)
        /\ e.items \subseteq Owed(e.block)
        /\ \A b \in blocks : \A i \in Owed(b) :
             b.height < e.block.height \/ (b = e.block /\ i \notin e.items)
               => Has(b, i) \/ OnWire(b, i, k - 1)

\* A batch has all the items of its blocks.
BatchComplete ==
  \A i \in 1 .. Len(batch) :
    ReadyBlock(batch[i].block) /\ batch[i].items = Owed(batch[i].block)

\* As long as the filter waits for the cursor's block, nothing has been sent.
FilterWaits ==
  pc # "off" /\ fromCursor # NoCursor =>
    /\ fromCursor = cursor /\ current = cursor[1]
    /\ \A k \in 1 .. Len(chan) : chan[k].type # "block"

NeverReset ==
  /\ pc # "reset" /\ restartAt = 0
  /\ \A k \in 1 .. Len(chan) : chan[k].type # "control"

\* last_block_hash is that of the block below the next one.
LastHashKnown ==
  /\ pc = "off" => lastHash = NoHash
  /\ pc = "poll" /\ lastHash # NoHash =>
       \E b \in blocks : b.height + 1 = current /\ b.hash = lastHash

\* The client holds items of ready blocks, up to its cursor.
HeldIsReady ==
  \A x \in held :
    /\ \E b \in blocks : ReadyBlock(b) /\ x.tx \in Owed(b) /\ x = ItemOf(b, x.tx)
    /\ cursor # NoCursor /\ ~KeyLess(cursor, <<x.height, x.tx>>)

LossInv ==
  /\ CursorComplete /\ StreamComplete /\ WireComplete /\ BatchComplete
  /\ FilterWaits /\ NeverReset /\ LastHashKnown /\ HeldIsReady

-----------------------------------------------------------------------------
\* A batch that is read never has a fault.
LEMMA NoFaults ==
  ASSUME Calm, StreamInv, ChainInv, LossInv, pc = "poll"
  PROVE  Faults = {}
<1>1. /\ \A b \in blocks : \A h \in 0 .. b.height : \E c \in blocks : c.height = h
      /\ \A b, c \in blocks : b.height = c.height => b = c
      /\ \A b, c \in blocks : c.height = b.height + 1 => c.parent = b.hash
      /\ \A b \in blocks : b \in BlockRow /\ b.height \in Nat /\ b.hash \in Hash
  BY NoneMissing DEF StreamInv
<1>2. current \in Nat /\ ToHeight \in Int
  BY ToHeightIsInt DEF StreamInv, TypeOK
<1>3. ASSUME NEW h \in current .. ToHeight
      PROVE  ~Gap(h) /\ ~Mismatch(h)
  <2>1. h \in Nat /\ \A b \in Fetched : b \in blocks
    BY <1>2 DEF Fetched, BlocksInRange
  <2>2. ASSUME NEW g \in current .. ToHeight, NEW b \in blocks, b.height = g
        PROVE  b \in Fetched
    BY <1>1, <1>2, <2>2 DEF Fetched, BlocksInRange
  <2>3. ASSUME Gap(h)
        PROVE  FALSE
    <3>1. PICK b \in Fetched : b.height > h
      BY <2>3 DEF Gap
    <3>2. h \in 0 .. b.height
      BY <1>1, <2>1, <3>1
    <3>3. PICK c \in blocks : c.height = h
      BY <1>1, <2>1, <3>2
    <3>4. QED
      BY <2>2, <2>3, <3>3 DEF Gap, Present
  <2>4. ASSUME Present(h), h = current, Boundary # NoHash
        PROVE  At(h).parent = Boundary
    <3>1. At(h) \in blocks /\ At(h).height = current
      BY <2>1, <2>4, AtIsFetched
    <3>2. CASE lastHash = NoHash
      <4>1. current > 0 /\ Boundary = BlockHashAt(current - 1)
        BY <2>4, <3>2 DEF Boundary
      <4>2. \E b \in blocks : b.height = current - 1
        BY <2>4, <4>1 DEF BlockHashAt
      <4>3. PICK b \in blocks : b.height = current - 1 /\ Boundary = b.hash
        BY <4>1, <4>2 DEF BlockHashAt
      <4>4. At(h).height = b.height + 1
        BY <1>2, <3>1, <4>3
      <4>5. QED
        BY <1>1, <3>1, <4>3, <4>4
    <3>3. CASE lastHash # NoHash
      <4>1. PICK b \in blocks : b.height + 1 = current /\ b.hash = lastHash
        BY <3>3 DEF LossInv, LastHashKnown
      <4>2. Boundary = lastHash
        BY <3>3 DEF Boundary
      <4>3. QED
        BY <1>1, <3>1, <4>1, <4>2
    <3>4. QED
      BY <3>2, <3>3
  <2>5. ASSUME Present(h), h > current, Present(h - 1)
        PROVE  At(h).parent = At(h - 1).hash
    <3>1. At(h) \in blocks /\ At(h).height = h /\ At(h - 1) \in blocks /\ At(h - 1).height = h - 1
      BY <2>1, <2>5, AtIsFetched
    <3>2. At(h).height = At(h - 1).height + 1
      BY <2>1, <3>1
    <3>3. QED
      BY <1>1, <3>1, <3>2
  <2>6. QED
    BY <2>3, <2>4, <2>5 DEF Mismatch
<1>4. QED
  BY <1>3 DEF Faults

\* The counters of the bounds never fall.
LEMMA CalmBefore ==
  ASSUME StreamInv, [Next]_vars, Calm'
  PROVE  Calm
<1>1. reorgs \in Nat /\ gaps \in Nat
  BY DEF StreamInv, DbInv, DbTypeOK
<1>2. CASE Db
  <2>1. /\ reorgs' = reorgs \/ reorgs' = reorgs + 1
        /\ gaps' = gaps \/ gaps' = gaps + 1
    BY <1>2 DEF Db, DbNext, AddBlock, Backfill, SkipBlock, Reorg, IndexTx
  <2>2. QED
    BY <1>1, <2>1 DEF Calm
<1>3. CASE UNCHANGED dbVars
  BY <1>3 DEF Calm, dbVars
<1>4. [Next]_vars => Db \/ UNCHANGED dbVars
  BY DEF Next, Tick, Stream, Client, Heartbeat, FetchBatch, DetectReset, SendReset, SendBundle,
     SendTimeout, StreamError, Connect, ReceiveBlock, ReceiveHeartbeat, ReceiveReset,
     Disconnect, vars
<1>5. QED
  BY <1>2, <1>3, <1>4

\* A block that is added lies above all that the stream and the client know of;
\* the blocks they know of stay as they are.
LEMMA DbLosesNothing ==
  ASSUME StreamInv, ChainInv, LossInv, Db, Calm'
  PROVE  LossInv'
<1>1. DbInv /\ DbNext /\ UNCHANGED <<streamVars, chan, clientVars, drops>>
  BY DEF Db, StreamInv
<1>2. \A b : ReadyBlock(b) => ReadyBlock(b)'
  BY <1>1, ReadyIsStable DEF ReadyBlock
<1>3. /\ blocks \subseteq blocks'
      /\ \A b \in blocks' : b \in blocks \/ \A c \in blocks : c.height < b.height
      /\ \A b \in blocks' : b.height \in Nat
  <2>1. \/ blocks' = blocks
        \/ \E n \in BlockRow : /\ blocks' = blocks \cup {n}
                               /\ \A b \in blocks : b.height < n.height
    BY <1>1, TablesGrow
  <2>2. DbTypeOK
    BY <1>1 DEF DbInv
  <2>3. QED
    BY <2>1, <2>2 DEF DbTypeOK, BlockRow
<1>4. /\ \A b, i : Has(b, i)' <=> Has(b, i)
      /\ \A b, i, n : OnWire(b, i, n)' <=> OnWire(b, i, n)
  BY <1>1 DEF Has, OnWire, clientVars
<1>5. CursorComplete'
  <2>1. SUFFICES ASSUME cursor # NoCursor
                 PROVE  /\ \E b \in blocks' : b.height = cursor[1]
                        /\ \A b \in blocks' : \A i \in Owed(b) :
                             ~KeyLess(cursor, <<b.height, i>>) => Has(b, i)
    BY <1>1, <1>4 DEF CursorComplete, clientVars
  <2>2. /\ \E b \in blocks : b.height = cursor[1]
        /\ \A b \in blocks : \A i \in Owed(b) : ~KeyLess(cursor, <<b.height, i>>) => Has(b, i)
    BY <2>1 DEF LossInv, CursorComplete
  <2>3. QED
    BY <1>3, <2>2 DEF KeyLess
<1>6. StreamComplete'
  <2>1. SUFFICES ASSUME pc # "off"
                 PROVE  /\ \A h \in 0 .. current - 1 : \E b \in blocks' : b.height = h
                        /\ \A b \in blocks' : \A i \in Owed(b) :
                             b.height < current => Has(b, i) \/ OnWire(b, i, Len(chan))
    BY <1>1, <1>4 DEF StreamComplete, streamVars
  <2>2. /\ \A h \in 0 .. current - 1 : \E b \in blocks : b.height = h
        /\ \A b \in blocks : \A i \in Owed(b) :
             b.height < current => Has(b, i) \/ OnWire(b, i, Len(chan))
    BY <2>1 DEF LossInv, StreamComplete
  <2>3. ASSUME NEW b \in blocks', b.height < current
        PROVE  b \in blocks
    <3>1. b.height \in 0 .. current - 1
      BY <1>3, <2>3 DEF StreamInv, TypeOK
    <3>2. QED
      BY <1>3, <2>2, <3>1
  <2>4. QED
    BY <1>3, <2>2, <2>3
<1>7. WireComplete'
  <2>1. SUFFICES ASSUME NEW k \in 1 .. Len(chan), chan[k].type = "block"
                 PROVE  /\ ReadyBlock(chan[k].bundle.block)'
                        /\ chan[k].bundle.items \subseteq Owed(chan[k].bundle.block)
                        /\ \A b \in blocks' : \A i \in Owed(b) :
                             \/ b.height < chan[k].bundle.block.height
                             \/ b = chan[k].bundle.block /\ i \notin chan[k].bundle.items
                             => Has(b, i) \/ OnWire(b, i, k - 1)
    BY <1>1, <1>4 DEF WireComplete
  <2> DEFINE e == chan[k].bundle
  <2>2. /\ ReadyBlock(e.block) /\ e.items \subseteq Owed(e.block)
        /\ \A b \in blocks : \A i \in Owed(b) :
             b.height < e.block.height \/ (b = e.block /\ i \notin e.items)
               => Has(b, i) \/ OnWire(b, i, k - 1)
    BY <2>1 DEF LossInv, WireComplete
  <2>3. e.block \in blocks
    BY <2>2 DEF ReadyBlock
  <2>4. \A b \in blocks' : b.height < e.block.height \/ b = e.block => b \in blocks
    BY <1>3, <2>3
  <2>5. QED
    BY <1>1, <1>2, <2>2, <2>4
<1>8. BatchComplete'
  BY <1>1, <1>2 DEF LossInv, BatchComplete, streamVars
<1>9. FilterWaits' /\ NeverReset'
  BY <1>1 DEF LossInv, FilterWaits, NeverReset, streamVars, clientVars
<1>10. LastHashKnown'
  BY <1>1, <1>3 DEF LossInv, LastHashKnown, streamVars
<1>11. HeldIsReady'
  BY <1>1, <1>2, <1>3 DEF LossInv, HeldIsReady, clientVars
<1>12. QED
  BY <1>5, <1>6, <1>7, <1>8, <1>9, <1>10, <1>11 DEF LossInv

\* A batch is read from ready blocks, with all of their items.
LEMMA FetchLosesNothing ==
  ASSUME StreamInv, LossInv, FetchBatch
  PROVE  LossInv'
<1>1. /\ pc = "poll" /\ pc' = "send" /\ DbInv
      /\ UNCHANGED <<dbVars, current, fromCursor, chan, clientVars>>
  BY DEF FetchBatch, StreamInv
<1>2. \A b : ReadyBlock(b)' <=> ReadyBlock(b)
  BY <1>1, SameReady
<1>3. BatchComplete'
  <2>1. PICK n \in 1 .. BatchSize :
          /\ {b.height : b \in Fetched} = current .. (current + n - 1)
          /\ batch' = [i \in 1 .. n |-> MakeBundle(At(current + i - 1))]
    BY DEF FetchBatch
  <2>2. n \in Nat /\ n >= 1 /\ current \in Nat
    BY SubscribeAssumption DEF StreamInv, TypeOK
  <2>3. Len(batch') = n
    BY <2>1, <2>2
  <2>4. ASSUME NEW i \in 1 .. n
        PROVE  ReadyBlock(batch'[i].block) /\ batch'[i].items = Owed(batch'[i].block)
    <3>1. current + i - 1 \in current .. (current + n - 1)
      BY <2>2
    <3>2. Present(current + i - 1)
      BY <2>1, <3>1 DEF Present
    <3> DEFINE b == At(current + i - 1)
    <3>3. b \in Fetched
      BY <3>2, AtIsFetched
    <3>4. b \in blocks /\ b.height \in Nat /\ b.height <= ToHeight
      BY <3>3, FetchedReady DEF Fetched, BlocksInRange, BlockRow
    <3>5. ReadyBlock(b)
      BY <1>1, <3>4, ToHeightIsInt, ReadyHeight DEF ReadyBlock
    <3>6. RelevantTxs(b) = Owed(b)
      BY <1>1, <3>5, OwedIsRelevant
    <3>7. batch'[i] = MakeBundle(b)
      BY <2>1
    <3> HIDE DEF b
    <3>8. QED
      BY <3>5, <3>6, <3>7 DEF MakeBundle
  <2>5. QED
    BY <1>2, <2>3, <2>4 DEF BatchComplete
<1>4. CursorComplete' /\ HeldIsReady'
  BY <1>1, <1>2 DEF LossInv, CursorComplete, HeldIsReady, Has, dbVars, clientVars
<1>5. StreamComplete' /\ WireComplete'
  BY <1>1, <1>2 DEF LossInv, StreamComplete, WireComplete, Has, OnWire, dbVars, clientVars
<1>6. FilterWaits' /\ NeverReset' /\ LastHashKnown'
  BY <1>1 DEF LossInv, FilterWaits, NeverReset, LastHashKnown, clientVars
<1>7. QED
  BY <1>3, <1>4, <1>5, <1>6 DEF LossInv

\* A task that returns loses nothing: what it has sent stays on the wire.
LEMMA StopLosesNothing ==
  ASSUME StreamInv, LossInv, Stop, UNCHANGED <<dbVars, chan, clientVars>>
  PROVE  LossInv'
<1>1. \A b : ReadyBlock(b)' <=> ReadyBlock(b)
  BY SameReady
<1>2. pc' = "off" /\ batch' = <<>> /\ lastHash' = NoHash
  BY DEF Stop
<1>3. CursorComplete' /\ HeldIsReady' /\ WireComplete'
  BY <1>1 DEF LossInv, CursorComplete, HeldIsReady, WireComplete, Has, OnWire, dbVars, clientVars
<1>4. StreamComplete' /\ FilterWaits' /\ NeverReset' /\ LastHashKnown' /\ BatchComplete'
  BY <1>2 DEF LossInv, StreamComplete, FilterWaits, NeverReset, LastHashKnown, BatchComplete,
     clientVars
<1>5. QED
  BY <1>3, <1>4 DEF LossInv

\* An event more does not disturb those before it.
LEMMA WireGrows ==
  ASSUME StreamInv, NEW e, chan' = Append(chan, e)
  PROVE  /\ Len(chan) \in Nat /\ Len(chan') = Len(chan) + 1 /\ chan'[Len(chan) + 1] = e
         /\ \A k \in 1 .. Len(chan) : chan'[k] = chan[k]
         /\ \A b, i : \A n \in 0 .. Len(chan) : \A m \in n .. Len(chan) + 1 :
              OnWire(b, i, n) => OnWire(b, i, m)'
<1>1. /\ Len(chan) \in Nat /\ Len(chan') = Len(chan) + 1 /\ chan'[Len(chan) + 1] = e
      /\ \A k \in 1 .. Len(chan) : chan'[k] = chan[k]
  BY AppendProperties, LenProperties DEF StreamInv, TypeOK
<1>2. ASSUME NEW b, NEW i, NEW n \in 0 .. Len(chan), NEW m \in n .. Len(chan) + 1,
             OnWire(b, i, n)
      PROVE  OnWire(b, i, m)'
  <2>1. PICK j \in 1 .. n :
          chan[j].type = "block" /\ chan[j].bundle.block = b /\ i \in chan[j].bundle.items
    BY <1>2 DEF OnWire
  <2>2. j \in 1 .. m /\ chan'[j] = chan[j]
    BY <1>1, <2>1
  <2>3. QED
    BY <2>1, <2>2 DEF OnWire
<1>3. QED
  BY <1>1, <1>2

\* A heartbeat carries nothing.
LEMMA HeartbeatLosesNothing ==
  ASSUME StreamInv, LossInv, Heartbeat
  PROVE  LossInv'
<1> DEFINE e == [type |-> "heartbeat", height |-> current]
<1>1. /\ chan' = Append(chan, e) /\ pc = "poll"
      /\ UNCHANGED <<dbVars, pc, current, fromCursor, lastHash, batch, clientVars>>
  BY DEF Heartbeat, HeartbeatDue, Waiting
<1>2. e.type = "heartbeat"
  OBVIOUS
<1> HIDE DEF e
<1>3. /\ Len(chan) \in Nat /\ Len(chan') = Len(chan) + 1 /\ chan'[Len(chan) + 1] = e
      /\ \A k \in 1 .. Len(chan) : chan'[k] = chan[k]
      /\ \A b, i : \A n \in 0 .. Len(chan) : \A m \in n .. Len(chan) + 1 :
           OnWire(b, i, n) => OnWire(b, i, m)'
  BY <1>1, WireGrows
<1>4. /\ \A b : ReadyBlock(b)' <=> ReadyBlock(b)
      /\ \A b, i : Has(b, i)' <=> Has(b, i)
  BY <1>1, SameReady DEF Has, clientVars
<1>5. \A k \in 1 .. Len(chan') : chan'[k].type # "heartbeat" =>
        k \in 1 .. Len(chan) /\ k - 1 \in 0 .. Len(chan) /\ chan'[k] = chan[k]
  BY <1>2, <1>3
<1>6. CursorComplete' /\ HeldIsReady' /\ BatchComplete' /\ LastHashKnown'
  BY <1>1, <1>4 DEF LossInv, CursorComplete, HeldIsReady, BatchComplete, LastHashKnown,
     dbVars, clientVars
<1>7. StreamComplete'
  <2>1. Len(chan) \in 0 .. Len(chan) /\ Len(chan') \in Len(chan) .. Len(chan) + 1
    BY <1>3
  <2>2. \A b, i : OnWire(b, i, Len(chan)) => OnWire(b, i, Len(chan))'
    BY <1>3, <2>1
  <2>3. QED
    BY <1>1, <1>4, <2>2 DEF LossInv, StreamComplete, dbVars
<1>8. WireComplete'
  <2>1. ASSUME NEW k \in 1 .. Len(chan'), chan'[k].type = "block"
        PROVE  /\ ReadyBlock(chan[k].bundle.block)
               /\ chan[k].bundle.items \subseteq Owed(chan[k].bundle.block)
               /\ chan'[k] = chan[k]
               /\ \A b \in blocks : \A i \in Owed(b) :
                    \/ b.height < chan[k].bundle.block.height
                    \/ b = chan[k].bundle.block /\ i \notin chan[k].bundle.items
                    => Has(b, i) \/ OnWire(b, i, k - 1)'
    <3>1. k \in 1 .. Len(chan) /\ k - 1 \in 0 .. Len(chan) /\ chan'[k] = chan[k]
      BY <1>5, <2>1
    <3>2. k - 1 \in k - 1 .. Len(chan) + 1
      BY <1>3, <3>1
    <3>3. \A b, i : OnWire(b, i, k - 1) => OnWire(b, i, k - 1)'
      BY <1>3, <3>1, <3>2
    <3>4. QED
      BY <2>1, <3>1, <3>3 DEF LossInv, WireComplete
  <2>2. QED
    BY <1>1, <1>4, <2>1 DEF WireComplete, dbVars
<1>9. FilterWaits' /\ NeverReset'
  BY <1>1, <1>2, <1>3, <1>5 DEF LossInv, FilterWaits, NeverReset, clientVars
<1>10. QED
  BY <1>6, <1>7, <1>8, <1>9 DEF LossInv

\* A bundle is sent with all that the client does not hold yet of its block.
LEMMA SendLosesNothing ==
  ASSUME StreamInv, ChainInv, Calm, LossInv, SendBundle
  PROVE  LossInv'
<1> DEFINE bundle == Head(batch)
           e == [type |-> "block", bundle |-> [bundle EXCEPT !.items = Retained(bundle)]]
<1>0. PICK b : b = bundle.block
  OBVIOUS
<1>1. /\ pc = "send" /\ batch # <<>> /\ batch \in Seq(Bundle) /\ DbInv
      /\ bundle = batch[1] /\ bundle \in Bundle /\ b.height = current /\ current \in Nat
      /\ batchTail = batch[Len(batch)].block.hash
      /\ Len(batch) \in Nat \ {0} /\ batch' = Tail(batch) /\ Len(batch') = Len(batch) - 1
      /\ \A i \in 1 .. Len(batch') : batch'[i] = batch[i + 1]
  BY <1>0, HeadTailProperties, EmptySeq DEF SendBundle, StreamInv, TypeOK, BatchFollows
<1>2. ReadyBlock(b) /\ b \in blocks /\ bundle.items = Owed(b)
  BY <1>0, <1>1 DEF LossInv, BatchComplete, ReadyBlock
<1>3. /\ \A c \in blocks : c.height = current => c = b
      /\ \A c \in blocks : c.height \in Nat
  BY <1>1, <1>2, NoneMissing
<1>4. /\ \A i \in Owed(b) : i \in Retained(bundle) \/ Has(b, i)
      /\ Retained(bundle) \subseteq Owed(b)
  <2>1. Retained(bundle) \subseteq Owed(b)
    BY <1>2 DEF Retained
  <2>2. CASE fromCursor # NoCursor /\ b.height = fromCursor[1]
    <3>1. fromCursor = cursor
      BY <1>1, <2>2 DEF LossInv, FilterWaits
    <3>2. \A i \in Owed(b) : ~KeyLess(cursor, <<b.height, i>>) => Has(b, i)
      BY <1>2, <2>2, <3>1 DEF LossInv, CursorComplete
    <3>3. QED
      BY <1>0, <1>2, <2>1, <2>2, <3>1, <3>2 DEF Retained
  <2>3. CASE ~(fromCursor # NoCursor /\ b.height = fromCursor[1])
    BY <1>0, <1>2, <2>1, <2>3 DEF Retained
  <2>4. QED
    BY <2>1, <2>2, <2>3
<1>5. /\ UNCHANGED <<dbVars, clientVars>> /\ current' = current + 1
      /\ fromCursor' = NoCursor \/ (fromCursor' = fromCursor /\ fromCursor = NoCursor)
  <2>1. fromCursor # NoCursor => b.height = fromCursor[1]
    BY <1>1 DEF LossInv, FilterWaits
  <2>2. QED
    BY <1>0, <1>1, <2>1 DEF SendBundle
<1>6. \/ chan' = chan /\ Retained(bundle) = {}
      \/ chan' = Append(chan, e)
  BY DEF SendBundle
<1>7. e.type = "block" /\ e.bundle.block = b /\ e.bundle.items = Retained(bundle)
  BY <1>0, <1>1 DEF Bundle
<1>8. \/ pc' = "send"
      \/ pc' = "poll" /\ lastHash' = batchTail /\ Len(batch) = 1
  BY <1>1 DEF SendBundle
<1> HIDE DEF e
<1>9. /\ Len(chan) \in Nat
      /\ Len(chan') = Len(chan) \/ Len(chan') = Len(chan) + 1
      /\ \A k \in 1 .. Len(chan) : chan'[k] = chan[k]
      /\ \A k \in 1 .. Len(chan') : k \in 1 .. Len(chan) \/ (k = Len(chan) + 1 /\ chan'[k] = e)
      /\ \A c, i : \A n \in 0 .. Len(chan) : OnWire(c, i, n) => OnWire(c, i, n)'
      /\ \A c, i : OnWire(c, i, Len(chan)) => OnWire(c, i, Len(chan))'
  <2>1. Len(chan) \in Nat
    BY LenProperties DEF StreamInv, TypeOK
  <2>2. CASE chan' = chan
    BY <2>1, <2>2 DEF OnWire
  <2>3. CASE chan' = Append(chan, e)
    <3>1. /\ Len(chan') = Len(chan) + 1 /\ chan'[Len(chan) + 1] = e
          /\ \A k \in 1 .. Len(chan) : chan'[k] = chan[k]
          /\ \A c, i : \A n \in 0 .. Len(chan) : \A m \in n .. Len(chan) + 1 :
               OnWire(c, i, n) => OnWire(c, i, m)'
      BY <2>3, WireGrows
    <3>2. /\ \A n \in 0 .. Len(chan) : n \in n .. Len(chan) + 1
          /\ Len(chan) \in 0 .. Len(chan) /\ Len(chan') \in Len(chan) .. Len(chan) + 1
      BY <2>1, <3>1
    <3>3. \A k \in 1 .. Len(chan') : k \in 1 .. Len(chan) \/ (k = Len(chan) + 1 /\ chan'[k] = e)
      BY <2>1, <3>1
    <3>4. QED
      BY <2>1, <3>1, <3>2, <3>3
  <2>4. QED
    BY <1>6, <2>2, <2>3
<1>10. /\ \A c : ReadyBlock(c)' <=> ReadyBlock(c)
       /\ \A c, i : Has(c, i)' <=> Has(c, i)
  BY <1>5, SameReady DEF Has, clientVars
<1>11. \A i \in Owed(b) : Has(b, i) \/ OnWire(b, i, Len(chan))'
  <2>1. ASSUME NEW i \in Retained(bundle)
        PROVE  OnWire(b, i, Len(chan))'
    <3>1. chan' = Append(chan, e)
      BY <1>6, <2>1
    <3>2. Len(chan') = Len(chan) + 1 /\ chan'[Len(chan) + 1] = e
      BY <3>1, WireGrows
    <3>3. Len(chan) + 1 \in 1 .. Len(chan')
      BY <1>9, <3>2
    <3>4. QED
      BY <1>7, <2>1, <3>2, <3>3 DEF OnWire
  <2>2. QED
    BY <1>4, <2>1
<1>12. CursorComplete' /\ HeldIsReady'
  BY <1>5, <1>10 DEF LossInv, CursorComplete, HeldIsReady, dbVars, clientVars
<1>13. StreamComplete'
  <2>1. /\ \A h \in 0 .. current - 1 : \E c \in blocks : c.height = h
        /\ \A c \in blocks : \A i \in Owed(c) :
             c.height < current => Has(c, i) \/ OnWire(c, i, Len(chan))
    BY <1>1 DEF LossInv, StreamComplete
  <2>2. \A h \in 0 .. current' - 1 : \E c \in blocks : c.height = h
    <3>1. \A h \in 0 .. current' - 1 : h \in 0 .. current - 1 \/ h = current
      BY <1>1, <1>5
    <3>2. QED
      BY <1>1, <1>2, <2>1, <3>1
  <2>3. \A c \in blocks : c.height < current' => c.height < current \/ c = b
    BY <1>1, <1>3, <1>5
  <2>4. ASSUME NEW c \in blocks, NEW i \in Owed(c), c.height < current'
        PROVE  Has(c, i) \/ OnWire(c, i, Len(chan))'
    BY <1>9, <1>11, <2>1, <2>3, <2>4
  <2>5. QED
    BY <1>5, <1>10, <2>2, <2>4 DEF StreamComplete, dbVars
<1>14. WireComplete'
  <2>1. ASSUME NEW k \in 1 .. Len(chan'), chan'[k].type = "block"
        PROVE  /\ ReadyBlock(chan'[k].bundle.block)
               /\ chan'[k].bundle.items \subseteq Owed(chan'[k].bundle.block)
               /\ \A c \in blocks : \A i \in Owed(c) :
                    \/ c.height < chan'[k].bundle.block.height
                    \/ c = chan'[k].bundle.block /\ i \notin chan'[k].bundle.items
                    => Has(c, i) \/ OnWire(c, i, k - 1)'
    <3>1. CASE k \in 1 .. Len(chan)
      <4>1. chan'[k] = chan[k] /\ k - 1 \in 0 .. Len(chan)
        BY <1>9, <3>1
      <4>2. /\ ReadyBlock(chan[k].bundle.block)
            /\ chan[k].bundle.items \subseteq Owed(chan[k].bundle.block)
            /\ \A c \in blocks : \A i \in Owed(c) :
                 \/ c.height < chan[k].bundle.block.height
                 \/ c = chan[k].bundle.block /\ i \notin chan[k].bundle.items
                 => Has(c, i) \/ OnWire(c, i, k - 1)
        BY <2>1, <3>1, <4>1 DEF LossInv, WireComplete
      <4>3. \A c, i : OnWire(c, i, k - 1) => OnWire(c, i, k - 1)'
        BY <1>9, <4>1
      <4>4. QED
        BY <1>10, <4>1, <4>2, <4>3
    <3>2. CASE k = Len(chan) + 1 /\ chan'[k] = e
      <4>1. chan'[k].bundle.block = b /\ chan'[k].bundle.items = Retained(bundle)
        BY <1>7, <3>2
      <4>2. \A c, i : OnWire(c, i, Len(chan)) => OnWire(c, i, k - 1)'
        <5>1. k - 1 = Len(chan) /\ Len(chan) \in 0 .. Len(chan)
          BY <1>9, <3>2
        <5>2. QED
          BY <1>9, <5>1
      <4>3. \A c \in blocks : \A i \in Owed(c) :
              c.height < current => Has(c, i) \/ OnWire(c, i, Len(chan))
        BY <1>1 DEF LossInv, StreamComplete
      <4>4. QED
        BY <1>1, <1>2, <1>4, <1>10, <4>1, <4>2, <4>3
    <3>3. QED
      BY <1>9, <3>1, <3>2
  <2>2. QED
    BY <1>5, <1>10, <2>1 DEF WireComplete, dbVars
<1>15. BatchComplete'
  <2>1. \A i \in 1 .. Len(batch') : i + 1 \in 1 .. Len(batch)
    BY <1>1
  <2>2. QED
    BY <1>1, <1>10, <2>1 DEF LossInv, BatchComplete
<1>16. FilterWaits'
  BY <1>5 DEF FilterWaits
<1>17. NeverReset'
  BY <1>5, <1>7, <1>8, <1>9 DEF LossInv, NeverReset, clientVars
<1>18. LastHashKnown'
  BY <1>0, <1>1, <1>2, <1>5, <1>8 DEF LastHashKnown, dbVars
<1>19. QED
  BY <1>12, <1>13, <1>14, <1>15, <1>16, <1>17, <1>18 DEF LossInv

\* The client stores a bundle up to one of its items: then it has all up to there.
LEMMA StoreLosesNothing ==
  ASSUME StreamInv, ChainInv, FreshInv, Calm, LossInv, UNCHANGED dbVars,
         chan # <<>>, Head(chan).type = "block",
         NEW m \in Head(chan).bundle.items, Store(Head(chan).bundle, m)
  PROVE  /\ CursorComplete' /\ HeldIsReady' /\ restartAt' = 0 /\ cursor' # NoCursor
         /\ \A b, i : Has(b, i) => Has(b, i)'
         /\ \A i \in Head(chan).bundle.items :
              i <= m => ItemOf(Head(chan).bundle.block, i) \in held'
<1> DEFINE e == Head(chan).bundle
<1>0. PICK b : b = e.block
  OBVIOUS
<1>1. /\ Head(chan) = chan[1] /\ 1 \in 1 .. Len(chan) /\ e \in Bundle /\ DbInv
      /\ e.items \subseteq Nat
  BY HeadTailProperties, HeadBlockType, EmptySeq DEF StreamInv, TypeOK, Bundle
<1>2. /\ ReadyBlock(b) /\ e.items \subseteq Owed(b) /\ b \in blocks
      /\ \A c \in blocks : \A i \in Owed(c) :
           c.height < b.height \/ (c = b /\ i \notin e.items) => Has(c, i)
  <2>1. /\ ReadyBlock(b) /\ e.items \subseteq Owed(b)
        /\ \A c \in blocks : \A i \in Owed(c) :
             c.height < b.height \/ (c = b /\ i \notin e.items) => Has(c, i) \/ OnWire(c, i, 1 - 1)
    BY <1>0, <1>1 DEF LossInv, WireComplete
  <2>2. \A c, i : ~OnWire(c, i, 1 - 1)
    BY DEF OnWire
  <2>3. QED
    BY <2>1, <2>2 DEF ReadyBlock
<1>3. /\ held' = held \cup {ItemOf(b, j) : j \in {k \in e.items : k <= m}}
      /\ cursor' = <<b.height, m>> /\ restartAt' = restartAt
  BY <1>0 DEF Store
<1>4. /\ \A c, i : Has(c, i) => Has(c, i)'
      /\ \A i \in e.items : i <= m => Has(b, i)'
  BY <1>3 DEF Has
<1>5. /\ \A c \in blocks : c.height = b.height => c = b
      /\ \A c \in blocks : c.height \in Nat /\ Owed(c) \subseteq Nat
      /\ b.height \in Nat /\ m \in Nat
  <2>1. /\ \A c, d \in blocks : c.height = d.height => c = d
        /\ \A c \in blocks : c \in BlockRow /\ c.height \in Nat
    BY <1>1, NoneMissing
  <2>2. QED
    BY <1>1, <1>2, <2>1, OwedType
<1>6. CursorComplete'
  <2>1. ASSUME NEW c \in blocks, NEW i \in Owed(c), ~KeyLess(cursor', <<c.height, i>>)
        PROVE  Has(c, i)'
    <3>1. c.height < b.height \/ (c = b /\ i <= m)
      BY <1>3, <1>5, <2>1 DEF KeyLess
    <3>2. QED
      BY <1>2, <1>4, <2>1, <3>1
  <2>2. cursor'[1] = b.height
    BY <1>3
  <2>3. QED
    BY <1>2, <2>1, <2>2 DEF CursorComplete, dbVars
<1>7. HeldIsReady'
  <2>1. ASSUME NEW x \in held
        PROVE  /\ \E c \in blocks : ReadyBlock(c) /\ x.tx \in Owed(c) /\ x = ItemOf(c, x.tx)
               /\ ~KeyLess(cursor', <<x.height, x.tx>>)
    <3>1. /\ \E c \in blocks : ReadyBlock(c) /\ x.tx \in Owed(c) /\ x = ItemOf(c, x.tx)
          /\ cursor # NoCursor /\ ~KeyLess(cursor, <<x.height, x.tx>>)
      BY DEF LossInv, HeldIsReady
    <3>2. KeyLess(cursor, <<b.height, m>>)
      BY <1>0, <1>1, <3>1 DEF FreshInv, FreshDelivery
    <3>3. cursor \in Key /\ x \in Item
      BY <3>1 DEF StreamInv, TypeOK
    <3>4. ~KeyLess(<<b.height, m>>, <<x.height, x.tx>>)
      BY <1>5, <3>1, <3>2, <3>3 DEF KeyLess, Key, Item
    <3>5. QED
      BY <1>3, <3>1, <3>4
  <2>2. ASSUME NEW j \in e.items, j <= m
        PROVE  /\ j \in Owed(b) /\ ItemOf(b, j) = ItemOf(b, ItemOf(b, j).tx)
               /\ ItemOf(b, j).tx = j
               /\ ~KeyLess(cursor', <<ItemOf(b, j).height, ItemOf(b, j).tx>>)
    BY <1>1, <1>2, <1>3, <1>5, <2>2 DEF ItemOf, KeyLess
  <2>3. cursor' # NoCursor
    BY <1>3 DEF NoCursor
  <2>4. \A c : ReadyBlock(c)' <=> ReadyBlock(c)
    BY SameReady
  <2>5. blocks' = blocks
    BY DEF dbVars
  <2>6. ASSUME NEW x \in held'
        PROVE  /\ \E c \in blocks : ReadyBlock(c) /\ x.tx \in Owed(c) /\ x = ItemOf(c, x.tx)
               /\ ~KeyLess(cursor', <<x.height, x.tx>>)
    <3>1. CASE x \in held
      BY <2>1, <3>1
    <3>2. CASE \E j \in e.items : j <= m /\ x = ItemOf(b, j)
      BY <1>2, <2>2, <3>2
    <3>3. QED
      BY <1>3, <3>1, <3>2
  <2>7. QED
    BY <2>3, <2>4, <2>5, <2>6 DEF HeldIsReady
<1>8. cursor' # NoCursor /\ restartAt' = 0
  BY <1>3 DEF NoCursor, LossInv, NeverReset
<1>9. QED
  BY <1>0, <1>4, <1>6, <1>7, <1>8 DEF Has

\* An event leaves the wire when the client has taken over what it carries.
LEMMA WireShrinks ==
  ASSUME StreamInv, LossInv, UNCHANGED <<dbVars, streamVars>>,
         chan # <<>>, chan' = Tail(chan),
         CursorComplete', HeldIsReady', restartAt' = 0, \A b, i : Has(b, i) => Has(b, i)',
         Head(chan).type = "block" =>
           \A i \in Head(chan).bundle.items : ItemOf(Head(chan).bundle.block, i) \in held',
         Head(chan).type # "block" => UNCHANGED cursor
  PROVE  LossInv'
<1>1. /\ Head(chan) = chan[1] /\ Len(chan) \in Nat \ {0}
      /\ Len(chan') = Len(chan) - 1
      /\ \A k \in 1 .. Len(chan') : k + 1 \in 1 .. Len(chan) /\ chan'[k] = chan[k + 1]
  BY HeadTailProperties, EmptySeq DEF StreamInv, TypeOK
<1>2. \A b : ReadyBlock(b)' <=> ReadyBlock(b)
  BY SameReady
\* What was on the wire is with the client, or still there one place earlier.
<1>3. ASSUME NEW b, NEW i, NEW n \in 1 .. Len(chan), Has(b, i) \/ OnWire(b, i, n)
      PROVE  Has(b, i)' \/ OnWire(b, i, n - 1)'
  <2>1. CASE Has(b, i)
    BY <2>1
  <2>2. CASE OnWire(b, i, n)
    <3>1. PICK j \in 1 .. n :
            chan[j].type = "block" /\ chan[j].bundle.block = b /\ i \in chan[j].bundle.items
      BY <2>2 DEF OnWire
    <3>2. CASE j = 1
      BY <1>1, <3>1, <3>2 DEF Has
    <3>3. CASE j # 1
      <4>1. j - 1 \in 1 .. n - 1 /\ j - 1 \in 1 .. Len(chan') /\ (j - 1) + 1 = j
        BY <1>1, <3>3
      <4>2. chan'[j - 1] = chan[j]
        BY <1>1, <4>1
      <4>3. QED
        BY <3>1, <4>1, <4>2 DEF OnWire
    <3>4. QED
      BY <3>2, <3>3
  <2>3. QED
    BY <1>3, <2>1, <2>2
<1>4. StreamComplete'
  <2>1. ASSUME NEW b, NEW i, Has(b, i) \/ OnWire(b, i, Len(chan))
        PROVE  Has(b, i)' \/ OnWire(b, i, Len(chan))'
    <3>1. Len(chan) \in 1 .. Len(chan)
      BY <1>1
    <3>2. PICK n : n = Len(chan)
      OBVIOUS
    <3>3. Has(b, i)' \/ OnWire(b, i, n - 1)'
      BY <1>3, <2>1, <3>1, <3>2
    <3>4. n - 1 = Len(chan')
      BY <1>1, <3>2
    <3>5. QED
      BY <3>3, <3>4
  <2>2. QED
    BY <2>1 DEF LossInv, StreamComplete, streamVars, dbVars
<1>5. WireComplete'
  <2>1. ASSUME NEW k \in 1 .. Len(chan'), chan'[k].type = "block"
        PROVE  /\ ReadyBlock(chan'[k].bundle.block)
               /\ chan'[k].bundle.items \subseteq Owed(chan'[k].bundle.block)
               /\ \A b \in blocks : \A i \in Owed(b) :
                    \/ b.height < chan'[k].bundle.block.height
                    \/ b = chan'[k].bundle.block /\ i \notin chan'[k].bundle.items
                    => Has(b, i)' \/ OnWire(b, i, k - 1)'
    <3>1. /\ k + 1 \in 1 .. Len(chan) /\ chan'[k] = chan[k + 1]
          /\ k \in 1 .. Len(chan)
      BY <1>1
    <3>2. /\ ReadyBlock(chan[k + 1].bundle.block)
          /\ chan[k + 1].bundle.items \subseteq Owed(chan[k + 1].bundle.block)
          /\ \A b \in blocks : \A i \in Owed(b) :
               \/ b.height < chan[k + 1].bundle.block.height
               \/ b = chan[k + 1].bundle.block /\ i \notin chan[k + 1].bundle.items
               => Has(b, i) \/ OnWire(b, i, (k + 1) - 1)
      BY <2>1, <3>1 DEF LossInv, WireComplete
    <3>3. (k + 1) - 1 = k
      OBVIOUS
    <3>4. \A b, i : Has(b, i) \/ OnWire(b, i, k) => Has(b, i)' \/ OnWire(b, i, k - 1)'
      BY <1>3, <3>1
    <3>5. QED
      BY <3>1, <3>2, <3>3, <3>4
  <2>2. QED
    BY <1>2, <2>1 DEF WireComplete, dbVars
<1>6. BatchComplete' /\ LastHashKnown'
  BY <1>2 DEF LossInv, BatchComplete, LastHashKnown, streamVars, dbVars
<1>7. NeverReset'
  BY <1>1 DEF LossInv, NeverReset, streamVars
\* Where a bundle leaves the wire, the filter has been used.
<1>8. FilterWaits'
  <2>1. CASE Head(chan).type = "block"
    <3>1. ~(pc # "off" /\ fromCursor # NoCursor)
      BY <1>1, <2>1 DEF LossInv, FilterWaits
    <3>2. QED
      BY <3>1 DEF FilterWaits, streamVars
  <2>2. CASE Head(chan).type # "block"
    BY <1>1, <2>2 DEF LossInv, FilterWaits, streamVars
  <2>3. QED
    BY <2>1, <2>2
<1>9. QED
  BY <1>4, <1>5, <1>6, <1>7, <1>8 DEF LossInv

\* The client takes over the whole of a bundle.
LEMMA ReceiveLosesNothing ==
  ASSUME StreamInv, ChainInv, FreshInv, Calm, LossInv, ReceiveBlock \/ ReceiveHeartbeat
  PROVE  LossInv'
<1>1. chan # <<>> /\ chan' = Tail(chan) /\ UNCHANGED <<dbVars, streamVars>>
  BY DEF ReceiveBlock, ReceiveHeartbeat
<1>2. CASE ReceiveBlock
  <2>1. PICK m \in Head(chan).bundle.items :
          (\A j \in Head(chan).bundle.items : j <= m) /\ Store(Head(chan).bundle, m)
    BY <1>2 DEF ReceiveBlock
  <2>2. Head(chan).type = "block"
    BY <1>2 DEF ReceiveBlock
  <2>3. /\ CursorComplete' /\ HeldIsReady' /\ restartAt' = 0
        /\ \A b, i : Has(b, i) => Has(b, i)'
        /\ \A i \in Head(chan).bundle.items : ItemOf(Head(chan).bundle.block, i) \in held'
    BY <1>1, <2>1, <2>2, StoreLosesNothing
  <2>4. QED
    BY <1>1, <2>2, <2>3, WireShrinks
<1>3. CASE ReceiveHeartbeat
  <2>1. Head(chan).type = "heartbeat" /\ UNCHANGED clientVars
    BY <1>3 DEF ReceiveHeartbeat
  <2>2. /\ \A b : ReadyBlock(b)' <=> ReadyBlock(b)
        /\ \A b, i : Has(b, i)' <=> Has(b, i)
    BY <1>1, <2>1, SameReady DEF Has, clientVars
  <2>3. CursorComplete' /\ HeldIsReady' /\ restartAt' = 0
    BY <1>1, <2>1, <2>2 DEF LossInv, CursorComplete, HeldIsReady, NeverReset, dbVars, clientVars
  <2>4. QED
    BY <1>1, <2>1, <2>2, <2>3, WireShrinks DEF clientVars
<1>4. QED
  BY <1>2, <1>3

\* The client reconnects at its cursor: what lies below it, it has.
LEMMA ConnectLosesNothing ==
  ASSUME StreamInv, ChainInv, Calm, LossInv, Connect
  PROVE  LossInv'
<1>1. /\ pc = "off" /\ pc' = "poll" /\ chan = <<>> /\ chan' = <<>> /\ DbInv
      /\ fromCursor' = cursor /\ UNCHANGED <<dbVars, lastHash, batch, clientVars>>
      /\ current' = IF cursor = NoCursor THEN restartAt ELSE cursor[1]
  BY DEF Connect, StreamInv
<1>2. /\ \A b : ReadyBlock(b)' <=> ReadyBlock(b)
      /\ \A b, i : Has(b, i)' <=> Has(b, i)
  BY <1>1, SameReady DEF Has, clientVars
<1>3. CursorComplete' /\ HeldIsReady' /\ BatchComplete'
  BY <1>1, <1>2 DEF LossInv, CursorComplete, HeldIsReady, BatchComplete, dbVars, clientVars
<1>4. FilterWaits' /\ NeverReset' /\ LastHashKnown' /\ WireComplete'
  BY <1>1 DEF LossInv, FilterWaits, NeverReset, LastHashKnown, WireComplete, clientVars
<1>5. StreamComplete'
  <2>1. CASE cursor = NoCursor
    <3>1. current' = 0
      BY <1>1, <2>1 DEF LossInv, NeverReset
    <3>2. \A b \in blocks : b.height \in Nat
      BY <1>1 DEF DbInv, DbTypeOK, BlockRow
    <3>3. QED
      BY <1>1, <3>1, <3>2 DEF StreamComplete, dbVars
  <2>2. CASE cursor # NoCursor
    <3>1. current' = cursor[1] /\ cursor \in Key
      BY <1>1, <2>2 DEF StreamInv, TypeOK
    <3>2. PICK c \in blocks : c.height = cursor[1]
      BY <2>2 DEF LossInv, CursorComplete
    <3>3. /\ \A h \in 0 .. c.height : \E b \in blocks : b.height = h
          /\ \A b \in blocks : b.height \in Nat
      BY <1>1, NoneMissing
    <3>4. \A h \in 0 .. current' - 1 : \E b \in blocks' : b.height = h
      BY <1>1, <3>1, <3>2, <3>3 DEF dbVars
    <3>5. ASSUME NEW b \in blocks, NEW i \in Owed(b), b.height < current'
          PROVE  Has(b, i)
      <4>1. ~KeyLess(cursor, <<b.height, i>>)
        BY <3>1, <3>2, <3>3, <3>5 DEF KeyLess
      <4>2. QED
        BY <2>2, <4>1 DEF LossInv, CursorComplete
    <3>6. QED
      BY <1>1, <1>2, <3>4, <3>5 DEF StreamComplete, dbVars
  <2>3. QED
    BY <2>1, <2>2
<1>6. QED
  BY <1>3, <1>4, <1>5 DEF LossInv

\* A client that goes away keeps what it has stored, up to its cursor.
LEMMA DisconnectLosesNothing ==
  ASSUME StreamInv, ChainInv, FreshInv, Calm, LossInv, Disconnect
  PROVE  LossInv'
<1>1. pc' = "off" /\ batch' = <<>> /\ lastHash' = NoHash /\ chan' = <<>> /\ UNCHANGED dbVars
  BY DEF Disconnect, Drop, Stop
<1>2. \A b : ReadyBlock(b)' <=> ReadyBlock(b)
  BY <1>1, SameReady
<1>3. CursorComplete' /\ HeldIsReady' /\ restartAt' = 0
  <2>1. CASE UNCHANGED clientVars
    BY <1>1, <1>2, <2>1
       DEF LossInv, CursorComplete, HeldIsReady, NeverReset, Has, dbVars, clientVars
  <2>2. CASE ~UNCHANGED clientVars
    <3>1. /\ chan # <<>> /\ Head(chan).type = "block"
          /\ \E m \in Head(chan).bundle.items : Store(Head(chan).bundle, m)
      BY <2>2 DEF Disconnect
    <3>2. QED
      BY <1>1, <3>1, StoreLosesNothing
  <2>3. QED
    BY <2>1, <2>2
<1>4. StreamComplete' /\ FilterWaits' /\ LastHashKnown' /\ BatchComplete' /\ WireComplete'
  BY <1>1 DEF StreamComplete, FilterWaits, LastHashKnown, BatchComplete, WireComplete
<1>5. NeverReset'
  BY <1>1, <1>3 DEF NeverReset
<1>6. QED
  BY <1>3, <1>4, <1>5 DEF LossInv

\* Until a row is late or a block is replaced, every step keeps it; none resets.
LEMMA LossStep ==
  ASSUME StreamInv, ChainInv, FreshInv, Calm => LossInv, [Next]_vars, Calm'
  PROVE  LossInv'
<1>1. Calm /\ LossInv
  BY CalmBefore
<1>2. CASE Db
  BY <1>1, <1>2, DbLosesNothing
<1>3. CASE Tick \/ UNCHANGED vars
  <2>1. UNCHANGED <<dbVars, pc, current, fromCursor, lastHash, batch, chan, clientVars>>
    BY <1>3 DEF Tick, vars, streamVars
  <2>2. \A b : ReadyBlock(b)' <=> ReadyBlock(b)
    BY <2>1, SameReady
  <2>3. CursorComplete' /\ HeldIsReady' /\ BatchComplete'
    BY <1>1, <2>1, <2>2 DEF LossInv, CursorComplete, HeldIsReady, BatchComplete, Has,
       dbVars, clientVars
  <2>4. StreamComplete' /\ WireComplete'
    BY <1>1, <2>1, <2>2 DEF LossInv, StreamComplete, WireComplete, Has, OnWire, dbVars, clientVars
  <2>5. FilterWaits' /\ NeverReset' /\ LastHashKnown'
    BY <1>1, <2>1 DEF LossInv, FilterWaits, NeverReset, LastHashKnown, dbVars, clientVars
  <2>6. QED
    BY <2>3, <2>4, <2>5 DEF LossInv
<1>4. CASE Heartbeat
  BY <1>1, <1>4, HeartbeatLosesNothing
<1>5. CASE FetchBatch
  BY <1>1, <1>5, FetchLosesNothing
<1>6. ~DetectReset
  BY <1>1, NoFaults DEF DetectReset
<1>7. ~SendReset
  BY <1>1 DEF SendReset, LossInv, NeverReset
<1>8. CASE SendBundle
  BY <1>1, <1>8, SendLosesNothing
<1>9. CASE SendTimeout \/ StreamError
  BY <1>1, <1>9, StopLosesNothing DEF SendTimeout, StreamError, Drop
<1>10. CASE Connect
  BY <1>1, <1>10, ConnectLosesNothing
<1>11. CASE ReceiveBlock \/ ReceiveHeartbeat
  BY <1>1, <1>11, ReceiveLosesNothing
<1>12. ~ReceiveReset
  <2>1. chan # <<>> => Head(chan) = chan[1] /\ 1 \in 1 .. Len(chan)
    BY HeadTailProperties, EmptySeq DEF StreamInv, TypeOK
  <2>2. QED
    BY <1>1, <2>1 DEF ReceiveReset, LossInv, NeverReset
<1>13. CASE Disconnect
  BY <1>1, <1>13, DisconnectLosesNothing
<1>14. QED
  BY <1>2, <1>3, <1>4, <1>5, <1>6, <1>7, <1>8, <1>9, <1>10, <1>11, <1>12, <1>13
     DEF Next, Stream, Client

\* Only the indexers change the tables.
LEMMA ChainStays == StreamInv /\ ChainInv /\ [Next]_vars => ChainInv'
<1> SUFFICES ASSUME StreamInv, ChainInv, [Next]_vars
             PROVE  ChainInv'
  OBVIOUS
<1>1. CASE Db
  BY <1>1, ChainStep DEF Db, StreamInv
<1>2. CASE UNCHANGED dbVars
  BY <1>2 DEF ChainInv, Known, dbVars
<1>3. Db \/ UNCHANGED dbVars
  BY DEF Next, Tick, Stream, Client, Heartbeat, FetchBatch, DetectReset, SendReset, SendBundle,
     SendTimeout, StreamError, Connect, ReceiveBlock, ReceiveHeartbeat, ReceiveReset,
     Disconnect, vars
<1>4. QED
  BY <1>1, <1>2, <1>3

\* The invariants together.
LEMMA LossInvariant == Spec => [](StreamInv /\ ChainInv /\ FreshInv /\ (Calm => LossInv))
<1>1. Init => ChainInv /\ FreshInv /\ LossInv
  <2>1. Init => ChainInv /\ FreshInv
    BY BoundsAssumption DEF Init, DbInit, ChainInv, Known, FreshInv, FreshDelivery, SentBelow,
       AheadOfCursor
  <2>2. Init => CursorComplete /\ StreamComplete /\ WireComplete /\ BatchComplete
    BY DEF Init, CursorComplete, StreamComplete, WireComplete, BatchComplete
  <2>3. Init => FilterWaits /\ NeverReset /\ LastHashKnown /\ HeldIsReady
    BY DEF Init, FilterWaits, NeverReset, LastHashKnown, HeldIsReady
  <2>4. QED
    BY <2>1, <2>2, <2>3 DEF LossInv
<1>2. StreamInv /\ ChainInv /\ FreshInv /\ (Calm => LossInv) /\ [Next]_vars
        => ChainInv' /\ FreshInv' /\ (Calm' => LossInv')
  BY ChainStays, FreshStep, LossStep
<1>3. QED
  BY <1>1, <1>2, StreamInvariant, PTL DEF Spec

\* As long as no row was late and no block was replaced, the stream never moves
\* past an item that it has not handed over, nor the client past one it has not
\* stored: over any number of connections that break in the middle of a bundle
\* or of a batch, for every size of the batch and of the channel.
THEOREM NothingIsLost == Spec => [](Calm => NoLoss)
<1>1. LossInv => NoLoss
  <2> SUFFICES ASSUME LossInv, NEW b \in blocks, NEW t \in b.txs, t.relevant
               PROVE  /\ cursor # NoCursor /\ ~KeyLess(cursor, <<b.height, t.id>>)
                           => ItemOf(b, t.id) \in held
                      /\ pc # "off" /\ b.height < current
                           => ItemOf(b, t.id) \in held \cup InFlight
    BY DEF NoLoss
  <2>1. t.id \in Owed(b)
    BY DEF Owed
  <2>2. OnWire(b, t.id, Len(chan)) => ItemOf(b, t.id) \in InFlight
    BY DEF OnWire, InFlight
  <2>3. QED
    BY <2>1, <2>2 DEF LossInv, CursorComplete, StreamComplete, Has
<1>2. QED
  BY <1>1, LossInvariant, PTL

-----------------------------------------------------------------------------
(* Without reorganisations and late rows the client implements FeedReplica. *)

Copy == {<<x.height, x.tx>> : x \in held}

\* New items lie in blocks above those that were ready.
LEMMA ReplicaGrows ==
  ASSUME StreamInv, ChainInv, Db, Calm'
  PROVE  Replica!Grow
<1>1. DbInv /\ DbNext /\ UNCHANGED held
  BY DEF Db, StreamInv, clientVars
<1>2. /\ History \subseteq History'
      /\ \A k \in History, n \in History' \ History : k[1] < n[1]
  BY <1>1, HistoryGrows
<1>3. \A k \in History, n \in History' \ History : KeyLess(k, n)
  BY <1>2 DEF KeyLess
<1>4. QED
  BY <1>1, <1>2, <1>3 DEF Replica!Grow, History

\* What the client holds is ready, and has no hole.
LEMMA CopyIsPrefix ==
  ASSUME StreamInv, LossInv
  PROVE  /\ Copy \subseteq History
         /\ \A k \in History, n \in Copy : KeyLess(k, n) => k \in Copy
<1>1. /\ \A b, i : ReadyBlock(b) /\ i \in Owed(b) => <<b.height, i>> \in History
      /\ \A k \in History : \E b : ReadyBlock(b) /\ \E i \in Owed(b) : k = <<b.height, i>>
      /\ History \subseteq Key
  BY HistoryIsOwed DEF StreamInv, Key
<1>2. ASSUME NEW n \in Copy
      PROVE  n \in History /\ cursor # NoCursor /\ ~KeyLess(cursor, n)
  <2>1. PICK x \in held : n = <<x.height, x.tx>>
    BY DEF Copy
  <2>2. /\ \E b \in blocks : ReadyBlock(b) /\ x.tx \in Owed(b) /\ x = ItemOf(b, x.tx)
        /\ cursor # NoCursor /\ ~KeyLess(cursor, <<x.height, x.tx>>)
    BY DEF LossInv, HeldIsReady
  <2>3. PICK b \in blocks : ReadyBlock(b) /\ x.tx \in Owed(b) /\ x = ItemOf(b, x.tx)
    BY <2>2
  <2>4. x.height = b.height
    BY <2>3 DEF ItemOf
  <2>5. QED
    BY <1>1, <2>1, <2>2, <2>3, <2>4
<1>3. ASSUME NEW k \in History, NEW n \in Copy, KeyLess(k, n)
      PROVE  k \in Copy
  <2>1. PICK b, i : ReadyBlock(b) /\ i \in Owed(b) /\ k = <<b.height, i>>
    BY <1>1
  <2>2. k \in Key /\ n \in Key /\ cursor \in Key /\ ~KeyLess(cursor, n) /\ cursor # NoCursor
    BY <1>1, <1>2 DEF StreamInv, TypeOK
  <2>3. ~KeyLess(cursor, k)
    BY <1>3, <2>2 DEF KeyLess, Key
  <2>4. Has(b, i)
    BY <2>1, <2>2, <2>3 DEF LossInv, CursorComplete, ReadyBlock
  <2>5. QED
    BY <2>1, <2>4 DEF Has, Copy, ItemOf
<1>4. QED
  BY <1>2, <1>3

\* While the tables stand still, the client only adds to what it holds.
LEMMA CopyGrows ==
  ASSUME StreamInv, LossInv, StreamInv', LossInv', [Next]_vars, ~Db
  PROVE  Replica!Sync
<1>1. ~ReceiveReset
  <2>1. chan # <<>> => Head(chan) = chan[1] /\ 1 \in 1 .. Len(chan)
    BY HeadTailProperties, EmptySeq DEF StreamInv, TypeOK
  <2>2. QED
    BY <2>1 DEF ReceiveReset, LossInv, NeverReset
<1>2. UNCHANGED dbVars /\ held \subseteq held'
  BY <1>1 DEF Next, Tick, Stream, Client, Heartbeat, FetchBatch, DetectReset, SendReset,
     SendBundle, SendTimeout, StreamError, Connect, ReceiveBlock, ReceiveHeartbeat,
     Disconnect, Store, clientVars, vars
<1>3. UNCHANGED History
  BY <1>2 DEF History, RelevantTxs, WalletReadyHeight, Blocking, ChainHead, dbVars
<1>4. StreamInv' /\ LossInv' => (/\ Copy \subseteq History
                                 /\ \A k \in History, n \in Copy : KeyLess(k, n) => k \in Copy)'
  BY CopyIsPrefix, PTL
<1>5. /\ Copy \subseteq Copy' /\ Copy' \subseteq History
      /\ \A k \in History, n \in Copy' : KeyLess(k, n) => k \in Copy'
  BY <1>2, <1>3, <1>4 DEF Copy
<1>6. QED
  BY <1>3, <1>5 DEF Replica!Sync, History, Copy

\* The whole of what the stream and its client do, over reconnections and
\* failures, is a client that copies the wallet's ready items in their order,
\* without a hole and without giving one up again.  (With a reorganisation or a
\* late row the client has to give items up, or the stream misses some.)
THEOREM ClientCopies ==
  ASSUME MaxReorgs = 0, MaxGaps = 0
  PROVE  Spec => ClientIsReplica
<1> DEFINE Inv == StreamInv /\ ChainInv /\ FreshInv /\ (Calm => LossInv)
<1>1. Init => Replica!ReplicaInit
  BY DEF Init, DbInit, Replica!ReplicaInit
<1>2. ASSUME Inv
      PROVE  Calm
  BY <1>2 DEF ChainInv, StreamInv, DbInv, DbTypeOK, Calm
<1>3. Inv' => Calm'
  BY <1>2, PTL
<1>4. Inv /\ Inv' /\ [Next]_vars => [Replica!Grow \/ Replica!Sync]_Replica!replica
  <2> SUFFICES ASSUME Inv, Inv', [Next]_vars
               PROVE  Replica!Grow \/ Replica!Sync
    OBVIOUS
  <2>1. Calm /\ LossInv /\ Calm' /\ LossInv'
    BY <1>2, <1>3
  <2>2. CASE Db
    BY <2>1, <2>2, ReplicaGrows
  <2>3. CASE ~Db
    BY <2>1, <2>3, CopyGrows
  <2>4. QED
    BY <2>2, <2>3
<1>5. Spec => []Inv
  BY LossInvariant
<1>6. QED
  BY <1>1, <1>4, <1>5, PTL DEF Spec, ClientIsReplica, Replica!ReplicaSpec

-----------------------------------------------------------------------------
(* The client's items lie on one chain.                                    *)

\* What a block says of its place in the chain; an item repeats it.
Meta(b) == <<b.height, b.hash, b.parent>>

Chain == {Meta(b) : b \in Known}

\* The blocks of which the client has items, or has them on their way.
Delivered ==
  {Meta(x) : x \in held} \cup
    {Meta(chan[k].bundle.block) : k \in {j \in 1 .. Len(chan) : chan[j].type = "block"}}

Batched == {Meta(batch[i].block) : i \in 1 .. Len(batch)}

\* Everything that left the tables is still in them.
AllOnChain ==
  /\ Delivered \subseteq Chain
  /\ Batched \subseteq Chain
  /\ sent # <<>> => Meta(Last(sent)) \in Chain

\* Connections that end with a reset only: one that runs is ahead of what the
\* client has, and started where the reset before it told the client to.
ResetsOnly ==
  /\ pc # "off" =>
       /\ \A k \in 1 .. Len(chan) : chan[k].type # "control"
       /\ \A d \in Delivered : d[1] < current
       /\ sent = <<>> => current = restartAt
  /\ pc = "off" /\ chan = <<>> => cursor = NoCursor /\ \A d \in Delivered : d[1] < restartAt
  /\ pc = "off" /\ chan # <<>> => chan[Len(chan)].type = "control"

\* The chain has a block above s, or s is its beginning.
Covered(s) == s = 0 \/ \E c \in Chain : s < c[1]

\* Every restart goes back behind a block that is known.
RestartsCovered ==
  /\ Covered(restartAt)
  /\ pc = "reset" => Covered(safeHeight)
  /\ \A k \in 1 .. Len(chan) : chan[k].type = "control" => Covered(chan[k].height)

\* The client has nothing above the replaced block o, and is about to be told
\* to drop it: the stream stands behind o, or the reset is under way.
ResetIsDue(o) ==
  /\ \A d \in Delivered : d = o \/ d[1] < o[1]
  /\ \/ pc = "poll" /\ current = o[1] + 1 /\ lastHash = o[2]
     \/ pc = "reset" /\ safeHeight <= o[1]
     \/ /\ pc = "off" /\ chan # <<>>
        /\ \A k \in 1 .. Len(chan) : chan[k].type = "control" => chan[k].height <= o[1]

\* The block o was replaced; if the task still has it, as the last one of its
\* batch.
Replaced(o) ==
  /\ o[2] < nextHash
  /\ \E c \in Chain : c[1] + 1 = o[1] /\ c[2] = o[3]
  /\ \A c \in Chain : c[1] = o[1] => c[2] # o[2]
  /\ Delivered \subseteq Chain \cup {o}
  /\ Batched \subseteq Chain \cup {o}
  /\ \A i \in 1 .. Len(batch) : Meta(batch[i].block) = o => i = Len(batch)
  /\ o \in Delivered => ResetIsDue(o)

BatchDone == pc # "send" => batch = <<>>

\* One reorganisation, of the last block, that a connected client lives through.
OneShallow == reorgs = 1 /\ drops = 0 /\ MaxDepth <= 1

LinkInv ==
  /\ BatchDone
  /\ reorgs = 0 => AllOnChain
  /\ drops = 0 => ResetsOnly
  /\ reorgs = 0 /\ drops = 0 => RestartsCovered
  /\ OneShallow => \E o \in Nat \X Hash \X Nat : Replaced(o)

-----------------------------------------------------------------------------
\* Heights, hashes and parents are numbers wherever a block is.
LEMMA MetaTypes ==
  ASSUME StreamInv
  PROVE  /\ Chain \subseteq Nat \X Nat \X Nat
         /\ Delivered \subseteq Nat \X Nat \X Nat
         /\ Batched \subseteq Nat \X Nat \X Nat
<1>1. \A b \in BlockRow : Meta(b) \in Nat \X Nat \X Nat
  BY DEF BlockRow, Hash, Meta
<1>2. \A x \in held : Meta(x) \in Nat \X Nat \X Nat
  BY DEF StreamInv, TypeOK, Item, Hash, Meta
<1>3. \A k \in 1 .. Len(chan) : chan[k].type = "block" => chan[k].bundle.block \in BlockRow
  <2>1. \A k \in 1 .. Len(chan) : chan[k] \in Event
    BY ElementOfSeq DEF StreamInv, TypeOK
  <2>2. QED
    BY <2>1 DEF Event, Bundle
<1>4. \A i \in 1 .. Len(batch) : batch[i].block \in BlockRow
  <2>1. \A i \in 1 .. Len(batch) : batch[i] \in Bundle
    BY ElementOfSeq DEF StreamInv, TypeOK
  <2>2. QED
    BY <2>1 DEF Bundle
<1>5. \A b \in Known : b \in BlockRow
  BY DEF StreamInv, TypeOK, DbTypeOK, Known
<1>6. Chain \subseteq Nat \X Nat \X Nat
  BY <1>1, <1>5 DEF Chain
<1>7. Delivered \subseteq Nat \X Nat \X Nat
  BY <1>1, <1>2, <1>3 DEF Delivered
<1>8. Batched \subseteq Nat \X Nat \X Nat
  BY <1>1, <1>4 DEF Batched
<1>9. QED
  BY <1>6, <1>7, <1>8

\* An event that is sent brings the client at most its own block.
LEMMA DeliveredBySend ==
  ASSUME StreamInv, NEW e, chan' = Append(chan, e), held' = held
  PROVE  /\ Len(chan) \in Nat /\ Len(chan') = Len(chan) + 1 /\ chan'[Len(chan) + 1] = e
         /\ \A k \in 1 .. Len(chan) : chan'[k] = chan[k]
         /\ Delivered' \subseteq
              Delivered \cup {Meta(b) : b \in {c \in {e.bundle.block} : e.type = "block"}}
<1>1. /\ Len(chan) \in Nat /\ Len(chan') = Len(chan) + 1 /\ chan'[Len(chan) + 1] = e
      /\ \A k \in 1 .. Len(chan) : chan'[k] = chan[k]
  BY AppendProperties, LenProperties DEF StreamInv, TypeOK
<1>2. \A k \in 1 .. Len(chan') : k \in 1 .. Len(chan) \/ k = Len(chan) + 1
  BY <1>1
<1>3. ASSUME NEW k \in 1 .. Len(chan'), chan'[k].type = "block"
      PROVE  Meta(chan'[k].bundle.block) \in
               Delivered \cup {Meta(b) : b \in {c \in {e.bundle.block} : e.type = "block"}}
  <2>1. CASE k \in 1 .. Len(chan)
    BY <1>1, <1>3, <2>1 DEF Delivered
  <2>2. CASE k = Len(chan) + 1
    BY <1>1, <1>3, <2>2
  <2>3. QED
    BY <1>2, <2>1, <2>2
<1>4. \A x \in held' : Meta(x) \in Delivered
  BY DEF Delivered
<1>5. QED
  BY <1>1, <1>3, <1>4 DEF Delivered, Meta

\* An event that is received leaves the client with what was on its way.
LEMMA DeliveredByReceive ==
  ASSUME StreamInv, chan # <<>>, chan' = Tail(chan),
         \A x \in held' : x \in held \/
            (Head(chan).type = "block" /\ Meta(x) = Meta(Head(chan).bundle.block))
  PROVE  /\ Head(chan) = chan[1] /\ Len(chan) \in Nat \ {0} /\ Len(chan') = Len(chan) - 1
         /\ \A k \in 1 .. Len(chan') : chan'[k] = chan[k + 1]
         /\ Delivered' \subseteq Delivered
<1>1. /\ Head(chan) = chan[1] /\ Len(chan) \in Nat \ {0} /\ Len(chan') = Len(chan) - 1
      /\ \A k \in 1 .. Len(chan') : chan'[k] = chan[k + 1]
  BY HeadTailProperties, EmptySeq DEF StreamInv, TypeOK
<1>2. \A k \in 1 .. Len(chan') : chan'[k].type = "block" => Meta(chan'[k].bundle.block) \in Delivered
  <2>1. \A k \in 1 .. Len(chan') : k + 1 \in 1 .. Len(chan)
    BY <1>1
  <2>2. QED
    BY <1>1, <2>1 DEF Delivered
<1>3. \A x \in held' : Meta(x) \in Delivered
  <2>1. 1 \in 1 .. Len(chan)
    BY <1>1
  <2>2. QED
    BY <1>1, <2>1 DEF Delivered
<1>4. QED
  BY <1>1, <1>2, <1>3 DEF Delivered, Meta

\* A step that sends no block and no reset, and takes none of either from the
\* client, leaves everything as it is.
LEMMA QuietStep ==
  ASSUME StreamInv, LinkInv, UNCHANGED <<dbVars, pc, current, lastHash, batch, safeHeight,
                                          sent, restartAt, drops>>,
         Delivered' \subseteq Delivered,
         \A k \in 1 .. Len(chan') : chan'[k].type = "control" =>
           \E j \in 1 .. Len(chan) : chan[j].type = "control" /\ chan[j].height = chan'[k].height,
         drops = 0 /\ pc = "off" =>
           /\ chan' = <<>> => chan = <<>> /\ cursor' = cursor
           /\ chan' # <<>> => chan'[Len(chan')].type = "control"
  PROVE  LinkInv'
<1>1. Chain' = Chain /\ Batched' = Batched /\ reorgs' = reorgs /\ nextHash' = nextHash
  BY DEF dbVars, Chain, Known, Batched, Meta
<1>2. reorgs' = 0 => AllOnChain'
  BY <1>1 DEF LinkInv, AllOnChain, Meta
<1>3. drops' = 0 => ResetsOnly'
  BY DEF LinkInv, ResetsOnly
<1>4. reorgs' = 0 /\ drops' = 0 => RestartsCovered'
  BY <1>1 DEF LinkInv, RestartsCovered, Covered
<1>5. ASSUME OneShallow'
      PROVE  \E o \in Nat \X Hash \X Nat : Replaced(o)'
  <2>1. drops = 0 /\ OneShallow
    BY <1>1, <1>5 DEF OneShallow
  <2>2. PICK o \in Nat \X Hash \X Nat : Replaced(o)
    BY <2>1 DEF LinkInv
  <2>3. ASSUME ResetIsDue(o)
        PROVE  ResetIsDue(o)'
    <3>1. \A d \in Delivered' : d = o \/ d[1] < o[1]
      BY <2>3 DEF ResetIsDue
    <3>2. CASE pc = "off"
      <4>1. chan # <<>> /\ \A k \in 1 .. Len(chan) : chan[k].type = "control" => chan[k].height <= o[1]
        BY <2>3, <3>2 DEF ResetIsDue
      <4>2. chan' # <<>>
        BY <2>1, <3>2, <4>1
      <4>3. \A k \in 1 .. Len(chan') : chan'[k].type = "control" => chan'[k].height <= o[1]
        BY <4>1
      <4>4. QED
        BY <3>1, <3>2, <4>2, <4>3 DEF ResetIsDue
    <3>3. CASE pc # "off"
      BY <2>3, <3>1, <3>3 DEF ResetIsDue
    <3>4. QED
      BY <3>2, <3>3
  <2>4. Replaced(o)'
    BY <1>1, <2>2, <2>3 DEF Replaced, Meta
  <2>5. QED
    BY <2>4
<1>6. QED
  BY <1>2, <1>3, <1>4, <1>5 DEF LinkInv, BatchDone

\* A block that comes lies on top of the chain and has a fresh hash.
LEMMA ChainAdds ==
  ASSUME StreamInv, ChainInv, DbNext, reorgs' = reorgs
  PROVE  /\ Chain \subseteq Chain' /\ nextHash <= nextHash' /\ nextHash \in Nat
         /\ nextHash' \in Nat
         /\ \A d \in Chain' : d \in Chain \/ d[2] = nextHash
<1>0. nextHash \in Nat /\ reorgs \in Nat /\ DbInv
  BY DEF StreamInv, TypeOK, DbTypeOK, Hash
<1>1. ASSUME NEW kinds \in Seq(BOOLEAN), nextHash' = nextHash + 1,
             Known' = Known \cup {NextBlock(kinds)}
      PROVE  /\ Chain \subseteq Chain'
             /\ \A d \in Chain' : d \in Chain \/ d[2] = nextHash
  <2>1. Meta(NextBlock(kinds))[2] = nextHash
    BY DEF Meta, NextBlock
  <2>2. QED
    BY <1>1, <2>1 DEF Chain, Meta
<1>2. CASE \E kinds \in TxLists : AddBlock(kinds)
  <2>1. PICK kinds \in Seq(BOOLEAN) : AddBlock(kinds)
    BY <1>2, TxListsAssumption
  <2>2. Known' = Known \cup {NextBlock(kinds)} /\ nextHash' = nextHash + 1
    BY <2>1 DEF AddBlock, Known
  <2>3. QED
    BY <1>0, <1>1, <2>2
<1>3. CASE SkipBlock
  <2>1. <<>> \in Seq(BOOLEAN)
    OBVIOUS
  <2>2. Known' = Known \cup {NextBlock(<<>>)} /\ nextHash' = nextHash + 1
    BY <1>3 DEF SkipBlock, Known
  <2>3. Chain \subseteq Chain' /\ \A d \in Chain' : d \in Chain \/ d[2] = nextHash
    BY <1>1, <2>1, <2>2
  <2>4. QED
    BY <1>0, <2>2, <2>3
<1>4. ASSUME NEW kinds \in TxLists, Backfill(kinds)
      PROVE  Chain' = Chain
  <2>1. PICK m \in missing :
          /\ blocks' = blocks \cup {[m EXCEPT !.txs = NewTxs(kinds)]}
          /\ missing' = missing \ {m}
    BY <1>4 DEF Backfill
  <2>2. m \in BlockRow
    BY <1>0 DEF DbInv, DbTypeOK
  <2>3. Meta([m EXCEPT !.txs = NewTxs(kinds)]) = Meta(m)
    BY <2>2 DEF Meta, BlockRow
  <2>4. QED
    BY <2>1, <2>3 DEF Chain, Known, Meta
<1>5. CASE IndexTx
  BY <1>0, <1>5 DEF IndexTx, Chain, Known, Meta
<1>6. \A h : ~Reorg(h)
  BY <1>0 DEF Reorg
<1>7. ASSUME NEW kinds \in TxLists, Backfill(kinds)
      PROVE  nextHash' = nextHash
  BY <1>7 DEF Backfill
<1>8. QED
  BY <1>0, <1>2, <1>3, <1>4, <1>5, <1>6, <1>7 DEF DbNext

\* What the stream and the client have stays on a chain that grows.
LEMMA ChainGrowsLinked ==
  ASSUME StreamInv, ChainInv, LinkInv, Db, reorgs' = reorgs
  PROVE  LinkInv'
<1>1. /\ Chain \subseteq Chain' /\ nextHash <= nextHash' /\ nextHash \in Nat /\ nextHash' \in Nat
      /\ \A d \in Chain' : d \in Chain \/ d[2] = nextHash
  BY ChainAdds DEF Db
<1>2. UNCHANGED <<streamVars, chan, clientVars, drops>>
  BY DEF Db
<1>3. Delivered' = Delivered /\ Batched' = Batched
  BY <1>2 DEF streamVars, clientVars, Delivered, Batched, Meta
<1>4. reorgs' = 0 => AllOnChain'
  BY <1>1, <1>2, <1>3 DEF LinkInv, AllOnChain, streamVars, Meta
<1>5. drops' = 0 => ResetsOnly'
  BY <1>2, <1>3 DEF LinkInv, ResetsOnly, streamVars, clientVars
<1>6. \A s : Covered(s) => Covered(s)'
  BY <1>1 DEF Covered
<1>7. reorgs' = 0 /\ drops' = 0 => RestartsCovered'
  BY <1>2, <1>6 DEF LinkInv, RestartsCovered, streamVars, clientVars
<1>8. ASSUME NEW o \in Nat \X Hash \X Nat, Replaced(o)
      PROVE  Replaced(o)'
  <2>1. ResetIsDue(o) => ResetIsDue(o)'
    BY <1>2, <1>3 DEF ResetIsDue, streamVars
  <2>2. o[2] < nextHash' /\ \A c \in Chain' : c[1] = o[1] => c[2] # o[2]
    BY <1>1, <1>8 DEF Replaced, Hash
  <2>3. QED
    BY <1>1, <1>2, <1>3, <1>8, <2>1, <2>2 DEF Replaced, streamVars, Meta
<1>9. OneShallow' => OneShallow
  BY <1>2 DEF OneShallow
<1>10. QED
  BY <1>2, <1>4, <1>5, <1>7, <1>8, <1>9 DEF LinkInv, BatchDone, streamVars

\* The last block of the chain is replaced: a task that has sent it stands
\* right behind it, or is about to reset the client to somewhere below it.
LEMMA TipIsReplaced ==
  ASSUME StreamInv, ChainInv, BatchDone, AllOnChain, ResetsOnly, RestartsCovered, MaxDepth <= 1,
         NEW h \in 1 .. MaxHeight, Reorg(h), UNCHANGED <<streamVars, chan, clientVars, drops>>
  PROVE  \E o \in Nat \X Hash \X Nat : Replaced(o)'
<1>1. /\ h \in Nat /\ h > 0 /\ Tip.height < h + MaxDepth /\ nextHash' = nextHash
      /\ Known' = {b \in Known : b.height < h}
      /\ \E b \in Known : b.height = h
  BY BoundsAssumption DEF Reorg, Known
<1>2. Tip \in Known /\ Tip \in BlockRow /\ \A b \in Known : b.height <= Tip.height
  BY <1>1, TipIsLast DEF StreamInv
<1>3. Tip.height = h /\ Tip.height \in Nat /\ Tip.hash \in Hash /\ Tip.parent \in Nat
  BY <1>1, <1>2, BoundsAssumption DEF BlockRow, Hash
<1>4. PICK o \in Nat \X Hash \X Nat :
        o = Meta(Tip) /\ o[1] = h /\ o[2] = Tip.hash /\ o[3] = Tip.parent
  <2>1. Meta(Tip) = <<h, Tip.hash, Tip.parent>>
    BY <1>3 DEF Meta
  <2>2. <<h, Tip.hash, Tip.parent>> \in Nat \X Hash \X Nat
    BY <1>1, <1>3
  <2>3. QED
    BY <2>1, <2>2
<1>5. \A b \in Known : b \in BlockRow
  BY DEF StreamInv, TypeOK, DbTypeOK, Known
<1>6. Chain' = {c \in Chain : c[1] < h}
  BY <1>1, <1>5 DEF Chain, Meta
<1>7. \A c \in Chain : c[1] \in Nat /\ (c[1] < h \/ c = o)
  <2>1. \A b \in Known : b.height \in Nat /\ (b.height < h \/ b = Tip)
    BY <1>2, <1>3, <1>5 DEF ChainInv, BlockRow
  <2>2. QED
    BY <1>4, <2>1 DEF Chain, Meta
<1>8. \E c \in Chain' : c[1] + 1 = o[1] /\ c[2] = o[3]
  <2>1. h - 1 \in 0 .. Tip.height
    BY <1>1, <1>3
  <2>2. PICK b \in Known : b.height = h - 1
    BY <1>2, <2>1 DEF ChainInv
  <2>3. Tip.height = b.height + 1
    BY <1>1, <1>3, <2>2
  <2>4. Tip.parent = b.hash
    BY <1>2, <2>3 DEF ChainInv
  <2>5. Meta(b) \in Chain /\ Meta(b)[1] = h - 1 /\ Meta(b)[2] = b.hash
    BY <2>2 DEF Chain, Meta
  <2>6. QED
    BY <1>1, <1>4, <1>6, <2>4, <2>5
<1>9. Delivered' = Delivered /\ Batched' = Batched
  BY DEF streamVars, clientVars, Delivered, Batched, Meta
<1>10. Delivered' \subseteq Chain' \cup {o} /\ Batched' \subseteq Chain' \cup {o}
  BY <1>6, <1>7, <1>9 DEF AllOnChain
<1>11. o[2] < nextHash'
  BY <1>1, <1>2, <1>4 DEF ChainInv
<1>12. \A c \in Chain' : c[1] = o[1] => c[2] # o[2]
  BY <1>1, <1>4, <1>6, <1>7
<1>13. \A i \in 1 .. Len(batch') : Meta(batch'[i].block) = o => i = Len(batch')
  <2>1. \A i \in 1 .. Len(batch) : batch[i].block \in BlockRow
    <3>1. \A i \in 1 .. Len(batch) : batch[i] \in Bundle
      BY ElementOfSeq DEF StreamInv, TypeOK
    <3>2. QED
      BY <3>1 DEF Bundle
  <2>2. Len(batch) \in Nat
    BY LenProperties DEF StreamInv, TypeOK
  <2>3. pc # "send" => Len(batch) = 0
    BY EmptySeq DEF BatchDone
  <2>4. ASSUME NEW i \in 1 .. Len(batch) - 1
        PROVE  Meta(batch[i].block) # o
    <3>1. i \in 1 .. Len(batch) /\ i + 1 \in 1 .. Len(batch)
      BY <2>2
    <3>2. batch[i + 1].block.height = batch[i].block.height + 1
      BY <2>2, <2>3 DEF StreamInv, BatchLinked
    <3>3. Meta(batch[i + 1].block) \in Chain
      BY <3>1 DEF AllOnChain, Batched
    <3>4. Meta(batch[i + 1].block)[1] = batch[i + 1].block.height
      BY DEF Meta
    <3>5. batch[i].block.height \in Nat
      BY <2>1, <3>1 DEF BlockRow
    <3>6. batch[i + 1].block.height <= h
      BY <1>1, <1>4, <1>7, <3>3, <3>4
    <3>7. QED
      BY <1>1, <1>4, <3>2, <3>5, <3>6 DEF Meta
  <2>5. QED
    BY <2>2, <2>4 DEF streamVars, Meta
<1>14. ASSUME o \in Delivered
       PROVE  ResetIsDue(o)'
  <2>1. \A d \in Delivered' : d = o \/ d[1] < o[1]
    BY <1>4, <1>7, <1>9 DEF AllOnChain
  <2>2. \A s \in Nat : Covered(s) => s < h
    BY <1>1, <1>7, <1>4 DEF Covered
  <2>3. restartAt \in Nat /\ restartAt < h
    BY <2>2 DEF RestartsCovered, StreamInv, TypeOK
  <2>4. CASE pc = "off"
    <3>1. chan # <<>>
      BY <1>4, <1>14, <2>3, <2>4 DEF ResetsOnly
    <3>2. \A k \in 1 .. Len(chan) : chan[k].type = "control" => chan[k].height <= o[1]
      <4>1. \A k \in 1 .. Len(chan) : chan[k].type = "control" => chan[k].height \in Nat
        <5>1. \A k \in 1 .. Len(chan) : chan[k] \in Event
          BY ElementOfSeq DEF StreamInv, TypeOK
        <5>2. QED
          BY <5>1 DEF Event
      <4>2. QED
        BY <1>4, <2>2, <4>1 DEF RestartsCovered
    <3>3. QED
      BY <2>1, <2>4, <3>1, <3>2 DEF ResetIsDue, streamVars
  <2>5. CASE pc = "reset"
    <3>1. safeHeight \in Nat /\ safeHeight <= o[1]
      BY <1>4, <2>2, <2>5 DEF RestartsCovered, StreamInv, TypeOK
    <3>2. QED
      BY <2>1, <2>5, <3>1 DEF ResetIsDue, streamVars
  <2>6. CASE pc \in {"poll", "send"}
    <3>1. h < current /\ current \in Nat
      BY <1>4, <1>14, <2>6 DEF ResetsOnly, StreamInv, TypeOK
    <3>2. sent # <<>>
      BY <2>3, <2>6, <3>1 DEF ResetsOnly
    <3>3. current = Last(sent).height + 1 /\ Meta(Last(sent)) \in Chain
      BY <2>6, <3>2 DEF StreamInv, AllOnChain
    <3>4. sent \in Seq(BlockRow) /\ Last(sent) \in BlockRow
      BY <3>2, EmptySeq, ElementOfSeq DEF StreamInv, TypeOK, Last
    <3>5. Last(sent).height = h /\ Last(sent).hash = Tip.hash
      BY <1>1, <1>4, <1>7, <3>1, <3>3, <3>4 DEF Meta, BlockRow
    <3>6. current = o[1] + 1
      BY <1>4, <3>3, <3>5
    <3>7. CASE pc = "poll"
      BY <1>4, <2>1, <3>2, <3>5, <3>6, <3>7 DEF ResetIsDue, streamVars, StreamInv
    <3>8. CASE pc = "send"
      <4>1. batch # <<>> /\ batch[1].block.height = current /\ batch \in Seq(Bundle)
        BY <3>8 DEF StreamInv, BatchFollows, TypeOK
      <4>2. 1 \in 1 .. Len(batch)
        BY <4>1, EmptySeq, LenProperties
      <4>3. Meta(batch[1].block) \in Chain /\ Meta(batch[1].block)[1] = current
        BY <4>1, <4>2 DEF AllOnChain, Batched, Meta
      <4>4. QED
        BY <1>4, <1>7, <3>1, <4>3
    <3>9. QED
      BY <2>6, <3>7, <3>8
  <2>7. QED
    BY <2>4, <2>5, <2>6 DEF StreamInv, TypeOK
<1>15. Replaced(o)'
  BY <1>8, <1>9, <1>10, <1>11, <1>12, <1>13, <1>14 DEF Replaced, Meta
<1>16. QED
  BY <1>15

LEMMA DbLinks ==
  ASSUME StreamInv, ChainInv, LinkInv, Db
  PROVE  LinkInv'
<1>1. CASE reorgs' = reorgs
  BY <1>1, ChainGrowsLinked
<1>2. ASSUME NEW h \in 1 .. MaxHeight, Reorg(h)
      PROVE  LinkInv'
  <2>1. UNCHANGED <<streamVars, chan, clientVars, drops>>
    BY DEF Db
  <2>2. reorgs \in Nat /\ reorgs' = reorgs + 1
    BY <1>2 DEF Reorg, StreamInv, TypeOK, DbTypeOK
  <2>3. Delivered' = Delivered
    BY <2>1 DEF streamVars, clientVars, Delivered, Meta
  <2>4. BatchDone' /\ (drops' = 0 => ResetsOnly')
    BY <2>1, <2>3 DEF LinkInv, BatchDone, ResetsOnly, streamVars, clientVars
  <2>5. OneShallow' => \E o \in Nat \X Hash \X Nat : Replaced(o)'
    <3>1. SUFFICES ASSUME OneShallow'
                   PROVE  \E o \in Nat \X Hash \X Nat : Replaced(o)'
      OBVIOUS
    <3>2. reorgs = 0 /\ drops = 0 /\ MaxDepth <= 1
      BY <2>1, <2>2, <3>1 DEF OneShallow
    <3>3. BatchDone /\ AllOnChain /\ ResetsOnly /\ RestartsCovered
      BY <3>2 DEF LinkInv
    <3>4. QED
      BY <1>2, <2>1, <3>2, <3>3, TipIsReplaced
  <2>6. QED
    BY <2>2, <2>4, <2>5 DEF LinkInv
<1>3. reorgs' = reorgs \/ \E h \in 1 .. MaxHeight : Reorg(h)
  BY DEF Db, DbNext, AddBlock, Backfill, SkipBlock, IndexTx
<1>4. QED
  BY <1>1, <1>2, <1>3

\* No block continues a block that was replaced: the next one is at odds with
\* what a task behind it has sent.
LEMMA OrphanIsMismatch ==
  ASSUME StreamInv, ChainInv, NEW o \in Nat \X Hash \X Nat, Replaced(o),
         current = o[1] + 1, lastHash = o[2], Present(current)
  PROVE  Mismatch(current)
<1>1. At(current) \in Fetched /\ At(current).height = current
  BY AtIsFetched
<1>2. At(current) \in Known
  BY <1>1 DEF Fetched, BlocksInRange, Known
<1>3. Boundary = o[2] /\ o[2] # NoHash
  BY DEF Boundary, NoHash, Hash
<1>4. o[1] \in 0 .. At(current).height
  BY <1>1
<1>5. PICK c \in Known : c.height = o[1]
  BY <1>2, <1>4 DEF ChainInv
<1>6. At(current).parent = c.hash
  BY <1>1, <1>2, <1>5 DEF ChainInv
<1>7. Meta(c) \in Chain /\ Meta(c)[1] = o[1] /\ Meta(c)[2] = c.hash
  BY <1>5 DEF Chain, Meta
<1>8. c.hash # o[2]
  BY <1>7 DEF Replaced
<1>9. QED
  BY <1>3, <1>6, <1>8 DEF Mismatch

\* A batch without faults comes from the chain, and a task that is behind a
\* replaced block finds none.
LEMMA FetchLinks ==
  ASSUME StreamInv, ChainInv, LinkInv, FetchBatch
  PROVE  LinkInv'
<1>1. PICK n \in 1 .. BatchSize :
        /\ {b.height : b \in Fetched} = current .. (current + n - 1)
        /\ batch' = [i \in 1 .. n |-> MakeBundle(At(current + i - 1))]
  BY DEF FetchBatch
<1>2. n \in Nat /\ n >= 1 /\ current \in Nat
  BY SubscribeAssumption DEF StreamInv, TypeOK
<1>3. /\ UNCHANGED <<dbVars, current, sent, chan, clientVars, drops>>
      /\ pc = "poll" /\ pc' = "send" /\ Faults = {}
  BY DEF FetchBatch
<1>4. Delivered' = Delivered /\ Chain' = Chain
  BY <1>3 DEF dbVars, clientVars, Delivered, Chain, Known, Meta
<1>5. \A i \in 1 .. n : Present(current + i - 1)
  <2>1. \A i \in 1 .. n : current + i - 1 \in current .. (current + n - 1)
    BY <1>2
  <2>2. QED
    BY <1>1, <2>1 DEF Present
<1>6. Batched' \subseteq Chain
  <2>1. \A i \in 1 .. n : Meta(At(current + i - 1)) \in Chain
    <3>1. \A i \in 1 .. n : At(current + i - 1) \in Fetched
      BY <1>5, AtIsFetched
    <3>2. QED
      BY <3>1 DEF Fetched, BlocksInRange, Chain, Known
  <2>2. Len(batch') = n /\ \A i \in 1 .. n : batch'[i].block = At(current + i - 1)
    BY <1>1, <1>2 DEF MakeBundle
  <2>3. QED
    BY <2>1, <2>2 DEF Batched, Meta
<1>7. reorgs' = 0 => AllOnChain'
  BY <1>3, <1>4, <1>6 DEF LinkInv, AllOnChain, dbVars, Meta
<1>8. drops' = 0 => ResetsOnly'
  BY <1>3, <1>4 DEF LinkInv, ResetsOnly, clientVars
<1>9. reorgs' = 0 /\ drops' = 0 => RestartsCovered'
  BY <1>3, <1>4 DEF LinkInv, RestartsCovered, Covered, dbVars, clientVars
<1>10. ASSUME OneShallow'
       PROVE  \E o \in Nat \X Hash \X Nat : Replaced(o)'
  <2>1. OneShallow
    BY <1>3, <1>10 DEF OneShallow, dbVars
  <2>2. PICK o \in Nat \X Hash \X Nat : Replaced(o)
    BY <2>1 DEF LinkInv
  <2>3. o \notin Delivered
    <3>1. SUFFICES ASSUME o \in Delivered
                   PROVE  FALSE
      OBVIOUS
    <3>2. current = o[1] + 1 /\ lastHash = o[2]
      BY <1>3, <2>2, <3>1 DEF Replaced, ResetIsDue
    <3>3. Present(current)
      <4>1. current + 1 - 1 = current /\ 1 \in 1 .. n
        BY <1>2
      <4>2. QED
        BY <1>5, <4>1
    <3>4. Mismatch(current)
      BY <2>2, <3>2, <3>3, OrphanIsMismatch
    <3>5. At(current) \in Fetched /\ At(current).height = current
      BY <3>3, AtIsFetched
    <3>6. current \in current .. ToHeight
      BY <1>2, <3>5, FetchedReady, ToHeightIsInt
    <3>7. QED
      BY <1>3, <3>4, <3>6 DEF Faults
  <2>4. o \notin Chain
    BY <2>2 DEF Replaced
  <2>5. \A i \in 1 .. Len(batch') : Meta(batch'[i].block) # o
    BY <1>6, <2>4 DEF Batched, Meta
  <2>6. Replaced(o)'
    BY <1>3, <1>4, <1>6, <2>2, <2>3, <2>5 DEF Replaced, dbVars, Meta
  <2>7. QED
    BY <2>6
<1>11. QED
  BY <1>3, <1>7, <1>8, <1>9, <1>10 DEF LinkInv, BatchDone

\* The restart height is the one below the first fault, if there is one.
LEMMA RestartHeight ==
  ASSUME StreamInv, Faults # {}
  PROVE  /\ Min(Faults) \in Faults /\ \A f \in Faults : Min(Faults) <= f
         /\ Faults \subseteq Nat
         /\ Min(Faults) = 0 => SafeRestart = 0
         /\ Min(Faults) > 0 => SafeRestart = Min(Faults) - 1
<1>1. Faults \in SUBSET Nat
  BY ToHeightIsInt DEF Faults, StreamInv, TypeOK
<1>2. Min(Faults) \in Faults /\ \A f \in Faults : Min(Faults) <= f
  BY <1>1, MinOfNats
<1>3. ASSUME NEW f \in Nat
      PROVE  /\ f = 0 => Max({f - 1, 0}) = 0
             /\ f > 0 => Max({f - 1, 0}) = f - 1
  BY DEF Max
<1>4. Min(Faults) \in Nat
  BY <1>1, <1>2
<1>5. QED
  BY <1>1, <1>2, <1>3, <1>4 DEF SafeRestart

\* A reset goes back behind a block that is there, and a task that is behind a
\* replaced block goes back to below it.
LEMMA DetectLinks ==
  ASSUME StreamInv, ChainInv, LinkInv, DetectReset
  PROVE  LinkInv'
<1>1. /\ UNCHANGED <<dbVars, current, lastHash, batch, sent, chan, clientVars, drops>>
      /\ pc = "poll" /\ pc' = "reset" /\ Faults # {} /\ safeHeight' = SafeRestart
  BY DEF DetectReset
<1>2. Delivered' = Delivered /\ Chain' = Chain /\ Batched' = Batched
  BY <1>1 DEF dbVars, clientVars, Delivered, Batched, Chain, Known, Meta
<1>3. /\ Min(Faults) \in Faults /\ \A f \in Faults : Min(Faults) <= f
      /\ Faults \subseteq Nat
      /\ Min(Faults) = 0 => SafeRestart = 0
      /\ Min(Faults) > 0 => SafeRestart = Min(Faults) - 1
  BY <1>1, RestartHeight
<1>4. \A f \in Faults : \E b \in Fetched : f <= b.height
  <2>1. ASSUME NEW f \in Faults
        PROVE  \E b \in Fetched : f <= b.height
    <3>1. Gap(f) \/ Present(f)
      BY DEF Faults, Mismatch
    <3>2. f \in Nat
      BY <1>3
    <3>3. QED
      BY <3>1, <3>2, FetchedReady DEF Gap, Present, BlockRow
  <2>2. QED
    BY <2>1
<1>5. Covered(SafeRestart)
  <2>1. PICK b \in Fetched : Min(Faults) <= b.height
    BY <1>3, <1>4
  <2>2. b \in Known /\ b.height \in Nat
    BY FetchedReady DEF Fetched, BlocksInRange, Known, BlockRow
  <2>3. Meta(b) \in Chain /\ Meta(b)[1] = b.height
    BY <2>2 DEF Chain, Meta
  <2>4. Min(Faults) \in Nat
    BY <1>3
  <2>5. CASE Min(Faults) = 0
    BY <1>3, <2>5 DEF Covered
  <2>6. CASE Min(Faults) > 0
    <3>1. SafeRestart < Meta(b)[1]
      BY <1>3, <2>1, <2>2, <2>3, <2>4, <2>6
    <3>2. QED
      BY <2>3, <3>1 DEF Covered
  <2>7. QED
    BY <2>4, <2>5, <2>6
<1>6. reorgs' = 0 => AllOnChain'
  BY <1>1, <1>2 DEF LinkInv, AllOnChain, dbVars, Meta
<1>7. drops' = 0 => ResetsOnly'
  BY <1>1, <1>2 DEF LinkInv, ResetsOnly, clientVars
<1>8. reorgs' = 0 /\ drops' = 0 => RestartsCovered'
  BY <1>1, <1>2, <1>5 DEF LinkInv, RestartsCovered, Covered, dbVars, clientVars
<1>9. ASSUME OneShallow'
      PROVE  \E o \in Nat \X Hash \X Nat : Replaced(o)'
  <2>1. OneShallow
    BY <1>1, <1>9 DEF OneShallow, dbVars
  <2>2. PICK o \in Nat \X Hash \X Nat : Replaced(o)
    BY <2>1 DEF LinkInv
  <2>3. ASSUME ResetIsDue(o)
        PROVE  ResetIsDue(o)'
    <3>1. current = o[1] + 1 /\ lastHash = o[2] /\ current \in Nat
      BY <1>1, <2>3 DEF ResetIsDue, StreamInv, TypeOK
    <3>2. PICK b \in Fetched : Min(Faults) <= b.height
      BY <1>3, <1>4
    <3>3. Min(Faults) \in current .. ToHeight
      BY <1>3 DEF Faults
    <3>4. b.height \in Nat /\ current <= b.height /\ b.height <= ToHeight
      BY FetchedReady DEF BlockRow
    <3>5. current \in current .. ToHeight
      BY <3>1, <3>4, ToHeightIsInt
    <3>6. Gap(current) \/ Mismatch(current)
      <4>1. CASE Present(current)
        BY <2>2, <3>1, <4>1, OrphanIsMismatch
      <4>2. CASE ~Present(current)
        BY <3>1, <3>4, <4>2 DEF Gap, Present
      <4>3. QED
        BY <4>1, <4>2
    <3>7. current \in Faults
      BY <3>5, <3>6 DEF Faults
    <3>8. Min(Faults) = current
      BY <1>3, <3>1, <3>3, <3>7
    <3>9. SafeRestart = o[1]
      BY <1>3, <3>1, <3>8
    <3>10. QED
      BY <1>1, <1>2, <2>3, <3>9 DEF ResetIsDue
  <2>4. Replaced(o)'
    BY <1>1, <1>2, <2>2, <2>3 DEF Replaced, dbVars, Meta
  <2>5. QED
    BY <2>4
<1>10. QED
  BY <1>1, <1>6, <1>7, <1>8, <1>9 DEF LinkInv, BatchDone

\* The reset goes out, and the task ends.
LEMMA ResetLinks ==
  ASSUME StreamInv, LinkInv, SendReset
  PROVE  LinkInv'
<1> DEFINE e == [type |-> "control", height |-> safeHeight]
<1>1. /\ chan' = Append(chan, e) /\ pc = "reset" /\ pc' = "off" /\ sent' = <<>> /\ batch' = <<>>
      /\ UNCHANGED <<dbVars, clientVars, drops>>
  BY DEF SendReset, Stop
<1>2. e.type = "control" /\ e.height = safeHeight
  OBVIOUS
<1> HIDE DEF e
<1>3. /\ Len(chan) \in Nat /\ Len(chan') = Len(chan) + 1 /\ chan'[Len(chan) + 1] = e
      /\ \A k \in 1 .. Len(chan) : chan'[k] = chan[k]
      /\ Delivered' \subseteq Delivered
  BY <1>1, <1>2, DeliveredBySend DEF clientVars
<1>4. \A k \in 1 .. Len(chan') : k \in 1 .. Len(chan) \/ chan'[k] = e
  BY <1>3
<1>5. Chain' = Chain /\ Batched' = {}
  BY <1>1, EmptySeq DEF dbVars, Chain, Known, Batched, Meta
<1>6. chan' # <<>>
  BY <1>3, EmptySeq
<1>7. reorgs' = 0 => AllOnChain'
  BY <1>1, <1>3, <1>5 DEF LinkInv, AllOnChain, dbVars
<1>8. drops' = 0 => ResetsOnly'
  BY <1>1, <1>2, <1>3, <1>6 DEF ResetsOnly
<1>9. reorgs' = 0 /\ drops' = 0 => RestartsCovered'
  <2>1. SUFFICES ASSUME reorgs' = 0, drops' = 0
                 PROVE  RestartsCovered'
    OBVIOUS
  <2>2. RestartsCovered
    BY <1>1, <2>1 DEF LinkInv, dbVars
  <2>3. \A s : Covered(s)' <=> Covered(s)
    BY <1>5 DEF Covered
  <2>4. \A k \in 1 .. Len(chan') : chan'[k].type = "control" => Covered(chan'[k].height)
    BY <1>1, <1>2, <1>3, <1>4, <2>2 DEF RestartsCovered
  <2>5. QED
    BY <1>1, <2>2, <2>3, <2>4 DEF RestartsCovered, clientVars
<1>10. ASSUME OneShallow'
       PROVE  \E o \in Nat \X Hash \X Nat : Replaced(o)'
  <2>1. OneShallow /\ drops = 0
    BY <1>1, <1>10 DEF OneShallow, dbVars
  <2>2. PICK o \in Nat \X Hash \X Nat : Replaced(o)
    BY <2>1 DEF LinkInv
  <2>3. \A k \in 1 .. Len(chan) : chan[k].type # "control"
    BY <1>1, <2>1 DEF LinkInv, ResetsOnly
  <2>4. ASSUME ResetIsDue(o)
        PROVE  ResetIsDue(o)'
    <3>1. safeHeight <= o[1]
      BY <1>1, <2>4 DEF ResetIsDue
    <3>2. \A k \in 1 .. Len(chan') : chan'[k].type = "control" => chan'[k].height <= o[1]
      BY <1>2, <1>3, <1>4, <2>3, <3>1
    <3>3. QED
      BY <1>1, <1>3, <1>6, <2>4, <3>2 DEF ResetIsDue
  <2>5. Replaced(o)'
    BY <1>1, <1>3, <1>5, <2>2, <2>4, EmptySeq DEF Replaced, dbVars
  <2>6. QED
    BY <2>5
<1>11. QED
  BY <1>1, <1>7, <1>8, <1>9, <1>10 DEF LinkInv, BatchDone

\* A block is sent.  Once the replaced one is, the task is right behind it.
LEMMA SendLinks ==
  ASSUME StreamInv, LinkInv, SendBundle
  PROVE  LinkInv'
<1> DEFINE b == Head(batch).block
<1>1. /\ pc = "send" /\ batch # <<>> /\ b = batch[1].block /\ b.height = current
      /\ batchTail = batch[Len(batch)].block.hash /\ current \in Nat
      /\ Len(batch) \in Nat \ {0} /\ Len(Tail(batch)) = Len(batch) - 1
      /\ \A i \in 1 .. Len(Tail(batch)) : Tail(batch)[i] = batch[i + 1]
  BY HeadTailProperties, EmptySeq DEF SendBundle, StreamInv, TypeOK, BatchFollows
<1>2. /\ UNCHANGED <<dbVars, batchTail, safeHeight, clientVars, drops>>
      /\ current' = b.height + 1 /\ sent' = Append(sent, b) /\ batch' = Tail(batch)
      /\ pc' \in {"poll", "send"}
      /\ Len(batch) = 1 => pc' = "poll" /\ lastHash' = batchTail
      /\ pc' = "poll" => Len(batch) = 1
  BY <1>1 DEF SendBundle
<1>3. /\ \A k \in 1 .. Len(chan') :
           chan'[k].type # "control" \/ (k \in 1 .. Len(chan) /\ chan'[k] = chan[k])
      /\ Delivered' \subseteq Delivered \cup {Meta(b)}
  <2>1. CASE UNCHANGED chan
    BY <1>2, <2>1 DEF Delivered, clientVars, Meta
  <2> DEFINE e == [type |-> "block", bundle |-> [Head(batch) EXCEPT !.items = Retained(Head(batch))]]
  <2>2. CASE chan' = Append(chan, e)
    <3>1. e.type = "block" /\ e.bundle = [Head(batch) EXCEPT !.items = Retained(Head(batch))]
      OBVIOUS
    <3>2. Head(batch) \in Bundle
      BY <1>1, HeadTailProperties DEF StreamInv, TypeOK
    <3>3. e.bundle.block = b
      BY <3>1, <3>2 DEF Bundle
    <3> HIDE DEF e
    <3>4. /\ Len(chan) \in Nat /\ Len(chan') = Len(chan) + 1 /\ chan'[Len(chan) + 1] = e
          /\ \A k \in 1 .. Len(chan) : chan'[k] = chan[k]
          /\ Delivered' \subseteq
               Delivered \cup {Meta(c) : c \in {d \in {e.bundle.block} : e.type = "block"}}
      BY <1>2, <2>2, DeliveredBySend DEF clientVars
    <3>5. \A k \in 1 .. Len(chan') : k \in 1 .. Len(chan) \/ chan'[k] = e
      BY <3>4
    <3>6. QED
      BY <3>1, <3>3, <3>4, <3>5
  <2>3. QED
    BY <2>1, <2>2 DEF SendBundle
<1>4. /\ Meta(b) \in Batched /\ Batched' \subseteq Batched
      /\ \A i \in 1 .. Len(batch') : batch'[i] = batch[i + 1] /\ i + 1 \in 1 .. Len(batch)
      /\ Len(batch') = Len(batch) - 1
  <2>1. 1 \in 1 .. Len(batch)
    BY <1>1
  <2>2. \A i \in 1 .. Len(batch') : batch'[i] = batch[i + 1] /\ i + 1 \in 1 .. Len(batch)
    BY <1>1, <1>2
  <2>3. QED
    BY <1>1, <1>2, <2>1, <2>2 DEF Batched, Meta
<1>5. b \in BlockRow /\ sent' # <<>> /\ Last(sent') = b
  <2>1. Head(batch) \in Bundle
    BY <1>1, HeadTailProperties DEF StreamInv, TypeOK
  <2>2. b \in BlockRow /\ sent \in Seq(BlockRow)
    BY <2>1 DEF Bundle, StreamInv, TypeOK
  <2>3. QED
    BY <1>2, <2>2 DEF Last
<1>6. Chain' = Chain
  BY <1>2 DEF dbVars, Chain, Known, Meta
<1>7. Meta(b)[1] = current /\ Meta(b)[2] = b.hash
  BY <1>1 DEF Meta
<1> HIDE DEF b
<1>8. reorgs' = 0 => AllOnChain'
  BY <1>2, <1>3, <1>4, <1>5, <1>6 DEF LinkInv, AllOnChain, dbVars, Meta
<1>9. drops' = 0 => ResetsOnly'
  <2>1. SUFFICES ASSUME drops = 0
                 PROVE  ResetsOnly'
    BY <1>2
  <2>2. ResetsOnly
    BY <2>1 DEF LinkInv
  <2>3. \A k \in 1 .. Len(chan') : chan'[k].type # "control"
    BY <1>1, <1>3, <2>2 DEF ResetsOnly
  <2>4. \A d \in Delivered' : d[1] < current'
    <3>1. Delivered \subseteq Nat \X Nat \X Nat
      BY MetaTypes
    <3>2. \A d \in Delivered : d[1] \in Nat /\ d[1] < current
      BY <1>1, <2>2, <3>1 DEF ResetsOnly
    <3>3. QED
      BY <1>1, <1>2, <1>3, <1>7, <3>2
  <2>5. QED
    BY <1>2, <1>5, <2>3, <2>4 DEF ResetsOnly
<1>10. reorgs' = 0 /\ drops' = 0 => RestartsCovered'
  <2>1. \A s : Covered(s)' <=> Covered(s)
    BY <1>6 DEF Covered
  <2>2. QED
    BY <1>2, <1>3, <2>1 DEF LinkInv, RestartsCovered, dbVars, clientVars
<1>11. ASSUME OneShallow'
       PROVE  \E o \in Nat \X Hash \X Nat : Replaced(o)'
  <2>1. OneShallow /\ drops = 0
    BY <1>2, <1>11 DEF OneShallow, dbVars
  <2>2. PICK o \in Nat \X Hash \X Nat : Replaced(o)
    BY <2>1 DEF LinkInv
  <2>3. o \notin Delivered
    BY <1>1, <2>2 DEF Replaced, ResetIsDue
  <2>4. ASSUME o \in Delivered'
        PROVE  ResetIsDue(o)'
    <3>1. Meta(b) = o
      BY <1>3, <2>3, <2>4
    <3>2. Len(batch) = 1
      <4>1. 1 \in 1 .. Len(batch) /\ Meta(batch[1].block) = o
        BY <1>1, <3>1
      <4>2. QED
        BY <2>2, <4>1 DEF Replaced
    <3>3. pc' = "poll" /\ lastHash' = o[2] /\ current' = o[1] + 1
      BY <1>1, <1>2, <1>7, <3>1, <3>2
    <3>4. \A d \in Delivered' : d = o \/ d[1] < o[1]
      BY <1>1, <1>3, <1>7, <2>1, <3>1 DEF LinkInv, ResetsOnly
    <3>5. QED
      BY <3>3, <3>4 DEF ResetIsDue
  <2>5. \A i \in 1 .. Len(batch') : Meta(batch'[i].block) = o => i = Len(batch')
    <3>1. SUFFICES ASSUME NEW i \in 1 .. Len(batch'), Meta(batch'[i].block) = o
                   PROVE  i = Len(batch')
      BY DEF Meta
    <3>2. i + 1 \in 1 .. Len(batch) /\ Meta(batch[i + 1].block) = o
      BY <1>4, <3>1
    <3>3. i + 1 = Len(batch)
      BY <2>2, <3>2 DEF Replaced
    <3>4. Len(batch) \in Nat /\ Len(batch') = Len(batch) - 1
      BY <1>1, <1>4
    <3>5. QED
      BY <3>3, <3>4
  <2>6. Delivered' \subseteq Chain' \cup {o} /\ Batched' \subseteq Chain' \cup {o}
    BY <1>3, <1>4, <1>6, <2>2 DEF Replaced
  <2>7. Replaced(o)'
    BY <1>2, <1>6, <2>2, <2>4, <2>5, <2>6 DEF Replaced, dbVars, Meta
  <2>8. QED
    BY <2>7
<1>12. BatchDone'
  <2>1. ASSUME pc' # "send"
        PROVE  batch' = <<>>
    <3>1. Len(batch') = 0 /\ batch' \in Seq(Bundle)
      BY <1>1, <1>2, <1>4, <2>1, HeadTailProperties DEF StreamInv, TypeOK
    <3>2. QED
      BY <3>1, EmptySeq
  <2>2. QED
    BY <2>1 DEF BatchDone
<1>13. QED
  BY <1>8, <1>9, <1>10, <1>11, <1>12 DEF LinkInv

\* After a connection that failed, only a chain that was never reorganised says
\* something about what the client has.
LEMMA DropLinks ==
  ASSUME StreamInv, LinkInv, Drop, UNCHANGED dbVars, Delivered' \subseteq Delivered
  PROVE  LinkInv'
<1>1. /\ sent' = <<>> /\ batch' = <<>> /\ pc' = "off" /\ drops \in Nat /\ drops' = drops + 1
  BY DEF Drop, Stop, StreamInv, TypeOK
<1>2. Chain' = Chain /\ Batched' = {}
  BY <1>1, EmptySeq DEF dbVars, Chain, Known, Batched, Meta
<1>3. reorgs' = 0 => AllOnChain'
  BY <1>1, <1>2 DEF LinkInv, AllOnChain, dbVars
<1>4. QED
  BY <1>1, <1>3 DEF LinkInv, BatchDone, OneShallow

\* A client that comes back after a reset starts where it was told to.
LEMMA ConnectLinks ==
  ASSUME StreamInv, LinkInv, Connect
  PROVE  LinkInv'
<1>1. /\ pc = "off" /\ chan = <<>> /\ pc' = "poll" /\ sent = <<>>
      /\ UNCHANGED <<dbVars, batch, sent, chan, clientVars, drops>>
      /\ cursor = NoCursor => current' = restartAt
  BY DEF Connect, StreamInv, OffIsClean
<1>2. Delivered' = Delivered /\ Chain' = Chain /\ Batched' = Batched
  BY <1>1 DEF dbVars, clientVars, Delivered, Batched, Chain, Known, Meta
<1>3. Len(chan') = 0
  BY <1>1, EmptySeq
<1>4. reorgs' = 0 => AllOnChain'
  BY <1>1, <1>2 DEF LinkInv, AllOnChain, dbVars
<1>5. drops' = 0 => ResetsOnly'
  BY <1>1, <1>2, <1>3 DEF LinkInv, ResetsOnly, clientVars
<1>6. reorgs' = 0 /\ drops' = 0 => RestartsCovered'
  BY <1>1, <1>2, <1>3 DEF LinkInv, RestartsCovered, Covered, dbVars, clientVars
<1>7. ASSUME NEW o \in Nat \X Hash \X Nat, Replaced(o)
      PROVE  Replaced(o)'
  <2>1. o \notin Delivered
    BY <1>1, <1>7 DEF Replaced, ResetIsDue
  <2>2. QED
    BY <1>1, <1>2, <1>7, <2>1 DEF Replaced, dbVars, Meta
<1>8. QED
  BY <1>1, <1>4, <1>5, <1>6, <1>7 DEF LinkInv, BatchDone, OneShallow, dbVars

\* The client drops what the reset tells it to.
LEMMA DroppedByReset ==
  ASSUME StreamInv, LinkInv, ReceiveReset
  PROVE  LinkInv'
<1> DEFINE s == Head(chan).height
<1>1. /\ chan # <<>> /\ Head(chan).type = "control" /\ chan' = <<>>
      /\ held' = {x \in held : x.height < s} /\ cursor' = NoCursor /\ restartAt' = s
      /\ UNCHANGED <<dbVars, streamVars, drops>>
  BY DEF ReceiveReset
<1>2. Head(chan) = chan[1] /\ 1 \in 1 .. Len(chan)
  BY <1>1, HeadTailProperties, EmptySeq DEF StreamInv, TypeOK
<1>3. Len(chan') = 0
  BY <1>1, EmptySeq
<1>4. Delivered' \subseteq Delivered /\ \A d \in Delivered' : d[1] < s
  BY <1>1, <1>3 DEF Delivered, Meta
<1>5. Chain' = Chain /\ Batched' = Batched
  BY <1>1 DEF dbVars, streamVars, Batched, Chain, Known, Meta
<1>6. drops = 0 => pc = "off"
  BY <1>1, <1>2 DEF LinkInv, ResetsOnly
<1>7. reorgs' = 0 => AllOnChain'
  BY <1>1, <1>4, <1>5 DEF LinkInv, AllOnChain, dbVars, streamVars, Meta
<1>8. drops' = 0 => ResetsOnly'
  BY <1>1, <1>4, <1>6 DEF ResetsOnly, streamVars
<1>9. reorgs' = 0 /\ drops' = 0 => RestartsCovered'
  BY <1>1, <1>2, <1>3, <1>5 DEF LinkInv, RestartsCovered, Covered, dbVars, streamVars
<1>10. ASSUME OneShallow'
       PROVE  \E o \in Nat \X Hash \X Nat : Replaced(o)'
  <2>1. OneShallow /\ drops = 0
    BY <1>1, <1>10 DEF OneShallow, dbVars
  <2>2. PICK o \in Nat \X Hash \X Nat : Replaced(o)
    BY <2>1 DEF LinkInv
  <2>3. o \notin Delivered'
    <3>1. SUFFICES ASSUME o \in Delivered'
                   PROVE  FALSE
      OBVIOUS
    <3>2. s <= o[1]
      BY <1>1, <1>2, <1>4, <1>6, <2>1, <2>2, <3>1 DEF Replaced, ResetIsDue
    <3>3. s \in Nat
      <4>1. Head(chan) \in Event
        BY <1>1, HeadTailProperties DEF StreamInv, TypeOK
      <4>2. QED
        BY <1>1, <4>1 DEF Event
    <3>4. QED
      BY <1>4, <3>1, <3>2, <3>3
  <2>4. Replaced(o)'
    BY <1>1, <1>4, <1>5, <2>2, <2>3 DEF Replaced, dbVars, streamVars, Meta
  <2>5. QED
    BY <2>4
<1>11. QED
  BY <1>1, <1>7, <1>8, <1>9, <1>10 DEF LinkInv, BatchDone, streamVars

\* The client stores items of a block that was on its way to it.
LEMMA StoreIsDelivered ==
  ASSUME StreamInv, chan # <<>>, Head(chan).type = "block",
         NEW i, Store(Head(chan).bundle, i), NEW x \in held'
  PROVE  x \in held \/ Meta(x) = Meta(Head(chan).bundle.block)
BY DEF Store, ItemOf, Meta

\* A reset on the wire of an ended connection is its last event, and an event
\* received before it leaves it there.
LEMMA ReceiveLinks ==
  ASSUME StreamInv, LinkInv, ReceiveBlock \/ ReceiveHeartbeat
  PROVE  LinkInv'
<1>1. /\ chan # <<>> /\ chan' = Tail(chan) /\ Head(chan).type # "control"
      /\ UNCHANGED <<dbVars, streamVars, restartAt, drops>>
  BY DEF ReceiveBlock, ReceiveHeartbeat, Store, clientVars
<1>2. \A x \in held' : x \in held \/
        (Head(chan).type = "block" /\ Meta(x) = Meta(Head(chan).bundle.block))
  BY <1>1, StoreIsDelivered DEF ReceiveBlock, ReceiveHeartbeat, clientVars
<1>3. /\ Head(chan) = chan[1] /\ Len(chan) \in Nat \ {0} /\ Len(chan') = Len(chan) - 1
      /\ \A k \in 1 .. Len(chan') : chan'[k] = chan[k + 1]
      /\ Delivered' \subseteq Delivered
  BY <1>1, <1>2, DeliveredByReceive
<1>4. \A k \in 1 .. Len(chan') : chan'[k].type = "control" =>
        \E j \in 1 .. Len(chan) : chan[j].type = "control" /\ chan[j].height = chan'[k].height
  <2>1. \A k \in 1 .. Len(chan') : k + 1 \in 1 .. Len(chan)
    BY <1>3
  <2>2. QED
    BY <1>3, <2>1
<1>5. ASSUME drops = 0, pc = "off"
      PROVE  chan' # <<>> /\ chan'[Len(chan')].type = "control"
  <2>1. chan[Len(chan)].type = "control"
    BY <1>1, <1>5 DEF LinkInv, ResetsOnly
  <2>2. Len(chan) # 1
    BY <1>1, <1>3, <2>1
  <2>3. Len(chan') \in 1 .. Len(chan') /\ Len(chan') + 1 = Len(chan)
    BY <1>3, <2>2
  <2>4. chan'[Len(chan')] = chan[Len(chan)]
    BY <1>3, <2>3
  <2>5. QED
    BY <2>1, <2>3, <2>4, EmptySeq
<1>6. QED
  BY <1>1, <1>3, <1>4, <1>5, QuietStep DEF streamVars

\* Time passes, or a heartbeat is sent.
LEMMA HeartbeatLinks ==
  ASSUME StreamInv, LinkInv, Heartbeat \/ Tick \/ UNCHANGED vars
  PROVE  LinkInv'
<1>1. CASE UNCHANGED <<dbVars, pc, current, lastHash, batch, safeHeight, sent, chan, clientVars,
                       drops>>
  <2>1. Delivered' = Delivered
    BY <1>1 DEF Delivered, clientVars, Meta
  <2>2. drops = 0 /\ pc = "off" /\ chan # <<>> => chan[Len(chan)].type = "control"
    BY DEF LinkInv, ResetsOnly
  <2>3. QED
    BY <1>1, <2>1, <2>2, QuietStep DEF clientVars
<1>2. CASE Heartbeat
  <2> DEFINE e == [type |-> "heartbeat", height |-> current]
  <2>1. /\ chan' = Append(chan, e) /\ pc = "poll"
        /\ UNCHANGED <<dbVars, pc, current, lastHash, batch, safeHeight, sent, clientVars, drops>>
    BY <1>2 DEF Heartbeat, HeartbeatDue, Waiting
  <2>2. e.type = "heartbeat"
    OBVIOUS
  <2> HIDE DEF e
  <2>3. /\ Len(chan) \in Nat /\ Len(chan') = Len(chan) + 1 /\ chan'[Len(chan) + 1] = e
        /\ \A k \in 1 .. Len(chan) : chan'[k] = chan[k]
        /\ Delivered' \subseteq Delivered
    BY <2>1, <2>2, DeliveredBySend DEF clientVars
  <2>4. \A k \in 1 .. Len(chan') : k \in 1 .. Len(chan) \/ chan'[k] = e
    BY <2>3
  <2>5. \A k \in 1 .. Len(chan') : chan'[k].type = "control" =>
          \E j \in 1 .. Len(chan) : chan[j].type = "control" /\ chan[j].height = chan'[k].height
    BY <2>2, <2>3, <2>4
  <2>6. QED
    BY <2>1, <2>3, <2>5, QuietStep DEF clientVars
<1>3. CASE Tick
  BY <1>1, <1>3 DEF Tick
<1>4. CASE UNCHANGED vars
  BY <1>1, <1>4 DEF vars, streamVars
<1>5. QED
  BY <1>2, <1>3, <1>4

LEMMA FailureLinks ==
  ASSUME StreamInv, LinkInv, SendTimeout \/ StreamError \/ Disconnect
  PROVE  LinkInv'
<1>1. Drop /\ UNCHANGED dbVars
  BY DEF SendTimeout, StreamError, Disconnect
<1>2. CASE SendTimeout \/ StreamError
  BY <1>1, <1>2, DropLinks DEF SendTimeout, StreamError, Delivered, clientVars, Meta
<1>3. CASE Disconnect
  <2>1. Len(chan') = 0
    BY <1>3, EmptySeq DEF Disconnect
  <2>2. \A x \in held' : x \in held \/
          (chan # <<>> /\ Head(chan).type = "block" /\ Meta(x) = Meta(Head(chan).bundle.block))
    BY <1>3, StoreIsDelivered DEF Disconnect, clientVars
  <2>3. chan # <<>> => Head(chan) = chan[1] /\ 1 \in 1 .. Len(chan)
    BY HeadTailProperties, EmptySeq DEF StreamInv, TypeOK
  <2>4. Delivered' \subseteq Delivered
    BY <2>1, <2>2, <2>3 DEF Delivered, Meta
  <2>5. QED
    BY <1>1, <2>4, DropLinks
<1>4. QED
  BY <1>2, <1>3

LEMMA LinkStep == StreamInv /\ ChainInv /\ LinkInv /\ [Next]_vars => LinkInv'
<1> SUFFICES ASSUME StreamInv, ChainInv, LinkInv, [Next]_vars
             PROVE  LinkInv'
  OBVIOUS
<1>1. CASE Db
  BY <1>1, DbLinks
<1>2. CASE Tick \/ Heartbeat \/ UNCHANGED vars
  BY <1>2, HeartbeatLinks
<1>3. CASE FetchBatch \/ DetectReset \/ SendReset \/ SendBundle
  BY <1>3, FetchLinks, DetectLinks, ResetLinks, SendLinks
<1>4. CASE SendTimeout \/ StreamError \/ Disconnect
  BY <1>4, FailureLinks
<1>5. CASE Connect
  BY <1>5, ConnectLinks
<1>6. CASE ReceiveBlock \/ ReceiveHeartbeat
  BY <1>6, ReceiveLinks
<1>7. CASE ReceiveReset
  BY <1>7, DroppedByReset
<1>8. QED
  BY <1>1, <1>2, <1>3, <1>4, <1>5, <1>6, <1>7 DEF Next, Stream, Client

LEMMA LinkInit == Init => LinkInv
<1> SUFFICES ASSUME Init
             PROVE  LinkInv
  OBVIOUS
<1>1. /\ pc = "off" /\ batch = <<>> /\ chan = <<>> /\ sent = <<>> /\ held = {}
      /\ restartAt = 0 /\ cursor = NoCursor /\ reorgs = 0
  BY DEF Init, DbInit
<1>2. Len(chan) = 0 /\ Len(batch) = 0
  BY <1>1, EmptySeq
<1>3. Delivered = {} /\ Batched = {}
  BY <1>1, <1>2 DEF Delivered, Batched
<1>4. BatchDone /\ AllOnChain /\ ResetsOnly /\ RestartsCovered
  BY <1>1, <1>2, <1>3 DEF BatchDone, AllOnChain, ResetsOnly, RestartsCovered, Covered
<1>5. QED
  BY <1>1, <1>4 DEF LinkInv, OneShallow

\* Blocks that are on the chain are linked.
LEMMA ChainIsLinked ==
  ASSUME ChainInv, StreamInv, NEW c \in Chain, NEW d \in Chain
  PROVE  /\ c[1] = d[1] => c[2] = d[2]
         /\ c[1] + 1 = d[1] => d[3] = c[2]
<1>1. PICK a \in Known, b \in Known : c = Meta(a) /\ d = Meta(b)
  BY DEF Chain
<1>2. c[1] = a.height /\ c[2] = a.hash /\ d[1] = b.height /\ d[2] = b.hash /\ d[3] = b.parent
  BY <1>1 DEF Meta
<1>3. a.height \in Nat /\ b.height \in Nat
  BY DEF StreamInv, TypeOK, DbTypeOK, Known, BlockRow
<1>4. QED
  BY <1>2, <1>3 DEF ChainInv

\* The blocks of which the client holds items lie on one chain, for every size
\* of the batch and of the channel: over any connections that fail and any late
\* rows while no block was replaced, and through one reorganisation of the last
\* block when the client stays connected until its reset has arrived.  (Beyond
\* that the code does not keep it: a new connection takes the block below its
\* cursor from the new fork.)
THEOREM ClientStaysLinked == Spec => [](reorgs = 0 \/ OneShallow => ClientLinked)
<1>1. ASSUME StreamInv, ChainInv, LinkInv, reorgs = 0 \/ OneShallow,
             NEW i \in held, NEW j \in held
      PROVE  /\ i.height = j.height => i.hash = j.hash
             /\ i.height + 1 = j.height => j.parent = i.hash
  <2>1. /\ Meta(i) \in Delivered /\ Meta(i)[1] = i.height /\ Meta(i)[2] = i.hash
        /\ Meta(j) \in Delivered /\ Meta(j)[1] = j.height /\ Meta(j)[2] = j.hash
        /\ Meta(j)[3] = j.parent
    BY DEF Delivered, Meta
  <2>2. i.height \in Nat /\ j.height \in Nat
    BY <1>1 DEF StreamInv, TypeOK, Item
  <2>3. CASE Meta(i) \in Chain /\ Meta(j) \in Chain
    BY <1>1, <2>1, <2>3, ChainIsLinked
  <2>4. CASE ~(Meta(i) \in Chain /\ Meta(j) \in Chain)
    <3>1. OneShallow
      BY <1>1, <2>1, <2>4 DEF LinkInv, AllOnChain
    <3>2. PICK o \in Nat \X Hash \X Nat : Replaced(o)
      BY <1>1, <3>1 DEF LinkInv
    <3>3. /\ Meta(i) \in Chain \/ Meta(i) = o
          /\ Meta(j) \in Chain \/ Meta(j) = o
      BY <2>1, <3>2 DEF Replaced
    <3>4. \A d \in Delivered : d = o \/ d[1] < o[1]
      BY <2>1, <2>4, <3>2, <3>3 DEF Replaced, ResetIsDue
    <3>5. CASE Meta(i) = o
      BY <2>1, <2>2, <3>4, <3>5
    <3>6. CASE Meta(i) \in Chain /\ Meta(j) = o
      <4>1. PICK c \in Chain : c[1] + 1 = o[1] /\ c[2] = o[3]
        BY <3>2 DEF Replaced
      <4>2. c[1] \in Nat
        BY <1>1, MetaTypes
      <4>3. i.height + 1 = j.height => Meta(i)[1] = c[1]
        BY <2>1, <2>2, <3>6, <4>1, <4>2
      <4>4. Meta(i)[1] = c[1] => Meta(i)[2] = c[2]
        BY <1>1, <3>6, ChainIsLinked
      <4>5. i.height # j.height \/ Meta(i) = o
        BY <2>1, <2>2, <3>4, <3>6
      <4>6. QED
        BY <2>1, <3>6, <4>1, <4>3, <4>4, <4>5
    <3>7. QED
      BY <2>4, <3>3, <3>5, <3>6
  <2>5. QED
    BY <2>3, <2>4
<1>2. StreamInv /\ ChainInv /\ LinkInv => (reorgs = 0 \/ OneShallow => ClientLinked)
  BY <1>1 DEF ClientLinked
<1>3. Init => ChainInv
  BY BoundsAssumption DEF Init, DbInit, ChainInv, Known
<1>4. QED
  BY <1>2, <1>3, LinkInit, LinkStep, ChainStays, StreamInvariant, PTL DEF Spec
=============================================================================
