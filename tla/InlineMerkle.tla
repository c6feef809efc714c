---------------------------- MODULE InlineMerkle ----------------------------
(***************************************************************************)
(* The collapsed merkle updates that build_block_bundles_tx puts before    *)
(* the relevant transactions of the SSE stream (src/sidecar/src/routes/    *)
(* subscribe.rs), fetch_merkle_updates of graphql_ws.rs behind it, and a   *)
(* client that applies the items one by one and resumes with the cursor of *)
(* the last one it applied.                                                *)
(*                                                                         *)
(* The cache is seen through what Merkle_proofs shows of a reply: on a hit *)
(* its updates tile the range, in any number; how they cut it may change   *)
(* from one lookup to the next, for the table grows.                       *)
(***************************************************************************)
EXTENDS Integers, Sequences, SequencesExt

CONSTANTS
  MaxTxs,      \* bound: transactions
  MaxSize,     \* bound: commitments of a transaction
  MaxDrops,    \* bound: connections that fail
  MaxFailures, \* bound: fetches that fail or time out
  CacheHits    \* how a lookup in the cache may end: {TRUE}, {FALSE} or both

ASSUME InlineAssumption ==
  /\ {MaxTxs, MaxSize, MaxDrops, MaxFailures} \subseteq Nat
  /\ CacheHits \subseteq BOOLEAN /\ CacheHits # {}

VARIABLES
  txs,        \* the ready transactions, with their commitments
  at,         \* the transaction whose items are built next, 0 without stream
  pos,        \* last_merkle_end_index
  fromCursor, \* from_cursor of the stream
  wire,       \* items sent and not yet applied
  cursor,     \* the client's cursor
  covered,    \* the commitment indices that are in the client's tree
  answers,    \* history: how many updates came whenever some were needed
  drops, failures

inlineVars == <<txs, at, pos, fromCursor, wire, cursor, covered, answers, drops, failures>>

\* Sequence keys <<transaction, ordinal>>: the n updates before a transaction
\* count from -n to -1, every other item of it sorts after its updates and itself.
NoCursor == <<0, 0>>
OrdTx == 1
OrdOther == 2

Tx == [block : 1 .. MaxTxs, start : Nat, end : Nat, relevant : BOOLEAN]
UpdateOrd == {ord \in Int : ord < 0}

Update == [kind : {"update"}, tx : 1 .. MaxTxs, ord : UpdateOrd, first : Nat, last : Nat]
Item == Update \cup [kind : {"tx", "other"}, tx : 1 .. MaxTxs, ord : {OrdTx, OrdOther}]

InlineTypeOK ==
  /\ txs \in Seq(Tx)
  /\ at \in 0 .. MaxTxs + 1
  /\ pos \in Nat \cup {-1}
  /\ fromCursor \in (0 .. MaxTxs) \X Int
  /\ wire \in Seq(Item)
  /\ cursor \in (0 .. MaxTxs) \X Int
  /\ covered \subseteq Nat
  /\ answers \subseteq Nat
  /\ drops \in 0 .. MaxDrops
  /\ failures \in 0 .. MaxFailures

InlineInit ==
  /\ txs = <<>>
  /\ at = 0
  /\ pos = -1
  /\ fromCursor = NoCursor
  /\ wire = <<>>
  /\ cursor = NoCursor
  /\ covered = {}
  /\ answers = {}
  /\ drops = 0
  /\ failures = 0

-----------------------------------------------------------------------------
(* The chain and the wallet-indexer (external).                            *)

NextStart == IF txs = <<>> THEN 0 ELSE Last(txs).end

\* A transaction becomes ready: in the last block, which the stream has not
\* built yet, or in a new one.
AddTx ==
  /\ Len(txs) < MaxTxs
  /\ \E size \in 1 .. MaxSize, relevant \in BOOLEAN, new \in {0, 1} :
       /\ txs = <<>> => new = 1
       /\ new = 0 => at < Len(txs) + 1
       /\ txs' = Append(txs,
            [block    |-> new + (IF txs = <<>> THEN 0 ELSE Last(txs).block),
             start    |-> NextStart,
             end      |-> NextStart + size,
             relevant |-> relevant])
  /\ UNCHANGED <<at, pos, fromCursor, wire, cursor, covered, answers, drops, failures>>

-----------------------------------------------------------------------------
(* The stream.                                                             *)

T == txs[at]

\* Mutant of NeedUpdate: a fresh sync needs none.
NeedUpdateLater == pos >= 0 /\ T.start > pos

NeedUpdate == IF pos < 0 THEN T.start > 0 ELSE T.start > pos

\* Mutant of FromIndex: the position before the first transaction is not 0.
FromIndexRaw == pos

FromIndex == IF pos < 0 THEN 0 ELSE pos

UpdateItem(ord, first, last) ==
  [kind |-> "update", tx |-> at, ord |-> ord, first |-> first, last |-> last]

WholeUpdate == <<UpdateItem(-1, FromIndex, T.start - 1)>>

\* The bounds between n ranges that make up the gap.
Cuts(n) ==
  {c \in [1 .. n - 1 -> FromIndex + 1 .. T.start - 1] :
     \A i, j \in 1 .. n - 1 : i < j => c[i] < c[j]}

\* Where the i-th of the n ranges ends, and the next one starts.
Bound(c, i, n) == IF i = 0 THEN FromIndex ELSE IF i = n THEN T.start ELSE c[i]

CutUpdates(c, n) ==
  [k \in 1 .. n |-> UpdateItem(k - n - 1, Bound(c, k - 1, n), Bound(c, k, n) - 1)]

\* The updates of a cache hit: any cut of the gap.
HitUpdates == UNION {{CutUpdates(c, n) : c \in Cuts(n)} : n \in 1 .. T.start - FromIndex}

\* Upstream sends the next relevant transaction from the index on, with the
\* update before it; fetch_merkle_updates takes it if that transaction is T.
UpstreamAnswers ==
  \A i \in 1 .. Len(txs) : txs[i].relevant /\ txs[i].start >= FromIndex => txs[i].start >= T.start

FetchedUpdates == IF UpstreamAnswers THEN WholeUpdate ELSE <<>>

\* The one-off filter of the block of the cursor, which is the first one.
Passes(item) ==
  \/ item.tx > fromCursor[1]
  \/ item.tx = fromCursor[1] /\ item.ord > fromCursor[2]

\* The items of a transaction are in order, so what passes is the end of them.
Send(items) ==
  \E n \in 1 .. Len(items) + 1 :
    /\ \A k \in DOMAIN items : Passes(items[k]) <=> k >= n
    /\ wire' = wire \o SubSeq(items, n, Len(items))

\* Mutant of NewPosition: the commitments of the transaction itself are left out.
NewPositionStart == T.start

NewPosition == T.end

TxItem == [kind |-> "tx", tx |-> at, ord |-> OrdTx]

OtherItem == [kind |-> "other", tx |-> at, ord |-> OrdOther]

\* The items of a relevant transaction, with the updates put before it.
Build(updates) ==
  /\ Send(updates \o <<TxItem>>)
  /\ pos' = NewPosition
  /\ at' = at + 1
  /\ UNCHANGED <<txs, fromCursor, cursor, covered, drops>>

CanBuild == at \in 1 .. Len(txs)

BuildAdjacent ==
  /\ CanBuild /\ T.relevant /\ ~NeedUpdate
  /\ Build(<<>>)
  /\ UNCHANGED <<answers, failures>>

MustUpdate == CanBuild /\ T.relevant /\ NeedUpdate

BuildWith(updates) ==
  /\ Build(updates)
  /\ answers' = answers \cup {Len(updates)}

\* Cache first; on a miss upstream.
BuildWithUpdate ==
  /\ MustUpdate
  /\ \/ TRUE \in CacheHits /\ \E updates \in HitUpdates : BuildWith(updates)
     \/ FALSE \in CacheHits /\ BuildWith(FetchedUpdates)
  /\ UNCHANGED failures

\* The fetch fails or times out: a warning, and the transaction without update.
BuildWithoutUpdate ==
  /\ MustUpdate
  /\ FALSE \in CacheHits
  /\ failures < MaxFailures
  /\ failures' = failures + 1
  /\ BuildWith(<<>>)

\* A transaction that is not the wallet's still brings items: its nullifiers,
\* dust or unshielded events.
BuildOther ==
  /\ CanBuild /\ ~T.relevant
  /\ Send(<<OtherItem>>)
  /\ at' = at + 1
  /\ UNCHANGED <<txs, pos, fromCursor, cursor, covered, answers, drops, failures>>

-----------------------------------------------------------------------------
(* The client (external).                                                  *)

\* Transaction k is the first one of the block that the stream starts with.
StartsWith(k) ==
  IF cursor = NoCursor THEN k = 1
  ELSE /\ txs[k].block = txs[cursor[1]].block
       /\ \A j \in 1 .. k - 1 : txs[j].block < txs[k].block

Connect ==
  /\ at = 0
  /\ \E k \in DOMAIN txs \cup {1} : StartsWith(k) /\ at' = k
  /\ pos' = -1
  /\ fromCursor' = cursor
  /\ UNCHANGED <<txs, wire, cursor, covered, answers, drops, failures>>

\* What an item brings to the tree: a range of hashes, or the commitments of a
\* transaction of the wallet's own.
Indices(item) ==
  CASE item.kind = "update" -> item.first .. item.last
    [] item.kind = "tx"     -> txs[item.tx].start .. txs[item.tx].end - 1
    [] item.kind = "other"  -> {}

\* The client applies an item.
Apply ==
  /\ wire # <<>>
  /\ covered' = covered \cup Indices(Head(wire))
  /\ cursor' = <<Head(wire).tx, Head(wire).ord>>
  /\ wire' = Tail(wire)
  /\ UNCHANGED <<txs, at, pos, fromCursor, answers, drops, failures>>

\* The connection is lost, with what is on the wire.
Drop ==
  /\ at # 0
  /\ drops < MaxDrops
  /\ drops' = drops + 1
  /\ at' = 0
  /\ pos' = -1
  /\ fromCursor' = NoCursor
  /\ wire' = <<>>
  /\ UNCHANGED <<txs, cursor, covered, answers, failures>>

-----------------------------------------------------------------------------
Stream == BuildAdjacent \/ BuildWithUpdate \/ BuildWithoutUpdate \/ BuildOther

InlineNext == AddTx \/ Stream \/ Connect \/ Apply \/ Drop

InlineSpec == InlineInit /\ [][InlineNext]_inlineVars

-----------------------------------------------------------------------------
(* Properties.                                                             *)

\* "so the SSE stream stays self-contained": when a relevant transaction
\* comes, the client's tree has every commitment before it, over reconnections
\* at any item; provided each update that was needed could be had, and came in
\* one piece if the client has resumed.
SelfContained ==
  /\ 0 \notin answers
  /\ (\E n \in answers : n > 1) => drops = 0
  /\ wire # <<>> /\ Head(wire).kind = "tx"
  => 0 .. txs[Head(wire).tx].start - 1 \subseteq covered

\* "sent before shieldedRelevantTx when there's a gap": on one connection an
\* update fills a gap and nothing else, whatever fetches fail; in particular
\* it does not replace the wallet's own commitments, whose paths would be lost.
OnlyGaps ==
  drops = 0 /\ wire # <<>> /\ Head(wire).kind = "update" =>
    (Head(wire).first .. Head(wire).last) \cap covered = {}
=============================================================================
