------------------------------ MODULE ChainDb ------------------------------
(***************************************************************************)
(* The PostgreSQL tables that the sidecar reads and never writes: blocks,  *)
(* transactions and the wallet row that the upstream wallet-indexer keeps  *)
(* for one wallet.  The actions are the upstream indexers seen from the    *)
(* sidecar (external code); the operators below them are the queries of    *)
(* src/sidecar/src/db.rs.                                                  *)
(*                                                                         *)
(* A row of blocks is [height, hash, parent, txs].  A hash is a serial     *)
(* number, so two rows never share one; parent is the hash of the block    *)
(* below (NoHash under the first block).  txs is the set of transactions   *)
(* of the block: [id, relevant], id from the BIGSERIAL of the transactions *)
(* table, relevant saying whether the wallet's viewing key matches it.     *)
(***************************************************************************)
EXTENDS Integers, Sequences, FiniteSets, FiniteSetsExt

CONSTANTS
  MaxBlocks,  \* bound: blocks ever produced (on all forks)
  MaxHeight,  \* bound: highest height
  MaxTxs,     \* bound: transactions ever produced
  MaxReorgs,  \* bound: reorganisations
  MaxDepth,   \* bound: blocks replaced by one reorganisation
  MaxGaps,    \* bound: rows that the indexer writes late
  TxLists     \* the transactions a block may hold: sequences of relevances

ASSUME TxListsAssumption == TxLists \subseteq Seq(BOOLEAN)

ASSUME BoundsAssumption ==
  {MaxBlocks, MaxHeight, MaxTxs, MaxReorgs, MaxDepth, MaxGaps} \subseteq Nat

VARIABLES
  blocks,      \* visible rows of table blocks
  missing,     \* rows of known blocks that are not written yet
  nextHash,    \* next fresh block hash
  nextTx,      \* next value of transactions.id
  lastIndexed, \* wallets.last_indexed_transaction_id (NULL reads as 0)
  reorgs,      \* reorganisations so far
  gaps         \* rows written late so far

dbVars == <<blocks, missing, nextHash, nextTx, lastIndexed, reorgs, gaps>>

NoHash == 0
Hash == Nat \ {0}
TxRow == [id : Nat \ {0}, relevant : BOOLEAN]
BlockRow == [height : Nat, hash : Hash, parent : Nat, txs : SUBSET TxRow]

DbTypeOK ==
  /\ blocks \subseteq BlockRow
  /\ missing \subseteq BlockRow
  /\ nextHash \in Hash
  /\ nextTx \in Nat \ {0}
  /\ lastIndexed \in Nat
  /\ reorgs \in Nat
  /\ gaps \in Nat

DbInit ==
  /\ blocks = {}
  /\ missing = {}
  /\ nextHash = 1
  /\ nextTx = 1
  /\ lastIndexed = 0
  /\ reorgs = 0
  /\ gaps = 0

-----------------------------------------------------------------------------
(* The queries.                                                            *)

TxIds(b) == {t.id : t \in b.txs}

\* SELECT COALESCE(MAX(height), 0) FROM blocks
ChainHead == IF blocks = {} THEN 0 ELSE Max({b.height : b \in blocks})

\* Mutant of Blocking: transactions of other wallets are not waited for.
BlockingRelevantOnly ==
  {b.height : b \in {c \in blocks : \E t \in c.txs : t.relevant /\ t.id > lastIndexed}}

\* The heights of the blocks with a transaction the wallet-indexer has not
\* checked yet.
Blocking == {b.height : b \in {c \in blocks : \E t \in c.txs : t.id > lastIndexed}}

\* Mutant of WalletReadyHeight: the first blocking block counts as ready.
ReadyInclusive == IF Blocking = {} THEN ChainHead ELSE Min(Blocking)

\* The wallet is ready up to the block below the first blocking one; -1 is
\* None (the block at height 0 blocks).
WalletReadyHeight ==
  IF Blocking = {} THEN ChainHead ELSE Min(Blocking) - 1

BlocksInRange(from, to) == {b \in blocks : from <= b.height /\ b.height <= to}

\* The hash of the row at a height, NoHash when there is no such row.
BlockHashAt(h) ==
  IF \E b \in blocks : b.height = h
  THEN (CHOOSE b \in blocks : b.height = h).hash
  ELSE NoHash

\* The wallet-indexer inserts the relevant_transactions row of a transaction
\* together with the move of last_indexed_transaction_id past it.
RelevantTxs(b) == {t.id : t \in {u \in b.txs : u.relevant /\ u.id <= lastIndexed}}

-----------------------------------------------------------------------------
(* The upstream indexers (external).                                       *)

Known == blocks \cup missing

Tip == CHOOSE b \in Known : \A c \in Known : c.height <= b.height

\* New rows of transactions: one per entry of kinds (its relevance).
NewTxs(kinds) == {[id |-> nextTx + i - 1, relevant |-> kinds[i]] : i \in DOMAIN kinds}

NextBlock(kinds) ==
  [height |-> IF Known = {} THEN 0 ELSE Tip.height + 1,
   hash   |-> nextHash,
   parent |-> IF Known = {} THEN NoHash ELSE Tip.hash,
   txs    |-> NewTxs(kinds)]

\* The chain-indexer stores the next block with its transactions.
AddBlock(kinds) ==
  /\ nextHash <= MaxBlocks
  /\ nextTx + Len(kinds) <= MaxTxs + 1
  /\ NextBlock(kinds).height <= MaxHeight
  /\ blocks' = blocks \cup {NextBlock(kinds)}
  /\ nextHash' = nextHash + 1
  /\ nextTx' = nextTx + Len(kinds)
  /\ UNCHANGED <<missing, lastIndexed, reorgs, gaps>>

\* The row of the next block is written late: later rows become visible
\* before it does.
SkipBlock ==
  /\ gaps < MaxGaps
  /\ nextHash <= MaxBlocks
  /\ NextBlock(<<>>).height <= MaxHeight
  /\ missing' = missing \cup {NextBlock(<<>>)}
  /\ nextHash' = nextHash + 1
  /\ gaps' = gaps + 1
  /\ UNCHANGED <<blocks, nextTx, lastIndexed, reorgs>>

\* A late row is written, with the transactions of its block.
Backfill(kinds) ==
  /\ nextTx + Len(kinds) <= MaxTxs + 1
  /\ \E b \in missing :
       /\ blocks' = blocks \cup {[b EXCEPT !.txs = NewTxs(kinds)]}
       /\ missing' = missing \ {b}
  /\ nextTx' = nextTx + Len(kinds)
  /\ UNCHANGED <<nextHash, lastIndexed, reorgs, gaps>>

\* A reorganisation drops the blocks from height h up; the blocks of the new
\* fork arrive by AddBlock.
Reorg(h) ==
  /\ reorgs < MaxReorgs
  /\ h > 0
  /\ \E b \in Known : b.height = h
  /\ Tip.height < h + MaxDepth
  /\ nextHash <= MaxBlocks
  /\ blocks' = {b \in blocks : b.height < h}
  /\ missing' = {b \in missing : b.height < h}
  /\ reorgs' = reorgs + 1
  /\ UNCHANGED <<nextHash, nextTx, lastIndexed, gaps>>

\* The wallet-indexer checks the next transaction against the viewing key.
IndexTx ==
  LET waiting == {i \in UNION {TxIds(b) : b \in blocks} : i > lastIndexed}
  IN  /\ waiting # {}
      /\ lastIndexed' = Min(waiting)
      /\ UNCHANGED <<blocks, missing, nextHash, nextTx, reorgs, gaps>>

DbNext ==
  \/ \E kinds \in TxLists : AddBlock(kinds) \/ Backfill(kinds)
  \/ SkipBlock
  \/ \E h \in 1 .. MaxHeight : Reorg(h)
  \/ IndexTx

=============================================================================
