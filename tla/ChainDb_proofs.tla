--------------------------- MODULE ChainDb_proofs ---------------------------
(***************************************************************************)
(* The tables keep their types and the queries return what they promise,   *)
(* for every value of the bounds.                                          *)
(***************************************************************************)
EXTENDS ChainDb, WellFoundedInduction, TLAPS

\* A non-empty set of natural numbers has a least element.
LEMMA MinOfNats ==
  ASSUME NEW S \in SUBSET Nat, S # {}
  PROVE  Min(S) \in S /\ \A y \in S : Min(S) <= y
<1> DEFINE R == {ss \in Nat \X Nat : ss[1] < ss[2]}
<1>1. OpToRel(<, Nat) = R
  BY Zenon DEF OpToRel
<1>2. \E x \in S : \A y \in S : ~ (<<y, x>> \in OpToRel(<, Nat))
  BY NatLessThanWellFounded, WFMin
<1>3. \E x \in S : \A y \in S : ~ (<<y, x>> \in R)
  BY <1>1, <1>2, Zenon
<1>4. \A a, b \in Nat : a < b => <<a, b>> \in R
  OBVIOUS
<1> HIDE DEF R
<1>5. PICK x \in S : \A y \in S : ~ (<<y, x>> \in R)
  BY <1>3
<1>6. ASSUME NEW y \in S
      PROVE  x <= y
  <2>1. ~ (y < x)
    BY <1>4, <1>5, Zenon
  <2>2. QED
    BY <2>1
<1>7. QED
  BY <1>6 DEF Min

\* A non-empty set of natural numbers under a bound has a greatest element.
LEMMA MaxOfNats ==
  ASSUME NEW S \in SUBSET Nat, S # {}, NEW n \in Nat, \A x \in S : x <= n
  PROVE  Max(S) \in S /\ \A y \in S : Max(S) >= y
<1> DEFINE D == {n - x : x \in S}
<1>1. D \in SUBSET Nat /\ D # {}
  <2>1. \A x \in S : n - x \in Nat
    OBVIOUS
  <2>2. QED
    BY <2>1
<1>2. Min(D) \in D /\ \A y \in D : Min(D) <= y
  <2> HIDE DEF D
  <2>1. QED
    BY <1>1, MinOfNats
<1>3. PICK x \in S : Min(D) = n - x
  BY <1>2
<1>4. \A y \in S : n - x <= n - y
  BY <1>2, <1>3
<1>5. \A y \in S : x >= y
  BY <1>4
<1>6. QED
  BY <1>5 DEF Max

\* The types, and the bound on heights under which every maximum exists.
DbInv ==
  /\ DbTypeOK
  /\ \A b \in Known : b.height <= MaxHeight

LEMMA HeadIsNat ==
  ASSUME DbInv
  PROVE  ChainHead \in Nat
<1>1. CASE blocks = {}
  BY <1>1 DEF ChainHead
<1>2. CASE blocks # {}
  <2> DEFINE S == {b.height : b \in blocks}
  <2>1. S \in SUBSET Nat /\ S # {} /\ \A x \in S : x <= MaxHeight
    BY <1>2 DEF DbInv, DbTypeOK, Known, BlockRow
  <2>2. MaxHeight \in Nat
    BY BoundsAssumption
  <2>3. Max(S) \in S
    <3> HIDE DEF S
    <3>1. QED
      BY <2>1, <2>2, MaxOfNats
  <2>4. QED
    BY <1>2, <2>1, <2>3 DEF ChainHead
<1>3. QED
  BY <1>1, <1>2

\* What compute_wallet_ready_height promises: the wallet-indexer has checked
\* every transaction of a block at or below the height it returns.
LEMMA ReadyHeight ==
  ASSUME DbInv
  PROVE  /\ WalletReadyHeight \in Int
         /\ \A b \in blocks : b.height <= WalletReadyHeight =>
              \A t \in b.txs : t.id <= lastIndexed
<1>1. Blocking \in SUBSET Nat
  BY DEF DbInv, DbTypeOK, BlockRow, Blocking
<1>2. ASSUME NEW b \in blocks, NEW t \in b.txs, ~(t.id <= lastIndexed)
      PROVE  b.height \in Blocking
  BY <1>2 DEF Blocking, DbInv, DbTypeOK, BlockRow, TxRow
<1>3. CASE Blocking = {}
  BY <1>2, <1>3, HeadIsNat DEF WalletReadyHeight
<1>4. CASE Blocking # {}
  <2>1. Min(Blocking) \in Nat /\ \A y \in Blocking : Min(Blocking) <= y
    BY <1>1, <1>4, MinOfNats
  <2>2. WalletReadyHeight = Min(Blocking) - 1
    BY <1>4 DEF WalletReadyHeight
  <2>3. ASSUME NEW b \in blocks, b.height <= WalletReadyHeight
        PROVE  b.height \notin Blocking
    BY <2>1, <2>2, <2>3, <1>1 DEF DbInv, DbTypeOK, BlockRow
  <2>4. QED
    BY <1>2, <2>1, <2>2, <2>3
<1>5. QED
  BY <1>3, <1>4

LEMMA HashAtIsNat ==
  ASSUME DbInv, NEW h \in Nat
  PROVE  BlockHashAt(h) \in Nat
BY DEF DbInv, DbTypeOK, BlockRow, BlockHashAt, NoHash, Hash

LEMMA NewTxsType ==
  ASSUME DbInv, NEW kinds \in Seq(BOOLEAN)
  PROVE  NewTxs(kinds) \in SUBSET TxRow
BY DEF DbInv, DbTypeOK, NewTxs, TxRow

LEMMA NextBlockType ==
  ASSUME DbInv, NEW kinds \in Seq(BOOLEAN)
  PROVE  NextBlock(kinds) \in BlockRow
<1>1. NewTxs(kinds) \in SUBSET TxRow
  BY NewTxsType
<1>2. CASE Known = {}
  BY <1>1, <1>2 DEF NextBlock, DbInv, DbTypeOK, BlockRow, NoHash, Hash
<1>3. CASE Known # {}
  <2> DEFINE S == {b.height : b \in Known}
  <2>1. S \in SUBSET Nat /\ S # {} /\ \A x \in S : x <= MaxHeight
    BY <1>3 DEF DbInv, DbTypeOK, Known, BlockRow
  <2>2. MaxHeight \in Nat
    BY BoundsAssumption
  <2>3. Max(S) \in S /\ \A y \in S : Max(S) >= y
    <3> HIDE DEF S
    <3>1. QED
      BY <2>1, <2>2, MaxOfNats
  <2>4. \E b \in Known : \A c \in Known : c.height <= b.height
    BY <2>1, <2>3
  <2>5. Tip \in Known
    BY <2>4 DEF Tip
  <2>6. Tip \in BlockRow
    BY <2>5 DEF Known, DbInv, DbTypeOK
  <2>7. QED
    BY <1>1, <1>3, <2>6 DEF NextBlock, DbInv, DbTypeOK, BlockRow, Hash
<1>4. QED
  BY <1>2, <1>3

\* Every step of the indexers keeps the types, and last_indexed_transaction_id
\* never moves back.
LEMMA DbStep ==
  ASSUME DbInv, DbNext
  PROVE  DbInv' /\ lastIndexed <= lastIndexed'
<1> USE DEF DbInv, DbTypeOK, Known
<1>1. ASSUME NEW kinds \in TxLists, AddBlock(kinds)
      PROVE  DbInv' /\ lastIndexed <= lastIndexed'
  <2>1. kinds \in Seq(BOOLEAN)
    BY TxListsAssumption
  <2>2. NextBlock(kinds) \in BlockRow
    BY <2>1, NextBlockType
  <2>3. nextHash' \in Hash /\ nextTx' \in Nat \ {0}
    BY <1>1, <2>1 DEF AddBlock, Hash
  <2>4. QED
    BY <1>1, <2>2, <2>3 DEF AddBlock
<1>2. ASSUME NEW kinds \in TxLists, Backfill(kinds)
      PROVE  DbInv' /\ lastIndexed <= lastIndexed'
  <2>1. kinds \in Seq(BOOLEAN)
    BY TxListsAssumption
  <2>2. NewTxs(kinds) \in SUBSET TxRow
    BY <2>1, NewTxsType
  <2>3. PICK b \in missing :
          /\ blocks' = blocks \cup {[b EXCEPT !.txs = NewTxs(kinds)]}
          /\ missing' = missing \ {b}
    BY <1>2 DEF Backfill
  <2>4. /\ [b EXCEPT !.txs = NewTxs(kinds)] \in BlockRow
        /\ [b EXCEPT !.txs = NewTxs(kinds)].height = b.height
    BY <2>2 DEF BlockRow
  <2>5. nextTx' \in Nat \ {0}
    BY <1>2, <2>1 DEF Backfill
  <2>6. blocks' \subseteq BlockRow /\ missing' \subseteq BlockRow
    BY <2>3, <2>4
  <2>7. \A c \in Known' : c.height <= MaxHeight
    BY <2>3, <2>4
  <2>8. UNCHANGED <<nextHash, lastIndexed, reorgs, gaps>>
    BY <1>2 DEF Backfill
  <2>9. QED
    BY <2>5, <2>6, <2>7, <2>8
<1>3. CASE SkipBlock
  <2>1. <<>> \in Seq(BOOLEAN)
    OBVIOUS
  <2>2. NextBlock(<<>>) \in BlockRow
    BY <2>1, NextBlockType
  <2>3. QED
    BY <1>3, <2>2 DEF SkipBlock, Hash
<1>4. ASSUME NEW h \in 1 .. MaxHeight, Reorg(h)
      PROVE  DbInv' /\ lastIndexed <= lastIndexed'
  BY <1>4 DEF Reorg
<1>5. CASE IndexTx
  <2> DEFINE W == {i \in UNION {TxIds(b) : b \in blocks} : i > lastIndexed}
  <2>1. W \in SUBSET Nat
    BY DEF TxIds, BlockRow, TxRow
  <2>2. W # {} /\ lastIndexed' = Min(W)
    BY <1>5 DEF IndexTx
  <2>3. Min(W) \in W
    <3> HIDE DEF W
    <3>1. QED
      BY <2>1, <2>2, MinOfNats
  <2>4. lastIndexed' \in Nat /\ lastIndexed <= lastIndexed'
    BY <2>1, <2>2, <2>3
  <2>5. QED
    BY <1>5, <2>4 DEF IndexTx
<1>6. QED
  BY <1>1, <1>2, <1>3, <1>4, <1>5 DEF DbNext

-----------------------------------------------------------------------------
(* The chain.                                                              *)

\* Whatever is late or was replaced: the known blocks form one chain from
\* height 0 up, one of them at each height, and each late row is of one more.
ChainInv ==
  /\ blocks \cap missing = {}
  /\ \A b, c \in Known : b.height = c.height => b = c
  /\ \A b \in Known : \A h \in 0 .. b.height : \E c \in Known : c.height = h
  /\ \A b, c \in Known : c.height = b.height + 1 => c.parent = b.hash
  /\ \A b \in Known : b.hash < nextHash
  /\ reorgs <= MaxReorgs /\ gaps <= MaxGaps
  /\ gaps = 0 => missing = {}

\* The last known block.
LEMMA TipIsLast ==
  ASSUME DbInv, Known # {}
  PROVE  Tip \in Known /\ Tip \in BlockRow /\ \A b \in Known : b.height <= Tip.height
<1> DEFINE S == {b.height : b \in Known}
<1>1. S \in SUBSET Nat /\ S # {} /\ \A x \in S : x <= MaxHeight
  BY DEF DbInv, DbTypeOK, Known, BlockRow
<1>2. Max(S) \in S /\ \A y \in S : Max(S) >= y
  <2> HIDE DEF S
  <2>1. QED
    BY <1>1, MaxOfNats, BoundsAssumption
<1>3. \A b \in Known : b.height \in S /\ b.height \in Nat
  BY <1>1
<1>4. PICK b \in Known : b.height = Max(S)
  BY <1>2
<1>5. \A c \in Known : c.height <= b.height
  BY <1>2, <1>3, <1>4
<1>6. Tip \in Known /\ \A c \in Known : c.height <= Tip.height
  BY <1>4, <1>5 DEF Tip
<1>7. QED
  BY <1>6 DEF DbInv, DbTypeOK, Known

\* The next block lies on top of all of them.
LEMMA NextOnTop ==
  ASSUME DbInv, ChainInv, NEW kinds \in Seq(BOOLEAN)
  PROVE  /\ NextBlock(kinds) \in BlockRow
         /\ NextBlock(kinds).hash = nextHash
         /\ \A b \in Known : b.height < NextBlock(kinds).height
         /\ \A h \in 0 .. NextBlock(kinds).height - 1 : \E b \in Known : b.height = h
         /\ \A b \in Known : NextBlock(kinds).height = b.height + 1 => NextBlock(kinds).parent = b.hash
<1>1. NextBlock(kinds) \in BlockRow /\ NextBlock(kinds).hash = nextHash
  BY NextBlockType DEF NextBlock
<1>2. CASE Known = {}
  <2>1. NextBlock(kinds).height = 0
    BY <1>2 DEF NextBlock
  <2>2. QED
    BY <1>1, <1>2, <2>1
<1>3. CASE Known # {}
  <2>1. /\ Tip \in Known /\ Tip \in BlockRow /\ \A b \in Known : b.height <= Tip.height
        /\ NextBlock(kinds).height = Tip.height + 1 /\ NextBlock(kinds).parent = Tip.hash
    BY <1>3, TipIsLast DEF NextBlock
  <2>2. \A b \in Known : b.height \in Nat
    BY DEF DbInv, DbTypeOK, Known, BlockRow
  <2>3. \A h \in 0 .. Tip.height : \E b \in Known : b.height = h
    BY <2>1 DEF ChainInv
  <2>4. Tip.height \in Nat
    BY <2>1, <2>2
  <2>5. \A b \in Known : b.height = Tip.height => b = Tip
    BY <2>1 DEF ChainInv
  <2>6. QED
    BY <1>1, <2>1, <2>2, <2>3, <2>4, <2>5
<1>4. QED
  BY <1>2, <1>3

\* A known block more, on top.
LEMMA ChainGrows ==
  ASSUME DbInv, ChainInv, NEW kinds \in Seq(BOOLEAN), nextHash' = nextHash + 1,
         \/ blocks' = blocks \cup {NextBlock(kinds)} /\ UNCHANGED <<missing, gaps>>
         \/ /\ missing' = missing \cup {NextBlock(kinds)}
            /\ blocks' = blocks /\ gaps < MaxGaps /\ gaps' = gaps + 1,
         UNCHANGED reorgs
  PROVE  ChainInv'
<1> DEFINE n == NextBlock(kinds)
<1>1. /\ n \in BlockRow /\ n.hash = nextHash
      /\ \A b \in Known : b.height < n.height
      /\ \A h \in 0 .. n.height - 1 : \E b \in Known : b.height = h
      /\ \A b \in Known : n.height = b.height + 1 => n.parent = b.hash
  BY NextOnTop
<1> HIDE DEF n
<1>2. /\ Known' = Known \cup {n} /\ nextHash \in Nat
      /\ \A b \in Known : b.height \in Nat /\ b.hash \in Nat
      /\ n.height \in Nat
  BY <1>1 DEF n, Known, DbInv, DbTypeOK, BlockRow, Hash
<1>3. n \notin Known
  BY <1>1, <1>2
<1>4. (blocks \cap missing = {})'
  BY <1>3 DEF n, Known, ChainInv
<1>5. \A b, c \in Known' : b.height = c.height => b = c
  BY <1>1, <1>2 DEF ChainInv
<1>6. ASSUME NEW b \in Known', NEW h \in 0 .. b.height
      PROVE  \E c \in Known' : c.height = h
  <2>1. CASE b \in Known
    BY <1>2, <2>1 DEF ChainInv
  <2>2. CASE b = n
    <3>1. CASE h = n.height
      BY <1>2, <3>1
    <3>2. CASE h # n.height
      <4>1. h \in 0 .. n.height - 1
        BY <1>2, <2>2, <3>2
      <4>2. QED
        BY <1>1, <1>2, <4>1
    <3>3. QED
      BY <3>1, <3>2
  <2>3. QED
    BY <1>2, <2>1, <2>2
<1>7. \A b, c \in Known' : c.height = b.height + 1 => c.parent = b.hash
  <2>1. ASSUME NEW b \in Known', NEW c \in Known', c.height = b.height + 1
        PROVE  c.parent = b.hash
    <3>1. CASE b \in Known /\ c \in Known
      BY <2>1, <3>1 DEF ChainInv
    <3>2. CASE b \in Known /\ c = n
      BY <1>1, <2>1, <3>2
    <3>3. CASE b = n
      <4>1. c.height <= n.height
        BY <1>1, <1>2
      <4>2. QED
        BY <1>2, <2>1, <3>3, <4>1
    <3>4. QED
      BY <1>2, <3>1, <3>2, <3>3
  <2>2. QED
    BY <2>1
<1>8. \A b \in Known' : b.hash < nextHash'
  BY <1>1, <1>2 DEF ChainInv
<1>9. (reorgs <= MaxReorgs /\ gaps <= MaxGaps /\ (gaps = 0 => missing = {}))'
  BY BoundsAssumption DEF ChainInv, DbInv, DbTypeOK
<1>10. QED
  BY <1>4, <1>5, <1>6, <1>7, <1>8, <1>9 DEF ChainInv

\* The chain-indexer keeps it.
LEMMA ChainStep ==
  ASSUME DbInv, ChainInv, DbNext
  PROVE  ChainInv'
<1>1. ASSUME NEW kinds \in TxLists, AddBlock(kinds)
      PROVE  ChainInv'
  BY <1>1, TxListsAssumption, ChainGrows DEF AddBlock
<1>2. CASE SkipBlock
  <2>1. <<>> \in Seq(BOOLEAN)
    OBVIOUS
  <2>2. QED
    BY <1>2, <2>1, ChainGrows DEF SkipBlock
<1>3. ASSUME NEW kinds \in TxLists, Backfill(kinds)
      PROVE  ChainInv'
  <2>1. PICK b \in missing :
          /\ blocks' = blocks \cup {[b EXCEPT !.txs = NewTxs(kinds)]}
          /\ missing' = missing \ {b}
    BY <1>3 DEF Backfill
  <2> DEFINE n == [b EXCEPT !.txs = NewTxs(kinds)]
  <2>2. n.height = b.height /\ n.hash = b.hash /\ n.parent = b.parent
    BY DEF DbInv, DbTypeOK, BlockRow
  <2> HIDE DEF n
  <2>3. /\ blocks' = blocks \cup {n} /\ Known' = (Known \ {b}) \cup {n}
        /\ nextHash' = nextHash
    BY <1>3, <2>1 DEF n, Known, Backfill, ChainInv
  <2>4. \A c \in missing' : c.height # n.height
    BY <2>1, <2>2 DEF ChainInv, Known
  <2>5. (blocks \cap missing = {})'
    BY <2>1, <2>3, <2>4 DEF ChainInv
  <2>6. b \in Known /\ \A c \in Known : c # b => c.height # n.height
    BY <2>2 DEF ChainInv, Known
  <2>7. \A c, d \in Known' : c.height = d.height => c = d
    BY <2>3, <2>6 DEF ChainInv
  <2>8. \A c \in Known' : \A h \in 0 .. c.height : \E d \in Known' : d.height = h
    <3>1. \A c \in Known' : \E d \in Known : d.height = c.height
      BY <2>2, <2>3, <2>6
    <3>2. \A d \in Known : \E c \in Known' : d.height = c.height
      BY <2>2, <2>3
    <3>3. QED
      BY <3>1, <3>2 DEF ChainInv
  <2>9. \A c, d \in Known' : d.height = c.height + 1 => d.parent = c.hash
    BY <2>2, <2>3, <2>6 DEF ChainInv
  <2>10. \A c \in Known' : c.hash < nextHash'
    BY <2>2, <2>3, <2>6 DEF ChainInv
  <2>11. UNCHANGED <<reorgs, gaps>> /\ missing' \subseteq missing
    BY <1>3, <2>1 DEF Backfill
  <2>12. QED
    BY <2>5, <2>7, <2>8, <2>9, <2>10, <2>11 DEF ChainInv
<1>4. ASSUME NEW h \in 1 .. MaxHeight, Reorg(h)
      PROVE  ChainInv'
  <2>1. /\ Known' = {b \in Known : b.height < h} /\ blocks' \subseteq blocks
        /\ missing' \subseteq missing /\ nextHash' = nextHash
    BY <1>4 DEF Reorg, Known
  <2>2. \A b \in Known : b.height \in Nat
    BY DEF DbInv, DbTypeOK, Known, BlockRow
  <2>3. \A b \in Known' : \A g \in 0 .. b.height : \E c \in Known' : c.height = g
    BY <2>1, <2>2 DEF ChainInv
  <2>4. reorgs' <= MaxReorgs /\ gaps' = gaps
    BY <1>4, BoundsAssumption DEF Reorg, DbInv, DbTypeOK
  <2>5. QED
    BY <2>1, <2>3, <2>4 DEF ChainInv
<1>5. CASE IndexTx
  BY <1>5 DEF IndexTx, ChainInv, Known
<1>6. QED
  BY <1>1, <1>2, <1>3, <1>4, <1>5 DEF DbNext

\* A block is ready when the wallet-indexer has checked all blocks up to it.
ReadyIsChecked ==
  \A b \in blocks :
    b.height <= WalletReadyHeight <=>
      \A c \in blocks : c.height <= b.height => \A t \in c.txs : t.id <= lastIndexed

LEMMA ReadyBlocks == DbInv => ReadyIsChecked
<1> SUFFICES ASSUME DbInv, NEW b \in blocks
             PROVE  b.height <= WalletReadyHeight <=>
                      \A c \in blocks : c.height <= b.height => \A t \in c.txs : t.id <= lastIndexed
  BY DEF ReadyIsChecked
<1>1. Blocking \in SUBSET Nat /\ WalletReadyHeight \in Int
  BY ReadyHeight DEF DbInv, DbTypeOK, BlockRow, Blocking
<1>2. /\ \A c \in blocks : c.height \in Nat /\ \A t \in c.txs : t.id \in Nat
      /\ lastIndexed \in Nat
  BY DEF DbInv, DbTypeOK, BlockRow, TxRow
<1>3. ASSUME b.height <= WalletReadyHeight, NEW c \in blocks, c.height <= b.height
      PROVE  \A t \in c.txs : t.id <= lastIndexed
  BY <1>1, <1>2, <1>3, ReadyHeight
<1>4. ASSUME \A c \in blocks : c.height <= b.height => \A t \in c.txs : t.id <= lastIndexed
      PROVE  b.height <= WalletReadyHeight
  <2>1. CASE Blocking = {}
    <3> DEFINE S == {c.height : c \in blocks}
    <3>1. S \in SUBSET Nat /\ b.height \in S /\ \A x \in S : x <= MaxHeight
      BY <1>2 DEF DbInv, Known
    <3>2. \A y \in S : Max(S) >= y
      <4> HIDE DEF S
      <4>1. QED
        BY <3>1, MaxOfNats, BoundsAssumption
    <3>3. WalletReadyHeight = Max(S)
      BY <2>1 DEF WalletReadyHeight, ChainHead
    <3>4. Max(S) >= b.height
      BY <3>1, <3>2
    <3>5. QED
      BY <1>1, <1>2, <3>3, <3>4
  <2>2. CASE Blocking # {}
    <3>1. Min(Blocking) \in Blocking
      BY <1>1, <2>2, MinOfNats
    <3>2. PICK c \in blocks : c.height = Min(Blocking) /\ \E t \in c.txs : t.id > lastIndexed
      BY <3>1 DEF Blocking
    <3>3. ~(c.height <= b.height)
      BY <1>2, <1>4, <3>2
    <3>4. WalletReadyHeight = c.height - 1
      BY <2>2, <3>2 DEF WalletReadyHeight
    <3>5. QED
      BY <1>2, <3>3, <3>4
  <2>3. QED
    BY <2>1, <2>2
<1>5. QED
  BY <1>3, <1>4

-----------------------------------------------------------------------------
(* The items of a block.                                                   *)

\* The wallet's transactions of a block, whether they are indexed yet or not.
Owed(b) == {t.id : t \in {u \in b.txs : u.relevant}}

ReadyBlock(b) == b \in blocks /\ b.height <= WalletReadyHeight

\* Items are known by the ids of their transactions.
LEMMA OwedType ==
  ASSUME NEW b \in BlockRow
  PROVE  Owed(b) \subseteq Nat
BY DEF Owed, BlockRow, TxRow

\* The items of a block that is ready are all there.
LEMMA OwedIsRelevant ==
  ASSUME DbInv, NEW b, ReadyBlock(b)
  PROVE  RelevantTxs(b) = Owed(b)
<1>1. \A t \in b.txs : t.id <= lastIndexed
  BY ReadyHeight DEF ReadyBlock
<1>2. QED
  BY <1>1 DEF RelevantTxs, Owed

\* While the tables stand still the same blocks are ready.
LEMMA SameReady ==
  ASSUME UNCHANGED dbVars
  PROVE  \A b : ReadyBlock(b)' <=> ReadyBlock(b)
BY DEF dbVars, ReadyBlock, WalletReadyHeight, Blocking, ChainHead

\* The ready height is not above the last block.
LEMMA ReadyBelowHead ==
  ASSUME DbInv, blocks # {}
  PROVE  \E b \in blocks : WalletReadyHeight <= b.height
<1>1. CASE Blocking = {}
  <2> DEFINE S == {b.height : b \in blocks}
  <2>1. S \in SUBSET Nat /\ S # {} /\ \A x \in S : x <= MaxHeight
    BY DEF DbInv, DbTypeOK, Known, BlockRow
  <2>2. Max(S) \in S
    <3> HIDE DEF S
    <3>1. QED
      BY <2>1, MaxOfNats, BoundsAssumption
  <2>3. Max(S) \in Nat
    <3> HIDE DEF S
    <3>1. QED
      BY <2>1, <2>2
  <2>4. WalletReadyHeight = Max(S)
    BY <1>1 DEF WalletReadyHeight, ChainHead
  <2>5. PICK b \in blocks : b.height = Max(S)
    BY <2>2
  <2> HIDE DEF S
  <2>6. QED
    BY <2>3, <2>4, <2>5
<1>2. CASE Blocking # {}
  <2>1. Blocking \in SUBSET Nat
    BY DEF DbInv, DbTypeOK, BlockRow, Blocking
  <2>2. Min(Blocking) \in Blocking
    BY <1>2, <2>1, MinOfNats
  <2>3. PICK b \in blocks : b.height = Min(Blocking)
    BY <2>2 DEF Blocking
  <2>4. WalletReadyHeight = b.height - 1 /\ b.height \in Nat
    BY <1>2, <2>1, <2>2, <2>3 DEF WalletReadyHeight
  <2>5. QED
    BY <2>4
<1>3. QED
  BY <1>1, <1>2

-----------------------------------------------------------------------------
(* Before the first reorganisation.                                        *)

\* No block goes; one that comes lies above all known ones, or was late.
LEMMA TablesOnlyGrow ==
  ASSUME reorgs' = 0, DbInv, ChainInv, DbNext
  PROVE  /\ reorgs = 0 /\ gaps <= gaps'
         /\ blocks \subseteq blocks'
         /\ \A b \in blocks' \ blocks :
              (\A c \in Known : c.height < b.height) \/ \E m \in missing : m.height = b.height
         /\ \A m \in missing' : m \in missing \/ \A c \in Known : c.height < m.height
         /\ \A c \in Known : \E d \in Known' : d.height = c.height
<1>1. reorgs \in Nat /\ gaps \in Nat /\ \A h : ~Reorg(h)
  BY DEF Reorg, DbInv, DbTypeOK
<1>2. ASSUME NEW kinds \in TxLists, AddBlock(kinds)
      PROVE  /\ blocks' = blocks \cup {NextBlock(kinds)} /\ UNCHANGED <<missing, reorgs, gaps>>
             /\ \A c \in Known : c.height < NextBlock(kinds).height
  BY <1>2, NextOnTop, TxListsAssumption DEF AddBlock
<1>3. CASE SkipBlock
  <2>1. <<>> \in Seq(BOOLEAN)
    OBVIOUS
  <2>2. \A c \in Known : c.height < NextBlock(<<>>).height
    BY <2>1, NextOnTop
  <2>3. QED
    BY <1>1, <1>3, <2>2 DEF SkipBlock, Known
<1>4. ASSUME NEW kinds \in TxLists, Backfill(kinds)
      PROVE  /\ blocks \subseteq blocks' /\ missing' \subseteq missing
             /\ UNCHANGED <<reorgs, gaps>>
             /\ \A b \in blocks' \ blocks : \E m \in missing : m.height = b.height
             /\ \A c \in Known : \E d \in Known' : d.height = c.height
  <2>1. PICK m \in missing :
          /\ blocks' = blocks \cup {[m EXCEPT !.txs = NewTxs(kinds)]}
          /\ missing' = missing \ {m}
    BY <1>4 DEF Backfill
  <2>2. [m EXCEPT !.txs = NewTxs(kinds)].height = m.height
    BY DEF DbInv, DbTypeOK, BlockRow
  <2>3. QED
    BY <1>4, <2>1, <2>2 DEF Backfill, Known
<1>5. CASE IndexTx
  BY <1>1, <1>5 DEF IndexTx, Known
<1>6. CASE \E kinds \in TxLists : AddBlock(kinds)
  BY <1>1, <1>2, <1>6 DEF Known
<1>7. CASE \E kinds \in TxLists : Backfill(kinds)
  BY <1>1, <1>4, <1>7
<1>8. QED
  BY <1>1, <1>3, <1>5, <1>6, <1>7 DEF DbNext

-----------------------------------------------------------------------------
(* Before the first reorganisation and the first late row.                 *)

Calm == reorgs = 0 /\ gaps = 0

\* The tables only grow, by blocks on top of all that are there.
LEMMA TablesGrow ==
  ASSUME Calm', DbInv, ChainInv, DbNext
  PROVE  /\ Calm /\ missing = {}
         /\ \/ blocks' = blocks
            \/ \E n \in BlockRow : /\ blocks' = blocks \cup {n}
                                   /\ \A b \in blocks : b.height < n.height
<1>1. /\ ~SkipBlock /\ \A h : ~Reorg(h)
      /\ Calm /\ missing = {}
  <2>1. gaps \in Nat /\ (gaps' = gaps \/ gaps' = gaps + 1)
    BY DEF DbNext, AddBlock, Backfill, SkipBlock, Reorg, IndexTx, DbInv, DbTypeOK
  <2>2. reorgs \in Nat /\ (reorgs' = reorgs \/ reorgs' = reorgs + 1)
    BY DEF DbNext, AddBlock, Backfill, SkipBlock, Reorg, IndexTx, DbInv, DbTypeOK
  <2>3. QED
    BY <2>1, <2>2 DEF Calm, SkipBlock, Reorg, ChainInv
<1>2. ASSUME NEW kinds \in TxLists, AddBlock(kinds)
      PROVE  \E n \in BlockRow : /\ blocks' = blocks \cup {n}
                                 /\ \A b \in blocks : b.height < n.height
  BY <1>2, NextOnTop, TxListsAssumption DEF AddBlock, Known
<1>3. \A kinds : ~Backfill(kinds)
  BY <1>1 DEF Backfill
<1>4. CASE IndexTx
  BY <1>1, <1>4 DEF IndexTx
<1>5. QED
  BY <1>1, <1>2, <1>3, <1>4 DEF DbNext

\* A block that is ready stays ready, with the items it has.
LEMMA ReadyIsStable ==
  ASSUME Calm', DbInv, ChainInv, DbNext,
         NEW b \in blocks, b.height <= WalletReadyHeight
  PROVE  /\ b \in blocks' /\ b.height <= WalletReadyHeight'
         /\ RelevantTxs(b)' = RelevantTxs(b)
         /\ \A c \in blocks' : c.height <= b.height => c \in blocks
<1>1. DbInv' /\ lastIndexed <= lastIndexed'
  BY DbStep
<1>2. b \in blocks' /\ \A c \in blocks' : c.height <= b.height => c \in blocks
  <2>1. \A c \in blocks : c.height \in Nat
    BY DEF DbInv, DbTypeOK, BlockRow
  <2>2. QED
    BY <2>1, TablesGrow DEF BlockRow
<1>3. /\ \A c \in blocks : \A t \in c.txs : t.id \in Nat
      /\ lastIndexed \in Nat /\ lastIndexed' \in Nat
  BY <1>1 DEF DbInv, DbTypeOK, BlockRow, TxRow
<1>4. \A c \in blocks : c.height <= b.height => \A t \in c.txs : t.id <= lastIndexed
  BY ReadyBlocks DEF ReadyIsChecked
<1>5. \A c \in blocks' : c.height <= b.height => \A t \in c.txs : t.id <= lastIndexed'
  BY <1>1, <1>2, <1>3, <1>4
<1>6. b.height <= WalletReadyHeight'
  <2>1. DbInv' => ReadyIsChecked'
    BY ReadyBlocks, PTL
  <2>2. QED
    BY <1>1, <1>2, <1>5, <2>1 DEF ReadyIsChecked
<1>7. \A t \in b.txs : t.id <= lastIndexed /\ t.id <= lastIndexed'
  <2>1. b.height <= b.height
    BY DEF DbInv, DbTypeOK, BlockRow
  <2>2. QED
    BY <1>1, <1>3, <1>4, <2>1
<1>8. RelevantTxs(b)' = RelevantTxs(b)
  BY <1>7 DEF RelevantTxs
<1>9. QED
  BY <1>2, <1>6, <1>8

\* No row is missing: the tables have a block at each height up to the last.
LEMMA NoneMissing ==
  ASSUME Calm, DbInv, ChainInv
  PROVE  /\ Known = blocks
         /\ \A b \in blocks : \A h \in 0 .. b.height : \E c \in blocks : c.height = h
         /\ \A b, c \in blocks : b.height = c.height => b = c
         /\ \A b, c \in blocks : c.height = b.height + 1 => c.parent = b.hash
         /\ \A b \in blocks : b \in BlockRow /\ b.height \in Nat /\ b.hash \in Hash
<1>1. missing = {}
  BY DEF ChainInv, Calm
<1>2. Known = blocks
  BY <1>1 DEF Known
<1>3. QED
  BY <1>1, <1>2 DEF ChainInv, DbInv, DbTypeOK, BlockRow

\* The items that are ready.
History == UNION {{<<b.height, i>> : i \in RelevantTxs(b)} :
                    b \in {c \in blocks : c.height <= WalletReadyHeight}}

\* The ready items are what the ready blocks owe to the wallet.
LEMMA HistoryIsOwed ==
  ASSUME DbInv
  PROVE  /\ \A b, i : ReadyBlock(b) /\ i \in Owed(b) => <<b.height, i>> \in History
         /\ \A k \in History : \E b : ReadyBlock(b) /\ \E i \in Owed(b) : k = <<b.height, i>>
         /\ History \subseteq Nat \X Nat
<1>1. \A b : ReadyBlock(b) => RelevantTxs(b) = Owed(b)
  BY OwedIsRelevant
<1>2. \A b : ReadyBlock(b) => b \in BlockRow /\ b.height \in Nat /\ Owed(b) \subseteq Nat
  BY OwedType DEF ReadyBlock, DbInv, DbTypeOK, BlockRow
<1>3. \A k : k \in History <=> \E b : ReadyBlock(b) /\ \E i \in RelevantTxs(b) : k = <<b.height, i>>
  BY DEF History, ReadyBlock
<1>4. QED
  BY <1>1, <1>2, <1>3

\* New items lie in blocks above those that were ready, or in new ones.
LEMMA HistoryGrows ==
  ASSUME DbInv, ChainInv, DbNext, Calm'
  PROVE  /\ History \subseteq History'
         /\ \A k \in History, n \in History' \ History : k[1] < n[1]
<1>1. DbInv'
  BY DbStep
<1>2. \A b : ReadyBlock(b) => ReadyBlock(b)'
  BY <1>1, ReadyIsStable DEF ReadyBlock
<1>3. /\ \A b \in blocks' : b \in blocks \/ \A c \in blocks : c.height < b.height
      /\ \A b \in blocks : b.height \in Nat
      /\ \A b \in blocks' : b.height \in Nat
  BY <1>1, TablesGrow DEF DbInv, DbTypeOK, BlockRow
<1>4. /\ \A b, i : ReadyBlock(b) /\ i \in Owed(b) => <<b.height, i>> \in History
      /\ \A k \in History : \E b : ReadyBlock(b) /\ \E i \in Owed(b) : k = <<b.height, i>>
  BY <1>1, HistoryIsOwed
<1>5. /\ \A b, i : ReadyBlock(b)' /\ i \in Owed(b) => <<b.height, i>> \in History'
      /\ \A k \in History' : \E b : ReadyBlock(b)' /\ \E i \in Owed(b) : k = <<b.height, i>>
  <2>1. DbInv' => (/\ \A b, i : ReadyBlock(b) /\ i \in Owed(b) => <<b.height, i>> \in History
                   /\ \A k \in History : \E b : ReadyBlock(b) /\ \E i \in Owed(b) : k = <<b.height, i>>)'
    BY HistoryIsOwed, PTL
  <2>2. QED
    BY <1>1, <2>1
<1>6. History \subseteq History'
  BY <1>2, <1>4, <1>5
<1>7. ASSUME NEW b, ReadyBlock(b), NEW c, ReadyBlock(c)', ~ReadyBlock(c)
      PROVE  b.height < c.height
  <2>1. CASE c \in blocks
    BY <1>1, <1>3, <1>7, <2>1, ReadyHeight DEF ReadyBlock
  <2>2. CASE c \notin blocks
    BY <1>3, <1>7, <2>2 DEF ReadyBlock
  <2>3. QED
    BY <2>1, <2>2
<1>8. \A k \in History, n \in History' \ History : k[1] < n[1]
  <2>1. ASSUME NEW k \in History, NEW n \in History' \ History
        PROVE  k[1] < n[1]
    <3>1. PICK b, i : ReadyBlock(b) /\ k = <<b.height, i>>
      BY <1>4
    <3>2. PICK c : ReadyBlock(c)' /\ \E j \in Owed(c) : n = <<c.height, j>>
      BY <1>5
    <3>3. ~ReadyBlock(c)
      BY <1>4, <2>1, <3>2
    <3>4. b.height < c.height
      BY <1>7, <3>1, <3>2, <3>3
    <3>5. QED
      BY <3>1, <3>2, <3>4
  <2>2. QED
    BY <2>1
<1>9. QED
  BY <1>6, <1>8
=============================================================================
