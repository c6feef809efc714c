-------------------------- MODULE FeedItems_proofs --------------------------
(***************************************************************************)
(* FeedItems for all tables and profiles: the types and that no item is    *)
(* applied twice (ItemsInv), and under the conditions of NoSelfSpends and  *)
(* OneDust that a cursor skips nothing and items refer back (SkipInv).     *)
(***************************************************************************)
EXTENDS FeedItems, SequenceTheorems, TLAPS

\* Rows name transactions of the table, which are in the order of their blocks.
TablesOK ==
  /\ Len(txs) <= MaxTxs
  /\ \A i, j \in DOMAIN txs : i <= j => txs[i].block <= txs[j].block
  /\ \A e \in DOMAIN events : events[e].tx \in DOMAIN txs
  /\ \A u \in DOMAIN utxos :
       /\ utxos[u].created \in DOMAIN txs
       /\ utxos[u].spent # 0 =>
            /\ utxos[u].spent \in DOMAIN txs
            /\ utxos[u].created < utxos[u].spent \/ SelfSpends

\* The stream is behind the cursor, or about to filter the block of the cursor.
StreamOK ==
  /\ next <= LastBlock + 1
  /\ next = 0 => wire = {} /\ fromCursor = NoCursor
  /\ next # 0 =>
       \/ fromCursor = NoCursor /\ cursor[1] < next
       \/ fromCursor = cursor /\ cursor # NoCursor /\ next = cursor[1] /\ wire = {}
  /\ cursor # NoCursor => cursor[2] \in DOMAIN txs /\ cursor[1] = txs[cursor[2]].block
  /\ \A i \in wire \cup held : i.tx \in DOMAIN txs
  /\ \A i \in wire : txs[i.tx].block < next

\* The cursor separates what has been applied from what is on its way.
CursorParts ==
  /\ \A i \in wire : i \notin held /\ ~Less(KeyOf(i), cursor)
  /\ \A i \in held : ~Less(cursor, KeyOf(i))

ItemsInv ==
  /\ TypeOK
  /\ profile \in Profiles /\ wanted \in Profiles
  /\ TablesOK
  /\ StreamOK
  /\ CursorParts

\* Each transaction spends only what earlier ones created.
NoSelfSpends == ~SelfSpends

\* No update of the profile changes which dust events are sent.
OneDust == AllDust \/ \A p, q \in Profiles : p.dust = q.dust

\* What an item says follows from its key.
Fits(i) ==
  \/ i.phase = PHASE_TX /\ i.ord = 0 /\ i.what = "meta"
  \/ i.phase = PHASE_TX /\ i.ord = 1 /\ i.what = "tx"
  \/ /\ i.phase = PHASE_LEDGER_EVENT /\ i.ord \in DOMAIN events
     /\ i.what = IF events[i.ord].kind = "input" THEN "input" ELSE "dust"
  \/ /\ i.phase = PHASE_UNSHIELDED /\ i.ord \in DOMAIN utxos
     /\ \/ i.what = "create" /\ i.tx = utxos[i.ord].created
        \/ i.what = "spend" /\ i.tx = utxos[i.ord].spent

\* What is on its way lies behind the cursor, each item under a key of its own.
WireFits == \A i \in wire : Fits(i) /\ Less(cursor, KeyOf(i))

\* The client has the replies to its updates, or is about to get one that asks
\* for no restart.
Current == lost = 0 /\ put # "restart"

\* What the wallet is entitled to is held, on its way, or will be built.
NothingMissing ==
  \A h \in 1 .. LastBlock : \A i \in BlockItems(h) :
    \/ i \in held \cup wire
    \/ Less(cursor, KeyOf(i)) /\ (next = 0 \/ next <= h)

\* The client is given nothing else.
Entitled ==
  \A i \in held \cup wire : \E h \in 1 .. MaxTxs : i \in BlockItems(h)

SkipInv == WireFits /\ (Current => NothingMissing /\ Entitled)

-----------------------------------------------------------------------------
(* The order of the keys.                                                  *)

Key == Nat \X Nat \X (0 .. 2) \X Nat

\* Keys compare part by part.
LEMMA LessByParts ==
  ASSUME NEW j \in Key, NEW k \in Key
  PROVE  Less(j, k) <=>
           \/ j[1] < k[1]
           \/ j[1] = k[1] /\ j[2] < k[2]
           \/ j[1] = k[1] /\ j[2] = k[2] /\ j[3] < k[3]
           \/ j[1] = k[1] /\ j[2] = k[2] /\ j[3] = k[3] /\ j[4] < k[4]
<1> DEFINE Differ(n) == j[n] < k[n] /\ \A m \in 1 .. n - 1 : j[m] = k[m]
<1>1. Less(j, k) <=> Differ(1) \/ Differ(2) \/ Differ(3) \/ Differ(4)
  <2>1. \A n : n \in 1 .. 4 <=> n = 1 \/ n = 2 \/ n = 3 \/ n = 4
    OBVIOUS
  <2>2. Less(j, k) <=> \E n \in 1 .. 4 : Differ(n)
    BY DEF Less
  <2> HIDE DEF Differ
  <2>3. QED
    BY <2>1, <2>2
<1>2. \A m : m \notin 1 .. 1 - 1
  OBVIOUS
<1>3. \A m : m \in 1 .. 2 - 1 <=> m = 1
  OBVIOUS
<1>4. \A m : m \in 1 .. 3 - 1 <=> m = 1 \/ m = 2
  OBVIOUS
<1>5. \A m : m \in 1 .. 4 - 1 <=> m = 1 \/ m = 2 \/ m = 3
  OBVIOUS
<1>6. QED
  BY <1>1, <1>2, <1>3, <1>4, <1>5 DEF Key

\* The order is linear.
LEMMA LessIsLinear ==
  ASSUME NEW j \in Key, NEW k \in Key
  PROVE  /\ Less(j, k) => ~Less(k, j) /\ j # k
         /\ ~Less(j, k) /\ ~Less(k, j) => j = k
         /\ \A l \in Key : ~Less(j, k) /\ ~Less(k, l) => ~Less(j, l)
         /\ \A l \in Key : ~Less(j, k) /\ Less(j, l) => Less(k, l)
<1>1. Less(j, k) => ~Less(k, j) /\ j # k
  BY LessByParts DEF Key
<1>2. ~Less(j, k) /\ ~Less(k, j) => j = k
  BY LessByParts DEF Key
<1>3. ASSUME NEW l \in Key
      PROVE  /\ ~Less(j, k) /\ ~Less(k, l) => ~Less(j, l)
             /\ ~Less(j, k) /\ Less(j, l) => Less(k, l)
  <2>1. \A a, b \in Nat : a < b \/ a = b \/ b < a
    OBVIOUS
  <2>2. QED
    BY <2>1, LessByParts DEF Key
<1>4. QED
  BY <1>1, <1>2, <1>3

-----------------------------------------------------------------------------
(* The tables and the items they give.                                     *)

TxRow == [block : 1 .. MaxTxs, relevant : BOOLEAN]
EventRow == [tx : 1 .. MaxTxs, kind : Kind]
UtxoRow == [owner : Addresses, created : 1 .. MaxTxs, spent : 0 .. MaxTxs]

\* The types of the rows.
LEMMA RowTypes ==
  ASSUME TypeOK
  PROVE  /\ MaxTxs \in Nat
         /\ txs \in Seq(TxRow) /\ events \in Seq(EventRow) /\ utxos \in Seq(UtxoRow)
         /\ Len(txs) \in Nat /\ DOMAIN txs = 1 .. Len(txs)
         /\ Len(events) \in Nat /\ DOMAIN events = 1 .. Len(events)
         /\ Len(utxos) \in Nat /\ DOMAIN utxos = 1 .. Len(utxos)
         /\ \A i \in DOMAIN txs : txs[i] \in TxRow
         /\ \A e \in DOMAIN events : events[e] \in EventRow
         /\ \A u \in DOMAIN utxos : utxos[u] \in UtxoRow
<1>1. MaxTxs \in Nat
  BY ItemsAssumption DEF ItemsAssumption
<1>2. txs \in Seq(TxRow) /\ events \in Seq(EventRow) /\ utxos \in Seq(UtxoRow)
  BY DEF TypeOK, TxRow, EventRow, UtxoRow
<1>3. /\ Len(txs) \in Nat /\ DOMAIN txs = 1 .. Len(txs)
      /\ Len(events) \in Nat /\ DOMAIN events = 1 .. Len(events)
      /\ Len(utxos) \in Nat /\ DOMAIN utxos = 1 .. Len(utxos)
  BY <1>2, LenProperties
<1>4. /\ \A i \in DOMAIN txs : txs[i] \in TxRow
      /\ \A e \in DOMAIN events : events[e] \in EventRow
      /\ \A u \in DOMAIN utxos : utxos[u] \in UtxoRow
  BY <1>2, <1>3, ElementOfSeq
<1>5. QED
  BY <1>1, <1>2, <1>3, <1>4

\* The last block is that of the last transaction, and no block is later.
LEMMA LastBlockIs ==
  ASSUME TypeOK, TablesOK
  PROVE  /\ LastBlock \in 0 .. MaxTxs
         /\ \A i \in DOMAIN txs : txs[i].block \in 1 .. LastBlock
         /\ txs = <<>> <=> LastBlock = 0
         /\ txs # <<>> => Len(txs) \in DOMAIN txs /\ LastBlock = txs[Len(txs)].block
<1>1. txs = <<>> <=> Len(txs) = 0
  BY RowTypes, EmptySeq
<1>2. CASE txs = <<>>
  BY <1>1, <1>2, RowTypes DEF LastBlock
<1>3. CASE txs # <<>>
  <2>1. Len(txs) \in DOMAIN txs
    BY <1>1, <1>3, RowTypes
  <2>2. LastBlock = txs[Len(txs)].block
    BY <1>3 DEF LastBlock
  <2>3. \A i \in DOMAIN txs : txs[i].block \in 1 .. MaxTxs
    BY RowTypes DEF TxRow
  <2>4. \A i \in DOMAIN txs : txs[i].block <= LastBlock
    BY <2>1, <2>2, RowTypes DEF TablesOK
  <2>5. QED
    BY <1>3, <2>1, <2>2, <2>3, <2>4, RowTypes
<1>4. QED
  BY <1>2, <1>3

\* The keys of the items of the tables.
LEMMA KeyOfItem ==
  ASSUME TypeOK, NEW i \in Item, i.tx \in DOMAIN txs
  PROVE  /\ KeyOf(i) \in Key
         /\ KeyOf(i)[1] = txs[i.tx].block /\ KeyOf(i)[2] = i.tx
         /\ KeyOf(i)[3] = i.phase /\ KeyOf(i)[4] = i.ord
         /\ txs[i.tx].block \in 1 .. MaxTxs
         /\ Less(NoCursor, KeyOf(i))
<1>1. txs[i.tx].block \in 1 .. MaxTxs /\ MaxTxs \in Nat
  BY RowTypes DEF TxRow
<1>2. KeyOf(i) \in Key
  BY <1>1 DEF KeyOf, Key, Item
<1>3. NoCursor \in Key
  BY DEF NoCursor, Key
<1>4. /\ KeyOf(i)[1] = txs[i.tx].block /\ KeyOf(i)[2] = i.tx
      /\ KeyOf(i)[3] = i.phase /\ KeyOf(i)[4] = i.ord
  BY DEF KeyOf
<1>5. NoCursor[1] = 0
  BY DEF NoCursor
<1>6. Less(NoCursor, KeyOf(i))
  BY <1>1, <1>2, <1>3, <1>4, <1>5, LessByParts
<1>7. QED
  BY <1>1, <1>2, <1>4, <1>6

\* What the queries for a block find are rows of its transactions.
LEMMA QueryRows ==
  ASSUME TypeOK, TablesOK, NEW h
  PROVE  /\ TxsOf(h) \subseteq DOMAIN txs
         /\ DOMAIN txs \subseteq 1 .. MaxTxs
         /\ \A e \in ZswapInputs(h) :
              e \in DOMAIN events /\ events[e].tx \in TxsOf(h) /\ events[e].kind = "input"
         /\ \A e \in DustEvents(h) :
              e \in DOMAIN events /\ events[e].tx \in TxsOf(h) /\ events[e].kind # "input"
         /\ \A u \in Creates(h) : u \in DOMAIN utxos /\ utxos[u].created \in TxsOf(h)
         /\ \A u \in Spends(h) :
              u \in DOMAIN utxos /\ utxos[u].spent \in TxsOf(h) /\ utxos[u].spent # 0
         /\ WalletTxs(h) \subseteq TxsOf(h)
<1>1. TxsOf(h) \subseteq DOMAIN txs /\ DOMAIN txs \subseteq 1 .. MaxTxs
  BY RowTypes DEF TxsOf, TablesOK
<1>2. \A e \in ZswapInputs(h) :
        e \in DOMAIN events /\ events[e].tx \in TxsOf(h) /\ events[e].kind = "input"
  BY DEF ZswapInputs, EventsOf
<1>3. profile.dust \in DustKeys /\ "input" \notin DustKeys
  BY ItemsAssumption DEF TypeOK, Profile, ItemsAssumption
<1>4. \A e \in DustEvents(h) :
        e \in DOMAIN events /\ events[e].tx \in TxsOf(h) /\ events[e].kind # "input"
  BY <1>3 DEF DustEvents, OwnDust, EveryDust, EventsOf
<1>5. \A u \in Creates(h) : u \in DOMAIN utxos /\ utxos[u].created \in TxsOf(h)
  BY DEF Creates, OwnUtxos
<1>6. \A u \in Spends(h) :
        u \in DOMAIN utxos /\ utxos[u].spent \in TxsOf(h) /\ utxos[u].spent # 0
  BY <1>1 DEF Spends, OwnUtxos
<1>7. WalletTxs(h) \subseteq TxsOf(h)
  BY <1>4, <1>5, <1>6 DEF WalletTxs, RelevantTxs
<1>8. QED
  BY <1>1, <1>2, <1>4, <1>5, <1>6, <1>7

\* So its items are of its transactions, and say what their keys say.
LEMMA BlockItemIs ==
  ASSUME TypeOK, TablesOK, NEW h, NEW i \in BlockItems(h)
  PROVE  /\ i \in Item /\ i.tx \in TxsOf(h) /\ Fits(i)
         /\ i.tx \in DOMAIN txs /\ txs[i.tx].block = h
<1>1. i \in Item /\ i.tx \in TxsOf(h) /\ Fits(i)
  <2>1. CASE i \in MetaItems(h)
    <3>1. PICK t \in WalletTxs(h) : i = ItemOf(t, PHASE_TX, 0, "meta")
      BY <2>1 DEF MetaItems
    <3>2. QED
      BY <3>1, QueryRows DEF ItemOf, Item, Fits, PHASE_TX
  <2>2. CASE i \in TxItems(h)
    <3>1. PICK t \in RelevantTxs(h) : i = ItemOf(t, PHASE_TX, 1, "tx")
      BY <2>2 DEF TxItems
    <3>2. QED
      BY <3>1, QueryRows DEF ItemOf, Item, Fits, PHASE_TX, RelevantTxs
  <2>3. CASE i \in LedgerItems(h)
    <3>1. CASE \E e \in ZswapInputs(h) : i = ItemOf(events[e].tx, PHASE_LEDGER_EVENT, e, "input")
      BY <3>1, QueryRows, RowTypes DEF ItemOf, Item, Fits, PHASE_LEDGER_EVENT
    <3>2. CASE \E e \in DustEvents(h) : i = ItemOf(events[e].tx, PHASE_LEDGER_EVENT, e, "dust")
      BY <3>2, QueryRows, RowTypes DEF ItemOf, Item, Fits, PHASE_LEDGER_EVENT
    <3>3. QED
      BY <2>3, <3>1, <3>2 DEF LedgerItems
  <2>4. CASE i \in UnshieldedItems(h)
    <3>1. CASE \E u \in Creates(h) : i = ItemOf(utxos[u].created, PHASE_UNSHIELDED, u, "create")
      BY <3>1, QueryRows, RowTypes DEF ItemOf, Item, Fits, PHASE_UNSHIELDED
    <3>2. CASE \E u \in Spends(h) : i = ItemOf(utxos[u].spent, PHASE_UNSHIELDED, u, "spend")
      BY <3>2, QueryRows, RowTypes DEF ItemOf, Item, Fits, PHASE_UNSHIELDED
    <3>3. QED
      BY <2>4, <3>1, <3>2 DEF UnshieldedItems
  <2>5. QED
    BY <2>1, <2>2, <2>3, <2>4 DEF BlockItems
<1>2. QED
  BY <1>1 DEF TxsOf

-----------------------------------------------------------------------------
(* What a new transaction changes.                                         *)

\* It and its rows come last; of the rows before, it only spends outputs.
RowsAdded(block) ==
  LET id == Len(txs) + 1
  IN  /\ id <= MaxTxs
      /\ block \in {LastBlock, LastBlock + 1} /\ block >= 1
      /\ block = LastBlock => next <= block
      /\ DOMAIN txs' = DOMAIN txs \cup {id} /\ Len(txs') = id
      /\ \A i \in DOMAIN txs : txs'[i] = txs[i]
      /\ txs'[id].block = block /\ txs'[id] \in TxRow
      /\ DOMAIN events \subseteq DOMAIN events'
      /\ \A e \in DOMAIN events : events'[e] = events[e]
      /\ \A e \in DOMAIN events' \ DOMAIN events : events'[e].tx = id
      /\ DOMAIN utxos \subseteq DOMAIN utxos'
      /\ \A u \in DOMAIN utxos :
           /\ utxos'[u].owner = utxos[u].owner /\ utxos'[u].created = utxos[u].created
           /\ utxos'[u].spent = utxos[u].spent \/ (utxos[u].spent = 0 /\ utxos'[u].spent = id)
      /\ \A u \in DOMAIN utxos' \ DOMAIN utxos :
           /\ utxos'[u].created = id
           /\ utxos'[u].spent = 0 \/ (utxos'[u].spent = id /\ SelfSpends)
      /\ txs' \in Seq(TxRow) /\ events' \in Seq(EventRow) /\ utxos' \in Seq(UtxoRow)

\* A sequence with each element replaced by one of another set.
LEMMA MappedSeq ==
  ASSUME NEW S, NEW T, NEW s \in Seq(S), NEW t, DOMAIN t = DOMAIN s,
         t = [i \in DOMAIN s |-> t[i]], \A i \in DOMAIN s : t[i] \in T
  PROVE  t \in Seq(T) /\ Len(t) = Len(s)
<1>1. Len(s) \in Nat /\ DOMAIN s = 1 .. Len(s)
  BY LenProperties
<1>2. t \in [1 .. Len(s) -> T]
  BY <1>1
<1>3. t \in Seq(T)
  BY <1>1, <1>2, SeqDef
<1>4. QED
  BY <1>1, <1>3, LenProperties

\* A new transaction is one that adds its rows.
LEMMA AddTxAddsRows ==
  ASSUME TypeOK, NEW shape \in Shapes, NEW block \in 1 .. MaxTxs, AddTx(shape, block)
  PROVE  RowsAdded(block)
<1> DEFINE id      == Len(txs) + 1
           created == [i \in DOMAIN shape.creates |->
                         [owner |-> shape.creates[i], created |-> id, spent |-> 0]]
           emitted == [i \in DOMAIN shape.events |-> [tx |-> id, kind |-> shape.events[i]]]
           all     == utxos \o created
           free    == {u \in DOMAIN all : all[u].spent = 0 /\ (SelfSpends \/ all[u].created < id)}
<1>1. /\ id <= MaxTxs /\ id \in 1 .. MaxTxs
      /\ shape.relevant \in BOOLEAN /\ shape.events \in Seq(Kind) /\ shape.creates \in Seq(Addresses)
  BY RowTypes, ItemsAssumption DEF AddTx, Shape, ItemsAssumption
<1>2. /\ block \in {LastBlock, LastBlock + 1} /\ block >= 1
      /\ block = LastBlock => next <= block
      /\ txs' = Append(txs, [block |-> block, relevant |-> shape.relevant])
      /\ events' = events \o emitted
  BY DEF AddTx
<1>3. PICK spends \in SUBSET free :
        utxos' = [u \in DOMAIN all |->
                    IF u \in spends THEN [all[u] EXCEPT !.spent = id] ELSE all[u]]
  BY DEF AddTx
<1>4. [block |-> block, relevant |-> shape.relevant] \in TxRow
  BY <1>1 DEF TxRow
<1>5. /\ DOMAIN txs' = DOMAIN txs \cup {id} /\ Len(txs') = id
      /\ \A i \in DOMAIN txs : txs'[i] = txs[i]
      /\ txs'[id].block = block /\ txs'[id] \in TxRow
      /\ txs' \in Seq(TxRow)
  <2> DEFINE row == [block |-> block, relevant |-> shape.relevant]
  <2>1. row \in TxRow /\ row.block = block
    BY <1>4
  <2>2. txs' = Append(txs, row)
    BY <1>2
  <2> HIDE DEF row
  <2>3. txs' \in Seq(TxRow) /\ Len(txs') = id
    BY <2>1, <2>2, RowTypes
  <2>4. txs'[id] = row /\ \A i \in 1 .. Len(txs) : txs'[i] = txs[i]
    BY <2>1, <2>2, RowTypes
  <2>5. DOMAIN txs' = 1 .. id
    BY <2>3, LenProperties
  <2>6. QED
    BY <2>1, <2>3, <2>4, <2>5, RowTypes
<1>6. emitted \in Seq(EventRow) /\ \A i \in DOMAIN emitted : emitted[i].tx = id
  <2>1. \A i \in DOMAIN shape.events : shape.events[i] \in Kind
    BY <1>1, ElementOfSeq, LenProperties
  <2>2. \A i \in DOMAIN shape.events : emitted[i] \in EventRow
    BY <1>1, <2>1 DEF EventRow
  <2>3. emitted \in Seq(EventRow)
    BY <1>1, <2>2, MappedSeq
  <2>4. QED
    BY <2>3
<1>7. created \in Seq(UtxoRow) /\ \A i \in DOMAIN created : created[i].created = id /\ created[i].spent = 0
  <2>1. \A i \in DOMAIN shape.creates : shape.creates[i] \in Addresses
    BY <1>1, ElementOfSeq, LenProperties
  <2>2. \A i \in DOMAIN shape.creates : created[i] \in UtxoRow
    BY <1>1, <2>1, RowTypes DEF UtxoRow
  <2>3. created \in Seq(UtxoRow)
    BY <1>1, <2>2, MappedSeq
  <2>4. QED
    BY <2>3
<1>8. /\ events' \in Seq(EventRow)
      /\ DOMAIN events \subseteq DOMAIN events'
      /\ \A e \in DOMAIN events : events'[e] = events[e]
      /\ \A e \in DOMAIN events' \ DOMAIN events : events'[e].tx = id
  <2> HIDE DEF emitted, id
  <2>1. /\ events' \in Seq(EventRow) /\ Len(events') = Len(events) + Len(emitted)
        /\ \A i \in 1 .. Len(events) + Len(emitted) :
             events'[i] = IF i <= Len(events) THEN events[i] ELSE emitted[i - Len(events)]
    BY <1>2, <1>6, RowTypes, ConcatProperties
  <2>2. Len(emitted) \in Nat /\ DOMAIN emitted = 1 .. Len(emitted)
    BY <1>6, LenProperties
  <2>3. DOMAIN events' = 1 .. Len(events) + Len(emitted)
    BY <2>1, LenProperties
  <2>4. \A e \in DOMAIN events' \ DOMAIN events : e - Len(events) \in DOMAIN emitted
    BY <2>2, <2>3, RowTypes
  <2>5. QED
    BY <1>6, <2>1, <2>2, <2>3, <2>4, RowTypes
<1>9. /\ all \in Seq(UtxoRow) /\ DOMAIN utxos \subseteq DOMAIN all
      /\ \A u \in DOMAIN utxos : all[u] = utxos[u]
      /\ \A u \in DOMAIN all \ DOMAIN utxos : all[u].created = id /\ all[u].spent = 0
  <2> HIDE DEF created, id
  <2>1. /\ all \in Seq(UtxoRow) /\ Len(all) = Len(utxos) + Len(created)
        /\ \A i \in 1 .. Len(utxos) + Len(created) :
             all[i] = IF i <= Len(utxos) THEN utxos[i] ELSE created[i - Len(utxos)]
    BY <1>7, RowTypes, ConcatProperties
  <2> HIDE DEF all
  <2>2. Len(created) \in Nat /\ DOMAIN created = 1 .. Len(created)
    BY <1>7, LenProperties
  <2>3. DOMAIN all = 1 .. Len(utxos) + Len(created)
    BY <2>1, LenProperties
  <2>4. \A u \in DOMAIN all \ DOMAIN utxos : u - Len(utxos) \in DOMAIN created
    BY <2>2, <2>3, RowTypes
  <2>5. QED
    BY <1>7, <2>1, <2>2, <2>3, <2>4, RowTypes
<1>10. /\ utxos' \in Seq(UtxoRow) /\ DOMAIN utxos' = DOMAIN all
       /\ \A u \in DOMAIN all :
            /\ utxos'[u].owner = all[u].owner /\ utxos'[u].created = all[u].created
            /\ utxos'[u].spent = all[u].spent \/ (u \in free /\ utxos'[u].spent = id)
  <2> HIDE DEF all, id, free
  <2>1. \A u \in DOMAIN all : all[u] \in UtxoRow
    BY <1>9, ElementOfSeq, LenProperties
  <2>2. \A u \in DOMAIN all : utxos'[u] = IF u \in spends THEN [all[u] EXCEPT !.spent = id] ELSE all[u]
    BY <1>3
  <2>3. ASSUME NEW u \in DOMAIN all
        PROVE  /\ utxos'[u] \in UtxoRow
               /\ utxos'[u].owner = all[u].owner /\ utxos'[u].created = all[u].created
               /\ utxos'[u].spent = all[u].spent \/ (u \in free /\ utxos'[u].spent = id)
    <3>1. id \in 0 .. MaxTxs
      BY <1>1, RowTypes
    <3>2. QED
      BY <1>3, <2>1, <2>2, <3>1 DEF UtxoRow
  <2>4. DOMAIN utxos' = DOMAIN all /\ utxos' = [u \in DOMAIN all |-> utxos'[u]]
    BY <1>3
  <2>5. utxos' \in Seq(UtxoRow)
    BY <1>9, <2>3, <2>4, MappedSeq
  <2>6. QED
    BY <2>3, <2>4, <2>5
<1>11. \A u \in free : all[u].spent = 0 /\ (SelfSpends \/ all[u].created < id)
  OBVIOUS
<1>12. /\ DOMAIN utxos \subseteq DOMAIN utxos'
       /\ \A u \in DOMAIN utxos :
            /\ utxos'[u].owner = utxos[u].owner /\ utxos'[u].created = utxos[u].created
            /\ utxos'[u].spent = utxos[u].spent \/ (utxos[u].spent = 0 /\ utxos'[u].spent = id)
       /\ \A u \in DOMAIN utxos' \ DOMAIN utxos :
            /\ utxos'[u].created = id
            /\ utxos'[u].spent = 0 \/ (utxos'[u].spent = id /\ SelfSpends)
  <2>1. id \in Nat
    BY RowTypes
  <2> HIDE DEF all, id, free
  <2>2. QED
    BY <1>9, <1>10, <1>11, <2>1
<1>13. QED
  BY <1>1, <1>2, <1>5, <1>8, <1>10, <1>12 DEF RowsAdded

\* The keys of the items there are stay.
LEMMA KeysStand ==
  ASSUME NEW block, RowsAdded(block), NEW i, i.tx \in DOMAIN txs
  PROVE  KeyOf(i)' = KeyOf(i)
BY DEF KeyOf, RowsAdded

\* The transactions of a block and what the queries find grow by the new one.
LEMMA QueriesGrow ==
  ASSUME TypeOK, TablesOK, NEW block, RowsAdded(block), profile' = profile, NEW h
  PROVE  LET id == Len(txs) + 1
         IN  /\ TxsOf(h) \subseteq TxsOf(h)'
             /\ TxsOf(h)' \subseteq TxsOf(h) \cup (IF h = block THEN {id} ELSE {})
             /\ RelevantTxs(h) = RelevantTxs(h)' \ {id}
             /\ ZswapInputs(h) \subseteq ZswapInputs(h)'
             /\ \A e \in ZswapInputs(h)' : e \in ZswapInputs(h) \/ events'[e].tx = id
             /\ DustEvents(h) \subseteq DustEvents(h)'
             /\ \A e \in DustEvents(h)' : e \in DustEvents(h) \/ events'[e].tx = id
             /\ Creates(h) \subseteq Creates(h)'
             /\ \A u \in Creates(h)' : u \in Creates(h) \/ utxos'[u].created = id
             /\ Spends(h) \subseteq Spends(h)'
             /\ \A u \in Spends(h)' : u \in Spends(h) \/ utxos'[u].spent = id
             /\ \A u \in DOMAIN utxos :
                  utxos[u].spent \in DOMAIN txs => utxos'[u].spent = utxos[u].spent
<1> DEFINE id == Len(txs) + 1
<1>1. /\ id \in Nat /\ id \notin DOMAIN txs /\ 0 \notin DOMAIN txs
      /\ \A i \in DOMAIN txs : txs[i].block \in 1 .. MaxTxs
  BY RowTypes DEF TxRow
<1>2. /\ DOMAIN txs' = DOMAIN txs \cup {id}
      /\ \A i \in DOMAIN txs : txs'[i] = txs[i]
      /\ txs'[id].block = block
  BY DEF RowsAdded
<1> HIDE DEF id
<1>3. /\ TxsOf(h) \subseteq TxsOf(h)'
      /\ TxsOf(h)' \subseteq TxsOf(h) \cup (IF h = block THEN {id} ELSE {})
      /\ TxsOf(h) = TxsOf(h)' \ {id}
  BY <1>1, <1>2 DEF TxsOf
<1>4. RelevantTxs(h) = RelevantTxs(h)' \ {id}
  <2>1. \A i \in TxsOf(h) : i \in DOMAIN txs
    BY DEF TxsOf
  <2>2. QED
    BY <1>1, <1>2, <1>3, <2>1 DEF RelevantTxs
<1>5. /\ DOMAIN events \subseteq DOMAIN events'
      /\ \A e \in DOMAIN events : events'[e] = events[e]
      /\ \A e \in DOMAIN events' \ DOMAIN events : events'[e].tx = id
      /\ \A e \in DOMAIN events : events[e].tx \in DOMAIN txs
  BY DEF RowsAdded, TablesOK, id
<1>6. ASSUME NEW kinds
      PROVE  LET old == EventsOf(h, kinds)
                 new == {e \in DOMAIN events' : events'[e].tx \in TxsOf(h)' /\ events'[e].kind \in kinds}
             IN  /\ old \subseteq new
                 /\ \A e \in new : e \in old \/ events'[e].tx = id
  BY <1>1, <1>3, <1>5 DEF EventsOf
<1>7. /\ ZswapInputs(h) \subseteq ZswapInputs(h)'
      /\ \A e \in ZswapInputs(h)' : e \in ZswapInputs(h) \/ events'[e].tx = id
  BY <1>6 DEF ZswapInputs, EventsOf
<1>8. /\ DustEvents(h) \subseteq DustEvents(h)'
      /\ \A e \in DustEvents(h)' : e \in DustEvents(h) \/ events'[e].tx = id
  <2> DEFINE kinds == IF AllDust THEN DustKeys \cup {"dustSpend"} ELSE {profile.dust, "dustSpend"}
             new   == {e \in DOMAIN events' : events'[e].tx \in TxsOf(h)' /\ events'[e].kind \in kinds}
  <2>1. DustEvents(h) = EventsOf(h, kinds)
    BY DEF DustEvents, OwnDust, EveryDust
  <2>2. DustEvents(h)' = new
    BY DEF DustEvents, OwnDust, EveryDust, EventsOf
  <2> HIDE DEF kinds
  <2>3. EventsOf(h, kinds) \subseteq new /\ \A e \in new : e \in EventsOf(h, kinds) \/ events'[e].tx = id
    BY <1>6
  <2>4. QED
    BY <2>1, <2>2, <2>3
<1>9. /\ DOMAIN utxos \subseteq DOMAIN utxos'
      /\ \A u \in DOMAIN utxos :
           /\ utxos'[u].owner = utxos[u].owner /\ utxos'[u].created = utxos[u].created
           /\ utxos'[u].spent = utxos[u].spent \/ (utxos[u].spent = 0 /\ utxos'[u].spent = id)
      /\ \A u \in DOMAIN utxos' \ DOMAIN utxos :
           /\ utxos'[u].created = id
           /\ utxos'[u].spent = 0 \/ (utxos'[u].spent = id /\ SelfSpends)
      /\ \A u \in DOMAIN utxos : utxos[u].created \in DOMAIN txs
  BY DEF RowsAdded, TablesOK, id
<1>10. OwnUtxos \subseteq OwnUtxos' /\ OwnUtxos' \cap DOMAIN utxos = OwnUtxos
  BY <1>9 DEF OwnUtxos
<1>11. \A u \in OwnUtxos : u \in DOMAIN utxos
  BY DEF OwnUtxos
<1>12. \A u \in OwnUtxos' : u \in DOMAIN utxos'
  BY DEF OwnUtxos
<1>13. /\ Creates(h) \subseteq Creates(h)'
       /\ \A u \in Creates(h)' : u \in Creates(h) \/ utxos'[u].created = id
  BY <1>1, <1>3, <1>9, <1>10, <1>11, <1>12 DEF Creates
<1>14. 0 \notin TxsOf(h) /\ id \notin TxsOf(h)
  BY <1>1 DEF TxsOf
<1>15. 0 \notin TxsOf(h)'
  BY <1>1, <1>2, <1>3, <1>14, RowTypes DEF id
<1>16. /\ Spends(h) \subseteq Spends(h)'
       /\ \A u \in Spends(h)' : u \in Spends(h) \/ utxos'[u].spent = id
  BY <1>3, <1>9, <1>10, <1>11, <1>12, <1>14, <1>15 DEF Spends
<1>17. \A u \in DOMAIN utxos : utxos[u].spent \in DOMAIN txs => utxos'[u].spent = utxos[u].spent
  BY <1>1, <1>9
<1>18. QED
  BY <1>3, <1>4, <1>7, <1>8, <1>13, <1>16, <1>17 DEF id

\* The items of a block stay, and the new ones are of the new transaction.
LEMMA BlockItemsGrow ==
  ASSUME TypeOK, TablesOK, NEW block, RowsAdded(block), profile' = profile, NEW h
  PROVE  /\ BlockItems(h) \subseteq BlockItems(h)'
         /\ \A i \in BlockItems(h)' : i \in BlockItems(h) \/ i.tx = Len(txs) + 1
<1> DEFINE id == Len(txs) + 1
<1>1. WalletTxs(h) \subseteq WalletTxs(h)' /\ WalletTxs(h)' \subseteq WalletTxs(h) \cup {id}
  <2>1. /\ \A e \in DustEvents(h) : events'[e].tx = events[e].tx
        /\ \A u \in Creates(h) : utxos'[u].created = utxos[u].created
        /\ \A u \in Spends(h) : utxos'[u].spent = utxos[u].spent
    BY QueryRows, QueriesGrow DEF RowsAdded
  <2>2. QED
    BY <2>1, QueriesGrow DEF WalletTxs
<1>2. MetaItems(h) \subseteq MetaItems(h)' /\ \A i \in MetaItems(h)' : i \in MetaItems(h) \/ i.tx = id
  BY <1>1 DEF MetaItems, ItemOf
<1>3. TxItems(h) \subseteq TxItems(h)' /\ \A i \in TxItems(h)' : i \in TxItems(h) \/ i.tx = id
  BY QueriesGrow DEF TxItems, ItemOf
<1>4. /\ LedgerItems(h) \subseteq LedgerItems(h)'
      /\ \A i \in LedgerItems(h)' : i \in LedgerItems(h) \/ i.tx = id
  <2>1. \A e \in ZswapInputs(h) \cup DustEvents(h) : events'[e].tx = events[e].tx
    BY QueryRows DEF RowsAdded
  <2>2. QED
    BY <2>1, QueriesGrow DEF LedgerItems, ItemOf
<1>5. /\ UnshieldedItems(h) \subseteq UnshieldedItems(h)'
      /\ \A i \in UnshieldedItems(h)' : i \in UnshieldedItems(h) \/ i.tx = id
  <2>1. /\ \A u \in Creates(h) : utxos'[u].created = utxos[u].created
        /\ \A u \in Spends(h) : utxos'[u].spent = utxos[u].spent
    BY QueryRows, QueriesGrow DEF RowsAdded
  <2>2. QED
    BY <2>1, QueriesGrow DEF UnshieldedItems, ItemOf
<1>6. QED
  BY <1>2, <1>3, <1>4, <1>5 DEF BlockItems

-----------------------------------------------------------------------------
(* The types and the order of what is applied: ItemsInv.                   *)

\* The empty tables.
LEMMA InitItems == Init => ItemsInv
<1> SUFFICES ASSUME Init PROVE ItemsInv
  OBVIOUS
<1>1. TypeOK /\ profile \in Profiles /\ wanted \in Profiles
  <2>1. profile \in Profiles /\ profile \in Profile /\ wanted = profile
    BY ItemsAssumption DEF Init, ItemsAssumption
  <2>2. MaxTxs \in Nat /\ MaxDrops \in Nat /\ MaxUpdates \in Nat /\ MaxLost \in Nat
    BY ItemsAssumption DEF ItemsAssumption
  <2>3. txs = <<>> /\ events = <<>> /\ utxos = <<>>
    BY DEF Init
  <2>4. /\ txs \in Seq([block : 1 .. MaxTxs, relevant : BOOLEAN])
        /\ events \in Seq([tx : 1 .. MaxTxs, kind : Kind])
        /\ utxos \in Seq([owner : Addresses, created : 1 .. MaxTxs, spent : 0 .. MaxTxs])
    BY <2>3, EmptySeq
  <2>5. QED
    BY <2>1, <2>2, <2>4 DEF Init, TypeOK, NoCursor
<1>2. Len(txs) = 0 /\ DOMAIN txs = {} /\ DOMAIN events = {} /\ DOMAIN utxos = {}
  BY DEF Init
<1>3. TablesOK
  BY <1>1, <1>2, RowTypes DEF TablesOK
<1>4. StreamOK /\ CursorParts
  BY <1>1, <1>2, <1>3, LastBlockIs DEF StreamOK, CursorParts, Init
<1>5. QED
  BY <1>1, <1>3, <1>4 DEF ItemsInv

\* A new transaction comes after all that the stream and the client know.
LEMMA AddTxKeeps ==
  ASSUME ItemsInv, NEW shape \in Shapes, NEW block \in 1 .. MaxTxs, AddTx(shape, block)
  PROVE  ItemsInv' /\ RowsAdded(block) /\ LastBlock' = block
<1> DEFINE id == Len(txs) + 1
<1>1. RowsAdded(block) /\ UNCHANGED <<putVars, streamVars, clientVars, drops>>
  BY AddTxAddsRows DEF ItemsInv, AddTx
<1>2. TypeOK'
  <2>1. /\ TxRow' = TxRow /\ EventRow' = EventRow /\ UtxoRow' = UtxoRow
        /\ txs' \in Seq(TxRow) /\ events' \in Seq(EventRow) /\ utxos' \in Seq(UtxoRow)
    BY <1>1 DEF RowsAdded, TxRow, EventRow, UtxoRow, Kind
  <2>2. QED
    BY <1>1, <2>1 DEF ItemsInv, TypeOK, TxRow, EventRow, UtxoRow, putVars, streamVars, clientVars
<1>3. /\ id \in Nat /\ DOMAIN txs = 1 .. Len(txs) /\ Len(txs) \in Nat /\ 0 \notin DOMAIN txs
      /\ LastBlock \in 0 .. MaxTxs
      /\ \A i \in DOMAIN txs : txs[i].block \in 1 .. LastBlock
      /\ MaxTxs \in Nat
  BY RowTypes, LastBlockIs DEF ItemsInv
<1>4. /\ DOMAIN txs' = DOMAIN txs \cup {id} /\ Len(txs') = id
      /\ \A i \in DOMAIN txs : txs'[i] = txs[i]
      /\ txs'[id].block = block
      /\ id <= MaxTxs /\ block \in {LastBlock, LastBlock + 1} /\ block >= 1
      /\ block = LastBlock => next <= block
  BY <1>1 DEF RowsAdded
<1>5. TablesOK'
  <2>1. \A i, j \in DOMAIN txs' : i <= j => txs'[i].block <= txs'[j].block
    <3> SUFFICES ASSUME NEW i \in DOMAIN txs', NEW j \in DOMAIN txs', i <= j
                 PROVE  txs'[i].block <= txs'[j].block
      OBVIOUS
    <3> HIDE DEF id
    <3>1. \A k \in DOMAIN txs : txs[k].block <= block
      BY <1>3, <1>4
    <3>2. CASE j \in DOMAIN txs
      <4>1. i \in DOMAIN txs
        BY <1>3, <1>4, <3>2 DEF id
      <4>2. QED
        BY <1>4, <3>2, <4>1 DEF ItemsInv, TablesOK
    <3>3. CASE j = id
      <4>1. txs'[j].block = block /\ block <= block
        BY <1>3, <1>4, <3>3
      <4>2. QED
        BY <1>4, <3>1, <3>3, <4>1
    <3>4. QED
      BY <1>4, <3>2, <3>3
  <2>2. \A e \in DOMAIN events' : events'[e].tx \in DOMAIN txs'
    BY <1>1 DEF RowsAdded, ItemsInv, TablesOK
  <2>3. ASSUME NEW u \in DOMAIN utxos'
        PROVE  /\ utxos'[u].created \in DOMAIN txs'
               /\ utxos'[u].spent # 0 =>
                    /\ utxos'[u].spent \in DOMAIN txs'
                    /\ utxos'[u].created < utxos'[u].spent \/ SelfSpends
    <3>1. CASE u \in DOMAIN utxos
      <4>1. /\ utxos[u].created \in DOMAIN txs
            /\ utxos[u].spent # 0 =>
                 /\ utxos[u].spent \in DOMAIN txs
                 /\ utxos[u].created < utxos[u].spent \/ SelfSpends
        BY <3>1 DEF ItemsInv, TablesOK
      <4>2. /\ utxos'[u].created = utxos[u].created
            /\ utxos'[u].spent = utxos[u].spent \/ (utxos[u].spent = 0 /\ utxos'[u].spent = id)
        BY <1>1, <3>1 DEF RowsAdded
      <4>3. \A i \in DOMAIN txs : i < id
        BY <1>3
      <4> HIDE DEF id
      <4>4. QED
        BY <1>4, <4>1, <4>2, <4>3
    <3>2. CASE u \notin DOMAIN utxos
      BY <1>1, <1>4, <3>2 DEF RowsAdded
    <3>3. QED
      BY <3>1, <3>2
  <2>4. QED
    BY <1>4, <2>1, <2>2, <2>3 DEF TablesOK
<1>6. LastBlock' = block
  <2>1. txs' # <<>>
    BY <1>3, <1>4
  <2>2. QED
    BY <1>4, <2>1 DEF LastBlock
<1>7. StreamOK'
  <2>1. next <= LastBlock' + 1
    BY <1>3, <1>4, <1>6 DEF ItemsInv, StreamOK, TypeOK
  <2>2. \A i \in wire \cup held : i.tx \in DOMAIN txs' /\ txs'[i.tx] = txs[i.tx]
    BY <1>4 DEF ItemsInv, StreamOK
  <2>3. cursor # NoCursor => cursor[2] \in DOMAIN txs' /\ cursor[1] = txs'[cursor[2]].block
    BY <1>4 DEF ItemsInv, StreamOK
  <2>4. QED
    BY <1>1, <2>1, <2>2, <2>3 DEF ItemsInv, StreamOK, putVars, streamVars, clientVars
<1>8. CursorParts'
  <2>1. \A i \in wire \cup held : KeyOf(i)' = KeyOf(i)
    BY <1>1, KeysStand DEF ItemsInv, StreamOK
  <2>2. \A j, k : Less(j, k)' <=> Less(j, k)
    BY DEF Less
  <2>3. QED
    BY <1>1, <2>1 DEF ItemsInv, CursorParts, streamVars, clientVars, Less
<1>9. QED
  BY <1>1, <1>2, <1>5, <1>6, <1>7, <1>8 DEF ItemsInv, putVars

\* The cursor compares with the keys of the items there are.
LEMMA CursorIsKey ==
  ASSUME ItemsInv
  PROVE  /\ cursor \in Key /\ NoCursor \in Key /\ NoCursor[1] = 0
         /\ \A i \in wire \cup held : i \in Item /\ i.tx \in DOMAIN txs /\ KeyOf(i) \in Key
         /\ cursor # NoCursor => cursor[1] \in 1 .. LastBlock
<1>1. cursor \in Key /\ NoCursor \in Key /\ NoCursor[1] = 0
  BY DEF ItemsInv, TypeOK, Key, NoCursor
<1>2. \A i \in wire \cup held : i \in Item /\ i.tx \in DOMAIN txs /\ KeyOf(i) \in Key
  BY KeyOfItem DEF ItemsInv, TypeOK, StreamOK
<1>3. cursor # NoCursor => cursor[1] \in 1 .. LastBlock
  BY LastBlockIs DEF ItemsInv, StreamOK
<1>4. QED
  BY <1>1, <1>2, <1>3

\* What is sent of a block lies behind the cursor.
LEMMA RetainedIs ==
  ASSUME ItemsInv, next \in 1 .. LastBlock
  PROVE  /\ Retained(BlockItems(next), next) \subseteq BlockItems(next)
         /\ \A i \in Retained(BlockItems(next), next) : Less(cursor, KeyOf(i))
         /\ \A i \in BlockItems(next) :
              i \in Retained(BlockItems(next), next) \/ (wire = {} /\ ~Less(cursor, KeyOf(i)))
<1>1. \A i \in BlockItems(next) :
        i.tx \in DOMAIN txs /\ KeyOf(i) \in Key /\ KeyOf(i)[1] = next
  BY BlockItemIs, KeyOfItem DEF ItemsInv
<1>2. next # 0 /\ LastBlock \in Nat
  BY LastBlockIs DEF ItemsInv
<1>3. CASE fromCursor = NoCursor /\ cursor[1] < next
  <2>1. fromCursor[1] # next
    BY <1>2, <1>3 DEF NoCursor
  <2>2. \A i \in BlockItems(next) : Less(cursor, KeyOf(i))
    BY <1>1, <1>3, CursorIsKey, LessByParts
  <2>3. QED
    BY <2>1, <2>2 DEF Retained
<1>4. CASE fromCursor = cursor /\ next = cursor[1] /\ wire = {}
  BY <1>4 DEF Retained
<1>5. QED
  BY <1>2, <1>3, <1>4 DEF ItemsInv, StreamOK

\* Building a block.
LEMMA SendKeeps ==
  ASSUME ItemsInv, SendBlock
  PROVE  ItemsInv'
<1> DEFINE sent == Retained(BlockItems(next), next)
<1>1. /\ next \in 1 .. LastBlock /\ wire' = wire \cup sent
      /\ fromCursor' = IF fromCursor[1] = next THEN NoCursor ELSE fromCursor
      /\ next' = next + 1
      /\ UNCHANGED <<tableVars, putVars, clientVars, drops>>
  BY DEF SendBlock
<1>2. \A i \in sent :
        /\ i \in Item /\ i.tx \in DOMAIN txs /\ txs[i.tx].block = next
        /\ Less(cursor, KeyOf(i)) /\ KeyOf(i) \in Key
  BY <1>1, RetainedIs, BlockItemIs, KeyOfItem DEF ItemsInv
<1>3. LastBlock \in 0 .. MaxTxs /\ MaxTxs \in Nat
  BY LastBlockIs, RowTypes DEF ItemsInv
<1> HIDE DEF sent
<1>4. TypeOK'
  <2>1. wire' \subseteq Item
    BY <1>1, <1>2 DEF ItemsInv, TypeOK
  <2>2. next' \in 0 .. MaxTxs + 1
    BY <1>1, <1>3
  <2>3. fromCursor' \in Nat \X Nat \X (0 .. 2) \X Nat
    BY <1>1 DEF ItemsInv, TypeOK, NoCursor
  <2>4. QED
    BY <1>1, <2>1, <2>2, <2>3 DEF ItemsInv, TypeOK, tableVars, putVars, clientVars
<1>5. TablesOK'
  BY <1>1 DEF ItemsInv, TablesOK, tableVars
<1>6. StreamOK'
  <2>1. LastBlock' = LastBlock
    BY <1>1 DEF LastBlock, tableVars
  <2>2. fromCursor' = NoCursor /\ cursor[1] < next'
    <3>1. next # 0 /\ next \in Nat /\ cursor[1] \in Nat
      BY <1>1, <1>3 DEF ItemsInv, TypeOK
    <3>2. QED
      BY <1>1, <3>1 DEF ItemsInv, StreamOK
  <2>3. next' # 0 /\ next' <= LastBlock + 1 /\ next < next'
    BY <1>1, <1>3
  <2>4. \A i \in wire : txs[i.tx].block < next'
    BY <1>1, <1>3, KeyOfItem, CursorIsKey DEF ItemsInv, StreamOK
  <2>5. QED
    BY <1>1, <1>2, <2>1, <2>2, <2>3, <2>4 DEF ItemsInv, StreamOK, tableVars, clientVars
<1>7. CursorParts'
  <2>1. \A i \in sent : i \notin held /\ ~Less(KeyOf(i), cursor)
    BY <1>2, CursorIsKey, LessIsLinear DEF ItemsInv, CursorParts
  <2>2. \A i : KeyOf(i)' = KeyOf(i)
    BY <1>1 DEF KeyOf, tableVars
  <2>3. QED
    BY <1>1, <2>1, <2>2 DEF ItemsInv, CursorParts, clientVars, Less
<1>8. QED
  BY <1>1, <1>4, <1>5, <1>6, <1>7 DEF ItemsInv, putVars

\* Applying the first of the items on their way.
LEMMA ApplyKeeps ==
  ASSUME ItemsInv, Apply
  PROVE  ItemsInv'
<1>1. PICK i \in wire :
        /\ \A j \in wire \ {i} : Before(i, j)
        /\ held' = held \cup {i}
        /\ cursor' = KeyOf(i)
        /\ wire' = wire \ {i}
  BY DEF Apply
<1>2. UNCHANGED <<next, fromCursor, tableVars, putVars, drops>>
  BY DEF Apply
<1>3. /\ i \in Item /\ i.tx \in DOMAIN txs /\ KeyOf(i) \in Key
      /\ KeyOf(i)[1] = txs[i.tx].block /\ KeyOf(i)[2] = i.tx
      /\ KeyOf(i)[1] # 0 /\ txs[i.tx].block \in Nat
  BY CursorIsKey, KeyOfItem, RowTypes DEF ItemsInv
<1>4. TypeOK'
  <2>1. held' \subseteq Item /\ wire' \subseteq Item
    BY <1>1, <1>3 DEF ItemsInv, TypeOK
  <2>2. cursor' \in Nat \X Nat \X (0 .. 2) \X Nat
    BY <1>1, <1>3 DEF Key
  <2>3. QED
    BY <1>2, <2>1, <2>2 DEF ItemsInv, TypeOK, tableVars, putVars
<1>5. TablesOK'
  BY <1>2 DEF ItemsInv, TablesOK, tableVars
<1>6. StreamOK'
  <2>1. LastBlock' = LastBlock
    BY <1>2 DEF LastBlock, tableVars
  <2>2. next # 0 /\ wire # {} /\ fromCursor = NoCursor
    BY <1>1 DEF ItemsInv, StreamOK
  <2>3. cursor'[1] < next
    BY <1>1, <1>3 DEF ItemsInv, StreamOK
  <2>4. QED
    BY <1>1, <1>2, <1>3, <2>1, <2>2, <2>3 DEF ItemsInv, StreamOK, tableVars
<1>7. CursorParts'
  <2>1. ASSUME NEW j \in wire \ {i}
        PROVE  j \notin held \cup {i} /\ ~Less(KeyOf(j), KeyOf(i))
    <3>1. Less(KeyOf(i), KeyOf(j)) \/ KeyOf(i) = KeyOf(j)
      BY <1>1, <2>1 DEF Before
    <3>2. KeyOf(j) \in Key
      BY <2>1, CursorIsKey
    <3>3. ~Less(KeyOf(j), KeyOf(i))
      BY <1>3, <3>1, <3>2, LessIsLinear
    <3>4. QED
      BY <2>1, <3>3 DEF ItemsInv, CursorParts
  <2>2. ASSUME NEW j \in held \cup {i}
        PROVE  ~Less(KeyOf(i), KeyOf(j))
    <3>1. CASE j = i
      BY <1>3, <3>1, LessIsLinear
    <3>2. CASE j \in held
      <4>1. ~Less(cursor, KeyOf(j)) /\ ~Less(KeyOf(i), cursor)
        BY <3>2 DEF ItemsInv, CursorParts
      <4>2. KeyOf(j) \in Key /\ cursor \in Key
        BY <3>2, CursorIsKey
      <4>3. QED
        BY <1>3, <4>1, <4>2, LessIsLinear
    <3>3. QED
      BY <2>2, <3>1, <3>2
  <2>3. \A j : KeyOf(j)' = KeyOf(j)
    BY <1>2 DEF KeyOf, tableVars
  <2>4. QED
    BY <1>1, <2>1, <2>2, <2>3 DEF CursorParts, Less
<1>8. QED
  BY <1>2, <1>4, <1>5, <1>6, <1>7 DEF ItemsInv, putVars

\* Connections come and go, and so do updates of the profile.
LEMMA RestKeeps ==
  ASSUME ItemsInv,
         UpdateProfile \/ Connect \/ Drop \/ AskUpdate \/ ReceiveRestart \/ ReceiveDone \/ LoseReply
  PROVE  ItemsInv'
<1>1. UNCHANGED tableVars
  BY DEF UpdateProfile, Connect, Drop, AskUpdate, ReceiveRestart, ReceiveDone, LoseReply
<1>2. /\ TablesOK' /\ LastBlock' = LastBlock
      /\ \A i : KeyOf(i)' = KeyOf(i)
  BY <1>1 DEF ItemsInv, TablesOK, LastBlock, KeyOf, tableVars
<1>3. /\ LastBlock \in 0 .. MaxTxs /\ Profiles \subseteq Profile
      /\ MaxTxs \in Nat /\ MaxDrops \in Nat /\ MaxUpdates \in Nat /\ MaxLost \in Nat
  BY LastBlockIs, ItemsAssumption DEF ItemsInv, ItemsAssumption
<1>4. CASE UpdateProfile \/ AskUpdate \/ ReceiveDone \/ LoseReply
  <2>1. UNCHANGED <<streamVars, clientVars, drops>>
    BY <1>4 DEF UpdateProfile, AskUpdate, ReceiveDone, LoseReply
  <2>2. profile' \in Profiles /\ wanted' \in Profiles
    BY <1>4 DEF ItemsInv, UpdateProfile, AskUpdate, ReceiveDone, LoseReply
  <2>3. /\ put' \in {"idle", "sent", "restart", "done"}
        /\ updates' \in 0 .. MaxUpdates /\ lost' \in 0 .. MaxLost
    <3>1. /\ put' \in {"idle", "sent", "restart", "done"}
          /\ updates' = updates \/ (updates < MaxUpdates /\ updates' = updates + 1)
          /\ lost' = lost \/ (lost < MaxLost /\ lost' = lost + 1)
      BY <1>4 DEF UpdateProfile, AskUpdate, ReceiveDone, LoseReply
    <3>2. updates \in 0 .. MaxUpdates /\ lost \in 0 .. MaxLost
      BY DEF ItemsInv, TypeOK
    <3>3. QED
      BY <1>3, <3>1, <3>2
  <2>4. TypeOK'
    BY <1>1, <1>3, <2>1, <2>2, <2>3 DEF ItemsInv, TypeOK, tableVars, streamVars, clientVars
  <2>5. StreamOK'
    BY <1>1, <1>2, <2>1 DEF ItemsInv, StreamOK, tableVars, streamVars, clientVars
  <2>6. CursorParts'
    BY <1>2, <2>1 DEF ItemsInv, CursorParts, streamVars, clientVars, Less
  <2>7. QED
    BY <1>2, <2>2, <2>4, <2>5, <2>6 DEF ItemsInv
<1>5. CASE Connect
  <2>1. /\ next = 0 /\ wire = {} /\ wire' = wire /\ fromCursor' = cursor
        /\ next' = IF cursor = NoCursor THEN 1 ELSE cursor[1]
        /\ UNCHANGED <<putVars, clientVars, drops>>
    BY <1>5 DEF Connect, ItemsInv, StreamOK
  <2>2. next' \in 1 .. LastBlock + 1 /\ next' \in 0 .. MaxTxs + 1
    BY <1>3, <2>1, CursorIsKey
  <2>3. TypeOK'
    BY <1>1, <2>1, <2>2 DEF ItemsInv, TypeOK, tableVars, putVars, clientVars
  <2>4. StreamOK'
    <3>1. CASE cursor = NoCursor
      BY <1>1, <1>2, <2>1, <2>2, <3>1, CursorIsKey DEF ItemsInv, StreamOK, tableVars, clientVars
    <3>2. CASE cursor # NoCursor
      BY <1>1, <1>2, <2>1, <2>2, <3>2, CursorIsKey DEF ItemsInv, StreamOK, tableVars, clientVars
    <3>3. QED
      BY <3>1, <3>2
  <2>5. CursorParts'
    BY <1>2, <2>1 DEF ItemsInv, CursorParts, clientVars, Less
  <2>6. QED
    BY <1>2, <2>1, <2>3, <2>4, <2>5 DEF ItemsInv, putVars
<1>6. CASE Drop \/ ReceiveRestart
  <2>1. next' = 0 /\ fromCursor' = NoCursor /\ wire' = {}
    BY <1>6 DEF Drop, ReceiveRestart, CloseStream
  <2>2. /\ UNCHANGED clientVars \/ (held' = {} /\ cursor' = NoCursor)
        /\ profile' = profile /\ wanted' = wanted
    BY <1>6 DEF Drop, ReceiveRestart, putVars
  <2>3. /\ put' \in {"idle", "sent", "restart", "done"}
        /\ drops' \in 0 .. MaxDrops /\ updates' = updates /\ lost' = lost
    <3>1. /\ put' = put \/ put' = "idle"
          /\ drops' = drops \/ (drops < MaxDrops /\ drops' = drops + 1)
          /\ updates' = updates /\ lost' = lost
      BY <1>6 DEF Drop, ReceiveRestart, putVars
    <3>2. drops \in 0 .. MaxDrops /\ put \in {"idle", "sent", "restart", "done"}
      BY DEF ItemsInv, TypeOK
    <3>3. QED
      BY <1>3, <3>1, <3>2
  <2>4. held' \subseteq Item /\ cursor' \in Nat \X Nat \X (0 .. 2) \X Nat
    BY <2>2 DEF ItemsInv, TypeOK, NoCursor, clientVars
  <2>5. TypeOK'
    BY <1>1, <1>3, <2>1, <2>2, <2>3, <2>4 DEF ItemsInv, TypeOK, NoCursor, tableVars
  <2>6. StreamOK'
    BY <1>1, <1>2, <1>3, <2>1, <2>2 DEF ItemsInv, StreamOK, tableVars, clientVars
  <2>7. CursorParts'
    BY <1>2, <2>1, <2>2 DEF ItemsInv, CursorParts, clientVars, Less
  <2>8. QED
    BY <1>2, <2>2, <2>5, <2>6, <2>7 DEF ItemsInv
<1>7. QED
  BY <1>4, <1>5, <1>6

\* Every step keeps the types and the order of what is applied.
LEMMA ItemsStep == ItemsInv /\ [Next]_vars => ItemsInv'
<1> SUFFICES ASSUME ItemsInv, [Next]_vars PROVE ItemsInv'
  OBVIOUS
<1>1. ASSUME NEW shape \in Shapes, NEW block \in 1 .. MaxTxs, AddTx(shape, block)
      PROVE  ItemsInv'
  BY <1>1, AddTxKeeps
<1>2. CASE SendBlock
  BY <1>2, SendKeeps
<1>3. CASE UpdateProfile
  BY <1>3, RestKeeps
<1>4. CASE Client
  BY <1>4, ApplyKeeps, RestKeeps DEF Client
<1>5. CASE UNCHANGED vars
  BY <1>5 DEF ItemsInv, TypeOK, TablesOK, StreamOK, CursorParts, LastBlock, KeyOf, Less,
              vars, tableVars, putVars, streamVars, clientVars
<1>6. QED
  BY <1>1, <1>2, <1>3, <1>4, <1>5 DEF Next

\* The invariant, from its two parts.
THEOREM ItemsInvariant == Spec => []ItemsInv
BY InitItems, ItemsStep, PTL DEF Spec

\* FeedItems is type correct.
THEOREM ItemsTypeCorrect == Spec => []TypeOK
<1>1. ItemsInv => TypeOK
  BY DEF ItemsInv
<1>2. QED
  BY <1>1, ItemsInvariant, PTL

\* No item that has been applied comes again, whatever the transactions hold
\* or spend, over lost connections at any item and updates of the profile.
THEOREM ItemsComeOnce == Spec => []AppliedOnce
<1>1. ItemsInv => AppliedOnce
  BY DEF ItemsInv, CursorParts, AppliedOnce
<1>2. QED
  BY <1>1, ItemsInvariant, PTL

-----------------------------------------------------------------------------
(* A cursor is enough to resume with: SkipInv.                             *)

\* The items of each block.
BlocksOfItems ==
  \A h : \A i \in BlockItems(h) :
    i \in Item /\ i.tx \in DOMAIN txs /\ txs[i.tx].block = h /\ Fits(i)

\* They are of the block's transactions, and say what their keys say.
LEMMA BlocksAreOfItems == ItemsInv => BlocksOfItems
BY BlockItemIs DEF ItemsInv, BlocksOfItems

\* Where nothing spends what it creates itself, a key names one item.
LEMMA KeyNamesItem ==
  ASSUME ItemsInv, NoSelfSpends, NEW i \in Item, NEW j \in Item, Fits(i), Fits(j),
         i.tx \in DOMAIN txs, KeyOf(i) = KeyOf(j)
  PROVE  i = j
<1>1. i.tx = j.tx /\ i.phase = j.phase /\ i.ord = j.ord
  BY DEF KeyOf
<1>2. i.what = j.what
  <2>1. CASE i.phase = PHASE_TX
    BY <1>1, <2>1 DEF Fits, PHASE_TX, PHASE_LEDGER_EVENT, PHASE_UNSHIELDED
  <2>2. CASE i.phase = PHASE_LEDGER_EVENT
    BY <1>1, <2>2 DEF Fits, PHASE_TX, PHASE_LEDGER_EVENT, PHASE_UNSHIELDED
  <2>3. CASE i.phase = PHASE_UNSHIELDED
    <3>1. i.tx # 0
      BY RowTypes DEF ItemsInv
    <3>2. i.ord \in DOMAIN utxos
      BY <2>3 DEF Fits, PHASE_TX, PHASE_LEDGER_EVENT, PHASE_UNSHIELDED
    <3>3. utxos[i.ord].created \in Nat /\ utxos[i.ord].spent \in Nat
      BY <3>2, RowTypes DEF ItemsInv, UtxoRow
    <3>4. utxos[i.ord].spent # 0 => utxos[i.ord].created # utxos[i.ord].spent
      BY <3>2, <3>3 DEF ItemsInv, TablesOK, NoSelfSpends
    <3>5. QED
      BY <1>1, <2>3, <3>1, <3>4 DEF Fits, PHASE_TX, PHASE_LEDGER_EVENT, PHASE_UNSHIELDED
  <2>4. QED
    BY <2>1, <2>2, <2>3 DEF Fits
<1>3. QED
  BY <1>1, <1>2 DEF Item

\* What a block has depends on the tables, on the addresses and, unless all
\* dust is sent, on the dust key.
LEMMA SameItems ==
  ASSUME UNCHANGED tableVars, profile'.addresses = profile.addresses,
         AllDust \/ profile'.dust = profile.dust, NEW h
  PROVE  BlockItems(h)' = BlockItems(h)
<1>1. txs' = txs /\ events' = events /\ utxos' = utxos
  BY DEF tableVars
<1>2. TxsOf(h)' = TxsOf(h)
  BY <1>1 DEF TxsOf
<1>3. DustEvents(h)' = DustEvents(h) /\ ZswapInputs(h)' = ZswapInputs(h)
  BY <1>1, <1>2 DEF DustEvents, OwnDust, EveryDust, ZswapInputs, EventsOf
<1>4. Creates(h)' = Creates(h) /\ Spends(h)' = Spends(h) /\ RelevantTxs(h)' = RelevantTxs(h)
  BY <1>1, <1>2 DEF Creates, Spends, OwnUtxos, RelevantTxs
<1>5. WalletTxs(h)' = WalletTxs(h)
  BY <1>1, <1>3, <1>4 DEF WalletTxs
<1>6. QED
  BY <1>1, <1>3, <1>4, <1>5 DEF BlockItems, MetaItems, TxItems, LedgerItems, UnshieldedItems

\* A new transaction gives items behind the cursor, in a block not yet built.
LEMMA AddTxSkips ==
  ASSUME ItemsInv, SkipInv, NEW shape \in Shapes, NEW block \in 1 .. MaxTxs, AddTx(shape, block)
  PROVE  SkipInv'
<1> DEFINE id == Len(txs) + 1
<1>1. /\ ItemsInv' /\ RowsAdded(block) /\ LastBlock' = block
      /\ UNCHANGED <<putVars, streamVars, clientVars, drops>>
  BY AddTxKeeps DEF AddTx
<1>2. BlocksOfItems /\ BlocksOfItems'
  BY <1>1, BlocksAreOfItems, PTL
<1>3. /\ DOMAIN txs' = DOMAIN txs \cup {id} /\ \A i \in DOMAIN txs : txs'[i] = txs[i]
      /\ txs'[id].block = block
      /\ block \in {LastBlock, LastBlock + 1} /\ block >= 1
      /\ block = LastBlock => next <= block
  BY <1>1 DEF RowsAdded
<1>4. \A i \in wire \cup held : KeyOf(i)' = KeyOf(i)
  BY <1>1, KeysStand DEF ItemsInv, StreamOK
<1>5. WireFits'
  <2>1. ASSUME NEW i \in wire
        PROVE  Fits(i)' /\ Less(cursor, KeyOf(i))'
    <3>1. i.tx \in DOMAIN txs /\ 0 \notin DOMAIN txs
      BY RowTypes DEF ItemsInv, StreamOK
    <3>2. Fits(i) /\ Less(cursor, KeyOf(i))
      BY DEF SkipInv, WireFits
    <3>3. Fits(i)'
      BY <1>1, <3>1, <3>2 DEF Fits, RowsAdded
    <3>4. Less(cursor, KeyOf(i))'
      BY <1>1, <1>4, <3>2 DEF Less, clientVars
    <3>5. QED
      BY <3>3, <3>4
  <2>2. QED
    BY <1>1, <2>1 DEF WireFits, streamVars
<1>6. ASSUME Current'
      PROVE  NothingMissing' /\ Entitled'
  <2>1. NothingMissing /\ Entitled
    BY <1>1, <1>6 DEF SkipInv, Current, putVars
  <2>2. ASSUME NEW h \in 1 .. block, NEW i \in BlockItems(h)'
        PROVE  \/ i \in held \cup wire
               \/ Less(cursor, KeyOf(i)') /\ (next = 0 \/ next <= h)
    <3>1. CASE i \in BlockItems(h)
      <4>1. i.tx \in DOMAIN txs /\ txs[i.tx].block = h
        BY <1>2, <3>1 DEF BlocksOfItems
      <4>2. h \in 1 .. LastBlock
        BY <4>1, LastBlockIs DEF ItemsInv
      <4>3. KeyOf(i)' = KeyOf(i)
        BY <1>1, <4>1, KeysStand
      <4>4. QED
        BY <2>1, <3>1, <4>2, <4>3 DEF NothingMissing
    <3>2. CASE i.tx = id
      <4>1. i \in Item /\ txs'[i.tx].block = h
        BY <1>2 DEF BlocksOfItems
      <4>2. h = block
        BY <1>3, <3>2, <4>1
      <4>3. KeyOf(i)' = <<block, id, i.phase, i.ord>>
        BY <3>2, <4>1, <4>2 DEF KeyOf
      <4>4. id \in Nat /\ DOMAIN txs = 1 .. Len(txs) /\ LastBlock \in Nat
        BY RowTypes, LastBlockIs DEF ItemsInv
      <4>5. KeyOf(i)' \in Key
        BY <4>1, <4>3, <4>4 DEF Key, Item
      <4>6. Less(cursor, KeyOf(i)')
        <5>1. KeyOf(i)'[1] = block /\ KeyOf(i)'[2] = id
          BY <4>3
        <5>2. cursor[1] < block \/ (cursor[1] = block /\ cursor[2] < id)
          <6>1. CASE cursor = NoCursor
            BY <1>3, <6>1, CursorIsKey
          <6>2. CASE cursor # NoCursor
            <7>1. cursor[1] \in 1 .. LastBlock /\ cursor[2] \in DOMAIN txs
              BY <6>2, CursorIsKey DEF ItemsInv, StreamOK
            <7>2. QED
              BY <1>3, <4>4, <7>1
          <6>3. QED
            BY <6>1, <6>2
        <5> HIDE DEF id
        <5>3. QED
          BY <4>5, <5>1, <5>2, CursorIsKey, LessByParts
      <4>7. next <= h
        BY <1>3, <4>2, <4>4 DEF ItemsInv, StreamOK, TypeOK
      <4>8. QED
        BY <4>6, <4>7
    <3>3. QED
      BY <1>1, <3>1, <3>2, BlockItemsGrow DEF ItemsInv, putVars
  <2>3. NothingMissing'
    BY <1>1, <2>2 DEF NothingMissing, Less, streamVars, clientVars
  <2>4. Entitled'
    <3>1. \A h : BlockItems(h) \subseteq BlockItems(h)'
      BY <1>1, BlockItemsGrow DEF ItemsInv, putVars
    <3>2. QED
      BY <1>1, <2>1, <3>1 DEF Entitled, streamVars, clientVars
  <2>5. QED
    BY <2>3, <2>4
<1>7. QED
  BY <1>5, <1>6 DEF SkipInv

\* A block is built: all of its items behind the cursor are on their way.
LEMMA SendSkips ==
  ASSUME ItemsInv, SkipInv, SendBlock
  PROVE  SkipInv'
<1> DEFINE sent == Retained(BlockItems(next), next)
<1>1. /\ next \in 1 .. LastBlock /\ wire' = wire \cup sent /\ next' = next + 1
      /\ UNCHANGED <<tableVars, putVars, clientVars, drops>>
  BY DEF SendBlock
<1>2. /\ sent \subseteq BlockItems(next)
      /\ \A i \in sent : Less(cursor, KeyOf(i))
      /\ \A i \in BlockItems(next) : i \in sent \/ (wire = {} /\ ~Less(cursor, KeyOf(i)))
  BY <1>1, RetainedIs
<1>3. \A i \in sent : Fits(i)
  BY <1>2, BlocksAreOfItems DEF BlocksOfItems
<1>4. LastBlock \in 0 .. MaxTxs /\ MaxTxs \in Nat
  BY LastBlockIs, RowTypes DEF ItemsInv
<1> HIDE DEF sent
<1>5. /\ \A i : KeyOf(i)' = KeyOf(i) /\ (Fits(i)' <=> Fits(i))
      /\ LastBlock' = LastBlock /\ cursor' = cursor /\ held' = held
  BY <1>1 DEF KeyOf, Fits, LastBlock, tableVars, clientVars
<1>6. \A h : BlockItems(h)' = BlockItems(h)
  BY <1>1, SameItems DEF putVars
<1>7. WireFits'
  BY <1>1, <1>2, <1>3, <1>5 DEF SkipInv, WireFits, Less
<1>8. ASSUME Current'
      PROVE  NothingMissing' /\ Entitled'
  <2>1. NothingMissing /\ Entitled
    BY <1>1, <1>8 DEF SkipInv, Current, putVars
  <2>2. ASSUME NEW h \in 1 .. LastBlock, NEW i \in BlockItems(h)
        PROVE  \/ i \in held \cup wire \cup sent
               \/ Less(cursor, KeyOf(i)) /\ next + 1 <= h
    <3>1. i \in held \cup wire \/ (Less(cursor, KeyOf(i)) /\ (next = 0 \/ next <= h))
      BY <2>1 DEF NothingMissing
    <3>2. CASE h = next
      BY <1>2, <3>1, <3>2
    <3>3. CASE h # next
      BY <1>1, <1>4, <3>1, <3>3
    <3>4. QED
      BY <3>2, <3>3
  <2>3. NothingMissing'
    BY <1>1, <1>5, <1>6, <2>2 DEF NothingMissing, Less
  <2>4. \A i \in sent : \E h \in 1 .. MaxTxs : i \in BlockItems(h)
    BY <1>1, <1>2, <1>4
  <2>5. Entitled'
    BY <1>1, <1>5, <1>6, <2>1, <2>4 DEF Entitled
  <2>6. QED
    BY <2>3, <2>5
<1>9. QED
  BY <1>7, <1>8 DEF SkipInv

\* Items are applied in the order of their keys, of which no two are the same.
LEMMA ApplySkips ==
  ASSUME ItemsInv, SkipInv, NoSelfSpends, Apply
  PROVE  SkipInv'
<1>1. PICK i \in wire :
        /\ \A j \in wire \ {i} : Before(i, j)
        /\ held' = held \cup {i}
        /\ cursor' = KeyOf(i)
        /\ wire' = wire \ {i}
  BY DEF Apply
<1>2. UNCHANGED <<next, fromCursor, tableVars, putVars, drops>>
  BY DEF Apply
<1>3. /\ \A j : KeyOf(j)' = KeyOf(j) /\ (Fits(j)' <=> Fits(j))
      /\ LastBlock' = LastBlock
  BY <1>2 DEF KeyOf, Fits, LastBlock, tableVars
<1>4. \A h : BlockItems(h)' = BlockItems(h)
  BY <1>2, SameItems DEF putVars
<1>5. /\ i \in Item /\ i.tx \in DOMAIN txs /\ KeyOf(i) \in Key /\ Fits(i)
      /\ next # 0 /\ KeyOf(i)[1] < next /\ KeyOf(i)[1] \in Nat /\ next \in Nat
  <2>1. i \in Item /\ i.tx \in DOMAIN txs /\ KeyOf(i) \in Key
    BY CursorIsKey
  <2>2. Fits(i) /\ next # 0 /\ txs[i.tx].block < next
    BY <1>1 DEF SkipInv, WireFits, ItemsInv, StreamOK
  <2>3. KeyOf(i)[1] = txs[i.tx].block /\ txs[i.tx].block \in 1 .. MaxTxs
    BY <2>1, KeyOfItem DEF ItemsInv
  <2>4. next \in Nat /\ MaxTxs \in Nat
    BY RowTypes DEF ItemsInv, TypeOK
  <2>5. QED
    BY <2>1, <2>2, <2>3, <2>4
<1>6. WireFits'
  <2>1. ASSUME NEW j \in wire \ {i}
        PROVE  Fits(j) /\ Less(KeyOf(i), KeyOf(j))
    <3>1. Fits(j) /\ j \in Item
      BY <2>1, CursorIsKey DEF SkipInv, WireFits
    <3>2. KeyOf(i) # KeyOf(j)
      BY <1>5, <2>1, <3>1, KeyNamesItem
    <3>3. QED
      BY <1>1, <2>1, <3>1, <3>2 DEF Before
  <2>2. QED
    BY <1>1, <1>3, <2>1 DEF WireFits, Less
<1>7. ASSUME Current'
      PROVE  NothingMissing' /\ Entitled'
  <2>1. NothingMissing /\ Entitled
    BY <1>2, <1>7 DEF SkipInv, Current, putVars
  <2>2. ASSUME NEW h \in 1 .. LastBlock, NEW j \in BlockItems(h)
        PROVE  \/ j \in held \cup wire
               \/ Less(KeyOf(i), KeyOf(j)) /\ next <= h
    <3>1. j \in held \cup wire \/ (Less(cursor, KeyOf(j)) /\ next <= h)
      BY <1>5, <2>1 DEF NothingMissing
    <3>2. KeyOf(j) \in Key /\ KeyOf(j)[1] = h
      BY BlocksAreOfItems, KeyOfItem DEF BlocksOfItems, ItemsInv
    <3>3. LastBlock \in Nat
      BY LastBlockIs, RowTypes DEF ItemsInv
    <3>4. next <= h => KeyOf(i)[1] < KeyOf(j)[1]
      BY <1>5, <3>2, <3>3
    <3>5. QED
      BY <1>5, <3>1, <3>2, <3>4, LessByParts
  <2>3. held' \cup wire' = held \cup wire
    BY <1>1
  <2>4. NothingMissing'
    BY <1>1, <1>2, <1>3, <1>4, <2>2, <2>3 DEF NothingMissing, Less
  <2>5. Entitled'
    BY <1>4, <2>1, <2>3 DEF Entitled
  <2>6. QED
    BY <2>4, <2>5
<1>8. QED
  BY <1>6, <1>7 DEF SkipInv

\* A connection starts with the block of the cursor, and loses only what is
\* sent again.
LEMMA ConnectionSkips ==
  ASSUME ItemsInv, SkipInv, Connect \/ Drop
  PROVE  SkipInv'
<1>1. UNCHANGED <<tableVars, putVars, clientVars>>
  BY DEF Connect, Drop
<1>2. /\ \A j : KeyOf(j)' = KeyOf(j) /\ (Fits(j)' <=> Fits(j))
      /\ LastBlock' = LastBlock /\ held' = held /\ cursor' = cursor
      /\ Current' <=> Current
  BY <1>1 DEF KeyOf, Fits, LastBlock, Current, tableVars, clientVars, putVars
<1>3. \A h : BlockItems(h)' = BlockItems(h)
  BY <1>1, SameItems DEF putVars
<1>4. wire' \subseteq wire /\ WireFits'
  <2>1. wire' \subseteq wire
    BY DEF Connect, Drop, CloseStream
  <2>2. QED
    BY <1>2, <2>1 DEF SkipInv, WireFits, Less
<1>5. ASSUME Current'
      PROVE  NothingMissing'
  <2>1. ASSUME NEW h \in 1 .. LastBlock, NEW i \in BlockItems(h)
        PROVE  \/ i \in held \cup wire'
               \/ Less(cursor, KeyOf(i)) /\ (next' = 0 \/ next' <= h)
    <3>1. \/ i \in held \cup wire
          \/ Less(cursor, KeyOf(i)) /\ (next = 0 \/ next <= h)
      BY <1>2, <1>5 DEF SkipInv, NothingMissing
    <3>2. CASE Drop
      <4>1. wire' = {} /\ next' = 0
        BY <3>2 DEF Drop, CloseStream
      <4>2. i \in wire => Less(cursor, KeyOf(i))
        BY DEF SkipInv, WireFits
      <4>3. QED
        BY <3>1, <4>1, <4>2
    <3>3. CASE Connect
      <4>1. wire' = wire /\ wire = {} /\ next' = IF cursor = NoCursor THEN 1 ELSE cursor[1]
        BY <3>3 DEF Connect, ItemsInv, StreamOK
      <4>2. KeyOf(i) \in Key /\ KeyOf(i)[1] = h
        BY BlocksAreOfItems, KeyOfItem DEF BlocksOfItems, ItemsInv
      <4>3. Less(cursor, KeyOf(i)) => cursor[1] <= h
        BY <4>2, CursorIsKey, LessByParts DEF Key
      <4>4. QED
        BY <3>1, <4>1, <4>3
    <3>4. QED
      BY <3>2, <3>3
  <2>2. QED
    BY <1>2, <1>3, <2>1 DEF NothingMissing, Less
<1>6. ASSUME Current'
      PROVE  Entitled'
  BY <1>2, <1>3, <1>4, <1>6 DEF SkipInv, Entitled
<1>7. QED
  BY <1>4, <1>5, <1>6 DEF SkipInv

\* An update that asks for no restart changes nothing the client is entitled
\* to; after a restart the client has everything before it.
LEMMA ProfileSkips ==
  ASSUME ItemsInv, SkipInv, OneDust,
         UpdateProfile \/ AskUpdate \/ ReceiveRestart \/ ReceiveDone \/ LoseReply
  PROVE  SkipInv'
<1>1. UNCHANGED tableVars
  BY DEF UpdateProfile, AskUpdate, ReceiveRestart, ReceiveDone, LoseReply
<1>2. /\ \A j : KeyOf(j)' = KeyOf(j) /\ (Fits(j)' <=> Fits(j))
      /\ LastBlock' = LastBlock
  BY <1>1 DEF KeyOf, Fits, LastBlock, tableVars
<1>3. CASE ReceiveRestart
  <2>1. held' = {} /\ wire' = {} /\ next' = 0 /\ cursor' = NoCursor /\ profile' = profile
    BY <1>3 DEF ReceiveRestart, CloseStream
  <2>2. \A h : BlockItems(h)' = BlockItems(h)
    BY <1>1, <2>1, SameItems
  <2>3. \A h : \A i \in BlockItems(h) : Less(NoCursor, KeyOf(i))
    BY BlocksAreOfItems, KeyOfItem DEF BlocksOfItems, ItemsInv
  <2>4. \A h : \A i \in BlockItems(h)' : Less(cursor', KeyOf(i)')
    BY <1>2, <2>1, <2>2, <2>3
  <2>5. WireFits' /\ Entitled'
    BY <2>1 DEF WireFits, Entitled
  <2>6. NothingMissing'
    BY <2>1, <2>4 DEF NothingMissing, Less
  <2>7. QED
    BY <2>5, <2>6 DEF SkipInv
<1>4. CASE ~ReceiveRestart
  <2>1. UNCHANGED <<streamVars, clientVars>>
    BY <1>4 DEF UpdateProfile, AskUpdate, ReceiveDone, LoseReply
  <2>2. WireFits'
    BY <1>2, <2>1 DEF SkipInv, WireFits, Less, streamVars, clientVars
  <2>3. ASSUME Current'
        PROVE  Current /\ \A h : BlockItems(h)' = BlockItems(h)
    <3>1. ~LoseReply
      BY <2>3 DEF LoseReply, Current, ItemsInv, TypeOK
    <3>2. CASE UpdateProfile
      <4>1. put = "sent" /\ lost' = lost /\ profile' = wanted /\ ~AddressesChanged
        BY <2>3, <3>2 DEF UpdateProfile, Current
      <4>2. profile'.addresses = profile.addresses
        BY <4>1 DEF AddressesChanged
      <4>3. AllDust \/ profile'.dust = profile.dust
        BY <4>1 DEF OneDust, ItemsInv
      <4>4. QED
        BY <1>1, <2>3, <4>1, <4>2, <4>3, SameItems DEF Current
    <3>3. CASE AskUpdate \/ ReceiveDone
      <4>1. Current /\ profile' = profile
        BY <2>3, <3>3 DEF AskUpdate, ReceiveDone, Current
      <4>2. QED
        BY <1>1, <4>1, SameItems
    <3>4. QED
      BY <1>4, <3>1, <3>2, <3>3
  <2>4. ASSUME Current'
        PROVE  NothingMissing' /\ Entitled'
    <3>1. NothingMissing /\ Entitled
      BY <2>3, <2>4 DEF SkipInv
    <3>2. NothingMissing'
      BY <1>2, <2>1, <2>3, <2>4, <3>1 DEF NothingMissing, Less, streamVars, clientVars
    <3>3. Entitled'
      BY <2>1, <2>3, <2>4, <3>1 DEF Entitled, streamVars, clientVars
    <3>4. QED
      BY <3>2, <3>3
  <2>5. QED
    BY <2>2, <2>4 DEF SkipInv
<1>5. QED
  BY <1>3, <1>4

\* Every step leaves what is missing behind the cursor.
LEMMA SkipStep ==
  ASSUME NoSelfSpends, OneDust
  PROVE  ItemsInv /\ SkipInv /\ [Next]_vars => SkipInv'
<1> SUFFICES ASSUME ItemsInv, SkipInv, [Next]_vars PROVE SkipInv'
  OBVIOUS
<1>1. ASSUME NEW shape \in Shapes, NEW block \in 1 .. MaxTxs, AddTx(shape, block)
      PROVE  SkipInv'
  BY <1>1, AddTxSkips
<1>2. CASE SendBlock
  BY <1>2, SendSkips
<1>3. CASE UpdateProfile
  BY <1>3, ProfileSkips
<1>4. CASE Client
  BY <1>4, ApplySkips, ConnectionSkips, ProfileSkips DEF Client
<1>5. CASE UNCHANGED vars
  <2>1. /\ UNCHANGED <<tableVars, streamVars, clientVars>>
        /\ lost' = lost /\ put' = put /\ profile' = profile
    BY <1>5 DEF vars, putVars
  <2>2. /\ \A j : KeyOf(j)' = KeyOf(j) /\ (Fits(j)' <=> Fits(j))
        /\ LastBlock' = LastBlock
    BY <2>1 DEF KeyOf, Fits, LastBlock, tableVars
  <2>3. \A h : BlockItems(h)' = BlockItems(h)
    BY <2>1, SameItems
  <2>4. QED
    BY <2>1, <2>2, <2>3
       DEF SkipInv, WireFits, NothingMissing, Entitled, Current, Less, streamVars, clientVars
<1>6. QED
  BY <1>1, <1>2, <1>3, <1>4, <1>5 DEF Next

\* So nothing before the cursor is missing in any behaviour.
LEMMA SkipInvariant ==
  ASSUME NoSelfSpends, OneDust
  PROVE  Spec => [](ItemsInv /\ SkipInv)
<1>1. Init => SkipInv
  <2> SUFFICES ASSUME Init PROVE SkipInv
    OBVIOUS
  <2>1. LastBlock = 0 /\ wire = {} /\ held = {}
    BY DEF Init, LastBlock
  <2>2. QED
    BY <2>1 DEF SkipInv, WireFits, NothingMissing, Entitled
<1>2. QED
  BY <1>1, InitItems, ItemsStep, SkipStep, PTL DEF Spec

\* A client that has the replies to its updates holds every item up to its
\* cursor that its profile entitles it to, over any number of lost connections
\* and restarts.
THEOREM CursorSkipsNothing ==
  ASSUME NoSelfSpends, OneDust
  PROVE  Spec => []NothingSkipped
<1>1. ItemsInv /\ SkipInv => NothingSkipped
  <2> SUFFICES ASSUME ItemsInv, SkipInv, Settled,
                      NEW h \in 1 .. LastBlock, NEW i \in BlockItems(h)
               PROVE  i \in held \/ Less(cursor, KeyOf(i))
    BY DEF NothingSkipped
  <2>1. NothingMissing
    BY DEF SkipInv, Settled, Current
  <2>2. i \in wire => Less(cursor, KeyOf(i))
    BY DEF SkipInv, WireFits
  <2>3. QED
    BY <2>1, <2>2 DEF NothingMissing
<1>2. QED
  BY <1>1, SkipInvariant, PTL

\* What an item refers to has a lesser key, so the client has it: the metadata
\* of the transaction, and the creation of an output that is spent.
THEOREM ItemsReferBack ==
  ASSUME NoSelfSpends, OneDust
  PROVE  Spec => []RefersBack
<1>1. ASSUME ItemsInv, SkipInv, Settled, NEW i \in held, NEW h, NEW k \in BlockItems(h),
             h \in 1 .. LastBlock, Less(KeyOf(k), KeyOf(i))
      PROVE  k \in held
  <2>1. k \in held \/ (k \in wire /\ Less(cursor, KeyOf(k))) \/ Less(cursor, KeyOf(k))
    BY <1>1 DEF SkipInv, WireFits, NothingMissing, Settled, Current
  <2>2. KeyOf(k) \in Key /\ KeyOf(i) \in Key /\ cursor \in Key
    BY <1>1, BlocksAreOfItems, KeyOfItem, CursorIsKey DEF BlocksOfItems, ItemsInv
  <2>3. ~Less(cursor, KeyOf(i)) /\ ~Less(KeyOf(i), KeyOf(k))
    BY <1>1, <2>2, LessIsLinear DEF ItemsInv, CursorParts
  <2>4. ~Less(cursor, KeyOf(k))
    BY <2>2, <2>3, LessIsLinear
  <2>5. QED
    BY <2>1, <2>4
<1>2. ItemsInv /\ SkipInv => RefersBack
  <2> SUFFICES ASSUME ItemsInv, SkipInv, Settled, NEW i \in held
               PROVE  /\ TxMeta /\ i.what \in {"tx", "dust", "create", "spend"} =>
                           \E j \in held : j.what = "meta" /\ j.tx = i.tx
                      /\ i.what = "spend" /\ i.ord \in OwnUtxos =>
                           \E j \in held : j.what = "create" /\ j.ord = i.ord
    BY DEF RefersBack
  <2>1. PICK h \in 1 .. MaxTxs : i \in BlockItems(h)
    BY DEF SkipInv, Settled, Current, Entitled
  <2>2. /\ i \in Item /\ i.tx \in DOMAIN txs /\ txs[i.tx].block = h /\ Fits(i)
        /\ h \in 1 .. LastBlock
        /\ KeyOf(i) \in Key /\ KeyOf(i)[1] = h /\ KeyOf(i)[2] = i.tx
        /\ KeyOf(i)[3] = i.phase /\ KeyOf(i)[4] = i.ord
    BY <2>1, BlocksAreOfItems, KeyOfItem, LastBlockIs DEF BlocksOfItems, ItemsInv
  <2>3. ASSUME TxMeta, i.what \in {"tx", "dust", "create", "spend"}
        PROVE  \E j \in held : j.what = "meta" /\ j.tx = i.tx
    <3> DEFINE m == ItemOf(i.tx, PHASE_TX, 0, "meta")
    <3>1. m.tx = i.tx /\ m.phase = 0 /\ m.ord = 0 /\ m.what = "meta"
      BY DEF ItemOf, PHASE_TX
    <3>2. i.tx \in WalletTxs(h)
      BY <2>1, <2>3
         DEF BlockItems, MetaItems, TxItems, LedgerItems, UnshieldedItems, ItemOf, WalletTxs
    <3>3. m \in BlockItems(h)
      BY <2>3, <3>2 DEF BlockItems, MetaItems
    <3>4. m \in Item /\ KeyOf(m) \in Key /\ KeyOf(m)[1] = h /\ KeyOf(m)[2] = i.tx
          /\ KeyOf(m)[3] = 0 /\ KeyOf(m)[4] = 0
      BY <2>2, <3>1, <3>3, BlocksAreOfItems, KeyOfItem DEF BlocksOfItems, ItemsInv
    <3>5. i.phase # 0 \/ i.ord # 0
      BY <2>2, <2>3 DEF Fits, PHASE_TX, PHASE_LEDGER_EVENT, PHASE_UNSHIELDED
    <3>6. i.phase \in Nat /\ i.ord \in Nat
      BY <2>2 DEF Item
    <3> HIDE DEF m
    <3>7. Less(KeyOf(m), KeyOf(i))
      BY <2>2, <3>4, <3>5, <3>6, LessByParts
    <3>8. m \in held
      BY <1>1, <2>2, <3>3, <3>7
    <3>9. QED
      BY <3>1, <3>8
  <2>4. ASSUME i.what = "spend", i.ord \in OwnUtxos
        PROVE  \E j \in held : j.what = "create" /\ j.ord = i.ord
    <3> DEFINE u == i.ord
               c == ItemOf(utxos[u].created, PHASE_UNSHIELDED, u, "create")
               b == txs[utxos[u].created].block
    <3>1. /\ u \in DOMAIN utxos /\ i.tx = utxos[u].spent /\ i.tx # 0
          /\ utxos[u].created \in DOMAIN txs /\ utxos[u].created < i.tx
      <4>1. u \in DOMAIN utxos /\ i.tx = utxos[u].spent /\ i.tx # 0
        BY <2>2, <2>4, RowTypes DEF Fits, ItemsInv
      <4>2. QED
        BY <4>1 DEF ItemsInv, TablesOK, NoSelfSpends
    <3>2. u \in Creates(b)
      BY <2>4, <3>1 DEF Creates, TxsOf
    <3>3. c \in BlockItems(b) /\ c.tx = utxos[u].created /\ c.what = "create" /\ c.ord = i.ord
      BY <3>2 DEF BlockItems, UnshieldedItems, ItemOf
    <3>4. b <= h /\ b \in 1 .. LastBlock /\ b \in Nat /\ h \in Nat /\ i.tx \in Nat /\ utxos[u].created \in Nat
      <4>1. b \in 1 .. LastBlock /\ LastBlock \in Nat /\ DOMAIN txs \subseteq Nat
        BY <3>1, LastBlockIs, RowTypes DEF ItemsInv
      <4>2. utxos[u].created <= i.tx
        BY <2>2, <3>1, <4>1
      <4>3. b <= h
        BY <2>2, <3>1, <4>2 DEF ItemsInv, TablesOK
      <4>4. QED
        BY <2>2, <3>1, <4>1, <4>3
    <3>5. KeyOf(c) \in Key /\ KeyOf(c)[1] = b /\ KeyOf(c)[2] = utxos[u].created
      BY <3>3, BlocksAreOfItems, KeyOfItem DEF BlocksOfItems, ItemsInv
    <3> HIDE DEF c, b
    <3>6. Less(KeyOf(c), KeyOf(i))
      BY <2>2, <3>1, <3>4, <3>5, LessByParts
    <3>7. c \in held
      BY <1>1, <3>3, <3>4, <3>6
    <3>8. QED
      BY <3>3, <3>7
  <2>5. QED
    BY <2>3, <2>4
<1>3. QED
  BY <1>2, SkipInvariant, PTL
=============================================================================
