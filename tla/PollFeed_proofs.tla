--------------------------- MODULE PollFeed_proofs ---------------------------
(***************************************************************************)
(* PollFeed for all limits and tables, with late rows, reorganisations and *)
(* lost replies: the types (PollInv), and that no page repeats an item;    *)
(* that no page boundary loses one as long as nothing was replaced and a   *)
(* client that meets late rows pages by cursor (LossInv under Careful);    *)
(* and that without late rows paging implements FeedReplica (HeldIsReady   *)
(* under Calm).                                                            *)
(***************************************************************************)
EXTENDS PollFeed, ChainDb_proofs

\* The lesser of two integers.
LEMMA MinOfTwo ==
  ASSUME NEW a \in Int, NEW b \in Int
  PROVE  Min({a, b}) \in {a, b} /\ Min({a, b}) <= a /\ Min({a, b}) <= b
<1>1. \E x \in {a, b} : \A y \in {a, b} : x =< y
  OBVIOUS
<1>2. QED
  BY <1>1 DEF Min

\* The greater of two integers.
LEMMA MaxOfTwo ==
  ASSUME NEW a \in Int, NEW b \in Int
  PROVE  Max({a, b}) \in {a, b} /\ Max({a, b}) >= a /\ Max({a, b}) >= b
<1>1. \E x \in {a, b} : \A y \in {a, b} : x >= y
  OBVIOUS
<1>2. QED
  BY <1>1 DEF Max

\* Among items under a bound one has the greatest key.
LEMMA LastItemOf ==
  ASSUME NEW page, page.items \subseteq Item, page.items # {}, NEW m \in Nat,
         \A i \in page.items : i.height <= m /\ i.tx <= m
  PROVE  /\ LastItem(page) \in page.items
         /\ \A j \in page.items :
              ~KeyLess(<<LastItem(page).height, LastItem(page).tx>>, <<j.height, j.tx>>)
<1> DEFINE heights == {i.height : i \in page.items}
<1>1. heights \in SUBSET Nat /\ heights # {} /\ \A h \in heights : h <= m
  BY DEF Item
<1>2. Max(heights) \in heights /\ \A h \in heights : Max(heights) >= h
  <2> HIDE DEF heights
  <2>1. QED
    BY <1>1, MaxOfNats
<1> DEFINE top == Max(heights)
<1> DEFINE txs == {i.tx : i \in {k \in page.items : k.height = top}}
<1>3. txs \in SUBSET Nat /\ txs # {} /\ \A t \in txs : t <= m
  BY <1>2 DEF Item
<1>4. Max(txs) \in txs /\ \A t \in txs : Max(txs) >= t
  <2> HIDE DEF txs
  <2>1. QED
    BY <1>3, MaxOfNats
<1>5. PICK i \in page.items : i.height = top /\ i.tx = Max(txs)
  BY <1>4
<1>6. ASSUME NEW j \in page.items PROVE ~KeyLess(<<i.height, i.tx>>, <<j.height, j.tx>>)
  <2>1. j.height <= i.height
    BY <1>2, <1>5
  <2>2. j.height = i.height => j.tx <= i.tx
    BY <1>4, <1>5
  <2>3. i.height \in Nat /\ j.height \in Nat /\ i.tx \in Nat /\ j.tx \in Nat
    BY DEF Item
  <2>4. QED
    BY <2>1, <2>2, <2>3 DEF KeyLess
<1>7. QED
  BY <1>5, <1>6 DEF LastItem

-----------------------------------------------------------------------------
(* What the client asks with, and what is on its way to it.                *)

\* The height that is asked for next lies above the cursor.
RequestFollows == nextHeight # NoHeight /\ cursor # NoCursor => cursor[1] < nextHeight

\* A page lies behind the cursor and below the height it gives for the next.
ReplyFollows ==
  reply.type = "page" =>
    /\ \A i \in reply.items :
         /\ i.height <= MaxHeight /\ i.tx <= lastIndexed
         /\ cursor # NoCursor => KeyLess(cursor, <<i.height, i.tx>>)
         /\ reply.next # NoHeight => i.height < reply.next
    /\ reply.next # NoHeight /\ cursor # NoCursor => cursor[1] < reply.next

\* The inductive invariant.
PollInv ==
  /\ TypeOK
  /\ DbInv
  /\ RequestFollows
  /\ ReplyFollows

-----------------------------------------------------------------------------
(* One request.                                                            *)

\* A cursor is a height and a transaction.
LEMMA CursorPair ==
  ASSUME NEW k \in Key PROVE k[1] \in Nat /\ k[2] \in Nat /\ k # NoCursor
BY DEF Key, NoCursor

\* A request starts in the cursor's block, or at the height given for the next.
LEMMA RequestFrom ==
  ASSUME TypeOK
  PROVE  /\ FromHeight \in Nat
         /\ FromCursor \in {cursor, NoCursor}
         /\ FromCursor # NoCursor => FromHeight = cursor[1]
         /\ FromCursor = NoCursor /\ cursor # NoCursor =>
              nextHeight # NoHeight /\ FromHeight = nextHeight
<1>1. cursor # NoCursor => cursor[1] \in Nat
  BY CursorPair DEF TypeOK
<1>2. FromCursor \in {cursor, NoCursor}
  BY DEF FromCursor
<1>3. FromCursor = NoCursor /\ cursor # NoCursor => nextHeight # NoHeight
  BY DEF FromCursor
<1>4. CASE FromCursor # NoCursor
  BY <1>1, <1>2, <1>4 DEF FromHeight
<1>5. CASE FromCursor = NoCursor /\ nextHeight # NoHeight
  BY <1>5, <1>2 DEF FromHeight, TypeOK
<1>6. CASE FromCursor = NoCursor /\ nextHeight = NoHeight
  BY <1>3, <1>6 DEF FromHeight, TypeOK
<1>7. QED
  BY <1>2, <1>3, <1>4, <1>5, <1>6

\* The range is not empty where a block is ready, and ends at a ready one.
LEMMA RangeBounds ==
  ASSUME TypeOK, DbInv
  PROVE  /\ Limit \in Nat \ {0}
         /\ ToHeight \in Int /\ ToHeight <= WalletReadyHeight
         /\ FromHeight <= WalletReadyHeight => FromHeight <= ToHeight
<1>1. Min({limit, LimitMax}) \in Int
  BY PollAssumption, MinOfTwo DEF TypeOK
<1>2. Limit \in Nat \ {0}
  BY <1>1, MaxOfTwo DEF Limit
<1>3. FromHeight \in Nat /\ WalletReadyHeight \in Int
  BY RequestFrom, ReadyHeight
<1>4. FromHeight + Limit - 1 \in Int /\ FromHeight <= FromHeight + Limit - 1
  BY <1>2, <1>3
<1>5. QED
  BY <1>2, <1>3, <1>4, MinOfTwo DEF ToHeight

\* The items of a page: of ready blocks in the range, behind the cursor.
LEMMA PageItems ==
  ASSUME PollInv, NEW b \in Fetched, NEW i \in Retained(b)
  PROVE  /\ ItemOf(b, i) \in Item
         /\ FromHeight <= b.height /\ b.height <= ToHeight /\ b.height <= MaxHeight
         /\ i \in Nat /\ i <= lastIndexed
         /\ cursor # NoCursor => KeyLess(cursor, <<b.height, i>>)
<1>1. b \in blocks /\ b \in BlockRow /\ FromHeight <= b.height /\ b.height <= ToHeight
  BY DEF Fetched, BlocksInRange, PollInv, DbInv, DbTypeOK
<1>2. b.height <= MaxHeight
  BY <1>1 DEF PollInv, DbInv, Known
<1>3. i \in Nat /\ i <= lastIndexed
  BY <1>1 DEF Retained, RelevantTxs, BlockRow, TxRow
<1>4. ItemOf(b, i) \in Item
  BY <1>1, <1>3 DEF ItemOf, Item, BlockRow
<1>5. ASSUME cursor # NoCursor PROVE KeyLess(cursor, <<b.height, i>>)
  <2>1. CASE FromCursor # NoCursor
    BY <2>1, RequestFrom DEF Retained, PollInv
  <2>2. CASE FromCursor = NoCursor
    <3>1. cursor[1] < nextHeight /\ FromHeight = nextHeight
      BY <1>5, <2>2, RequestFrom DEF PollInv, RequestFollows
    <3>2. cursor[1] \in Nat /\ FromHeight \in Nat /\ b.height \in Nat
      BY <1>1, <1>5, CursorPair, RequestFrom DEF PollInv, TypeOK, BlockRow
    <3>3. cursor[1] < b.height
      BY <1>1, <3>1, <3>2
    <3>4. QED
      BY <3>3 DEF KeyLess
  <2>3. QED
    BY <2>1, <2>2
<1>6. QED
  BY <1>1, <1>2, <1>3, <1>4, <1>5

\* Any reply follows what the client asked with.
LEMMA AnswerStep ==
  ASSUME PollInv, GetFeed
  PROVE  reply' \in Reply \cup {NoReply} /\ ReplyFollows'
<1>1. reply' = Answer /\ UNCHANGED <<dbVars, clientVars>>
  BY DEF GetFeed
<1>2. UNCHANGED <<lastIndexed, cursor>>
  BY <1>1 DEF dbVars, clientVars
<1>3. /\ FromHeight \in Nat /\ ToHeight \in Int /\ WalletReadyHeight \in Int
      /\ FromHeight <= WalletReadyHeight => FromHeight <= ToHeight
  BY RequestFrom, RangeBounds, ReadyHeight DEF PollInv
<1>4. CASE Answer = EmptyPage
  BY <1>1, <1>4 DEF EmptyPage, Reply, ReplyFollows
<1>5. CASE Answer = [type |-> "reset", height |-> SafeRestart] /\ Faults # {}
  <2>1. Faults \in SUBSET Nat
    BY <1>3 DEF Faults
  <2>2. Min(Faults) \in Nat
    BY <1>5, <2>1, MinOfNats
  <2>3. SafeRestart \in {Min(Faults) - 1, 0} /\ SafeRestart >= 0
    <3>1. Min(Faults) - 1 \in Int
      BY <2>2
    <3> DEFINE below == Min(Faults) - 1
    <3>2. below \in Int
      BY <3>1
    <3>3. SafeRestart = Max({below, 0})
      BY DEF SafeRestart
    <3> HIDE DEF below
    <3>4. Max({below, 0}) \in {below, 0} /\ Max({below, 0}) >= 0
      BY <3>2, MaxOfTwo
    <3>5. QED
      BY <3>3, <3>4 DEF below
  <2>4. QED
    BY <1>1, <1>5, <2>2, <2>3 DEF Reply, ReplyFollows
<1>6. CASE /\ FromHeight <= WalletReadyHeight
           /\ Answer = [type  |-> "page",
                        items |-> UNION {{ItemOf(b, i) : i \in Retained(b)} : b \in Fetched},
                        next  |-> NextHeight]
  <2> DEFINE items == UNION {{ItemOf(b, i) : i \in Retained(b)} : b \in Fetched}
  <2>1. NextHeight \in Nat \cup {NoHeight} /\ (NextHeight # NoHeight => NextHeight = ToHeight + 1)
    BY <1>3, <1>6 DEF NextHeight
  <2>2. ASSUME NEW k \in items
        PROVE  /\ k \in Item /\ k.height <= MaxHeight /\ k.tx <= lastIndexed
               /\ cursor # NoCursor => KeyLess(cursor, <<k.height, k.tx>>)
               /\ NextHeight # NoHeight => k.height < NextHeight
    <3>0. PICK b \in Fetched : \E i \in Retained(b) : k = ItemOf(b, i)
      OBVIOUS
    <3>1. PICK i \in Retained(b) : k = ItemOf(b, i)
      BY <3>0
    <3>2. k.height = b.height /\ k.tx = i
      BY <3>1 DEF ItemOf
    <3>3. /\ k \in Item /\ b.height <= ToHeight /\ b.height <= MaxHeight /\ i <= lastIndexed
          /\ cursor # NoCursor => KeyLess(cursor, <<b.height, i>>)
      BY <3>1, PageItems
    <3>4. k.height \in Nat
      BY <3>3 DEF Item
    <3>5. NextHeight # NoHeight => k.height < NextHeight
      BY <1>3, <2>1, <3>2, <3>3, <3>4
    <3>6. QED
      BY <3>2, <3>3, <3>5
  <2>3. NextHeight # NoHeight /\ cursor # NoCursor => cursor[1] < NextHeight
    <3>1. cursor # NoCursor => cursor[1] \in Nat /\ cursor[1] <= FromHeight
      BY <1>3, RequestFrom, CursorPair DEF PollInv, TypeOK, RequestFollows
    <3>2. QED
      BY <1>3, <1>6, <2>1, <3>1
  <2>4. reply' = [type |-> "page", items |-> items, next |-> NextHeight]
    BY <1>1, <1>6
  <2>5. items \subseteq Item
    BY <2>2
  <2> HIDE DEF items
  <2>6. reply' \in Reply
    BY <2>1, <2>4, <2>5 DEF Reply
  <2>7. reply'.items = items /\ reply'.next = NextHeight
    BY <2>4
  <2>8. QED
    BY <1>2, <2>2, <2>3, <2>6, <2>7 DEF ReplyFollows
<1>7. QED
  BY <1>3, <1>4, <1>5, <1>6 DEF Answer

\* A page that has items has a last one.
LEMMA LastOfPage ==
  ASSUME PollInv, reply.type = "page", reply.items # {}
  PROVE  /\ reply.items \subseteq Item
         /\ LastItem(reply) \in reply.items
         /\ \A j \in reply.items :
              ~KeyLess(<<LastItem(reply).height, LastItem(reply).tx>>, <<j.height, j.tx>>)
<1>1. reply.items \subseteq Item
  BY DEF PollInv, TypeOK, Reply, NoReply
<1>2. MaxHeight \in Nat /\ lastIndexed \in Nat
  BY BoundsAssumption DEF PollInv, DbInv, DbTypeOK
<1>3. PICK m : m = MaxHeight + lastIndexed
  OBVIOUS
<1>4. m \in Nat
  BY <1>2, <1>3
<1>5. \A i \in reply.items : i.height <= m /\ i.tx <= m
  <2>1. \A i \in reply.items : i.height <= MaxHeight /\ i.tx <= lastIndexed
    BY DEF PollInv, ReplyFollows
  <2>2. \A i \in reply.items : i.height \in Nat /\ i.tx \in Nat
    BY <1>1 DEF Item
  <2>3. QED
    BY <1>2, <1>3, <2>1, <2>2
<1>6. QED
  BY <1>1, <1>4, <1>5, LastItemOf

\* A page moves the client forward.
LEMMA ReceiveStep ==
  ASSUME PollInv, ReceivePage
  PROVE  /\ cursor' \in Key \cup {NoCursor} /\ held' \subseteq Item
         /\ nextHeight' \in Nat \cup {NoHeight} /\ RequestFollows'
<1>1. /\ reply.type = "page" /\ reply \in Reply
      /\ reply.items \subseteq Item /\ reply.next \in Nat \cup {NoHeight}
  BY DEF ReceivePage, PollInv, TypeOK, Reply, NoReply
<1>2. held' \subseteq Item
  BY <1>1 DEF ReceivePage, PollInv, TypeOK
<1>3. nextHeight' \in {reply.next, NoHeight}
  BY DEF ReceivePage
<1>4. CASE reply.items = {}
  <2>1. cursor' = cursor
    BY <1>4 DEF ReceivePage
  <2>2. RequestFollows'
    BY <1>1, <1>3, <2>1 DEF PollInv, ReplyFollows, RequestFollows
  <2>3. QED
    BY <1>1, <1>2, <1>3, <2>1, <2>2 DEF PollInv, TypeOK
<1>5. CASE reply.items # {}
  <2> DEFINE last == LastItem(reply)
  <2>1. last \in reply.items
    BY <1>1, <1>5, LastOfPage
  <2>2. cursor' = <<last.height, last.tx>>
    BY <1>5 DEF ReceivePage
  <2>3. last.height \in Nat /\ last.tx \in Nat
    BY <1>1, <2>1 DEF Item
  <2> HIDE DEF last
  <2>4. cursor' \in Key /\ cursor'[1] = last.height
    BY <2>2, <2>3 DEF Key
  <2>5. reply.next # NoHeight => last.height < reply.next
    BY <1>1, <2>1 DEF PollInv, ReplyFollows
  <2>6. RequestFollows'
    BY <1>3, <2>4, <2>5 DEF RequestFollows
  <2>7. QED
    BY <1>1, <1>2, <1>3, <2>4, <2>6
<1>6. QED
  BY <1>4, <1>5

-----------------------------------------------------------------------------
\* The client has no cursor and no reply is on its way.
LEMMA InitPoll == Init => PollInv
BY DEF Init, DbInit, PollInv, TypeOK, DbInv, DbTypeOK, Known, RequestFollows, ReplyFollows,
       NoReply, Hash, NoHeight

\* Every action keeps it.
LEMMA PollStep == PollInv /\ [Next]_vars => PollInv'
<1> SUFFICES ASSUME PollInv, [Next]_vars PROVE PollInv'
  OBVIOUS
<1>1. CASE Db
  <2>1. DbInv' /\ lastIndexed <= lastIndexed'
    BY <1>1, DbStep DEF Db, PollInv
  <2>2. UNCHANGED <<reply, byCursor, limit, held, cursor, nextHeight, restartAt, lost>>
    BY <1>1 DEF Db, clientVars
  <2>3. TypeOK' /\ RequestFollows'
    BY <2>1, <2>2 DEF PollInv, TypeOK, DbInv, RequestFollows
  <2>4. ReplyFollows'
    <3>1. lastIndexed \in Nat /\ lastIndexed' \in Nat
      BY <2>1 DEF PollInv, DbInv, DbTypeOK
    <3>2. reply.type = "page" => reply.items \subseteq Item
      BY DEF PollInv, TypeOK, Reply, NoReply
    <3>3. QED
      BY <2>1, <2>2, <3>1, <3>2 DEF PollInv, ReplyFollows, Item
  <2>5. QED
    BY <2>1, <2>3, <2>4 DEF PollInv
<1>2. ASSUME UNCHANGED dbVars PROVE DbInv' /\ DbTypeOK'
  BY <1>2 DEF PollInv, DbInv, DbTypeOK, Known, dbVars
<1>3. CASE GetFeed
  <2>1. UNCHANGED <<dbVars, byCursor, limit, held, cursor, nextHeight, restartAt, lost>>
    BY <1>3 DEF GetFeed, clientVars
  <2>2. QED
    BY <1>2, <1>3, <2>1, AnswerStep DEF PollInv, TypeOK, RequestFollows
<1>4. CASE Lose
  <2>1. UNCHANGED <<dbVars, byCursor, limit, held, cursor, nextHeight, restartAt>>
        /\ reply' = NoReply /\ lost' = lost + 1
    BY <1>4 DEF Lose, clientVars
  <2>2. QED
    BY <1>2, <2>1 DEF PollInv, TypeOK, RequestFollows, ReplyFollows, NoReply
<1>5. CASE ReceivePage
  <2>1. UNCHANGED <<dbVars, byCursor, limit, restartAt, lost>> /\ reply' = NoReply
    BY <1>5 DEF ReceivePage
  <2>2. ReplyFollows'
    BY <2>1 DEF ReplyFollows, NoReply
  <2>3. QED
    BY <1>2, <1>5, <2>1, <2>2, ReceiveStep DEF PollInv, TypeOK
<1>6. CASE ReceiveReset
  <2>1. UNCHANGED <<dbVars, byCursor, limit, lost>> /\ reply' = NoReply /\ cursor' = NoCursor
        /\ nextHeight' = NoHeight /\ restartAt' = reply.height /\ held' \subseteq held
    BY <1>6 DEF ReceiveReset
  <2>2. reply.height \in Nat
    BY <1>6 DEF ReceiveReset, PollInv, TypeOK, Reply, NoReply
  <2>3. QED
    BY <1>2, <2>1, <2>2 DEF PollInv, TypeOK, RequestFollows, ReplyFollows, NoReply
<1>7. CASE UNCHANGED vars
  BY <1>2, <1>7 DEF vars, dbVars, clientVars, PollInv, TypeOK, RequestFollows, ReplyFollows
<1>8. QED
  BY <1>1, <1>3, <1>4, <1>5, <1>6, <1>7 DEF Next

\* The invariant holds throughout.
THEOREM PollInvariant == Spec => []PollInv
<1>1. QED
  BY InitPoll, PollStep, PTL DEF Spec

\* Every variable keeps its type.
THEOREM PollTypeCorrect == Spec => []TypeOK
<1>1. PollInv => TypeOK
  BY DEF PollInv
<1>2. QED
  BY <1>1, PollInvariant, PTL

\* No page repeats an item: by height or by cursor, with any limits, lost
\* replies, late rows and reorganisations.
THEOREM PagesAreFresh == Spec => []PageIsFresh
<1>1. PollInv => PageIsFresh
  BY DEF PollInv, ReplyFollows, PageIsFresh
<1>2. QED
  BY <1>1, PollInvariant, PTL

-----------------------------------------------------------------------------
(* No page boundary loses an item.                                         *)

\* Where that holds: nothing was replaced, and a client that may meet rows that
\* are late goes on from its cursor.
Careful == reorgs = 0 /\ (gaps = 0 \/ byCursor)

Has(b, i) == ItemOf(b, i) \in held

\* The items of a block that a client owes itself: none of a block below the
\* height that a reset sent it to.
Wanted(b) == {i \in Owed(b) : restartAt <= b.height}

\* The client has what it wants below height h, and no row is late there.
HeldBelow(h) ==
  /\ \A b \in blocks : \A i \in Wanted(b) : b.height < h => Has(b, i)
  /\ \A m \in missing : restartAt <= m.height => h <= m.height
  /\ h <= restartAt \/ \E b \in Known : h <= b.height

\* It has what lies at or before its cursor.
CursorComplete ==
  cursor # NoCursor =>
    /\ \A b \in blocks : \A i \in Wanted(b) : ~KeyLess(cursor, <<b.height, i>>) => Has(b, i)
    /\ \A m \in missing : restartAt <= m.height => cursor[1] < m.height
    /\ \E b \in Known : b.height = cursor[1]

\* It has what lies below the height it may ask for.
HeightsComplete ==
  /\ byCursor => nextHeight = NoHeight
  /\ nextHeight # NoHeight => HeldBelow(nextHeight)

\* A page has all that is missing up to any of its items, and below the height
\* it gives for the next.
PageComplete ==
  reply.type = "page" =>
    /\ \A x \in reply.items :
         /\ \A b \in blocks : \A i \in Wanted(b) :
              ~KeyLess(<<x.height, x.tx>>, <<b.height, i>>) =>
                Has(b, i) \/ ItemOf(b, i) \in reply.items
         /\ \A m \in missing : restartAt <= m.height => x.height < m.height
         /\ \E b \in Known : b.height = x.height
    /\ ~byCursor /\ reply.next # NoHeight =>
         /\ \A b \in blocks : \A i \in Wanted(b) :
              b.height < reply.next => Has(b, i) \/ ItemOf(b, i) \in reply.items
         /\ \E b \in Known : reply.next <= b.height

LossInv == CursorComplete /\ HeightsComplete /\ PageComplete

\* What the client holds, or is about to get, are items of ready blocks; its
\* cursor is at the last of them.
HeldIsReady ==
  /\ \A x \in held :
       /\ \E b \in blocks : ReadyBlock(b) /\ x.tx \in Owed(b) /\ x = ItemOf(b, x.tx)
       /\ cursor # NoCursor /\ ~KeyLess(cursor, <<x.height, x.tx>>)
  /\ reply.type = "page" =>
       \A x \in reply.items :
         \E b \in blocks : ReadyBlock(b) /\ x.tx \in Owed(b) /\ x = ItemOf(b, x.tx)
  /\ reply.type # "reset" /\ restartAt = 0

-----------------------------------------------------------------------------
\* Wherever a request starts, the client has what lies before.
LEMMA RequestComplete ==
  ASSUME PollInv, LossInv
  PROVE  HeldBelow(FromHeight)
<1>1. CASE FromCursor # NoCursor
  <2>1. FromHeight = cursor[1] /\ cursor # NoCursor /\ FromHeight \in Nat
    BY <1>1, RequestFrom DEF PollInv
  <2>2. \A b \in Known : b.height \in Nat
    BY DEF PollInv, DbInv, DbTypeOK, Known, BlockRow
  <2>3. \A b \in blocks : \A i \in Wanted(b) : b.height < cursor[1] => Has(b, i)
    BY <2>1, <2>2 DEF LossInv, CursorComplete, KeyLess, Known
  <2>4. \A m \in missing : restartAt <= m.height => cursor[1] <= m.height
    BY <2>1, <2>2 DEF LossInv, CursorComplete, Known
  <2>5. \E b \in Known : cursor[1] <= b.height
    BY <2>1, <2>2 DEF LossInv, CursorComplete
  <2>6. QED
    BY <2>1, <2>3, <2>4, <2>5 DEF HeldBelow
<1>2. CASE FromCursor = NoCursor /\ nextHeight # NoHeight
  <2>1. FromHeight = nextHeight
    BY <1>2 DEF FromHeight
  <2>2. QED
    BY <1>2, <2>1 DEF LossInv, HeightsComplete
<1>3. CASE FromCursor = NoCursor /\ nextHeight = NoHeight
  <2>1. FromHeight = restartAt
    BY <1>3 DEF FromHeight
  <2>2. \A b \in blocks : b.height \in Nat
    BY DEF PollInv, DbInv, DbTypeOK, BlockRow
  <2>3. restartAt \in Nat /\ \A b \in blocks : ~(restartAt <= b.height /\ b.height < restartAt)
    BY <2>2 DEF PollInv, TypeOK
  <2>4. QED
    BY <2>1, <2>3 DEF HeldBelow, Wanted
<1>4. QED
  BY <1>1, <1>2, <1>3

\* Within one snapshot parents fit: what a page finds wrong is a row that is late.
LEMMA FaultIsLate ==
  ASSUME PollInv, ChainInv, NEW h \in Faults
  PROVE  /\ h \in Nat /\ FromHeight <= h
         /\ \E m \in missing : m.height = h
         /\ \E b \in Fetched : h < b.height
<1>1. FromHeight \in Nat /\ ToHeight \in Int /\ h \in FromHeight .. ToHeight /\ h \in Nat
  BY RequestFrom, RangeBounds DEF PollInv, Faults
<1>2. /\ \A b \in Known : b.height \in Nat /\ b.hash \in Hash
      /\ \A b \in Fetched : b \in blocks /\ b \in Known /\ b.height <= ToHeight
  BY DEF PollInv, DbInv, DbTypeOK, Known, BlockRow, Fetched, BlocksInRange
<1>3. \A c, d \in Known : d.height = c.height + 1 => d.parent = c.hash
  BY DEF ChainInv
<1>4. ~Mismatch(h)
  <2>1. \A g : Present(g) => At(g) \in Fetched /\ At(g).height = g
    BY DEF Present, At
  <2>2. ASSUME Present(h), h = FromHeight, Boundary # NoHash
        PROVE  At(h).parent = Boundary
    <3>1. FromHeight > 0 /\ Boundary = BlockHashAt(FromHeight - 1)
      BY <2>2 DEF Boundary
    <3>2. \E b \in blocks : b.height = FromHeight - 1
      BY <2>2, <3>1 DEF BlockHashAt
    <3>3. PICK b \in blocks : b.height = FromHeight - 1 /\ Boundary = b.hash
      BY <3>1, <3>2 DEF BlockHashAt
    <3>4. b \in Known /\ At(h) \in Known /\ At(h).height = b.height + 1
      BY <1>1, <1>2, <2>1, <2>2, <3>3 DEF Known
    <3>5. QED
      BY <1>3, <3>3, <3>4
  <2>3. ASSUME Present(h), h > FromHeight, Present(h - 1)
        PROVE  At(h).parent = At(h - 1).hash
    <3>1. At(h) \in Known /\ At(h - 1) \in Known /\ At(h).height = At(h - 1).height + 1
      BY <1>1, <1>2, <2>1, <2>3
    <3>2. QED
      BY <1>3, <3>1
  <2>4. QED
    BY <2>2, <2>3 DEF Mismatch
<1>5. Gap(h)
  BY <1>4 DEF Faults
<1>6. PICK b \in Fetched : h < b.height
  BY <1>1, <1>2, <1>5 DEF Gap
<1>7. PICK c \in Known : c.height = h
  <2>1. h \in 0 .. b.height
    BY <1>1, <1>2, <1>6
  <2>2. QED
    BY <1>2, <2>1 DEF ChainInv
<1>8. c \notin blocks
  <2>1. c \in blocks => c \in Fetched
    BY <1>1, <1>7 DEF Fetched, BlocksInRange
  <2>2. QED
    BY <1>5, <1>7, <2>1 DEF Gap, Present
<1>9. QED
  BY <1>1, <1>6, <1>7, <1>8 DEF Known

\* Without late rows no page is refused.
LEMMA NoFaults ==
  ASSUME PollInv, ChainInv, gaps = 0
  PROVE  Faults = {}
<1>1. missing = {}
  BY DEF ChainInv
<1>2. QED
  BY <1>1, FaultIsLate

\* Every reply carries what it has to.
LEMMA AnswerComplete ==
  ASSUME PollInv, ChainInv, Careful, LossInv, GetFeed
  PROVE  LossInv'
<1>1. reply' = Answer /\ UNCHANGED <<dbVars, clientVars>>
  BY DEF GetFeed
<1>2. /\ FromHeight \in Nat /\ ToHeight \in Int /\ WalletReadyHeight \in Int
      /\ ToHeight <= WalletReadyHeight /\ DbInv /\ HeldBelow(FromHeight)
  BY RequestFrom, RangeBounds, ReadyHeight, RequestComplete DEF PollInv
<1>3. \A b : b \in blocks => b \in Known /\ b.height \in Nat
  BY <1>2 DEF DbInv, DbTypeOK, BlockRow, Known
<1>4. /\ \A b, i : Has(b, i)' <=> Has(b, i)
      /\ \A b : Wanted(b)' = Wanted(b)
      /\ \A h : HeldBelow(h)' <=> HeldBelow(h)
  BY <1>1 DEF Has, Wanted, HeldBelow, Known, dbVars, clientVars
<1>5. CursorComplete' /\ HeightsComplete'
  BY <1>1, <1>4 DEF LossInv, CursorComplete, HeightsComplete, Known, dbVars, clientVars
<1>6. CASE Answer = EmptyPage
  BY <1>1, <1>5, <1>6 DEF EmptyPage, LossInv, PageComplete
<1>7. CASE Answer = [type |-> "reset", height |-> SafeRestart]
  BY <1>1, <1>5, <1>7 DEF LossInv, PageComplete
<1>8. CASE /\ FromHeight <= WalletReadyHeight /\ Faults = {} /\ Fetched # {}
           /\ Answer = [type  |-> "page",
                        items |-> UNION {{ItemOf(b, i) : i \in Retained(b)} : b \in Fetched},
                        next  |-> NextHeight]
  <2> DEFINE items == UNION {{ItemOf(b, i) : i \in Retained(b)} : b \in Fetched}
  \* Of a block up to the end of the range the client has, or gets, all.
  <2>1. ASSUME NEW b \in blocks, NEW i \in Wanted(b), b.height <= ToHeight
        PROVE  Has(b, i) \/ ItemOf(b, i) \in items
    <3>1. CASE b.height < FromHeight
      BY <1>2, <3>1 DEF HeldBelow
    <3>2. CASE ~(b.height < FromHeight)
      <4>1. b \in Fetched /\ ReadyBlock(b)
        BY <1>2, <1>3, <2>1, <3>2 DEF Fetched, BlocksInRange, ReadyBlock
      <4>2. i \in RelevantTxs(b)
        BY <1>2, <4>1, OwedIsRelevant DEF Wanted
      <4>3. CASE i \in Retained(b)
        BY <4>1, <4>3
      <4>4. CASE i \notin Retained(b)
        <5>1. FromCursor # NoCursor /\ ~KeyLess(FromCursor, <<b.height, i>>) /\ FromCursor = cursor
          BY <4>2, <4>4, RequestFrom DEF Retained, PollInv
        <5>2. QED
          BY <5>1 DEF LossInv, CursorComplete
      <4>5. QED
        BY <4>3, <4>4
    <3>3. QED
      BY <3>1, <3>2
  <2>2. ASSUME NEW x \in items
        PROVE  /\ \A b \in blocks : \A i \in Wanted(b) :
                    ~KeyLess(<<x.height, x.tx>>, <<b.height, i>>) => b.height <= ToHeight
               /\ \A m \in missing : restartAt <= m.height => x.height < m.height
               /\ \E b \in Known : b.height = x.height
    <3>0. PICK c \in Fetched : \E i \in Retained(c) : x = ItemOf(c, i)
      OBVIOUS
    <3>1. x.height = c.height
      BY <3>0 DEF ItemOf
    <3>2. c \in blocks /\ FromHeight <= c.height /\ c.height <= ToHeight
      BY DEF Fetched, BlocksInRange
    <3>3. \A b \in blocks : \A i \in Wanted(b) :
            ~KeyLess(<<x.height, x.tx>>, <<b.height, i>>) => b.height <= ToHeight
      BY <1>2, <1>3, <3>1, <3>2 DEF KeyLess
    <3>4. ASSUME NEW m \in missing, restartAt <= m.height, ~(x.height < m.height)
          PROVE  FALSE
      <4>1. m \in Known /\ m \notin blocks /\ m.height \in Nat /\ FromHeight <= m.height
        BY <1>2, <3>4 DEF Known, ChainInv, HeldBelow, DbInv, DbTypeOK, BlockRow
      <4>2. \A b \in blocks : b.height # m.height
        BY <1>3, <4>1 DEF ChainInv
      <4>3. m.height < c.height
        BY <1>3, <3>1, <3>2, <3>4, <4>1, <4>2
      <4>4. Gap(m.height)
        BY <4>2, <4>3 DEF Gap, Present, Fetched, BlocksInRange
      <4>5. m.height \in FromHeight .. ToHeight
        BY <1>2, <1>3, <3>2, <4>1, <4>3
      <4>6. QED
        BY <1>8, <4>4, <4>5 DEF Faults
    <3>5. QED
      BY <1>3, <3>1, <3>2, <3>3, <3>4
  <2>3. ASSUME NextHeight # NoHeight
        PROVE  /\ \A b \in blocks : \A i \in Wanted(b) :
                    b.height < NextHeight => Has(b, i) \/ ItemOf(b, i) \in items
               /\ \E b \in Known : NextHeight <= b.height
    <3>1. NextHeight = ToHeight + 1 /\ ToHeight < WalletReadyHeight
      BY <2>3 DEF NextHeight
    <3>2. blocks # {}
      BY <1>8 DEF Fetched, BlocksInRange
    <3>3. PICK b \in blocks : WalletReadyHeight <= b.height
      BY <1>2, <3>2, ReadyBelowHead
    <3>4. NextHeight <= b.height /\ b \in Known
      BY <1>2, <1>3, <3>1, <3>3
    <3>5. \A c \in blocks : c.height < NextHeight => c.height <= ToHeight
      BY <1>2, <1>3, <3>1
    <3> HIDE DEF items
    <3>6. QED
      BY <2>1, <3>4, <3>5
  <2>4. reply' = [type |-> "page", items |-> items, next |-> NextHeight]
    BY <1>1, <1>8
  <2> HIDE DEF items
  <2>5. reply'.type = "page" /\ reply'.items = items /\ reply'.next = NextHeight
    BY <2>4
  <2>6. PageComplete'
    <3>1. \A x \in items :
            /\ \A b \in blocks : \A i \in Wanted(b) :
                 ~KeyLess(<<x.height, x.tx>>, <<b.height, i>>) =>
                   Has(b, i) \/ ItemOf(b, i) \in items
            /\ \A m \in missing : restartAt <= m.height => x.height < m.height
            /\ \E b \in Known : b.height = x.height
      BY <2>1, <2>2
    <3>2. UNCHANGED <<blocks, missing, Known, byCursor, restartAt>>
      BY <1>1 DEF dbVars, clientVars, Known
    <3>3. QED
      BY <1>4, <2>3, <2>5, <3>1, <3>2 DEF PageComplete
  <2>7. QED
    BY <1>5, <2>5, <2>6 DEF LossInv
<1>9. QED
  BY <1>2, <1>6, <1>7, <1>8 DEF Answer

\* The client stores a page and goes on from its last item or its nextHeight.
LEMMA ReceiveComplete ==
  ASSUME PollInv, ChainInv, Careful, LossInv, ReceivePage
  PROVE  LossInv'
<1>1. /\ reply.type = "page" /\ reply'.type = "none" /\ held' = held \cup reply.items
      /\ UNCHANGED <<dbVars, byCursor, restartAt>>
      /\ nextHeight' = IF byCursor THEN NoHeight ELSE reply.next
  BY DEF ReceivePage, NoReply
<1>2. /\ \A b, i : Has(b, i) => Has(b, i)'
      /\ \A b, i : ItemOf(b, i) \in reply.items => Has(b, i)'
  BY <1>1 DEF Has
<1>3. UNCHANGED <<blocks, missing, Known, restartAt>> /\ \A b : Wanted(b)' = Wanted(b)
  BY <1>1 DEF dbVars, Known, Wanted
<1>5. CursorComplete'
  <2>1. CASE reply.items = {}
    <3>1. cursor' = cursor
      BY <2>1 DEF ReceivePage
    <3>2. QED
      BY <1>2, <1>3, <3>1 DEF LossInv, CursorComplete
  <2>2. CASE reply.items # {}
    <3>1. PICK x \in reply.items : x = LastItem(reply)
      BY <1>1, <2>2, LastOfPage
    <3>2. cursor' = <<x.height, x.tx>>
      BY <2>2, <3>1 DEF ReceivePage
    <3>3. /\ \A b \in blocks : \A i \in Wanted(b) :
               ~KeyLess(<<x.height, x.tx>>, <<b.height, i>>) =>
                 Has(b, i) \/ ItemOf(b, i) \in reply.items
          /\ \A m \in missing : restartAt <= m.height => x.height < m.height
          /\ \E b \in Known : b.height = x.height
      BY <1>1 DEF LossInv, PageComplete
    <3>4. cursor'[1] = x.height
      BY <3>2
    <3>5. QED
      BY <1>2, <1>3, <3>2, <3>3, <3>4 DEF CursorComplete
  <2>3. QED
    BY <2>1, <2>2
<1>6. HeightsComplete'
  <2>1. CASE byCursor \/ reply.next = NoHeight
    BY <1>1, <2>1 DEF HeightsComplete
  <2>2. CASE ~byCursor /\ reply.next # NoHeight
    <3>1. missing = {} /\ nextHeight' = reply.next /\ byCursor' = byCursor
      BY <1>1, <2>2 DEF Careful, ChainInv
    <3>2. /\ \A b \in blocks : \A i \in Wanted(b) :
               b.height < reply.next => Has(b, i) \/ ItemOf(b, i) \in reply.items
          /\ \E b \in Known : reply.next <= b.height
      BY <1>1, <2>2 DEF LossInv, PageComplete
    <3>3. HeldBelow(nextHeight)'
      BY <1>2, <1>3, <3>1, <3>2 DEF HeldBelow
    <3>4. QED
      BY <2>2, <3>1, <3>3 DEF HeightsComplete
  <2>3. QED
    BY <2>1, <2>2
<1>7. QED
  BY <1>1, <1>5, <1>6 DEF LossInv, PageComplete

\* After a reset the client has neither a cursor nor a height to go on from.
LEMMA ResetKeeps ==
  ASSUME ReceiveReset
  PROVE  LossInv'
BY DEF ReceiveReset, NoReply, LossInv, CursorComplete, HeightsComplete, PageComplete

\* What the indexers add lies above all that the client has gone past.
LEMMA DbComplete ==
  ASSUME PollInv, ChainInv, Careful, LossInv, Db, Careful'
  PROVE  LossInv'
<1>1. DbInv /\ DbNext /\ DbInv' /\ UNCHANGED <<reply, clientVars>> /\ reorgs' = 0
  BY DbStep DEF Db, PollInv, Careful
<1>2. /\ blocks \subseteq blocks'
      /\ \A b \in blocks' \ blocks :
           (\A c \in Known : c.height < b.height) \/ \E m \in missing : m.height = b.height
      /\ \A m \in missing' : m \in missing \/ \A c \in Known : c.height < m.height
      /\ \A c \in Known : \E d \in Known' : d.height = c.height
  BY <1>1, TablesOnlyGrow
<1>3. /\ \A b \in Known : b.height \in Nat
      /\ \A b \in Known' : b.height \in Nat
      /\ \A b \in blocks : b \in Known
      /\ \A b \in blocks' : b \in Known'
      /\ \A m \in missing' : m \in Known'
  BY <1>1 DEF DbInv, DbTypeOK, BlockRow, Known
<1>4. /\ \A b, i : Has(b, i)' <=> Has(b, i)
      /\ \A b : Wanted(b)' = Wanted(b)
      /\ restartAt' = restartAt /\ restartAt \in Nat
  BY <1>1 DEF Has, Wanted, clientVars, PollInv, TypeOK
<1>5. ASSUME NEW h \in Nat, HeldBelow(h)
      PROVE  HeldBelow(h)'
  <2>1. \A b \in blocks' : restartAt <= b.height /\ b.height < h => b \in blocks
    BY <1>2, <1>3, <1>4, <1>5 DEF HeldBelow
  <2>2. \A m \in missing' : restartAt <= m.height => h <= m.height
    BY <1>2, <1>3, <1>4, <1>5 DEF HeldBelow
  <2>3. h <= restartAt \/ \E b \in Known' : h <= b.height
    BY <1>2, <1>3, <1>5 DEF HeldBelow
  <2>4. \A b \in blocks' : \A i \in Wanted(b) : b.height < h => Has(b, i)
    BY <1>5, <2>1 DEF HeldBelow, Wanted
  <2>5. QED
    BY <1>4, <2>2, <2>3, <2>4 DEF HeldBelow
<1>6. CursorComplete'
  <2>1. SUFFICES ASSUME cursor # NoCursor
                 PROVE  /\ \A b \in blocks' : \A i \in Wanted(b) :
                             ~KeyLess(cursor, <<b.height, i>>) => Has(b, i)
                        /\ \A m \in missing' : restartAt <= m.height => cursor[1] < m.height
                        /\ \E b \in Known' : b.height = cursor[1]
    BY <1>1, <1>4 DEF CursorComplete, clientVars
  <2>2. /\ \A b \in blocks : \A i \in Wanted(b) : ~KeyLess(cursor, <<b.height, i>>) => Has(b, i)
        /\ \A m \in missing : restartAt <= m.height => cursor[1] < m.height
        /\ \E b \in Known : b.height = cursor[1]
        /\ cursor[1] \in Nat
    BY <2>1, CursorPair DEF PollInv, TypeOK, LossInv, CursorComplete
  <2>3. \A b \in blocks' \ blocks : restartAt <= b.height => cursor[1] < b.height
    BY <1>2, <1>3, <1>4, <2>2
  <2>4. \A m \in missing' : restartAt <= m.height => cursor[1] < m.height
    BY <1>2, <1>3, <1>4, <2>2
  <2>5. \E b \in Known' : b.height = cursor[1]
    BY <1>2, <2>2
  <2>6. QED
    BY <2>2, <2>3, <2>4, <2>5 DEF KeyLess, Wanted
<1>7. HeightsComplete'
  <2>1. PICK n : n = nextHeight
    OBVIOUS
  <2>2. n # NoHeight => HeldBelow(n)'
    BY <1>5, <2>1 DEF PollInv, TypeOK, LossInv, HeightsComplete
  <2>3. QED
    BY <1>1, <2>1, <2>2 DEF LossInv, HeightsComplete, clientVars
<1>8. PageComplete'
  <2>1. SUFFICES ASSUME reply.type = "page"
                 PROVE  /\ \A x \in reply.items :
                             /\ \A b \in blocks' : \A i \in Wanted(b) :
                                  ~KeyLess(<<x.height, x.tx>>, <<b.height, i>>) =>
                                    Has(b, i) \/ ItemOf(b, i) \in reply.items
                             /\ \A m \in missing' : restartAt <= m.height => x.height < m.height
                             /\ \E b \in Known' : b.height = x.height
                        /\ ~byCursor /\ reply.next # NoHeight =>
                             /\ \A b \in blocks' : \A i \in Wanted(b) :
                                  b.height < reply.next => Has(b, i) \/ ItemOf(b, i) \in reply.items
                             /\ \E b \in Known' : reply.next <= b.height
    BY <1>1, <1>4 DEF PageComplete, clientVars
  <2>2. ASSUME NEW x \in reply.items
        PROVE  /\ \A b \in blocks' : \A i \in Wanted(b) :
                    ~KeyLess(<<x.height, x.tx>>, <<b.height, i>>) =>
                      Has(b, i) \/ ItemOf(b, i) \in reply.items
               /\ \A m \in missing' : restartAt <= m.height => x.height < m.height
               /\ \E b \in Known' : b.height = x.height
    <3>1. /\ \A b \in blocks : \A i \in Wanted(b) :
               ~KeyLess(<<x.height, x.tx>>, <<b.height, i>>) =>
                 Has(b, i) \/ ItemOf(b, i) \in reply.items
          /\ \A m \in missing : restartAt <= m.height => x.height < m.height
          /\ \E b \in Known : b.height = x.height
      BY <2>1 DEF LossInv, PageComplete
    <3>2. \A b \in blocks' \ blocks : restartAt <= b.height => x.height < b.height
      BY <1>2, <1>3, <1>4, <3>1
    <3>3. \A m \in missing' : restartAt <= m.height => x.height < m.height
      BY <1>2, <1>3, <1>4, <3>1
    <3>4. \E b \in Known' : b.height = x.height
      BY <1>2, <3>1
    <3>5. QED
      BY <3>1, <3>2, <3>3, <3>4 DEF KeyLess, Wanted
  <2>3. ASSUME ~byCursor, reply.next # NoHeight
        PROVE  /\ \A b \in blocks' : \A i \in Wanted(b) :
                    b.height < reply.next => Has(b, i) \/ ItemOf(b, i) \in reply.items
               /\ \E b \in Known' : reply.next <= b.height
    <3>1. missing = {}
      BY <2>3 DEF Careful, ChainInv
    <3>2. /\ \A b \in blocks : \A i \in Wanted(b) :
               b.height < reply.next => Has(b, i) \/ ItemOf(b, i) \in reply.items
          /\ \E b \in Known : reply.next <= b.height
      BY <2>1, <2>3 DEF LossInv, PageComplete
    <3>3. reply.next \in Nat
      BY <2>1, <2>3 DEF PollInv, TypeOK, Reply, NoReply
    <3>4. \A b \in blocks' : b.height < reply.next => b \in blocks
      BY <1>2, <1>3, <3>1, <3>2, <3>3
    <3>5. \E b \in Known' : reply.next <= b.height
      BY <1>2, <3>2
    <3>6. QED
      BY <3>2, <3>4, <3>5
  <2>4. QED
    BY <2>2, <2>3
<1>9. QED
  BY <1>6, <1>7, <1>8 DEF LossInv

\* Only the indexers change the tables; the counters of the bounds never fall.
LEMMA TablesStand ==
  ASSUME PollInv, ChainInv, [Next]_vars
  PROVE  /\ Db \/ UNCHANGED dbVars
         /\ ChainInv' /\ byCursor' = byCursor
         /\ Careful' => Careful
         /\ Calm' => Calm
<1>1. (Db \/ UNCHANGED dbVars) /\ byCursor' = byCursor
  BY DEF Next, Db, GetFeed, Lose, ReceivePage, ReceiveReset, vars, clientVars
<1>2. ChainInv'
  <2>1. CASE Db
    BY <2>1, ChainStep DEF Db, PollInv
  <2>2. CASE UNCHANGED dbVars
    BY <2>2 DEF ChainInv, Known, dbVars
  <2>3. QED
    BY <1>1, <2>1, <2>2
<1>3. /\ reorgs \in Nat /\ gaps \in Nat
      /\ reorgs' = reorgs \/ reorgs' = reorgs + 1
      /\ gaps' = gaps \/ gaps' = gaps + 1
  BY <1>1 DEF PollInv, DbInv, DbTypeOK, Db, DbNext, AddBlock, Backfill, SkipBlock, Reorg,
     IndexTx, dbVars
<1>4. QED
  BY <1>1, <1>2, <1>3 DEF Careful, Calm

\* Every step of the system keeps what lies before the client complete.
LEMMA LossStep ==
  ASSUME PollInv, ChainInv, Careful => LossInv, [Next]_vars, Careful'
  PROVE  LossInv'
<1>1. Careful /\ LossInv
  BY TablesStand
<1>2. CASE Db
  BY <1>1, <1>2, DbComplete
<1>3. CASE GetFeed
  BY <1>1, <1>3, AnswerComplete
<1>4. CASE Lose
  BY <1>1, <1>4 DEF Lose, LossInv, CursorComplete, HeightsComplete, PageComplete,
     HeldBelow, Has, Wanted, Known, NoReply, dbVars, clientVars
<1>5. CASE ReceivePage
  BY <1>1, <1>5, ReceiveComplete
<1>6. CASE ReceiveReset
  BY <1>1, <1>6, ResetKeeps
<1>7. CASE UNCHANGED vars
  BY <1>1, <1>7 DEF vars, LossInv, CursorComplete, HeightsComplete, PageComplete,
     HeldBelow, Has, Wanted, Known, dbVars, clientVars
<1>8. QED
  BY <1>2, <1>3, <1>4, <1>5, <1>6, <1>7 DEF Next

\* So it holds throughout for a client that is careful.
LEMMA LossInvariant == Spec => [](PollInv /\ ChainInv /\ (Careful => LossInv))
<1>1. Init => ChainInv /\ LossInv
  BY BoundsAssumption DEF Init, DbInit, ChainInv, Known, LossInv, CursorComplete,
     HeightsComplete, HeldBelow, PageComplete, NoReply
<1>2. PollInv /\ ChainInv /\ (Careful => LossInv) /\ [Next]_vars
        => ChainInv' /\ (Careful' => LossInv')
  BY TablesStand, LossStep
<1>3. QED
  BY <1>1, <1>2, PollInvariant, PTL DEF Spec

\* No page boundary loses an item, with any limits and any lost replies: by
\* height or by cursor before the first late row, by cursor also after it and
\* after the resets that it brings.
THEOREM PagesLoseNothing == Spec => [](reorgs = 0 => PageNoLoss)
<1>1. PollInv /\ (Careful => LossInv) => (reorgs = 0 => PageNoLoss)
  <2> SUFFICES ASSUME PollInv, LossInv, NEW b \in blocks, NEW t \in b.txs, t.relevant,
                      restartAt <= b.height
               PROVE  \/ ItemOf(b, t.id) \in held
                      \/ FromCursor # NoCursor /\ KeyLess(FromCursor, <<b.height, t.id>>)
                      \/ FromCursor = NoCursor /\ b.height >= FromHeight
    BY DEF PageNoLoss, Careful
  <2>1. t.id \in Wanted(b) /\ b.height \in Nat /\ FromHeight \in Nat
    BY RequestFrom DEF Wanted, Owed, PollInv, DbInv, DbTypeOK, BlockRow
  <2>2. CASE FromCursor # NoCursor
    BY <2>1, <2>2, RequestFrom DEF PollInv, LossInv, CursorComplete, Has
  <2>3. CASE FromCursor = NoCursor
    BY <2>1, <2>3, RequestComplete DEF HeldBelow, Has
  <2>4. QED
    BY <2>2, <2>3
<1>2. QED
  BY <1>1, LossInvariant, PTL

-----------------------------------------------------------------------------
(* Without reorganisations the pages implement FeedReplica.                *)

Copy == {<<x.height, x.tx>> : x \in held}

\* A page of a table without gaps has items of ready blocks, and is no reset.
LEMMA AnswerIsReady ==
  ASSUME PollInv, ChainInv, Calm, LossInv, HeldIsReady, GetFeed
  PROVE  HeldIsReady'
<1>1. reply' = Answer /\ UNCHANGED <<dbVars, clientVars>> /\ DbInv
  BY DEF GetFeed, PollInv
<1>2. gaps = 0
  BY DEF Calm
<1>3. Faults = {}
  BY <1>2, NoFaults
<1>4. \A b : ReadyBlock(b)' <=> ReadyBlock(b)
  BY <1>1, SameReady
<1>5. ASSUME NEW b \in Fetched, NEW i \in Retained(b)
      PROVE  /\ b \in blocks /\ ReadyBlock(b)
             /\ ItemOf(b, i).tx \in Owed(b) /\ ItemOf(b, i) = ItemOf(b, ItemOf(b, i).tx)
  <2>1. b \in blocks /\ b.height <= ToHeight /\ b.height \in Nat
    BY <1>1 DEF Fetched, BlocksInRange, DbInv, DbTypeOK, BlockRow
  <2>2. ReadyBlock(b)
    BY <2>1, RangeBounds, ReadyHeight DEF ReadyBlock, PollInv
  <2>3. i \in Owed(b)
    BY <1>1, <2>2, OwedIsRelevant DEF Retained
  <2>4. QED
    BY <2>1, <2>2, <2>3 DEF ItemOf
<1>6. CASE reply' = EmptyPage
  BY <1>1, <1>4, <1>6 DEF HeldIsReady, EmptyPage, dbVars, clientVars
<1>7. CASE reply' = [type  |-> "page",
                     items |-> UNION {{ItemOf(b, i) : i \in Retained(b)} : b \in Fetched},
                     next  |-> NextHeight]
  <2> DEFINE items == UNION {{ItemOf(b, i) : i \in Retained(b)} : b \in Fetched}
  <2>1. \A x \in items : \E b \in blocks : ReadyBlock(b) /\ x.tx \in Owed(b) /\ x = ItemOf(b, x.tx)
    BY <1>5
  <2> HIDE DEF items
  <2>2. reply'.type = "page" /\ reply'.items = items
    BY <1>7 DEF items
  <2>3. QED
    BY <1>1, <1>4, <2>1, <2>2 DEF HeldIsReady, dbVars, clientVars
<1>8. QED
  BY <1>1, <1>3, <1>6, <1>7 DEF Answer

\* What is stored of a page lies up to the new cursor.
LEMMA ReceiveIsReady ==
  ASSUME PollInv, HeldIsReady, ReceivePage
  PROVE  HeldIsReady'
<1>1. /\ reply.type = "page" /\ reply'.type = "none" /\ held' = held \cup reply.items
      /\ UNCHANGED <<dbVars, restartAt>>
  BY DEF ReceivePage, NoReply
<1>2. \A b : ReadyBlock(b)' <=> ReadyBlock(b)
  BY <1>1, SameReady
<1>3. \A x \in held' : \E b \in blocks : ReadyBlock(b) /\ x.tx \in Owed(b) /\ x = ItemOf(b, x.tx)
  BY <1>1 DEF HeldIsReady
<1>4. \A x \in held' : cursor' # NoCursor /\ ~KeyLess(cursor', <<x.height, x.tx>>)
  <2>1. CASE reply.items = {}
    BY <1>1, <2>1 DEF ReceivePage, HeldIsReady
  <2>2. CASE reply.items # {}
    <3>1. PICK l \in reply.items :
            l = LastItem(reply) /\ \A j \in reply.items : ~KeyLess(<<l.height, l.tx>>, <<j.height, j.tx>>)
      BY <1>1, <2>2, LastOfPage
    <3>2. cursor' = <<l.height, l.tx>>
      BY <2>2, <3>1 DEF ReceivePage
    <3>3. l \in Item /\ \A x \in held : x \in Item
      BY <1>1, <3>1, LastOfPage DEF PollInv, TypeOK
    <3>4. ASSUME NEW x \in held
          PROVE  ~KeyLess(<<l.height, l.tx>>, <<x.height, x.tx>>)
      <4>1. cursor \in Key /\ cursor # NoCursor /\ ~KeyLess(cursor, <<x.height, x.tx>>)
        BY DEF HeldIsReady, PollInv, TypeOK
      <4>2. KeyLess(cursor, <<l.height, l.tx>>)
        BY <1>1, <4>1, <3>1 DEF PollInv, ReplyFollows
      <4>3. QED
        BY <3>3, <4>1, <4>2 DEF KeyLess, Key, Item
    <3>5. cursor' # NoCursor
      BY <3>2 DEF NoCursor
    <3>6. QED
      BY <1>1, <3>1, <3>2, <3>4, <3>5
  <2>3. QED
    BY <2>1, <2>2
<1>5. QED
  BY <1>1, <1>2, <1>3, <1>4 DEF HeldIsReady, dbVars

\* Without late rows the client never holds more than a prefix of the history.
LEMMA ReadyStep ==
  ASSUME PollInv, ChainInv, Calm, LossInv, HeldIsReady, [Next]_vars, Calm'
  PROVE  HeldIsReady'
<1>1. CASE Db
  <2>1. DbInv /\ DbNext /\ UNCHANGED <<reply, held, cursor, restartAt>>
    BY <1>1 DEF Db, PollInv, clientVars
  <2>2. \A b : ReadyBlock(b) => ReadyBlock(b)' /\ b \in blocks'
    BY <2>1, ReadyIsStable DEF ReadyBlock
  <2>3. QED
    BY <2>1, <2>2 DEF HeldIsReady
<1>2. CASE GetFeed
  BY <1>2, AnswerIsReady
<1>3. CASE Lose \/ UNCHANGED vars
  <2>1. UNCHANGED <<dbVars, held, cursor, restartAt>> /\ (reply' = reply \/ reply' = NoReply)
    BY <1>3 DEF Lose, vars, clientVars
  <2>2. \A b : ReadyBlock(b)' <=> ReadyBlock(b)
    BY <2>1, SameReady
  <2>3. QED
    BY <2>1, <2>2 DEF HeldIsReady, NoReply, dbVars
<1>4. CASE ReceivePage
  BY <1>4, ReceiveIsReady
<1>5. ~ReceiveReset
  BY DEF ReceiveReset, HeldIsReady
<1>6. QED
  BY <1>1, <1>2, <1>3, <1>4, <1>5 DEF Next

\* What the client holds is ready, and has no hole.
LEMMA CopyIsPrefix ==
  ASSUME PollInv, LossInv, HeldIsReady
  PROVE  /\ Copy \subseteq History
         /\ \A k \in History, n \in Copy : KeyLess(k, n) => k \in Copy
<1>1. /\ \A b, i : ReadyBlock(b) /\ i \in Owed(b) => <<b.height, i>> \in History
      /\ \A k \in History : \E b : ReadyBlock(b) /\ \E i \in Owed(b) : k = <<b.height, i>>
      /\ History \subseteq Key
  BY HistoryIsOwed DEF PollInv, Key
<1>2. ASSUME NEW n \in Copy
      PROVE  n \in History /\ cursor # NoCursor /\ ~KeyLess(cursor, n)
  <2>1. PICK x \in held : n = <<x.height, x.tx>>
    BY DEF Copy
  <2>2. cursor # NoCursor /\ ~KeyLess(cursor, <<x.height, x.tx>>)
    BY DEF HeldIsReady
  <2>3. PICK b \in blocks : ReadyBlock(b) /\ x.tx \in Owed(b) /\ x = ItemOf(b, x.tx)
    BY DEF HeldIsReady
  <2>4. x.height = b.height
    BY <2>3 DEF ItemOf
  <2>5. QED
    BY <1>1, <2>1, <2>2, <2>3, <2>4
<1>3. ASSUME NEW k \in History, NEW n \in Copy, KeyLess(k, n)
      PROVE  k \in Copy
  <2>1. PICK b, i : ReadyBlock(b) /\ i \in Owed(b) /\ k = <<b.height, i>>
    BY <1>1
  <2>2. k \in Key /\ n \in Key /\ cursor \in Key /\ ~KeyLess(cursor, n) /\ cursor # NoCursor
    BY <1>1, <1>2 DEF PollInv, TypeOK
  <2>3. ~KeyLess(cursor, k)
    BY <1>3, <2>2 DEF KeyLess, Key
  <2>4. b \in blocks /\ i \in Wanted(b)
    BY <1>3, <2>1 DEF HeldIsReady, ReadyBlock, Wanted, Copy, PollInv, DbInv, DbTypeOK, BlockRow
  <2>5. Has(b, i)
    BY <2>1, <2>2, <2>3, <2>4 DEF LossInv, CursorComplete
  <2>6. QED
    BY <2>1, <2>5 DEF Has, Copy, ItemOf
<1>4. QED
  BY <1>2, <1>3

\* Paging implements FeedReplica as long as no row is late: the indexers let
\* the history grow at its end, and each page copies the next stretch of it.
THEOREM PagesCopy ==
  ASSUME MaxReorgs = 0
  PROVE  Spec => PagesAreReplica
<1> DEFINE Inv == PollInv /\ ChainInv /\ (Calm => LossInv /\ HeldIsReady)
<1>1. Init => Replica!ReplicaInit
  BY DEF Init, DbInit, Replica!ReplicaInit
<1>2. Spec => []Inv
  <2>1. Init => HeldIsReady
    BY DEF Init, HeldIsReady, NoReply
  <2>2. /\ PollInv /\ ChainInv /\ (Careful => LossInv) /\ (Calm => HeldIsReady) /\ [Next]_vars
        => (Calm' => HeldIsReady')
    <3>1. Calm => Careful
      BY DEF Calm, Careful
    <3>2. QED
      BY <3>1, TablesStand, ReadyStep
  <2>3. Calm => Careful
    BY DEF Calm, Careful
  <2>4. QED
    BY <2>1, <2>2, <2>3, LossInvariant, PTL DEF Spec
<1>3. ASSUME Inv
      PROVE  reorgs = 0
  BY <1>3 DEF ChainInv, PollInv, DbInv, DbTypeOK
<1>4. Inv' => (reorgs = 0)'
  BY <1>3, PTL
<1>5. Inv /\ Inv' /\ [Next]_vars => [gaps' = 0 => Replica!Grow \/ Replica!Sync]_vars
  <2> SUFFICES ASSUME Inv, Inv', [Next]_vars, gaps' = 0
               PROVE  Replica!Grow \/ Replica!Sync
    OBVIOUS
  <2>1. Calm' /\ Calm /\ LossInv /\ HeldIsReady
    BY <1>4, TablesStand DEF Calm
  <2>2. CASE Db
    <3>1. DbInv /\ DbNext /\ UNCHANGED held
      BY <2>2 DEF Db, PollInv, clientVars
    <3>2. /\ History \subseteq History'
          /\ \A k \in History, n \in History' \ History : k[1] < n[1]
      BY <2>1, <3>1, HistoryGrows
    <3>3. \A k \in History, n \in History' \ History : KeyLess(k, n)
      BY <3>2 DEF KeyLess
    <3>4. QED
      BY <3>1, <3>2, <3>3 DEF Replica!Grow, History
  <2>3. CASE ~Db
    <3>1. UNCHANGED dbVars
      BY <2>3, TablesStand
    <3>2. held \subseteq held'
      BY <2>1, <2>3 DEF Next, GetFeed, Lose, ReceivePage, ReceiveReset, vars, clientVars, HeldIsReady
    <3>3. UNCHANGED History
      BY <3>1 DEF History, RelevantTxs, WalletReadyHeight, Blocking, ChainHead, dbVars
    <3>4. PollInv' /\ LossInv' /\ HeldIsReady'
            => (/\ Copy \subseteq History
                /\ \A k \in History, n \in Copy : KeyLess(k, n) => k \in Copy)'
      BY CopyIsPrefix, PTL
    <3>5. /\ Copy \subseteq Copy' /\ Copy' \subseteq History
          /\ \A k \in History, n \in Copy' : KeyLess(k, n) => k \in Copy'
      BY <2>1, <3>2, <3>3, <3>4 DEF Copy
    <3>6. QED
      BY <3>3, <3>5 DEF Replica!Sync, History, Copy
  <2>4. QED
    BY <2>2, <2>3
<1>6. QED
  BY <1>1, <1>2, <1>5, PTL DEF Spec, PagesAreReplica
=============================================================================
