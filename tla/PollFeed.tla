------------------------------ MODULE PollFeed ------------------------------
(***************************************************************************)
(* GET /v1/feed: the handler get_feed of src/sidecar/src/routes/feed.rs    *)
(* and a client that pages through it.  The handler reads one REPEATABLE   *)
(* READ snapshot and keeps nothing between requests, so a request is one   *)
(* step; its reply travels while the tables move on, and may be lost.      *)
(*                                                                         *)
(* API.md offers two ways to page: nextHeight ("block pagination") and     *)
(* nextCursor ("item pagination").  A client with byCursor uses only the   *)
(* cursor; the other one follows nextHeight while there is one.            *)
(***************************************************************************)
EXTENDS ChainDb, FeedOrder

CONSTANTS
  Limits,   \* the values of limitBlocks that a client may ask with
  LimitMax, \* limit_blocks_max of the configuration
  MaxLost   \* bound: replies that are lost

ASSUME PollAssumption ==
  /\ Limits \subseteq Int
  /\ LimitMax \in Int
  /\ MaxLost \in Nat

VARIABLES
  byCursor,   \* whether the client pages by nextCursor only
  limit,      \* the limitBlocks of its requests
  reply,      \* the reply on its way to the client, NoReply when there is none
  held,       \* the client's items
  cursor,     \* nextCursor of the last reply that had one
  nextHeight, \* nextHeight of the last reply, NoHeight for null
  restartAt,  \* where the client starts while it has neither
  lost        \* replies lost so far

clientVars == <<byCursor, limit, held, cursor, nextHeight, restartAt>>
vars == <<dbVars, reply, clientVars, lost>>

NoHeight == -1
NoReply == [type |-> "none"]

Item == [height : Nat, tx : Nat, hash : Hash, parent : Nat]

Reply ==
  [type : {"reset"}, height : Nat]
    \cup [type : {"page"}, items : SUBSET Item, next : Nat \cup {NoHeight}]

TypeOK ==
  /\ DbTypeOK
  /\ byCursor \in BOOLEAN
  /\ limit \in Limits
  /\ reply \in Reply \cup {NoReply}
  /\ held \subseteq Item
  /\ cursor \in Key \cup {NoCursor}
  /\ nextHeight \in Nat \cup {NoHeight}
  /\ restartAt \in Nat
  /\ lost \in Nat

Init ==
  /\ DbInit
  /\ byCursor \in BOOLEAN
  /\ limit \in Limits
  /\ reply = NoReply
  /\ held = {}
  /\ cursor = NoCursor
  /\ nextHeight = NoHeight
  /\ restartAt = 0
  /\ lost = 0

-----------------------------------------------------------------------------
(* The request.                                                            *)

\* fromCursor, which overrides fromHeight.
FromCursor == IF byCursor \/ nextHeight = NoHeight THEN cursor ELSE NoCursor

FromHeight ==
  CASE FromCursor # NoCursor -> FromCursor[1]
    [] FromCursor = NoCursor /\ nextHeight # NoHeight -> nextHeight
    [] OTHER -> restartAt

Limit == Max({Min({limit, LimitMax}), 1})

-----------------------------------------------------------------------------
(* get_feed.                                                               *)

\* Mutant of ToHeight: bounded by the chain, not by what is indexed.
ToHeightByHead == Min({FromHeight + Limit - 1, ChainHead})

ToHeight == Min({FromHeight + Limit - 1, WalletReadyHeight})

Fetched == BlocksInRange(FromHeight, ToHeight)

Present(h) == \E b \in Fetched : b.height = h

At(h) == CHOOSE b \in Fetched : b.height = h

\* boundary_prev_hash: read from the snapshot that the page is read from.
Boundary == IF FromHeight > 0 THEN BlockHashAt(FromHeight - 1) ELSE NoHash

Gap(h) == ~Present(h) /\ \E b \in Fetched : b.height > h

Mismatch(h) ==
  /\ Present(h)
  /\ \/ h = FromHeight /\ Boundary # NoHash /\ At(h).parent # Boundary
     \/ h > FromHeight /\ Present(h - 1) /\ At(h).parent # At(h - 1).hash

Faults == {h \in FromHeight .. ToHeight : Gap(h) \/ Mismatch(h)}

\* Mutant of SafeRestart: not clamped at the first block.
SafeRestartUnclamped == Min(Faults) - 1

SafeRestart == Max({Min(Faults) - 1, 0})

\* Mutant of Retained: the item at the cursor comes again.
RetainedFromCursor(b) ==
  {i \in RelevantTxs(b) : FromCursor # NoCursor => ~KeyLess(<<b.height, i>>, FromCursor)}

\* The items of a block that lie after the request's cursor.
Retained(b) ==
  {i \in RelevantTxs(b) : FromCursor # NoCursor => KeyLess(FromCursor, <<b.height, i>>)}

\* Mutant of NextHeight: the whole limit is skipped although the page stopped
\* at the ready height.
NextHeightByLimit ==
  IF ToHeight < ChainHead THEN FromHeight + Limit ELSE NoHeight

NextHeight == IF ToHeight < WalletReadyHeight THEN ToHeight + 1 ELSE NoHeight

EmptyPage == [type |-> "page", items |-> {}, next |-> NoHeight]

\* The reply to a request: empty while the wallet is not ready, the client is
\* ahead of it or the range has no rows; a reset when a row is missing or the
\* parents do not fit; else the items of the range.
Answer ==
  CASE FromHeight > WalletReadyHeight \/ Fetched = {} -> EmptyPage
    [] FromHeight <= WalletReadyHeight /\ Faults # {} ->
         [type |-> "reset", height |-> SafeRestart]
    [] OTHER ->
         [type  |-> "page",
          items |-> UNION {{ItemOf(b, i) : i \in Retained(b)} : b \in Fetched},
          next  |-> NextHeight]

GetFeed ==
  /\ reply = NoReply
  /\ reply' = Answer
  /\ UNCHANGED <<dbVars, clientVars, lost>>

\* The reply does not arrive; the client asks again.
Lose ==
  /\ reply # NoReply
  /\ lost < MaxLost
  /\ lost' = lost + 1
  /\ reply' = NoReply
  /\ UNCHANGED <<dbVars, clientVars>>

-----------------------------------------------------------------------------
(* The client (external).                                                  *)

\* next_cursor: the last item of the page.
LastItem(page) ==
  CHOOSE i \in page.items : \A j \in page.items :
    ~KeyLess(<<i.height, i.tx>>, <<j.height, j.tx>>)

ReceivePage ==
  /\ reply.type = "page"
  /\ held' = held \cup reply.items
  /\ cursor' =
       IF reply.items = {} THEN cursor
       ELSE <<LastItem(reply).height, LastItem(reply).tx>>
  /\ nextHeight' = IF byCursor THEN NoHeight ELSE reply.next
  /\ reply' = NoReply
  /\ UNCHANGED <<dbVars, byCursor, limit, restartAt, lost>>

ReceiveReset ==
  /\ reply.type = "reset"
  /\ held' = {i \in held : i.height < reply.height}
  /\ cursor' = NoCursor
  /\ nextHeight' = NoHeight
  /\ restartAt' = reply.height
  /\ reply' = NoReply
  /\ UNCHANGED <<dbVars, byCursor, limit, lost>>

-----------------------------------------------------------------------------
Db == DbNext /\ UNCHANGED <<reply, clientVars, lost>>

Next == Db \/ GetFeed \/ Lose \/ ReceivePage \/ ReceiveReset

Spec == Init /\ [][Next]_vars

\* The client keeps polling and replies arrive in the end; the indexers owe
\* nothing.
FairSpec ==
  /\ Spec
  /\ WF_vars(GetFeed)
  /\ WF_vars(ReceivePage)
  /\ WF_vars(ReceiveReset)

-----------------------------------------------------------------------------
(* Properties.                                                             *)

\* What a page brings sorts after the items the client has from the pages
\* before: with lost replies and a moving ready height no item comes twice.
PageIsFresh ==
  reply.type = "page" =>
    \A i \in reply.items : cursor = NoCursor \/ KeyLess(cursor, <<i.height, i.tx>>)

\* From the height where it started, or the last reset sent it, up to the height
\* that it asks for next or the cursor that it resumes from, the client holds
\* every item: no page boundary loses one, whatever the limit.  With rows that
\* come late only the cursor keeps that; nextHeight goes past what is missing at
\* the end of a page.
PageNoLoss ==
  gaps = 0 \/ byCursor =>
    \A b \in blocks : \A t \in b.txs : t.relevant /\ restartAt <= b.height =>
      \/ ItemOf(b, t.id) \in held
      \/ FromCursor # NoCursor /\ KeyLess(FromCursor, <<b.height, t.id>>)
      \/ FromCursor = NoCursor /\ b.height >= FromHeight

\* The restart height of a reset is safe for a client that goes on from its
\* cursor: below it the client has everything.  (One that follows nextHeight may
\* have gone past a late row long before.)  The code does not keep this: a gap
\* late in a page resets to above blocks the page never returned; see README.
ResetIsSafe ==
  reply.type = "reset" /\ byCursor =>
    \A b \in blocks : \A t \in b.txs :
      t.relevant /\ b.height < reply.height => ItemOf(b, t.id) \in held

\* Transaction k is the wallet's, indexed and in a ready block.
Ready(k) ==
  \E b \in blocks : k \in RelevantTxs(b) /\ b.height <= WalletReadyHeight

\* Every ready item reaches the client that keeps asking get_feed for the page
\* at nextHeight, whatever replies are lost.
PagesReachAll ==
  \A k \in 1 .. MaxTxs :
    Ready(k) ~> (~Ready(k) \/ (\E i \in held : i.tx = k) \/ gaps > 0 \/ byCursor)

Replica == INSTANCE FeedReplica WITH
  Before <- KeyLess,
  history <- UNION {{<<b.height, i>> : i \in RelevantTxs(b)} :
                      b \in {c \in blocks : c.height <= WalletReadyHeight}},
  copy <- {<<i.height, i.tx>> : i \in held}

\* As long as no row is late, the client's items implement FeedReplica page by
\* page, as the stream's do: they are at every moment an initial segment of the
\* ready items.
PagesAreReplica ==
  /\ Replica!ReplicaInit
  /\ [][gaps' = 0 => Replica!Grow \/ Replica!Sync]_vars
=============================================================================
