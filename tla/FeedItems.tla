----------------------------- MODULE FeedItems -----------------------------
(***************************************************************************)
(* What a block brings a wallet, item by item: the queries and the         *)
(* assembly of build_block_bundles_tx (src/sidecar/src/routes/subscribe.rs;*)
(* get_feed assembles the same items), update_profile of routes/session.rs,*)
(* which changes what the wallet is entitled to, and a client that resumes *)
(* with the cursor of the last item it applied.                            *)
(*                                                                         *)
(* Rows have the BIGSERIAL ids of their tables, here their positions.      *)
(* Readiness, batches and reorganisations are in Subscribe; the updates    *)
(* put before a transaction are in InlineMerkle.                           *)
(***************************************************************************)
EXTENDS Integers, Sequences, FiniteSets

CONSTANTS
  Addresses,    \* unshielded addresses of the wallet and of others
  DustKeys,     \* dust public keys of the wallet and of others
  Shapes,       \* what a transaction may hold: [relevant, events, creates]
  Profiles,     \* the profiles the client asks for: [addresses, dust]
  TxMeta,       \* includeTxMeta
  AllDust,      \* includeAllDust
  Nullifiers,   \* whether nullifiers are streamed
  SelfSpends,   \* whether a transaction may spend what it creates
  MaxTxs,       \* bound: transactions
  MaxDrops,     \* bound: connections that fail
  MaxUpdates,   \* bound: profile updates
  MaxLost       \* bound: replies to profile updates that are lost

\* The events of table ledger_events: a ZswapInput, another Zswap event, a
\* DustSpendProcessed, or another Dust event, which names a dust key.
Kind == {"input", "output", "dustSpend"} \cup DustKeys
Shape == [relevant : BOOLEAN, events : Seq(Kind), creates : Seq(Addresses)]
Profile == [addresses : SUBSET Addresses, dust : DustKeys]

ASSUME ItemsAssumption ==
  /\ Shapes \subseteq Shape
  /\ Profiles \subseteq Profile /\ Profiles # {}
  /\ {TxMeta, AllDust, Nullifiers, SelfSpends} \subseteq BOOLEAN
  /\ {MaxTxs, MaxDrops, MaxUpdates, MaxLost} \subseteq Nat
  /\ DustKeys \cap {"input", "output", "dustSpend"} = {}

VARIABLES
  txs,        \* transactions: [block, relevant]
  events,     \* ledger_events: [tx, kind]
  utxos,      \* unshielded_utxos: [owner, created, spent], spent 0 for NULL
  profile,    \* session_profile and session_unshielded_address
  put,        \* PUT profile: "idle", "sent", or its reply "restart" or "done"
  wanted,     \* the profile it asks for
  next,       \* the block that is built next, 0 without a stream
  fromCursor, \* from_cursor, NoCursor once it has been used
  wire,       \* items sent and not yet applied
  held,       \* items the client has applied
  cursor,     \* the client's cursor
  drops, updates, lost

tableVars == <<txs, events, utxos>>
putVars == <<profile, put, wanted, updates, lost>>
streamVars == <<next, fromCursor, wire>>
clientVars == <<held, cursor>>
vars == <<tableVars, putVars, streamVars, clientVars, drops>>

NoCursor == <<0, 0, 0, 0>>
PHASE_TX == 0
PHASE_LEDGER_EVENT == 1
PHASE_UNSHIELDED == 2

Item == [tx : 1 .. MaxTxs, phase : 0 .. 2, ord : Nat,
         what : {"meta", "tx", "input", "dust", "create", "spend"}]

TypeOK ==
  /\ txs \in Seq([block : 1 .. MaxTxs, relevant : BOOLEAN])
  /\ events \in Seq([tx : 1 .. MaxTxs, kind : Kind])
  /\ utxos \in Seq([owner : Addresses, created : 1 .. MaxTxs, spent : 0 .. MaxTxs])
  /\ profile \in Profile /\ wanted \in Profile
  /\ put \in {"idle", "sent", "restart", "done"}
  /\ next \in 0 .. MaxTxs + 1
  /\ fromCursor \in Nat \X Nat \X (0 .. 2) \X Nat
  /\ cursor \in Nat \X Nat \X (0 .. 2) \X Nat
  /\ wire \subseteq Item /\ held \subseteq Item
  /\ drops \in 0 .. MaxDrops /\ updates \in 0 .. MaxUpdates /\ lost \in 0 .. MaxLost

Init ==
  /\ txs = <<>> /\ events = <<>> /\ utxos = <<>>
  /\ profile \in Profiles /\ put = "idle" /\ wanted = profile
  /\ next = 0 /\ fromCursor = NoCursor /\ wire = {}
  /\ held = {} /\ cursor = NoCursor
  /\ drops = 0 /\ updates = 0 /\ lost = 0

-----------------------------------------------------------------------------
(* The chain-indexer (external).                                           *)

LastBlock == IF txs = <<>> THEN 0 ELSE txs[Len(txs)].block

\* A transaction with its events, the outputs it creates and the ones it
\* spends: in a new block, or in the last one while no stream has built it.
AddTx(shape, block) ==
  LET id      == Len(txs) + 1
      created == [i \in DOMAIN shape.creates |->
                    [owner |-> shape.creates[i], created |-> id, spent |-> 0]]
      all     == utxos \o created
      free    == {u \in DOMAIN all : all[u].spent = 0 /\ (SelfSpends \/ all[u].created < id)}
  IN  /\ id <= MaxTxs
      /\ block \in {LastBlock, LastBlock + 1}
      /\ block >= 1
      /\ block = LastBlock => next <= block
      /\ txs' = Append(txs, [block |-> block, relevant |-> shape.relevant])
      /\ events' = events \o [i \in DOMAIN shape.events |-> [tx |-> id, kind |-> shape.events[i]]]
      /\ \E spends \in SUBSET free :
           utxos' = [u \in DOMAIN all |->
                       IF u \in spends THEN [all[u] EXCEPT !.spent = id] ELSE all[u]]
      /\ UNCHANGED <<putVars, streamVars, clientVars, drops>>

-----------------------------------------------------------------------------
(* The queries, for the block at height h.                                 *)

TxsOf(h) == {i \in DOMAIN txs : txs[i].block = h}

EventsOf(h, kinds) == {e \in DOMAIN events : events[e].tx \in TxsOf(h) /\ events[e].kind \in kinds}

RelevantTxs(h) == {i \in TxsOf(h) : txs[i].relevant}

ZswapInputs(h) == IF Nullifiers THEN EventsOf(h, {"input"}) ELSE {}

\* With a profile: events that name its key, and every spend.
OwnDust(h) == EventsOf(h, {profile.dust, "dustSpend"})

EveryDust(h) == EventsOf(h, DustKeys \cup {"dustSpend"})

DustEvents(h) == IF AllDust THEN EveryDust(h) ELSE OwnDust(h)

OwnUtxos == {u \in DOMAIN utxos : utxos[u].owner \in profile.addresses}

\* Mutant of Creates: only outputs that are still unspent.
UnspentCreates(h) == {u \in OwnUtxos : utxos[u].created \in TxsOf(h) /\ utxos[u].spent = 0}

Creates(h) == {u \in OwnUtxos : utxos[u].created \in TxsOf(h)}

\* Mutant of Spends: without IS NOT NULL.
SpendsOrNull(h) == {u \in OwnUtxos : utxos[u].spent \in TxsOf(h) \cup {0}}

Spends(h) == {u \in OwnUtxos : utxos[u].spent \in TxsOf(h)}

\* wallet_tx_ids.
WalletTxs(h) ==
  RelevantTxs(h)
    \cup {events[e].tx : e \in DustEvents(h)}
    \cup {utxos[u].created : u \in Creates(h)}
    \cup {utxos[u].spent : u \in Spends(h)}

-----------------------------------------------------------------------------
(* The items of a block and their sequence keys.                           *)

ItemOf(tx, phase, ord, what) == [tx |-> tx, phase |-> phase, ord |-> ord, what |-> what]

\* Mutant of MetaItems: numbered after the transaction.
MetaItemsLast(h) == IF TxMeta THEN {ItemOf(i, PHASE_TX, 2, "meta") : i \in WalletTxs(h)} ELSE {}

MetaItems(h) == IF TxMeta THEN {ItemOf(i, PHASE_TX, 0, "meta") : i \in WalletTxs(h)} ELSE {}

TxItems(h) == {ItemOf(i, PHASE_TX, 1, "tx") : i \in RelevantTxs(h)}

LedgerItems(h) ==
  {ItemOf(events[e].tx, PHASE_LEDGER_EVENT, e, "input") : e \in ZswapInputs(h)}
    \cup {ItemOf(events[e].tx, PHASE_LEDGER_EVENT, e, "dust") : e \in DustEvents(h)}

\* Mutant of UnshieldedItems: in the phase of the ledger events, whose ids
\* are from another table.
UnshieldedAsLedger(h) ==
  {ItemOf(utxos[u].created, PHASE_LEDGER_EVENT, u, "create") : u \in Creates(h)}
    \cup {ItemOf(utxos[u].spent, PHASE_LEDGER_EVENT, u, "spend") : u \in Spends(h)}

UnshieldedItems(h) ==
  {ItemOf(utxos[u].created, PHASE_UNSHIELDED, u, "create") : u \in Creates(h)}
    \cup {ItemOf(utxos[u].spent, PHASE_UNSHIELDED, u, "spend") : u \in Spends(h)}

BlockItems(h) == MetaItems(h) \cup TxItems(h) \cup LedgerItems(h) \cup UnshieldedItems(h)

KeyOf(item) == <<txs[item.tx].block, item.tx, item.phase, item.ord>>

\* The derived order of SequenceKey.
Less(j, k) == \E n \in 1 .. 4 : j[n] < k[n] /\ \A m \in 1 .. n - 1 : j[m] = k[m]

\* The order of items: by key; under one key the rows are sorted by is_create,
\* false first.
Before(i, j) ==
  \/ Less(KeyOf(i), KeyOf(j))
  \/ KeyOf(i) = KeyOf(j) /\ i.what = "spend" /\ j.what # "spend"

-----------------------------------------------------------------------------
(* The stream.                                                             *)

\* Mutant of Retained: the item at the cursor is sent again.
RetainedFromCursor(items, h) ==
  IF fromCursor[1] = h THEN {i \in items : ~Less(KeyOf(i), fromCursor)} ELSE items

\* The one-off filter of the block of the cursor.
Retained(items, h) ==
  IF fromCursor[1] = h THEN {i \in items : Less(fromCursor, KeyOf(i))} ELSE items

SendBlock ==
  /\ next \in 1 .. LastBlock
  /\ wire' = wire \cup Retained(BlockItems(next), next)
  /\ fromCursor' = IF fromCursor[1] = next THEN NoCursor ELSE fromCursor
  /\ next' = next + 1
  /\ UNCHANGED <<tableVars, putVars, clientVars, drops>>

-----------------------------------------------------------------------------
(* update_profile.                                                         *)

\* Mutant of AddressesChanged: only additions count, by number.
MoreAddresses == Cardinality(wanted.addresses) > Cardinality(profile.addresses)

\* The sets of addresses before and after differ.
AddressesChanged == wanted.addresses # profile.addresses

\* One transaction; restart_from_height is 0 if the addresses changed.
UpdateProfile ==
  /\ put = "sent"
  /\ profile' = wanted
  /\ put' = IF AddressesChanged THEN "restart" ELSE "done"
  /\ UNCHANGED <<wanted, updates, lost, tableVars, streamVars, clientVars, drops>>

-----------------------------------------------------------------------------
(* The client (external).                                                  *)

Connect ==
  /\ next = 0
  /\ next' = IF cursor = NoCursor THEN 1 ELSE cursor[1]
  /\ fromCursor' = cursor
  /\ UNCHANGED <<wire, tableVars, putVars, clientVars, drops>>

Apply ==
  /\ \E i \in wire :
       /\ \A j \in wire \ {i} : Before(i, j)
       /\ held' = held \cup {i}
       /\ cursor' = KeyOf(i)
       /\ wire' = wire \ {i}
  /\ UNCHANGED <<next, fromCursor, tableVars, putVars, drops>>

CloseStream == next' = 0 /\ fromCursor' = NoCursor /\ wire' = {}

\* The connection is lost, with what is on the wire.
Drop ==
  /\ next # 0
  /\ drops < MaxDrops
  /\ drops' = drops + 1
  /\ CloseStream
  /\ UNCHANGED <<tableVars, putVars, clientVars>>

AskUpdate ==
  /\ put = "idle"
  /\ updates < MaxUpdates
  /\ updates' = updates + 1
  /\ wanted' \in Profiles
  /\ put' = "sent"
  /\ UNCHANGED <<profile, lost, tableVars, streamVars, clientVars, drops>>

\* restartFromHeight: the client starts over.
ReceiveRestart ==
  /\ put = "restart"
  /\ put' = "idle"
  /\ CloseStream
  /\ held' = {} /\ cursor' = NoCursor
  /\ UNCHANGED <<profile, wanted, updates, lost, tableVars, drops>>

ReceiveDone ==
  /\ put = "done"
  /\ put' = "idle"
  /\ UNCHANGED <<profile, wanted, updates, lost, tableVars, streamVars, clientVars, drops>>

\* The reply is lost: the client sends the request again.
LoseReply ==
  /\ put \in {"restart", "done"}
  /\ lost < MaxLost
  /\ lost' = lost + 1
  /\ put' = "sent"
  /\ UNCHANGED <<profile, wanted, updates, tableVars, streamVars, clientVars, drops>>

-----------------------------------------------------------------------------
Client ==
  \/ Connect \/ Apply \/ Drop \/ AskUpdate \/ ReceiveRestart \/ ReceiveDone \/ LoseReply

Next ==
  \/ \E shape \in Shapes, block \in 1 .. MaxTxs : AddTx(shape, block)
  \/ SendBlock
  \/ UpdateProfile
  \/ Client

Spec == Init /\ [][Next]_vars

-----------------------------------------------------------------------------
(* Properties.                                                             *)

\* The client has received the reply to each of its profile updates.
Settled == put = "idle" /\ lost = 0

\* The cursor is enough to resume with: once the client has handled the
\* replies to its profile updates, it holds every item up to its cursor that
\* its profile entitles it to.
NothingSkipped ==
  Settled =>
    \A h \in 1 .. LastBlock : \A i \in BlockItems(h) :
      i \in held \/ Less(cursor, KeyOf(i))

\* An item is applied once: none that is on its way has been applied.
AppliedOnce == wire \cap held = {}

\* What an item refers to comes before it: the metadata of its transaction
\* ("Emitted once per wallet-relevant transaction"), and the creation of an
\* output of the wallet before its spending.
RefersBack ==
  Settled =>
    \A i \in held :
      /\ TxMeta /\ i.what \in {"tx", "dust", "create", "spend"} =>
           \E j \in held : j.what = "meta" /\ j.tx = i.tx
      /\ i.what = "spend" /\ i.ord \in OwnUtxos =>
           \E j \in held : j.what = "create" /\ j.ord = i.ord
=============================================================================
