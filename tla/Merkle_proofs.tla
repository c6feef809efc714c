------------------------- MODULE Merkle_proofs ------------------------------
(***************************************************************************)
(* The merkle updates for every value of the bounds.                       *)
(*                                                                         *)
(* The cache: the types, the shape of a reply, and which indices below the *)
(* resume index may be missing; none as long as no statement fails and     *)
(* nobody but the background task writes.                                  *)
(*                                                                         *)
(* The stream: what a reply of the cache is to it; then InlineInv, the     *)
(* types and the order of transactions, stream and wire; GapInv, all that  *)
(* the client has got or will get lies below the position of the stream;   *)
(* SelfInv, the tree of a client is complete up to each item of the wire   *)
(* and up to both cursors, which is what the one-off filter relies on.     *)
(***************************************************************************)
EXTENDS MerkleCache, InlineMerkle, SequenceTheorems, WellFoundedInduction, TLAPS

\* GREATEST returns one of its arguments, and is above both.
LEMMA MaxOfTwo ==
  ASSUME NEW a \in Int, NEW b \in Int
  PROVE  Max({a, b}) \in {a, b} /\ Max({a, b}) >= a /\ Max({a, b}) >= b
<1>1. \E x \in {a, b} : \A y \in {a, b} : x >= y
  <2>1. CASE a >= b
    BY <2>1
  <2>2. CASE b >= a
    BY <2>2
  <2>3. QED
    BY <2>1, <2>2
<1>2. QED
  BY <1>1 DEF Max

LEMMA BoundsAreNat ==
  /\ MaxIndex \in Nat /\ MaxBreaks \in Nat /\ MaxFaults \in Nat /\ MaxLosses \in Nat
  /\ \A r \in Requests : r \in Nat \X Nat
BY CacheAssumption

\* A non-empty set of natural numbers has a least element.
LEMMA LeastOf ==
  ASSUME NEW S \in SUBSET Nat, S # {}
  PROVE  \E x \in S : \A y \in S : x <= y
<1> DEFINE less == {p \in Nat \X Nat : p[1] < p[2]}
<1>1. \A a, b \in Nat : a < b => <<a, b>> \in less
  OBVIOUS
<1>2. OpToRel(<, Nat) = less
  BY Zenon DEF OpToRel
<1>3. \E x \in S : \A y \in S : <<y, x>> \notin less
  <2>1. \E x \in S : \A y \in S : ~ (<<y, x>> \in OpToRel(<, Nat))
    BY NatLessThanWellFounded, WFMin
  <2>2. QED
    BY <1>2, <2>1, Zenon
<1> HIDE DEF less
<1>4. PICK x \in S : \A y \in S : ~ (y < x)
  BY <1>1, <1>3, Zenon
<1>5. QED
  BY <1>4

\* A sequence of one element.
LEMMA OneElement ==
  ASSUME NEW S, NEW x \in S
  PROVE  <<x>> \in Seq(S) /\ <<x>> # <<>> /\ DOMAIN <<x>> = {1} /\ <<x>>[1] = x
<1>1. <<x>> \in [1 .. 1 -> S]
  OBVIOUS
<1>2. <<x>> \in Seq(S)
  BY <1>1, SeqDef
<1>3. QED
  BY <1>2

-----------------------------------------------------------------------------
\* The chain of a request tiles the range from its start to its end.
ChainTiles ==
  /\ request[1] <= ChainEnd
  /\ UNION {chain[i][1] .. chain[i][2] : i \in DOMAIN chain} = request[1] .. ChainEnd - 1
  /\ \A i \in DOMAIN chain : chain[i][2] < ChainEnd
  /\ \A i, j \in DOMAIN chain : i < j => chain[i][2] < chain[j][1]

\* Each update of a chain starts where the one before it ends, and none is empty.
ChainLinks ==
  /\ Len(chain) <= ChainEnd - request[1]
  /\ chain # <<>> => chain[1][1] = request[1]
  /\ \A i, j \in DOMAIN chain : j = i + 1 => chain[j][1] = chain[i][2] + 1

\* A range that is served lies below tip.
RequestOK ==
  step # "idle" =>
    request \in Nat \X Nat /\ request[1] < request[2] /\ request[2] <= MaxIndex

FetchedRange == chain = <<<<request[1], request[2] - 1>>>>

CacheInv ==
  /\ TypeOK
  /\ RequestOK
  /\ task = "raise" => taken \in Index
  /\ step = "lookup" => ChainTiles /\ ChainLinks
  /\ step \in {"store", "raise"} => FetchedRange
  /\ step = "fetch" => chain = <<>>
  /\ step = "reply" =>
       chain = <<>> \/ FetchedRange \/ (ChainTiles /\ ChainLinks /\ ChainEnd = request[2])

-----------------------------------------------------------------------------
LEMMA InitInv == Init => CacheInv
<1> SUFFICES ASSUME Init PROVE CacheInv
  OBVIOUS
<1>1. chain \in Seq(Row) /\ matching \subseteq Match
  BY EmptySeq DEF Init
<1>2. TypeOK
  <2>1. /\ tip \in 0 .. MaxIndex /\ next \in 0 .. MaxIndex
        /\ breaks \in 0 .. MaxBreaks /\ faults \in 0 .. MaxFaults /\ losses \in 0 .. MaxLosses
    BY BoundsAreNat DEF Init
  <2>2. valid \in BOOLEAN /\ stored \in BOOLEAN
    BY Zenon DEF Init
  <2>3. QED
    BY <1>1, <2>1, <2>2 DEF Init, TypeOK
<1>3. QED
  BY <1>2 DEF Init, CacheInv, RequestOK

\* Steps that leave the request alone.
LEMMA OtherInv ==
  ASSUME CacheInv, UNCHANGED requestVars, TypeOK', task' = "raise" => taken' \in Index
  PROVE  CacheInv'
BY DEF CacheInv, requestVars, RequestOK, ChainTiles, ChainLinks, ChainEnd, FetchedRange

LEMMA UpstreamInv == CacheInv /\ Upstream => CacheInv'
<1> SUFFICES ASSUME CacheInv, Upstream PROVE CacheInv'
  OBVIOUS
<1>1. /\ tip' \in 0 .. MaxIndex /\ losses' \in 0 .. MaxLosses /\ valid' \in BOOLEAN
      /\ matching' \subseteq Match
  <2>1. CASE Extend
    <3>1. tip' \in 0 .. MaxIndex /\ matching' \subseteq Match
      <4>1. PICK n \in 1 .. 2 :
              /\ tip + n <= MaxIndex /\ tip' = tip + n
              /\ matching' \subseteq matching \cup {<<tip, tip + n>>}
        BY <2>1 DEF Extend
      <4>2. /\ tip \in Index /\ tip + n \in 1 .. MaxIndex /\ tip' \in 0 .. MaxIndex
            /\ tip < tip + n
        BY <4>1, BoundsAreNat DEF CacheInv, TypeOK, Index
      <4>3. <<tip, tip + n>> \in Match
        BY <4>2 DEF Match
      <4>4. QED
        BY <4>1, <4>2, <4>3 DEF CacheInv, TypeOK
    <3>2. losses' = losses /\ valid' = valid
      BY <2>1 DEF Extend
    <3>3. losses \in 0 .. MaxLosses /\ valid \in BOOLEAN
      BY DEF CacheInv, TypeOK
    <3>4. valid' \in BOOLEAN
      BY <3>2, <3>3, Zenon
    <3>5. QED
      BY <3>1, <3>2, <3>3, <3>4
  <2>2. CASE Expire
    <3>1. losses \in 0 .. MaxLosses /\ losses < MaxLosses /\ losses' = losses + 1
      BY <2>2 DEF CacheInv, TypeOK, Expire
    <3>2. losses' \in 0 .. MaxLosses
      BY <3>1, BoundsAreNat
    <3>3. tip' = tip /\ matching' = matching /\ valid' = FALSE
      BY <2>2 DEF Expire
    <3>4. tip \in 0 .. MaxIndex /\ matching \subseteq Match /\ valid' \in BOOLEAN
      BY <3>3 DEF CacheInv, TypeOK
    <3>5. QED
      BY <3>2, <3>3, <3>4
  <2>3. QED
    BY <2>1, <2>2 DEF Upstream
<1>2. UNCHANGED <<rows, highest, stored, taskVars, requestVars, breaks, faults, passed>>
  BY DEF Upstream, Extend, Expire
<1>3. QED
  BY <1>1, <1>2, OtherInv DEF CacheInv, TypeOK, taskVars, requestVars

\* The new value of highest_end_index is an index.
LEMMA RaisedIndex ==
  ASSUME CacheInv, NEW last \in Index
  PROVE  /\ Raised(last) \in Index \cup {0}
         /\ Raised(last) \in {highest, last}
<1>1. highest \in Int /\ last \in Int
  BY BoundsAreNat DEF CacheInv, TypeOK, Index
<1>2. Max({highest, last}) \in {highest, last}
  BY <1>1, MaxOfTwo
<1>3. QED
  BY <1>2 DEF Raised, CacheInv, TypeOK

\* A message lies ahead of the subscription, which goes on after it; the update
\* that comes with it is a row.
LEMMA MessageAhead ==
  ASSUME CacheInv, NEW m \in matching, Message(m)
  PROVE  /\ next \in Nat /\ m[1] \in Nat /\ m[2] \in Nat /\ m[2] \in 0 .. MaxIndex
         /\ next <= m[1] /\ m[1] < m[2]
         /\ next < m[1] => m[1] - 1 \in Index /\ <<next, m[1] - 1>> \in Row
<1>1. /\ m \in Match /\ next \in 0 .. MaxIndex /\ next <= m[1] /\ MaxIndex \in Nat
  BY BoundsAreNat DEF CacheInv, TypeOK, Message
<1>2. m[1] \in Nat /\ m[1] <= MaxIndex - 1 /\ m[2] \in 0 .. MaxIndex /\ m[2] \in Nat /\ m[1] < m[2]
  BY <1>1 DEF Match, Index
<1>3. ASSUME next < m[1]
      PROVE  m[1] - 1 \in Index /\ <<next, m[1] - 1>> \in Row
  <2>1. next \in Index /\ m[1] - 1 \in Index /\ next <= m[1] - 1
    BY <1>1, <1>2, <1>3 DEF Index
  <2>2. QED
    BY <2>1 DEF Row
<1>4. QED
  BY <1>1, <1>2, <1>3

LEMMA TaskInv == CacheInv /\ Task => CacheInv'
<1> SUFFICES ASSUME CacheInv, Task PROVE CacheInv'
  OBVIOUS
<1>0. UNCHANGED requestVars /\ MaxIndex \in Nat
  BY BoundsAreNat
     DEF Task, EnsureSession, Subscribe, Insert, ReadWithoutTree, Raise, CacheUpdateFails,
         EndSubscription, Resubscribe
<1>1. CASE EnsureSession
  <2>1. TypeOK'
    BY <1>1 DEF EnsureSession, CacheInv, TypeOK, requestVars
  <2>2. QED
    BY <1>0, <1>1, <2>1, OtherInv DEF EnsureSession
<1>2. CASE Subscribe
  <2>1. next' \in 0 .. MaxIndex
    BY <1>0, <1>2 DEF Subscribe, ResumeIndex, CacheInv, TypeOK, Index
  <2>2. TypeOK'
    BY <1>2, <2>1 DEF Subscribe, CacheInv, TypeOK, requestVars, upstreamVars
  <2>3. QED
    BY <1>0, <1>2, <2>2, OtherInv DEF Subscribe
<1>3. CASE Insert
  <2>1. PICK m \in matching :
          /\ Message(m) /\ next < m[1] /\ rows' = rows \cup {<<next, m[1] - 1>>}
          /\ taken' = m[1] - 1 /\ next' = m[2]
    BY <1>3 DEF Insert
  <2>2. <<next, m[1] - 1>> \in Row /\ taken' \in Index /\ next' \in 0 .. MaxIndex
    BY <2>1, MessageAhead
  <2>3. TypeOK'
    BY <1>3, <2>1, <2>2 DEF Insert, CacheInv, TypeOK, requestVars, upstreamVars
  <2>4. QED
    BY <1>0, <2>2, <2>3, OtherInv
<1>9. CASE ReadWithoutTree
  <2>1. next' \in 0 .. MaxIndex
    BY <1>9, MessageAhead DEF ReadWithoutTree
  <2>2. TypeOK'
    BY <1>9, <2>1 DEF ReadWithoutTree, CacheInv, TypeOK, requestVars, upstreamVars
  <2>3. QED
    BY <1>0, <1>9, <2>2, OtherInv DEF ReadWithoutTree
<1>4. CASE Raise
  <2>1. taken \in Index
    BY <1>4 DEF Raise, CacheInv
  <2>2. highest' \in Index \cup {0}
    BY <1>4, <2>1, RaisedIndex DEF Raise
  <2>3. TypeOK'
    BY <1>4, <2>2 DEF Raise, CacheInv, TypeOK, requestVars, upstreamVars
  <2>4. QED
    BY <1>0, <1>4, <2>3, OtherInv DEF Raise
<1>5. CASE CacheUpdateFails
  <2>1. next' \in 0 .. MaxIndex /\ passed' \subseteq Index
    <3>1. CASE task = "read" /\ ~UNCHANGED <<next, passed>>
      <4>1. PICK m \in matching :
              Message(m) /\ next' = m[2] /\ passed' = passed \cup (next .. m[1] - 1)
                /\ next < m[1]
        BY <1>5, <3>1 DEF CacheUpdateFails
      <4>2. m[1] - 1 \in 0 .. MaxIndex - 1 /\ next \in Nat /\ next' \in 0 .. MaxIndex
        BY <4>1, MessageAhead DEF Index
      <4>3. next .. m[1] - 1 \subseteq Index
        BY <1>0, <4>2 DEF Index
      <4>4. QED
        BY <4>1, <4>2, <4>3 DEF CacheInv, TypeOK
    <3>2. CASE UNCHANGED <<next, passed>>
      BY <3>2 DEF CacheInv, TypeOK
    <3>3. QED
      BY <1>5, <3>1, <3>2 DEF CacheUpdateFails
  <2>2. faults' \in 0 .. MaxFaults
    BY <1>5, BoundsAreNat DEF CacheUpdateFails, CacheInv, TypeOK
  <2>3. TypeOK'
    BY <1>5, <2>1, <2>2 DEF CacheUpdateFails, CacheInv, TypeOK, requestVars, upstreamVars
  <2>4. QED
    BY <1>0, <1>5, <2>3, OtherInv DEF CacheUpdateFails
<1>6. CASE EndSubscription
  <2>1. breaks' \in 0 .. MaxBreaks
    BY <1>6, BoundsAreNat DEF EndSubscription, CacheInv, TypeOK
  <2>2. TypeOK'
    BY <1>6, <2>1 DEF EndSubscription, CacheInv, TypeOK, requestVars, upstreamVars
  <2>3. QED
    BY <1>0, <1>6, <2>2, OtherInv DEF EndSubscription
<1>7. CASE Resubscribe
  <2>1. TypeOK'
    BY <1>7 DEF Resubscribe, CacheInv, TypeOK, requestVars, upstreamVars
  <2>2. QED
    BY <1>0, <1>7, <2>1, OtherInv DEF Resubscribe
<1>8. QED
  BY <1>1, <1>2, <1>3, <1>4, <1>5, <1>6, <1>7, <1>9 DEF Task

LEMMA RestartInv == CacheInv /\ Restart => CacheInv'
<1> SUFFICES ASSUME CacheInv, Restart PROVE CacheInv'
  OBVIOUS
<1>1. breaks' \in 0 .. MaxBreaks
  BY BoundsAreNat DEF Restart, CacheInv, TypeOK
<1>2. chain' \in Seq(Row)
  BY EmptySeq DEF Restart
<1>3. QED
  BY <1>1, <1>2, BoundsAreNat
     DEF Restart, CacheInv, TypeOK, RequestOK, upstreamVars

\* What the steps of a request leave alone.
LEMMA RequestFrame ==
  ASSUME CacheInv, rows' \subseteq Row, highest' \in Index \cup {0},
         UNCHANGED <<upstreamVars, stored, taskVars, breaks>>,
         faults' \in 0 .. MaxFaults, passed' \subseteq Index,
         request' \in Requests \cup {NoRange}, chain' \in Seq(Row),
         step' \in {"idle", "lookup", "fetch", "store", "raise", "reply"}
  PROVE  TypeOK' /\ (task' = "raise" => taken' \in Index)
BY DEF CacheInv, TypeOK, upstreamVars, taskVars

LEMMA AskInv == ASSUME NEW r \in Requests PROVE CacheInv /\ Ask(r) => CacheInv'
<1> SUFFICES ASSUME CacheInv, Ask(r) PROVE CacheInv'
  OBVIOUS
<1>1. chain' = <<>> /\ chain' \in Seq(Row)
  BY EmptySeq DEF Ask
<1>2. request' = r /\ r \in Nat \X Nat /\ r[1] < r[2] /\ r[2] <= MaxIndex
  BY BoundsAreNat DEF Ask, CacheInv, TypeOK
<1>3. TypeOK' /\ (task' = "raise" => taken' \in Index)
  BY <1>1, <1>2, RequestFrame DEF Ask, CacheInv, TypeOK
<1>4. ChainTiles' /\ ChainLinks'
  <2>1. Len(chain') = 0
    BY <1>1, EmptySeq
  <2>2. QED
    BY <1>1, <1>2, <2>1 DEF ChainTiles, ChainLinks, ChainEnd
<1>5. QED
  BY <1>2, <1>3, <1>4 DEF Ask, CacheInv, RequestOK

\* The longest update that fits extends the tiling.
LEMMA LookupInv == CacheInv /\ Lookup => CacheInv'
<1> SUFFICES ASSUME CacheInv, Lookup PROVE CacheInv'
  OBVIOUS
<1>1. PICK r \in Candidates : chain' = Append(chain, r)
  BY DEF Lookup
<1>2. /\ r \in Row /\ r[1] = ChainEnd /\ ChainTiles
      /\ request' = request /\ step' = "lookup" /\ step = "lookup" /\ chain \in Seq(Row)
      /\ request \in Nat \X Nat
  BY <1>1 DEF Candidates, Lookup, CacheInv, TypeOK, RequestOK
<1>3. r[1] \in Nat /\ r[2] \in Nat /\ r[1] <= r[2]
  BY <1>2, BoundsAreNat DEF Row, Index
<1>4. /\ chain' \in Seq(Row) /\ chain' # <<>> /\ Len(chain') = Len(chain) + 1
      /\ Last(chain') = r /\ DOMAIN chain' = DOMAIN chain \cup {Len(chain')}
      /\ Len(chain') \notin DOMAIN chain
      /\ \A i \in DOMAIN chain : chain'[i] = chain[i] /\ i < Len(chain')
      /\ chain'[Len(chain')] = r
  <2>1. /\ chain' \in Seq(Row) /\ Len(chain') = Len(chain) + 1
        /\ chain'[Len(chain')] = r
        /\ \A i \in 1 .. Len(chain) : chain'[i] = chain[i]
    BY <1>1, <1>2, AppendProperties
  <2>2. DOMAIN chain = 1 .. Len(chain) /\ DOMAIN chain' = 1 .. Len(chain') /\ Len(chain) \in Nat
    BY <1>2, <2>1, LenProperties
  <2>3. QED
    BY <2>1, <2>2, EmptySeq DEF Last
<1>5. ChainEnd' = r[2] + 1
  BY <1>4 DEF ChainEnd
<1>6. ChainTiles'
  <2>1. UNION {chain'[i][1] .. chain'[i][2] : i \in DOMAIN chain'}
          = (UNION {chain[i][1] .. chain[i][2] : i \in DOMAIN chain}) \cup (r[1] .. r[2])
    BY <1>4
  <2>2. UNION {chain'[i][1] .. chain'[i][2] : i \in DOMAIN chain'} = request[1] .. r[2]
    <3>1. UNION {chain[i][1] .. chain[i][2] : i \in DOMAIN chain} = request[1] .. r[1] - 1
      BY <1>2 DEF ChainTiles
    <3>2. request[1] \in Nat /\ request[1] <= r[1]
      BY <1>2 DEF ChainTiles
    <3>3. (request[1] .. r[1] - 1) \cup (r[1] .. r[2]) = request[1] .. r[2]
      BY <1>3, <3>2
    <3>4. QED
      BY <2>1, <3>1, <3>3
  <2>3. \A i \in DOMAIN chain : chain[i] \in Row /\ chain[i][2] \in Nat
    BY <1>2, BoundsAreNat DEF Row, Index
  <2>4. \A i \in DOMAIN chain' : chain'[i][2] < ChainEnd'
    <3>1. \A i \in DOMAIN chain : chain'[i][2] < r[2] + 1
      BY <1>2, <1>3, <1>4, <2>3 DEF ChainTiles
    <3>2. QED
      BY <1>3, <1>4, <1>5, <3>1
  <2>5. \A i, j \in DOMAIN chain' : i < j => chain'[i][2] < chain'[j][1]
    <3>1. ASSUME NEW i \in DOMAIN chain', NEW j \in DOMAIN chain', i < j
          PROVE  chain'[i][2] < chain'[j][1]
      <4>1. i \in DOMAIN chain
        BY <1>2, <1>4, <3>1
      <4>2. CASE j \in DOMAIN chain
        BY <1>2, <1>4, <3>1, <4>1, <4>2 DEF ChainTiles
      <4>3. CASE j = Len(chain')
        BY <1>2, <1>4, <4>1, <4>3 DEF ChainTiles
      <4>4. QED
        BY <1>4, <4>2, <4>3
    <3>2. QED
      BY <3>1
  <2>6. QED
    BY <1>2, <1>3, <1>5, <2>2, <2>4, <2>5 DEF ChainTiles
<1>7. ChainLinks'
  <2>1. ChainLinks /\ Len(chain) \in Nat /\ DOMAIN chain = 1 .. Len(chain)
    BY <1>2, LenProperties DEF Lookup, CacheInv
  <2>2. Len(chain') <= ChainEnd' - request[1]
    BY <1>2, <1>3, <1>4, <1>5, <2>1 DEF ChainLinks
  <2>3. chain'[1][1] = request[1]
    <3>1. CASE chain = <<>>
      <4>1. Len(chain) = 0 /\ ChainEnd = request[1]
        BY <3>1, EmptySeq DEF ChainEnd
      <4>2. QED
        BY <1>2, <1>4, <4>1
    <3>2. CASE chain # <<>>
      <4>1. 1 \in DOMAIN chain
        BY <1>2, <2>1, <3>2, EmptySeq
      <4>2. QED
        BY <1>4, <2>1, <3>2, <4>1 DEF ChainLinks
    <3>3. QED
      BY <3>1, <3>2
  <2>4. ASSUME NEW i \in DOMAIN chain', NEW j \in DOMAIN chain', j = i + 1
        PROVE  chain'[j][1] = chain'[i][2] + 1
    <3>1. CASE j \in DOMAIN chain
      <4>1. i \in DOMAIN chain
        BY <1>4, <2>1, <2>4, <3>1
      <4>2. QED
        BY <1>4, <2>1, <2>4, <3>1, <4>1 DEF ChainLinks
    <3>2. CASE j = Len(chain')
      <4>1. i = Len(chain) /\ i \in DOMAIN chain
        BY <1>4, <2>1, <2>4, <3>2
      <4>2. chain # <<>> /\ Last(chain) = chain[i]
        BY <2>1, <4>1, EmptySeq DEF Last
      <4>3. QED
        BY <1>2, <1>4, <3>2, <4>1, <4>2 DEF ChainEnd
    <3>3. QED
      BY <1>4, <3>1, <3>2
  <2>5. QED
    BY <1>2, <2>2, <2>3, <2>4 DEF ChainLinks
<1>8. TypeOK' /\ (task' = "raise" => taken' \in Index)
  BY <1>4, RequestFrame DEF Lookup, CacheInv, TypeOK
<1>9. QED
  BY <1>2, <1>6, <1>7, <1>8 DEF CacheInv, RequestOK

LEMMA EndLookupInv == CacheInv /\ EndLookup => CacheInv'
<1> SUFFICES ASSUME CacheInv, EndLookup PROVE CacheInv'
  OBVIOUS
<1>1. chain' \in Seq(Row)
  BY EmptySeq DEF EndLookup, CacheInv, TypeOK
<1>2. TypeOK' /\ (task' = "raise" => taken' \in Index)
  BY <1>1, RequestFrame DEF EndLookup, CacheInv, TypeOK
<1>3. request' = request /\ step = "lookup" /\ ChainTiles /\ ChainLinks /\ RequestOK
  BY DEF EndLookup, CacheInv
<1>4. CASE CoversRange
  <2>1. chain' = chain /\ step' = "reply"
    BY <1>4 DEF EndLookup
  <2>2. ChainEnd = request[2]
    BY <1>3, <1>4 DEF CoversRange, ChainEnd, RequestOK
  <2>3. QED
    BY <1>2, <1>3, <2>1, <2>2 DEF CacheInv, RequestOK, ChainTiles, ChainLinks, ChainEnd
<1>5. CASE ~CoversRange
  <2>1. chain' = <<>> /\ step' = "fetch"
    BY <1>5 DEF EndLookup
  <2>2. QED
    BY <1>2, <1>3, <2>1 DEF CacheInv, RequestOK
<1>6. QED
  BY <1>4, <1>5

LEMMA LookupFailsInv == CacheInv /\ LookupFails => CacheInv'
<1> SUFFICES ASSUME CacheInv, LookupFails PROVE CacheInv'
  OBVIOUS
<1>1. chain' \in Seq(Row) /\ faults' \in 0 .. MaxFaults
  BY EmptySeq, BoundsAreNat DEF LookupFails, CacheInv, TypeOK
<1>2. TypeOK' /\ (task' = "raise" => taken' \in Index)
  BY <1>1, RequestFrame DEF LookupFails, CacheInv, TypeOK
<1>3. QED
  BY <1>2 DEF LookupFails, CacheInv, RequestOK

LEMMA FetchInv == CacheInv /\ Fetch => CacheInv'
<1> SUFFICES ASSUME CacheInv, Fetch PROVE CacheInv'
  OBVIOUS
<1>1. <<request[1], request[2] - 1>> \in Row
  BY BoundsAreNat DEF Fetch, CacheInv, RequestOK, Row, Index
<1>2. chain' \in Seq(Row)
  BY <1>1, EmptySeq, OneElement DEF Fetch
<1>3. TypeOK' /\ (task' = "raise" => taken' \in Index)
  BY <1>2, RequestFrame DEF Fetch, CacheInv, TypeOK
<1>4. QED
  BY <1>3 DEF Fetch, CacheInv, RequestOK, FetchedRange

LEMMA StoreInv ==
  CacheInv /\ (StoreInsert \/ StoreRaise \/ StoreFails) => CacheInv'
<1> SUFFICES ASSUME CacheInv, StoreInsert \/ StoreRaise \/ StoreFails PROVE CacheInv'
  OBVIOUS
<1>1. /\ FetchedRange /\ UNCHANGED <<chain, request>> /\ step # "idle"
      /\ step' \in {"raise", "reply"}
  BY DEF StoreInsert, StoreRaise, StoreFails, CacheInv
<1>2. chain[1] \in Row /\ chain[1][2] \in Index
  BY <1>1, BoundsAreNat DEF CacheInv, RequestOK, FetchedRange, Row, Index
<1>3. rows' \subseteq Row /\ highest' \in Index \cup {0} /\ faults' \in 0 .. MaxFaults
  <2>1. CASE StoreInsert
    BY <1>2, <2>1 DEF StoreInsert, CacheInv, TypeOK
  <2>2. CASE StoreRaise
    BY <1>2, <2>2, RaisedIndex DEF StoreRaise, CacheInv, TypeOK
  <2>3. CASE StoreFails
    BY <2>3, BoundsAreNat DEF StoreFails, CacheInv, TypeOK
  <2>4. QED
    BY <2>1, <2>2, <2>3
<1>7. passed' \subseteq Index
  <2>1. CASE StoreRaise
    <3>1. passed' = passed \cup (highest .. chain[1][1] - 1)
      BY <2>1 DEF StoreRaise
    <3>2. passed \subseteq Index /\ highest \in Nat /\ chain[1][1] \in Index
      BY <1>2, BoundsAreNat DEF CacheInv, TypeOK, Row, Index
    <3>3. highest .. chain[1][1] - 1 \subseteq Index
      BY <3>2, BoundsAreNat DEF Index
    <3>4. QED
      BY <3>1, <3>2, <3>3
  <2>2. CASE StoreInsert \/ StoreFails
    BY <2>2 DEF StoreInsert, StoreFails, CacheInv, TypeOK
  <2>3. QED
    BY <2>1, <2>2
<1>4. UNCHANGED <<upstreamVars, stored, taskVars, breaks>>
  BY DEF StoreInsert, StoreRaise, StoreFails
<1>5. TypeOK' /\ (task' = "raise" => taken' \in Index)
  BY <1>1, <1>3, <1>4, <1>7, RequestFrame DEF CacheInv, TypeOK
<1>6. QED
  BY <1>1, <1>5 DEF CacheInv, RequestOK, FetchedRange

LEMMA RespondInv == CacheInv /\ Respond => CacheInv'
<1> SUFFICES ASSUME CacheInv, Respond PROVE CacheInv'
  OBVIOUS
<1>1. chain' \in Seq(Row)
  BY EmptySeq DEF Respond
<1>2. TypeOK' /\ (task' = "raise" => taken' \in Index)
  BY <1>1, RequestFrame DEF Respond, CacheInv, TypeOK
<1>3. QED
  BY <1>2 DEF Respond, CacheInv, RequestOK

LEMMA StutterInv == CacheInv /\ UNCHANGED vars => CacheInv'
<1> SUFFICES ASSUME CacheInv, UNCHANGED vars PROVE CacheInv'
  OBVIOUS
<1>1. UNCHANGED requestVars /\ TypeOK' /\ (task' = "raise" => taken' \in Index)
  BY DEF vars, requestVars, upstreamVars, taskVars, CacheInv, TypeOK
<1>2. QED
  BY <1>1, OtherInv

\* The inductive invariant holds whatever fails and whoever asks.
THEOREM CacheInvariant == Spec => []CacheInv
<1>1. CacheInv /\ [Next]_vars => CacheInv'
  BY UpstreamInv, TaskInv, RestartInv, AskInv, LookupInv, EndLookupInv, LookupFailsInv, FetchInv, StoreInv,
     RespondInv, StutterInv DEF Next, Request
<1>2. QED
  BY <1>1, InitInv, PTL DEF Spec

\* Every variable keeps its type: the resume index is always an index that
\* exists upstream.
THEOREM CacheTypeCorrect == Spec => []TypeOK
<1>1. CacheInv => TypeOK
  BY DEF CacheInv
<1>2. QED
  BY <1>1, CacheInvariant, PTL

\* A reply that brings updates tiles the range that was asked for, although
\* each of its updates was looked up in another state of the table.
THEOREM ReplyIsTiling == Spec => []ReplyTiles
<1>1. CacheInv => ReplyTiles
  <2> SUFFICES ASSUME CacheInv, step = "reply", chain # <<>>
               PROVE  ReplyTiles
    BY DEF ReplyTiles
  <2>1. request \in Nat \X Nat /\ request[1] < request[2]
    BY DEF CacheInv, RequestOK
  <2>2. CASE FetchedRange
    <3>1. DOMAIN chain = {1} /\ chain[1][1] = request[1] /\ chain[1][2] = request[2] - 1
      BY <2>2 DEF FetchedRange
    <3>2. UNION {chain[i][1] .. chain[i][2] : i \in DOMAIN chain} = chain[1][1] .. chain[1][2]
      BY <3>1
    <3>3. QED
      BY <3>1, <3>2 DEF ReplyTiles
  <2>3. CASE ChainTiles /\ ChainEnd = request[2]
    BY <2>1, <2>3 DEF ChainTiles, ReplyTiles
  <2>4. QED
    BY <2>2, <2>3 DEF CacheInv
<1>2. QED
  BY <1>1, CacheInvariant, PTL

-----------------------------------------------------------------------------
(* What may be missing below the resume index.  What the task has read of  *)
(* its subscription is cached, passed or part of a transaction that it got *)
(* up to next; a request raises the resume index for a range that it has   *)
(* inserted.                                                               *)

Accounted == Cached \cup passed \cup Own

HoleInv ==
  /\ CacheInv
  /\ OnlyPassedHoles
  /\ task \in {"read", "raise"} => 0 .. next - 1 \subseteq Accounted
  /\ task = "raise" => taken < next
  /\ step = "raise" => chain[1] \in rows

\* New rows only add to what is cached, and no row is ever removed.
LEMMA AccountedGrows ==
  ASSUME rows \subseteq rows', passed \subseteq passed', matching \subseteq matching'
  PROVE  Cached \subseteq Cached' /\ Accounted \subseteq Accounted'
BY DEF Cached, Accounted, Own

LEMMA HoleTask == HoleInv /\ Task => HoleInv'
<1> SUFFICES ASSUME HoleInv, Task PROVE HoleInv'
  OBVIOUS
<1>1. CacheInv'
  BY TaskInv DEF HoleInv
<1>2. CacheInv' /\ UNCHANGED <<requestVars, matching>>
  BY <1>1
     DEF Task, EnsureSession, Subscribe, Insert, ReadWithoutTree, Raise, CacheUpdateFails,
         EndSubscription, Resubscribe, upstreamVars
<1>3. Accounted \subseteq Accounted'
  <2>1. rows \subseteq rows' /\ passed \subseteq passed'
    BY DEF Task, EnsureSession, Subscribe, Insert, ReadWithoutTree, Raise, CacheUpdateFails,
       EndSubscription, Resubscribe
  <2>2. QED
    BY <1>2, <2>1, AccountedGrows
<1>4. step' = "raise" => chain'[1] \in rows'
  <2>1. rows \subseteq rows'
    BY DEF Task, EnsureSession, Subscribe, Insert, ReadWithoutTree, Raise, CacheUpdateFails,
       EndSubscription, Resubscribe
  <2>2. QED
    BY <1>2, <2>1 DEF HoleInv, requestVars
<1>5. /\ next \in Nat /\ next' \in Nat /\ highest \in Nat /\ taken \in Nat /\ taken' \in Nat
  BY <1>2, BoundsAreNat DEF HoleInv, CacheInv, TypeOK, Index
<1>6. CASE EnsureSession \/ EndSubscription \/ Resubscribe
  <2>1. task' \notin {"read", "raise"} /\ highest' = highest
    BY <1>6 DEF EnsureSession, EndSubscription, Resubscribe
  <2>2. QED
    BY <1>2, <1>3, <1>4, <2>1 DEF HoleInv, OnlyPassedHoles, Accounted
<1>7. CASE Subscribe
  <2>1. next' = highest /\ highest' = highest /\ task' # "raise"
    BY <1>7 DEF Subscribe, ResumeIndex
  <2>2. QED
    BY <1>2, <1>3, <1>4, <2>1 DEF HoleInv, OnlyPassedHoles, Accounted
\* The subscription goes past a matching transaction and the gap before it.
<1>8. ASSUME NEW m \in matching, Message(m), next' = m[2], task = "read",
             next .. m[1] - 1 \subseteq Accounted', highest' = highest,
             task' = "raise" => taken' = m[1] - 1
      PROVE  HoleInv'
  <2>0. CacheInv /\ m \in matching /\ Message(m) /\ MaxIndex \in Nat
    BY <1>8, BoundsAreNat DEF HoleInv
  <2>1. next <= m[1] /\ m[1] < m[2] /\ m[1] \in Nat /\ m[2] \in Nat
    BY <2>0, MessageAhead, Zenon
  <2>2. m[1] .. m[2] - 1 \subseteq Accounted'
    <3>1. m \in matching'
      BY <1>2
    <3>2. m[1] .. m[2] - 1 \subseteq Own'
      BY <3>1 DEF Own
    <3>3. QED
      BY <3>2 DEF Accounted
  <2>3. 0 .. next - 1 \subseteq Accounted'
    BY <1>3, <1>8 DEF HoleInv
  <2>4. \A i \in 0 .. next' - 1 :
          i \in 0 .. next - 1 \/ i \in next .. m[1] - 1 \/ i \in m[1] .. m[2] - 1
    BY <1>5, <1>8, <2>1
  <2>5. 0 .. next' - 1 \subseteq Accounted'
    BY <1>8, <2>2, <2>3, <2>4
  <2>6. OnlyPassedHoles'
    BY <1>3, <1>8 DEF HoleInv, OnlyPassedHoles, Accounted
  <2>7. task' = "raise" => taken' < next'
    BY <1>8, <2>1
  <2>8. QED
    BY <1>2, <1>4, <2>5, <2>6, <2>7 DEF HoleInv
<1>9. CASE Insert
  <2>1. PICK m \in matching :
          /\ Message(m) /\ next < m[1] /\ rows' = rows \cup {<<next, m[1] - 1>>}
          /\ taken' = m[1] - 1 /\ next' = m[2]
    BY <1>9 DEF Insert
  <2>2. PICK q \in rows' : q[1] = next /\ q[2] = m[1] - 1
    <3> DEFINE p == <<next, m[1] - 1>>
    <3>1. p \in rows' /\ p[1] = next /\ p[2] = m[1] - 1
      BY <2>1
    <3>2. QED
      BY <3>1
  <2>3. next .. m[1] - 1 \subseteq Accounted'
    BY <2>2 DEF Cached, Accounted
  <2>4. QED
    BY <1>8, <1>9, <2>1, <2>3 DEF Insert
<1>10. CASE ReadWithoutTree
  <2>1. PICK m \in matching : Message(m) /\ next = m[1] /\ next' = m[2]
    BY <1>10 DEF ReadWithoutTree
  <2>2. next .. m[1] - 1 \subseteq Accounted'
    BY <1>5, <2>1
  <2>3. QED
    BY <1>8, <1>10, <2>1, <2>2 DEF ReadWithoutTree
<1>11. CASE Raise
  <2>1. /\ task' = "read" /\ next' = next /\ highest' = Raised(taken)
        /\ 0 .. next - 1 \subseteq Accounted /\ taken \in Index /\ taken < next
    BY <1>11 DEF Raise, HoleInv, CacheInv
  <2>2. highest' \in {highest, taken}
    BY <2>1, RaisedIndex DEF HoleInv
  <2>3. OnlyPassedHoles'
    BY <1>3, <1>5, <2>1, <2>2 DEF HoleInv, OnlyPassedHoles, Accounted
  <2>4. QED
    BY <1>2, <1>3, <1>4, <2>1, <2>3 DEF HoleInv
<1>12. CASE CacheUpdateFails
  <2>1. task' = "read" /\ highest' = highest
    BY <1>12 DEF CacheUpdateFails
  <2>2. CASE UNCHANGED <<next, passed>> /\ task = "raise"
    BY <1>2, <1>3, <1>4, <2>1, <2>2 DEF HoleInv, OnlyPassedHoles, Accounted
  <2>3. CASE task # "raise"
    <3>1. PICK m \in matching :
            Message(m) /\ next' = m[2] /\ passed' = passed \cup (next .. m[1] - 1)
      BY <1>12, <2>3 DEF CacheUpdateFails
    <3>2. QED
      BY <1>8, <1>12, <2>1, <2>3, <3>1 DEF CacheUpdateFails, Accounted
  <2>4. QED
    BY <1>12, <2>2, <2>3 DEF CacheUpdateFails
<1>13. QED
  BY <1>6, <1>7, <1>9, <1>10, <1>11, <1>12 DEF Task

\* A request writes its range before it raises the resume index.
LEMMA HoleRequest == HoleInv /\ CacheInv' /\ Request => HoleInv'
<1> SUFFICES ASSUME HoleInv, CacheInv', Request PROVE HoleInv'
  OBVIOUS
<1>1. rows \subseteq rows' /\ passed \subseteq passed' /\ UNCHANGED <<taskVars, upstreamVars>>
  BY DEF Request, Ask, Lookup, EndLookup, LookupFails, Fetch, StoreInsert, StoreRaise, StoreFails, Respond
<1>2. Accounted \subseteq Accounted'
  BY <1>1, AccountedGrows DEF upstreamVars
<1>3. /\ task' \in {"read", "raise"} => 0 .. next' - 1 \subseteq Accounted'
      /\ task' = "raise" => taken' < next'
  BY <1>1, <1>2 DEF HoleInv, taskVars
<1>4. step' = "raise" => chain'[1] \in rows'
  BY DEF Request, Ask, Lookup, EndLookup, LookupFails, Fetch, StoreInsert, StoreRaise, StoreFails, Respond
<1>5. OnlyPassedHoles'
  <2>1. CASE StoreRaise
    <3> DEFINE first == chain[1][1]
               last == chain[1][2]
    <3>1. /\ chain[1] \in rows /\ rows' = rows /\ highest' = Raised(last)
          /\ highest .. first - 1 \subseteq passed'
      BY <2>1 DEF StoreRaise, HoleInv
    <3>2. first \in Nat /\ last \in Index /\ last \in Nat /\ highest \in Nat
      BY <3>1, BoundsAreNat DEF HoleInv, CacheInv, TypeOK, Row, Index
    <3>3. highest' \in {highest, last}
      BY <3>1, <3>2, RaisedIndex DEF HoleInv
    <3>4. first .. last \subseteq Cached'
      BY <3>1 DEF Cached
    <3>5. 0 .. highest - 1 \subseteq Accounted'
      BY <1>2 DEF HoleInv, OnlyPassedHoles, Accounted
    <3> HIDE DEF first, last
    <3>6. 0 .. last \subseteq Accounted'
      <4>1. \A i \in 0 .. last :
              i \in 0 .. highest - 1 \/ i \in highest .. first - 1 \/ i \in first .. last
        BY <3>2
      <4>2. QED
        BY <3>1, <3>4, <3>5, <4>1 DEF Accounted
    <3>7. 0 .. highest' - 1 \subseteq Accounted'
      <4>1. CASE highest' = highest
        BY <3>5, <4>1
      <4>2. CASE highest' = last
        BY <3>2, <3>6, <4>2
      <4>3. QED
        BY <3>3, <4>1, <4>2
    <3>8. QED
      BY <3>7 DEF OnlyPassedHoles, Accounted
  <2>2. CASE ~StoreRaise
    <3>1. highest' = highest
      BY <2>2 DEF Request, Ask, Lookup, EndLookup, LookupFails, Fetch, StoreInsert, StoreFails, Respond
    <3>2. QED
      BY <1>2, <3>1 DEF HoleInv, OnlyPassedHoles, Accounted
  <2>3. QED
    BY <2>1, <2>2
<1>6. QED
  BY <1>3, <1>4, <1>5 DEF HoleInv

\* Steps that leave the tables and the task alone, or start them anew.
LEMMA HoleOther ==
  ASSUME HoleInv, CacheInv', UNCHANGED <<rows, highest, passed>>, matching \subseteq matching',
         UNCHANGED taskVars \/ task' = "session",
         UNCHANGED requestVars \/ step' = "idle"
  PROVE  HoleInv'
<1>1. Accounted \subseteq Accounted' /\ OnlyPassedHoles'
  BY AccountedGrows DEF Accounted, OnlyPassedHoles, HoleInv
<1>2. step' = "raise" => chain'[1] \in rows'
  BY DEF HoleInv, requestVars
<1>3. QED
  BY <1>1, <1>2 DEF HoleInv, taskVars

THEOREM HoleInvariant == Spec => []HoleInv
<1>1. Init => HoleInv
  <2> SUFFICES ASSUME Init PROVE HoleInv
    OBVIOUS
  <2>1. CacheInv
    BY InitInv
  <2>2. highest = 0 /\ step = "idle" /\ task = "session"
    BY DEF Init
  <2>3. QED
    BY <2>1, <2>2 DEF HoleInv, OnlyPassedHoles
<1>2. HoleInv /\ [Next]_vars => HoleInv'
  <2> SUFFICES ASSUME HoleInv, [Next]_vars PROVE HoleInv'
    OBVIOUS
  <2>1. CASE Upstream
    <3>1. CacheInv'
      BY <2>1, UpstreamInv DEF HoleInv
    <3>2. UNCHANGED <<rows, highest, passed>> /\ UNCHANGED taskVars /\ UNCHANGED requestVars
          /\ matching \subseteq matching'
      BY <2>1 DEF Upstream, Extend, Expire
    <3>3. QED
      BY <3>1, <3>2, HoleOther
  <2>2. CASE Task
    BY <2>2, HoleTask
  <2>3. CASE Restart
    <3>1. CacheInv'
      BY <2>3, RestartInv DEF HoleInv
    <3>2. QED
      BY <2>3, <3>1, HoleOther DEF Restart, upstreamVars
  <2>4. CASE Request
    <3>1. CacheInv'
      BY <2>4, AskInv, LookupInv, EndLookupInv, LookupFailsInv, FetchInv, StoreInv, RespondInv
         DEF HoleInv, Request
    <3>2. QED
      BY <2>4, <3>1, HoleRequest
  <2>5. CASE UNCHANGED vars
    <3>1. CacheInv'
      BY <2>5, StutterInv DEF HoleInv
    <3>2. UNCHANGED <<rows, highest, passed>> /\ UNCHANGED taskVars /\ UNCHANGED requestVars
          /\ matching' = matching
      BY <2>5 DEF vars, upstreamVars
    <3>3. QED
      BY <3>1, <3>2, HoleOther
  <2>6. QED
    BY <2>1, <2>2, <2>3, <2>4, <2>5 DEF Next
<1>3. QED
  BY <1>1, <1>2, PTL DEF Spec

\* Below the resume index nothing is missing but what a failed statement
\* dropped or a request went past: neither a crash between two statements nor a
\* broken connection nor any interleaving of requests with the task adds to it.
THEOREM HolesArePassed == Spec => []OnlyPassedHoles
<1>1. HoleInv => OnlyPassedHoles
  BY DEF HoleInv
<1>2. QED
  BY <1>1, HoleInvariant, PTL

Quiet == step = "idle" /\ passed = {}

\* When nothing fails and nobody asks, the resume index never passes an index
\* that is not cached, but those of the transactions that match the task's key.
THEOREM BackgroundLeavesNoHole ==
  ASSUME MaxFaults = 0, Requests = {}
  PROVE  Spec => []NoHoleBelowHighest
<1>1. Init => Quiet
  BY DEF Init, Quiet
<1>2. CacheInv /\ Quiet /\ [Next]_vars => Quiet'
  <2> SUFFICES ASSUME CacheInv, Quiet, [Next]_vars PROVE Quiet'
    OBVIOUS
  <2>1. CASE Upstream \/ Restart
    BY <2>1 DEF Quiet, Upstream, Extend, Expire, Restart, requestVars
  <2>2. CASE Task
    <3>1. ~CacheUpdateFails
      BY BoundsAreNat DEF CacheUpdateFails, CacheInv, TypeOK
    <3>2. QED
      BY <2>2, <3>1
         DEF Quiet, Task, EnsureSession, Subscribe, Insert, ReadWithoutTree, Raise,
             EndSubscription, Resubscribe, requestVars
  <2>3. CASE Request
    BY <2>3 DEF Quiet, Request, Lookup, EndLookup, LookupFails, Fetch, StoreInsert, StoreRaise, StoreFails,
       Respond
  <2>4. CASE UNCHANGED vars
    BY <2>4 DEF Quiet, vars, requestVars
  <2>5. QED
    BY <2>1, <2>2, <2>3, <2>4 DEF Next
<1>3. OnlyPassedHoles /\ Quiet => NoHoleBelowHighest
  BY DEF OnlyPassedHoles, Quiet, NoHoleBelowHighest
<1>4. QED
  BY <1>1, <1>2, <1>3, CacheInvariant, HolesArePassed, PTL DEF Spec

-----------------------------------------------------------------------------
(* The updates of the stream.                                              *)

\* The commitments of the transactions follow one another.
TxsInOrder ==
  /\ Len(txs) <= MaxTxs
  /\ \A i \in 1 .. Len(txs) : txs[i].block <= i /\ txs[i].start < txs[i].end
  /\ \A i, j \in 1 .. Len(txs) : i < j => txs[i].end <= txs[j].start

\* Some gap was filled by more than one update.
Several == \E n \in answers : n > 1

\* The position of a stream is in front of what it has yet to build.
StreamBehind ==
  /\ at <= Len(txs) + 1
  /\ at = 0 => pos = -1 /\ wire = <<>>
  /\ pos >= 0 => at > 1 /\ pos <= txs[at - 1].end

WireBehind ==
  \A n \in 1 .. Len(wire) :
    /\ wire[n].tx < at
    /\ wire[n].kind = "other" => ~txs[wire[n].tx].relevant
    /\ wire[n].kind = "tx" => wire[n].ord = OrdTx
    /\ wire[n].ord < -1 => Several

\* A cursor is one of an item that was sent, and only a client whose connection
\* failed resumes with it.
CursorSent(c) ==
  /\ c = NoCursor \/ (c[1] \in 1 .. Len(txs) /\ c[2] # 0)
  /\ c[2] < -1 => Several

FirstConnection ==
  drops = 0 =>
    /\ fromCursor = NoCursor
    /\ at = 0 => cursor = NoCursor /\ covered = {}

InlineInv ==
  /\ InlineTypeOK
  /\ TxsInOrder
  /\ StreamBehind
  /\ WireBehind
  /\ CursorSent(cursor) /\ CursorSent(fromCursor)
  /\ FirstConnection

\* The client's tree when it comes to item n of the wire.
Before(n) == covered \cup UNION {Indices(wire[k]) : k \in 1 .. n - 1}

\* Updates bring what is new; all of it lies below the position of the stream.
GapInv ==
  drops = 0 =>
    /\ Before(Len(wire) + 1) \subseteq 0 .. pos - 1
    /\ \A n \in 1 .. Len(wire) :
         wire[n].kind = "update" => Indices(wire[n]) \cap Before(n) = {}

\* Every update that was needed could be had, in one piece or by a client that
\* never lost the connection.
UpdatesCame == 0 \notin answers /\ (Several => drops = 0)

\* The tree S has everything up to each of the wallet's transactions before k.
Complete(k, S) == \A j \in 1 .. k - 1 : txs[j].relevant => 0 .. txs[j].end - 1 \subseteq S

\* What the filter takes as sent is in the client's tree.
CursorKept(c) ==
  c # NoCursor =>
    /\ Complete(c[1], covered)
    /\ c[2] >= OrdTx /\ txs[c[1]].relevant => 0 .. txs[c[1]].end - 1 \subseteq covered
    /\ c[2] = -1 => 0 .. txs[c[1]].start - 1 \subseteq covered

WireComplete ==
  \A n \in 1 .. Len(wire) :
    /\ Complete(wire[n].tx, Before(n))
    /\ wire[n].kind = "tx" => 0 .. txs[wire[n].tx].start - 1 \subseteq Before(n)
    /\ wire[n].ord = -1 => 0 .. txs[wire[n].tx].start - 1 \subseteq Before(n + 1)

StreamComplete ==
  /\ Complete(at, Before(Len(wire) + 1))
  /\ 0 .. pos - 1 \subseteq Before(Len(wire) + 1)

SelfInv ==
  UpdatesCame =>
    /\ CursorKept(cursor) /\ CursorKept(fromCursor)
    /\ WireComplete
    /\ StreamComplete

-----------------------------------------------------------------------------
LEMMA InlineBounds ==
  MaxTxs \in Nat /\ MaxSize \in Nat /\ MaxDrops \in Nat /\ MaxFailures \in Nat
BY InlineAssumption

\* The fields of an item, by its kind.
LEMMA ItemFields ==
  ASSUME NEW item \in Item
  PROVE  /\ item.tx \in 1 .. MaxTxs /\ item.ord \in Int
         /\ item.kind \in {"update", "tx", "other"}
         /\ item.kind = "update" => item.ord < 0 /\ item.first \in Nat /\ item.last \in Nat
         /\ item.kind # "update" => item.ord > 0
BY DEF Item, Update, UpdateOrd, OrdTx, OrdOther

LEMMA InlineElements ==
  ASSUME InlineInv
  PROVE  /\ Len(txs) \in Nat /\ txs \in Seq(Tx) /\ \A i \in 1 .. Len(txs) : txs[i] \in Tx
         /\ Len(wire) \in Nat /\ wire \in Seq(Item) /\ \A n \in 1 .. Len(wire) : wire[n] \in Item
         /\ at \in Nat /\ (pos = -1 \/ pos \in Nat)
         /\ \A n \in 1 .. Len(wire) : wire[n].tx \in 1 .. Len(txs)
<1>1. txs \in Seq(Tx) /\ wire \in Seq(Item)
  BY DEF InlineInv, InlineTypeOK
<1>2. Len(txs) \in Nat /\ Len(wire) \in Nat
  BY <1>1, LenProperties
<1>3. /\ \A i \in 1 .. Len(txs) : txs[i] \in Tx
      /\ \A n \in 1 .. Len(wire) : wire[n] \in Item
  BY <1>1, ElementOfSeq
<1>4. at \in Nat /\ (pos = -1 \/ pos \in Nat)
  BY DEF InlineInv, InlineTypeOK
<1>5. ASSUME NEW n \in 1 .. Len(wire)
      PROVE  wire[n].tx \in 1 .. Len(txs)
  <2>1. wire[n].tx \in 1 .. MaxTxs
    BY <1>3, ItemFields
  <2>2. wire[n].tx < at /\ at <= Len(txs) + 1
    BY DEF InlineInv, WireBehind, StreamBehind
  <2>3. QED
    BY <1>2, <1>4, <2>1, <2>2, InlineBounds
<1>6. QED
  BY <1>1, <1>2, <1>3, <1>4, <1>5

\* What an item brings depends on its transaction only.
LEMMA IndicesStay ==
  ASSUME NEW item, txs'[item.tx] = txs[item.tx]
  PROVE  Indices(item)' = Indices(item)
BY DEF Indices

\* New transactions come behind all others.
LEMMA BeforeStays ==
  ASSUME InlineInv, UNCHANGED <<wire, covered>>,
         \A i \in 1 .. Len(txs) : txs'[i] = txs[i],
         NEW n \in Nat, n <= Len(wire) + 1
  PROVE  Before(n)' = Before(n)
<1>1. \A k \in 1 .. n - 1 : k \in 1 .. Len(wire)
  BY InlineElements
<1>2. \A k \in 1 .. n - 1 : Indices(wire[k])' = Indices(wire[k])
  BY <1>1, InlineElements, IndicesStay
<1>3. QED
  BY <1>2 DEF Before

-----------------------------------------------------------------------------
\* The items from the n-th on, which pass the filter, go to the end of the wire.
SentFrom(items, n) ==
  /\ n \in 1 .. Len(items) + 1
  /\ \A k \in 1 .. Len(items) : Passes(items[k]) <=> k >= n
  /\ wire' \in Seq(Item) /\ Len(wire') = Len(wire) + Len(items) + 1 - n
  /\ \A k \in 1 .. Len(wire) : wire'[k] = wire[k]
  /\ \A k \in n .. Len(items) : wire'[Len(wire) + k + 1 - n] = items[k]

LEMMA SendShape ==
  ASSUME InlineInv, NEW items \in Seq(Item), Send(items)
  PROVE  \E n \in 1 .. Len(items) + 1 : SentFrom(items, n)
<1>1. PICK n \in 1 .. Len(items) + 1 :
        /\ \A k \in DOMAIN items : Passes(items[k]) <=> k >= n
        /\ wire' = wire \o SubSeq(items, n, Len(items))
  BY DEF Send
<1> DEFINE s == SubSeq(items, n, Len(items))
<1>2. Len(items) \in Nat /\ DOMAIN items = 1 .. Len(items)
  BY LenProperties
<1>3. /\ s \in Seq(Item) /\ Len(s) = Len(items) + 1 - n
      /\ \A j \in 1 .. Len(s) : s[j] = items[n + j - 1]
  BY <1>2, SubSeqProperties
<1> HIDE DEF s
<1>4. wire \in Seq(Item) /\ Len(wire) \in Nat /\ wire' = wire \o s
  BY <1>1, InlineElements DEF s
<1>5. /\ wire' \in Seq(Item) /\ Len(wire') = Len(wire) + Len(s)
      /\ \A k \in 1 .. Len(wire') :
           wire'[k] = IF k <= Len(wire) THEN wire[k] ELSE s[k - Len(wire)]
  <2>1. s \in Seq(Item)
    BY <1>3
  <2>2. wire \in Seq(Item) /\ wire' = wire \o s
    BY <1>4
  <2>3. QED
    BY <2>1, <2>2, ConcatProperties
<1>6. \A k \in n .. Len(items) : wire'[Len(wire) + k + 1 - n] = items[k]
  <2>1. TAKE k \in n .. Len(items)
  <2>2. k + 1 - n \in 1 .. Len(s) /\ s[k + 1 - n] = items[k]
    BY <1>2, <1>3
  <2>3. PICK j \in 1 .. Len(s) : j = k + 1 - n /\ s[j] = items[k]
    BY <2>2
  <2>4. Len(s) \in Nat /\ Len(wire) + k + 1 - n = Len(wire) + j
    BY <1>2, <1>3, <1>4, <2>3
  <2>5. Len(wire) + j \in 1 .. Len(wire') /\ ~(Len(wire) + j <= Len(wire))
    BY <1>4, <1>5, <2>3, <2>4
  <2>6. wire'[Len(wire) + j] = s[(Len(wire) + j) - Len(wire)] /\ (Len(wire) + j) - Len(wire) = j
    BY <1>4, <1>5, <2>3, <2>5
  <2>7. QED
    BY <2>3, <2>4, <2>6
<1>7. \A k \in 1 .. Len(wire) : wire'[k] = wire[k]
  BY <1>3, <1>4, <1>5
<1>8. Len(wire') = Len(wire) + Len(items) + 1 - n
  BY <1>2, <1>3, <1>4, <1>5
<1>9. \A k \in 1 .. Len(items) : Passes(items[k]) <=> k >= n
  BY <1>1, <1>2
<1>10. QED
  BY <1>5, <1>6, <1>7, <1>8, <1>9 DEF SentFrom

\* The bounds b cut the gap before transaction at into what the n updates bring.
Tiling(items, b, n) ==
  /\ b \in [0 .. n -> Nat] /\ b[0] = FromIndex /\ b[n] = T.start
  /\ \A i, j \in 0 .. n : i < j => b[i] < b[j]
  /\ \A k \in 1 .. n : Indices(items[k]) = b[k - 1] .. b[k] - 1

\* The items of transaction at: the updates that fill the gap before it, in
\* order, and then its own.
Built(items) ==
  /\ items \in Seq(Item) /\ Len(items) \in Nat \ {0}
  /\ \A k \in 1 .. Len(items) : items[k].tx = at
  /\ \A k \in 1 .. Len(items) - 1 : items[k].kind = "update" /\ items[k].ord = k - Len(items)
  /\ IF T.relevant
     THEN items[Len(items)].kind = "tx" /\ items[Len(items)].ord = OrdTx
     ELSE items[Len(items)].kind = "other" /\ items[Len(items)].ord = OrdOther /\ Len(items) = 1
  /\ Len(items) > 1 => NeedUpdate /\ \E b : Tiling(items, b, Len(items) - 1)

\* A step of the stream sends the items of one transaction.
BuildStep(items) ==
  /\ CanBuild /\ Built(items) /\ Send(items)
  /\ at' = at + 1
  /\ pos' = IF T.relevant THEN T.end ELSE pos
  /\ answers \subseteq answers' /\ answers' \subseteq Nat
  /\ T.relevant /\ NeedUpdate => Len(items) - 1 \in answers'
  /\ failures' = failures \/ (failures' = failures + 1 /\ failures < MaxFailures)
  /\ UNCHANGED <<txs, fromCursor, cursor, covered, drops>>

LEMMA BuildTypes ==
  ASSUME InlineInv, CanBuild
  PROVE  /\ at \in 1 .. Len(txs) /\ at \in 1 .. MaxTxs /\ T \in Tx
         /\ T.start \in Nat /\ T.end \in Nat /\ T.start < T.end /\ FromIndex \in Nat
         /\ FromIndex = 0 \/ FromIndex = pos
         /\ NeedUpdate => FromIndex < T.start
         /\ TxItem \in Item /\ OtherItem \in Item
<1>1. at \in 1 .. Len(txs) /\ at \in 1 .. MaxTxs
  BY InlineElements, InlineBounds DEF CanBuild, InlineInv, TxsInOrder
<1>2. T \in Tx /\ T.start < T.end
  BY <1>1, InlineElements DEF T, InlineInv, TxsInOrder
<1>3. T.start \in Nat /\ T.end \in Nat
  BY <1>2 DEF Tx
<1>4. FromIndex \in Nat /\ (FromIndex = 0 \/ FromIndex = pos)
  BY InlineElements DEF FromIndex
<1>5. NeedUpdate => FromIndex < T.start
  BY DEF FromIndex, NeedUpdate
<1>6. TxItem \in Item /\ OtherItem \in Item
  BY <1>1 DEF TxItem, OtherItem, Item, OrdTx, OrdOther
<1>7. QED
  BY <1>1, <1>2, <1>3, <1>4, <1>5, <1>6

LEMMA UpdateItems ==
  ASSUME InlineInv, CanBuild, NEW ord \in UpdateOrd, NEW first \in Nat, NEW last \in Nat
  PROVE  LET u == UpdateItem(ord, first, last)
         IN  /\ u \in Item /\ u.kind = "update" /\ u.tx = at /\ u.ord = ord
             /\ Indices(u) = first .. last
<1>1. at \in 1 .. MaxTxs
  BY BuildTypes
<1>2. UpdateItem(ord, first, last) \in Update
  BY <1>1 DEF UpdateItem, Update
<1>3. QED
  BY <1>2 DEF UpdateItem, Item, Indices

\* An item at the end of a sequence of items.
LEMMA ItemAtEnd ==
  ASSUME NEW us \in Seq(Item), NEW x \in Item
  PROVE  /\ us \o <<x>> \in Seq(Item) /\ Len(us \o <<x>>) = Len(us) + 1 /\ Len(us) \in Nat
         /\ \A k \in 1 .. Len(us) : (us \o <<x>>)[k] = us[k]
         /\ (us \o <<x>>)[Len(us) + 1] = x
<1>1. <<x>> \in Seq(Item) /\ <<x>>[1] = x /\ Len(<<x>>) = 1
  BY OneElement
<1>2. Len(us) \in Nat
  BY LenProperties
<1>3. /\ us \o <<x>> \in Seq(Item) /\ Len(us \o <<x>>) = Len(us) + Len(<<x>>)
      /\ \A i \in 1 .. Len(us) + Len(<<x>>) :
           (us \o <<x>>)[i] = IF i <= Len(us) THEN us[i] ELSE <<x>>[i - Len(us)]
  BY <1>1, ConcatProperties
<1>4. QED
  BY <1>1, <1>2, <1>3

\* Updates us and the transaction: what is to be shown of us.
LEMMA BuiltWith ==
  ASSUME InlineInv, CanBuild, T.relevant, NEW us \in Seq(Item),
         \A k \in 1 .. Len(us) :
           us[k].kind = "update" /\ us[k].ord = k - (Len(us) + 1) /\ us[k].tx = at,
         Len(us) > 0 => NeedUpdate,
         NEW b,
         Len(us) > 0 =>
           /\ b \in [0 .. Len(us) -> Nat] /\ b[0] = FromIndex /\ b[Len(us)] = T.start
           /\ \A i, j \in 0 .. Len(us) : i < j => b[i] < b[j]
           /\ \A k \in 1 .. Len(us) : Indices(us[k]) = b[k - 1] .. b[k] - 1
  PROVE  Built(us \o <<TxItem>>) /\ Len(us \o <<TxItem>>) = Len(us) + 1
<1>1. TxItem \in Item /\ TxItem.tx = at /\ TxItem.kind = "tx" /\ TxItem.ord = OrdTx
  BY BuildTypes DEF TxItem
<1>2. PICK items \in Seq(Item) :
        /\ items = us \o <<TxItem>>
        /\ Len(items) = Len(us) + 1 /\ Len(us) \in Nat
        /\ \A k \in 1 .. Len(us) : items[k] = us[k]
        /\ items[Len(us) + 1] = TxItem
  BY <1>1, ItemAtEnd
<1>3. \A k \in 1 .. Len(items) : k \in 1 .. Len(us) \/ k = Len(us) + 1
  BY <1>2
<1>4. \A k \in 1 .. Len(items) : items[k].tx = at
  BY <1>1, <1>2, <1>3
<1>5. \A k \in 1 .. Len(items) - 1 : items[k].kind = "update" /\ items[k].ord = k - Len(items)
  BY <1>2
<1>6. items[Len(items)].kind = "tx" /\ items[Len(items)].ord = OrdTx
  BY <1>1, <1>2
<1>7. Len(items) > 1 => NeedUpdate /\ Tiling(items, b, Len(items) - 1)
  <2>1. SUFFICES ASSUME Len(items) > 1
                 PROVE  NeedUpdate /\ Tiling(items, b, Len(items) - 1)
    OBVIOUS
  <2>2. Len(us) > 0 /\ Len(items) - 1 = Len(us)
    BY <1>2, <2>1
  <2>3. \A k \in 1 .. Len(us) : Indices(items[k]) = b[k - 1] .. b[k] - 1
    BY <1>2, <2>2
  <2>4. Tiling(items, b, Len(us))
    BY <2>2, <2>3 DEF Tiling
  <2>5. QED
    BY <2>2, <2>4
<1>8. Built(items)
  BY <1>2, <1>4, <1>5, <1>6, <1>7 DEF Built
<1>9. QED
  BY <1>2, <1>8

\* The updates of a cut are one at least, and its bounds tile the gap.
LEMMA CutIsBuilt ==
  ASSUME InlineInv, CanBuild, T.relevant, NeedUpdate, NEW n \in Nat \ {0}, NEW c \in Cuts(n)
  PROVE  LET us == CutUpdates(c, n)
         IN  Built(us \o <<TxItem>>) /\ Len(us) = n /\ Len(us \o <<TxItem>>) = n + 1
<1> DEFINE b == [i \in 0 .. n |-> Bound(c, i, n)]
<1>1. FromIndex \in Nat /\ T.start \in Nat /\ FromIndex < T.start
  BY BuildTypes
<1>2. /\ \A i \in 1 .. n - 1 : c[i] \in Nat /\ FromIndex < c[i] /\ c[i] < T.start
      /\ \A i, j \in 1 .. n - 1 : i < j => c[i] < c[j]
  BY <1>1 DEF Cuts
<1>3. \A i \in 0 .. n :
        Bound(c, i, n) = IF i = 0 THEN FromIndex ELSE IF i = n THEN T.start ELSE c[i]
  BY DEF Bound
<1>4. /\ b \in [0 .. n -> Nat] /\ b[0] = FromIndex /\ b[n] = T.start
      /\ \A i \in 0 .. n : b[i] = Bound(c, i, n)
  BY <1>1, <1>2, <1>3
<1>5. ASSUME NEW i \in 0 .. n, NEW j \in 0 .. n, i < j
      PROVE  b[i] < b[j]
  <2>1. i = 0 \/ i \in 1 .. n - 1
    BY <1>5
  <2>2. j = n \/ j \in 1 .. n - 1
    BY <1>5
  <2>3. QED
    BY <1>1, <1>2, <1>3, <1>4, <1>5, <2>1, <2>2
<1> HIDE DEF b
<1>6. ASSUME NEW k \in 1 .. n
      PROVE  LET u == UpdateItem(k - n - 1, Bound(c, k - 1, n), Bound(c, k, n) - 1)
             IN  /\ u \in Item /\ u.kind = "update" /\ u.tx = at /\ u.ord = k - n - 1
                 /\ Indices(u) = b[k - 1] .. b[k] - 1
  <2>1. k - 1 \in 0 .. n /\ k \in 0 .. n /\ k - 1 < k
    OBVIOUS
  <2>2. b[k - 1] \in Nat /\ b[k] \in Nat /\ b[k - 1] < b[k]
    BY <1>4, <1>5, <2>1
  <2>3. Bound(c, k - 1, n) = b[k - 1] /\ Bound(c, k, n) = b[k]
    BY <1>4, <2>1
  <2>4. k - n - 1 \in UpdateOrd
    BY DEF UpdateOrd
  <2>5. b[k] - 1 \in Nat
    BY <2>2
  <2>6. QED
    BY <2>2, <2>3, <2>4, <2>5, UpdateItems
<1>7. PICK us : us = CutUpdates(c, n)
  OBVIOUS
<1>8. us = [k \in 1 .. n |-> UpdateItem(k - n - 1, Bound(c, k - 1, n), Bound(c, k, n) - 1)]
  BY <1>7 DEF CutUpdates
<1>9. us \in Seq(Item) /\ Len(us) = n
  <2>1. us \in [1 .. n -> Item]
    BY <1>6, <1>8
  <2>2. us \in Seq(Item) /\ DOMAIN us = 1 .. n
    BY <2>1, SeqDef
  <2>3. QED
    BY <2>2, LenProperties
<1>10. \A k \in 1 .. n :
         /\ us[k].kind = "update" /\ us[k].ord = k - (n + 1) /\ us[k].tx = at
         /\ Indices(us[k]) = b[k - 1] .. b[k] - 1
  <2>1. TAKE k \in 1 .. n
  <2>2. us[k] = UpdateItem(k - n - 1, Bound(c, k - 1, n), Bound(c, k, n) - 1)
    BY <1>8
  <2>3. k - n - 1 = k - (n + 1)
    OBVIOUS
  <2>4. QED
    BY <1>6, <2>2, <2>3
<1>11. Built(us \o <<TxItem>>) /\ Len(us \o <<TxItem>>) = Len(us) + 1
  BY <1>4, <1>5, <1>9, <1>10, BuiltWith
<1>12. QED
  BY <1>7, <1>9, <1>11

LEMMA HitIsBuilt ==
  ASSUME InlineInv, CanBuild, T.relevant, NeedUpdate, NEW updates \in HitUpdates
  PROVE  /\ Built(updates \o <<TxItem>>) /\ Len(updates) \in Nat
         /\ Len(updates \o <<TxItem>>) = Len(updates) + 1
<1>1. PICK n \in 1 .. T.start - FromIndex : \E c \in Cuts(n) : updates = CutUpdates(c, n)
  BY DEF HitUpdates
<1>2. PICK c \in Cuts(n) : updates = CutUpdates(c, n)
  BY <1>1
<1>3. n \in Nat \ {0}
  BY BuildTypes
<1>4. QED
  BY <1>2, <1>3, CutIsBuilt

\* The update that upstream sends is the whole range, a cut without bounds in it.
LEMMA WholeIsHit ==
  ASSUME InlineInv, CanBuild, NeedUpdate
  PROVE  WholeUpdate \in HitUpdates
<1>1. FromIndex \in Nat /\ T.start \in Nat /\ FromIndex < T.start
  BY BuildTypes
<1>2. 1 \in 1 .. T.start - FromIndex
  BY <1>1
<1>3. PICK c : c = [i \in 1 .. 1 - 1 |-> T.start]
  OBVIOUS
<1>4. c \in Cuts(1)
  BY <1>3 DEF Cuts
<1>5. PICK u : u = UpdateItem(-1, FromIndex, T.start - 1)
  OBVIOUS
<1>6. \A k \in 1 .. 1 : UpdateItem(k - 1 - 1, Bound(c, k - 1, 1), Bound(c, k, 1) - 1) = u
  <2>1. 1 - 1 - 1 = -1 /\ 1 - 1 = 0 /\ 1 # 0 /\ \A k \in 1 .. 1 : k = 1
    OBVIOUS
  <2>2. Bound(c, 0, 1) = FromIndex /\ Bound(c, 1, 1) = T.start
    BY DEF Bound
  <2>3. UpdateItem(1 - 1 - 1, Bound(c, 1 - 1, 1), Bound(c, 1, 1) - 1) = u
    BY <1>5, <2>1, <2>2, Zenon
  <2>4. QED
    BY <2>1, <2>3
<1>7. CutUpdates(c, 1) = [k \in 1 .. 1 |-> u]
  BY <1>6 DEF CutUpdates
<1>8. <<u>> = [k \in 1 .. 1 |-> u]
  OBVIOUS
<1>9. WholeUpdate = CutUpdates(c, 1)
  BY <1>5, <1>7, <1>8 DEF WholeUpdate
<1>10. QED
  BY <1>2, <1>4, <1>9 DEF HitUpdates

LEMMA NoneIsBuilt ==
  ASSUME InlineInv, CanBuild, T.relevant
  PROVE  Built(<<>> \o <<TxItem>>) /\ Len(<<>> \o <<TxItem>>) = 1
<1>1. PICK us \in Seq(Item) : us = <<>> /\ Len(us) = 0
  BY EmptySeq
<1>2. ~(Len(us) > 0) /\ 1 .. Len(us) = {}
  BY <1>1
<1>3. Built(us \o <<TxItem>>) /\ Len(us \o <<TxItem>>) = Len(us) + 1
  BY <1>2, BuiltWith
<1>4. QED
  BY <1>1, <1>3

LEMMA StreamBuilds ==
  ASSUME InlineInv, Stream
  PROVE  \E items \in Seq(Item) : BuildStep(items)
<1>1. CanBuild /\ answers \subseteq Nat
  BY DEF Stream, BuildAdjacent, BuildWithUpdate, BuildWithoutUpdate, MustUpdate, BuildOther,
         InlineInv, InlineTypeOK
<1>2. ASSUME NEW us, T.relevant, Built(us \o <<TxItem>>), Build(us),
             answers \subseteq answers', answers' \subseteq Nat,
             NeedUpdate => Len(us \o <<TxItem>>) - 1 \in answers',
             failures' = failures \/ (failures' = failures + 1 /\ failures < MaxFailures)
      PROVE  \E items \in Seq(Item) : BuildStep(items)
  <2>1. us \o <<TxItem>> \in Seq(Item) /\ Send(us \o <<TxItem>>)
    BY <1>2 DEF Built, Build
  <2>2. at' = at + 1 /\ pos' = T.end /\ UNCHANGED <<txs, fromCursor, cursor, covered, drops>>
    BY <1>2 DEF Build, NewPosition
  <2>3. BuildStep(us \o <<TxItem>>)
    BY <1>1, <1>2, <2>1, <2>2 DEF BuildStep
  <2>4. QED
    BY <2>1, <2>3
<1>3. CASE BuildAdjacent
  <2>1. Build(<<>>) /\ T.relevant /\ ~NeedUpdate /\ UNCHANGED <<answers, failures>>
    BY <1>3 DEF BuildAdjacent
  <2>2. PICK us : us = <<>> /\ Built(us \o <<TxItem>>)
    BY <1>1, <2>1, NoneIsBuilt
  <2>3. Build(us)
    BY <2>1, <2>2
  <2>4. QED
    BY <1>1, <1>2, <2>1, <2>2, <2>3
<1>4. CASE BuildWithUpdate
  <2>1. T.relevant /\ NeedUpdate /\ UNCHANGED failures
    BY <1>4 DEF BuildWithUpdate, MustUpdate
  <2>2. ASSUME NEW us \in HitUpdates, BuildWith(us)
        PROVE  \E items \in Seq(Item) : BuildStep(items)
    <3>1. /\ Built(us \o <<TxItem>>) /\ Len(us) \in Nat
          /\ Len(us \o <<TxItem>>) - 1 = Len(us)
      BY <1>1, <2>1, <2>2, HitIsBuilt
    <3>2. Build(us) /\ answers' = answers \cup {Len(us)}
      BY <2>2 DEF BuildWith
    <3>3. answers \subseteq answers' /\ answers' \subseteq Nat
      BY <1>1, <3>1, <3>2
    <3>4. QED
      BY <1>2, <2>1, <3>1, <3>2, <3>3
  <2>3. WholeUpdate \in HitUpdates
    BY <1>1, <2>1, WholeIsHit
  <2>4. CASE BuildWith(<<>>)
    <3>1. Build(<<>>) /\ answers' = answers \cup {0}
      BY <2>4, EmptySeq DEF BuildWith
    <3>2. PICK us : us = <<>> /\ Built(us \o <<TxItem>>) /\ Len(us \o <<TxItem>>) = 1
      BY <1>1, <2>1, NoneIsBuilt
    <3>3. Build(us)
      BY <3>1, <3>2
    <3>4. /\ answers \subseteq answers' /\ answers' \subseteq Nat
          /\ Len(us \o <<TxItem>>) - 1 \in answers'
      BY <1>1, <3>1, <3>2
    <3>5. QED
      BY <1>2, <2>1, <3>2, <3>3, <3>4
  <2>5. FetchedUpdates = WholeUpdate \/ FetchedUpdates = <<>>
    BY DEF FetchedUpdates
  <2>6. QED
    BY <1>4, <2>2, <2>3, <2>4, <2>5 DEF BuildWithUpdate
<1>5. CASE BuildWithoutUpdate
  <2>1. /\ T.relevant /\ Build(<<>>) /\ answers' = answers \cup {0}
        /\ failures' = failures + 1 /\ failures < MaxFailures
    BY <1>5, EmptySeq DEF BuildWithoutUpdate, MustUpdate, BuildWith
  <2>2. PICK us : us = <<>> /\ Built(us \o <<TxItem>>) /\ Len(us \o <<TxItem>>) = 1
    BY <1>1, <2>1, NoneIsBuilt
  <2>3. Build(us)
    BY <2>1, <2>2
  <2>4. /\ answers \subseteq answers' /\ answers' \subseteq Nat
        /\ Len(us \o <<TxItem>>) - 1 \in answers'
    BY <1>1, <2>1, <2>2
  <2>5. QED
    BY <1>2, <2>1, <2>2, <2>3, <2>4
<1>6. CASE BuildOther
  <2>1. OtherItem \in Item /\ OtherItem.tx = at /\ OtherItem.kind = "other" /\ OtherItem.ord = OrdOther
    BY <1>1, BuildTypes DEF OtherItem
  <2>2. PICK items \in Seq(Item) : items = <<OtherItem>> /\ Len(items) = 1 /\ items[1] = OtherItem
    BY <2>1, OneElement
  <2>3. ~T.relevant /\ Send(items)
    BY <1>6, <2>2 DEF BuildOther
  <2>4. \A k \in 1 .. Len(items) : k = 1
    BY <2>2
  <2>5. Built(items)
    BY <2>1, <2>2, <2>3, <2>4 DEF Built
  <2>6. BuildStep(items)
    BY <1>1, <1>6, <2>3, <2>5 DEF BuildStep, BuildOther
  <2>7. QED
    BY <2>6
<1>7. QED
  BY <1>3, <1>4, <1>5, <1>6 DEF Stream

\* A place on the wire after a send is an old one, or that of an item sent.
LEMMA SentPlaces ==
  ASSUME InlineInv, NEW items \in Seq(Item), NEW n, SentFrom(items, n),
         NEW m \in 1 .. Len(wire')
  PROVE  \/ m \in 1 .. Len(wire) /\ wire'[m] = wire[m]
         \/ \E k \in n .. Len(items) : m = Len(wire) + k + 1 - n /\ wire'[m] = items[k]
<1>1. /\ Len(items) \in Nat /\ Len(wire) \in Nat /\ n \in 1 .. Len(items) + 1
      /\ Len(wire') = Len(wire) + Len(items) + 1 - n
  BY InlineElements, LenProperties DEF SentFrom
<1>2. CASE m <= Len(wire)
  BY <1>1, <1>2 DEF SentFrom
<1>3. CASE m > Len(wire)
  <2>1. m - Len(wire) - 1 + n \in n .. Len(items)
    BY <1>1, <1>3
  <2>2. m = Len(wire) + (m - Len(wire) - 1 + n) + 1 - n
    BY <1>1
  <2>3. QED
    BY <2>1, <2>2 DEF SentFrom
<1>4. QED
  BY <1>1, <1>2, <1>3

LEMMA BuildInv ==
  ASSUME InlineInv, NEW items \in Seq(Item), BuildStep(items)
  PROVE  InlineInv'
<1>1. /\ at \in 1 .. Len(txs) /\ at \in 1 .. MaxTxs /\ Len(txs) \in Nat /\ CanBuild
      /\ T.start \in Nat /\ T.end \in Nat /\ T.start < T.end
  BY BuildTypes, InlineElements DEF BuildStep
<1>2. /\ at' = at + 1 /\ UNCHANGED <<txs, fromCursor, cursor, covered, drops>>
      /\ pos' = IF T.relevant THEN T.end ELSE pos
      /\ answers \subseteq answers' /\ answers' \subseteq Nat /\ (Several => Several')
      /\ failures' = failures \/ (failures' = failures + 1 /\ failures < MaxFailures)
  BY DEF BuildStep, Several
<1>3. PICK n \in 1 .. Len(items) + 1 : SentFrom(items, n)
  BY SendShape DEF BuildStep
<1>4. InlineTypeOK'
  <2>1. at' \in 0 .. MaxTxs + 1 /\ pos' \in Nat \cup {-1}
    BY <1>1, <1>2, InlineBounds DEF InlineInv, InlineTypeOK
  <2>2. failures' \in 0 .. MaxFailures
    BY <1>2, InlineBounds DEF InlineInv, InlineTypeOK
  <2>3. QED
    BY <1>2, <1>3, <2>1, <2>2 DEF InlineInv, InlineTypeOK, SentFrom
<1>5. TxsInOrder' /\ FirstConnection' /\ CursorSent(cursor)' /\ CursorSent(fromCursor)'
  BY <1>1, <1>2 DEF InlineInv, TxsInOrder, FirstConnection, CursorSent
<1>6. StreamBehind'
  <2>1. at' <= Len(txs') + 1 /\ at' # 0 /\ at' > 1
    BY <1>1, <1>2
  <2>2. pos >= 0 => pos <= txs[at].end
    <3>1. ASSUME pos >= 0
          PROVE  pos <= txs[at].end
      <4>1. at > 1 /\ pos <= txs[at - 1].end
        BY <3>1 DEF InlineInv, StreamBehind
      <4>2. txs[at - 1].end <= txs[at].start
        <5>1. at - 1 \in 1 .. Len(txs) /\ at - 1 < at
          BY <1>1, <4>1
        <5>2. QED
          BY <1>1, <5>1 DEF InlineInv, TxsInOrder
      <4>3. txs[at - 1].end \in Nat
        <5>1. at - 1 \in 1 .. Len(txs)
          BY <1>1, <4>1
        <5>2. QED
          BY <5>1, InlineElements DEF Tx
      <4>4. QED
        BY <1>1, <4>1, <4>2, <4>3, InlineElements DEF T
    <3>2. QED
      BY <3>1
  <2>3. pos' >= 0 => pos' <= txs'[at' - 1].end
    BY <1>1, <1>2, <2>2 DEF T
  <2>4. QED
    BY <2>1, <2>3 DEF StreamBehind
<1>7. WireBehind'
  <2>1. ASSUME NEW m \in 1 .. Len(wire')
        PROVE  /\ wire'[m].tx < at'
               /\ wire'[m].kind = "other" => ~txs'[wire'[m].tx].relevant
               /\ wire'[m].kind = "tx" => wire'[m].ord = OrdTx
               /\ wire'[m].ord < -1 => Several'
    <3>1. CASE m \in 1 .. Len(wire) /\ wire'[m] = wire[m]
      <4>1. /\ wire[m].tx < at /\ wire[m].tx \in Nat
            /\ wire[m].kind = "other" => ~txs[wire[m].tx].relevant
            /\ wire[m].kind = "tx" => wire[m].ord = OrdTx
            /\ wire[m].ord < -1 => Several
        BY <3>1, InlineElements DEF InlineInv, WireBehind
      <4>2. QED
        BY <1>1, <1>2, <3>1, <4>1
    <3>2. ASSUME NEW k \in n .. Len(items), wire'[m] = items[k]
          PROVE  /\ wire'[m].tx < at'
                 /\ wire'[m].kind = "other" => ~txs'[wire'[m].tx].relevant
                 /\ wire'[m].kind = "tx" => wire'[m].ord = OrdTx
                 /\ wire'[m].ord < -1 => Several'
      <4>1. k \in 1 .. Len(items) /\ Len(items) \in Nat \ {0} /\ items[k].tx = at
        BY DEF BuildStep, Built
      <4>2. CASE k = Len(items)
        BY <1>1, <1>2, <3>2, <4>1, <4>2 DEF BuildStep, Built, T, OrdTx, OrdOther
      <4>3. CASE k < Len(items)
        <5>1. k \in 1 .. Len(items) - 1
          BY <4>1, <4>3
        <5>2. items[k].kind = "update" /\ items[k].ord = k - Len(items) /\ NeedUpdate /\ T.relevant
          BY <4>1, <5>1 DEF BuildStep, Built
        <5>3. items[k].ord < -1 => Len(items) - 1 > 1
          <6>1. k - Len(items) < -1 => Len(items) - 1 > 1
            BY <4>1, <5>1
          <6>2. QED
            BY <5>2, <6>1
        <5>4. Len(items) - 1 \in answers'
          BY <5>2 DEF BuildStep
        <5>5. items[k].ord < -1 => Several'
          BY <5>3, <5>4 DEF Several
        <5>6. wire'[m].tx < at'
          BY <1>1, <1>2, <3>2, <4>1
        <5>7. QED
          BY <3>2, <5>2, <5>5, <5>6
      <4>4. QED
        BY <4>1, <4>2, <4>3
    <3>3. QED
      BY <1>3, <3>1, <3>2, SentPlaces
  <2>2. QED
    BY <2>1 DEF WireBehind
<1>8. QED
  BY <1>4, <1>5, <1>6, <1>7 DEF InlineInv

LEMMA AddTxInv ==
  ASSUME InlineInv, AddTx
  PROVE  /\ InlineInv' /\ Len(txs') = Len(txs) + 1
         /\ \A i \in 1 .. Len(txs) : txs'[i] = txs[i]
<1>1. PICK size \in 1 .. MaxSize, relevant \in BOOLEAN, new \in {0, 1} :
        /\ txs = <<>> => new = 1
        /\ txs' = Append(txs,
            [block    |-> new + (IF txs = <<>> THEN 0 ELSE Last(txs).block),
             start    |-> NextStart,
             end      |-> NextStart + size,
             relevant |-> relevant])
  BY DEF AddTx
<1>2. /\ Len(txs) < MaxTxs
      /\ UNCHANGED <<at, pos, fromCursor, wire, cursor, covered, answers, drops, failures>>
  BY DEF AddTx
<1> DEFINE b == new + (IF txs = <<>> THEN 0 ELSE Last(txs).block)
           t == [block |-> b, start |-> NextStart, end |-> NextStart + size, relevant |-> relevant]
<1>3. /\ b \in 1 .. Len(txs) + 1 /\ NextStart \in Nat
      /\ \A i \in 1 .. Len(txs) : txs[i].end <= NextStart
  <2>1. CASE txs = <<>>
    <3>1. Len(txs) = 0
      BY <2>1, EmptySeq
    <3>2. QED
      BY <1>1, <2>1, <3>1 DEF NextStart
  <2>2. CASE txs # <<>>
    <3>1. Last(txs) = txs[Len(txs)] /\ Len(txs) \in 1 .. Len(txs)
      BY <2>2, InlineElements, EmptySeq DEF Last
    <3>2. /\ Last(txs) \in Tx /\ Last(txs).block <= Len(txs) /\ Last(txs).start < Last(txs).end
      BY <3>1, InlineElements DEF InlineInv, TxsInOrder
    <3>3. Last(txs).block \in Nat \ {0} /\ Last(txs).start \in Nat /\ Last(txs).end \in Nat
      BY <3>2 DEF Tx
    <3>4. ASSUME NEW i \in 1 .. Len(txs)
          PROVE  txs[i].end <= Last(txs).end
      <4>1. CASE i = Len(txs)
        BY <3>1, <3>3, <4>1
      <4>2. CASE i < Len(txs)
        <5>1. txs[i].end <= Last(txs).start
          BY <3>1, <4>2 DEF InlineInv, TxsInOrder
        <5>2. txs[i].end \in Nat
          BY InlineElements DEF Tx
        <5>3. QED
          BY <3>2, <3>3, <5>1, <5>2
      <4>3. QED
        BY <4>1, <4>2, InlineElements
    <3>5. QED
      BY <1>1, <2>2, <3>1, <3>2, <3>3, <3>4, InlineElements DEF NextStart
  <2>3. QED
    BY <2>1, <2>2
<1>4. /\ t \in Tx /\ t.block <= Len(txs) + 1 /\ t.start = NextStart
      /\ t.end = NextStart + size /\ t.start < t.end
  <2>1. size \in Nat /\ size > 0
    BY InlineBounds
  <2>2. b \in 1 .. MaxTxs
    BY <1>2, <1>3, InlineElements, InlineBounds
  <2>3. NextStart + size \in Nat
    BY <1>3, <2>1
  <2>4. QED
    BY <1>3, <2>1, <2>2, <2>3 DEF Tx
<1>5. txs' = Append(txs, t)
  BY <1>1
<1> HIDE DEF t, b
<1>6. /\ txs' \in Seq(Tx) /\ Len(txs') = Len(txs) + 1 /\ txs'[Len(txs) + 1] = t
      /\ \A i \in 1 .. Len(txs) : txs'[i] = txs[i]
  BY <1>4, <1>5, AppendProperties, InlineElements
<1>7. \A i \in 1 .. Len(txs') : i \in 1 .. Len(txs) \/ i = Len(txs) + 1
  BY <1>6, InlineElements
<1>8. TxsInOrder'
  <2>1. Len(txs') <= MaxTxs
    BY <1>2, <1>6, InlineElements, InlineBounds
  <2>2. \A i \in 1 .. Len(txs') : txs'[i].block <= i /\ txs'[i].start < txs'[i].end
    BY <1>4, <1>6, <1>7 DEF InlineInv, TxsInOrder
  <2>3. ASSUME NEW i \in 1 .. Len(txs'), NEW j \in 1 .. Len(txs'), i < j
        PROVE  txs'[i].end <= txs'[j].start
    <3>1. i \in 1 .. Len(txs)
      BY <1>6, <2>3, InlineElements
    <3>2. CASE j \in 1 .. Len(txs)
      BY <1>6, <2>3, <3>1, <3>2 DEF InlineInv, TxsInOrder
    <3>3. CASE j = Len(txs) + 1
      BY <1>3, <1>4, <1>6, <3>1, <3>3
    <3>4. QED
      BY <1>7, <3>2, <3>3
  <2>4. QED
    BY <2>1, <2>2, <2>3 DEF TxsInOrder
<1>9. InlineTypeOK'
  BY <1>2, <1>6 DEF InlineInv, InlineTypeOK
<1>10. StreamBehind'
  <2>1. pos >= 0 => at - 1 \in 1 .. Len(txs)
    BY InlineElements DEF InlineInv, StreamBehind
  <2>2. QED
    BY <1>2, <1>6, <2>1, InlineElements DEF InlineInv, StreamBehind
<1>11. WireBehind'
  <2>1. \A n \in 1 .. Len(wire) : txs'[wire[n].tx] = txs[wire[n].tx]
    BY <1>6, InlineElements
  <2>2. QED
    BY <1>2, <2>1 DEF InlineInv, WireBehind, Several
<1>12. CursorSent(cursor)' /\ CursorSent(fromCursor)' /\ FirstConnection'
  BY <1>2, <1>6, InlineElements DEF InlineInv, CursorSent, FirstConnection, Several
<1>13. QED
  BY <1>6, <1>8, <1>9, <1>10, <1>11, <1>12 DEF InlineInv

\* The stream starts at the cursor's transaction or before it.
LEMMA StartOf ==
  ASSUME InlineInv, NEW k \in DOMAIN txs \cup {1}, StartsWith(k)
  PROVE  /\ k \in 1 .. Len(txs) + 1
         /\ IF cursor = NoCursor THEN k = 1 ELSE k <= cursor[1] /\ k \in 1 .. Len(txs)
<1>1. DOMAIN txs = 1 .. Len(txs) /\ Len(txs) \in Nat
  BY InlineElements, LenProperties
<1>2. CASE cursor = NoCursor
  BY <1>1, <1>2 DEF StartsWith
<1>3. CASE cursor # NoCursor
  <2>1. cursor[1] \in 1 .. Len(txs)
    BY <1>3 DEF InlineInv, CursorSent
  <2>2. k \in 1 .. Len(txs)
    BY <1>1, <2>1
  <2>3. txs[cursor[1]].block \in Nat
    <3>1. txs[cursor[1]] \in Tx
      BY <2>1, InlineElements
    <3>2. QED
      BY <3>1, InlineBounds DEF Tx
  <2>4. ~(cursor[1] < k)
    <3>1. SUFFICES ASSUME cursor[1] < k
                   PROVE  FALSE
      OBVIOUS
    <3>2. cursor[1] \in 1 .. k - 1
      BY <1>1, <2>1, <2>2, <3>1
    <3>3. QED
      BY <1>3, <2>3, <3>2 DEF StartsWith
  <2>5. QED
    BY <1>1, <1>3, <2>1, <2>2, <2>4
<1>4. QED
  BY <1>2, <1>3

LEMMA InlineConnectInv ==
  ASSUME InlineInv, Connect
  PROVE  InlineInv'
<1>1. PICK k \in DOMAIN txs \cup {1} : StartsWith(k) /\ at' = k
  BY DEF Connect
<1>2. /\ at = 0 /\ pos' = -1 /\ fromCursor' = cursor
      /\ UNCHANGED <<txs, wire, cursor, covered, answers, drops, failures>>
  BY DEF Connect
<1>3. k \in 1 .. Len(txs) + 1
  BY <1>1, StartOf
<1>4. Len(txs) \in Nat /\ Len(txs) <= MaxTxs
  BY InlineElements DEF InlineInv, TxsInOrder
<1>5. InlineTypeOK'
  <2>1. at' \in 0 .. MaxTxs + 1
    BY <1>1, <1>3, <1>4, InlineBounds
  <2>2. QED
    BY <1>2, <2>1 DEF InlineInv, InlineTypeOK
<1>6. StreamBehind'
  BY <1>1, <1>2, <1>3, <1>4 DEF StreamBehind
<1>7. WireBehind'
  <2>1. wire' = <<>>
    BY <1>2 DEF InlineInv, StreamBehind
  <2>2. Len(wire') = 0
    BY <2>1, EmptySeq
  <2>3. QED
    BY <2>2 DEF WireBehind
<1>8. TxsInOrder' /\ CursorSent(cursor)' /\ CursorSent(fromCursor)'
  BY <1>2 DEF InlineInv, TxsInOrder, CursorSent, Several
<1>9. FirstConnection'
  BY <1>1, <1>2, <1>3, <1>4 DEF InlineInv, FirstConnection
<1>10. QED
  BY <1>5, <1>6, <1>7, <1>8, <1>9 DEF InlineInv

\* What Apply takes from the wire, and what it does to the tree.
LEMMA ApplyShape ==
  ASSUME InlineInv, Apply
  PROVE  /\ Head(wire) = wire[1] /\ 1 \in 1 .. Len(wire) /\ wire[1] \in Item
         /\ wire' \in Seq(Item) /\ Len(wire') = Len(wire) - 1
         /\ \A k \in 1 .. Len(wire') : wire'[k] = wire[k + 1] /\ k + 1 \in 1 .. Len(wire)
         /\ covered' = covered \cup Indices(wire[1]) /\ cursor' = <<wire[1].tx, wire[1].ord>>
         /\ UNCHANGED <<txs, at, pos, fromCursor, answers, drops, failures>>
<1>1. wire # <<>> /\ wire' = Tail(wire)
  BY DEF Apply
<1>2. /\ Head(wire) = wire[1] /\ 1 \in 1 .. Len(wire)
      /\ wire' \in Seq(Item) /\ Len(wire') = Len(wire) - 1
      /\ \A k \in 1 .. Len(wire') : wire'[k] = wire[k + 1]
  BY <1>1, InlineElements, HeadTailProperties, EmptySeq
<1>3. \A k \in 1 .. Len(wire') : k + 1 \in 1 .. Len(wire)
  BY <1>2, InlineElements
<1>4. wire[1] \in Item
  BY <1>2, InlineElements
<1>5. QED
  BY <1>2, <1>3, <1>4 DEF Apply

LEMMA InlineApplyInv ==
  ASSUME InlineInv, Apply
  PROVE  InlineInv'
<1>1. /\ 1 \in 1 .. Len(wire) /\ wire[1] \in Item
      /\ wire' \in Seq(Item)
      /\ \A k \in 1 .. Len(wire') : wire'[k] = wire[k + 1] /\ k + 1 \in 1 .. Len(wire)
      /\ covered' = covered \cup Indices(wire[1]) /\ cursor' = <<wire[1].tx, wire[1].ord>>
      /\ UNCHANGED <<txs, at, pos, fromCursor, answers, drops, failures>>
  BY ApplyShape
<1>2. /\ wire[1].tx \in 1 .. Len(txs) /\ wire[1].tx \in 1 .. MaxTxs
      /\ wire[1].ord \in Int /\ wire[1].ord # 0
      /\ wire[1].kind \in {"update", "tx", "other"}
      /\ wire[1].kind = "update" => wire[1].first \in Nat /\ wire[1].last \in Nat
  BY <1>1, InlineElements, ItemFields
<1>3. Indices(wire[1]) \subseteq Nat
  <2>1. txs[wire[1].tx].start \in Nat /\ txs[wire[1].tx].end \in Nat
    BY <1>2, InlineElements DEF Tx
  <2>2. QED
    BY <1>2, <2>1 DEF Indices
<1>4. cursor' \in (0 .. MaxTxs) \X Int /\ cursor'[1] = wire[1].tx /\ cursor'[2] = wire[1].ord
  BY <1>1, <1>2, InlineBounds
<1>5. InlineTypeOK'
  BY <1>1, <1>3, <1>4 DEF InlineInv, InlineTypeOK
<1>6. at # 0
  <2>1. wire # <<>>
    BY DEF Apply
  <2>2. QED
    BY <2>1 DEF InlineInv, StreamBehind
<1>7. StreamBehind' /\ TxsInOrder' /\ CursorSent(fromCursor)' /\ FirstConnection'
  BY <1>1, <1>6 DEF InlineInv, StreamBehind, TxsInOrder, CursorSent, FirstConnection, Several
<1>8. CursorSent(cursor)'
  BY <1>1, <1>2, <1>4 DEF InlineInv, WireBehind, CursorSent, Several
<1>9. WireBehind'
  BY <1>1 DEF InlineInv, WireBehind, Several
<1>10. QED
  BY <1>5, <1>7, <1>8, <1>9 DEF InlineInv

LEMMA InlineDropInv ==
  ASSUME InlineInv, Drop
  PROVE  InlineInv'
<1>1. /\ drops < MaxDrops /\ drops' = drops + 1 /\ at' = 0 /\ pos' = -1
      /\ fromCursor' = NoCursor /\ wire' = <<>>
      /\ UNCHANGED <<txs, cursor, covered, answers, failures>>
  BY DEF Drop
<1>2. Len(wire') = 0 /\ wire' \in Seq(Item)
  BY <1>1, EmptySeq
<1>3. NoCursor \in (0 .. MaxTxs) \X Int /\ NoCursor[2] = 0
  BY InlineBounds DEF NoCursor
<1>4. drops' \in 0 .. MaxDrops /\ drops' # 0 /\ at' \in 0 .. MaxTxs + 1
  BY <1>1, InlineBounds DEF InlineInv, InlineTypeOK
<1>5. InlineTypeOK'
  BY <1>1, <1>2, <1>3, <1>4 DEF InlineInv, InlineTypeOK
<1>6. StreamBehind' /\ WireBehind' /\ FirstConnection'
  BY <1>1, <1>2, <1>4, InlineElements DEF StreamBehind, WireBehind, FirstConnection
<1>7. TxsInOrder' /\ CursorSent(cursor)' /\ CursorSent(fromCursor)'
  BY <1>1, <1>3 DEF InlineInv, TxsInOrder, CursorSent, Several
<1>8. QED
  BY <1>5, <1>6, <1>7 DEF InlineInv

LEMMA InlineInitInv == InlineInit => InlineInv
<1> SUFFICES ASSUME InlineInit
             PROVE  InlineInv
  OBVIOUS
<1>1. /\ txs = <<>> /\ at = 0 /\ pos = -1 /\ fromCursor = NoCursor /\ wire = <<>>
      /\ cursor = NoCursor /\ covered = {} /\ answers = {} /\ drops = 0 /\ failures = 0
  BY DEF InlineInit
<1>2. Len(txs) = 0 /\ Len(wire) = 0 /\ txs \in Seq(Tx) /\ wire \in Seq(Item)
  BY <1>1, EmptySeq
<1>3. NoCursor \in (0 .. MaxTxs) \X Int /\ NoCursor[2] = 0
  BY InlineBounds DEF NoCursor
<1>4. InlineTypeOK
  BY <1>1, <1>2, <1>3, InlineBounds DEF InlineTypeOK
<1>5. TxsInOrder /\ StreamBehind /\ WireBehind /\ FirstConnection
  BY <1>1, <1>2, InlineBounds DEF TxsInOrder, StreamBehind, WireBehind, FirstConnection
<1>6. CursorSent(cursor) /\ CursorSent(fromCursor)
  BY <1>1, <1>3 DEF CursorSent
<1>7. QED
  BY <1>4, <1>5, <1>6 DEF InlineInv

LEMMA InlineStepInv == InlineInv /\ [InlineNext]_inlineVars => InlineInv'
<1> SUFFICES ASSUME InlineInv, [InlineNext]_inlineVars
             PROVE  InlineInv'
  OBVIOUS
<1>1. CASE Stream
  BY <1>1, StreamBuilds, BuildInv
<1>2. CASE AddTx \/ Connect \/ Apply \/ Drop
  BY <1>2, AddTxInv, InlineConnectInv, InlineApplyInv, InlineDropInv
<1>3. CASE UNCHANGED inlineVars
  BY <1>3 DEF inlineVars, InlineInv, InlineTypeOK, TxsInOrder, StreamBehind, WireBehind,
     CursorSent, FirstConnection, Several
<1>4. QED
  BY <1>1, <1>2, <1>3 DEF InlineNext

THEOREM InlineInvariant == InlineSpec => []InlineInv
  BY InlineInitInv, InlineStepInv, PTL DEF InlineSpec

THEOREM InlineTypeCorrect == InlineSpec => []InlineTypeOK
<1>1. InlineInv => InlineTypeOK
  BY DEF InlineInv
<1>2. QED
  BY <1>1, InlineInvariant, PTL

-----------------------------------------------------------------------------
(* What is in the tree when an item comes.                                 *)

\* The tree when the first k - 1 of some items have come after all of the wire.
Prior(items, k) == Before(Len(wire) + 1) \cup UNION {Indices(items[j]) : j \in 1 .. k - 1}

LEMMA SentBefore ==
  ASSUME InlineInv, NEW items \in Seq(Item), NEW n, SentFrom(items, n), UNCHANGED <<txs, covered>>
  PROVE  /\ \A m \in 1 .. Len(wire) + 1 : Before(m)' = Before(m)
         /\ \A k \in n .. Len(items) + 1 : \A p \in Nat :
              p = Len(wire) + k + 1 - n => Before(p)' \subseteq Prior(items, k)
         /\ (\A j \in 1 .. n - 1 : Indices(items[j]) \subseteq covered) =>
              \A k \in n .. Len(items) + 1 : \A p \in Nat :
                p = Len(wire) + k + 1 - n => Prior(items, k) \subseteq Before(p)'
<1>1. /\ Len(items) \in Nat /\ Len(wire) \in Nat /\ n \in 1 .. Len(items) + 1
      /\ \A k \in 1 .. Len(wire) : wire'[k] = wire[k]
      /\ \A k \in n .. Len(items) : wire'[Len(wire) + k + 1 - n] = items[k]
  BY InlineElements, LenProperties DEF SentFrom
<1>2. \A item : Indices(item)' = Indices(item)
  BY IndicesStay
<1>3. \A k \in 1 .. Len(wire) : Indices(wire[k])' = Indices(wire[k])
  BY <1>1, <1>2
<1>4. ASSUME NEW m \in 1 .. Len(wire) + 1
      PROVE  Before(m)' = Before(m)
  <2>1. \A k \in 1 .. m - 1 : k \in 1 .. Len(wire)
    BY <1>1
  <2>2. QED
    BY <1>3, <2>1 DEF Before
<1>5. ASSUME NEW k \in n .. Len(items) + 1, NEW p \in Nat, p = Len(wire) + k + 1 - n,
             NEW x \in Before(p)'
      PROVE  x \in Prior(items, k)
  <2>1. CASE x \in covered
    BY <2>1 DEF Prior, Before
  <2>2. ASSUME NEW m \in 1 .. p - 1, x \in Indices(wire[m])'
        PROVE  x \in Prior(items, k)
    <3>1. CASE m <= Len(wire)
      <4>1. m \in 1 .. Len(wire) /\ m \in 1 .. Len(wire) + 1 - 1
        BY <1>1, <3>1
      <4>2. x \in Indices(wire[m])
        BY <1>3, <2>2, <4>1
      <4>3. QED
        BY <4>1, <4>2 DEF Prior, Before
    <3>2. CASE m > Len(wire)
      <4>1. PICK j \in n .. Len(items) : m = Len(wire) + j + 1 - n /\ j \in 1 .. k - 1
        <5>1. m - Len(wire) - 1 + n \in n .. Len(items)
          BY <1>1, <1>5, <3>2
        <5>2. m = Len(wire) + (m - Len(wire) - 1 + n) + 1 - n
          BY <1>1
        <5>3. m - Len(wire) - 1 + n \in 1 .. k - 1
          BY <1>1, <1>5, <3>2
        <5>4. QED
          BY <5>1, <5>2, <5>3
      <4>2. wire'[m] = items[j]
        BY <1>1, <4>1
      <4>3. x \in Indices(items[j])
        BY <1>2, <2>2, <4>2
      <4>4. QED
        BY <4>1, <4>3 DEF Prior
    <3>3. QED
      BY <1>1, <3>1, <3>2
  <2>3. QED
    BY <1>5, <2>1, <2>2 DEF Before
<1>6. ASSUME \A j \in 1 .. n - 1 : Indices(items[j]) \subseteq covered,
             NEW k \in n .. Len(items) + 1, NEW p \in Nat, p = Len(wire) + k + 1 - n,
             NEW x \in Prior(items, k)
      PROVE  x \in Before(p)'
  <2>1. ASSUME x \in covered
        PROVE  x \in Before(p)'
    BY <2>1 DEF Before
  <2>2. ASSUME NEW m \in 1 .. Len(wire), x \in Indices(wire[m])
        PROVE  x \in Before(p)'
    <3>1. m \in 1 .. p - 1 /\ x \in Indices(wire[m])'
      BY <1>1, <1>3, <1>6, <2>2
    <3>2. QED
      BY <3>1 DEF Before
  <2>3. ASSUME NEW j \in 1 .. k - 1, x \in Indices(items[j])
        PROVE  x \in Before(p)'
    <3>1. CASE j < n
      <4>1. j \in 1 .. n - 1
        BY <1>1, <3>1
      <4>2. QED
        BY <1>6, <2>1, <2>3, <4>1
    <3>2. CASE j >= n
      <4>1. j \in n .. Len(items)
        BY <1>1, <3>2
      <4>2. PICK q \in 1 .. p - 1 : q = Len(wire) + j + 1 - n
        <5>1. p = Len(wire) + k + 1 - n
          BY <1>6
        <5>2. Len(wire) + j + 1 - n \in 1 .. p - 1
          BY <1>1, <3>2, <5>1
        <5>3. QED
          BY <5>2
      <4>3. wire'[q] = items[j]
        BY <1>1, <4>1, <4>2
      <4>4. x \in Indices(wire[q])'
        BY <1>2, <2>3, <4>3
      <4>5. QED
        BY <4>2, <4>4 DEF Before
    <3>3. QED
      BY <1>1, <3>1, <3>2
  <2>4. x \in covered \/ (\E m \in 1 .. Len(wire) + 1 - 1 : x \in Indices(wire[m]))
          \/ \E j \in 1 .. k - 1 : x \in Indices(items[j])
    BY <1>6 DEF Prior, Before
  <2>5. Len(wire) + 1 - 1 = Len(wire)
    BY <1>1
  <2>6. QED
    BY <2>1, <2>2, <2>3, <2>4, <2>5
<1>7. QED
  BY <1>4, <1>5, <1>6

\* The tree grows with the position on the wire.
LEMMA BeforeGrows ==
  ASSUME NEW m \in Nat, NEW n \in Nat, m <= n
  PROVE  Before(m) \subseteq Before(n) /\ covered \subseteq Before(m)
<1>1. 1 .. m - 1 \subseteq 1 .. n - 1
  OBVIOUS
<1>2. QED
  BY <1>1 DEF Before

LEMMA BeforeNext ==
  ASSUME NEW m \in Nat \ {0}
  PROVE  Before(m + 1) = Before(m) \cup Indices(wire[m])
<1>1. 1 .. m + 1 - 1 = (1 .. m - 1) \cup {m}
  OBVIOUS
<1>2. QED
  BY <1>1 DEF Before

\* An item that is applied was the first before each of the others.
LEMMA BeforeApply ==
  ASSUME InlineInv, Apply, NEW m \in 1 .. Len(wire)
  PROVE  Before(m)' = Before(m + 1)
<1>1. /\ 1 \in 1 .. Len(wire) /\ Len(wire') = Len(wire) - 1 /\ Len(wire) \in Nat
      /\ \A k \in 1 .. Len(wire') : wire'[k] = wire[k + 1] /\ k + 1 \in 1 .. Len(wire)
      /\ covered' = covered \cup Indices(wire[1]) /\ txs' = txs
  BY ApplyShape, InlineElements
<1>2. \A item : Indices(item)' = Indices(item)
  BY <1>1, IndicesStay
<1>3. \A k \in 1 .. m - 1 : k \in 1 .. Len(wire') /\ k + 1 \in 1 .. m + 1 - 1
  BY <1>1
<1>4. \A k \in 1 .. m - 1 : Indices(wire[k])' = Indices(wire[k + 1])
  BY <1>1, <1>2, <1>3
<1>5. 1 \in 1 .. m + 1 - 1
  OBVIOUS
<1>6. ASSUME NEW k \in 1 .. m + 1 - 1
      PROVE  k = 1 \/ (k - 1 \in 1 .. m - 1 /\ (k - 1) + 1 = k)
  OBVIOUS
<1>7. ASSUME NEW x \in Before(m + 1)
      PROVE  x \in Before(m)'
  <2>1. CASE x \in covered
    BY <1>1, <2>1 DEF Before
  <2>2. ASSUME NEW k \in 1 .. m + 1 - 1, x \in Indices(wire[k])
        PROVE  x \in Before(m)'
    <3>1. CASE k = 1
      BY <1>1, <2>2, <3>1 DEF Before
    <3>2. CASE k - 1 \in 1 .. m - 1 /\ (k - 1) + 1 = k
      <4>1. x \in Indices(wire[k - 1])'
        BY <1>4, <2>2, <3>2
      <4>2. QED
        BY <3>2, <4>1 DEF Before
    <3>3. QED
      BY <1>6, <3>1, <3>2
  <2>3. QED
    BY <1>7, <2>1, <2>2 DEF Before
<1>8. Before(m)' \subseteq Before(m + 1)
  BY <1>1, <1>3, <1>4, <1>5 DEF Before
<1>9. QED
  BY <1>7, <1>8

\* The position is at most the start of what is built next, and what the items
\* bring lies between the two, or is the transaction's own.
LEMMA PosFits ==
  ASSUME InlineInv, CanBuild
  PROVE  pos <= T.start /\ (pos < 0 \/ FromIndex = pos) /\ pos \in Int
<1>1. /\ at \in 1 .. Len(txs) /\ Len(txs) \in Nat /\ T.start \in Nat /\ (pos = -1 \/ pos \in Nat)
  BY BuildTypes, InlineElements
<1>2. ASSUME pos >= 0
      PROVE  pos <= T.start
  <2>1. at > 1 /\ pos <= txs[at - 1].end
    BY <1>2 DEF InlineInv, StreamBehind
  <2>2. at - 1 \in 1 .. Len(txs) /\ at - 1 < at
    BY <1>1, <2>1
  <2>3. txs[at - 1].end <= txs[at].start
    BY <1>1, <2>2 DEF InlineInv, TxsInOrder
  <2>4. txs[at - 1].end \in Nat
    BY <2>2, InlineElements DEF Tx
  <2>5. QED
    BY <1>1, <2>1, <2>3, <2>4 DEF T
<1>3. QED
  BY <1>1, <1>2 DEF FromIndex

\* The last item of a relevant transaction brings its commitments, any other
\* last item nothing.
LEMMA OwnIndices ==
  ASSUME InlineInv, CanBuild, NEW items \in Seq(Item), Built(items)
  PROVE  Indices(items[Len(items)]) = IF T.relevant THEN T.start .. T.end - 1 ELSE {}
<1>1. items[Len(items)].tx = at
  <2>1. Len(items) \in 1 .. Len(items)
    BY DEF Built
  <2>2. QED
    BY <2>1 DEF Built
<1>2. IF T.relevant THEN items[Len(items)].kind = "tx" ELSE items[Len(items)].kind = "other"
  BY DEF Built
<1>3. QED
  BY <1>1, <1>2 DEF Indices, T

\* The updates tile the gap between position and transaction.
LEMMA UpdatesTile ==
  ASSUME InlineInv, CanBuild, NEW items \in Seq(Item), Built(items)
  PROVE  /\ \A k \in 1 .. Len(items) - 1 : Indices(items[k]) \subseteq FromIndex .. T.start - 1
         /\ Len(items) > 1 =>
              UNION {Indices(items[k]) : k \in 1 .. Len(items) - 1} = FromIndex .. T.start - 1
         /\ \A k \in 1 .. Len(items) - 1 : \A j \in 1 .. k - 1 :
              Indices(items[k]) \cap Indices(items[j]) = {}
<1>1. FromIndex \in Nat /\ T.start \in Nat
  BY BuildTypes
<1>2. PICK n \in Nat : n = Len(items) - 1 /\ n + 1 = Len(items)
  BY DEF Built
<1>3. CASE n = 0
  <2>1. 1 .. Len(items) - 1 = {} /\ ~(Len(items) > 1)
    BY <1>2, <1>3
  <2>2. QED
    BY <2>1
<1>4. CASE n > 0
  <2>1. PICK b : Tiling(items, b, n)
    BY <1>2, <1>4 DEF Built
  <2>2. /\ b \in [0 .. n -> Nat] /\ b[0] = FromIndex /\ b[n] = T.start
        /\ \A i, j \in 0 .. n : i < j => b[i] < b[j]
        /\ \A k \in 1 .. n : Indices(items[k]) = b[k - 1] .. b[k] - 1
    BY <2>1 DEF Tiling
  <2>3. \A i, j \in 0 .. n : i <= j => b[i] <= b[j] /\ b[i] \in Nat /\ b[j] \in Nat
    <3>1. TAKE i, j \in 0 .. n
    <3>2. b[i] \in Nat /\ b[j] \in Nat /\ (i < j => b[i] < b[j])
      BY <2>2
    <3>3. PICK x \in Nat, y \in Nat : x = b[i] /\ y = b[j]
      BY <3>2
    <3>4. CASE i < j
      BY <3>2, <3>3, <3>4
    <3>5. CASE i = j
      BY <3>2, <3>3, <3>5
    <3>6. i <= j => i < j \/ i = j
      OBVIOUS
    <3>7. QED
      BY <3>2, <3>4, <3>5, <3>6
  <2>4. ASSUME NEW k \in 1 .. n
        PROVE  Indices(items[k]) \subseteq FromIndex .. T.start - 1
    <3>1. k - 1 \in 0 .. n /\ k \in 0 .. n /\ 0 \in 0 .. n /\ n \in 0 .. n /\ 0 <= k - 1 /\ k <= n
      BY <1>2
    <3>2. b[0] <= b[k - 1] /\ b[k] <= b[n] /\ b[k - 1] \in Nat /\ b[k] \in Nat
      BY <2>3, <3>1
    <3>3. QED
      BY <1>1, <2>2, <3>2
  <2>5. ASSUME NEW k \in 1 .. n, NEW j \in 1 .. k - 1
        PROVE  Indices(items[k]) \cap Indices(items[j]) = {}
    <3>1. j \in 1 .. n /\ j \in 0 .. n /\ j - 1 \in 0 .. n /\ k \in 0 .. n /\ k - 1 \in 0 .. n /\ j <= k - 1
      BY <1>2
    <3>2. b[j] <= b[k - 1] /\ b[j] \in Nat /\ b[k - 1] \in Nat /\ b[k] \in Nat /\ b[j - 1] \in Nat
      BY <2>2, <2>3, <3>1
    <3>3. QED
      BY <2>2, <3>1, <3>2
  <2>6. ASSUME NEW x \in FromIndex .. T.start - 1
        PROVE  \E k \in 1 .. n : x \in Indices(items[k])
    <3> DEFINE above == {k \in 0 .. n : x < b[k]}
    <3>1. above \in SUBSET Nat /\ n \in above
      BY <1>1, <1>2, <2>2
    <3>2. PICK k \in above : \A l \in above : k <= l
      BY <3>1, LeastOf
    <3>3. k \in 0 .. n /\ x < b[k] /\ k # 0
      BY <1>1, <2>2
    <3>4. k \in 1 .. n /\ k - 1 \in 0 .. n
      BY <1>2, <3>3
    <3>5. ~(x < b[k - 1])
      <4>1. ~(k <= k - 1)
        BY <3>3
      <4>2. QED
        BY <3>2, <3>4, <4>1
    <3>6. x \in b[k - 1] .. b[k] - 1
      <4>1. b[k - 1] \in Nat /\ b[k] \in Nat /\ x \in Nat
        BY <1>1, <2>2, <3>3, <3>4
      <4>2. QED
        BY <3>3, <3>5, <4>1
    <3>7. QED
      BY <2>2, <3>4, <3>6
  <2>7. 1 .. Len(items) - 1 = 1 .. n
    BY <1>2
  <2>8. UNION {Indices(items[k]) : k \in 1 .. n} = FromIndex .. T.start - 1
    BY <2>4, <2>6
  <2>9. QED
    BY <2>4, <2>5, <2>7, <2>8
<1>5. n = 0 \/ n > 0
  OBVIOUS
<1>6. QED
  BY <1>3, <1>4, <1>5

\* A client that never lost its connection gets every item.
LEMMA AllPass ==
  ASSUME InlineInv, drops = 0, NEW items \in Seq(Item), Built(items), CanBuild,
         NEW n, SentFrom(items, n)
  PROVE  n = 1
<1>1. fromCursor[1] = 0
  BY DEF InlineInv, FirstConnection, NoCursor
<1>2. 1 \in 1 .. Len(items) /\ items[1].tx = at /\ at > 0
  BY BuildTypes DEF Built
<1>3. Passes(items[1])
  BY <1>1, <1>2 DEF Passes
<1>4. 1 >= n /\ n \in 1 .. Len(items) + 1
  BY <1>2, <1>3 DEF SentFrom
<1>5. QED
  BY <1>4

LEMMA GapBuild ==
  ASSUME InlineInv, GapInv, NEW items \in Seq(Item), BuildStep(items)
  PROVE  GapInv'
<1> SUFFICES ASSUME drops = 0
             PROVE  GapInv'
  BY DEF BuildStep, GapInv
<1>1. /\ CanBuild /\ Built(items) /\ UNCHANGED <<txs, covered, drops>>
      /\ pos' = IF T.relevant THEN T.end ELSE pos
  BY DEF BuildStep
<1>2. /\ T.start \in Nat /\ T.end \in Nat /\ T.start < T.end /\ FromIndex \in Nat
      /\ pos <= T.start /\ (pos < 0 \/ FromIndex = pos) /\ pos \in Int
  BY <1>1, BuildTypes, PosFits
<1>3. SentFrom(items, 1)
  BY <1>1, SendShape, AllPass DEF BuildStep
<1>4. Len(items) \in Nat \ {0} /\ Len(wire) \in Nat /\ Len(wire') = Len(wire) + Len(items)
  <2>1. Len(items) \in Nat \ {0} /\ Len(wire) \in Nat
    BY <1>1, InlineElements DEF Built
  <2>2. Len(wire') = Len(wire) + Len(items) + 1 - 1
    BY <1>3 DEF SentFrom
  <2>3. QED
    BY <2>1, <2>2
<1>5. /\ Before(Len(wire) + 1) \subseteq 0 .. pos - 1
      /\ \A m \in 1 .. Len(wire) :
           wire[m].kind = "update" => Indices(wire[m]) \cap Before(m) = {}
  BY DEF GapInv
<1>6. \A m \in 1 .. Len(wire) + 1 : Before(m)' = Before(m)
  BY <1>1, <1>3, SentBefore
<1>7. \A k \in 1 .. Len(items) + 1 : \A p \in Nat :
        p = Len(wire) + k => Before(p)' \subseteq Prior(items, k)
  BY <1>1, <1>3, <1>4, SentBefore
<1>8. \A item : Indices(item)' = Indices(item)
  BY <1>1, IndicesStay
<1>9. \A k \in 1 .. Len(items) : Indices(items[k]) \subseteq 0 .. pos' - 1
  <2>1. TAKE k \in 1 .. Len(items)
  <2>2. CASE k = Len(items)
    BY <1>1, <1>2, <2>2, OwnIndices
  <2>3. CASE k < Len(items)
    <3>1. k \in 1 .. Len(items) - 1 /\ T.relevant
      BY <1>1, <1>4, <2>3 DEF Built
    <3>2. Indices(items[k]) \subseteq FromIndex .. T.start - 1
      BY <1>1, <3>1, UpdatesTile
    <3>3. pos' = T.end
      BY <1>1, <3>1
    <3>4. FromIndex .. T.start - 1 \subseteq 0 .. T.end - 1
      BY <1>2
    <3>5. QED
      BY <3>2, <3>3, <3>4
  <2>4. QED
    BY <1>4, <2>2, <2>3
<1>10. Before(Len(wire) + 1) \subseteq 0 .. pos' - 1
  BY <1>1, <1>2, <1>5
<1>11. (Before(Len(wire) + 1) \subseteq 0 .. pos - 1)'
  <2>1. PICK p \in Nat : p = Len(wire') + 1
    BY <1>4
  <2>2. Before(p)' \subseteq Prior(items, Len(items) + 1)
    BY <1>4, <1>7, <2>1
  <2>3. Prior(items, Len(items) + 1) \subseteq 0 .. pos' - 1
    <3>1. \A j \in 1 .. Len(items) + 1 - 1 : j \in 1 .. Len(items)
      BY <1>4
    <3>2. QED
      BY <1>9, <1>10, <3>1 DEF Prior
  <2>4. QED
    BY <2>1, <2>2, <2>3
<1>12. ASSUME NEW m \in 1 .. Len(wire'), wire'[m].kind = "update"
       PROVE  Indices(wire[m])' \cap Before(m)' = {}
  <2>1. CASE m \in 1 .. Len(wire) /\ wire'[m] = wire[m]
    <3>1. m \in 1 .. Len(wire) + 1
      BY <1>4, <2>1
    <3>2. QED
      BY <1>5, <1>6, <1>8, <1>12, <2>1, <3>1
  <2>2. ASSUME NEW k \in 1 .. Len(items), m = Len(wire) + k, wire'[m] = items[k]
        PROVE  Indices(wire[m])' \cap Before(m)' = {}
    <3>1. k \in 1 .. Len(items) - 1
      <4>1. k # Len(items)
        BY <1>1, <1>12, <2>2 DEF Built
      <4>2. QED
        BY <1>4, <4>1
    <3>2. Indices(items[k]) \subseteq FromIndex .. T.start - 1
      BY <1>1, <3>1, UpdatesTile
    <3>3. Indices(items[k]) \cap Before(Len(wire) + 1) = {}
      BY <1>2, <1>5, <3>2
    <3>4. \A j \in 1 .. k - 1 : Indices(items[k]) \cap Indices(items[j]) = {}
      BY <1>1, <3>1, UpdatesTile
    <3>5. Indices(items[k]) \cap Prior(items, k) = {}
      BY <3>3, <3>4 DEF Prior
    <3>6. Before(m)' \subseteq Prior(items, k)
      BY <1>4, <1>7, <2>2
    <3>7. QED
      BY <1>8, <2>2, <3>5, <3>6
  <2>3. QED
    <3>1. \/ m \in 1 .. Len(wire) /\ wire'[m] = wire[m]
          \/ \E k \in 1 .. Len(items) : m = Len(wire) + k + 1 - 1 /\ wire'[m] = items[k]
      BY <1>3, SentPlaces
    <3>2. \A k \in 1 .. Len(items) : Len(wire) + k + 1 - 1 = Len(wire) + k
      BY <1>4
    <3>3. QED
      BY <2>1, <2>2, <3>1, <3>2
<1>13. QED
  BY <1>11, <1>12 DEF GapInv

LEMMA GapStep == InlineInv /\ GapInv /\ [InlineNext]_inlineVars => GapInv'
<1> SUFFICES ASSUME InlineInv, GapInv, [InlineNext]_inlineVars
             PROVE  GapInv'
  OBVIOUS
<1>1. CASE Stream
  BY <1>1, StreamBuilds, GapBuild
<1>2. CASE AddTx
  <2>1. UNCHANGED <<pos, wire, covered, drops>> /\ \A i \in 1 .. Len(txs) : txs'[i] = txs[i]
    BY <1>2, AddTxInv DEF AddTx
  <2>2. \A m \in Nat : m <= Len(wire) + 1 => Before(m)' = Before(m)
    BY <2>1, BeforeStays
  <2>3. \A m \in 1 .. Len(wire) : Indices(wire[m])' = Indices(wire[m])
    BY <2>1, InlineElements, IndicesStay
  <2>4. Len(wire) \in Nat /\ wire' = wire
    BY <2>1, InlineElements
  <2>5. PICK p \in Nat : p = Len(wire) + 1 /\ p = Len(wire') + 1
    BY <2>4
  <2>6. Before(p)' = Before(p)
    BY <2>2, <2>4, <2>5
  <2>7. \A m \in 1 .. Len(wire) : Before(m)' = Before(m)
    BY <2>2, <2>4
  <2>8. QED
    BY <2>1, <2>3, <2>4, <2>5, <2>6, <2>7 DEF GapInv
<1>3. CASE Connect
  <2>1. /\ UNCHANGED <<txs, wire, covered, drops>> /\ at = 0 /\ pos' = -1
        /\ drops = 0 => covered = {}
    BY <1>3 DEF Connect, InlineInv, FirstConnection
  <2>2. wire' = <<>>
    BY <2>1 DEF InlineInv, StreamBehind
  <2>3. Len(wire') = 0 /\ 1 .. Len(wire') + 1 - 1 = {}
    BY <2>2, EmptySeq
  <2>4. drops' = 0 => Before(Len(wire) + 1)' = {}
    BY <2>1, <2>3 DEF Before
  <2>5. QED
    BY <2>3, <2>4 DEF GapInv
<1>4. CASE Apply
  <2>1. /\ Len(wire) \in Nat /\ Len(wire') = Len(wire) - 1 /\ 1 \in 1 .. Len(wire)
        /\ \A k \in 1 .. Len(wire') : wire'[k] = wire[k + 1] /\ k + 1 \in 1 .. Len(wire)
        /\ UNCHANGED <<txs, pos, drops>>
    BY <1>4, ApplyShape, InlineElements
  <2>2. \A m \in 1 .. Len(wire) : Before(m)' = Before(m + 1)
    BY <1>4, BeforeApply
  <2>3. \A item : Indices(item)' = Indices(item)
    BY <2>1, IndicesStay
  <2>4. PICK p \in 1 .. Len(wire) : p = Len(wire) /\ p = Len(wire') + 1
    BY <2>1
  <2>5. Before(p)' = Before(p + 1)
    BY <2>2
  <2>6. \A m \in 1 .. Len(wire') : m \in 1 .. Len(wire)
    BY <2>1
  <2>7. QED
    BY <2>1, <2>2, <2>3, <2>4, <2>5, <2>6 DEF GapInv
<1>5. CASE Drop
  <2>1. drops' # 0
    BY <1>5 DEF Drop, InlineInv, InlineTypeOK
  <2>2. QED
    BY <2>1 DEF GapInv
<1>6. CASE UNCHANGED inlineVars
  <2>1. UNCHANGED <<txs, pos, wire, covered, drops>>
    BY <1>6 DEF inlineVars
  <2>2. \A m \in Nat : m <= Len(wire) + 1 => Before(m)' = Before(m)
    BY <2>1, BeforeStays
  <2>3. \A m \in 1 .. Len(wire) : Indices(wire[m])' = Indices(wire[m])
    BY <2>1, IndicesStay
  <2>4. PICK p \in Nat : p = Len(wire) + 1 /\ p = Len(wire') + 1
    BY <2>1, InlineElements
  <2>5. Before(p)' = Before(p)
    BY <2>2, <2>4
  <2>6. \A m \in 1 .. Len(wire) : Before(m)' = Before(m)
    BY <2>2, InlineElements
  <2>7. QED
    BY <2>1, <2>3, <2>4, <2>5, <2>6 DEF GapInv
<1>7. QED
  BY <1>1, <1>2, <1>3, <1>4, <1>5, <1>6 DEF InlineNext

\* On one connection an update fills a gap and nothing else, for any number and
\* size of the transactions, whatever fetches fail and however the updates of
\* the cache are cut: the indices the updates of build_block_bundles_tx bring lie
\* between what the client already has and the transaction they precede.
THEOREM UpdatesFillGaps == InlineSpec => []OnlyGaps
<1>1. InlineInit => GapInv
  <2>1. SUFFICES ASSUME InlineInit
                 PROVE  GapInv
    OBVIOUS
  <2>2. wire = <<>> /\ covered = {}
    BY <2>1 DEF InlineInit
  <2>3. Len(wire) = 0 /\ 1 .. Len(wire) + 1 - 1 = {}
    BY <2>2, EmptySeq
  <2>4. QED
    BY <2>2, <2>3 DEF GapInv, Before
<1>2. InlineInv /\ GapInv => OnlyGaps
  <2>1. SUFFICES ASSUME InlineInv, GapInv, drops = 0, wire # <<>>, Head(wire).kind = "update"
                 PROVE  (Head(wire).first .. Head(wire).last) \cap covered = {}
    BY DEF OnlyGaps
  <2>2. Head(wire) = wire[1] /\ 1 \in 1 .. Len(wire)
    BY <2>1, InlineElements, HeadTailProperties, EmptySeq
  <2>3. Indices(wire[1]) \cap Before(1) = {}
    BY <2>1, <2>2 DEF GapInv
  <2>4. covered \subseteq Before(1)
    BY DEF Before
  <2>5. Indices(wire[1]) = wire[1].first .. wire[1].last
    BY <2>1, <2>2 DEF Indices
  <2>6. QED
    BY <2>2, <2>3, <2>4, <2>5
<1>3. QED
  BY <1>1, <1>2, InlineInvariant, GapStep, PTL DEF InlineSpec

-----------------------------------------------------------------------------
(* The tree is complete.                                                   *)

\* What the filter of the stream leaves out is in the client's tree.
LEMMA DroppedAreCovered ==
  ASSUME InlineInv, CursorKept(fromCursor), Several => drops = 0, CanBuild,
         NEW items \in Seq(Item), Built(items),
         NEW j \in 1 .. Len(items), ~Passes(items[j])
  PROVE  Indices(items[j]) \subseteq covered
<1>1. /\ at \in 1 .. Len(txs) /\ T.start \in Nat /\ T.end \in Nat /\ T.start < T.end
      /\ FromIndex \in Nat
  BY BuildTypes
<1>2. fromCursor[1] \in Nat /\ fromCursor[2] \in Int
  BY DEF InlineInv, InlineTypeOK
<1>3. items[j].tx = at /\ Len(items) \in Nat \ {0}
  BY DEF Built
<1>4. at <= fromCursor[1] /\ (at = fromCursor[1] => ~(items[j].ord > fromCursor[2]))
  BY <1>1, <1>2, <1>3, ElementOfSeq, ItemFields DEF Passes
<1>5. fromCursor # NoCursor
  BY <1>1, <1>4 DEF NoCursor
<1>6. fromCursor[2] # 0 /\ ~(fromCursor[2] < -1)
  <2>1. fromCursor[2] # 0
    BY <1>5 DEF InlineInv, CursorSent
  <2>2. fromCursor[2] < -1 => drops = 0
    BY DEF InlineInv, CursorSent
  <2>3. QED
    BY <1>5, <2>1, <2>2 DEF InlineInv, FirstConnection
<1>7. CASE ~T.relevant
  <2>1. Len(items) = 1
    BY <1>7 DEF Built
  <2>2. j = Len(items)
    BY <2>1
  <2>3. QED
    BY <1>7, <2>2, OwnIndices
<1>8. CASE T.relevant /\ 0 .. T.end - 1 \subseteq covered
  <2>1. CASE j = Len(items)
    <3>1. T.start .. T.end - 1 \subseteq 0 .. T.end - 1
      BY <1>1
    <3>2. QED
      BY <1>8, <2>1, <3>1, OwnIndices
  <2>2. CASE j \in 1 .. Len(items) - 1
    <3>1. FromIndex .. T.start - 1 \subseteq 0 .. T.end - 1
      BY <1>1
    <3>2. QED
      BY <1>8, <2>2, <3>1, UpdatesTile
  <2>3. QED
    BY <1>3, <2>1, <2>2
<1>9. CASE T.relevant /\ at < fromCursor[1]
  <2>1. at \in 1 .. fromCursor[1] - 1
    BY <1>1, <1>2, <1>9
  <2>2. 0 .. T.end - 1 \subseteq covered
    BY <1>5, <1>9, <2>1 DEF CursorKept, Complete, T
  <2>3. QED
    BY <1>8, <1>9, <2>2
<1>10. CASE T.relevant /\ at = fromCursor[1]
  <2>1. CASE fromCursor[2] >= OrdTx
    <3>1. 0 .. T.end - 1 \subseteq covered
      BY <1>5, <1>10, <2>1 DEF CursorKept, T
    <3>2. QED
      BY <1>8, <1>10, <3>1
  <2>2. CASE fromCursor[2] = -1
    <3>1. 0 .. T.start - 1 \subseteq covered
      BY <1>5, <1>10, <2>2 DEF CursorKept, T
    <3>2. j # Len(items)
      BY <1>4, <1>10, <2>2 DEF Built, OrdTx
    <3>3. j \in 1 .. Len(items) - 1
      BY <1>3, <3>2
    <3>4. Indices(items[j]) \subseteq FromIndex .. T.start - 1
      BY <3>3, UpdatesTile
    <3>5. FromIndex .. T.start - 1 \subseteq 0 .. T.start - 1
      BY <1>1
    <3>6. QED
      BY <3>1, <3>4, <3>5
  <2>3. fromCursor[2] >= OrdTx \/ fromCursor[2] = -1
    BY <1>2, <1>6 DEF OrdTx
  <2>4. QED
    BY <2>1, <2>2, <2>3
<1>11. QED
  BY <1>1, <1>2, <1>4, <1>7, <1>9, <1>10

\* The updates of a relevant transaction close the gap that the stream has
\* left, if they came.
LEMMA GapIsFilled ==
  ASSUME InlineInv, StreamComplete, CanBuild, T.relevant,
         NEW items \in Seq(Item), Built(items), NeedUpdate => Len(items) > 1
  PROVE  0 .. T.start - 1 \subseteq Prior(items, Len(items))
<1>1. T.start \in Nat /\ FromIndex \in Nat /\ (FromIndex = 0 \/ FromIndex = pos)
  BY BuildTypes
<1>2. 0 .. pos - 1 \subseteq Prior(items, Len(items))
  BY DEF StreamComplete, Prior
<1>3. CASE NeedUpdate
  <2>1. UNION {Indices(items[k]) : k \in 1 .. Len(items) - 1} = FromIndex .. T.start - 1
    BY <1>3, UpdatesTile
  <2>2. FromIndex .. T.start - 1 \subseteq Prior(items, Len(items))
    BY <2>1 DEF Prior
  <2>3. 0 .. T.start - 1 \subseteq (FromIndex .. T.start - 1) \cup (0 .. FromIndex - 1)
    BY <1>1
  <2>4. 0 .. FromIndex - 1 \subseteq Prior(items, Len(items))
    <3>1. CASE FromIndex = 0
      BY <3>1
    <3>2. CASE FromIndex = pos
      BY <1>2, <3>2
    <3>3. QED
      BY <1>1, <3>1, <3>2
  <2>5. QED
    BY <2>2, <2>3, <2>4
<1>4. CASE ~NeedUpdate
  <2>1. pos = -1 \/ pos \in Nat
    BY InlineElements
  <2>2. 0 .. T.start - 1 \subseteq 0 .. pos - 1
    BY <1>1, <1>4, <2>1 DEF NeedUpdate
  <2>3. QED
    BY <1>2, <2>2
<1>5. QED
  BY <1>3, <1>4

LEMMA CompleteMore ==
  ASSUME NEW k, NEW S, NEW R, S \subseteq R, Complete(k, S)
  PROVE  Complete(k, R)
BY DEF Complete

LEMMA BuildSelf ==
  ASSUME InlineInv, SelfInv, NEW items \in Seq(Item), BuildStep(items), UpdatesCame'
  PROVE  CursorKept(cursor)' /\ CursorKept(fromCursor)' /\ WireComplete' /\ StreamComplete'
<1>1. /\ CanBuild /\ Built(items) /\ at' = at + 1
      /\ UNCHANGED <<txs, fromCursor, cursor, covered, drops>>
      /\ pos' = (IF T.relevant THEN T.end ELSE pos)
      /\ answers \subseteq answers' /\ (T.relevant /\ NeedUpdate => Len(items) - 1 \in answers')
  BY DEF BuildStep
<1>2. UpdatesCame
  BY <1>1 DEF UpdatesCame, Several
<1>3. CursorKept(cursor) /\ CursorKept(fromCursor) /\ WireComplete /\ StreamComplete
  BY <1>2 DEF SelfInv
<1>4. /\ at \in 1 .. Len(txs) /\ T.start \in Nat /\ T.end \in Nat /\ T.start < T.end
      /\ Len(wire) \in Nat /\ (pos = -1 \/ pos \in Nat)
  BY <1>1, BuildTypes, InlineElements
<1>5. Len(items) \in Nat /\ Len(items) > 0
  BY <1>1 DEF Built
<1>6. PICK n \in 1 .. Len(items) + 1 : SentFrom(items, n)
  BY SendShape DEF BuildStep
<1>7. \A j \in 1 .. n - 1 : Indices(items[j]) \subseteq covered
  <2>1. TAKE j \in 1 .. n - 1
  <2>2. j \in 1 .. Len(items) /\ ~(j >= n)
    BY <1>5, <1>6
  <2>3. ~Passes(items[j])
    BY <1>6, <2>2 DEF SentFrom
  <2>4. QED
    BY <1>1, <1>2, <1>3, <2>2, <2>3, DroppedAreCovered DEF UpdatesCame
<1>8. /\ \A m \in 1 .. Len(wire) + 1 : Before(m)' = Before(m)
      /\ \A k \in n .. Len(items) + 1 : \A p \in Nat :
           p = Len(wire) + k + 1 - n => Before(p)' = Prior(items, k)
  <2>1. UNCHANGED <<txs, covered>>
    BY <1>1
  <2>2. /\ \A m \in 1 .. Len(wire) + 1 : Before(m)' = Before(m)
        /\ \A k \in n .. Len(items) + 1 : \A p \in Nat :
             p = Len(wire) + k + 1 - n => Before(p)' \subseteq Prior(items, k)
    BY <1>6, <2>1, SentBefore
  <2>3. \A k \in n .. Len(items) + 1 : \A p \in Nat :
          p = Len(wire) + k + 1 - n => Prior(items, k) \subseteq Before(p)'
    BY <1>6, <1>7, <2>1, SentBefore
  <2>4. QED
    BY <2>2, <2>3
<1>9. /\ \A k \in 1 .. Len(wire) : wire'[k] = wire[k]
      /\ Len(wire') = Len(wire) + Len(items) + 1 - n
  BY <1>6 DEF SentFrom
<1>10. Complete(at, Before(Len(wire) + 1)) /\ 0 .. pos - 1 \subseteq Before(Len(wire) + 1)
  BY <1>3 DEF StreamComplete
<1>11. \A k : Before(Len(wire) + 1) \subseteq Prior(items, k) /\ Complete(at, Prior(items, k))
  BY <1>10, CompleteMore DEF Prior
<1>12. T.relevant => 0 .. T.start - 1 \subseteq Prior(items, Len(items))
  <2>1. ASSUME T.relevant, NeedUpdate
        PROVE  Len(items) > 1
    <3>1. Len(items) - 1 \in answers' /\ 0 \notin answers'
      BY <1>1, <2>1 DEF UpdatesCame
    <3>2. PICK l \in Nat : l = Len(items) /\ l > 0 /\ l - 1 # 0
      BY <1>5, <3>1
    <3>3. l > 1
      BY <3>2
    <3>4. QED
      BY <3>2, <3>3
  <2>2. QED
    BY <1>1, <1>3, <2>1, GapIsFilled
<1>13. CursorKept(cursor)' /\ CursorKept(fromCursor)'
  BY <1>1, <1>3 DEF CursorKept, Complete
<1>14. WireComplete'
  <2>1. ASSUME NEW m \in 1 .. Len(wire')
        PROVE  /\ Complete(wire[m].tx, Before(m))'
               /\ wire'[m].kind = "tx" => 0 .. txs'[wire'[m].tx].start - 1 \subseteq Before(m)'
               /\ wire'[m].ord = -1 => 0 .. txs'[wire'[m].tx].start - 1 \subseteq Before(m + 1)'
    <3>1. CASE m \in 1 .. Len(wire) /\ wire'[m] = wire[m]
      <4>1. m \in 1 .. Len(wire) + 1 /\ m + 1 \in 1 .. Len(wire) + 1
        BY <1>4, <3>1
      <4>2. Before(m)' = Before(m) /\ Before(m + 1)' = Before(m + 1)
        <5>1. PICK q \in 1 .. Len(wire) + 1 : q = m + 1
          BY <4>1
        <5>2. Before(q)' = Before(q)
          BY <1>8
        <5>3. QED
          BY <1>8, <4>1, <5>1, <5>2
      <4>3. /\ Complete(wire[m].tx, Before(m))
            /\ wire[m].kind = "tx" => 0 .. txs[wire[m].tx].start - 1 \subseteq Before(m)
            /\ wire[m].ord = -1 => 0 .. txs[wire[m].tx].start - 1 \subseteq Before(m + 1)
        BY <1>3, <3>1 DEF WireComplete
      <4>4. QED
        BY <1>1, <3>1, <4>2, <4>3 DEF Complete
    <3>2. ASSUME NEW k \in n .. Len(items), m = Len(wire) + k + 1 - n, wire'[m] = items[k]
          PROVE  /\ Complete(wire[m].tx, Before(m))'
                 /\ wire'[m].kind = "tx" => 0 .. txs'[wire'[m].tx].start - 1 \subseteq Before(m)'
                 /\ wire'[m].ord = -1 => 0 .. txs'[wire'[m].tx].start - 1 \subseteq Before(m + 1)'
      <4>1. /\ k \in 1 .. Len(items) /\ k \in n .. Len(items) + 1 /\ k + 1 \in n .. Len(items) + 1
            /\ m \in Nat /\ m + 1 \in Nat
        <5>1. PICK L \in Nat : L = Len(items)
          BY <1>5
        <5>2. n \in 1 .. L + 1 /\ k \in n .. L
          BY <1>6, <3>2, <5>1
        <5>3. k \in 1 .. L /\ k \in n .. L + 1 /\ k + 1 \in n .. L + 1
          BY <5>1, <5>2
        <5>4. m \in Nat /\ m + 1 \in Nat
          BY <1>6, LenProperties DEF SentFrom
        <5>5. QED
          BY <5>1, <5>3, <5>4
      <4>2. items[k].tx = at
        BY <1>1, <4>1 DEF Built
      <4>3. Before(m)' = Prior(items, k)
        BY <1>8, <3>2, <4>1
      <4>4. Before(m + 1)' = Prior(items, k + 1)
        <5>1. PICK q \in Nat : q = m + 1 /\ q = Len(wire) + (k + 1) + 1 - n
          <6>1. Len(wire) + (k + 1) + 1 - n = m + 1
            BY <1>4, <1>5, <3>2
          <6>2. QED
            BY <4>1, <6>1
        <5>2. Before(q)' = Prior(items, k + 1)
          BY <1>8, <4>1, <5>1
        <5>3. QED
          BY <5>1, <5>2
      <4>5. Complete(wire[m].tx, Before(m))'
        BY <1>1, <1>11, <3>2, <4>2, <4>3 DEF Complete
      <4>6. CASE k = Len(items)
        <5>1. items[k].ord # -1 /\ (items[k].kind = "tx" => T.relevant)
          BY <1>1, <4>6 DEF Built, OrdTx, OrdOther
        <5>2. items[k].kind = "tx" => 0 .. T.start - 1 \subseteq Before(m)'
          BY <1>12, <4>3, <4>6, <5>1
        <5>3. QED
          BY <1>1, <3>2, <4>2, <4>5, <5>1, <5>2 DEF T
      <4>7. CASE k \in 1 .. Len(items) - 1
        <5>1. items[k].kind = "update" /\ items[k].ord = k - Len(items) /\ T.relevant
          <6>1. Len(items) # 1
            <7>1. 1 .. 1 - 1 = {}
              OBVIOUS
            <7>2. QED
              BY <4>7, <7>1
          <6>2. QED
            BY <1>1, <4>7, <6>1 DEF Built
        <5>2. items[k].ord = -1 => k + 1 = Len(items)
          <6>1. k - Len(items) = -1 => k + 1 = Len(items)
            BY <1>5, <4>7
          <6>2. QED
            BY <5>1, <6>1
        <5>3. items[k].ord = -1 => 0 .. T.start - 1 \subseteq Before(m + 1)'
          BY <1>12, <4>4, <5>1, <5>2
        <5>4. QED
          BY <1>1, <3>2, <4>2, <4>5, <5>1, <5>3 DEF T
      <4>8. QED
        BY <1>5, <4>1, <4>6, <4>7
    <3>3. QED
      BY <1>6, <3>1, <3>2, SentPlaces
  <2>2. QED
    BY <2>1 DEF WireComplete
<1>15. StreamComplete'
  <2>1. PICK p \in Nat : p = Len(wire') + 1 /\ p = Len(wire) + (Len(items) + 1) + 1 - n
    <3>1. Len(wire') + 1 = Len(wire) + (Len(items) + 1) + 1 - n
      BY <1>4, <1>5, <1>9
    <3>2. Len(wire') \in Nat
      BY <1>6, LenProperties DEF SentFrom
    <3>3. QED
      BY <3>1, <3>2
  <2>2. PICK S : S = Prior(items, Len(items) + 1)
    OBVIOUS
  <2>3. Before(p)' = S
    <3>1. PICK k \in n .. Len(items) + 1 : k = Len(items) + 1
      BY <1>5
    <3>2. p = Len(wire) + k + 1 - n
      BY <2>1, <3>1
    <3>3. QED
      BY <1>8, <2>1, <2>2, <3>1, <3>2
  <2>4. 0 .. pos - 1 \subseteq S /\ Complete(at, S)
    BY <1>10, <1>11, <2>2
  <2>5. T.relevant => 0 .. T.end - 1 \subseteq S
    <3>1. SUFFICES ASSUME T.relevant
                   PROVE  0 .. T.end - 1 \subseteq S
      OBVIOUS
    <3>2. Len(items) \in 1 .. Len(items) + 1 - 1 /\ 1 .. Len(items) - 1 \subseteq 1 .. Len(items) + 1 - 1
      BY <1>5
    <3>3. Prior(items, Len(items)) \subseteq S /\ Indices(items[Len(items)]) \subseteq S
      BY <2>2, <3>2 DEF Prior
    <3>4. Indices(items[Len(items)]) = T.start .. T.end - 1
      BY <1>1, <3>1, OwnIndices
    <3>5. 0 .. T.end - 1 \subseteq (0 .. T.start - 1) \cup (T.start .. T.end - 1)
      BY <1>4
    <3>6. QED
      BY <1>12, <3>1, <3>3, <3>4, <3>5
  <2>6. Complete(at', S)
    <3>1. \A j \in 1 .. at' - 1 : j \in 1 .. at - 1 \/ j = at
      BY <1>1, <1>4
    <3>2. QED
      BY <2>4, <2>5, <3>1 DEF Complete, T
  <2>7. 0 .. pos' - 1 \subseteq S
    BY <1>1, <2>4, <2>5
  <2>8. Complete(at, S)'
    BY <1>1, <2>6 DEF Complete
  <2>9. Before(Len(wire) + 1)' = S
    BY <2>1, <2>3
  <2>10. QED
    BY <1>1, <2>6, <2>7, <2>9 DEF StreamComplete, Complete
<1>16. QED
  BY <1>13, <1>14, <1>15

\* A step that adds transactions at most.
LEMMA StandSelf ==
  ASSUME InlineInv, SelfInv, UpdatesCame',
         UNCHANGED <<at, pos, fromCursor, wire, cursor, covered, answers, drops>>,
         \A i \in 1 .. Len(txs) : txs'[i] = txs[i]
  PROVE  CursorKept(cursor)' /\ CursorKept(fromCursor)' /\ WireComplete' /\ StreamComplete'
<1>1. CursorKept(cursor) /\ CursorKept(fromCursor) /\ WireComplete /\ StreamComplete
  BY DEF SelfInv, UpdatesCame, Several
<1>2. Len(txs) \in Nat /\ Len(wire) \in Nat /\ at \in Nat /\ at <= Len(txs) + 1
  BY InlineElements DEF InlineInv, StreamBehind
<1>3. \A m \in Nat : m <= Len(wire) + 1 => Before(m)' = Before(m)
  BY BeforeStays
<1>4. ASSUME NEW c, CursorKept(c), CursorSent(c)
      PROVE  c # NoCursor =>
               /\ \A j \in 1 .. c[1] - 1 : txs'[j].relevant => 0 .. txs'[j].end - 1 \subseteq covered
               /\ c[2] >= OrdTx /\ txs'[c[1]].relevant => 0 .. txs'[c[1]].end - 1 \subseteq covered
               /\ c[2] = -1 => 0 .. txs'[c[1]].start - 1 \subseteq covered
  <2>1. SUFFICES ASSUME c # NoCursor
                 PROVE  /\ \A j \in 1 .. c[1] - 1 : txs'[j].relevant => 0 .. txs'[j].end - 1 \subseteq covered
                        /\ c[2] >= OrdTx /\ txs'[c[1]].relevant => 0 .. txs'[c[1]].end - 1 \subseteq covered
                        /\ c[2] = -1 => 0 .. txs'[c[1]].start - 1 \subseteq covered
    OBVIOUS
  <2>2. c[1] \in 1 .. Len(txs)
    BY <1>4, <2>1 DEF CursorSent
  <2>3. \A j \in 1 .. c[1] - 1 : j \in 1 .. Len(txs)
    BY <1>2, <2>2
  <2>4. QED
    BY <1>4, <2>1, <2>2, <2>3 DEF CursorKept, Complete
<1>5. CursorKept(cursor)' /\ CursorKept(fromCursor)'
  <2>1. CursorSent(cursor) /\ CursorSent(fromCursor)
    BY DEF InlineInv
  <2>2. QED
    BY <1>1, <1>4, <2>1 DEF CursorKept, Complete
<1>6. ASSUME NEW m \in 1 .. Len(wire)
      PROVE  /\ Complete(wire[m].tx, Before(m))'
             /\ wire[m].kind = "tx" => 0 .. txs'[wire[m].tx].start - 1 \subseteq Before(m)'
             /\ wire[m].ord = -1 => 0 .. txs'[wire[m].tx].start - 1 \subseteq Before(m + 1)'
  <2>1. wire[m].tx \in 1 .. Len(txs) /\ \A j \in 1 .. wire[m].tx - 1 : j \in 1 .. Len(txs)
    BY <1>2, InlineElements
  <2>2. PICK q \in Nat : q = m + 1 /\ q <= Len(wire) + 1
    BY <1>2
  <2>3. Before(m)' = Before(m) /\ Before(q)' = Before(q)
    BY <1>2, <1>3, <2>2
  <2>4. /\ Complete(wire[m].tx, Before(m))
        /\ wire[m].kind = "tx" => 0 .. txs[wire[m].tx].start - 1 \subseteq Before(m)
        /\ wire[m].ord = -1 => 0 .. txs[wire[m].tx].start - 1 \subseteq Before(q)
    BY <1>1, <2>2 DEF WireComplete
  <2>5. QED
    BY <2>1, <2>2, <2>3, <2>4 DEF Complete
<1>7. WireComplete'
  BY <1>6 DEF WireComplete
<1>8. StreamComplete'
  <2>1. PICK p \in Nat : p = Len(wire) + 1
    BY <1>2
  <2>2. Before(p)' = Before(p)
    BY <1>2, <1>3, <2>1
  <2>3. \A j \in 1 .. at - 1 : j \in 1 .. Len(txs)
    BY <1>2
  <2>4. QED
    BY <1>1, <2>1, <2>2, <2>3 DEF StreamComplete, Complete
<1>9. QED
  BY <1>5, <1>7, <1>8

\* A stream starts at or before the transaction of the cursor, up to which the
\* tree is complete.
LEMMA ConnectSelf ==
  ASSUME InlineInv, SelfInv, UpdatesCame', Connect
  PROVE  CursorKept(cursor)' /\ CursorKept(fromCursor)' /\ WireComplete' /\ StreamComplete'
<1>1. /\ at = 0 /\ pos' = -1 /\ fromCursor' = cursor
      /\ UNCHANGED <<txs, wire, cursor, covered, answers, drops>>
  BY DEF Connect
<1>2. CursorKept(cursor)
  BY <1>1 DEF SelfInv, UpdatesCame, Several
<1>3. wire' = <<>>
  BY <1>1 DEF InlineInv, StreamBehind
<1>4. Len(wire') = 0 /\ 1 .. Len(wire') + 1 - 1 = {}
  BY <1>3, EmptySeq
<1>5. Before(Len(wire) + 1)' = covered
  BY <1>1, <1>4 DEF Before
<1>6. PICK k \in DOMAIN txs \cup {1} : StartsWith(k) /\ at' = k
  BY DEF Connect
<1>7. Complete(k, covered)
  <2>1. CASE cursor = NoCursor
    <3>1. k = 1
      BY <1>6, <2>1, StartOf
    <3>2. 1 .. k - 1 = {}
      BY <3>1
    <3>3. QED
      BY <3>2 DEF Complete
  <2>2. CASE cursor # NoCursor
    <3>1. k <= cursor[1] /\ k \in Nat /\ cursor[1] \in Nat
      BY <1>6, <2>2, StartOf DEF InlineInv, InlineTypeOK
    <3>2. 1 .. k - 1 \subseteq 1 .. cursor[1] - 1
      BY <3>1
    <3>3. QED
      BY <1>2, <2>2, <3>2 DEF CursorKept, Complete
  <2>3. QED
    BY <2>1, <2>2
<1>8. StreamComplete'
  BY <1>1, <1>5, <1>6, <1>7 DEF StreamComplete, Complete
<1>9. CursorKept(cursor)' /\ CursorKept(fromCursor)'
  BY <1>1, <1>2 DEF CursorKept, Complete
<1>10. WireComplete'
  BY <1>4 DEF WireComplete
<1>11. QED
  BY <1>8, <1>9, <1>10

\* The client's cursor moves to an item before which, and with which, the tree
\* was complete.
LEMMA ApplySelf ==
  ASSUME InlineInv, SelfInv, UpdatesCame', Apply
  PROVE  CursorKept(cursor)' /\ CursorKept(fromCursor)' /\ WireComplete' /\ StreamComplete'
<1>1. /\ 1 \in 1 .. Len(wire) /\ wire[1] \in Item
      /\ Len(wire') = Len(wire) - 1
      /\ \A k \in 1 .. Len(wire') : wire'[k] = wire[k + 1] /\ k + 1 \in 1 .. Len(wire)
      /\ covered' = covered \cup Indices(wire[1]) /\ cursor' = <<wire[1].tx, wire[1].ord>>
      /\ UNCHANGED <<txs, at, pos, fromCursor, answers, drops>>
  BY ApplyShape
<1>2. CursorKept(fromCursor) /\ WireComplete /\ StreamComplete
  BY <1>1 DEF SelfInv, UpdatesCame, Several
<1>3. \A m \in 1 .. Len(wire) : Before(m)' = Before(m + 1)
  BY BeforeApply
<1>4. Len(wire) \in Nat
  BY InlineElements
<1>5. Before(1) = covered /\ Before(1 + 1) = covered'
  <2>1. 1 .. 1 - 1 = {} /\ 1 .. 1 + 1 - 1 = {1}
    OBVIOUS
  <2>2. QED
    BY <1>1, <2>1 DEF Before
<1>6. CursorKept(fromCursor)'
  BY <1>1, <1>2 DEF CursorKept, Complete
<1>7. CursorKept(cursor)'
  <2>1. /\ Complete(wire[1].tx, covered)
        /\ wire[1].kind = "tx" => 0 .. txs[wire[1].tx].start - 1 \subseteq covered
        /\ wire[1].ord = -1 => 0 .. txs[wire[1].tx].start - 1 \subseteq covered'
    BY <1>1, <1>2, <1>5 DEF WireComplete
  <2>2. \A j \in 1 .. wire[1].tx - 1 : txs'[j].relevant => 0 .. txs'[j].end - 1 \subseteq covered'
    BY <1>1, <2>1 DEF Complete
  <2>3. wire[1].ord >= OrdTx /\ txs[wire[1].tx].relevant => 0 .. txs[wire[1].tx].end - 1 \subseteq covered'
    <3>1. SUFFICES ASSUME wire[1].ord >= OrdTx, txs[wire[1].tx].relevant
                   PROVE  0 .. txs[wire[1].tx].end - 1 \subseteq covered'
      OBVIOUS
    <3>2. wire[1].kind = "tx"
      <4>1. wire[1].kind \in {"update", "tx", "other"} /\ wire[1].ord \in Int
        BY <1>1, ItemFields
      <4>2. wire[1].kind # "update"
        BY <1>1, <3>1, <4>1, ItemFields DEF OrdTx
      <4>3. wire[1].kind # "other"
        BY <1>1, <3>1 DEF InlineInv, WireBehind
      <4>4. QED
        BY <4>1, <4>2, <4>3
    <3>3. Indices(wire[1]) = txs[wire[1].tx].start .. txs[wire[1].tx].end - 1
      BY <3>2 DEF Indices
    <3>4. txs[wire[1].tx].start \in Nat /\ txs[wire[1].tx].end \in Nat
      BY <1>1, InlineElements DEF Tx
    <3>5. 0 .. txs[wire[1].tx].end - 1 \subseteq
            (0 .. txs[wire[1].tx].start - 1) \cup (txs[wire[1].tx].start .. txs[wire[1].tx].end - 1)
      BY <3>4
    <3>6. QED
      BY <1>1, <2>1, <3>2, <3>3, <3>5
  <2>4. cursor'[1] = wire[1].tx /\ cursor'[2] = wire[1].ord
    BY <1>1
  <2>5. QED
    BY <1>1, <2>1, <2>2, <2>3, <2>4 DEF CursorKept, Complete
<1>8. WireComplete'
  <2>1. ASSUME NEW k \in 1 .. Len(wire')
        PROVE  /\ Complete(wire[k].tx, Before(k))'
               /\ wire'[k].kind = "tx" => 0 .. txs'[wire'[k].tx].start - 1 \subseteq Before(k)'
               /\ wire'[k].ord = -1 => 0 .. txs'[wire'[k].tx].start - 1 \subseteq Before(k + 1)'
    <3>1. PICK q \in 1 .. Len(wire) : q = k + 1
      BY <1>1
    <3>2. k \in 1 .. Len(wire)
      BY <1>1, <1>4
    <3>3. Before(k)' = Before(q) /\ Before(q)' = Before(q + 1)
      BY <1>3, <3>1, <3>2
    <3>4. wire'[k] = wire[q]
      BY <1>1, <3>1
    <3>5. /\ Complete(wire[q].tx, Before(q))
          /\ wire[q].kind = "tx" => 0 .. txs[wire[q].tx].start - 1 \subseteq Before(q)
          /\ wire[q].ord = -1 => 0 .. txs[wire[q].tx].start - 1 \subseteq Before(q + 1)
      BY <1>2 DEF WireComplete
    <3>6. QED
      BY <1>1, <3>1, <3>3, <3>4, <3>5 DEF Complete
  <2>2. QED
    BY <2>1 DEF WireComplete
<1>9. StreamComplete'
  <2>1. PICK p \in 1 .. Len(wire) : p = Len(wire) /\ p = Len(wire') + 1
    BY <1>1, <1>4
  <2>2. Before(p)' = Before(p + 1)
    BY <1>3
  <2>3. QED
    BY <1>1, <1>2, <2>1, <2>2 DEF StreamComplete, Complete
<1>10. QED
  BY <1>6, <1>7, <1>8, <1>9

LEMMA DropSelf ==
  ASSUME InlineInv, SelfInv, UpdatesCame', Drop
  PROVE  CursorKept(cursor)' /\ CursorKept(fromCursor)' /\ WireComplete' /\ StreamComplete'
<1>1. /\ drops' = drops + 1 /\ at' = 0 /\ pos' = -1 /\ fromCursor' = NoCursor /\ wire' = <<>>
      /\ drops \in Nat /\ UNCHANGED <<txs, cursor, covered, answers>>
  BY InlineBounds DEF Drop, InlineInv, InlineTypeOK
<1>2. UpdatesCame
  <2>1. drops' # 0
    BY <1>1
  <2>2. QED
    BY <1>1, <2>1 DEF UpdatesCame, Several
<1>3. CursorKept(cursor)
  BY <1>2 DEF SelfInv
<1>4. CursorKept(cursor)' /\ CursorKept(fromCursor)'
  BY <1>1, <1>3 DEF CursorKept, Complete
<1>5. Len(wire') = 0
  BY <1>1, EmptySeq
<1>6. WireComplete' /\ StreamComplete'
  BY <1>1, <1>5 DEF WireComplete, StreamComplete, Complete
<1>7. QED
  BY <1>4, <1>6

LEMMA SelfStep == InlineInv /\ SelfInv /\ [InlineNext]_inlineVars => SelfInv'
<1> SUFFICES ASSUME InlineInv, SelfInv, [InlineNext]_inlineVars, UpdatesCame'
             PROVE  CursorKept(cursor)' /\ CursorKept(fromCursor)' /\ WireComplete' /\ StreamComplete'
  BY DEF SelfInv
<1>1. CASE Stream
  BY <1>1, StreamBuilds, BuildSelf
<1>2. CASE AddTx
  <2>1. UNCHANGED <<at, pos, fromCursor, wire, cursor, covered, answers, drops>>
    BY <1>2 DEF AddTx
  <2>2. \A i \in 1 .. Len(txs) : txs'[i] = txs[i]
    BY <1>2, AddTxInv
  <2>3. QED
    BY <2>1, <2>2, StandSelf
<1>3. CASE Connect \/ Apply \/ Drop
  BY <1>3, ConnectSelf, ApplySelf, DropSelf
<1>4. CASE UNCHANGED inlineVars
  BY <1>4, StandSelf DEF inlineVars
<1>5. QED
  BY <1>1, <1>2, <1>3, <1>4 DEF InlineNext

\* When a relevant transaction comes, the client's tree has every commitment
\* before it, over reconnections at any item and for any cut of the cached
\* updates, provided the updates that were needed came: what the one-off filter
\* of run_stream leaves out is what the client of the cursor already has.
THEOREM StreamSelfContained == InlineSpec => []SelfContained
<1>1. InlineInit => SelfInv
  <2>1. SUFFICES ASSUME InlineInit
                 PROVE  SelfInv
    OBVIOUS
  <2>2. wire = <<>> /\ at = 0 /\ pos = -1 /\ cursor = NoCursor /\ fromCursor = NoCursor
    BY <2>1 DEF InlineInit
  <2>3. Len(wire) = 0
    BY <2>2, EmptySeq
  <2>4. QED
    BY <2>2, <2>3 DEF SelfInv, CursorKept, WireComplete, StreamComplete, Complete
<1>2. InlineInv /\ SelfInv => SelfContained
  <2>1. SUFFICES ASSUME InlineInv, SelfInv, UpdatesCame, wire # <<>>, Head(wire).kind = "tx"
                 PROVE  0 .. txs[Head(wire).tx].start - 1 \subseteq covered
    BY DEF SelfContained, UpdatesCame, Several
  <2>2. Head(wire) = wire[1] /\ 1 \in 1 .. Len(wire)
    BY <2>1, InlineElements, HeadTailProperties, EmptySeq
  <2>3. 0 .. txs[wire[1].tx].start - 1 \subseteq Before(1)
    BY <2>1, <2>2 DEF SelfInv, WireComplete
  <2>4. Before(1) = covered
    <3>1. 1 .. 1 - 1 = {}
      OBVIOUS
    <3>2. QED
      BY <3>1 DEF Before
  <2>5. QED
    BY <2>2, <2>3, <2>4
<1>3. QED
  BY <1>1, <1>2, InlineInvariant, SelfStep, PTL DEF InlineSpec

-----------------------------------------------------------------------------
(* The cache, as the stream sees it.                                       *)

\* The updates of a reply as the items put before transaction at.
AsItems(updates) ==
  [k \in 1 .. Len(updates) |-> UpdateItem(k - Len(updates) - 1, updates[k][1], updates[k][2])]

\* What a request is answered with, from get_cached_updates or from
\* fetch_merkle_updates, is for the stream one of HitUpdates: what covers_range
\* lets pass is a chain that fills the gap before the transaction, of any number
\* of updates, whatever was inserted while it was looked up.
THEOREM RepliesAreHits ==
  ASSUME CacheInv, step = "reply", chain # <<>>, request = <<FromIndex, T.start>>
  PROVE  AsItems(chain) \in HitUpdates
<1>1. PICK f \in Nat, t \in Nat : f = FromIndex /\ t = T.start /\ f < t
  BY DEF CacheInv, RequestOK
<1>2. /\ chain \in Seq(Row) /\ DOMAIN chain = 1 .. Len(chain)
      /\ Len(chain) \in Nat \ {0}
  BY EmptySeq, LenProperties DEF CacheInv, TypeOK
<1>3. PICK n \in Nat \ {0} : n = Len(chain)
  BY <1>2
<1>4. \A k \in 1 .. n : chain[k][1] \in Nat /\ chain[k][2] \in Nat /\ chain[k][1] <= chain[k][2]
  BY <1>2, <1>3, ElementOfSeq, BoundsAreNat DEF Row, Index
<1>5. /\ n <= t - f
      /\ chain[1][1] = f /\ chain[n][2] = t - 1
      /\ \A i \in 1 .. n - 1 : chain[i + 1][1] = chain[i][2] + 1
      /\ \A i, j \in 1 .. n : i < j => chain[i][2] < chain[j][1]
  <2>1. CASE FetchedRange
    <3>1. chain[1] = <<f, t - 1>> /\ n = 1
      BY <1>1, <1>3, <2>1 DEF FetchedRange
    <3>2. QED
      BY <1>1, <3>1
  <2>2. CASE ChainTiles /\ ChainLinks /\ ChainEnd = request[2]
    <3>1. ChainEnd = chain[n][2] + 1 /\ ChainEnd = t /\ request[1] = f
      BY <1>1, <1>3, <2>2 DEF ChainEnd, Last
    <3>2. n <= t - f /\ chain[1][1] = f
      BY <1>3, <2>2, <3>1 DEF ChainLinks
    <3>3. chain[n][2] = t - 1
      BY <1>1, <1>4, <3>1
    <3>4. \A i \in 1 .. n - 1 : i \in 1 .. n /\ i + 1 \in 1 .. n
      OBVIOUS
    <3>5. \A i \in 1 .. n - 1 : chain[i + 1][1] = chain[i][2] + 1
      BY <1>2, <1>3, <2>2, <3>4 DEF ChainLinks
    <3>6. \A i, j \in 1 .. n : i < j => chain[i][2] < chain[j][1]
      BY <1>2, <1>3, <2>2 DEF ChainTiles
    <3>7. QED
      BY <3>2, <3>3, <3>5, <3>6
  <2>3. QED
    BY <2>1, <2>2 DEF CacheInv
<1> DEFINE c == [i \in 1 .. n - 1 |-> chain[i][2] + 1]
<1>6. \A i \in 1 .. n - 1 : c[i] = chain[i][2] + 1 /\ c[i] = chain[i + 1][1]
  BY <1>5
<1> HIDE DEF c
<1>7. ASSUME NEW i \in 1 .. n - 1
      PROVE  c[i] \in f + 1 .. t - 1
  <2>1. i \in 1 .. n /\ n \in 1 .. n /\ 1 \in 1 .. n /\ i < n
    OBVIOUS
  <2>2. f <= chain[i][2]
    <3>1. CASE i = 1
      BY <1>4, <1>5, <2>1, <3>1
    <3>2. CASE i # 1
      <4>1. 1 < i
        BY <3>2
      <4>2. chain[1][2] < chain[i][1]
        BY <1>5, <2>1, <4>1
      <4>3. PICK x \in Nat, y \in Nat, z \in Nat, w \in Nat :
              x = chain[1][1] /\ y = chain[1][2] /\ z = chain[i][1] /\ w = chain[i][2]
        BY <1>4, <2>1
      <4>4. x = f /\ x <= y /\ y < z /\ z <= w
        BY <1>4, <1>5, <2>1, <4>2, <4>3
      <4>5. QED
        BY <4>3, <4>4
    <3>3. QED
      BY <3>1, <3>2
  <2>3. chain[i][2] < chain[n][1]
    BY <1>5, <2>1
  <2>4. chain[n][1] <= t - 1
    BY <1>4, <1>5, <2>1
  <2>5. PICK p \in Nat, q \in Nat : p = chain[i][2] /\ q = chain[n][1]
    BY <1>4, <2>1
  <2>6. c[i] = p + 1 /\ f <= p /\ p < q /\ q <= t - 1
    BY <1>6, <2>2, <2>3, <2>4, <2>5
  <2>7. p + 1 \in f + 1 .. t - 1
    BY <2>6
  <2>8. QED
    BY <2>6, <2>7, Zenon
<1>8. ASSUME NEW i \in 1 .. n - 1, NEW j \in 1 .. n - 1, i < j
      PROVE  c[i] < c[j]
  <2>1. i \in 1 .. n /\ j \in 1 .. n
    OBVIOUS
  <2>2. chain[i][2] < chain[j][1] /\ chain[j][1] <= chain[j][2]
    BY <1>4, <1>5, <1>8, <2>1
  <2>3. QED
    BY <1>4, <1>6, <2>1, <2>2
<1>9. c \in Cuts(n)
  <2>1. c \in [1 .. n - 1 -> FromIndex + 1 .. T.start - 1]
    BY <1>1, <1>7 DEF c
  <2>2. QED
    BY <1>8, <2>1 DEF Cuts
<1>10. ASSUME NEW k \in 1 .. n
       PROVE  Bound(c, k - 1, n) = chain[k][1] /\ Bound(c, k, n) - 1 = chain[k][2]
  <2>1. Bound(c, k - 1, n) = chain[k][1]
    <3>1. CASE k = 1
      BY <1>1, <1>5, <3>1 DEF Bound
    <3>2. CASE k # 1
      <4>1. PICK i \in 1 .. n - 1 : i = k - 1 /\ i + 1 = k /\ i # 0 /\ i # n
        BY <3>2
      <4>2. c[i] = chain[k][1]
        BY <1>6, <4>1
      <4>3. Bound(c, i, n) = c[i]
        BY <4>1 DEF Bound
      <4>4. QED
        BY <4>1, <4>2, <4>3
    <3>3. QED
      BY <3>1, <3>2
  <2>2. Bound(c, k, n) = chain[k][2] + 1
    <3>1. CASE k = n
      BY <1>1, <1>5, <3>1 DEF Bound
    <3>2. CASE k # n
      <4>1. k \in 1 .. n - 1 /\ k # 0
        BY <3>2
      <4>2. QED
        BY <1>6, <3>2, <4>1 DEF Bound
    <3>3. QED
      BY <3>1, <3>2
  <2>3. QED
    BY <1>4, <2>1, <2>2
<1>11. ASSUME NEW k \in 1 .. n
       PROVE  UpdateItem(k - n - 1, Bound(c, k - 1, n), Bound(c, k, n) - 1)
                = UpdateItem(k - n - 1, chain[k][1], chain[k][2])
  BY <1>10, Zenon
<1>12. AsItems(chain) = CutUpdates(c, n)
  BY <1>3, <1>11 DEF AsItems, CutUpdates
<1>13. n \in 1 .. T.start - FromIndex
  BY <1>1, <1>5
<1>14. QED
  BY <1>9, <1>12, <1>13 DEF HitUpdates
=============================================================================
