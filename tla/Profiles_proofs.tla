-------------------------- MODULE Profiles_proofs --------------------------
(***************************************************************************)
(* Profiles for any number of requests and addresses: the types, and that  *)
(* the statements of requests in progress at once implement ProfileSpec.   *)
(***************************************************************************)
EXTENDS Profiles, TLAPS

\* What a well-typed body says.
LEMMA BodyFacts ==
  ASSUME TypeOK, NEW r \in Requests
  PROVE  /\ body[r].kind \in {"bootstrap", "update"}
         /\ body[r].kind = "bootstrap" => body[r].key = TRUE /\ body[r].writes = TRUE
         /\ body[r].key \in BOOLEAN /\ body[r].writes \in BOOLEAN
         /\ body[r].addresses \subseteq Addresses
<1>1. body[r] \in Body
  BY DEF TypeOK
<1>2. QED
  BY <1>1 DEF Body

\* The statement that follows another one.
LEMMA NextStatement ==
  ASSUME TypeOK, NEW r \in Requests
  PROVE  /\ AfterInsert(r) \in {"pref", "commit"}
         /\ AfterDelete(r) \in {"insert", "pref", "commit"}
         /\ left[r] = {} => AfterDelete(r) = AfterInsert(r)
         /\ AfterDelete(r) # "insert" => left[r] = {}
         /\ ~body[r].writes => AfterKey(r) = AfterInsert(r)
         /\ body[r].writes /\ body[r].kind = "update" => AfterKey(r) = "select"
         /\ body[r].writes /\ body[r].kind = "bootstrap" => AfterKey(r) = "insert"
         /\ AfterKey(r) \in {"select", "insert", "pref", "commit"}
         /\ First(r) \in {"key", AfterKey(r)}
         /\ First(r) = "key" <=> body[r].key
<1>1. AfterInsert(r) \in {"pref", "commit"}
  BY DEF AfterInsert
<1>2. body[r].kind \in {"bootstrap", "update"} /\ body[r].writes \in BOOLEAN /\ body[r].key \in BOOLEAN
  BY BodyFacts
<1>3. CASE body[r].writes
  <2>1. CASE body[r].kind = "update"
    BY <1>1, <1>3, <2>1 DEF AfterKey, AfterDelete, First
  <2>2. CASE body[r].kind = "bootstrap"
    BY <1>1, <1>3, <2>2 DEF AfterKey, AfterDelete, First
  <2>3. QED
    BY <1>2, <2>1, <2>2
<1>4. CASE ~body[r].writes
  BY <1>1, <1>4 DEF AfterKey, AfterDelete, First
<1>5. QED
  BY <1>2, <1>3, <1>4

-----------------------------------------------------------------------------
LEMMA InitType == Init => TypeOK
<1> SUFFICES ASSUME Init PROVE TypeOK
  OBVIOUS
<1>1. body \in [Requests -> Body]
  BY ProfilesAssumption DEF Init
<1>2. profile \in [key : Requests \cup {"earlier", NoRequest}, pref : Requests \cup {"earlier", NoRequest}]
  BY DEF Init, NoProfile, Earlier
<1>3. rows \subseteq Row
  BY DEF Init, Row
<1>4. step \in [Requests -> Open \cup Committed \cup {"idle", "refused", "failed"}]
  BY DEF Init
<1>5. QED
  BY <1>1, <1>2, <1>3, <1>4 DEF Init, TypeOK

\* The end of a transaction keeps the types.
LEMMA EndedType ==
  ASSUME TypeOK, NEW r \in Requests, NEW o \in Committed \cup {"failed"}, Ended(r, o)
  PROVE  /\ step' \in [Requests -> Open \cup Committed \cup {"idle", "refused", "failed"}]
         /\ changed' \subseteq Requests /\ lock' \in Requests \cup {NoRequest}
         /\ left' \in [Requests -> SUBSET Addresses]
         /\ doomed' \in [Requests -> SUBSET Row]
         /\ deleted' \in [Requests -> SUBSET Row] /\ inserted' \in [Requests -> SUBSET Row]
BY DEF Ended, Released, TypeOK

LEMMA NextType == TypeOK /\ [Next]_vars => TypeOK'
<1> SUFFICES ASSUME TypeOK, [Next]_vars PROVE TypeOK'
  OBVIOUS
<1> USE DEF TypeOK
<1>1. ASSUME NEW r \in Requests, Begin(r) PROVE TypeOK'
  <2>1. First(r) \in Open
    BY NextStatement DEF Open
  <2>2. body[r].addresses \subseteq Addresses
    BY BodyFacts
  <2>3. clash' \in BOOLEAN
    BY <1>1 DEF Begin
  <2>4. QED
    BY <1>1, <2>1, <2>2, <2>3 DEF Begin, stored
<1>2. ASSUME NEW r \in Requests, Refuse(r) PROVE TypeOK'
  BY <1>2 DEF Refuse, stored, work
<1>3. ASSUME NEW r \in Requests, WriteKey(r) PROVE TypeOK'
  <2>1. AfterKey(r) \in Open
    BY NextStatement DEF Open
  <2>2. QED
    BY <1>3, <2>1 DEF WriteKey, stored, work
<1>4. ASSUME NEW r \in Requests, Select(r) PROVE TypeOK'
  <2>1. "scan" \in Open
    BY DEF Open
  <2>2. QED
    BY <1>4, <2>1 DEF Select, stored
<1>5. ASSUME NEW r \in Requests, Scan(r) PROVE TypeOK'
  <2>1. AfterDelete(r) \in Open /\ "delete" \in Open
    BY NextStatement DEF Open
  <2>2. QED
    BY <1>5, <2>1 DEF Scan, stored
<1>6. ASSUME NEW r \in Requests, NEW row \in doomed[r], DeleteRow(r, row) PROVE TypeOK'
  <2>1. AfterDelete(r) \in Open /\ "delete" \in Open /\ row \in Row
    BY NextStatement DEF Open
  <2>2. QED
    BY <1>6, <2>1 DEF DeleteRow, stored
<1>7. ASSUME NEW r \in Requests, NEW a \in left[r], Insert(r, a) PROVE TypeOK'
  <2>1. AfterInsert(r) \in Open /\ "insert" \in Open /\ NewRow(a, r) \in Row
    BY NextStatement DEF Open, NewRow, Row
  <2>2. QED
    BY <1>7, <2>1 DEF Insert, stored
<1>8. ASSUME NEW r \in Requests, WritePref(r) PROVE TypeOK'
  <2>1. "commit" \in Open
    BY DEF Open
  <2>2. QED
    BY <1>8, <2>1 DEF WritePref, stored, work
<1>9. ASSUME NEW r \in Requests, Commit(r) PROVE TypeOK'
  <2>1. (IF body[r].kind = "update" THEN "read" ELSE "answered") \in Committed
    BY DEF Committed
  <2>2. profile' \in [key : Requests \cup {"earlier", NoRequest}, pref : Requests \cup {"earlier", NoRequest}]
    BY <1>9 DEF Commit
  <2>3. rows' \subseteq Row
    BY <1>9 DEF Commit
  <2>4. UNCHANGED <<body, clash>>
    BY <1>9 DEF Commit
  <2>5. Ended(r, IF body[r].kind = "update" THEN "read" ELSE "answered")
    BY <1>9 DEF Commit
  <2>6. QED
    BY <2>1, <2>2, <2>3, <2>4, <2>5, EndedType
<1>10. ASSUME NEW r \in Requests, ReadPref(r) PROVE TypeOK'
  <2>1. "answered" \in Committed
    BY DEF Committed
  <2>2. QED
    BY <1>10, <2>1 DEF ReadPref, stored, work
<1>11. ASSUME NEW r \in Requests, Fail(r) \/ BreakDeadlock(r) PROVE TypeOK'
  <2>1. \E o \in {"failed", "unread"} : Ended(r, o)
    BY <1>11 DEF Fail, BreakDeadlock
  <2>2. UNCHANGED <<body, stored, clash>>
    BY <1>11 DEF Fail, BreakDeadlock
  <2>3. {"failed", "unread"} \subseteq Committed \cup {"failed"}
    BY DEF Committed
  <2>4. QED
    BY <2>1, <2>2, <2>3, EndedType DEF stored
<1>12. CASE UNCHANGED vars
  BY <1>12 DEF vars, stored, work
<1>13. QED
  BY <1>1, <1>2, <1>3, <1>4, <1>5, <1>6, <1>7, <1>8, <1>9, <1>10, <1>11, <1>12
     DEF Next, Proceed

\* Every variable keeps its type.
THEOREM ProfilesTypeCorrect == Spec => []TypeOK
<1>1. QED
  BY InitType, NextType, PTL DEF Spec

-----------------------------------------------------------------------------
(* A request's own state: which statements it has come to, and with what.  *)

\* Before its DELETE and INSERTs a transaction holds nothing, and it has read
\* the addresses when it holds an opinion of them.
Own(r) ==
  /\ step[r] # "delete" => doomed[r] = {}
  /\ step[r] \notin {"delete", "insert", "pref", "commit"} => deleted[r] = {} /\ inserted[r] = {}
  /\ step[r] = "delete" => inserted[r] = {}
  /\ ~body[r].writes =>
       /\ step[r] \notin {"select", "scan", "delete", "insert"}
       /\ deleted[r] = {} /\ inserted[r] = {}
  /\ step[r] \in {"select", "scan", "delete"} => body[r].kind = "update"
  /\ body[r].kind = "bootstrap" => deleted[r] = {}
  /\ r \in changed =>
       /\ body[r].kind = "update" /\ body[r].writes
       /\ step[r] \notin {"idle", "key", "select", "failed", "refused"}
  /\ step[r] \in {"key", "select", "scan", "delete"} => left[r] = body[r].addresses
  /\ step[r] \in {"pref", "commit"} /\ body[r].writes => left[r] = {}

\* A request that gives the dust key holds the lock of the row from its upsert.
Locked(r) == step[r] \in Open \ {"key"} /\ body[r].key => lock = r

\* No overlapping address updates of which one takes no lock.
Ordered ==
  ~clash => \A r, q \in Requests :
              r # q /\ step[r] \in Open /\ step[q] \in Open => ~Unordered(r, q)

\* The addresses that will be stored when r has committed.
Target(r) ==
  IF body[r].kind = "update" THEN body[r].addresses ELSE StoredAddresses \cup body[r].addresses

\* r is between its lock and its commit and writes addresses: it knows how they
\* compare with the stored ones, and what its DELETE and INSERTs amount to.
Exclusive(r) ==
  ~clash /\ body[r].writes =>
    /\ step[r] \in {"scan", "delete", "insert", "pref", "commit"} /\ body[r].kind = "update" =>
         (r \in changed <=> StoredAddresses # body[r].addresses)
    /\ step[r] = "delete" => doomed[r] \cup deleted[r] = rows
    /\ step[r] \in {"insert", "pref", "commit"} =>
         AddressesOf((rows \ deleted[r]) \cup inserted[r]) \cup left[r] = Target(r)

ProfileInv ==
  /\ TypeOK
  /\ Ordered
  /\ \A r \in Requests : Own(r) /\ Locked(r) /\ Exclusive(r)

Acts(r) == Begin(r) \/ Refuse(r) \/ Proceed(r) \/ Fail(r) \/ BreakDeadlock(r)

-----------------------------------------------------------------------------
\* A step of p is its own: nothing of another request changes, a lock that
\* another request holds stays, and an overlap is not forgotten.
LEMMA OnlyOwn ==
  ASSUME TypeOK, NEW p \in Requests, Acts(p), NEW q \in Requests, q # p
  PROVE  /\ step'[q] = step[q] /\ (q \in changed' <=> q \in changed)
         /\ left'[q] = left[q] /\ doomed'[q] = doomed[q]
         /\ deleted'[q] = deleted[q] /\ inserted'[q] = inserted[q]
         /\ lock = q => lock' = q
<1> USE DEF TypeOK
<1>1. CASE Begin(p) \/ Refuse(p)
  BY <1>1 DEF Begin, Refuse, work
<1>2. CASE WriteKey(p) \/ Select(p)
  BY <1>2, ProfilesAssumption DEF WriteKey, Select, work
<1>3. CASE Scan(p) \/ WritePref(p)
  BY <1>3, ProfilesAssumption DEF Scan, WritePref, work
<1>4. CASE ReadPref(p)
  BY <1>4 DEF ReadPref, work
<1>5. CASE \E row \in doomed[p] : DeleteRow(p, row)
  BY <1>5 DEF DeleteRow
<1>6. CASE \E a \in left[p] : Insert(p, a)
  BY <1>6 DEF Insert
<1>7. CASE \E o : Ended(p, o)
  BY <1>7 DEF Ended, Released
<1>8. QED
  BY <1>1, <1>2, <1>3, <1>4, <1>5, <1>6, <1>7 DEF Acts, Proceed, Commit, Fail, BreakDeadlock

\* Only a commit changes what is stored; bodies are fixed; history is kept.
LEMMA OnlyCommit ==
  ASSUME TypeOK, NEW p \in Requests, Acts(p)
  PROVE  /\ body' = body
         /\ clash => clash'
         /\ ~Commit(p) => rows' = rows /\ profile' = profile
         /\ ~Begin(p) => clash' = clash
         /\ step[p] \notin Open /\ step'[p] \in Open => Begin(p)
<1>1. CASE Begin(p)
  BY <1>1 DEF Begin, stored
<1>2. CASE Refuse(p)
  BY <1>2 DEF Refuse, stored, TypeOK, Open
<1>3. CASE Proceed(p) /\ ~Commit(p)
  <2>1. body' = body /\ clash' = clash /\ rows' = rows /\ profile' = profile
    BY <1>3 DEF Proceed, WriteKey, Select, Scan, WritePref, ReadPref, DeleteRow, Insert, stored
  <2>2. step[p] \in Open \/ step'[p] \notin Open
    BY <1>3 DEF Proceed, WriteKey, Select, Scan, WritePref, ReadPref, DeleteRow, Insert, Open, TypeOK
  <2>3. QED
    BY <2>1, <2>2
<1>4. CASE Commit(p)
  BY <1>4 DEF Commit, Open
<1>5. CASE Fail(p) \/ BreakDeadlock(p)
  BY <1>5 DEF Fail, BreakDeadlock, Ended, stored, Open, TypeOK
<1>6. QED
  BY <1>1, <1>2, <1>3, <1>4, <1>5 DEF Acts, Proceed

\* Two requests that write addresses are not both past their locks.
LEMMA OneWriter ==
  ASSUME ProfileInv, ~clash, NEW p \in Requests, NEW q \in Requests, p # q,
         body[p].writes, body[q].writes,
         step[p] \in Open \ {"key"}, step[q] \in Open \ {"key"}
  PROVE  FALSE
<1>1. ~Unordered(p, q)
  BY DEF ProfileInv, Ordered
<1>2. body[p].key /\ body[q].key
  BY <1>1, BodyFacts DEF Unordered, ProfileInv
<1>3. lock = p /\ lock = q
  BY <1>2 DEF ProfileInv, Locked
<1>4. QED
  BY <1>3

LEMMA AddressesOfUnion ==
  ASSUME NEW A, NEW B PROVE AddressesOf(A \cup B) = AddressesOf(A) \cup AddressesOf(B)
BY DEF AddressesOf

-----------------------------------------------------------------------------
LEMMA InitProfile == Init => ProfileInv
<1> SUFFICES ASSUME Init PROVE ProfileInv
  OBVIOUS
<1>1. TypeOK
  BY InitType
<1>2. \A r \in Requests : step[r] = "idle" /\ step[r] \notin Open
  BY DEF Init, Open
<1>3. Ordered
  BY <1>2 DEF Ordered
<1>4. ASSUME NEW r \in Requests PROVE Own(r) /\ Locked(r) /\ Exclusive(r)
  BY <1>2, <1>4 DEF Init, Own, Locked, Exclusive
<1>5. QED
  BY <1>1, <1>3, <1>4 DEF ProfileInv

\* The end of a transaction leaves nothing of it.
LEMMA EndedOwn ==
  ASSUME TypeOK, NEW p \in Requests, Own(p), NEW o \in Committed \cup {"failed"},
         Ended(p, o), body' = body,
         o # "failed" => step[p] \in {"commit", "read"}
  PROVE  Own(p)'
<1> USE DEF TypeOK
<1>1. step'[p] = o /\ left'[p] = {} /\ doomed'[p] = {} /\ deleted'[p] = {} /\ inserted'[p] = {}
  BY DEF Ended
<1>2. o \in {"read", "unread", "answered", "failed"}
  BY DEF Committed
<1>3. p \in changed' => o # "failed" /\ p \in changed
  BY DEF Ended
<1>4. QED
  BY <1>1, <1>2, <1>3 DEF Own

\* Each statement leaves its request as Own says.
LEMMA OwnStep ==
  ASSUME TypeOK, NEW p \in Requests, Acts(p), Own(p)
  PROVE  Own(p)'
<1> USE DEF TypeOK
<1>0. body' = body
  BY OnlyCommit
<1>1. CASE Begin(p)
  <2>1. /\ step'[p] = First(p) /\ left'[p] = body[p].addresses /\ changed' = changed
        /\ doomed' = doomed /\ deleted' = deleted /\ inserted' = inserted
    BY <1>1 DEF Begin
  <2>2. doomed[p] = {} /\ deleted[p] = {} /\ inserted[p] = {} /\ p \notin changed
    BY <1>1 DEF Begin, Own
  <2>3. First(p) \in {"key", "select", "insert", "pref", "commit"}
    BY NextStatement
  <2>4. ~body[p].writes => First(p) \in {"key", "pref", "commit"}
    BY NextStatement
  <2>5. body[p].writes => First(p) \notin {"pref", "commit"}
    BY NextStatement, BodyFacts
  <2>6. First(p) = "select" => body[p].kind = "update"
    BY NextStatement, BodyFacts
  <2>7. QED
    BY <1>0, <2>1, <2>2, <2>3, <2>4, <2>5, <2>6 DEF Own
<1>2. CASE Refuse(p)
  BY <1>0, <1>2 DEF Refuse, work, Own
<1>3. CASE WriteKey(p)
  <2>1. /\ step'[p] = AfterKey(p) /\ UNCHANGED <<left, changed, doomed, deleted, inserted>>
    BY <1>3 DEF WriteKey, work
  <2>2. /\ doomed[p] = {} /\ deleted[p] = {} /\ inserted[p] = {} /\ p \notin changed
        /\ left[p] = body[p].addresses
    BY <1>3 DEF WriteKey, Own
  <2>3. AfterKey(p) \in {"select", "insert", "pref", "commit"}
    BY NextStatement
  <2>4. ~body[p].writes => AfterKey(p) \in {"pref", "commit"}
    BY NextStatement
  <2>5. body[p].writes => AfterKey(p) \notin {"pref", "commit"}
    BY NextStatement, BodyFacts
  <2>6. AfterKey(p) = "select" => body[p].kind = "update"
    BY NextStatement, BodyFacts
  <2>7. QED
    BY <1>0, <2>1, <2>2, <2>3, <2>4, <2>5, <2>6 DEF Own
<1>4. CASE Select(p)
  <2>1. body[p].writes /\ body[p].kind = "update"
    BY <1>4, BodyFacts DEF Select, Own
  <2>2. QED
    BY <1>0, <1>4, <2>1 DEF Select, Own
<1>5. CASE Scan(p)
  <2>1. /\ doomed'[p] = rows /\ UNCHANGED <<left, changed, deleted, inserted>>
        /\ step'[p] = IF rows = {} THEN AfterDelete(p) ELSE "delete"
    BY <1>5 DEF Scan
  <2>2. /\ body[p].writes /\ body[p].kind = "update" /\ left[p] = body[p].addresses
        /\ deleted[p] = {} /\ inserted[p] = {}
    BY <1>5, BodyFacts DEF Scan, Own
  <2>3. AfterDelete(p) \in {"insert", "pref", "commit"} /\ (AfterDelete(p) # "insert" => left[p] = {})
    BY NextStatement
  <2>4. QED
    BY <1>0, <2>1, <2>2, <2>3 DEF Own
<1>6. ASSUME NEW row \in doomed[p], DeleteRow(p, row) PROVE Own(p)'
  <2>1. /\ doomed'[p] = doomed[p] \ {row} /\ UNCHANGED <<left, changed, inserted>>
        /\ step[p] = "delete"
        /\ step'[p] = IF doomed[p] = {row} THEN AfterDelete(p) ELSE "delete"
    BY <1>6 DEF DeleteRow
  <2>2. /\ body[p].writes /\ body[p].kind = "update" /\ left[p] = body[p].addresses
        /\ inserted[p] = {}
    BY <2>1, BodyFacts DEF Own
  <2>3. AfterDelete(p) \in {"insert", "pref", "commit"} /\ (AfterDelete(p) # "insert" => left[p] = {})
    BY NextStatement
  <2>4. QED
    BY <1>0, <2>1, <2>2, <2>3 DEF Own
<1>7. ASSUME NEW a \in left[p], Insert(p, a) PROVE Own(p)'
  <2>1. /\ left'[p] = left[p] \ {a} /\ UNCHANGED <<doomed, deleted, changed>>
        /\ step[p] = "insert"
        /\ step'[p] = IF left[p] = {a} THEN AfterInsert(p) ELSE "insert"
    BY <1>7 DEF Insert
  <2>2. body[p].writes
    BY <2>1, BodyFacts DEF Own
  <2>3. AfterInsert(p) \in {"pref", "commit"}
    BY NextStatement
  <2>4. QED
    BY <1>0, <2>1, <2>2, <2>3 DEF Own
<1>8. CASE WritePref(p)
  BY <1>0, <1>8 DEF WritePref, work, Own
<1>9. CASE ReadPref(p)
  BY <1>0, <1>9 DEF ReadPref, work, Own
<1>10. CASE Commit(p)
  BY <1>0, <1>10, EndedOwn DEF Commit, Committed
<1>11. CASE Fail(p) \/ BreakDeadlock(p)
  BY <1>0, <1>11, EndedOwn DEF Fail, BreakDeadlock, Committed
<1>12. QED
  BY <1>1, <1>2, <1>3, <1>4, <1>5, <1>6, <1>7, <1>8, <1>9, <1>10, <1>11 DEF Acts, Proceed

LEMMA LockedStep ==
  ASSUME TypeOK, NEW p \in Requests, Acts(p), Locked(p)
  PROVE  Locked(p)'
<1> USE DEF TypeOK
<1>0. body' = body
  BY OnlyCommit
<1>1. CASE Begin(p)
  <2>1. step'[p] = First(p)
    BY <1>1 DEF Begin
  <2>2. QED
    BY <1>0, <2>1, NextStatement DEF Locked
<1>2. CASE Refuse(p) \/ ReadPref(p)
  BY <1>2 DEF Refuse, ReadPref, Locked, Open
<1>3. CASE WriteKey(p) \/ WritePref(p)
  BY <1>3 DEF WriteKey, WritePref, Locked
<1>4. CASE Select(p)
  BY <1>0, <1>4 DEF Select, Locked, Open
<1>5. CASE Scan(p)
  BY <1>0, <1>5 DEF Scan, Locked, Open
<1>6. CASE \E row \in doomed[p] : DeleteRow(p, row)
  BY <1>0, <1>6 DEF DeleteRow, Locked, Open
<1>7. CASE \E a \in left[p] : Insert(p, a)
  BY <1>0, <1>7 DEF Insert, Locked, Open
<1>8. CASE Commit(p) \/ Fail(p) \/ BreakDeadlock(p)
  BY <1>8 DEF Commit, Fail, BreakDeadlock, Ended, Locked, Open
<1>9. QED
  BY <1>1, <1>2, <1>3, <1>4, <1>5, <1>6, <1>7, <1>8 DEF Acts, Proceed

LEMMA OrderedStep ==
  ASSUME TypeOK, NEW p \in Requests, Acts(p), Ordered
  PROVE  Ordered'
<1> SUFFICES ASSUME ~clash', NEW r \in Requests, NEW q \in Requests, r # q,
                    step'[r] \in Open, step'[q] \in Open
             PROVE  ~Unordered(r, q)'
  BY DEF Ordered
<1>1. body' = body /\ ~clash
  BY OnlyCommit
<1>2. \A s \in Requests : s # p => step'[s] = step[s]
  BY OnlyOwn
<1>3. Unordered(r, q) <=> Unordered(q, r)
  BY DEF Unordered
<1>4. Unordered(r, q)' <=> Unordered(r, q)
  BY <1>1 DEF Unordered
<1>5. CASE step[r] \in Open /\ step[q] \in Open
  BY <1>1, <1>4, <1>5 DEF Ordered
<1>6. CASE step[r] \notin Open
  <2>1. r = p /\ Begin(p)
    BY <1>2, <1>6, OnlyCommit
  <2>2. q # p /\ step[q] \in Open
    BY <1>2, <2>1
  <2>3. QED
    BY <1>4, <2>1, <2>2 DEF Begin
<1>7. CASE step[q] \notin Open
  <2>1. q = p /\ Begin(p)
    BY <1>2, <1>7, OnlyCommit
  <2>2. r # p /\ step[r] \in Open
    BY <1>2, <2>1
  <2>3. QED
    BY <1>3, <1>4, <2>1, <2>2 DEF Begin
<1>8. QED
  BY <1>5, <1>6, <1>7

-----------------------------------------------------------------------------
\* What r knows of the stored addresses survives the steps of others: only a
\* commit changes them, and no other writer is that far.
LEMMA ExclusiveOther ==
  ASSUME ProfileInv, NEW p \in Requests, Acts(p), NEW q \in Requests, q # p
  PROVE  Exclusive(q)'
<1> SUFFICES ASSUME ~clash', body'[q].writes,
                    step'[q] \in {"scan", "delete", "insert", "pref", "commit"}
             PROVE  Exclusive(q)'
  BY DEF Exclusive
<1>1. body' = body /\ ~clash
  BY OnlyCommit DEF ProfileInv
<1>2. /\ step'[q] = step[q] /\ (q \in changed' <=> q \in changed)
      /\ left'[q] = left[q] /\ doomed'[q] = doomed[q]
      /\ deleted'[q] = deleted[q] /\ inserted'[q] = inserted[q]
  BY OnlyOwn DEF ProfileInv
<1>3. step[q] \in Open \ {"key"}
  BY <1>2 DEF Open
<1>4. rows' = rows
  <2>1. CASE ~Commit(p)
    BY <2>1, OnlyCommit DEF ProfileInv
  <2>2. CASE Commit(p)
    <3>1. step[p] \in Open \ {"key"} /\ rows' = (rows \ deleted[p]) \cup inserted[p]
      BY <2>2 DEF Commit, Open
    <3>2. ~body[p].writes
      BY <1>1, <1>3, <3>1, OneWriter
    <3>3. deleted[p] = {} /\ inserted[p] = {}
      BY <3>2 DEF ProfileInv, Own
    <3>4. QED
      BY <3>1, <3>3
  <2>3. QED
    BY <2>1, <2>2
<1>5. Exclusive(q)
  BY DEF ProfileInv
<1>6. QED
  BY <1>1, <1>2, <1>4, <1>5 DEF Exclusive, Target, StoredAddresses, AddressesOf

\* A writer has nothing deleted or inserted, and all of its addresses left.
LEMMA FreshWriter ==
  ASSUME NEW r \in Requests, deleted[r] = {}, inserted[r] = {}, left[r] = body[r].addresses
  PROVE  /\ body[r].kind # "update" =>
              AddressesOf((rows \ deleted[r]) \cup inserted[r]) \cup left[r] = Target(r)
         /\ body[r].kind = "update" /\ rows = {} =>
              AddressesOf((rows \ deleted[r]) \cup inserted[r]) \cup left[r] = Target(r)
<1>1. (rows \ deleted[r]) \cup inserted[r] = rows
  OBVIOUS
<1>2. rows = {} => AddressesOf(rows) = {}
  BY DEF AddressesOf
<1>3. QED
  BY <1>1, <1>2 DEF Target, StoredAddresses

\* The statements of a writer add up to what it is to store.
LEMMA ExclusiveStep ==
  ASSUME ProfileInv, NEW p \in Requests, Acts(p)
  PROVE  Exclusive(p)'
<1> SUFFICES ASSUME ~clash', body'[p].writes PROVE Exclusive(p)'
  BY DEF Exclusive
<1> USE DEF TypeOK
<1>0. TypeOK /\ Own(p) /\ Exclusive(p)
  BY DEF ProfileInv
<1>1. body' = body /\ ~clash /\ body[p].writes
  BY <1>0, OnlyCommit
<1>2. body[p].kind \in {"bootstrap", "update"}
  BY <1>0, BodyFacts
<1>3. CASE Begin(p)
  <2>1. step'[p] = First(p) /\ UNCHANGED <<rows, deleted, inserted, changed>> /\ left'[p] = body[p].addresses
    BY <1>0, <1>3 DEF Begin, stored
  <2>2. First(p) \in {"key", "select"} \/ (First(p) = "insert" /\ body[p].kind = "bootstrap")
    BY <1>0, <1>1, <1>2, NextStatement
  <2>3. body[p].kind = "bootstrap" => body[p].key
    BY <1>0, BodyFacts
  <2>4. First(p) # "insert"
    BY <1>0, <2>2, <2>3, NextStatement
  <2>5. QED
    BY <2>1, <2>2, <2>4 DEF Exclusive
<1>4. CASE Refuse(p)
  BY <1>0, <1>4 DEF Refuse, Exclusive
<1>5. CASE WriteKey(p)
  <2>1. /\ step[p] = "key" /\ step'[p] = AfterKey(p)
        /\ UNCHANGED <<rows, deleted, inserted, changed, left, doomed>>
    BY <1>0, <1>5 DEF WriteKey, stored, work
  <2>2. deleted[p] = {} /\ inserted[p] = {} /\ left[p] = body[p].addresses
    BY <1>0, <2>1 DEF Own
  <2>3. AfterKey(p) = "select" \/ (AfterKey(p) = "insert" /\ body[p].kind = "bootstrap")
    BY <1>0, <1>1, <1>2, NextStatement
  <2>4. CASE AfterKey(p) = "select"
    BY <2>1, <2>4 DEF Exclusive
  <2>5. CASE AfterKey(p) = "insert" /\ body[p].kind = "bootstrap"
    <3>1. AddressesOf((rows \ deleted[p]) \cup inserted[p]) \cup left[p] = Target(p)
      BY <2>2, <2>5, FreshWriter
    <3>2. QED
      BY <1>1, <2>1, <2>5, <3>1 DEF Exclusive, Target, StoredAddresses, AddressesOf
  <2>6. QED
    BY <2>3, <2>4, <2>5
<1>6. CASE Select(p)
  <2>1. step'[p] = "scan" /\ rows' = rows
    BY <1>0, <1>6 DEF Select, stored
  <2>2. p \notin changed
    BY <1>0, <1>6 DEF Select, Own
  <2>3. p \in changed' <=> StoredAddresses # body[p].addresses
    BY <1>6, <2>2 DEF Select, StoredAddresses
  <2>4. StoredAddresses' = StoredAddresses
    BY <2>1 DEF StoredAddresses, AddressesOf
  <2>5. QED
    BY <1>1, <2>1, <2>3, <2>4 DEF Exclusive
<1>7. CASE Scan(p)
  <2>1. /\ step[p] = "scan" /\ step'[p] = IF rows = {} THEN AfterDelete(p) ELSE "delete"
        /\ doomed'[p] = rows /\ UNCHANGED <<rows, deleted, inserted, changed, left>>
    BY <1>0, <1>7 DEF Scan, stored
  <2>2. /\ deleted[p] = {} /\ inserted[p] = {} /\ left[p] = body[p].addresses
        /\ body[p].kind = "update"
    BY <1>0, <2>1 DEF Own
  <2>3. p \in changed <=> StoredAddresses # body[p].addresses
    BY <1>0, <1>1, <2>1, <2>2 DEF Exclusive
  <2>4. StoredAddresses' = StoredAddresses
    BY <2>1 DEF StoredAddresses, AddressesOf
  <2>5. AfterDelete(p) \in {"insert", "pref", "commit"}
    BY <1>0, NextStatement
  <2>6. rows = {} => AddressesOf((rows \ deleted[p]) \cup inserted[p]) \cup left[p] = body[p].addresses
    BY <2>2, FreshWriter DEF Target
  <2>7. QED
    BY <1>1, <2>1, <2>2, <2>3, <2>4, <2>5, <2>6 DEF Exclusive, Target, AddressesOf
<1>8. ASSUME NEW row \in doomed[p], DeleteRow(p, row) PROVE Exclusive(p)'
  <2>1. /\ step[p] = "delete" /\ step'[p] = IF doomed[p] = {row} THEN AfterDelete(p) ELSE "delete"
        /\ doomed'[p] = doomed[p] \ {row} /\ UNCHANGED <<rows, inserted, changed, left>>
        /\ deleted' = IF row \in rows THEN [deleted EXCEPT ![p] = @ \cup {row}] ELSE deleted
    BY <1>0, <1>8 DEF DeleteRow, stored
  <2>2. inserted[p] = {} /\ left[p] = body[p].addresses /\ body[p].kind = "update"
    BY <1>0, <2>1 DEF Own
  <2>3. /\ p \in changed <=> StoredAddresses # body[p].addresses
        /\ doomed[p] \cup deleted[p] = rows
    BY <1>0, <1>1, <2>1, <2>2 DEF Exclusive
  <2>4. deleted'[p] = deleted[p] \cup {row}
    BY <1>0, <2>1, <2>3
  <2>5. StoredAddresses' = StoredAddresses
    BY <2>1 DEF StoredAddresses, AddressesOf
  <2>6. AfterDelete(p) \in {"insert", "pref", "commit"}
    BY <1>0, NextStatement
  <2>7. doomed'[p] \cup deleted'[p] = rows
    BY <2>1, <2>3, <2>4
  <2>8. doomed[p] = {row} => AddressesOf((rows \ deleted'[p]) \cup inserted[p]) = {}
    <3>1. doomed[p] = {row} => (rows \ deleted'[p]) \cup inserted[p] = {}
      BY <2>2, <2>3, <2>4
    <3>2. QED
      BY <3>1 DEF AddressesOf
  <2>9. QED
    BY <1>1, <2>1, <2>2, <2>3, <2>5, <2>6, <2>7, <2>8 DEF Exclusive, Target, AddressesOf
<1>9. ASSUME NEW a \in left[p], Insert(p, a) PROVE Exclusive(p)'
  <2>1. /\ step[p] = "insert" /\ step'[p] = IF left[p] = {a} THEN AfterInsert(p) ELSE "insert"
        /\ left'[p] = left[p] \ {a} /\ UNCHANGED <<rows, deleted, changed, doomed>>
        /\ inserted' = IF a \in AddressesOf(rows \ deleted[p]) THEN inserted
                       ELSE [inserted EXCEPT ![p] = @ \cup {NewRow(a, p)}]
    BY <1>0, <1>9 DEF Insert, stored
  <2>2. AfterInsert(p) \in {"pref", "commit"}
    BY <1>0, NextStatement
  <2>3. /\ body[p].kind = "update" => (p \in changed <=> StoredAddresses # body[p].addresses)
        /\ AddressesOf((rows \ deleted[p]) \cup inserted[p]) \cup left[p] = Target(p)
    BY <1>0, <1>1, <2>1 DEF Exclusive
  <2>4. StoredAddresses' = StoredAddresses /\ Target(p)' = Target(p)
    BY <1>1, <2>1 DEF StoredAddresses, AddressesOf, Target
  <2>5. AddressesOf((rows \ deleted[p]) \cup inserted'[p]) \cup left'[p]
          = AddressesOf((rows \ deleted[p]) \cup inserted[p]) \cup left[p]
    <3>1. CASE a \in AddressesOf(rows \ deleted[p])
      BY <2>1, <3>1, AddressesOfUnion
    <3>2. CASE a \notin AddressesOf(rows \ deleted[p])
      <4>1. inserted'[p] = inserted[p] \cup {NewRow(a, p)}
        BY <1>0, <2>1, <3>2
      <4>2. AddressesOf({NewRow(a, p)}) = {a}
        BY DEF AddressesOf, NewRow
      <4>3. AddressesOf((rows \ deleted[p]) \cup inserted'[p])
              = AddressesOf((rows \ deleted[p]) \cup inserted[p]) \cup {a}
        BY <4>1, <4>2, AddressesOfUnion
      <4>4. QED
        BY <2>1, <4>3
    <3>3. QED
      BY <3>1, <3>2
  <2>6. AddressesOf((rows \ deleted[p]) \cup inserted[p])' = AddressesOf((rows \ deleted[p]) \cup inserted'[p])
    BY <2>1 DEF AddressesOf
  <2>7. QED
    BY <1>1, <2>1, <2>2, <2>3, <2>4, <2>5, <2>6 DEF Exclusive
<1>10. CASE WritePref(p)
  <2>1. /\ step[p] = "pref" /\ step'[p] = "commit"
        /\ UNCHANGED <<rows, deleted, inserted, changed, left, doomed>>
    BY <1>0, <1>10 DEF WritePref, stored, work
  <2>2. QED
    BY <1>0, <1>1, <2>1 DEF Exclusive, Target, StoredAddresses, AddressesOf
<1>11. CASE ReadPref(p)
  BY <1>0, <1>11 DEF ReadPref, Exclusive
<1>12. CASE Commit(p) \/ Fail(p) \/ BreakDeadlock(p)
  <2>1. step'[p] \in {"read", "answered", "failed", "unread"}
    BY <1>0, <1>12 DEF Commit, Fail, BreakDeadlock, Ended
  <2>2. QED
    BY <2>1 DEF Exclusive
<1>13. QED
  BY <1>3, <1>4, <1>5, <1>6, <1>7, <1>8, <1>9, <1>10, <1>11, <1>12 DEF Acts, Proceed

LEMMA ProfileStep == ProfileInv /\ [Next]_vars => ProfileInv'
<1> SUFFICES ASSUME ProfileInv, [Next]_vars PROVE ProfileInv'
  OBVIOUS
<1>1. TypeOK /\ TypeOK'
  BY NextType DEF ProfileInv
<1>2. ASSUME NEW p \in Requests, Acts(p) PROVE ProfileInv'
  <2>1. Ordered'
    BY <1>1, <1>2, OrderedStep DEF ProfileInv
  <2>2. Own(p)' /\ Locked(p)' /\ Exclusive(p)'
    BY <1>1, <1>2, OwnStep, LockedStep, ExclusiveStep DEF ProfileInv
  <2>3. ASSUME NEW q \in Requests, q # p PROVE Own(q)' /\ Locked(q)' /\ Exclusive(q)'
    <3>1. /\ step'[q] = step[q] /\ (q \in changed' <=> q \in changed)
          /\ left'[q] = left[q] /\ doomed'[q] = doomed[q]
          /\ deleted'[q] = deleted[q] /\ inserted'[q] = inserted[q]
          /\ lock = q => lock' = q
      BY <1>1, <1>2, <2>3, OnlyOwn
    <3>2. body' = body
      BY <1>1, <1>2, OnlyCommit
    <3>3. Own(q) /\ Locked(q)
      BY DEF ProfileInv
    <3>4. Own(q)'
      BY <3>1, <3>2, <3>3 DEF Own
    <3>5. Locked(q)'
      BY <3>1, <3>2, <3>3 DEF Locked
    <3>6. QED
      BY <1>2, <2>3, <3>4, <3>5, ExclusiveOther
  <2>4. QED
    BY <1>1, <2>1, <2>2, <2>3 DEF ProfileInv
<1>3. CASE UNCHANGED vars
  <2>1. UNCHANGED <<body, profile, rows, lock, step, changed, doomed, deleted, left, inserted, clash>>
    BY <1>3 DEF vars, stored, work
  <2>2. Ordered'
    BY <2>1 DEF ProfileInv, Ordered, Unordered
  <2>3. ASSUME NEW r \in Requests PROVE Own(r)' /\ Locked(r)' /\ Exclusive(r)'
    BY <2>1 DEF ProfileInv, Own, Locked, Exclusive, Target, StoredAddresses, AddressesOf
  <2>4. QED
    BY <1>1, <2>2, <2>3 DEF ProfileInv
<1>4. QED
  BY <1>2, <1>3 DEF Next, Acts

-----------------------------------------------------------------------------
\* A commit does what ProfileSpec says of the whole request.
LEMMA CommitApplies ==
  ASSUME ProfileInv, NEW p \in Requests, Commit(p), ~clash
  PROVE  Promise!Apply(p)
<1>0. TypeOK /\ Own(p) /\ Exclusive(p)
  BY DEF ProfileInv
<1>1. step[p] = "commit" /\ UNCHANGED body /\ profile' = Promise!Written(p)
  BY DEF Commit, Promise!Written
<1>2. rows' = (rows \ deleted[p]) \cup inserted[p]
  BY DEF Commit
<1>3. /\ body[p].kind \in {"bootstrap", "update"}
      /\ body[p].kind = "bootstrap" => body[p].writes
      /\ body[p].writes \in BOOLEAN
  BY <1>0, BodyFacts
<1>4. body[p].writes => StoredAddresses' = Target(p)
  <2>1. body[p].writes => AddressesOf((rows \ deleted[p]) \cup inserted[p]) = Target(p)
    BY <1>0, <1>1 DEF Exclusive, Own
  <2>2. StoredAddresses' = AddressesOf((rows \ deleted[p]) \cup inserted[p])
    BY <1>2 DEF StoredAddresses, AddressesOf
  <2>3. QED
    BY <2>1, <2>2
<1>5. ~body[p].writes => StoredAddresses' = StoredAddresses
  <2>1. ~body[p].writes => rows' = rows
    BY <1>0, <1>2 DEF Own
  <2>2. QED
    BY <2>1 DEF StoredAddresses, AddressesOf
<1>6. StoredAddresses' = Promise!Replaced(p)
  <2>1. CASE body[p].kind = "bootstrap"
    BY <1>3, <1>4, <2>1 DEF Promise!Replaced, Target
  <2>2. CASE body[p].kind = "update" /\ body[p].writes
    BY <1>4, <2>2 DEF Promise!Replaced, Target
  <2>3. CASE body[p].kind = "update" /\ ~body[p].writes
    BY <1>5, <2>3 DEF Promise!Replaced
  <2>4. QED
    BY <1>3, <2>1, <2>2, <2>3
<1>7. body[p].kind = "update" => (p \in changed <=> StoredAddresses' # StoredAddresses)
  <2>1. body[p].kind = "update" /\ body[p].writes =>
          (p \in changed <=> StoredAddresses # body[p].addresses)
    BY <1>0, <1>1 DEF Exclusive
  <2>2. body[p].kind = "update" /\ body[p].writes => StoredAddresses' = body[p].addresses
    BY <1>4 DEF Target
  <2>3. ~body[p].writes => p \notin changed
    BY <1>0 DEF Own
  <2>4. QED
    BY <1>3, <1>5, <2>1, <2>2, <2>3
<1>8. TellsChange' = IF p \in changed THEN TellsChange \cup {p} ELSE TellsChange
  <2>1. changed' = changed /\ step'[p] \in Committed /\ step[p] \notin Committed
    BY <1>0, <1>1 DEF Commit, Ended, Committed, TypeOK
  <2>2. \A q \in Requests : q # p => step'[q] = step[q]
    BY <1>0 DEF Commit, Ended, TypeOK
  <2>3. QED
    BY <1>0, <2>1, <2>2 DEF TellsChange, TypeOK
<1>9. body[p].kind = "bootstrap" => p \notin changed
  BY <1>0 DEF Own
<1>10. QED
  BY <1>1, <1>3, <1>6, <1>7, <1>8, <1>9 DEF Promise!Apply

\* Every other step changes nothing that ProfileSpec speaks of.
LEMMA OtherStutters ==
  ASSUME ProfileInv, NEW p \in Requests, Acts(p), ~Commit(p)
  PROVE  UNCHANGED <<profile, StoredAddresses, TellsChange>>
<1>0. TypeOK /\ Own(p)
  BY DEF ProfileInv
<1>1. profile' = profile /\ rows' = rows
  BY <1>0, OnlyCommit
<1>2. StoredAddresses' = StoredAddresses
  BY <1>1 DEF StoredAddresses, AddressesOf
<1>3. \A q \in Requests \ {p} : step'[q] = step[q] /\ (q \in changed' <=> q \in changed)
  BY <1>0, OnlyOwn
<1>4. p \in TellsChange' <=> p \in TellsChange
  <2> USE <1>0 DEF TypeOK
  <2>1. CASE Begin(p)
    <3>1. step'[p] = First(p) /\ step[p] = "idle"
      BY <2>1 DEF Begin
    <3>2. First(p) \notin Committed
      BY NextStatement DEF Committed
    <3>3. QED
      BY <3>1, <3>2 DEF TellsChange, Committed
  <2>2. CASE Refuse(p)
    BY <2>2 DEF Refuse, TellsChange, Committed
  <2>3. CASE WriteKey(p)
    <3>1. step'[p] = AfterKey(p) /\ step[p] = "key"
      BY <2>3 DEF WriteKey
    <3>2. AfterKey(p) \notin Committed
      BY NextStatement DEF Committed
    <3>3. QED
      BY <3>1, <3>2 DEF TellsChange, Committed
  <2>4. CASE Select(p)
    BY <2>4 DEF Select, TellsChange, Committed
  <2>5. CASE Scan(p)
    <3>1. step'[p] \in {"delete", AfterDelete(p)} /\ step[p] = "scan"
      BY <2>5 DEF Scan
    <3>2. AfterDelete(p) \notin Committed
      BY NextStatement DEF Committed
    <3>3. QED
      BY <3>1, <3>2 DEF TellsChange, Committed
  <2>6. ASSUME NEW row \in doomed[p], DeleteRow(p, row) PROVE p \in TellsChange' <=> p \in TellsChange
    <3>1. step'[p] \in {"delete", AfterDelete(p)} /\ step[p] = "delete"
      BY <2>6 DEF DeleteRow
    <3>2. AfterDelete(p) \notin Committed
      BY NextStatement DEF Committed
    <3>3. QED
      BY <3>1, <3>2 DEF TellsChange, Committed
  <2>7. ASSUME NEW a \in left[p], Insert(p, a) PROVE p \in TellsChange' <=> p \in TellsChange
    <3>1. step'[p] \in {"insert", AfterInsert(p)} /\ step[p] = "insert"
      BY <2>7 DEF Insert
    <3>2. AfterInsert(p) \notin Committed
      BY NextStatement DEF Committed
    <3>3. QED
      BY <3>1, <3>2 DEF TellsChange, Committed
  <2>8. CASE WritePref(p)
    BY <2>8 DEF WritePref, TellsChange, Committed
  <2>9. CASE ReadPref(p)
    BY <2>9 DEF ReadPref, work, TellsChange, Committed
  <2>10. CASE step[p] \in Open /\ Ended(p, "failed")
    BY <2>10 DEF Ended, TellsChange, Committed, Open
  <2>11. CASE step[p] = "read" /\ Ended(p, "unread")
    BY <2>11 DEF Ended, TellsChange, Committed
  <2>12. QED
    BY <2>1, <2>2, <2>3, <2>4, <2>5, <2>6, <2>7, <2>8, <2>9, <2>10, <2>11
       DEF Acts, Proceed, Fail, BreakDeadlock
<1>5. TellsChange' = TellsChange
  <2>1. TypeOK'
    BY <1>0, NextType DEF Next, Acts
  <2>2. QED
    BY <1>0, <1>3, <1>4, <2>1 DEF TellsChange, TypeOK
<1>6. QED
  BY <1>1, <1>2, <1>5

\* The inductive invariant: what each request has done, and what a writer that
\* has the row's lock knows of the stored addresses.
THEOREM ProfileInvariant == Spec => []ProfileInv
<1>1. QED
  BY InitProfile, ProfileStep, PTL DEF Spec

\* Each request takes effect at once, at its commit, and tells of the change of
\* the addresses, for any number of requests, as long as no two overlapping
\* address updates go without the profile row's lock.
THEOREM UpdatesAreAtomic == Spec => AtomicUpdates
<1>1. ProfileInv /\ [Next]_vars =>
        [~clash' => [Promise!Next]_<<profile, StoredAddresses, TellsChange>>]_vars
  <2> SUFFICES ASSUME ProfileInv, [Next]_vars, vars' # vars, ~clash'
               PROVE  [Promise!Next]_<<profile, StoredAddresses, TellsChange>>
    OBVIOUS
  <2>1. PICK p \in Requests : Acts(p)
    BY DEF Next, Acts
  <2>2. ~clash
    BY <2>1, OnlyCommit DEF ProfileInv
  <2>3. CASE Commit(p)
    BY <2>2, <2>3, CommitApplies DEF Promise!Next
  <2>4. CASE ~Commit(p)
    BY <2>1, <2>4, OtherStutters
  <2>5. QED
    BY <2>3, <2>4
<1>2. QED
  BY <1>1, ProfileInvariant, PTL DEF Spec, AtomicUpdates
=============================================================================
