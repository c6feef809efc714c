------------------------------ MODULE Profiles ------------------------------
(***************************************************************************)
(* The stored profile of one session: update_profile and the transaction   *)
(* of bootstrap (src/sidecar/src/routes/session.rs), with several requests *)
(* in progress at once.                                                    *)
(*                                                                         *)
(* The handlers run in READ COMMITTED transactions, so every statement is  *)
(* a step and a DELETE takes its rows one by one.  PostgreSQL (external)   *)
(* is modelled by what it lets a statement see and wait for: committed     *)
(* rows; the lock that a written profile row keeps until the end of the    *)
(* transaction; the rows another open transaction deletes or inserts; and  *)
(* the deadlock detector.  (The KEY SHARE lock that the foreign key of an  *)
(* address takes does not conflict with these updates of the profile row.) *)
(* Sessions share no rows.                                                 *)
(***************************************************************************)
EXTENDS FiniteSets

CONSTANTS
  Requests,  \* the requests, each made once; a retry is another one
  Addresses, \* unshielded addresses
  Bodies     \* what the requests may ask for: a set of functions

NoRequest == "none"

\* A bootstrap always gives everything, and one address; writes:
\* unshieldedAddresses is given.
Body ==
  [kind : {"bootstrap"}, key : {TRUE}, writes : {TRUE},
   addresses : {{a} : a \in Addresses}, pref : {TRUE}]
    \cup [kind : {"update"}, key : BOOLEAN, writes : BOOLEAN,
          addresses : SUBSET Addresses, pref : BOOLEAN]

ASSUME ProfilesAssumption ==
  /\ NoRequest \notin Requests
  /\ Bodies \subseteq [Requests -> Body]

VARIABLES
  body,     \* what each request asks for
  profile,  \* session_profile: who wrote each column last; NoRequest: no row
  rows,     \* session_unshielded_address: <<address, who inserted it>>
  lock,     \* the open transaction that has written the profile row
  step,     \* the next statement of each request, or what became of it
  changed,  \* the requests whose SELECT found other addresses than they give
  doomed,   \* the rows its DELETE still has to look at
  deleted,  \* the rows it has deleted, not committed
  left,     \* the addresses it still has to insert
  inserted, \* the rows it has inserted, not committed
  clash     \* history: address updates overlapped, one without a lock

stored == <<profile, rows>>
work == <<changed, doomed, deleted, left, inserted>>
vars == <<body, stored, lock, step, work, clash>>

Row == Addresses \X (Requests \cup {"earlier"})

Open == {"key", "select", "scan", "delete", "insert", "pref", "commit"}
Committed == {"read", "unread", "answered"}

TypeOK ==
  /\ body \in [Requests -> Body]
  /\ profile \in [key : Requests \cup {"earlier", NoRequest}, pref : Requests \cup {"earlier", NoRequest}]
  /\ rows \subseteq Row
  /\ lock \in Requests \cup {NoRequest}
  /\ step \in [Requests -> Open \cup Committed \cup {"idle", "refused", "failed"}]
  /\ changed \subseteq Requests
  /\ left \in [Requests -> SUBSET Addresses]
  /\ doomed \in [Requests -> SUBSET Row]
  /\ deleted \in [Requests -> SUBSET Row] /\ inserted \in [Requests -> SUBSET Row]
  /\ clash \in BOOLEAN

NoProfile == [key |-> NoRequest, pref |-> NoRequest]
Earlier == [key |-> "earlier", pref |-> "earlier"]

\* The session is new, or was bootstrapped earlier.
Init ==
  /\ body \in Bodies
  /\ \/ profile = NoProfile /\ rows = {}
     \/ profile = Earlier /\ \E a \in Addresses : rows = {<<a, "earlier">>}
  /\ lock = NoRequest
  /\ step = [r \in Requests |-> "idle"]
  /\ changed = {} /\ left = [r \in Requests |-> {}]
  /\ doomed = [r \in Requests |-> {}]
  /\ deleted = [r \in Requests |-> {}] /\ inserted = [r \in Requests |-> {}]
  /\ clash = FALSE

AddressesOf(rs) == {row[1] : row \in rs}

-----------------------------------------------------------------------------
(* The order of the statements; those the body does not ask for are left   *)
(* out.                                                                    *)

AfterInsert(r) == IF body[r].kind = "update" /\ body[r].pref THEN "pref" ELSE "commit"

AfterDelete(r) == IF left[r] # {} THEN "insert" ELSE AfterInsert(r)

\* Mutant of AfterKey: the SELECT of the addresses is skipped.
AfterKeyUnseen(r) ==
  CASE body[r].writes /\ body[r].kind = "update" -> "scan"
    [] body[r].writes /\ body[r].kind = "bootstrap" -> "insert"
    [] OTHER -> AfterInsert(r)

AfterKey(r) ==
  CASE body[r].writes /\ body[r].kind = "update" -> "select"
    [] body[r].writes /\ body[r].kind = "bootstrap" -> "insert"
    [] OTHER -> AfterInsert(r)

First(r) == IF body[r].key THEN "key" ELSE AfterKey(r)

\* Two requests write addresses and one of them does not lock the profile row.
Unordered(r, q) ==
  /\ body[r].writes /\ body[q].writes
  /\ ~body[r].key \/ ~body[q].key

\* require_session_exists, then the transaction begins.
Begin(r) ==
  /\ step[r] = "idle"
  /\ body[r].kind = "bootstrap" \/ profile # NoProfile
  /\ step' = [step EXCEPT ![r] = First(r)]
  /\ left' = [left EXCEPT ![r] = body[r].addresses]
  /\ clash' = (clash \/ \E q \in Requests \ {r} : step[q] \in Open /\ Unordered(r, q))
  /\ UNCHANGED <<body, stored, lock, changed, doomed, deleted, inserted>>

\* 404: the session is not there (yet).
Refuse(r) ==
  /\ step[r] = "idle"
  /\ body[r].kind = "update" /\ profile = NoProfile
  /\ step' = [step EXCEPT ![r] = "refused"]
  /\ UNCHANGED <<body, stored, lock, work, clash>>

\* Mutant of WriteKey: the row is not locked until the transaction commits.
WriteKeyUnlocked(r) ==
  /\ step[r] = "key"
  /\ lock = NoRequest
  /\ step' = [step EXCEPT ![r] = AfterKey(r)]
  /\ UNCHANGED <<body, stored, lock, work, clash>>

\* The upsert of session_profile: waits for the transaction that wrote the row.
WriteKey(r) ==
  /\ step[r] = "key"
  /\ lock = NoRequest
  /\ lock' = r
  /\ step' = [step EXCEPT ![r] = AfterKey(r)]
  /\ UNCHANGED <<body, stored, work, clash>>

\* SELECT address: addresses_changed, by the committed rows.
Select(r) ==
  /\ step[r] = "select"
  /\ changed' = IF AddressesOf(rows) # body[r].addresses THEN changed \cup {r} ELSE changed
  /\ step' = [step EXCEPT ![r] = "scan"]
  /\ UNCHANGED <<body, stored, lock, doomed, deleted, left, inserted, clash>>

\* The DELETE starts: its rows are those committed now.
Scan(r) ==
  /\ step[r] = "scan"
  /\ doomed' = [doomed EXCEPT ![r] = rows]
  /\ step' = [step EXCEPT ![r] = IF rows = {} THEN AfterDelete(r) ELSE "delete"]
  /\ UNCHANGED <<body, stored, lock, changed, deleted, left, inserted, clash>>

\* The DELETE comes to a row.  It waits for the transaction that is deleting
\* it; one that has gone meanwhile is skipped.
DeleteRow(r, row) ==
  /\ step[r] = "delete" /\ row \in doomed[r]
  /\ \A q \in Requests \ {r} : row \notin deleted[q]
  /\ doomed' = [doomed EXCEPT ![r] = @ \ {row}]
  /\ deleted' = IF row \in rows THEN [deleted EXCEPT ![r] = @ \cup {row}] ELSE deleted
  /\ step' = [step EXCEPT ![r] = IF doomed[r] = {row} THEN AfterDelete(r) ELSE "delete"]
  /\ UNCHANGED <<body, stored, lock, changed, left, inserted, clash>>

\* Mutant of NewRow: the parameters are bound in the other order.
SwappedRow(a, r) == <<r, a>>

NewRow(a, r) == <<a, r>>

\* INSERT ... ON CONFLICT DO NOTHING of one address: waits for a transaction
\* that is deleting or inserting the same address.
Insert(r, a) ==
  /\ step[r] = "insert" /\ a \in left[r]
  /\ \A q \in Requests \ {r} : a \notin AddressesOf(deleted[q] \cup inserted[q])
  /\ inserted' =
       IF a \in AddressesOf(rows \ deleted[r]) THEN inserted
       ELSE [inserted EXCEPT ![r] = @ \cup {NewRow(a, r)}]
  /\ left' = [left EXCEPT ![r] = @ \ {a}]
  /\ step' = [step EXCEPT ![r] = IF left[r] = {a} THEN AfterInsert(r) ELSE "insert"]
  /\ UNCHANGED <<body, stored, lock, changed, doomed, deleted, clash>>

\* UPDATE session_profile SET nullifier_streaming.
WritePref(r) ==
  /\ step[r] = "pref"
  /\ lock \in {NoRequest, r}
  /\ lock' = r
  /\ step' = [step EXCEPT ![r] = "commit"]
  /\ UNCHANGED <<body, stored, work, clash>>

\* The transaction of r has ended: its locks are gone.
Released(r) == IF lock = r THEN NoRequest ELSE lock

\* Mutant of Ended: a failed transaction keeps its connection and its locks.
EndedLeaking(r, outcome) ==
  /\ step' = [step EXCEPT ![r] = outcome]
  /\ changed' = changed
  /\ lock' = IF outcome = "failed" THEN lock ELSE Released(r)
  /\ UNCHANGED <<doomed, deleted, inserted, left>>

Ended(r, outcome) ==
  /\ step' = [step EXCEPT ![r] = outcome]
  /\ changed' = IF outcome = "failed" THEN changed \ {r} ELSE changed
  /\ lock' = Released(r)
  /\ doomed' = [doomed EXCEPT ![r] = {}]
  /\ deleted' = [deleted EXCEPT ![r] = {}]
  /\ left' = [left EXCEPT ![r] = {}]
  /\ inserted' = [inserted EXCEPT ![r] = {}]

Commit(r) ==
  /\ step[r] = "commit"
  /\ profile' = [key  |-> IF body[r].key THEN r ELSE profile.key,
                 pref |-> IF body[r].pref THEN r ELSE profile.pref]
  /\ rows' = (rows \ deleted[r]) \cup inserted[r]
  /\ Ended(r, IF body[r].kind = "update" THEN "read" ELSE "answered")
  /\ UNCHANGED <<body, clash>>

\* After the commit, on a connection of its own: the preference as it is now.
ReadPref(r) ==
  /\ step[r] = "read"
  /\ step' = [step EXCEPT ![r] = "answered"]
  /\ UNCHANGED <<body, stored, lock, work, clash>>

\* A statement fails or the client goes away: a transaction that is still open
\* is rolled back; after the commit only the reply is lost.
Fail(r) ==
  /\ \/ step[r] \in Open /\ Ended(r, "failed")
     \/ step[r] = "read" /\ Ended(r, "unread")
  /\ UNCHANGED <<body, stored, clash>>

-----------------------------------------------------------------------------
(* The deadlock detector (external).                                       *)

\* r has a statement that waits for q.
WaitsFor(r, q) ==
  \/ step[r] \in {"key", "pref"} /\ lock = q
  \/ step[r] = "delete" /\ doomed[r] \cap deleted[q] # {}
  \/ step[r] = "insert" /\ left[r] \cap AddressesOf(deleted[q] \cup inserted[q]) # {}

Deadlocked(r) ==
  \E ring \in SUBSET Requests :
    r \in ring /\ \A p \in ring : \E q \in ring \ {p} : WaitsFor(p, q)

\* One of the transactions in the ring is rolled back.
BreakDeadlock(r) ==
  /\ step[r] \in Open
  /\ Deadlocked(r)
  /\ Ended(r, "failed")
  /\ UNCHANGED <<body, stored, clash>>

-----------------------------------------------------------------------------
Proceed(r) ==
  \/ WriteKey(r) \/ Select(r) \/ Scan(r) \/ WritePref(r) \/ Commit(r) \/ ReadPref(r)
  \/ \E row \in doomed[r] : DeleteRow(r, row)
  \/ \E a \in left[r] : Insert(r, a)

Next == \E r \in Requests : Begin(r) \/ Refuse(r) \/ Proceed(r) \/ Fail(r) \/ BreakDeadlock(r)

Spec == Init /\ [][Next]_vars

\* Statements that need not wait are executed, and PostgreSQL looks for
\* deadlocks (deadlock_timeout).
FairSpec ==
  /\ Spec
  /\ \A r \in Requests : WF_vars(Proceed(r)) /\ WF_vars(BreakDeadlock(r))

-----------------------------------------------------------------------------
(* Properties.                                                             *)

StoredAddresses == AddressesOf(rows)

\* The committed requests with addressesChanged.
TellsChange == {r \in changed : step[r] \in Committed}

Promise == INSTANCE ProfileSpec WITH addresses <- StoredAddresses, told <- TellsChange

\* Each request takes effect at once, at its commit, and its reply tells of
\* the change of the stored addresses, whatever is in progress meanwhile and
\* whatever fails; as long as the address updates that overlap give the dust
\* key too, with whose upsert they lock the profile row first.
AtomicUpdates == [][~clash' => [Promise!Next]_<<profile, StoredAddresses, TellsChange>>]_vars

\* "Replace unshielded addresses if provided": when an update of the addresses
\* commits, those it gives are stored and no others; also when the updates
\* that overlap do not lock the profile row.
ReplacesAddresses ==
  [][\A r \in Requests :
       body[r].kind = "update" /\ body[r].writes /\ step[r] = "commit" /\ step'[r] = "read" =>
         StoredAddresses' = body[r].addresses]_vars

\* Every request ends, with a reply or an error: updates that lock the
\* profile row and the address rows in opposite orders do not block each other
\* for ever.
Answered == \A r \in Requests : step[r] \in Open ~> step[r] \notin Open
=============================================================================
