---------------------------- MODULE ProfileSpec ----------------------------
(***************************************************************************)
(* What PUT /v1/session/:sessionId/profile and bootstrap promise of a      *)
(* session's stored profile (the comments of                               *)
(* src/sidecar/src/routes/session.rs): "Use a transaction to ensure        *)
(* atomicity", "Replace unshielded addresses if provided", and a reply     *)
(* that says whether the addresses changed, so that the client restarts    *)
(* its feed.  A request takes effect in one step.                          *)
(***************************************************************************)
CONSTANTS Requests

VARIABLES
  body,      \* what each request asks for
  profile,   \* the request that wrote each column last
  addresses, \* the stored addresses
  told       \* the requests that report a change of the addresses

Written(r) ==
  [key  |-> IF body[r].key THEN r ELSE profile.key,
   pref |-> IF body[r].pref THEN r ELSE profile.pref]

\* A bootstrap adds its address, an update replaces them all.
Replaced(r) ==
  CASE body[r].kind = "bootstrap" -> addresses \cup body[r].addresses
    [] body[r].kind = "update" /\ body[r].writes -> body[r].addresses
    [] OTHER -> addresses

Apply(r) ==
  /\ profile' = Written(r)
  /\ addresses' = Replaced(r)
  /\ told' = IF body[r].kind = "update" /\ addresses' # addresses
             THEN told \cup {r} ELSE told
  /\ UNCHANGED body

Next == \E r \in Requests : Apply(r)
=============================================================================
