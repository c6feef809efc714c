----------------------------- MODULE MCProfiles -----------------------------
(***************************************************************************)
(* Values of the constants of Profiles for TLC: every choice of three      *)
(* requests among six, in progress in any order.                           *)
(***************************************************************************)
EXTENDS Profiles, Sequences, Naturals

MCRequests == {"r1", "r2", "r3"}
MCAddresses == {"a", "b"}

Update(key, writes, addresses, pref) ==
  [kind |-> "update", key |-> key, writes |-> writes, addresses |-> addresses, pref |-> pref]

MCKinds == <<
  [kind |-> "bootstrap", key |-> TRUE, writes |-> TRUE, addresses |-> {"a"}, pref |-> TRUE],
  Update(TRUE, TRUE, {"b"}, FALSE),
  Update(TRUE, TRUE, {"a", "b"}, TRUE),
  Update(FALSE, TRUE, {"b"}, TRUE),
  Update(FALSE, TRUE, {}, FALSE),
  Update(FALSE, FALSE, {}, TRUE) >>

\* The requests are alike: their numbers need not be permuted.
MCBodies ==
  {[r1 |-> MCKinds[c[1]], r2 |-> MCKinds[c[2]], r3 |-> MCKinds[c[3]]] :
     c \in {d \in [1 .. 3 -> DOMAIN MCKinds] : d[1] <= d[2] /\ d[2] <= d[3]}}

\* Two updates of the addresses alone.
MCAddressOnly ==
  {[r \in {"r1", "r2"} |-> Update(FALSE, TRUE, IF r = "r1" THEN {"a"} ELSE {"b"}, FALSE)]}
=============================================================================
