----------------------------- MODULE MCSessions -----------------------------
(***************************************************************************)
(* Values of the constants of Sessions for TLC: two sessions with the same *)
(* viewing key.  Sessions with keys of their own share no state.           *)
(***************************************************************************)
EXTENDS Sessions

MCSessions == {"s1", "s2"}
MCUpstreams == {"u1"}
MCSharedKey == [s \in MCSessions |-> "u1"]
=============================================================================
