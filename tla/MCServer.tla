------------------------------ MODULE MCServer ------------------------------
(***************************************************************************)
(* Values of the constants of Server for TLC: as many streams as           *)
(* connections, which is the least with which they can exhaust the pool.   *)
(***************************************************************************)
EXTENDS Server

MCStreams == {"s1", "s2"}
MCSessions == {"u1"}
=============================================================================
