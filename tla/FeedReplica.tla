---------------------------- MODULE FeedReplica ----------------------------
(***************************************************************************)
(* What the feed promises a wallet, whatever carries it: the wallet's copy *)
(* of its history is at every moment an initial segment of that history in *)
(* the order of the sequence keys, and it only ever grows.                 *)
(***************************************************************************)
CONSTANT Before(_, _)  \* the order of sequence keys

VARIABLES
  history,  \* the keys of the wallet's items that are ready to be served
  copy      \* the keys of the items the client has stored

replica == <<history, copy>>

ReplicaInit == history = {} /\ copy = {}

\* New items sort after all those that were ready before.
Grow ==
  /\ history \subseteq history'
  /\ \A k \in history, n \in history' \ history : Before(k, n)
  /\ UNCHANGED copy

\* The copy is extended without a hole.
Sync ==
  /\ copy \subseteq copy'
  /\ copy' \subseteq history
  /\ \A k \in history, n \in copy' : Before(k, n) => k \in copy'
  /\ UNCHANGED history

ReplicaSpec == ReplicaInit /\ [][Grow \/ Sync]_replica
=============================================================================
