----------------------------- MODULE FeedOrder -----------------------------
(***************************************************************************)
(* The sequence keys of src/sidecar/src/sequence.rs at the grain of a      *)
(* transaction: <<block height, transaction id>>, in lexicographic order.  *)
(***************************************************************************)
EXTENDS Integers

\* No cursor: the client asks by height.
NoCursor == <<>>

Key == Nat \X Nat

\* The derived order of SequenceKey.
KeyLess(j, k) == j[1] < k[1] \/ (j[1] = k[1] /\ j[2] < k[2])

\* A transaction of a block as a client holds it: with the hashes of the
\* block's meta.
ItemOf(b, i) == [height |-> b.height, tx |-> i, hash |-> b.hash, parent |-> b.parent]
=============================================================================
