--------------------------- MODULE MCMerkleCache ---------------------------
(* Values of the constants of MerkleCache for TLC.                         *)
EXTENDS MerkleCache

\* A catch-up from the start and requests in the middle that overlap.
MCRequests == {<<0, 3>>, <<1, 4>>}
=============================================================================
