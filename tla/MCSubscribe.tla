---------------------------- MODULE MCSubscribe ----------------------------
(* Values of the constants of Subscribe for TLC.                           *)
EXTENDS Subscribe

\* No transaction, an irrelevant one, a relevant one, two relevant ones.
MCTxLists == {<<>>, <<FALSE>>, <<TRUE>>, <<TRUE, TRUE>>}

\* No transaction or one of either kind.
MCOneTx == {<<>>, <<FALSE>>, <<TRUE>>}
=============================================================================
