----------------------------- MODULE MCPollFeed -----------------------------
(* Values of the constants of PollFeed for TLC.                            *)
EXTENDS PollFeed

\* No transaction, an irrelevant one, a relevant one, two relevant ones.
MCTxLists == {<<>>, <<FALSE>>, <<TRUE>>, <<TRUE, TRUE>>}
=============================================================================
