---------------------------- MODULE MCFeedItems ----------------------------
(***************************************************************************)
(* Values of the constants of FeedItems for TLC: two addresses, two dust   *)
(* keys, and transactions that mix what the queries tell apart.            *)
(***************************************************************************)
EXTENDS FeedItems

MCShapes ==
  {[relevant |-> TRUE,  events |-> <<"input">>,       creates |-> <<>>],
   [relevant |-> FALSE, events |-> <<"input", "k2">>, creates |-> <<>>],
   [relevant |-> FALSE, events |-> <<"k1">>,          creates |-> <<"a1">>],
   [relevant |-> FALSE, events |-> <<>>,              creates |-> <<"a1", "a2">>]}

\* One address or both, under one dust key.
MCAddressProfiles ==
  {[addresses |-> a, dust |-> "k1"] : a \in {{"a1"}, {"a2"}, {"a1", "a2"}}}
=============================================================================
