--------------------------- MODULE MCSubscribedTrie ---------------------------
(* Two clients on two shards, filters above, below and beside each other.  *)
EXTENDS SubscribedTrie

CONSTANTS c1, c2, s1, s2

MCShardOf == c1 :> s1 @@ c2 :> s2

MCFilters == {<<"a">>, <<"a", "+", "#">>, <<"+">>}

(* The two sessions, each with its shard, and the options are alike.       *)
Symmetry == {c1 :> c2 @@ c2 :> c1 @@ s1 :> s2 @@ s2 :> s1} \cup Permutations(Opts)

MCTopics == {<<"a">>, <<"b">>, <<"a", "b">>, <<"b", "a">>, <<"a", "b", "a">>, <<"a", "b", "a", "b">>}
=============================================================================
