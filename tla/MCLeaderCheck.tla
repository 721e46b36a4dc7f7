--------------------------- MODULE MCLeaderCheck ---------------------------
(* Instances of LeaderCheck for TLC: two hosts, of which one has an        *)
(* address of its own and one that leads to the other host as well.        *)
EXTENDS LeaderCheck

Hosts == {[scheme |-> "https", host |-> "a"], [scheme |-> "http", host |-> "b"]}

Addresses == {1, 2}

SharedAddress == {<<"tcp", "a", 1>>, <<"tcp", "a", 2>>, <<"tcp", "b", 2>>}
=============================================================================
