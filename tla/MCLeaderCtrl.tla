---------------------------- MODULE MCLeaderCtrl ----------------------------
(* Instances of LeaderCtrl for TLC: who is configured with which servers.  *)
EXTENDS LeaderCtrl, TLC

CONSTANTS a, b, x, c1, c2, c3

\* Three clients of one cluster.
AllShared == (c1 :> {a, b}) @@ (c2 :> {a, b}) @@ (c3 :> {a, b})

\* A client of one server of the cluster that two others use.
Overlapping == (c1 :> {a, b}) @@ (c2 :> {a}) @@ (c3 :> {a, b})

\* A client of one server of the cluster that another one uses.
PairOverlap == (c1 :> {a, b}) @@ (c2 :> {a})
=============================================================================
