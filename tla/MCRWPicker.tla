----------------------------- MODULE MCRWPicker -----------------------------
(* Instances of RWPicker for TLC: how many servers are ready.              *)
EXTENDS RWPicker, TLC

CONSTANTS a, b, x, g1, g2, g3

\* No server, one or two: as many as have connected when gRPC builds it.
AnyReady == {{}, {a}, {a, b}}
OneReady == {{a}}

\* The leader is known when the picker is built, or it may not be.
LeaderKnown == {a}
AnyLeader == {NoLeader, a}
=============================================================================
