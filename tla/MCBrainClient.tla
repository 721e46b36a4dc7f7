---------------------------- MODULE MCBrainClient ----------------------------
(* Instances of BrainClient for TLC: clients of one cluster.               *)
EXTENDS BrainClient

OneCluster == [c \in Clients |-> Endpoints]
=============================================================================
