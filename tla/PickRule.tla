------------------------------ MODULE PickRule ------------------------------
(***************************************************************************)
(* Where a picker sends a call (pickReader and pickWriter in               *)
(* client/balancer/picker/rw_separated.go), when nothing changes while it  *)
(* decides.  RWPicker shows that every Pick that returns does what this    *)
(* rule says for a leader of some moment of the call; BrainClient takes    *)
(* the rule for the Pick.                                                  *)
(***************************************************************************)
CONSTANT NoLeader       \* the empty leader string

\* The ready servers that reads go to, with leader l.
Followers(ready, l) == IF l = NoLeader THEN {} ELSE ready \ {l}

\* A read goes to any follower, and with no follower, or no leader known,
\* where a write goes: to the leader if it is ready.
Targets(kind, ready, l) ==
    IF kind = "read" /\ Followers(ready, l) # {} THEN Followers(ready, l)
                                                 ELSE ready \cap {l}
=============================================================================
