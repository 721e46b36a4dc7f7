----------------------------- MODULE LeaderProbe -----------------------------
(***************************************************************************)
(* What one check of the leader promises to the registry, which calls it   *)
(* (CheckResults of LeaderCtrl), with no connections, goroutines or        *)
(* channels: the leader it reports has answered that it serves, and it     *)
(* reports none only when all the answers were different or time is up.    *)
(***************************************************************************)
CONSTANTS Endpoints, NoLeader

VARIABLES answer,      \* answer[ep]: "asked", "serving" or "no"
          expired,     \* time is up
          verdict      \* {} while the check runs, else {ep} or {NoLeader}

probeVars == <<answer, expired, verdict>>

Init == /\ answer = [ep \in Endpoints |-> "asked"]
        /\ expired = FALSE
        /\ verdict = {}

Answer(ep) == /\ answer[ep] = "asked"
              /\ \E a \in {"serving", "no"} : answer' = [answer EXCEPT ![ep] = a]
              /\ UNCHANGED <<expired, verdict>>

Expire == expired' = TRUE /\ UNCHANGED <<answer, verdict>>

Decide(ep) == /\ verdict = {}
              /\ answer[ep] = "serving"
              /\ verdict' = {ep}
              /\ UNCHANGED <<answer, expired>>

GiveUp == /\ verdict = {}
          /\ expired \/ \A ep \in Endpoints : answer[ep] = "no"
          /\ verdict' = {NoLeader}
          /\ UNCHANGED <<answer, expired>>

Next == (\E ep \in Endpoints : Answer(ep) \/ Decide(ep)) \/ Expire \/ GiveUp

Spec == Init /\ [][Next]_probeVars
=============================================================================
