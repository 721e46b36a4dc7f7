-------------------------- MODULE ClusterDirectory --------------------------
(***************************************************************************)
(* What the leader registry of the picker package promises to the rest of  *)
(* the client, with no records, locks, reference counts or goroutines: a   *)
(* cluster has a set of members (the clients that registered it and did    *)
(* not close), and as long as it has one it may know a leader.             *)
(***************************************************************************)
CONSTANTS Endpoints,  \* server addresses
          Clients,    \* client handles
          Config,     \* [Clients -> SUBSET Endpoints], Config.Endpoints
          NoLeader    \* the empty leader string

VARIABLES members,    \* members[cl]: the clients that keep cluster cl alive
          known       \* known[cl]: what GetLeader answers for cluster cl

dirVars == <<members, known>>

Clusters == {Config[c] : c \in Clients}

Init == /\ members = [cl \in Clusters |-> {}]
        /\ known = [cl \in Clusters |-> NoLeader]

\* The first member brings the result of its own check; a later one takes
\* the cluster as it is.
Join(c) ==
    /\ c \notin members[Config[c]]
    /\ members' = [members EXCEPT ![Config[c]] = @ \cup {c}]
    /\ IF members[Config[c]] = {}
       THEN \E e \in Config[c] \cup {NoLeader} :
                known' = [known EXCEPT ![Config[c]] = e]
       ELSE UNCHANGED known

\* With its last member the cluster is forgotten.
Leave(c) ==
    /\ c \in members[Config[c]]
    /\ members' = [members EXCEPT ![Config[c]] = @ \ {c}]
    /\ known' = IF members[Config[c]] = {c}
                THEN [known EXCEPT ![Config[c]] = NoLeader]
                ELSE known

\* A check finds a leader of the cluster: never another cluster's endpoint,
\* never "no leader", and never for a cluster nobody is a member of.
Learn(cl) ==
    /\ members[cl] # {}
    /\ \E e \in cl : known' = [known EXCEPT ![cl] = e]
    /\ UNCHANGED members

Next == \/ \E c \in Clients : Join(c) \/ Leave(c)
        \/ \E cl \in Clusters : Learn(cl)

Spec == Init /\ [][Next]_dirVars
=============================================================================
