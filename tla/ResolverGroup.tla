---------------------------- MODULE ResolverGroup ----------------------------
(***************************************************************************)
(* How a connection learns its servers (client/balancer/resolver/          *)
(* resolver.go): the builder that is registered with gRPC has a map of     *)
(* resolver groups, one per client, by a unique id; gRPC dials a target    *)
(* with that id in it and gets a resolver, which tells the connection the  *)
(* addresses of the group.  A group has the resolver of one connection.    *)
(***************************************************************************)
CONSTANTS Ids,         \* the ids of groups
          Servers      \* addresses

VARIABLES resolverGroups, \* the ids in the map of the builder
          addrs,          \* addrs[id]: the addresses of the group
          resolvers,      \* the ids of groups that have their resolver
          known           \* known[id]: what the connection was told

GroupInit ==
    /\ resolverGroups = {}
    /\ addrs = [id \in Ids |-> {}]
    /\ resolvers = {}
    /\ known = [id \in Ids |-> {}]

NewResolverGroup(id) ==
    /\ resolverGroups' = resolverGroups \cup {id}
    /\ addrs' = [addrs EXCEPT ![id] = {}]
    /\ UNCHANGED <<resolvers, known>>

(* The addresses are kept, and go to the resolver if there is one.         *)
SetAddrs(id, servers) ==
    /\ addrs' = [addrs EXCEPT ![id] = servers]
    /\ known' = [known EXCEPT ![id] = IF id \in resolvers THEN servers ELSE @]
    /\ UNCHANGED <<resolverGroups, resolvers>>

(* A resolver is told the addresses of its group at once.                  *)
addResolver(id) ==
    /\ resolvers' = resolvers \cup {id}
    /\ known' = [known EXCEPT ![id] = addrs[id]]

removeResolver(id) == resolvers' = resolvers \ {id}

removeResolverGroup(id) == resolverGroups' = resolverGroups \ {id}

(* gRPC asks for a resolver for the id in its target.                      *)
Build(id) ==
    /\ id \in resolverGroups
    /\ addResolver(id)
    /\ UNCHANGED <<resolverGroups, addrs>>

(* customResolverGroup.Close.                                              *)
CloseGroup(id) ==
    /\ removeResolverGroup(id)
    /\ UNCHANGED <<addrs, resolvers, known>>

(* customResolver.Close leaves the group, if the builder still has it.     *)
CloseResolver(id) ==
    /\ IF id \in resolverGroups THEN removeResolver(id) ELSE UNCHANGED resolvers
    /\ UNCHANGED <<resolverGroups, addrs, known>>

\* Every variable has its type.
GroupTypeOK ==
    /\ resolverGroups \subseteq Ids
    /\ addrs \in [Ids -> SUBSET Servers]
    /\ resolvers \subseteq Ids
    /\ known \in [Ids -> SUBSET Servers]
=============================================================================
