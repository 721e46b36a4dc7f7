-------------------------- MODULE LeaderCtrlProofs --------------------------
(* Theorems about LeaderCtrl for every set of clients and configurations.  *)
EXTENDS LeaderCtrl, FiniteSetTheorems, TLAPS

\* Every cluster is registered under keys that leaderIndex may hold.
LEMMA KeyFacts ==
    /\ \A c \in Clients : Config[c] \in Clusters /\ Config[c] \in Keys
    /\ \A cl \in Clusters : cl \in Keys /\ cl # {} /\ cl \subseteq Endpoints
    /\ \A cl \in Clusters : \A e \in cl : {e} \in Keys
    /\ \A cl \in Clusters : KeysOf(cl) \subseteq Keys
  <1>1. \A c \in Clients : Config[c] \in (SUBSET Endpoints) \ {{}}
    BY ConfigAssumption
  <1>2. \A cl \in Clusters : cl # {} /\ cl \subseteq Endpoints
    BY <1>1 DEF Clusters
  <1>. QED  BY <1>1, <1>2 DEF Clusters, Keys, EndpointKeys, KeysOf

\* A check answers with a server of the cluster, or with none.
LEMMA CheckResultsType ==
    \A c \in Clients : /\ CheckResults(Config[c]) \subseteq Config[c] \cup {NoLeader}
                       /\ CheckResults(Config[c]) \subseteq Addresses
  BY KeyFacts DEF CheckResults, Addresses

LEMMA InitType == Init => TypeOK
  BY SentinelAssumption, BoundAssumption
  DEF Init, TypeOK, Counted, MaybeRecord, MaybeClient, Addresses

\* What the actions that end a call do to the variables of all the clients.
LEMMA LandType ==
    ASSUME TypeOK, NEW c \in Clients, Land(c)
    PROVE  /\ pc' \in [Clients -> Counted \cup {"new", "creating", "closed", "panicked"}]
           /\ flight' \in [Clusters -> MaybeClient]
           /\ joined' \in [Clients -> MaybeClient]
  BY DEF TypeOK, Land, MaybeClient, Counted

LEMMA ReindexType ==
    ASSUME index \in [Keys -> MaybeRecord], NEW keys, NEW r \in MaybeRecord
    PROVE  Reindex(keys, r) \in [Keys -> MaybeRecord]
  BY DEF Reindex

LEMMA DropType ==
    ASSUME TypeOK, NEW c \in Clients, DropReference(c)
    PROVE  /\ index' \in [Keys -> MaybeRecord]
           /\ amount' \in [Clients -> Int]
           /\ ctx' \in [Clients -> {"free", "live", "cancelled"}]
           /\ flight' \in [Clusters -> MaybeClient]
  <1>. DEFINE r == index[Config[c]]
  <1>1. r \in MaybeRecord /\ Config[c] \in Clusters
    BY KeyFacts DEF TypeOK
  <1>2. Reindex(KeysOf(Config[c]), NoRecord) \in [Keys -> MaybeRecord]
    BY ReindexType DEF TypeOK, MaybeRecord
  <1>. QED  BY <1>1, <1>2 DEF TypeOK, DropReference, recordVars, MaybeRecord, MaybeClient

LEMMA NewRecordType ==
    ASSUME TypeOK, NEW c \in Clients, NewRecord(c)
    PROVE  /\ leader' \in [Clients -> Addresses]
           /\ amount' \in [Clients -> Int]
           /\ checker' \in [Clients -> {"off", "idle", "found", "exited"}]
           /\ found' \in [Clients -> Addresses]
  BY DEF TypeOK, NewRecord, Addresses

LEMMA FirstCheckType ==
    ASSUME TypeOK, NEW c \in Clients, FirstCheck(c)
    PROVE  /\ found' \in [Clients -> Addresses]
           /\ \A d \in Clients \ {c} : found'[d] = found[d]
           /\ found'[c] \in Config[c] \cup {NoLeader}
  BY CheckResultsType DEF TypeOK, FirstCheck

LEMMA NextType == TypeOK /\ [Next]_vars => TypeOK'
  <1>. SUFFICES ASSUME TypeOK, [Next]_vars PROVE TypeOK'
    OBVIOUS
  <1>. USE DEF envVars, recordVars, checkVars, flightVars
  <1>1. CASE Elect
    BY <1>1, BoundAssumption DEF TypeOK, Elect
  <1>2. ASSUME NEW c \in Clients, Register(c) PROVE TypeOK'
    <2>1. CASE RegisterExisting(c)
      <3>1. index[Config[c]] \in Clients
        BY <2>1, KeyFacts DEF RegisterExisting, TypeOK, MaybeRecord
      <3>. QED  BY <2>1, <3>1 DEF TypeOK, RegisterExisting, Counted
    <2>2. CASE RegisterNew(c)
      BY <2>2, FirstCheckType DEF TypeOK, RegisterNew, MaybeClient
    <2>. QED  BY <1>2, <2>1, <2>2 DEF Register
  <1>3. ASSUME NEW c \in Clients, Create(c) PROVE TypeOK'
    <2>1. CASE CreateRecord(c)
      <3>1. Reindex(KeysOf(Config[c]), c) \in [Keys -> MaybeRecord]
        BY ReindexType DEF TypeOK, MaybeRecord
      <3>. QED  BY <2>1, <3>1, NewRecordType
           DEF TypeOK, CreateRecord, NewRecord, Counted, MaybeClient
    <2>2. CASE PanicOnConflict(c)
      <3>1. index' \in [Keys -> MaybeRecord]
        BY <2>2, ReindexType DEF TypeOK, MaybeRecord, PanicOnConflict
      <3>. QED  BY <2>2, <3>1, NewRecordType
           DEF TypeOK, PanicOnConflict, NewRecord, Counted, MaybeClient
    <2>. QED  BY <1>3, <2>1, <2>2 DEF Create
  <1>4. ASSUME NEW c \in Clients, Fly(c) PROVE TypeOK'
    <2>1. CASE StartFlight(c)
      BY <2>1, KeyFacts DEF TypeOK, StartFlight, Counted, MaybeClient
    <2>2. CASE JoinFlight(c)
      BY <2>2, KeyFacts DEF TypeOK, JoinFlight, Counted, MaybeClient
    <2>3. CASE LeaderIsSet(c)
      BY <2>3, LandType DEF TypeOK, LeaderIsSet
    <2>4. CASE LeaderIsUnset(c)
      BY <2>4 DEF TypeOK, LeaderIsUnset, Counted
    <2>5. CASE FlightFinds(c)
      BY <2>5, CheckResultsType DEF TypeOK, FlightFinds, Counted
    <2>6. CASE FlightFails(c)
      BY <2>6, LandType DEF TypeOK, FlightFails
    <2>7. CASE Publish(c)
      <3>1. leader' \in [Clients -> Addresses]
        BY <2>7 DEF TypeOK, Publish
      <3>2. found' \in [Clients -> Addresses]
        BY <2>7 DEF TypeOK, Publish, Addresses
      <3>. QED  BY <2>7, <3>1, <3>2, LandType DEF TypeOK, Publish
    <2>. QED  BY <1>4, <2>1, <2>2, <2>3, <2>4, <2>5, <2>6, <2>7 DEF Fly
  <1>5. ASSUME NEW c \in Clients, UpdateClusterLeader(c) PROVE TypeOK'
    BY <1>5 DEF TypeOK, UpdateClusterLeader, Counted
  <1>6. ASSUME NEW c \in Clients, Unregister(c) PROVE TypeOK'
    BY <1>6, DropType DEF TypeOK, Unregister
  <1>7. ASSUME NEW c \in Clients, UnregisterAgain(c) PROVE TypeOK'
    BY <1>7, DropType, BoundAssumption DEF TypeOK, UnregisterAgain
  <1>8. ASSUME NEW r \in Clients, HealthCheck(r) PROVE TypeOK'
    <2>1. CASE CheckFinds(r)
      BY <2>1, CheckResultsType DEF TypeOK, CheckFinds
    <2>2. CASE CheckStores(r)
      BY <2>2 DEF TypeOK, CheckStores, Addresses
    <2>3. CASE CheckerExits(r)
      BY <2>3 DEF TypeOK, CheckerExits
    <2>. QED  BY <1>8, <2>1, <2>2, <2>3 DEF HealthCheck
  <1>9. CASE UNCHANGED vars
    BY <1>9 DEF vars, TypeOK
  <1>. QED  BY <1>1, <1>2, <1>3, <1>4, <1>5, <1>6, <1>7, <1>8, <1>9 DEF Next

\* Type correctness of the registry: leaderIndex leads to records only, the
\* singleflight group to clients, and every record and handle is in one of
\* the states that the code gives it.
THEOREM TypeCorrect == Spec => []TypeOK
  BY InitType, NextType, PTL DEF Spec

-----------------------------------------------------------------------------
(***************************************************************************)
(* The registry when clusters do not overlap and no handle is closed       *)
(* twice.  What the runs check is not inductive as it stands: it relies on *)
(* the keys under which a record can be found, on the lock that covers a   *)
(* first check, and on where the answers of the checks come from.          *)
(***************************************************************************)

\* A record is found only under the keys of its own cluster.
OwnKeys ==
    \A k \in Keys : index[k] # NoRecord => k \in KeysOf(Config[index[k]])

\* Whoever creates a record holds the lock, and its cluster has none yet.
LockCoversCreation ==
    /\ \A c \in Clients : pc[c] = "creating" <=> lock = c
    /\ \A c \in Clients : pc[c] = "creating" => index[Config[c]] = NoRecord

\* A record exists only after its client created it, and a live record has
\* its goroutine.
RecordLife ==
    \A c \in Clients :
        /\ pc[c] \in {"new", "creating"} => ctx[c] = "free"
        /\ ctx[c] = "live" => checker[c] \in {"idle", "found"}

\* An indexed record has a member, and amount is how many.
Referenced ==
    \A cl \in Clusters : index[cl] # NoRecord => Members(cl) # {}

\* What the checks answered, and have not stored yet, is of the own cluster.
OwnAnswers ==
    \A c \in Clients :
        /\ seen[c] \in Config[c] \cup {NoLeader}
        /\ checker[c] = "found" => seen[c] # NoLeader
        /\ found[c] \in Config[c] \cup {NoLeader}
        /\ pc[c] = "publishing" => found[c] # NoLeader

RegistryInv ==
    /\ TypeOK
    /\ RefCountExact
    /\ Referenced
    /\ IndexCoherent
    /\ NoLeakedChecker
    /\ OwnKeys
    /\ LockCoversCreation
    /\ RecordLife
    /\ OwnAnswers
    /\ LeaderOfOwnCluster

\* Disjoint clusters have disjoint keys.
LEMMA DisjointKeys ==
    ASSUME DisjointClusters, NEW cl1 \in Clusters, NEW cl2 \in Clusters, cl1 # cl2
    PROVE  /\ cl2 \notin KeysOf(cl1)
           /\ \A e \in cl2 : {e} \notin KeysOf(cl1)
  <1>1. cl1 \cap cl2 = {} /\ cl1 # {} /\ cl2 # {}
    BY KeyFacts DEF DisjointClusters
  <1>. QED  BY <1>1 DEF KeysOf, EndpointKeys

\* The record of a cluster was created for that cluster.
LEMMA OwnRecord ==
    ASSUME DisjointClusters, TypeOK, OwnKeys,
           NEW cl \in Clusters, index[cl] # NoRecord
    PROVE  index[cl] \in Clients /\ Config[index[cl]] = cl
  <1>1. index[cl] \in Clients /\ cl \in KeysOf(Config[index[cl]])
    BY KeyFacts DEF TypeOK, OwnKeys, MaybeRecord
  <1>. QED  BY <1>1, KeyFacts, DisjointKeys

LEMMA MembersFinite ==
    ASSUME NEW cl \in Clusters
    PROVE  /\ IsFiniteSet(Members(cl))
           /\ Cardinality(Members(cl)) \in Nat
           /\ Cardinality(Members(cl)) = 0 <=> Members(cl) = {}
  <1>1. Members(cl) \subseteq Clients
    BY DEF Members
  <1>2. IsFiniteSet(Members(cl))
    BY <1>1, ClientsAssumption, FS_Subset
  <1>. QED  BY <1>2, FS_CardinalityType, FS_EmptySet

\* The parts of the invariant about who is in the index.
IndexInv == /\ RefCountExact
            /\ Referenced
            /\ IndexCoherent
            /\ NoLeakedChecker
            /\ OwnKeys

\* A step that touches neither the records nor the set of counted clients.
LEMMA QuietStep ==
    ASSUME IndexInv, UNCHANGED recordVars,
           \A c \in Clients : pc'[c] \in Counted <=> pc[c] \in Counted
    PROVE  IndexInv'
  <1>1. \A cl \in Clusters : Members(cl)' = Members(cl)
    BY DEF Members
  <1>. QED
    BY <1>1 DEF IndexInv, recordVars, RefCountExact, Referenced, IndexCoherent,
                NoLeakedChecker, OwnKeys

\* One more client refers to the record of its cluster.
LEMMA ExistingStep ==
    ASSUME DisjointClusters, TypeOK, IndexInv, NEW c \in Clients, RegisterExisting(c)
    PROVE  IndexInv'
  <1>. DEFINE cl == Config[c]
              r == index[cl]
  <1>1. /\ cl \in Clusters
        /\ r # NoRecord
        /\ r \in Clients
        /\ Config[r] = cl
    BY KeyFacts, OwnRecord DEF RegisterExisting, IndexInv
  <1>2. /\ Members(cl)' = Members(cl) \cup {c}
        /\ c \notin Members(cl)
        /\ \A other \in Clusters \ {cl} : Members(other)' = Members(other)
    BY DEF RegisterExisting, Members, Counted, TypeOK
  <1>3. /\ amount'[r] = amount[r] + 1
        /\ \A o \in Clients \ {r} : amount'[o] = amount[o]
        /\ index' = index /\ ctx' = ctx
    BY <1>1 DEF RegisterExisting, TypeOK
  <1>4. RefCountExact'
    <2>1. Cardinality(Members(cl) \cup {c}) = Cardinality(Members(cl)) + 1
      BY <1>1, <1>2, MembersFinite, FS_AddElement
    <2>2. amount'[r] = Cardinality(Members(cl)')
      BY <1>1, <1>2, <1>3, <2>1 DEF IndexInv, RefCountExact
    <2>3. ASSUME NEW other \in Clusters \ {cl}, index[other] # NoRecord
          PROVE  amount'[index[other]] = Cardinality(Members(other)')
      <3>1. index[other] \in Clients /\ index[other] # r
        BY <1>1, <2>3, OwnRecord DEF IndexInv
      <3>. QED  BY <1>2, <1>3, <2>3, <3>1 DEF IndexInv, RefCountExact
    <2>4. ASSUME NEW other \in Clusters \ {cl}, index[other] = NoRecord
          PROVE  Members(other)' = {}
      BY <1>2, <2>4 DEF IndexInv, RefCountExact
    <2>. QED  BY <1>1, <1>3, <2>2, <2>3, <2>4 DEF RefCountExact
  <1>5. Referenced'
    BY <1>1, <1>2, <1>3 DEF IndexInv, Referenced
  <1>. QED
    BY <1>3, <1>4, <1>5 DEF IndexInv, IndexCoherent, NoLeakedChecker, OwnKeys

\* The first client of a cluster creates its record.
LEMMA CreateStep ==
    ASSUME DisjointClusters, TypeOK, IndexInv, LockCoversCreation, RecordLife,
           NEW c \in Clients, CreateRecord(c)
    PROVE  IndexInv'
  <1>. DEFINE cl == Config[c]
  <1>1. /\ cl \in Clusters
        /\ index[cl] = NoRecord
        /\ ctx[c] = "free"
        /\ pc[c] = "creating"
    BY KeyFacts DEF CreateRecord, LockCoversCreation, RecordLife
  <1>2. /\ \A k \in KeysOf(cl) : index'[k] = c
        /\ \A k \in Keys \ KeysOf(cl) : index'[k] = index[k]
        /\ KeysOf(cl) \subseteq Keys
    BY <1>1, KeyFacts DEF CreateRecord, Reindex
  <1>3. /\ amount'[c] = 1 /\ ctx'[c] = "live"
        /\ \A o \in Clients \ {c} : amount'[o] = amount[o] /\ ctx'[o] = ctx[o]
    BY DEF CreateRecord, NewRecord, TypeOK
  <1>4. /\ index'[cl] = c
        /\ \A e \in cl : index'[{e}] = c
        /\ c # NoRecord
    BY <1>2, SentinelAssumption DEF KeysOf, EndpointKeys
  <1>5. \A other \in Clusters \ {cl} :
            /\ index'[other] = index[other]
            /\ \A e \in other : index'[{e}] = index[{e}]
    BY <1>1, <1>2, DisjointKeys, KeyFacts
  <1>6. /\ Members(cl)' = {c}
        /\ \A other \in Clusters \ {cl} : Members(other)' = Members(other)
    <2>1. Members(cl) = {}
      BY <1>1 DEF IndexInv, RefCountExact
    <2>. QED  BY <1>1, <2>1 DEF CreateRecord, Members, Counted, TypeOK
  <1>7. \A k \in Keys : index[k] # c
    BY <1>1, SentinelAssumption DEF IndexInv, NoLeakedChecker
  <1>8. RefCountExact'
    <2>1. Cardinality({c}) = 1
      BY FS_Singleton
    <2>2. ASSUME NEW other \in Clusters \ {cl}, index[other] # NoRecord
          PROVE  amount'[index'[other]] = Cardinality(Members(other)')
      <3>1. index[other] \in Clients \ {c}
        BY <1>7, <2>2, OwnRecord, KeyFacts DEF IndexInv
      <3>. QED  BY <1>3, <1>5, <1>6, <2>2, <3>1 DEF IndexInv, RefCountExact
    <2>3. ASSUME NEW other \in Clusters \ {cl}, index[other] = NoRecord
          PROVE  Members(other)' = {}
      BY <1>6, <2>3 DEF IndexInv, RefCountExact
    <2>. QED  BY <1>3, <1>4, <1>5, <1>6, <2>1, <2>2, <2>3 DEF RefCountExact
  <1>9. Referenced'
    BY <1>5, <1>6 DEF IndexInv, Referenced
  <1>10. IndexCoherent'
    BY <1>4, <1>5 DEF IndexInv, IndexCoherent
  <1>11. NoLeakedChecker'
    <2>1. ASSUME NEW o \in Clients \ {c}, ctx'[o] = "live"
          PROVE  index'[Config[o]] = o
      <3>1. index[Config[o]] = o /\ Config[o] \in Clusters
        BY <1>3, <2>1, KeyFacts DEF IndexInv, NoLeakedChecker
      <3>2. Config[o] # cl
        BY <1>1, <3>1, SentinelAssumption
      <3>. QED  BY <1>5, <3>1, <3>2
    <2>2. ASSUME NEW k \in Keys, index'[k] # NoRecord
          PROVE  ctx'[index'[k]] = "live"
      <3>1. CASE k \in KeysOf(cl)
        BY <1>2, <1>3, <3>1
      <3>2. CASE k \notin KeysOf(cl)
        <4>1. index'[k] = index[k] /\ index[k] \in Clients \ {c}
          BY <1>2, <1>7, <2>2, <3>2 DEF TypeOK, MaybeRecord
        <4>. QED  BY <1>3, <2>2, <4>1 DEF IndexInv, NoLeakedChecker
      <3>. QED  BY <3>1, <3>2
    <2>. QED  BY <1>4, <2>1, <2>2 DEF NoLeakedChecker
  <1>12. OwnKeys'
    BY <1>2 DEF IndexInv, OwnKeys
  <1>. QED  BY <1>8, <1>9, <1>10, <1>11, <1>12 DEF IndexInv

\* A client of the cluster closes: others keep the record, or nobody does.
LEMMA CloseStep ==
    ASSUME DisjointClusters, TypeOK, IndexInv, NEW c \in Clients, Unregister(c)
    PROVE  IndexInv'
  <1>. DEFINE cl == Config[c]
              r == index[cl]
  <1>1. /\ cl \in Clusters
        /\ c \in Members(cl)
        /\ Members(cl)' = Members(cl) \ {c}
        /\ \A other \in Clusters \ {cl} : Members(other)' = Members(other)
    BY KeyFacts DEF Unregister, Members, Counted, TypeOK
  <1>2. /\ r # NoRecord
        /\ r \in Clients
        /\ Config[r] = cl
        /\ amount[r] = Cardinality(Members(cl))
    <2>1. r # NoRecord /\ amount[r] = Cardinality(Members(cl))
      BY <1>1 DEF IndexInv, RefCountExact
    <2>. QED  BY <1>1, <2>1, OwnRecord DEF IndexInv
  <1>3. Cardinality(Members(cl)') = Cardinality(Members(cl)) - 1
    BY <1>1, MembersFinite, FS_RemoveElement
  <1>4. /\ amount'[r] = amount[r] - 1
        /\ \A o \in Clients \ {r} : amount'[o] = amount[o]
    BY <1>2 DEF Unregister, DropReference, TypeOK
  <1>5. \A other \in Clusters \ {cl} :
            index[other] # NoRecord => index[other] \in Clients \ {r}
    BY <1>2, OwnRecord DEF IndexInv
  <1>6. CASE ~ LastReference(r)
    <2>1. index' = index /\ ctx' = ctx
      BY <1>2, <1>6 DEF Unregister, DropReference
    <2>2. Members(cl)' # {}
      <3>1. Cardinality(Members(cl)) \in Nat /\ Cardinality(Members(cl)) > 1
        BY <1>1, <1>2, <1>6, MembersFinite DEF LastReference
      <3>2. Cardinality({}) = 0
        BY FS_EmptySet
      <3>. QED  BY <1>3, <3>1, <3>2
    <2>3. RefCountExact'
      <3>1. amount'[r] = Cardinality(Members(cl)')
        BY <1>2, <1>3, <1>4
      <3>2. ASSUME NEW other \in Clusters \ {cl}, index[other] # NoRecord
            PROVE  amount'[index[other]] = Cardinality(Members(other)')
        BY <1>1, <1>4, <1>5, <3>2 DEF IndexInv, RefCountExact
      <3>3. ASSUME NEW other \in Clusters \ {cl}, index[other] = NoRecord
            PROVE  Members(other)' = {}
        BY <1>1, <3>3 DEF IndexInv, RefCountExact
      <3>. QED  BY <1>2, <2>1, <3>1, <3>2, <3>3 DEF RefCountExact
    <2>4. Referenced'
      BY <1>1, <2>1, <2>2 DEF IndexInv, Referenced
    <2>. QED
      BY <2>1, <2>3, <2>4 DEF IndexInv, IndexCoherent, NoLeakedChecker, OwnKeys
  <1>7. CASE LastReference(r)
    <2>1. /\ \A k \in KeysOf(cl) : index'[k] = NoRecord
          /\ \A k \in Keys \ KeysOf(cl) : index'[k] = index[k]
          /\ KeysOf(cl) \subseteq Keys
      BY <1>1, <1>2, <1>7, KeyFacts DEF Unregister, DropReference, Reindex
    <2>2. ctx'[r] = "cancelled" /\ \A o \in Clients \ {r} : ctx'[o] = ctx[o]
      BY <1>2, <1>7 DEF Unregister, DropReference, TypeOK
    <2>3. index'[cl] = NoRecord /\ \A e \in cl : index'[{e}] = NoRecord
      BY <2>1 DEF KeysOf, EndpointKeys
    <2>4. \A other \in Clusters \ {cl} :
              /\ index'[other] = index[other]
              /\ \A e \in other : index'[{e}] = index[{e}]
      BY <1>1, <2>1, DisjointKeys, KeyFacts
    <2>5. Members(cl)' = {}
      <3>1. Cardinality(Members(cl)') \in Nat /\ Cardinality(Members(cl)') <= 0
        <4>1. Cardinality(Members(cl)) \in Nat /\ Cardinality(Members(cl)) # 0
          BY <1>1, MembersFinite
        <4>. QED  BY <1>2, <1>3, <1>7, <4>1 DEF LastReference
      <3>2. IsFiniteSet(Members(cl)')
        BY <1>1, MembersFinite, FS_RemoveElement
      <3>. QED  BY <3>1, <3>2, FS_EmptySet
    <2>6. RefCountExact'
      <3>1. ASSUME NEW other \in Clusters \ {cl}, index[other] # NoRecord
            PROVE  amount'[index[other]] = Cardinality(Members(other)')
        BY <1>1, <1>4, <1>5, <3>1 DEF IndexInv, RefCountExact
      <3>2. ASSUME NEW other \in Clusters \ {cl}, index[other] = NoRecord
            PROVE  Members(other)' = {}
        BY <1>1, <3>2 DEF IndexInv, RefCountExact
      <3>. QED  BY <2>3, <2>4, <2>5, <3>1, <3>2 DEF RefCountExact
    <2>7. Referenced'
      BY <1>1, <2>3, <2>4 DEF IndexInv, Referenced
    <2>8. IndexCoherent'
      BY <2>3, <2>4 DEF IndexInv, IndexCoherent
    <2>9. NoLeakedChecker'
      <3>1. ASSUME NEW o \in Clients, ctx'[o] = "live"
            PROVE  index'[Config[o]] = o
        <4>1. o # r /\ index[Config[o]] = o /\ Config[o] \in Clusters
          BY <2>2, <3>1, KeyFacts DEF IndexInv, NoLeakedChecker
        <4>2. Config[o] # cl
          BY <4>1
        <4>. QED  BY <2>4, <4>1, <4>2
      <3>2. ASSUME NEW k \in Keys, index'[k] # NoRecord
            PROVE  ctx'[index'[k]] = "live"
        <4>1. k \notin KeysOf(cl) /\ index'[k] = index[k]
          BY <2>1, <3>2
        <4>2. index[k] \in Clients /\ k \in KeysOf(Config[index[k]])
          BY <3>2, <4>1 DEF IndexInv, OwnKeys, TypeOK, MaybeRecord
        <4>3. index[k] # r
          BY <1>2, <4>1, <4>2
        <4>. QED  BY <2>2, <3>2, <4>1, <4>2, <4>3 DEF IndexInv, NoLeakedChecker
      <3>. QED  BY <3>1, <3>2 DEF NoLeakedChecker
    <2>10. OwnKeys'
      BY <2>1 DEF IndexInv, OwnKeys
    <2>. QED  BY <2>6, <2>7, <2>8, <2>9, <2>10 DEF IndexInv
  <1>. QED  BY <1>6, <1>7

\* The lock covers the creation of a record, for every step.
LEMMA LockStep ==
    ASSUME DisjointClusters, TypeOK, IndexInv, LockCoversCreation, RecordLife,
           [Next]_vars
    PROVE  LockCoversCreation' /\ RecordLife'
  <1>. USE DEF LockCoversCreation, RecordLife
  <1>. USE DEF envVars, recordVars, checkVars, flightVars
  <1>1. CASE Elect
    BY <1>1 DEF Elect
  <1>2. ASSUME NEW c \in Clients, Register(c) PROVE LockCoversCreation' /\ RecordLife'
    BY <1>2, SentinelAssumption DEF Register, RegisterExisting, RegisterNew, TypeOK
  <1>3. ASSUME NEW c \in Clients, Create(c) PROVE LockCoversCreation' /\ RecordLife'
    BY <1>3, SentinelAssumption
    DEF Create, CreateRecord, PanicOnConflict, NewRecord, TypeOK
  <1>4. ASSUME NEW c \in Clients, Fly(c) PROVE LockCoversCreation' /\ RecordLife'
    BY <1>4 DEF Fly, StartFlight, JoinFlight, LeaderIsSet, LeaderIsUnset,
                FlightFinds, FlightFails, Publish, Land, TypeOK
  <1>5. ASSUME NEW c \in Clients, UpdateClusterLeader(c)
        PROVE  LockCoversCreation' /\ RecordLife'
    BY <1>5 DEF UpdateClusterLeader, TypeOK
  <1>6. ASSUME NEW c \in Clients, Unregister(c) \/ UnregisterAgain(c)
        PROVE  LockCoversCreation' /\ RecordLife'
    <2>1. /\ lock = NoClient /\ lock' = lock
          /\ \A d \in Clients : pc'[d] = pc[d] \/ (d = c /\ pc[c] = "open" /\ pc'[d] = "closed")
          /\ checker' = checker
      BY <1>6 DEF Unregister, UnregisterAgain, TypeOK
    <2>2. \A d \in Clients : pc[d] # "creating" /\ pc'[d] # "creating"
      BY <2>1, SentinelAssumption
    <2>3. \A d \in Clients : ctx'[d] = ctx[d] \/ (ctx'[d] = "cancelled" /\ ctx[d] = "live")
      <3>1. ASSUME index[Config[c]] # NoRecord PROVE ctx[index[Config[c]]] = "live"
        BY <3>1, KeyFacts DEF IndexInv, NoLeakedChecker
      <3>. QED  BY <1>6, <3>1 DEF Unregister, UnregisterAgain, DropReference, TypeOK
    <2>. QED  BY <2>1, <2>2, <2>3, SentinelAssumption
  <1>7. ASSUME NEW r \in Clients, HealthCheck(r) PROVE LockCoversCreation' /\ RecordLife'
    BY <1>7 DEF HealthCheck, CheckFinds, CheckStores, CheckerExits, TypeOK
  <1>8. CASE UNCHANGED vars
    BY <1>8 DEF vars
  <1>. QED  BY <1>1, <1>2, <1>3, <1>4, <1>5, <1>6, <1>7, <1>8 DEF Next

\* Records are stored under keys of their own, whatever the clusters share.
LEMMA KeyStep ==
    ASSUME TypeOK, OwnKeys, [Next]_vars
    PROVE  OwnKeys'
  <1>. USE DEF OwnKeys
  <1>. USE DEF envVars, recordVars, checkVars, flightVars
  <1>1. CASE index' = index
    BY <1>1
  <1>2. ASSUME NEW c \in Clients, Create(c) PROVE OwnKeys'
    <2>1. PICK keys \in SUBSET KeysOf(Config[c]) : index' = Reindex(keys, c)
      <3>1. CASE CreateRecord(c)
        BY <3>1 DEF CreateRecord
      <3>2. CASE PanicOnConflict(c)
        BY <3>2 DEF PanicOnConflict, KeysOf, EndpointKeys
      <3>. QED  BY <1>2, <3>1, <3>2 DEF Create
    <2>. QED  BY <2>1, SentinelAssumption DEF Reindex
  <1>3. ASSUME NEW c \in Clients, DropReference(c) PROVE OwnKeys'
    BY <1>3 DEF DropReference, Reindex
  <1>4. \/ index' = index
        \/ \E c \in Clients : Create(c) \/ DropReference(c)
    BY DEF Next, vars, Elect, Register, RegisterExisting, RegisterNew, Fly,
           StartFlight, JoinFlight, LeaderIsSet, LeaderIsUnset, FlightFinds,
           FlightFails, Publish, UpdateClusterLeader, Unregister,
           UnregisterAgain, HealthCheck, CheckFinds, CheckStores, CheckerExits
  <1>. QED  BY <1>1, <1>2, <1>3, <1>4

\* Where the stored addresses come from, for every step.
LEMMA AnswerStep ==
    ASSUME TypeOK, OwnKeys, OwnAnswers, LeaderOfOwnCluster, [Next]_vars
    PROVE  OwnAnswers' /\ LeaderOfOwnCluster'
  <1>. USE DEF OwnAnswers, LeaderOfOwnCluster
  <1>. USE DEF envVars, recordVars, checkVars, flightVars
  <1>1. CASE Elect
    BY <1>1 DEF Elect
  <1>2. ASSUME NEW c \in Clients, Register(c) PROVE OwnAnswers' /\ LeaderOfOwnCluster'
    BY <1>2, FirstCheckType DEF Register, RegisterExisting, RegisterNew, TypeOK
  <1>3. ASSUME NEW c \in Clients, Create(c) PROVE OwnAnswers' /\ LeaderOfOwnCluster'
    <2>1. NewRecord(c) /\ \A d \in Clients : pc'[d] = "publishing" => pc[d] = "publishing" /\ d # c
      BY <1>3 DEF Create, CreateRecord, PanicOnConflict, TypeOK
    <2>. QED  BY <2>1 DEF NewRecord, TypeOK
  <1>4. ASSUME NEW c \in Clients, Fly(c) PROVE OwnAnswers' /\ LeaderOfOwnCluster'
    <2>1. CASE StartFlight(c) \/ JoinFlight(c) \/ LeaderIsUnset(c)
      BY <2>1 DEF StartFlight, JoinFlight, LeaderIsUnset, TypeOK
    <2>2. CASE LeaderIsSet(c) \/ FlightFails(c)
      BY <2>2 DEF LeaderIsSet, FlightFails, Land, TypeOK
    <2>3. CASE FlightFinds(c)
      BY <2>3, CheckResultsType DEF FlightFinds, TypeOK
    <2>4. CASE Publish(c)
      <3>1. LeaderOfOwnCluster'
        <4>1. CASE index[Config[c]] = NoRecord
          BY <2>4, <4>1 DEF Publish
        <4>2. CASE index[Config[c]] # NoRecord
          <5>1. /\ index[Config[c]] \in Clients
                /\ Config[c] \in KeysOf(Config[index[Config[c]]])
            BY <4>2, KeyFacts DEF TypeOK, OwnKeys, MaybeRecord
          <5>2. Config[c] \subseteq Config[index[Config[c]]]
            BY <5>1 DEF KeysOf, EndpointKeys
          <5>. QED  BY <2>4, <4>2, <5>1, <5>2 DEF Publish, TypeOK
        <4>. QED  BY <4>1, <4>2
      <3>2. OwnAnswers'
        BY <2>4 DEF Publish, Land, TypeOK
      <3>. QED  BY <3>1, <3>2
    <2>. QED  BY <1>4, <2>1, <2>2, <2>3, <2>4 DEF Fly
  <1>5. ASSUME NEW c \in Clients, UpdateClusterLeader(c)
        PROVE  OwnAnswers' /\ LeaderOfOwnCluster'
    BY <1>5 DEF UpdateClusterLeader, TypeOK
  <1>6. ASSUME NEW c \in Clients, Unregister(c) \/ UnregisterAgain(c)
        PROVE  OwnAnswers' /\ LeaderOfOwnCluster'
    BY <1>6 DEF Unregister, UnregisterAgain, TypeOK
  <1>7. ASSUME NEW r \in Clients, HealthCheck(r) PROVE OwnAnswers' /\ LeaderOfOwnCluster'
    BY <1>7, CheckResultsType
    DEF HealthCheck, CheckFinds, CheckStores, CheckerExits, TypeOK
  <1>8. CASE UNCHANGED vars
    BY <1>8 DEF vars
  <1>. QED  BY <1>1, <1>2, <1>3, <1>4, <1>5, <1>6, <1>7, <1>8 DEF Next

\* Who is in the index, for every step.  With disjoint clusters no
\* registration meets a conflict, and without a second Close every reference
\* is dropped by a client that holds one.
LEMMA IndexStep ==
    ASSUME DisjointClusters, MaxExtraCloses = 0,
           TypeOK, IndexInv, LockCoversCreation, RecordLife, [Next]_vars
    PROVE  IndexInv'
  <1>. USE DEF envVars, recordVars, checkVars, flightVars
  <1>1. CASE Elect
    BY <1>1, QuietStep DEF Elect
  <1>2. ASSUME NEW c \in Clients, Register(c) PROVE IndexInv'
    <2>1. CASE RegisterExisting(c)
      BY <2>1, ExistingStep
    <2>2. CASE RegisterNew(c)
      <3>1. \A d \in Clients : pc'[d] \in Counted <=> pc[d] \in Counted
        BY <2>2 DEF RegisterNew, Counted, TypeOK
      <3>. QED  BY <2>2, <3>1, QuietStep DEF RegisterNew
    <2>. QED  BY <1>2, <2>1, <2>2 DEF Register
  <1>3. ASSUME NEW c \in Clients, Create(c) PROVE IndexInv'
    <2>1. Conflicts(c) = {}
      <3>1. pc[c] = "creating" /\ index[Config[c]] = NoRecord
        BY <1>3 DEF Create, CreateRecord, PanicOnConflict, LockCoversCreation
      <3>. QED  BY <3>1, KeyFacts DEF Conflicts, IndexInv, IndexCoherent
    <2>2. CreateRecord(c)
      BY <1>3, <2>1 DEF Create, PanicOnConflict
    <2>. QED  BY <2>2, CreateStep
  <1>4. ASSUME NEW c \in Clients, Fly(c) PROVE IndexInv'
    <2>1. recordVars' = recordVars
      BY <1>4 DEF Fly, StartFlight, JoinFlight, LeaderIsSet, LeaderIsUnset,
                  FlightFinds, FlightFails, Publish
    <2>2. \A d \in Clients : pc'[d] \in Counted <=> pc[d] \in Counted
      BY <1>4 DEF Fly, StartFlight, JoinFlight, LeaderIsSet, LeaderIsUnset,
                  FlightFinds, FlightFails, Publish, Land, Counted, TypeOK
    <2>. QED  BY <2>1, <2>2, QuietStep
  <1>5. ASSUME NEW c \in Clients, UpdateClusterLeader(c) PROVE IndexInv'
    <2>1. \A d \in Clients : pc'[d] \in Counted <=> pc[d] \in Counted
      BY <1>5 DEF UpdateClusterLeader, Counted, TypeOK
    <2>. QED  BY <1>5, <2>1, QuietStep DEF UpdateClusterLeader
  <1>6. ASSUME NEW c \in Clients, Unregister(c) PROVE IndexInv'
    BY <1>6, CloseStep
  <1>7. ASSUME NEW c \in Clients, UnregisterAgain(c) PROVE IndexInv'
    BY <1>7 DEF UnregisterAgain, TypeOK
  <1>8. ASSUME NEW r \in Clients, HealthCheck(r) PROVE IndexInv'
    BY <1>8, QuietStep DEF HealthCheck, CheckFinds, CheckStores, CheckerExits
  <1>9. CASE UNCHANGED vars
    BY <1>9, QuietStep DEF vars
  <1>. QED  BY <1>1, <1>2, <1>3, <1>4, <1>5, <1>6, <1>7, <1>8, <1>9 DEF Next

LEMMA InitRegistry == Init => RegistryInv
  <1>. SUFFICES ASSUME Init PROVE RegistryInv
    OBVIOUS
  <1>1. \A cl \in Clusters : Members(cl) = {} /\ index[cl] = NoRecord
    BY KeyFacts DEF Init, Members, Counted
  <1>2. RefCountExact /\ Referenced
    BY <1>1 DEF RefCountExact, Referenced
  <1>3. IndexCoherent
    BY KeyFacts DEF Init, IndexCoherent
  <1>4. NoLeakedChecker /\ OwnKeys
    BY DEF Init, NoLeakedChecker, OwnKeys
  <1>5. LockCoversCreation /\ RecordLife
    BY SentinelAssumption DEF Init, LockCoversCreation, RecordLife
  <1>6. OwnAnswers /\ LeaderOfOwnCluster
    BY DEF Init, OwnAnswers, LeaderOfOwnCluster
  <1>. QED  BY InitType, <1>2, <1>3, <1>4, <1>5, <1>6 DEF RegistryInv

LEMMA NextRegistry ==
    ASSUME DisjointClusters, MaxExtraCloses = 0, RegistryInv, [Next]_vars
    PROVE  RegistryInv'
  <1>1. TypeOK /\ IndexInv /\ LockCoversCreation /\ RecordLife /\ OwnAnswers
        /\ LeaderOfOwnCluster
    BY DEF RegistryInv, IndexInv
  <1>2. TypeOK'
    BY <1>1, NextType
  <1>3. IndexInv'
    BY <1>1, IndexStep
  <1>4. LockCoversCreation' /\ RecordLife'
    BY <1>1, LockStep
  <1>5. OwnAnswers' /\ LeaderOfOwnCluster'
    BY <1>1, AnswerStep DEF IndexInv
  <1>. QED  BY <1>2, <1>3, <1>4, <1>5 DEF RegistryInv, IndexInv

\* What the registry needs of its users: no endpoint in two clusters, which
\* updateClusterAmount tries to enforce by its panic, and one Close of a
\* handle, which nothing enforces.
ProperUse == DisjointClusters /\ MaxExtraCloses = 0

\* The inductive invariant holds.
THEOREM RegistryInvariant ==
    ASSUME ProperUse
    PROVE  Spec => []RegistryInv
  <1>1. RegistryInv /\ [Next]_vars => RegistryInv'
    BY NextRegistry DEF ProperUse
  <1>. QED  BY InitRegistry, <1>1, PTL DEF Spec

\* The reference counts are exact, whatever the order in which clients
\* register, fail to find a leader and close (leaderRecord.amount).
THEOREM RefCountCorrect ==
    ASSUME ProperUse
    PROVE  Spec => []RefCountExact
  <1>1. RegistryInv => RefCountExact
    BY DEF RegistryInv
  <1>. QED  BY RegistryInvariant, <1>1, PTL

\* leaderIndex holds one record per cluster, under all of its keys.
THEOREM IndexIsCoherent ==
    ASSUME ProperUse
    PROVE  Spec => []IndexCoherent
  <1>1. RegistryInv => IndexCoherent
    BY DEF RegistryInv
  <1>. QED  BY RegistryInvariant, <1>1, PTL

\* A record never names a server of another cluster.  Neither disjoint
\* clusters nor a single Close is needed.
THEOREM LeadersStayInCluster == Spec => []LeaderOfOwnCluster
  <1>. DEFINE Inv == TypeOK /\ OwnKeys /\ OwnAnswers /\ LeaderOfOwnCluster
  <1>1. Init => Inv
    BY InitRegistry DEF RegistryInv
  <1>2. Inv /\ [Next]_vars => Inv'
    BY NextType, KeyStep, AnswerStep
  <1>3. Inv => LeaderOfOwnCluster
    OBVIOUS
  <1>. QED  BY <1>1, <1>2, <1>3, PTL DEF Spec

\* The calls that are in flight, and those that the Group still knows.
Airborne(c) == pc[c] \in {"flying", "probing", "publishing"}
GroupKnowsCalls ==
    \A cl \in Clusters : flight[cl] # NoClient =>
        Airborne(flight[cl]) /\ Config[flight[cl]] = cl

\* Whoever joined an update is woken by it, also when Forget dropped it from
\* the Group in between.  Neither assumption on the use is needed.
THEOREM NobodyStranded == Spec => []JoinersHaveACall
  <1>. DEFINE Inv == TypeOK /\ GroupKnowsCalls /\ JoinersHaveACall
  <1>1. Init => Inv
    BY InitType DEF Init, GroupKnowsCalls, JoinersHaveACall
  <1>2. ASSUME Inv, [Next]_vars PROVE Inv'
    <2>. USE DEF GroupKnowsCalls, JoinersHaveACall, Airborne
    <2>. USE DEF envVars, recordVars, checkVars, flightVars
    <2>1. CASE Elect \/ UNCHANGED vars
      <3>1. UNCHANGED <<pc, flight, joined>>
        BY <2>1 DEF Elect, vars
      <3>. QED  BY <1>2, <2>1, <3>1, NextType DEF GroupKnowsCalls, JoinersHaveACall
    <2>2. ASSUME NEW c \in Clients,
                 Register(c) \/ Create(c) \/ UpdateClusterLeader(c)
          PROVE  GroupKnowsCalls' /\ JoinersHaveACall'
      <3>1. /\ flight' = flight /\ joined' = joined
            /\ ~ Airborne(c) /\ pc[c] # "joined"
            /\ pc'[c] \in {"creating", "update", "panicked"}
            /\ \A d \in Clients \ {c} : pc'[d] = pc[d]
        BY <1>2, <2>2 DEF Register, RegisterExisting, RegisterNew, Create, NewRecord,
             CreateRecord, PanicOnConflict, UpdateClusterLeader, TypeOK
      <3>. QED  BY <1>2, <3>1 DEF TypeOK, MaybeClient
    <2>3. ASSUME NEW c \in Clients, Fly(c) PROVE GroupKnowsCalls' /\ JoinersHaveACall'
      <3>1. CASE StartFlight(c)
        BY <1>2, <3>1, KeyFacts DEF StartFlight, TypeOK, MaybeClient
      <3>2. CASE JoinFlight(c)
        BY <1>2, <3>2, KeyFacts DEF JoinFlight, TypeOK, MaybeClient
      <3>3. CASE LeaderIsUnset(c) \/ FlightFinds(c)
        BY <1>2, <3>3 DEF LeaderIsUnset, FlightFinds, TypeOK, MaybeClient
      <3>4. CASE LeaderIsSet(c) \/ FlightFails(c) \/ Publish(c)
        <4>1. Land(c)
          BY <3>4 DEF LeaderIsSet, FlightFails, Publish
        <4>. QED  BY <1>2, <4>1, KeyFacts DEF Land, TypeOK, MaybeClient
      <3>. QED  BY <2>3, <3>1, <3>2, <3>3, <3>4 DEF Fly
    <2>4. ASSUME NEW c \in Clients, Unregister(c) \/ UnregisterAgain(c)
          PROVE  GroupKnowsCalls' /\ JoinersHaveACall'
      <3>1. /\ ~ Airborne(c) /\ pc[c] # "joined" /\ pc'[c] = "closed"
            /\ \A d \in Clients \ {c} : pc'[d] = pc[d]
            /\ joined' = joined
            /\ \A cl \in Clusters : flight'[cl] \in {flight[cl], NoClient}
        BY <1>2, <2>4 DEF Unregister, UnregisterAgain, DropReference, TypeOK
      <3>. QED  BY <1>2, <3>1 DEF TypeOK, MaybeClient
    <2>5. ASSUME NEW r \in Clients, HealthCheck(r)
          PROVE  GroupKnowsCalls' /\ JoinersHaveACall'
      BY <1>2, <2>5 DEF HealthCheck, CheckFinds, CheckStores, CheckerExits
    <2>. QED  BY <1>2, <2>1, <2>2, <2>3, <2>4, <2>5, NextType DEF Next
  <1>3. Inv => JoinersHaveACall
    OBVIOUS
  <1>. QED  BY <1>1, <1>2, <1>3, PTL DEF Spec

\* No health-check goroutine outlives its cluster, and no cluster keeps the
\* record of a stopped one (updateClusterAmount, healthCheck).
THEOREM NoCheckerLeaks ==
    ASSUME ProperUse
    PROVE  Spec => []NoLeakedChecker
  <1>1. RegistryInv => NoLeakedChecker
    BY DEF RegistryInv
  <1>. QED  BY RegistryInvariant, <1>1, PTL

\* Every open client has its cluster checked, as newClient says
\* (client.go:120).
THEOREM OpenClientsMonitored ==
    ASSUME ProperUse
    PROVE  Spec => []OpenClientMonitored
  <1>1. RegistryInv => OpenClientMonitored
    <2>. SUFFICES ASSUME RegistryInv, NEW c \in Clients, pc[c] = "open"
                  PROVE  LET r == index[Config[c]]
                         IN  /\ r # NoRecord
                             /\ ctx[r] = "live"
                             /\ checker[r] \in {"idle", "found"}
                             /\ Config[r] = Config[c]
      BY DEF OpenClientMonitored
    <2>1. c \in Members(Config[c]) /\ Config[c] \in Clusters /\ Config[c] \in Keys
      BY KeyFacts DEF Members, Counted
    <2>2. index[Config[c]] # NoRecord
      BY <2>1 DEF RegistryInv, RefCountExact
    <2>3. index[Config[c]] \in Clients /\ Config[index[Config[c]]] = Config[c]
      BY <2>1, <2>2, OwnRecord DEF ProperUse, RegistryInv
    <2>4. ctx[index[Config[c]]] = "live"
      BY <2>1, <2>2 DEF RegistryInv, NoLeakedChecker
    <2>. QED  BY <2>2, <2>3, <2>4 DEF RegistryInv, RecordLife
  <1>. QED  BY RegistryInvariant, <1>1, PTL

-----------------------------------------------------------------------------
(* Steps: the record of a cluster in use, and the abstract directory.      *)

\* A step that ends with a client still counted keeps the record it uses.
LEMMA StableStep ==
    ASSUME ProperUse, RegistryInv, [Next]_vars,
           NEW c \in Clients, pc[c] \in Counted, pc'[c] \in Counted
    PROVE  index'[Config[c]] = index[Config[c]]
  <1>. USE DEF envVars, recordVars, checkVars, flightVars
  <1>. DEFINE cl == Config[c]
              r == index[cl]
  <1>1. /\ cl \in Clusters /\ cl \in Keys
        /\ c \in Members(cl)
        /\ r # NoRecord
        /\ amount[r] = Cardinality(Members(cl))
    BY KeyFacts DEF Members, RegistryInv, RefCountExact
  <1>2. CASE Elect
    BY <1>2 DEF Elect
  <1>3. ASSUME NEW d \in Clients, Register(d) PROVE index'[cl] = r
    BY <1>3 DEF Register, RegisterExisting, RegisterNew
  <1>4. ASSUME NEW d \in Clients, Create(d) PROVE index'[cl] = r
    <2>1. index[Config[d]] = NoRecord /\ Config[d] \in Clusters
      BY <1>4, KeyFacts
      DEF Create, CreateRecord, PanicOnConflict, RegistryInv, LockCoversCreation
    <2>2. cl \notin KeysOf(Config[d])
      BY <1>1, <2>1, DisjointKeys DEF ProperUse
    <2>. QED  BY <1>1, <1>4, <2>2
         DEF Create, CreateRecord, PanicOnConflict, Reindex, KeysOf, EndpointKeys
  <1>5. ASSUME NEW d \in Clients, Fly(d) \/ UpdateClusterLeader(d) PROVE index'[cl] = r
    BY <1>5 DEF UpdateClusterLeader, Fly, StartFlight, JoinFlight, LeaderIsSet,
                LeaderIsUnset, FlightFinds, FlightFails, Publish
  <1>6. ASSUME NEW d \in Clients, Unregister(d) PROVE index'[cl] = r
    <2>1. d # c /\ d \in Members(Config[d]) /\ Config[d] \in Clusters
      BY <1>6, KeyFacts DEF Unregister, Counted, Members, RegistryInv, TypeOK
    <2>2. CASE Config[d] = cl
      <3>1. c \in Members(cl) \ {d} /\ d \in Members(cl)
        BY <1>1, <2>1, <2>2
      <3>2. /\ Cardinality(Members(cl) \ {d}) = Cardinality(Members(cl)) - 1
            /\ Cardinality(Members(cl) \ {d}) \in Nat
            /\ Cardinality(Members(cl) \ {d}) # 0
        <4>1. IsFiniteSet(Members(cl)) /\ IsFiniteSet(Members(cl) \ {d})
          BY <1>1, MembersFinite, FS_Subset
        <4>. QED  BY <3>1, <4>1, FS_RemoveElement, FS_CardinalityType, FS_EmptySet
      <3>3. ~ LastReference(r)
        <4>1. Cardinality(Members(cl)) \in Nat
          BY <1>1, MembersFinite
        <4>. QED  BY <1>1, <3>2, <4>1 DEF LastReference
      <3>. QED  BY <1>1, <1>6, <2>2, <3>3 DEF Unregister, DropReference
    <2>3. CASE Config[d] # cl
      <3>1. cl \notin KeysOf(Config[d])
        BY <1>1, <2>1, <2>3, DisjointKeys DEF ProperUse
      <3>. QED  BY <1>1, <1>6, <3>1 DEF Unregister, DropReference, Reindex
    <2>. QED  BY <2>2, <2>3
  <1>7. ASSUME NEW d \in Clients, UnregisterAgain(d) PROVE index'[cl] = r
    BY <1>7 DEF UnregisterAgain, RegistryInv, TypeOK, ProperUse
  <1>8. ASSUME NEW o \in Clients, HealthCheck(o) PROVE index'[cl] = r
    BY <1>8 DEF HealthCheck, CheckFinds, CheckStores, CheckerExits
  <1>9. CASE UNCHANGED vars
    BY <1>9 DEF vars
  <1>. QED  BY <1>2, <1>3, <1>4, <1>5, <1>6, <1>7, <1>8, <1>9 DEF Next

\* The record that a picker caches when it is built (getLeaderRecord) is the
\* one its cluster uses for as long as some client stays counted.
THEOREM RecordStability ==
    ASSUME ProperUse
    PROVE  Spec => RecordStable
  <1>1. RegistryInv /\ [Next]_vars
        => [\A c \in Clients : pc[c] \in Counted /\ pc'[c] \in Counted
                => index'[Config[c]] = index[Config[c]]]_vars
    BY StableStep
  <1>. QED  BY RegistryInvariant, <1>1, PTL DEF Spec, RecordStable

LEMMA InitDirectory == Init => Directory!Init
  <1>. SUFFICES ASSUME Init PROVE Directory!Init
    OBVIOUS
  <1>1. \A cl \in Clusters : Members(cl) = {} /\ LeaderAddr(cl) = NoLeader
    BY KeyFacts DEF Init, Members, Counted, LeaderAddr
  <1>. QED  BY <1>1 DEF Directory!Init, Directory!Clusters, Clusters

\* Storing an answer in the record of a cluster: the directory learns it.
LEMMA LearnStep ==
    ASSUME ProperUse, RegistryInv, NEW cl \in Clusters, NEW e \in cl,
           index[cl] # NoRecord, index' = index,
           leader' = [leader EXCEPT ![index[cl]] = e],
           \A d \in Clients : pc'[d] \in Counted <=> pc[d] \in Counted
    PROVE  Directory!Learn(cl)
  <1>1. /\ index[cl] \in Clients
        /\ Members(cl) # {}
        /\ \A other \in Clusters : Members(other)' = Members(other)
    BY OwnRecord DEF ProperUse, RegistryInv, Referenced, Members
  <1>2. \A other \in Clusters \ {cl} : index[other] # index[cl] \/ index[other] = NoRecord
    BY OwnRecord DEF ProperUse, RegistryInv
  <1>3. LeaderAddr(cl)' = e
    BY <1>1 DEF LeaderAddr, RegistryInv, TypeOK
  <1>4. \A other \in Clusters \ {cl} : LeaderAddr(other)' = LeaderAddr(other)
    <2>. SUFFICES ASSUME NEW other \in Clusters \ {cl}
                  PROVE  LeaderAddr(other)' = LeaderAddr(other)
      OBVIOUS
    <2>1. CASE index[other] = NoRecord
      BY <2>1 DEF LeaderAddr
    <2>2. CASE index[other] # NoRecord
      <3>1. index[other] \in Clients /\ index[other] # index[cl]
        BY <1>2, <2>2, OwnRecord DEF ProperUse, RegistryInv
      <3>. QED  BY <1>1, <3>1 DEF LeaderAddr, RegistryInv, TypeOK
    <2>. QED  BY <2>1, <2>2
  <1>. QED  BY <1>1, <1>3, <1>4 DEF Directory!Learn, Directory!Clusters, Clusters

\* A step that neither the members nor the known leaders show.
LEMMA HiddenStep ==
    ASSUME \A cl \in Clusters : Members(cl)' = Members(cl)
                                /\ LeaderAddr(cl)' = LeaderAddr(cl)
    PROVE  UNCHANGED Directory!dirVars
  BY DEF Directory!dirVars

LEMMA QuietHidden ==
    ASSUME UNCHANGED <<index, leader>>,
           \A d \in Clients : pc'[d] \in Counted <=> pc[d] \in Counted
    PROVE  UNCHANGED Directory!dirVars
  BY HiddenStep DEF Members, LeaderAddr

\* A registration is a Join: of a cluster that has a record, or of a new one.
LEMMA JoinStep ==
    ASSUME ProperUse, RegistryInv, RegistryInv', NEW c \in Clients,
           RegisterExisting(c) \/ CreateRecord(c)
    PROVE  Directory!Join(c)
  <1>. DEFINE cl == Config[c]
  <1>1. cl \in Clusters /\ cl \in Keys
    BY KeyFacts
  <1>2. /\ c \notin Members(cl)
        /\ Members(cl)' = Members(cl) \cup {c}
        /\ \A other \in Clusters \ {cl} : Members(other)' = Members(other)
    BY DEF RegisterExisting, CreateRecord, Members, Counted, RegistryInv, TypeOK
  <1>3. CASE RegisterExisting(c)
    <2>1. Members(cl) # {}
      BY <1>1, <1>3 DEF RegisterExisting, RegistryInv, Referenced
    <2>2. \A other \in Clusters : LeaderAddr(other)' = LeaderAddr(other)
      BY <1>3 DEF RegisterExisting, LeaderAddr
    <2>. QED  BY <1>1, <1>2, <2>1, <2>2 DEF Directory!Join, Directory!Clusters, Clusters
  <1>4. CASE CreateRecord(c)
    <2>1. index[cl] = NoRecord /\ Members(cl) = {}
      BY <1>1, <1>4 DEF CreateRecord, RegistryInv, LockCoversCreation, RefCountExact
    <2>2. /\ \A k \in KeysOf(cl) : index'[k] = c
          /\ \A k \in Keys \ KeysOf(cl) : index'[k] = index[k]
          /\ cl \in KeysOf(cl) /\ KeysOf(cl) \subseteq Keys
      BY <1>1, <1>4, KeyFacts DEF CreateRecord, Reindex, KeysOf
    <2>3. leader' = [leader EXCEPT ![c] = found[c]]
      BY <1>4 DEF CreateRecord, NewRecord
    <2>4. LeaderAddr(cl)' = found[c] /\ found[c] \in cl \cup {NoLeader}
      BY <2>2, <2>3, SentinelAssumption
      DEF LeaderAddr, RegistryInv, TypeOK, OwnAnswers
    <2>5. \A k \in Keys : index[k] # c
      BY <1>4, SentinelAssumption
      DEF CreateRecord, RegistryInv, NoLeakedChecker, RecordLife
    <2>6. \A other \in Clusters \ {cl} : LeaderAddr(other)' = LeaderAddr(other)
      <3>. SUFFICES ASSUME NEW other \in Clusters \ {cl}
                    PROVE  LeaderAddr(other)' = LeaderAddr(other)
        OBVIOUS
      <3>1. other \in Keys /\ index'[other] = index[other] /\ index[other] # c
        BY <1>1, <2>2, <2>5, DisjointKeys, KeyFacts DEF ProperUse
      <3>2. index[other] # NoRecord => leader'[index[other]] = leader[index[other]]
        BY <2>3, <3>1 DEF RegistryInv, TypeOK, MaybeRecord
      <3>. QED  BY <3>1, <3>2 DEF LeaderAddr
    <2>7. [x \in Clusters |-> LeaderAddr(x)]'
              = [[x \in Clusters |-> LeaderAddr(x)] EXCEPT ![cl] = found[c]]
      BY <1>1, <2>4, <2>6
    <2>8. [x \in Clusters |-> Members(x)]'
              = [[x \in Clusters |-> Members(x)] EXCEPT ![cl] = @ \cup {c}]
      BY <1>1, <1>2
    <2>. QED  BY <1>1, <1>2, <2>1, <2>4, <2>7, <2>8 DEF Directory!Join
  <1>. QED  BY <1>3, <1>4

\* A Close is a Leave.
LEMMA LeaveStep ==
    ASSUME ProperUse, RegistryInv, NEW c \in Clients, Unregister(c)
    PROVE  Directory!Leave(c)
  <1>. DEFINE cl == Config[c]
              r == index[cl]
  <1>1. cl \in Clusters /\ cl \in Keys /\ KeysOf(cl) \subseteq Keys
    BY KeyFacts
  <1>2. /\ c \in Members(cl)
        /\ Members(cl)' = Members(cl) \ {c}
        /\ \A other \in Clusters \ {cl} : Members(other)' = Members(other)
    BY DEF Unregister, Members, Counted, RegistryInv, TypeOK
  <1>3. r # NoRecord /\ amount[r] = Cardinality(Members(cl))
    BY <1>1, <1>2 DEF RegistryInv, RefCountExact
  <1>4. LastReference(r) <=> Members(cl) = {c}
    <2>1. /\ IsFiniteSet(Members(cl) \ {c})
          /\ Cardinality(Members(cl) \ {c}) = Cardinality(Members(cl)) - 1
          /\ Cardinality(Members(cl)) \in Nat
      BY <1>1, <1>2, MembersFinite, FS_RemoveElement
    <2>2. Cardinality(Members(cl) \ {c}) \in Nat
          /\ (Cardinality(Members(cl) \ {c}) = 0 <=> Members(cl) \ {c} = {})
      BY <2>1, FS_CardinalityType, FS_EmptySet
    <2>3. LastReference(r) <=> Cardinality(Members(cl) \ {c}) = 0
      BY <1>3, <2>1, <2>2 DEF LastReference
    <2>. QED  BY <1>2, <2>2, <2>3
  <1>5. [x \in Clusters |-> Members(x)]'
            = [[x \in Clusters |-> Members(x)] EXCEPT ![cl] = @ \ {c}]
    BY <1>1, <1>2
  <1>6. CASE ~ LastReference(r)
    <2>1. \A other \in Clusters : LeaderAddr(other)' = LeaderAddr(other)
      BY <1>3, <1>6 DEF Unregister, DropReference, LeaderAddr
    <2>. QED  BY <1>1, <1>2, <1>4, <1>5, <1>6, <2>1 DEF Directory!Leave
  <1>7. CASE LastReference(r)
    <2>1. index' = Reindex(KeysOf(cl), NoRecord) /\ leader' = leader
      BY <1>3, <1>7 DEF Unregister, DropReference
    <2>2. LeaderAddr(cl)' = NoLeader
      BY <1>1, <2>1 DEF LeaderAddr, Reindex, KeysOf
    <2>3. \A other \in Clusters \ {cl} : LeaderAddr(other)' = LeaderAddr(other)
      BY <1>1, <2>1, DisjointKeys, KeyFacts DEF LeaderAddr, Reindex, ProperUse
    <2>4. [x \in Clusters |-> LeaderAddr(x)]'
              = [[x \in Clusters |-> LeaderAddr(x)] EXCEPT ![cl] = NoLeader]
      BY <1>1, <2>2, <2>3
    <2>. QED  BY <1>1, <1>2, <1>4, <1>5, <1>7, <2>4 DEF Directory!Leave
  <1>. QED  BY <1>6, <1>7

\* Every step of the registry is a step of the directory, or hidden.
LEMMA StepSimulation ==
    ASSUME ProperUse, RegistryInv, RegistryInv', [Next]_vars
    PROVE  [Directory!Next]_(Directory!dirVars)
  <1>. USE DEF envVars, recordVars, checkVars, flightVars
  <1>1. CASE Elect
    BY <1>1, QuietHidden DEF Elect
  <1>2. ASSUME NEW c \in Clients, Register(c)
        PROVE  [Directory!Next]_(Directory!dirVars)
    <2>1. CASE RegisterExisting(c)
      BY <2>1, JoinStep DEF Directory!Next
    <2>2. CASE RegisterNew(c)
      <3>1. \A d \in Clients : pc'[d] \in Counted <=> pc[d] \in Counted
        BY <2>2 DEF RegisterNew, Counted, RegistryInv, TypeOK
      <3>. QED  BY <2>2, <3>1, QuietHidden DEF RegisterNew
    <2>. QED  BY <1>2, <2>1, <2>2 DEF Register
  <1>3. ASSUME NEW c \in Clients, Create(c)
        PROVE  [Directory!Next]_(Directory!dirVars)
    <2>1. Conflicts(c) = {}
      <3>1. pc[c] = "creating" /\ index[Config[c]] = NoRecord
        BY <1>3 DEF Create, CreateRecord, PanicOnConflict, RegistryInv, LockCoversCreation
      <3>. QED  BY <3>1, KeyFacts DEF Conflicts, RegistryInv, IndexCoherent
    <2>2. CreateRecord(c)
      BY <1>3, <2>1 DEF Create, PanicOnConflict
    <2>. QED  BY <2>2, JoinStep DEF Directory!Next
  <1>4. ASSUME NEW c \in Clients, Fly(c)
        PROVE  [Directory!Next]_(Directory!dirVars)
    <2>1. \A d \in Clients : pc'[d] \in Counted <=> pc[d] \in Counted
      BY <1>4 DEF Fly, StartFlight, JoinFlight, LeaderIsSet, LeaderIsUnset,
                  FlightFinds, FlightFails, Publish, Land, Counted, RegistryInv, TypeOK
    <2>2. CASE ~ Publish(c)
      BY <1>4, <2>1, <2>2, QuietHidden
      DEF Fly, StartFlight, JoinFlight, LeaderIsSet, LeaderIsUnset, FlightFinds, FlightFails
    <2>3. CASE Publish(c)
      <3>1. found[c] \in Config[c] /\ Config[c] \in Clusters
        BY <2>3, KeyFacts DEF Publish, RegistryInv, OwnAnswers
      <3>2. CASE index[Config[c]] = NoRecord
        BY <2>1, <2>3, <3>2, QuietHidden DEF Publish
      <3>3. CASE index[Config[c]] # NoRecord
        <4>1. Directory!Learn(Config[c])
          BY <2>1, <2>3, <3>1, <3>3, LearnStep DEF Publish
        <4>. QED  BY <3>1, <4>1 DEF Directory!Next, Directory!Clusters, Clusters
      <3>. QED  BY <3>2, <3>3
    <2>. QED  BY <2>2, <2>3
  <1>5. ASSUME NEW c \in Clients, UpdateClusterLeader(c)
        PROVE  [Directory!Next]_(Directory!dirVars)
    <2>1. \A d \in Clients : pc'[d] \in Counted <=> pc[d] \in Counted
      BY <1>5 DEF UpdateClusterLeader, Counted, RegistryInv, TypeOK
    <2>. QED  BY <1>5, <2>1, QuietHidden DEF UpdateClusterLeader
  <1>6. ASSUME NEW c \in Clients, Unregister(c)
        PROVE  [Directory!Next]_(Directory!dirVars)
    BY <1>6, LeaveStep DEF Directory!Next
  <1>7. ASSUME NEW c \in Clients, UnregisterAgain(c)
        PROVE  [Directory!Next]_(Directory!dirVars)
    BY <1>7 DEF UnregisterAgain, RegistryInv, TypeOK, ProperUse
  <1>8. ASSUME NEW r \in Clients, HealthCheck(r)
        PROVE  [Directory!Next]_(Directory!dirVars)
    <2>1. CASE CheckFinds(r) \/ CheckerExits(r)
      BY <2>1, QuietHidden DEF CheckFinds, CheckerExits
    <2>2. CASE CheckStores(r)
      <3>1. seen[r] \in Config[r] /\ Config[r] \in Clusters
        BY <2>2, KeyFacts DEF CheckStores, RegistryInv, OwnAnswers
      <3>2. CASE index[Config[r]] = r
        <4>1. Directory!Learn(Config[r])
          BY <2>2, <3>1, <3>2, SentinelAssumption, LearnStep DEF CheckStores
        <4>. QED  BY <3>1, <4>1 DEF Directory!Next, Directory!Clusters, Clusters
      <3>3. CASE index[Config[r]] # r
        <4>1. \A cl \in Clusters : index[cl] # r
          BY <3>3, OwnRecord, SentinelAssumption DEF ProperUse, RegistryInv
        <4>2. \A cl \in Clusters : LeaderAddr(cl)' = LeaderAddr(cl)
          BY <2>2, <4>1, KeyFacts
          DEF CheckStores, LeaderAddr, RegistryInv, TypeOK, MaybeRecord
        <4>. QED  BY <2>2, <4>2, HiddenStep DEF CheckStores, Members
      <3>. QED  BY <3>2, <3>3
    <2>. QED  BY <1>8, <2>1, <2>2 DEF HealthCheck
  <1>9. CASE UNCHANGED vars
    BY <1>9, QuietHidden DEF vars
  <1>. QED  BY <1>1, <1>2, <1>3, <1>4, <1>5, <1>6, <1>7, <1>8, <1>9 DEF Next

\* The registry, with its records, reference counts, locks, singleflight and
\* goroutines, does nothing that ClusterDirectory does not allow.
THEOREM DirectoryImplemented ==
    ASSUME ProperUse
    PROVE  Spec => ImplementsDirectory
  <1>1. RegistryInv /\ RegistryInv' /\ [Next]_vars
        => [Directory!Next]_(Directory!dirVars)
    BY StepSimulation
  <1>. QED
    BY InitDirectory, RegistryInvariant, <1>1, PTL
    DEF Spec, ImplementsDirectory, Directory!Spec

-----------------------------------------------------------------------------
(***************************************************************************)
(* The calls of the registry return, as far as safety goes: whoever waits  *)
(* waits for somebody who can go on, and nobody goes round in a circle.    *)
(* Neither assumption on the use is needed.                                *)
(***************************************************************************)

\* The states of a handle inside RegisterCluster or UpdateClusterLeader.
Inside == {"creating", "update", "flying", "joined", "probing", "publishing"}

\* Its goroutine can make a step: the answer that checkLeader owes it in
\* "creating" and "probing" comes before a timeout, if only as an error.
CanGo(c) ==
    \/ pc[c] \in {"creating", "update", "probing"}
    \/ pc[c] \in {"flying", "publishing"} /\ lock = NoClient

\* The write lock is held by a first check and by nobody else; a call waits
\* for it, or for a call that it joined and that itself goes on.
NobodyLockedOut ==
    /\ lock # NoClient => CanGo(lock)
    /\ \A c \in Clients : pc[c] \in Inside =>
           CanGo(c) \/ lock # NoClient \/ (pc[c] = "joined" /\ CanGo(joined[c]))

\* How many more steps a call makes at most before it returns or panics.
StepsToReturn(state) ==
    LET steps == [creating |-> 6, update |-> 5, flying |-> 4, probing |-> 3,
                  publishing |-> 2, joined |-> 1, open |-> 0, panicked |-> 0]
    IN  steps[state]

\* Whatever the others do, a call comes nearer to its end with every step.
RegisterBounded ==
    [][\A c \in Clients : pc[c] \in Inside =>
           \/ pc'[c] = pc[c]
           \/ /\ pc'[c] \in Inside \cup {"open", "panicked"}
              /\ StepsToReturn(pc'[c]) < StepsToReturn(pc[c])]_vars

\* The lock is held across a first check only.
LockHolderChecks == \A c \in Clients : lock = c => pc[c] = "creating"

LEMMA HolderStep ==
    ASSUME TypeOK, LockHolderChecks, [Next]_vars
    PROVE  LockHolderChecks'
  <1>. USE DEF LockHolderChecks
  <1>1. CASE Elect
    BY <1>1 DEF Elect
  <1>2. ASSUME NEW c \in Clients, Register(c) PROVE LockHolderChecks'
    BY <1>2, SentinelAssumption DEF Register, RegisterExisting, RegisterNew, TypeOK
  <1>3. ASSUME NEW c \in Clients, Create(c) PROVE LockHolderChecks'
    BY <1>3, SentinelAssumption DEF Create, CreateRecord, PanicOnConflict
  <1>4. ASSUME NEW c \in Clients, Fly(c) PROVE LockHolderChecks'
    BY <1>4 DEF Fly, StartFlight, JoinFlight, LeaderIsSet, LeaderIsUnset,
                FlightFinds, FlightFails, Publish, Land, TypeOK
  <1>5. ASSUME NEW c \in Clients,
               UpdateClusterLeader(c) \/ Unregister(c) \/ UnregisterAgain(c)
        PROVE  LockHolderChecks'
    BY <1>5 DEF UpdateClusterLeader, Unregister, UnregisterAgain, TypeOK
  <1>6. ASSUME NEW r \in Clients, HealthCheck(r) PROVE LockHolderChecks'
    BY <1>6 DEF HealthCheck, CheckFinds, CheckStores, CheckerExits
  <1>7. CASE UNCHANGED vars
    BY <1>7 DEF vars
  <1>. QED  BY <1>1, <1>2, <1>3, <1>4, <1>5, <1>6, <1>7 DEF Next

\* No configuration, no order of calls and no second Close leaves a client
\* locked out of the registry (the locks of leaderCtrl and singleflight).
THEOREM NoRegistryDeadlock == Spec => []NobodyLockedOut
  <1>1. Init => LockHolderChecks
    BY SentinelAssumption DEF Init, LockHolderChecks
  <1>2. TypeOK /\ LockHolderChecks /\ [Next]_vars => LockHolderChecks'
    BY HolderStep
  <1>3. TypeOK /\ LockHolderChecks /\ JoinersHaveACall => NobodyLockedOut
    <2>. SUFFICES ASSUME TypeOK, LockHolderChecks, JoinersHaveACall PROVE NobodyLockedOut
      OBVIOUS
    <2>1. lock # NoClient => CanGo(lock)
      BY DEF TypeOK, MaybeClient, LockHolderChecks, CanGo
    <2>2. ASSUME NEW c \in Clients, pc[c] \in Inside
          PROVE  CanGo(c) \/ lock # NoClient \/ (pc[c] = "joined" /\ CanGo(joined[c]))
      BY <2>2 DEF Inside, CanGo, JoinersHaveACall
    <2>. QED  BY <2>1, <2>2 DEF NobodyLockedOut
  <1>. QED  BY TypeCorrect, NobodyStranded, <1>1, <1>2, <1>3, PTL DEF Spec

\* RegisterCluster and UpdateClusterLeader make at most six steps, however
\* often the cluster is forgotten and registered again while they run.
THEOREM RegistrationIsBounded == Spec => RegisterBounded
  <1>. DEFINE Nearer(c) ==
           \/ pc'[c] = pc[c]
           \/ /\ pc'[c] \in Inside \cup {"open", "panicked"}
              /\ StepsToReturn(pc'[c]) < StepsToReturn(pc[c])
  <1>1. ASSUME TypeOK, [Next]_vars, NEW d \in Clients, pc[d] \in Inside PROVE Nearer(d)
    <2>. USE DEF Inside, StepsToReturn, TypeOK
    <2>1. CASE Elect \/ UNCHANGED vars
      BY <2>1 DEF Elect, vars
    <2>2. ASSUME NEW c \in Clients, Register(c) \/ Create(c) PROVE Nearer(d)
      BY <1>1, <2>2 DEF Register, RegisterExisting, RegisterNew, Create, CreateRecord,
                        PanicOnConflict
    <2>3. ASSUME NEW c \in Clients, StartFlight(c) \/ JoinFlight(c) \/ LeaderIsUnset(c)
                                    \/ FlightFinds(c)
          PROVE  Nearer(d)
      BY <1>1, <2>3 DEF StartFlight, JoinFlight, LeaderIsUnset, FlightFinds
    <2>4. ASSUME NEW c \in Clients, LeaderIsSet(c) \/ FlightFails(c) \/ Publish(c)
          PROVE  Nearer(d)
      <3>1. pc[c] \in {"flying", "probing", "publishing"} /\ Land(c)
        BY <2>4 DEF LeaderIsSet, FlightFails, Publish
      <3>2. \/ pc'[d] = pc[d]
            \/ pc'[d] = "open" /\ pc[d] \in {"flying", "probing", "publishing", "joined"}
        BY <3>1 DEF Land
      <3>. QED  BY <3>2
    <2>5. ASSUME NEW c \in Clients, UpdateClusterLeader(c) \/ Unregister(c)
          PROVE  Nearer(d)
      BY <1>1, <2>5 DEF UpdateClusterLeader, Unregister
    <2>6. ASSUME NEW c \in Clients, UnregisterAgain(c) PROVE Nearer(d)
      BY <2>6 DEF UnregisterAgain
    <2>7. ASSUME NEW r \in Clients, HealthCheck(r) PROVE Nearer(d)
      BY <2>7 DEF HealthCheck, CheckFinds, CheckStores, CheckerExits
    <2>. QED  BY <1>1, <2>1, <2>2, <2>3, <2>4, <2>5, <2>6, <2>7 DEF Next, Fly
  <1>2. TypeOK /\ [Next]_vars =>
            [\A c \in Clients : pc[c] \in Inside => Nearer(c)]_vars
    BY <1>1
  <1>. QED  BY TypeCorrect, <1>2, PTL DEF Spec, RegisterBounded
=============================================================================
