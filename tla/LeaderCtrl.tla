----------------------------- MODULE LeaderCtrl -----------------------------
(***************************************************************************)
(* The process-wide registry of cluster leaders of the picker package      *)
(* (client/balancer/picker/leader_ctrl.go): globalLeaderCtrl with its      *)
(* leaderIndex and lock, the reference-counted leaderRecords with one      *)
(* health-check goroutine each, and the singleflight update that follows a *)
(* registration.                                                           *)
(*                                                                         *)
(* A client handle calls RegisterCluster once (NewClient) and              *)
(* UnregisterCluster when it is closed, so a leaderRecord is named by the  *)
(* client whose registration created it.  marshalEndpoints sorts and joins *)
(* the endpoints: the key of a configuration is the SET of its endpoints,  *)
(* and the key of one endpoint is the same string as the key of the        *)
(* cluster that has only that endpoint, here {e} in both cases.  A         *)
(* configuration that names an endpoint twice, which panics with itself,   *)
(* is left out.                                                            *)
(***************************************************************************)
EXTENDS Integers, FiniteSets

CONSTANTS Endpoints,       \* server addresses
          Clients,         \* client handles, and the records they create
          Config,          \* [Clients -> SUBSET Endpoints], Config.Endpoints
          NoLeader,        \* the empty leader string
          NoRecord,        \* a key that leaderIndex does not hold
          NoClient,        \* nobody
          MaxElections,    \* bound: how often the servers change leadership
          MaxExtraCloses   \* bound: Close calls on handles already closed

ASSUME ClientsAssumption == IsFiniteSet(Clients)
ASSUME ConfigAssumption == Config \in [Clients -> (SUBSET Endpoints) \ {{}}]
ASSUME SentinelAssumption == /\ NoLeader \notin Endpoints
                             /\ NoRecord \notin Clients
                             /\ NoClient \notin Clients
ASSUME BoundAssumption == MaxElections \in Nat /\ MaxExtraCloses \in Nat

VARIABLES
    serving,      \* the endpoints whose health service answers SERVING
    elections,    \* how often serving has changed (bounded)
    index,        \* leaderIndex
    amount,       \* leaderRecord.amount, by record
    leader,       \* leaderRecord.leader, by record
    ctx,          \* leaderRecord.ctx, by record
    checker,      \* where the record's health-check goroutine is
    seen,         \* the address its last successful check returned
    lock,         \* who holds the write lock across its first check
    pc,           \* where each client handle is
    flight,       \* singleflight.Group: who runs the update of a cluster
    joined,       \* the call whose result a client waits for
    found,        \* the address the client's own check returned: the first
                  \* check of a new record, or the one of its update
    extraCloses   \* repeated Close calls so far (bounded)

envVars == <<serving, elections>>
recordVars == <<index, amount, ctx>>
checkVars == <<checker, seen>>
flightVars == <<flight, joined, found>>
vars == <<envVars, recordVars, leader, checkVars, lock, pc, flightVars,
          extraCloses>>

-----------------------------------------------------------------------------
Clusters == {Config[c] : c \in Clients}
EndpointKeys(cl) == {{e} : e \in cl}
Keys == Clusters \cup EndpointKeys(Endpoints)

\* A mutant of KeysOf: the endpoints are forgotten.
KeysOfOnlyCluster(cl) == {cl}

\* The keys under which the record of a cluster is stored.
KeysOf(cl) == {cl} \cup EndpointKeys(cl)

Addresses == Endpoints \cup {NoLeader}
MaybeRecord == Clients \cup {NoRecord}
MaybeClient == Clients \cup {NoClient}

\* What leaderChecker.checkLeader may answer for a cluster: the first
\* endpoint seen SERVING, or ErrNoLeader (nobody serves, or it timed out).
CheckResults(cl) == (serving \cap cl) \cup {NoLeader}

\* getLeaderAddr: "" for a key that has no record.
LeaderAddr(key) == IF index[key] = NoRecord THEN NoLeader
                                            ELSE leader[index[key]]

\* A mutant of Reindex: a fresh map instead of an update of the old one.
ReindexFresh(keys, r) == [k \in keys |-> r]

\* leaderIndex after these keys were set to a record, or deleted.
Reindex(keys, r) == [k \in Keys |-> IF k \in keys THEN r ELSE index[k]]

Init ==
    /\ serving \in SUBSET Endpoints
    /\ elections = 0
    /\ index = [k \in Keys |-> NoRecord]
    /\ amount = [r \in Clients |-> 0]
    /\ leader = [r \in Clients |-> NoLeader]
    /\ ctx = [r \in Clients |-> "free"]
    /\ checker = [r \in Clients |-> "off"]
    /\ seen = [r \in Clients |-> NoLeader]
    /\ lock = NoClient
    /\ pc = [c \in Clients |-> "new"]
    /\ flight = [cl \in Clusters |-> NoClient]
    /\ joined = [c \in Clients |-> NoClient]
    /\ found = [c \in Clients |-> NoLeader]
    /\ extraCloses = 0

-----------------------------------------------------------------------------
(* The servers: leadership moves, is lost, or overlaps for a moment.       *)
Elect ==
    /\ elections < MaxElections
    /\ elections' = elections + 1
    /\ serving' \in (SUBSET Endpoints) \ {serving}
    /\ UNCHANGED <<recordVars, leader, checkVars, lock, pc, flightVars,
                   extraCloses>>

-----------------------------------------------------------------------------
(* updateClusterAmount(eps, 1, cb), the first half of RegisterCluster.     *)

\* A mutant of RegisterExisting: the new reference is not counted.
RegisterUncounted(c) ==
    /\ pc[c] = "new"
    /\ lock = NoClient
    /\ index[Config[c]] # NoRecord
    /\ pc' = [pc EXCEPT ![c] = "update"]
    /\ UNCHANGED <<envVars, recordVars, leader, checkVars, lock, flightVars,
                   extraCloses>>

\* The cluster is registered already: one more client refers to its record.
RegisterExisting(c) ==
    /\ pc[c] = "new"
    /\ lock = NoClient
    /\ index[Config[c]] # NoRecord
    /\ amount' = [amount EXCEPT ![index[Config[c]]] = @ + 1]
    /\ pc' = [pc EXCEPT ![c] = "update"]
    /\ UNCHANGED <<envVars, index, ctx, leader, checkVars, lock, flightVars,
                   extraCloses>>

\* The answer of cb, which newLeaderRecord stores when it makes the record.
\* Nobody else passes the lock in between, so that an answer which came
\* later is the answer of a client that took the lock later.
FirstCheck(c) ==
    \E e \in CheckResults(Config[c]) : found' = [found EXCEPT ![c] = e]

\* A mutant of RegisterNew: the lookup is not repeated under the write lock.
RegisterUnseen(c) ==
    /\ pc[c] = "new"
    /\ lock = NoClient
    /\ lock' = c
    /\ pc' = [pc EXCEPT ![c] = "creating"]
    /\ FirstCheck(c)
    /\ UNCHANGED <<envVars, recordVars, leader, checkVars, flight, joined,
                   extraCloses>>

\* The cluster is new: newLeaderRecord runs the first check while the write
\* lock is held.
RegisterNew(c) ==
    /\ pc[c] = "new"
    /\ lock = NoClient
    /\ index[Config[c]] = NoRecord
    /\ lock' = c
    /\ pc' = [pc EXCEPT ![c] = "creating"]
    /\ FirstCheck(c)
    /\ UNCHANGED <<envVars, recordVars, leader, checkVars, flight, joined,
                   extraCloses>>

\* newLeaderRecord, by the client that holds the lock: one reference, the
\* answer of the first check, and a running health check.
NewRecord(c) ==
    /\ leader' = [leader EXCEPT ![c] = found[c]]
    /\ found' = [found EXCEPT ![c] = NoLeader]
    /\ amount' = [amount EXCEPT ![c] = 1]
    /\ checker' = [checker EXCEPT ![c] = "idle"]
    /\ UNCHANGED <<envVars, seen, flight, joined, extraCloses>>

\* The endpoints of the new cluster that another record holds already.  The
\* key of a one-endpoint cluster is not looked up again.
Conflicts(c) ==
    {e \in Config[c] : Config[c] # {e} /\ index[{e}] # NoRecord}

\* newLeaderRecord returns: the record is the cluster's, and each endpoint's.
CreateRecord(c) ==
    /\ pc[c] = "creating"
    /\ Conflicts(c) = {}
    /\ NewRecord(c)
    /\ ctx' = [ctx EXCEPT ![c] = "live"]
    /\ index' = Reindex(KeysOf(Config[c]), c)
    /\ lock' = NoClient
    /\ pc' = [pc EXCEPT ![c] = "update"]

\* Two mutants of PanicOnConflict: the lock is not released by a defer...
PanicWithLock(c) ==
    /\ pc[c] = "creating"
    /\ Conflicts(c) # {}
    /\ NewRecord(c)
    /\ ctx' = [ctx EXCEPT ![c] = "cancelled"]
    /\ index' = Reindex({Config[c]}, c)
    /\ pc' = [pc EXCEPT ![c] = "panicked"]
    /\ UNCHANGED lock

\* ... and the record of the endpoint in conflict is used for the cluster.
ShareOnConflict(c) ==
    /\ pc[c] = "creating"
    /\ \E e \in Conflicts(c) : index' = Reindex({Config[c]}, index[{e}])
    /\ lock' = NoClient
    /\ pc' = [pc EXCEPT ![c] = "update"]
    /\ UNCHANGED <<envVars, amount, ctx, leader, checkVars, flightVars,
                   extraCloses>>

\* An endpoint belongs to another cluster: the record is closed and the call
\* panics.  The deferred Unlock runs, but the cluster key and the endpoints
\* that came before the first conflict in the configuration stay indexed.
PanicOnConflict(c) ==
    /\ pc[c] = "creating"
    /\ Conflicts(c) # {}
    /\ NewRecord(c)
    /\ ctx' = [ctx EXCEPT ![c] = "cancelled"]
    /\ \E before \in SUBSET (Config[c] \ Conflicts(c)) :
           index' = Reindex({Config[c]} \cup EndpointKeys(before), c)
    /\ lock' = NoClient
    /\ pc' = [pc EXCEPT ![c] = "panicked"]

-----------------------------------------------------------------------------
(* updateClusterLeader(key, cb), the second half of RegisterCluster, and   *)
(* what UpdateClusterLeader does on its own.                               *)

\* UpdateClusterLeader, which a program may call for a cluster it uses.
UpdateClusterLeader(c) ==
    /\ pc[c] = "open"
    /\ pc' = [pc EXCEPT ![c] = "update"]
    /\ UNCHANGED <<envVars, recordVars, leader, checkVars, lock, flightVars,
                   extraCloses>>

\* singleflight.Do with nobody in flight for the cluster.
StartFlight(c) ==
    /\ pc[c] = "update"
    /\ flight[Config[c]] = NoClient
    /\ flight' = [flight EXCEPT ![Config[c]] = c]
    /\ pc' = [pc EXCEPT ![c] = "flying"]
    /\ UNCHANGED <<envVars, recordVars, leader, checkVars, lock, joined,
                   found, extraCloses>>

\* singleflight.Do while another call is in flight: wait for its result.
JoinFlight(c) ==
    /\ pc[c] = "update"
    /\ flight[Config[c]] # NoClient
    /\ joined' = [joined EXCEPT ![c] = flight[Config[c]]]
    /\ pc' = [pc EXCEPT ![c] = "joined"]
    /\ UNCHANGED <<envVars, recordVars, leader, checkVars, lock, flight,
                   found, extraCloses>>

\* A mutant of Land: those who joined the call are not told.
LandAlone(c) ==
    /\ pc' = [pc EXCEPT ![c] = "open"]
    /\ joined' = joined
    /\ flight' = [flight EXCEPT ![Config[c]] = NoClient]

\* The call of c ends: c and everyone who joined it return.  The entry of
\* the Group is dropped unless Forget gave it to a later call.
Land(c) ==
    /\ pc' = [d \in Clients |-> IF d = c \/ (pc[d] = "joined" /\ joined[d] = c)
                                THEN "open" ELSE pc[d]]
    /\ joined' = [d \in Clients |-> IF joined[d] = c THEN NoClient ELSE joined[d]]
    /\ flight' = [cl \in Clusters |-> IF cl = Config[c] /\ flight[cl] = c
                                      THEN NoClient ELSE flight[cl]]

\* A leader is set already: the periodic check maintains it.
LeaderIsSet(c) ==
    /\ pc[c] = "flying"
    /\ lock = NoClient
    /\ LeaderAddr(Config[c]) # NoLeader
    /\ Land(c)
    /\ UNCHANGED <<envVars, recordVars, leader, checkVars, lock, found,
                   extraCloses>>

\* No leader is set: call cb, outside of every lock.
LeaderIsUnset(c) ==
    /\ pc[c] = "flying"
    /\ lock = NoClient
    /\ LeaderAddr(Config[c]) = NoLeader
    /\ pc' = [pc EXCEPT ![c] = "probing"]
    /\ UNCHANGED <<envVars, recordVars, leader, checkVars, lock, flightVars,
                   extraCloses>>

\* cb answers with an address, which is stored by a later step.
FlightFinds(c) ==
    /\ pc[c] = "probing"
    /\ \E e \in CheckResults(Config[c]) \ {NoLeader} :
           found' = [found EXCEPT ![c] = e]
    /\ pc' = [pc EXCEPT ![c] = "publishing"]
    /\ UNCHANGED <<envVars, recordVars, leader, checkVars, lock, flight,
                   joined, extraCloses>>

\* cb answers with an error, which RegisterCluster drops.
FlightFails(c) ==
    /\ pc[c] = "probing"
    /\ Land(c)
    /\ UNCHANGED <<envVars, recordVars, leader, checkVars, lock, found,
                   extraCloses>>

\* leaderCtrl.updateClusterLeader: stored in whatever record the key has now.
Publish(c) ==
    /\ pc[c] = "publishing"
    /\ lock = NoClient
    /\ leader' = IF index[Config[c]] = NoRecord THEN leader
                 ELSE [leader EXCEPT ![index[Config[c]]] = found[c]]
    /\ Land(c)
    /\ found' = [found EXCEPT ![c] = NoLeader]
    /\ UNCHANGED <<envVars, recordVars, checkVars, lock, extraCloses>>

-----------------------------------------------------------------------------
(* updateClusterAmount(eps, -1, nil), called by Client.Close.              *)

\* A mutant of LastReference: one client too early.
LastButOne(r) == amount[r] <= 2

\* record.amount <= 0 once this reference is gone.
LastReference(r) == amount[r] <= 1

DropReference(c) ==
    LET key == Config[c]
        r == index[key]
    IN  \/ /\ r = NoRecord
           /\ UNCHANGED <<recordVars, flight>>
        \/ /\ r # NoRecord
           /\ ~ LastReference(r)
           /\ amount' = [amount EXCEPT ![r] = @ - 1]
           /\ UNCHANGED <<index, ctx, flight>>
        \/ /\ r # NoRecord
           /\ LastReference(r)
           /\ amount' = [amount EXCEPT ![r] = @ - 1]
           /\ index' = Reindex(KeysOf(key), NoRecord)
           /\ ctx' = [ctx EXCEPT ![r] = "cancelled"]
           /\ flight' = [flight EXCEPT ![key] = NoClient]

Unregister(c) ==
    /\ pc[c] = "open"
    /\ lock = NoClient
    /\ DropReference(c)
    /\ pc' = [pc EXCEPT ![c] = "closed"]
    /\ UNCHANGED <<envVars, leader, checkVars, lock, joined, found, extraCloses>>

\* Nothing in Close remembers that the handle was closed before.
UnregisterAgain(c) ==
    /\ pc[c] = "closed"
    /\ extraCloses < MaxExtraCloses
    /\ extraCloses' = extraCloses + 1
    /\ lock = NoClient
    /\ DropReference(c)
    /\ UNCHANGED <<envVars, leader, checkVars, lock, pc, joined, found>>

-----------------------------------------------------------------------------
(* leaderRecord.healthCheck, the goroutine of a record.                    *)

\* A mutant of CheckFinds: the error of a failed check is not looked at.
CheckEndsAnyhow(r) ==
    /\ checker[r] = "idle"
    /\ \E e \in CheckResults(Config[r]) : seen' = [seen EXCEPT ![r] = e]
    /\ checker' = [checker EXCEPT ![r] = "found"]
    /\ UNCHANGED <<envVars, recordVars, leader, lock, pc, flightVars,
                   extraCloses>>

\* A tick: cb answers with an address.  A failed check changes nothing and
\* is not a step.  After a cancel the select may still take a ready tick.
CheckFinds(r) ==
    /\ checker[r] = "idle"
    /\ \E e \in CheckResults(Config[r]) \ {NoLeader} :
           seen' = [seen EXCEPT ![r] = e]
    /\ checker' = [checker EXCEPT ![r] = "found"]
    /\ UNCHANGED <<envVars, recordVars, leader, lock, pc, flightVars,
                   extraCloses>>

\* A mutant of CheckStores: the first leader is kept.
CheckStoresOnce(r) ==
    /\ checker[r] = "found"
    /\ leader' = [leader EXCEPT ![r] = IF @ = NoLeader THEN seen[r] ELSE @]
    /\ checker' = [checker EXCEPT ![r] = "idle"]
    /\ seen' = [seen EXCEPT ![r] = NoLeader]
    /\ UNCHANGED <<envVars, recordVars, lock, pc, flightVars, extraCloses>>

\* leaderRecord.setLeader.
CheckStores(r) ==
    /\ checker[r] = "found"
    /\ leader' = [leader EXCEPT ![r] = seen[r]]
    /\ checker' = [checker EXCEPT ![r] = "idle"]
    /\ seen' = [seen EXCEPT ![r] = NoLeader]
    /\ UNCHANGED <<envVars, recordVars, lock, pc, flightVars, extraCloses>>

\* A mutant of CheckerExits: not before a leader was ever found.
CheckerExitsWithLeader(r) ==
    /\ checker[r] = "idle"
    /\ ctx[r] = "cancelled"
    /\ leader[r] # NoLeader
    /\ checker' = [checker EXCEPT ![r] = "exited"]
    /\ UNCHANGED <<envVars, recordVars, leader, seen, lock, pc, flightVars,
                   extraCloses>>

\* ctx.Done.
CheckerExits(r) ==
    /\ checker[r] = "idle"
    /\ ctx[r] = "cancelled"
    /\ checker' = [checker EXCEPT ![r] = "exited"]
    /\ UNCHANGED <<envVars, recordVars, leader, seen, lock, pc, flightVars,
                   extraCloses>>

-----------------------------------------------------------------------------
Register(c) == RegisterExisting(c) \/ RegisterNew(c)
Create(c) == CreateRecord(c) \/ PanicOnConflict(c)
Fly(c) == \/ StartFlight(c) \/ JoinFlight(c)
          \/ LeaderIsSet(c) \/ LeaderIsUnset(c)
          \/ FlightFinds(c) \/ FlightFails(c) \/ Publish(c)
HealthCheck(r) == CheckFinds(r) \/ CheckStores(r) \/ CheckerExits(r)

Next == \/ Elect
        \/ \E c \in Clients : \/ Register(c) \/ Create(c) \/ Fly(c)
                              \/ UpdateClusterLeader(c)
                              \/ Unregister(c) \/ UnregisterAgain(c)
        \/ \E r \in Clients : HealthCheck(r)

Spec == Init /\ [][Next]_vars

(***************************************************************************)
(* A goroutine that can run does run; the ticker fires every second, so a  *)
(* record whose cluster keeps serving is checked again and again, and not  *)
(* every check fails.  Who is a client, and when it closes, is up to the   *)
(* program that uses the library.                                          *)
(***************************************************************************)
Fairness ==
    /\ \A c \in Clients : WF_vars(Create(c)) /\ SF_vars(Fly(c))
    /\ \A r \in Clients : /\ WF_vars(CheckFinds(r))
                          /\ WF_vars(CheckStores(r))
                          /\ SF_vars(CheckerExits(r))

FairSpec == Spec /\ Fairness
-----------------------------------------------------------------------------
(* Properties.                                                             *)

\* The clients the registry counts for a cluster: registered, not closed.
Counted == {"update", "flying", "joined", "probing", "publishing", "open"}
Members(cl) == {c \in Clients : Config[c] = cl /\ pc[c] \in Counted}

\* Two configurations share either all of their endpoints or none, as the
\* panic in updateClusterAmount demands.
DisjointClusters ==
    \A cl1, cl2 \in Clusters : cl1 = cl2 \/ cl1 \cap cl2 = {}

\* Every variable has its type.
TypeOK ==
    /\ serving \in SUBSET Endpoints
    /\ elections \in 0..MaxElections
    /\ index \in [Keys -> MaybeRecord]
    /\ amount \in [Clients -> Int]
    /\ leader \in [Clients -> Addresses]
    /\ ctx \in [Clients -> {"free", "live", "cancelled"}]
    /\ checker \in [Clients -> {"off", "idle", "found", "exited"}]
    /\ seen \in [Clients -> Addresses]
    /\ lock \in MaybeClient
    /\ pc \in [Clients -> Counted \cup {"new", "creating", "closed", "panicked"}]
    /\ flight \in [Clusters -> MaybeClient]
    /\ joined \in [Clients -> MaybeClient]
    /\ found \in [Clients -> Addresses]
    /\ extraCloses \in 0..MaxExtraCloses

\* The reference count of an indexed record is the number of clients that
\* registered its cluster and did not close (leaderRecord.amount), and a
\* cluster without a record has no such client.
RefCountExact ==
    \A cl \in Clusters :
        IF index[cl] = NoRecord THEN Members(cl) = {}
        ELSE amount[index[cl]] = Cardinality(Members(cl))

\* leaderIndex holds one record per cluster, under the cluster key and under
\* each of its endpoints: a picker finds it by any ready address.
IndexCoherent ==
    \A cl \in Clusters : \A e \in cl : index[{e}] = index[cl]

\* No health-check goroutine outlives its cluster: a record that was not
\* cancelled is the one its cluster key leads to, and an indexed record is
\* not cancelled.
NoLeakedChecker ==
    /\ \A r \in Clients : ctx[r] = "live" => index[Config[r]] = r
    /\ \A k \in Keys : index[k] # NoRecord => ctx[index[k]] = "live"

\* A client whose RegisterCluster returned, and that did not close, has its
\* cluster checked periodically ("register cluster to run background heath
\* check periodically", client.go:120).
OpenClientMonitored ==
    \A c \in Clients : pc[c] = "open" =>
        LET r == index[Config[c]]
        IN  /\ r # NoRecord
            /\ ctx[r] = "live"
            /\ checker[r] \in {"idle", "found"}
            /\ Config[r] = Config[c]

\* As long as no registration has panicked, a client whose RegisterCluster
\* returned, and that did not close, refers to a record with a running
\* health check ("register cluster to run background heath check
\* periodically", client.go:120), whoever created that record.
RegisteredIsChecked ==
    (\A d \in Clients : pc[d] # "panicked") =>
        \A c \in Clients : pc[c] = "open" =>
            LET r == index[Config[c]]
            IN  /\ r # NoRecord
                /\ ctx[r] = "live"
                /\ checker[r] \in {"idle", "found"}

\* A record never names an endpoint of another cluster, whoever stored it:
\* its own check, or the update of a client that found it under its key.
LeaderOfOwnCluster ==
    \A r \in Clients : leader[r] \in Config[r] \cup {NoLeader}

\* Who joined the update of another client waits for a call that runs, and
\* that asks the servers of its own cluster: singleflight.Forget, when the
\* last reference is dropped, strands nobody.
JoinersHaveACall ==
    \A c \in Clients : pc[c] = "joined" =>
        /\ joined[c] # NoClient
        /\ pc[joined[c]] \in {"flying", "probing", "publishing"}
        /\ Config[joined[c]] = Config[c]

\* The record of a cluster is the same object for as long as some client is
\* counted: the pointer a picker caches when it is built stays the one that
\* the health check maintains (getLeaderRecord).
RecordStable ==
    [][\A c \in Clients :
          pc[c] \in Counted /\ pc'[c] \in Counted
              => index'[Config[c]] = index[Config[c]]]_vars

\* The registry does what ClusterDirectory promises.
Directory == INSTANCE ClusterDirectory
                 WITH members <- [cl \in Clusters |-> Members(cl)],
                      known <- [cl \in Clusters |-> LeaderAddr(cl)]
ImplementsDirectory == Directory!Spec

\* When one endpoint of a record that is never cancelled serves for good, it
\* becomes the recorded leader and stays it, whatever stale answer is still
\* to be stored, by the record's own check or by the update of any client
\* that finds the record under its key.
LeaderConverges ==
    \A r \in Clients : \A e \in Config[r] :
        <>[](ctx[r] = "live" /\ serving \cap Config[r] = {e})
            => <>[](leader[r] = e)

\* RegisterCluster returns or panics, and leaves nobody locked out.
RegisterReturns ==
    \A c \in Clients :
        pc[c] \in {"creating"} \cup Counted ~> pc[c] \in {"open", "closed", "panicked"}

\* The goroutine of a cancelled record ends.
CheckerEnds ==
    \A r \in Clients : ctx[r] = "cancelled" ~> checker[r] = "exited"
=============================================================================
