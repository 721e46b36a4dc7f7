----------------------------- MODULE BrainClient -----------------------------
(***************************************************************************)
(* A client handle from NewClient to Close (client/client.go): its group   *)
(* of resolvers, its connection, the pickers that gRPC has built for the   *)
(* connection, its registration in LeaderCtrl, and the calls that a        *)
(* program makes with it (client/client_unary.go).                         *)
(*                                                                         *)
(* gRPC is outside of this repository.  It builds a picker whenever one of *)
(* the servers becomes ready or is no longer, asks the newest one where a  *)
(* call goes, and keeps a call for which it gets ErrNoSubConnAvailable     *)
(* until there is another picker.                                          *)
(*                                                                         *)
(* A Pick is one step here, which does what PickRule says: RWPicker shows  *)
(* that every Pick that returns does what one step would.                  *)
(***************************************************************************)
EXTENDS LeaderCtrl

(* Handles meet in the registry only: what gRPC and the program do with    *)
(* one of them changes nothing for another.  It is enough to follow the    *)
(* pickers and the calls of some, while all of them register and close.    *)
CONSTANT Observed

ASSUME ObservedAssumption == Observed \subseteq Clients

VARIABLES resolverGroups, addrs, resolvers, known,
          stage,       \* where a handle is, between NewClient and Close
          picker,      \* the newest picker of its connection, if there is one
          call         \* one call of the program with the handle

INSTANCE ResolverGroup WITH Ids <- Clients, Servers <- Endpoints
INSTANCE PickRule

groupVars == <<resolverGroups, addrs, resolvers, known>>
handleVars == <<stage, picker, call>>
clientVars == <<groupVars, handleVars>>
allVars == <<vars, clientVars>>

(* What a picker keeps: its record (NoRecord: one that is not in the index *)
(* of LeaderCtrl), the servers that were ready, and, for the properties,   *)
(* whether the handle was registered when it was built.                    *)
Pickers == [record : MaybeRecord, ready : SUBSET Endpoints, registered : BOOLEAN]

(* "pick": gRPC has not asked the newest picker yet; "blocked": it has,    *)
(* and waits for another one.                                              *)
Calls == [kind : {"read", "write"}, at : {"none", "pick", "blocked", "sent"}]
NoCall == [kind |-> "read", at |-> "none"]

ClientInit ==
    /\ Init
    /\ GroupInit
    /\ stage = [c \in Clients |-> "none"]
    /\ picker = [c \in Clients |-> {}]
    /\ call = [c \in Clients |-> NoCall]

Enter(c, from, to) ==
    /\ stage[c] = from
    /\ stage' = [stage EXCEPT ![c] = to]

-----------------------------------------------------------------------------
(* newClient and Close, but for RegisterCluster and UnregisterCluster.     *)

CreateGroup(c) ==
    /\ Enter(c, "none", "grouped")
    /\ NewResolverGroup(c)
    /\ UNCHANGED <<vars, picker, call>>

Configure(c) ==
    /\ Enter(c, "grouped", "configured")
    /\ SetAddrs(c, Config[c])
    /\ UNCHANGED <<vars, picker, call>>

(* grpc.DialContext returns at once, and connects in the background.       *)
Dial(c) ==
    /\ Enter(c, "configured", "dialled")
    /\ Build(c)
    /\ UNCHANGED <<vars, picker, call>>

(* NewClient returns the error; the group stays with the builder.          *)
DialFails(c) ==
    /\ Enter(c, "configured", "failed")
    /\ UNCHANGED <<vars, groupVars, picker, call>>

\* A mutant of CloseStarts: the group stays with the builder.
CloseStartsGrouped(c) ==
    /\ pc[c] = "open"
    /\ Enter(c, "dialled", "ungrouped")
    /\ UNCHANGED <<vars, groupVars, picker, call>>

(* Close, first step: rg.Close().                                          *)
CloseStarts(c) ==
    /\ pc[c] = "open"
    /\ Enter(c, "dialled", "ungrouped")
    /\ CloseGroup(c)
    /\ UNCHANGED <<vars, picker, call>>

(* cc.Close() closes the resolver and ends every call with an error.       *)
HangUp(c) ==
    /\ Enter(c, "ungrouped", "hung up")
    /\ CloseResolver(c)
    /\ picker' = [picker EXCEPT ![c] = {}]
    /\ call' = [call EXCEPT ![c] = NoCall]
    /\ UNCHANGED vars

Connected(c) == stage[c] \in {"dialled", "ungrouped"}

-----------------------------------------------------------------------------
(* Pickers and calls.                                                      *)

(* The client's methods, and the RPCs that they call: all but RangeStream  *)
(* the one of their name.  A call of gRPC is of a method of a service.     *)
Unary == {"Create", "Update", "Get", "Range", "Delete", "Compact", "Count", "ListPartition"}
Streaming == {"Watch", "RangeStream"}
Invokes(op) == IF op = "RangeStream" THEN {"ListPartition", "RangeStream"} ELSE {op}

ReadService == {"Get", "Range", "RangeStream", "Count", "ListPartition"}
WriteService == {"Create", "Update", "Delete", "Compact"}
WatchService == {"Watch"}

ASSUME ServicesAssumption ==
    UNION {Invokes(op) : op \in Unary \cup Streaming}
        = ReadService \cup WriteService \cup WatchService

\* By the service in the method's full name: a watch goes where writes go.
selectPickFunc(method) == IF method \in ReadService THEN "read" ELSE "write"

\* A mutant of RecordsFor: the key is not set from the servers.
RecordsForNoKey(ready) == {NoRecord}

\* newRWSeparatedRoundRobinBalanced: the record of any of the servers that
\* are ready, or of the key "".
RecordsFor(ready) == IF ready = {} THEN {NoRecord} ELSE {index[{e}] : e \in ready}

Rebuilt(c) == [call EXCEPT ![c].at = IF @ = "blocked" THEN "pick" ELSE @]

\* A mutant of BuildPicker: the pickers from before stay in use.
BuildPickerToo(c) ==
    /\ Connected(c)
    /\ lock = NoClient
    /\ \E ready \in SUBSET known[c] : \E r \in RecordsFor(ready) :
           /\ \A p \in picker[c] : ready # p.ready
           /\ picker' = [picker EXCEPT ![c] = @ \cup {[record |-> r, ready |-> ready,
                             registered |-> pc[c] \in Counted]}]
    /\ call' = Rebuilt(c)
    /\ UNCHANGED <<vars, groupVars, stage>>

(* The set of ready servers changes, and gRPC builds a picker for it.      *)
BuildPicker(c) ==
    /\ Connected(c)
    /\ lock = NoClient
    /\ \E ready \in SUBSET known[c] : \E r \in RecordsFor(ready) :
           /\ \A p \in picker[c] : ready # p.ready
           /\ picker' = [picker EXCEPT ![c] = {[record |-> r, ready |-> ready,
                             registered |-> pc[c] \in Counted]}]
    /\ call' = Rebuilt(c)
    /\ UNCHANGED <<vars, groupVars, stage>>

(* The program calls one of the methods.                                   *)
StartCall(c) ==
    /\ pc[c] = "open" /\ Connected(c)
    /\ call[c] = NoCall
    /\ \E op \in Unary \cup Streaming : \E method \in Invokes(op) :
           call' = [call EXCEPT ![c] = [kind |-> selectPickFunc(method), at |-> "pick"]]
    /\ UNCHANGED <<vars, groupVars, stage, picker>>

\* record.getLeader().
PickerLeader(p) == IF p.record = NoRecord THEN NoLeader ELSE leader[p.record]

Pick(c) ==
    /\ call[c].at = "pick"
    /\ \E p \in picker[c] : call' = [call EXCEPT
           ![c].at = IF Targets(call[c].kind, p.ready, PickerLeader(p)) = {}
                     THEN "blocked" ELSE "sent"]
    /\ UNCHANGED <<vars, groupVars, stage, picker>>

(* The call returns, with the answer of the server or any error of gRPC.   *)
CallEnds(c) ==
    /\ call[c] # NoCall
    /\ call' = [call EXCEPT ![c] = NoCall]
    /\ UNCHANGED <<vars, groupVars, stage, picker>>

-----------------------------------------------------------------------------
(* The registry, called between Dial and the return of NewClient, and at   *)
(* the end of Close.                                                       *)
RegisterCluster(c) == stage[c] = "dialled" /\ Register(c)

\* A mutant of UnregisterCluster: Close leaves the registry before it hangs up.
UnregisterEarly(c) == stage[c] = "ungrouped" /\ Unregister(c)

UnregisterCluster(c) == stage[c] = "hung up" /\ Unregister(c)

Registry == \/ Elect
            \/ \E c \in Clients : \/ RegisterCluster(c) \/ Create(c) \/ Fly(c)
                                  \/ UnregisterCluster(c)
            \/ \E r \in Clients : HealthCheck(r)

Handle(c) == \/ CreateGroup(c) \/ Configure(c) \/ Dial(c) \/ DialFails(c)
             \/ CloseStarts(c) \/ HangUp(c)
Use(c) == BuildPicker(c) \/ StartCall(c) \/ Pick(c) \/ CallEnds(c)

ClientNext == \/ Registry /\ UNCHANGED clientVars
              \/ \E c \in Clients : Handle(c)
              \/ \E c \in Observed : Use(c)

ClientSpec == ClientInit /\ [][ClientNext]_allVars

(***************************************************************************)
(* The fairness of the registry; NewClient and Close go on, and gRPC asks  *)
(* the picker it has.  Nothing makes gRPC build another one.               *)
(***************************************************************************)
ClientFairness ==
    /\ \A c \in Clients :
          /\ WF_allVars(Create(c) /\ UNCHANGED clientVars)
          /\ SF_allVars(Fly(c) /\ UNCHANGED clientVars)
          /\ WF_allVars(HangUp(c))
          /\ WF_allVars(UnregisterCluster(c) /\ UNCHANGED clientVars)
          /\ WF_allVars(Pick(c))
    /\ \A r \in Clients :
          /\ WF_allVars(CheckFinds(r) /\ UNCHANGED clientVars)
          /\ WF_allVars(CheckStores(r) /\ UNCHANGED clientVars)

FairClientSpec == ClientSpec /\ ClientFairness
-----------------------------------------------------------------------------
(* Properties.                                                             *)

\* Every variable of this module has its type.
ClientTypeOK ==
    /\ GroupTypeOK
    /\ stage \in [Clients -> {"none", "grouped", "configured", "dialled",
                              "failed", "ungrouped", "hung up"}]
    /\ picker \in [Clients -> {{}} \cup {{p} : p \in Pickers}]
    /\ call \in [Clients -> Calls]

\* A picker that was built since its client is registered has the record
\* that the health check of the client's cluster maintains, for as long as
\* the client is not closed, whichever server the picker took as the key
\* and whatever other clients come and go (client.go:120).
RegisteredPickerIsMaintained ==
    \A c \in Clients : \A p \in picker[c] :
        p.registered /\ p.ready # {} /\ pc[c] \in Counted =>
            /\ p.record # NoRecord
            /\ p.record = index[Config[c]]
            /\ ctx[p.record] = "live"

\* As long as a call is under way, in any handle, the cluster of the handle
\* has a record, and the record a running health check: the leader that the
\* call may wait for is looked for.
CallsAreServed ==
    \A c \in Clients : call[c] # NoCall =>
        LET r == index[Config[c]]
        IN  r # NoRecord /\ ctx[r] = "live" /\ checker[r] \in {"idle", "found"}

\* A server e of an open client serves for good, alone, and is ready.
Led(c, e) ==
    /\ pc[c] = "open" /\ stage[c] = "dialled"
    /\ serving \cap Config[c] = {e}
    /\ \E p \in picker[c] : e \in p.ready

Waits(c) == call[c].at \in {"pick", "blocked"}

\* With a leader that serves for good and stays connected, no call waits for
\* ever as long as gRPC builds pickers now and then.
PickersLetCallsThrough ==
    \A c \in Observed : \A e \in Config[c] :
        /\ <>[]Led(c, e)
        /\ []<><<BuildPicker(c)>>_allVars
        => (Waits(c) ~> ~Waits(c))

\* "if there is no leader, just return no available and wait for updating"
\* (rw_separated.go:150): the call waits for the leader to be updated.
CallsGetThrough ==
    \A c \in Observed : \A e \in Config[c] :
        <>[](/\ Led(c, e)
             /\ \E p \in picker[c] : p.record = index[Config[c]])
        => (Waits(c) ~> ~Waits(c))

\* Close returns, and leaves no call behind and no group in the builder.
CloseEnds ==
    \A c \in Clients : stage[c] = "ungrouped" ~>
        (pc[c] = "closed" /\ call[c] = NoCall /\ c \notin resolverGroups)
=============================================================================
