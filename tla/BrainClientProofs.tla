-------------------------- MODULE BrainClientProofs --------------------------
(* Theorems about BrainClient for every set of clients and configurations. *)
(* The handles use the registry as LeaderCtrl describes it, so that what   *)
(* LeaderCtrlProofs shows holds for them as well.                          *)
EXTENDS BrainClient, LeaderCtrlProofs

\* A step of the handles is a step of the registry, or none for it.
LEMMA RegistryStep == [ClientNext]_allVars => [Next]_vars
  <1>1. ASSUME Registry PROVE Next
    BY <1>1 DEF Registry, RegisterCluster, UnregisterCluster, Next
  <1>2. ASSUME NEW c \in Clients, Handle(c) PROVE UNCHANGED vars
    BY <1>2 DEF Handle, CreateGroup, Configure, Dial, DialFails, CloseStarts, HangUp
  <1>3. ASSUME NEW c \in Clients, Use(c) PROVE UNCHANGED vars
    BY <1>3 DEF Use, BuildPicker, StartCall, Pick, CallEnds
  <1>. QED  BY <1>1, <1>2, <1>3, ObservedAssumption DEF ClientNext, allVars

\* The registry of the client handles is a LeaderCtrl: dialling before
\* registering and the order of Close use it as its theorems suppose.
THEOREM HandlesUseRegistry == ClientSpec => Spec
  <1>1. ClientInit => Init
    BY DEF ClientInit
  <1>. QED  BY <1>1, RegistryStep, PTL DEF ClientSpec, Spec

-----------------------------------------------------------------------------
(* Types.                                                                  *)

LEMMA RecordsForType ==
    ASSUME TypeOK, NEW ready \in SUBSET Endpoints
    PROVE  RecordsFor(ready) \subseteq MaybeRecord
  <1>1. \A e \in Endpoints : {e} \in Keys
    BY DEF Keys, EndpointKeys
  <1>2. \A e \in ready : index[{e}] \in MaybeRecord
    BY <1>1 DEF TypeOK
  <1>. QED  BY <1>2 DEF RecordsFor, MaybeRecord

LEMMA InitClientType == ClientInit => ClientTypeOK
  BY DEF ClientInit, GroupInit, ClientTypeOK, GroupTypeOK, Calls, NoCall

\* newClient and Close change the group and the stage of a handle.
LEMMA HandleType ==
    ASSUME ClientTypeOK, NEW c \in Clients, Handle(c)
    PROVE  ClientTypeOK'
  <1>. USE DEF ClientTypeOK, GroupTypeOK, groupVars, Enter
  <1>1. CASE CreateGroup(c)
    BY <1>1 DEF CreateGroup, NewResolverGroup
  <1>2. CASE Configure(c)
    BY <1>2, ConfigAssumption DEF Configure, SetAddrs
  <1>3. CASE Dial(c)
    BY <1>3 DEF Dial, Build, addResolver
  <1>4. CASE DialFails(c)
    BY <1>4 DEF DialFails
  <1>5. CASE CloseStarts(c)
    BY <1>5 DEF CloseStarts, CloseGroup, removeResolverGroup
  <1>6. CASE HangUp(c)
    BY <1>6 DEF HangUp, CloseResolver, removeResolver, NoCall, Calls
  <1>. QED  BY <1>1, <1>2, <1>3, <1>4, <1>5, <1>6 DEF Handle

\* What a picker keeps about the registration is a Boolean.
LEMMA MembershipType == \A x, S : (x \in S) \in BOOLEAN
  BY SMT

\* A call moves on.
LEMMA CallMoves ==
    ASSUME call \in [Clients -> Calls], NEW c \in Clients,
           NEW at \in {"none", "pick", "blocked", "sent"}
    PROVE  [call EXCEPT ![c].at = at] \in [Clients -> Calls]
  BY DEF Calls

\* gRPC and the program change the picker and the call.
LEMMA UseType ==
    ASSUME TypeOK, ClientTypeOK, NEW c \in Clients, Use(c)
    PROVE  ClientTypeOK'
  <1>. USE DEF ClientTypeOK, GroupTypeOK, groupVars
  <1>1. CASE BuildPicker(c)
    <2>1. PICK ready \in SUBSET known[c] : \E r \in RecordsFor(ready) :
              picker' = [picker EXCEPT ![c] = {[record |-> r, ready |-> ready,
                             registered |-> pc[c] \in Counted]}]
      BY <1>1 DEF BuildPicker
    <2>2. PICK r \in RecordsFor(ready) :
              picker' = [picker EXCEPT ![c] = {[record |-> r, ready |-> ready,
                             registered |-> pc[c] \in Counted]}]
      BY <2>1
    <2>3. ready \in SUBSET Endpoints /\ r \in MaybeRecord
      BY <2>1, <2>2, RecordsForType
    <2>4. [record |-> r, ready |-> ready, registered |-> pc[c] \in Counted] \in Pickers
      <3>1. (pc[c] \in Counted) \in BOOLEAN
        BY MembershipType, Zenon
      <3>. QED  BY <2>3, <3>1, Zenon DEF Pickers
    <2>5. picker' \in [Clients -> {{}} \cup {{p} : p \in Pickers}]
      BY <2>2, <2>4
    <2>6. call' \in [Clients -> Calls]
      <3>1. call' = [call EXCEPT ![c].at = IF @ = "blocked" THEN "pick" ELSE @]
        BY <1>1 DEF BuildPicker, Rebuilt
      <3>2. call[c] \in Calls
        OBVIOUS
      <3>3. (IF call[c].at = "blocked" THEN "pick" ELSE call[c].at)
                \in {"none", "pick", "blocked", "sent"}
        BY <3>2 DEF Calls
      <3>. QED  BY <3>1, <3>3, CallMoves
    <2>. QED  BY <1>1, <2>5, <2>6 DEF BuildPicker
  <1>2. CASE StartCall(c)
    <2>1. \A method : [kind |-> selectPickFunc(method), at |-> "pick"] \in Calls
      BY DEF selectPickFunc, Calls
    <2>2. PICK method :
              call' = [call EXCEPT ![c] = [kind |-> selectPickFunc(method), at |-> "pick"]]
      BY <1>2 DEF StartCall
    <2>. QED  BY <1>2, <2>1, <2>2 DEF StartCall
  <1>3. CASE Pick(c)
    <2>1. PICK p \in picker[c] : call' = [call EXCEPT
              ![c].at = IF Targets(call[c].kind, p.ready, PickerLeader(p)) = {}
                        THEN "blocked" ELSE "sent"]
      BY <1>3 DEF Pick
    <2>. QED  BY <1>3, <2>1, CallMoves DEF Pick
  <1>4. CASE CallEnds(c)
    BY <1>4 DEF CallEnds, Calls, NoCall
  <1>. QED  BY <1>1, <1>2, <1>3, <1>4 DEF Use

LEMMA NextClientType ==
    TypeOK /\ ClientTypeOK /\ [ClientNext]_allVars => ClientTypeOK'
  <1>. SUFFICES ASSUME TypeOK, ClientTypeOK, [ClientNext]_allVars PROVE ClientTypeOK'
    OBVIOUS
  <1>1. CASE UNCHANGED clientVars
    BY <1>1 DEF clientVars, groupVars, handleVars, ClientTypeOK, GroupTypeOK
  <1>2. ASSUME NEW c \in Clients, Handle(c) PROVE ClientTypeOK'
    BY <1>2, HandleType
  <1>3. ASSUME NEW c \in Observed, Use(c) PROVE ClientTypeOK'
    BY <1>3, UseType, ObservedAssumption
  <1>. QED  BY <1>1, <1>2, <1>3 DEF ClientNext, allVars

\* Type correctness of the handles: a connection has at most one picker, its
\* record is one of the registry's or none, and a call is somewhere on its
\* way.
THEOREM ClientTypeCorrect == ClientSpec => []ClientTypeOK
  <1>1. ClientSpec => []TypeOK
    BY HandlesUseRegistry, TypeCorrect, PTL
  <1>. QED  BY <1>1, InitClientType, NextClientType, PTL DEF ClientSpec

-----------------------------------------------------------------------------
(***************************************************************************)
(* The pointer that a picker keeps.  When it is built the index leads from *)
(* any of the ready servers to the record of the cluster, because they are *)
(* of the configuration and IndexCoherent holds; later RecordStable keeps  *)
(* it there, and NoLeakedChecker keeps the record alive.                   *)
(***************************************************************************)

\* A connection knows the servers of its own configuration.
KnowsOwnServers ==
    \A c \in Clients : addrs[c] \subseteq Config[c] /\ known[c] \subseteq Config[c]

\* The picker of a registered client has the record of its cluster.
RecordOfCluster(c, p) ==
    p.registered => /\ pc[c] \in Counted \cup {"closed"}
                    /\ p.ready # {} /\ pc[c] \in Counted => p.record = index[Config[c]]

PickersInv ==
    /\ RegistryInv
    /\ ClientTypeOK
    /\ KnowsOwnServers
    /\ \A c \in Clients : \A p \in picker[c] : RecordOfCluster(c, p)

LEMMA InitPickers == ClientInit => PickersInv
  <1>. SUFFICES ASSUME ClientInit PROVE PickersInv
    OBVIOUS
  <1>1. RegistryInv
    BY InitRegistry DEF ClientInit
  <1>. QED  BY <1>1, InitClientType
       DEF PickersInv, ClientInit, GroupInit, KnowsOwnServers

\* The servers that a connection knows come from SetAddrs, which newClient
\* calls once, with the configuration.
LEMMA ServersStep ==
    ASSUME ClientTypeOK, KnowsOwnServers, [ClientNext]_allVars
    PROVE  KnowsOwnServers'
  <1>. USE DEF ClientTypeOK, GroupTypeOK, KnowsOwnServers, groupVars
  <1>1. ASSUME NEW c \in Clients, Handle(c) PROVE KnowsOwnServers'
    BY <1>1 DEF Handle, CreateGroup, NewResolverGroup, Configure, SetAddrs, Dial,
                Build, addResolver, DialFails, CloseStarts, CloseGroup, removeResolverGroup,
                HangUp, CloseResolver, removeResolver
  <1>2. ASSUME NEW c \in Clients, Use(c) PROVE KnowsOwnServers'
    BY <1>2 DEF Use, BuildPicker, StartCall, Pick, CallEnds
  <1>3. CASE UNCHANGED clientVars
    BY <1>3 DEF clientVars
  <1>. QED  BY <1>1, <1>2, <1>3, ObservedAssumption DEF ClientNext, allVars

\* Who is counted stays counted until it is closed, and who is closed is
\* not counted again.
LEMMA CountedStep ==
    ASSUME TypeOK, [Next]_vars, NEW c \in Clients
    PROVE  /\ pc[c] \in Counted => pc'[c] \in Counted \cup {"closed"}
           /\ pc[c] = "closed" => pc'[c] = "closed"
  <1>. USE DEF TypeOK, Counted
  <1>1. CASE UNCHANGED pc
    BY <1>1
  <1>2. ASSUME NEW d \in Clients, Register(d) \/ Create(d) \/ UpdateClusterLeader(d)
                                   \/ Unregister(d)
        PROVE  /\ pc[c] \in Counted => pc'[c] \in Counted \cup {"closed"}
               /\ pc[c] = "closed" => pc'[c] = "closed"
    BY <1>2 DEF Register, RegisterExisting, RegisterNew, Create, CreateRecord,
                PanicOnConflict, UpdateClusterLeader, Unregister
  <1>3. ASSUME NEW d \in Clients, Fly(d)
        PROVE  /\ pc[c] \in Counted => pc'[c] \in Counted \cup {"closed"}
               /\ pc[c] = "closed" => pc'[c] = "closed"
    BY <1>3 DEF Fly, StartFlight, JoinFlight, LeaderIsSet, LeaderIsUnset,
                FlightFinds, FlightFails, Publish, Land
  <1>4. ASSUME NEW d \in Clients, UnregisterAgain(d) \/ HealthCheck(d)
        PROVE  UNCHANGED pc
    BY <1>4 DEF UnregisterAgain, HealthCheck, CheckFinds, CheckStores, CheckerExits
  <1>5. CASE Elect
    BY <1>5 DEF Elect
  <1>6. CASE UNCHANGED vars
    BY <1>6 DEF vars
  <1>. QED  BY <1>1, <1>2, <1>3, <1>4, <1>5, <1>6 DEF Next

\* A picker that is kept stays right, whatever the registry does.
LEMMA KeptPicker ==
    ASSUME ProperUse, RegistryInv, [Next]_vars,
           NEW c \in Clients, NEW p, RecordOfCluster(c, p)
    PROVE  RecordOfCluster(c, p)'
  <1>1. TypeOK
    BY DEF RegistryInv
  <1>2. /\ pc[c] \in Counted => pc'[c] \in Counted \cup {"closed"}
        /\ pc[c] = "closed" => pc'[c] = "closed"
    BY <1>1, CountedStep
  <1>3. pc[c] \in Counted /\ pc'[c] \in Counted => index'[Config[c]] = index[Config[c]]
    BY StableStep
  <1>4. "closed" \notin Counted
    BY DEF Counted
  <1>. QED  BY <1>2, <1>3, <1>4 DEF RecordOfCluster

\* A picker that is built finds the record of its cluster.
LEMMA NewPicker ==
    ASSUME RegistryInv, KnowsOwnServers, NEW c \in Clients, BuildPicker(c)
    PROVE  \A p \in picker'[c] : c \in DOMAIN picker => RecordOfCluster(c, p)'
  <1>. SUFFICES ASSUME c \in DOMAIN picker, NEW p \in picker'[c]
                PROVE  RecordOfCluster(c, p)'
    OBVIOUS
  <1>1. PICK ready \in SUBSET known[c] : \E r \in RecordsFor(ready) :
            picker' = [picker EXCEPT ![c] = {[record |-> r, ready |-> ready,
                           registered |-> pc[c] \in Counted]}]
    BY DEF BuildPicker
  <1>2. PICK r \in RecordsFor(ready) :
            picker' = [picker EXCEPT ![c] = {[record |-> r, ready |-> ready,
                           registered |-> pc[c] \in Counted]}]
    BY <1>1
  <1>3. p = [record |-> r, ready |-> ready, registered |-> pc[c] \in Counted]
    BY <1>2
  <1>4. ready # {} => r = index[Config[c]]
    <2>1. \A e \in ready : index[{e}] = index[Config[c]]
      BY KeyFacts DEF KnowsOwnServers, RegistryInv, IndexCoherent
    <2>. QED  BY <2>1, <1>2 DEF RecordsFor
  <1>5. UNCHANGED <<pc, index>>
    BY DEF BuildPicker, vars, recordVars
  <1>. QED  BY <1>3, <1>4, <1>5 DEF RecordOfCluster

\* Pickers come from BuildPicker only.
LEMMA PickerOrigin ==
    ASSUME ClientTypeOK, [ClientNext]_allVars,
           NEW c \in Clients, NEW p \in picker'[c], p \notin picker[c]
    PROVE  BuildPicker(c)
  <1>1. CASE UNCHANGED clientVars
    BY <1>1 DEF clientVars, handleVars
  <1>2. ASSUME NEW d \in Clients, Handle(d) PROVE FALSE
    BY <1>2 DEF Handle, CreateGroup, Configure, Dial, DialFails, CloseStarts, HangUp,
                ClientTypeOK
  <1>3. ASSUME NEW d \in Observed, Use(d) PROVE BuildPicker(c)
    <2>1. CASE BuildPicker(d)
      BY <2>1, ObservedAssumption DEF BuildPicker, ClientTypeOK
    <2>2. CASE StartCall(d) \/ Pick(d) \/ CallEnds(d)
      BY <2>2 DEF StartCall, Pick, CallEnds
    <2>. QED  BY <1>3, <2>1, <2>2 DEF Use
  <1>. QED  BY <1>1, <1>2, <1>3 DEF ClientNext, allVars

LEMMA NextPickers ==
    ASSUME ProperUse, PickersInv, [ClientNext]_allVars
    PROVE  PickersInv'
  <1>. USE DEF PickersInv
  <1>1. [Next]_vars
    BY RegistryStep
  <1>2. RegistryInv'
    BY <1>1, NextRegistry DEF ProperUse
  <1>3. ClientTypeOK'
    BY NextClientType DEF RegistryInv
  <1>4. KnowsOwnServers'
    BY ServersStep
  <1>5. ASSUME NEW c \in Clients, NEW p \in picker'[c] PROVE RecordOfCluster(c, p)'
    <2>1. CASE p \in picker[c]
      BY <1>1, <2>1, KeptPicker
    <2>2. CASE p \notin picker[c]
      <3>1. BuildPicker(c)
        BY <2>2, PickerOrigin
      <3>2. c \in DOMAIN picker
        BY DEF ClientTypeOK
      <3>. QED  BY <1>5, <3>1, <3>2, NewPicker
    <2>. QED  BY <2>1, <2>2
  <1>. QED  BY <1>2, <1>3, <1>4, <1>5

\* A picker built by a registered client keeps, until that client is closed,
\* the record that the health check of its cluster maintains: the pointer of
\* getLeaderRecord needs no refresh.
THEOREM PickersAreMaintained ==
    ASSUME ProperUse
    PROVE  ClientSpec => []RegisteredPickerIsMaintained
  <1>1. ClientSpec => []PickersInv
    BY InitPickers, NextPickers, PTL DEF ClientSpec
  <1>2. PickersInv => RegisteredPickerIsMaintained
    <2>. SUFFICES ASSUME PickersInv, NEW c \in Clients, NEW p \in picker[c],
                         p.registered, p.ready # {}, pc[c] \in Counted
                  PROVE  /\ p.record # NoRecord
                         /\ p.record = index[Config[c]]
                         /\ ctx[p.record] = "live"
      BY DEF RegisteredPickerIsMaintained
    <2>1. p.record = index[Config[c]]
      BY DEF PickersInv, RecordOfCluster
    <2>2. c \in Members(Config[c]) /\ Config[c] \in Clusters /\ Config[c] \in Keys
      BY KeyFacts DEF Members
    <2>3. index[Config[c]] # NoRecord
      BY <2>2 DEF PickersInv, RegistryInv, RefCountExact
    <2>. QED  BY <2>1, <2>2, <2>3 DEF PickersInv, RegistryInv, NoLeakedChecker
  <1>. QED  BY <1>1, <1>2, PTL

-----------------------------------------------------------------------------
(***************************************************************************)
(* The order of NewClient and Close.  A handle dials, registers, uses the  *)
(* connection, hangs up and leaves the registry, in this order; what it    *)
(* has at each place follows from it.                                      *)
(***************************************************************************)

\* Whoever makes a call is registered and connected, and whoever has hung up
\* has no group, no picker and no call.
InOrderOfUse ==
    \A c \in Clients :
        /\ stage[c] \notin {"dialled", "ungrouped", "hung up"} => pc[c] = "new"
        /\ stage[c] \in {"ungrouped", "hung up"} => /\ pc[c] \in {"open", "closed"}
                                                    /\ c \notin resolverGroups
        /\ pc[c] = "closed" => stage[c] = "hung up"
        /\ stage[c] = "hung up" => picker[c] = {} /\ call[c] = NoCall
        /\ call[c] # NoCall => pc[c] = "open" /\ Connected(c)

\* How a step of the registry moves a handle.
LEMMA RegistryMoves ==
    ASSUME TypeOK, Registry, NEW c \in Clients
    PROVE  \/ pc'[c] = pc[c]
           \/ pc[c] = "new" /\ stage[c] = "dialled" /\ pc'[c] \in {"update", "creating"}
           \/ pc[c] \in Inside /\ pc'[c] \in Inside \cup {"open", "panicked"}
           \/ pc[c] = "open" /\ stage[c] = "hung up" /\ pc'[c] = "closed"
  <1>. USE DEF TypeOK, Inside
  <1>1. CASE Elect
    BY <1>1 DEF Elect
  <1>2. ASSUME NEW d \in Clients, RegisterCluster(d) \/ UnregisterCluster(d)
        PROVE  \/ pc'[c] = pc[c]
               \/ pc[c] = "new" /\ stage[c] = "dialled" /\ pc'[c] \in {"update", "creating"}
               \/ pc[c] = "open" /\ stage[c] = "hung up" /\ pc'[c] = "closed"
    BY <1>2 DEF RegisterCluster, Register, RegisterExisting, RegisterNew,
                UnregisterCluster, Unregister
  <1>3. ASSUME NEW d \in Clients, Create(d)
        PROVE  pc'[c] = pc[c] \/ (pc[c] = "creating" /\ pc'[c] \in {"update", "panicked"})
    BY <1>3 DEF Create, CreateRecord, PanicOnConflict
  <1>4. ASSUME NEW d \in Clients, Fly(d)
        PROVE  pc'[c] = pc[c] \/ (pc[c] \in Inside /\ pc'[c] \in Inside \cup {"open"})
    BY <1>4 DEF Fly, StartFlight, JoinFlight, LeaderIsSet, LeaderIsUnset,
                FlightFinds, FlightFails, Publish, Land
  <1>5. ASSUME NEW r \in Clients, HealthCheck(r) PROVE pc'[c] = pc[c]
    BY <1>5 DEF HealthCheck, CheckFinds, CheckStores, CheckerExits
  <1>. QED  BY <1>1, <1>2, <1>3, <1>4, <1>5 DEF Registry

\* A picker that is built asks for no call where there is none.
LEMMA CallStaysAway ==
    ASSUME call \in [Clients -> Calls], NEW c \in Clients, call[c] = NoCall,
           call' = [call EXCEPT ![c].at = IF @ = "blocked" THEN "pick" ELSE @]
    PROVE  call'[c] = NoCall
  <1>1. call'[c] = [NoCall EXCEPT !.at = "none"]
    BY DEF NoCall
  <1>. QED  BY <1>1 DEF NoCall

LEMMA OrderStep ==
    ASSUME TypeOK, ClientTypeOK, InOrderOfUse, [ClientNext]_allVars
    PROVE  InOrderOfUse'
  <1>. USE DEF ClientTypeOK, GroupTypeOK, InOrderOfUse, Connected
  <1>1. CASE Registry /\ UNCHANGED clientVars
    <2>1. UNCHANGED <<stage, picker, call, resolverGroups>>
      BY <1>1 DEF clientVars, groupVars, handleVars
    <2>2. ASSUME NEW c \in Clients
          PROVE  \/ pc'[c] = pc[c]
                 \/ pc[c] = "new" /\ stage[c] = "dialled" /\ pc'[c] \in {"update", "creating"}
                 \/ pc[c] \in Inside /\ pc'[c] \in Inside \cup {"open", "panicked"}
                 \/ pc[c] = "open" /\ stage[c] = "hung up" /\ pc'[c] = "closed"
      BY <1>1, RegistryMoves
    <2>. QED  BY <2>1, <2>2 DEF Inside
  <1>2. ASSUME NEW c \in Clients, Handle(c) PROVE InOrderOfUse'
    <2>. USE DEF Enter, groupVars, vars
    <2>1. CASE CreateGroup(c)
      BY <2>1 DEF CreateGroup, NewResolverGroup
    <2>2. CASE Configure(c)
      BY <2>2 DEF Configure, SetAddrs
    <2>3. CASE Dial(c)
      BY <2>3 DEF Dial, Build, addResolver
    <2>4. CASE DialFails(c)
      BY <2>4 DEF DialFails
    <2>5. CASE CloseStarts(c)
      BY <2>5 DEF CloseStarts, CloseGroup, removeResolverGroup
    <2>6. CASE HangUp(c)
      BY <2>6 DEF HangUp, CloseResolver, removeResolver
    <2>. QED  BY <1>2, <2>1, <2>2, <2>3, <2>4, <2>5, <2>6 DEF Handle
  <1>3. ASSUME NEW c \in Clients, Use(c) PROVE InOrderOfUse'
    <2>. USE DEF groupVars, vars, NoCall, Calls
    <2>1. CASE BuildPicker(c)
      <3>1. /\ stage[c] \in {"dialled", "ungrouped"}
            /\ UNCHANGED <<pc, stage, resolverGroups>>
            /\ \A d \in Clients \ {c} : picker'[d] = picker[d] /\ call'[d] = call[d]
        BY <2>1 DEF BuildPicker, Rebuilt
      <3>2. call[c] = NoCall => call'[c] = NoCall
        BY <2>1, CallStaysAway DEF BuildPicker, Rebuilt
      <3>. QED  BY <3>1, <3>2 DEF InOrderOfUse, Connected
    <2>2. CASE StartCall(c)
      BY <2>2 DEF StartCall
    <2>3. CASE Pick(c)
      <3>0. call[c].at = "pick" /\ UNCHANGED <<vars, groupVars, stage, picker>>
        BY <2>3, Zenon DEF Pick
      <3>1. call[c] # NoCall /\ UNCHANGED <<pc, stage, resolverGroups, picker>>
        <4>1. call[c] # NoCall
          <5>1. NoCall.at = "none"
            OBVIOUS
          <5>2. call[c].at = "pick"
            BY <3>0
          <5>. HIDE DEF NoCall
          <5>. QED  BY <5>1, <5>2
        <4>2. UNCHANGED <<pc, stage, resolverGroups, picker>>
          BY <3>0
        <4>. QED  BY <4>1, <4>2
      <3>2. PICK p \in picker[c] : call' = [call EXCEPT
                ![c].at = IF Targets(call[c].kind, p.ready, PickerLeader(p)) = {}
                        THEN "blocked" ELSE "sent"]
        BY <2>3 DEF Pick
      <3>3. \A d \in Clients \ {c} : call'[d] = call[d]
        BY <3>2
      <3>. QED  BY <3>1, <3>3 DEF InOrderOfUse, Connected
    <2>4. CASE CallEnds(c)
      BY <2>4 DEF CallEnds
    <2>. QED  BY <1>3, <2>1, <2>2, <2>3, <2>4 DEF Use
  <1>4. CASE UNCHANGED allVars
    BY <1>4 DEF allVars, clientVars, groupVars, handleVars, vars
  <1>. QED  BY <1>1, <1>2, <1>3, <1>4, ObservedAssumption DEF ClientNext

\* The inductive invariant of the order in which handles are used: newClient
\* registers what it has dialled, and Close hangs up before it unregisters.
THEOREM OrderInvariant == ClientSpec => [](TypeOK /\ ClientTypeOK /\ InOrderOfUse)
  <1>1. ClientInit => InOrderOfUse
    BY DEF ClientInit, Init, GroupInit, InOrderOfUse, NoCall
  <1>2. TypeOK /\ ClientTypeOK /\ InOrderOfUse /\ [ClientNext]_allVars => InOrderOfUse'
    BY OrderStep
  <1>3. ClientSpec => []TypeOK
    BY HandlesUseRegistry, TypeCorrect, PTL
  <1>. QED  BY <1>1, <1>2, <1>3, ClientTypeCorrect, PTL DEF ClientSpec

\* What Close leaves behind when the connection is hung up: nothing in the
\* builder, no picker, and no call that would wait for one.
CloseLeavesNothing ==
    \A c \in Clients : stage[c] = "hung up" =>
        picker[c] = {} /\ call[c] = NoCall /\ c \notin resolverGroups

\* Close ends the calls and takes the group from the builder before it
\* leaves the registry, and nothing comes back (client.go:134-139).
THEOREM CloseIsClean == ClientSpec => []CloseLeavesNothing
  <1>1. InOrderOfUse => CloseLeavesNothing
    BY DEF InOrderOfUse, CloseLeavesNothing
  <1>. QED  BY OrderInvariant, <1>1, PTL

\* While a call is under way there is a health check that looks for the
\* leader, whatever other handles of the cluster register and close, and
\* although the last one to close takes the record with it.
THEOREM CallsHaveHealthCheck ==
    ASSUME ProperUse
    PROVE  ClientSpec => []CallsAreServed
  <1>1. ClientSpec => []OpenClientMonitored
    BY HandlesUseRegistry, OpenClientsMonitored, PTL
  <1>2. InOrderOfUse /\ OpenClientMonitored => CallsAreServed
    BY DEF InOrderOfUse, OpenClientMonitored, CallsAreServed
  <1>. QED  BY OrderInvariant, <1>1, <1>2, PTL

-----------------------------------------------------------------------------
(***************************************************************************)
(* Pickers that are built before the handle is registered, or outlive its  *)
(* registration, may have a record that nobody updates, but never one of   *)
(* another cluster.                                                        *)
(***************************************************************************)

\* The servers of a picker, and those that its record is about.
OwnServers(c, p) ==
    /\ p.ready \subseteq Config[c]
    /\ p.record # NoRecord => p.record \in Clients /\ Config[p.record] = Config[c]

ServersInv ==
    /\ TypeOK
    /\ ClientTypeOK
    /\ OwnKeys
    /\ KnowsOwnServers
    /\ \A c \in Clients : \A p \in picker[c] : OwnServers(c, p)

\* The record under the key of a server is that of the server's cluster.
LEMMA RecordUnderServer ==
    ASSUME DisjointClusters, TypeOK, OwnKeys, NEW c \in Clients, NEW e \in Config[c],
           index[{e}] # NoRecord
    PROVE  index[{e}] \in Clients /\ Config[index[{e}]] = Config[c]
  <1>. DEFINE r == index[{e}]
  <1>1. {e} \in Keys
    BY KeyFacts
  <1>2. r \in Clients
    BY <1>1 DEF TypeOK, MaybeRecord
  <1>3. {e} \in KeysOf(Config[r])
    BY <1>1 DEF OwnKeys
  <1>4. e \in Config[r]
    BY <1>3 DEF KeysOf, EndpointKeys
  <1>5. Config[r] \in Clusters /\ Config[c] \in Clusters
    BY <1>2, KeyFacts
  <1>. QED  BY <1>2, <1>4, <1>5 DEF DisjointClusters

LEMMA BuiltOfOwnServers ==
    ASSUME DisjointClusters, ServersInv, NEW c \in Clients, BuildPicker(c),
           NEW p \in picker'[c]
    PROVE  OwnServers(c, p)
  <1>1. PICK ready \in SUBSET known[c] : \E r \in RecordsFor(ready) :
            picker' = [picker EXCEPT ![c] = {[record |-> r, ready |-> ready,
                           registered |-> pc[c] \in Counted]}]
    BY DEF BuildPicker
  <1>2. PICK r \in RecordsFor(ready) :
            picker' = [picker EXCEPT ![c] = {[record |-> r, ready |-> ready,
                           registered |-> pc[c] \in Counted]}]
    BY <1>1
  <1>3. p = [record |-> r, ready |-> ready, registered |-> pc[c] \in Counted]
    BY <1>2 DEF ServersInv, ClientTypeOK
  <1>4. ready \subseteq Config[c]
    BY DEF ServersInv, KnowsOwnServers
  <1>5. r # NoRecord => r \in Clients /\ Config[r] = Config[c]
    <2>. SUFFICES ASSUME r # NoRecord PROVE r \in Clients /\ Config[r] = Config[c]
      OBVIOUS
    <2>1. PICK e \in ready : r = index[{e}]
      BY <1>2 DEF RecordsFor
    <2>. QED  BY <1>4, <2>1, RecordUnderServer DEF ServersInv
  <1>. QED  BY <1>3, <1>4, <1>5 DEF OwnServers

LEMMA NextServers ==
    ASSUME DisjointClusters, ServersInv, [ClientNext]_allVars
    PROVE  ServersInv'
  <1>1. [Next]_vars
    BY RegistryStep
  <1>2. TypeOK' /\ ClientTypeOK' /\ OwnKeys' /\ KnowsOwnServers'
    BY <1>1, NextType, NextClientType, KeyStep, ServersStep DEF ServersInv
  <1>3. ASSUME NEW c \in Clients, NEW p \in picker'[c] PROVE OwnServers(c, p)
    <2>1. CASE p \in picker[c]
      BY <2>1 DEF ServersInv
    <2>2. CASE p \notin picker[c]
      BY <2>2, PickerOrigin, BuiltOfOwnServers DEF ServersInv
    <2>. QED  BY <2>1, <2>2
  <1>. QED  BY <1>2, <1>3 DEF ServersInv, OwnServers

\* A picker never takes a server of another cluster for the leader, and sends
\* calls to servers of its own configuration only.
PickersNameOwnServers ==
    \A c \in Clients : \A p \in picker[c] :
        /\ PickerLeader(p) \in Config[c] \cup {NoLeader}
        /\ \A kind \in {"read", "write"} : Targets(kind, p.ready, PickerLeader(p)) \subseteq Config[c]

\* Whenever it was built, registered or not, and whichever of the servers it
\* took as the key (getLeaderRecord), if clusters are disjoint.
THEOREM PickersStayInCluster ==
    ASSUME DisjointClusters
    PROVE  ClientSpec => []PickersNameOwnServers
  <1>1. ClientInit => ServersInv
    <2>. SUFFICES ASSUME ClientInit PROVE ServersInv
      OBVIOUS
    <2>1. TypeOK /\ OwnKeys
      BY InitRegistry DEF ClientInit, RegistryInv
    <2>. QED  BY <2>1, InitClientType
         DEF ServersInv, ClientInit, GroupInit, KnowsOwnServers
  <1>2. ServersInv /\ [ClientNext]_allVars => ServersInv'
    BY NextServers
  <1>3. ClientSpec => []LeaderOfOwnCluster
    BY HandlesUseRegistry, LeadersStayInCluster, PTL
  <1>4. ServersInv /\ LeaderOfOwnCluster => PickersNameOwnServers
    <2>. SUFFICES ASSUME ServersInv, LeaderOfOwnCluster, NEW c \in Clients, NEW p \in picker[c]
                  PROVE  /\ PickerLeader(p) \in Config[c] \cup {NoLeader}
                         /\ \A kind \in {"read", "write"} :
                               Targets(kind, p.ready, PickerLeader(p)) \subseteq Config[c]
      BY DEF PickersNameOwnServers
    <2>1. OwnServers(c, p)
      BY DEF ServersInv
    <2>2. PickerLeader(p) \in Config[c] \cup {NoLeader}
      BY <2>1 DEF OwnServers, PickerLeader, LeaderOfOwnCluster
    <2>3. \A kind \in {"read", "write"} :
             Targets(kind, p.ready, PickerLeader(p)) \subseteq p.ready
      BY DEF Targets, Followers
    <2>. QED  BY <2>1, <2>2, <2>3 DEF OwnServers
  <1>. QED  BY <1>1, <1>2, <1>3, <1>4, PTL DEF ClientSpec
=============================================================================
