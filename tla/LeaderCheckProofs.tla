--------------------------- MODULE LeaderCheckProofs ---------------------------
(***************************************************************************)
(* Proofs about the check of the leader and the names that its handshakes  *)
(* verify, for every cluster, whatever its hosts are looked up to.         *)
(***************************************************************************)
EXTENDS LeaderCheck, TLAPS

-----------------------------------------------------------------------------
(* Types.                                                                  *)

\* A step of a connection keeps the types.
LEMMA ConnectKeepsTypes ==
    ASSUME ConnTypeOK, NEW c \in Conns, Connect(c)
    PROVE  ConnTypeOK'
<1>1. DialEp(c) \in Dials /\ Host(DialEp(c)) \in Names
  BY DEF Dials, Names
<1>2. CASE Dial(c)
  BY <1>2 DEF ConnTypeOK, Dial, Reachable
<1>3. CASE DialFails(c)
  BY <1>3 DEF ConnTypeOK, DialFails
<1>4. CASE updateAddrToEndpoint(c)
  BY <1>1, <1>4 DEF ConnTypeOK, updateAddrToEndpoint
<1>5. CASE ClientHandshake(c)
  <2>1. PICK r \in remote[c] : actualAuth' = [actualAuth EXCEPT
            ![c] = IF addrToEndpoint[r] = {} THEN {Auth(c)}
                   ELSE {Host(ep) : ep \in addrToEndpoint[r]}]
    BY <1>5 DEF ClientHandshake
  <2>2. r \in Remotes
    BY DEF ConnTypeOK
  <2>3. Auth(c) \in Names
    <3>1. CASE c.of = "calls"
      BY <3>1 DEF Auth, Names
    <3>2. CASE c.of = "check"
      <4>1. Auth(c) = Host(DialEp(c))
        BY <3>2 DEF Auth, DialEp, Host, Proto
      <4> QED BY <4>1, <1>1
    <3> QED BY <3>1, <3>2 DEF Conns
  <2>4. addrToEndpoint[r] # {} =>
            \E h \in Names : {Host(ep) : ep \in addrToEndpoint[r]} = {h}
    <3>1. SUFFICES ASSUME NEW ep \in Dials, addrToEndpoint[r] = {ep}
                   PROVE  \E h \in Names : {Host(e) : e \in addrToEndpoint[r]} = {h}
      BY <2>2 DEF ConnTypeOK
    <3>2. Host(ep) \in Names
      BY DEF Names
    <3> QED BY <3>1, <3>2
  <2>5. actualAuth' \in [Conns -> {{}} \cup {{h} : h \in Names}]
    BY <2>1, <2>3, <2>4 DEF ConnTypeOK
  <2>6. PICK result \in {"ready", "failed"} : conn' = [conn EXCEPT ![c] = result]
    BY <1>5 DEF ClientHandshake
  <2> QED BY <1>5, <2>5, <2>6 DEF ConnTypeOK, ClientHandshake
<1>6. CASE NoHandshake(c)
  BY <1>6 DEF ConnTypeOK, NoHandshake
<1> QED BY <1>2, <1>3, <1>4, <1>5, <1>6 DEF Connect

\* A step of the check keeps the types.
LEMMA CheckKeepsTypes ==
    ASSUME TypeOK, Check
    PROVE  /\ ctx' \in {"live", "expired", "cancelled"}
           /\ prober' \in [Endpoints -> {"ask", "unhealthy", "send", "done"}]
           /\ waiter' \in {"wait", "done"}
           /\ leader' \in {{}} \cup {{ep} : ep \in Endpoints \cup {NoLeader}}
<1>1. ASSUME NEW ep \in Endpoints, HealthAnswer(ep) \/ HealthFails(ep)
      PROVE  prober' \in [Endpoints -> {"ask", "unhealthy", "send", "done"}]
             /\ UNCHANGED <<ctx, waiter, leader>>
  BY <1>1 DEF TypeOK, HealthAnswer, HealthFails
<1>2. ASSUME NEW ep \in Endpoints, SendLeader(ep)
      PROVE  /\ prober' \in [Endpoints -> {"ask", "unhealthy", "send", "done"}]
             /\ ctx' \in {"live", "expired", "cancelled"}
             /\ leader' = {ep} /\ waiter' = waiter
  BY <1>2 DEF TypeOK, SendLeader, Return
<1>3. ASSUME NEW ep \in Endpoints, LeaveLeader(ep)
      PROVE  prober' \in [Endpoints -> {"ask", "unhealthy", "send", "done"}]
             /\ UNCHANGED <<ctx, waiter, leader>>
  BY <1>3 DEF TypeOK, LeaveLeader
<1>4. CASE SendNoLeader
  BY <1>4 DEF TypeOK, SendNoLeader, Return
<1>5. CASE LeaveNoLeader
  BY <1>5 DEF TypeOK, LeaveNoLeader
<1>6. CASE TimedOut
  BY <1>6 DEF TypeOK, TimedOut, Return
<1>7. CASE Timeout
  BY <1>7 DEF TypeOK, Timeout
<1> QED BY <1>1, <1>2, <1>3, <1>4, <1>5, <1>6, <1>7 DEF Check, Prober, TypeOK

\* Every variable keeps its type.
THEOREM CheckTypeCorrect == Spec => []TypeOK
<1>1. Init => TypeOK
  BY DEF Init, ConnInit, TypeOK, ConnTypeOK
<1>2. TypeOK /\ [Next]_vars => TypeOK'
  <2> SUFFICES ASSUME TypeOK, [Next]_vars PROVE TypeOK'
    OBVIOUS
  <2>1. CASE Check /\ UNCHANGED connVars
    <3>1. ConnTypeOK'
      BY <2>1 DEF TypeOK, ConnTypeOK, connVars
    <3> QED BY <2>1, <3>1, CheckKeepsTypes DEF TypeOK
  <2>2. ASSUME NEW c \in Conns, Connect(c), UNCHANGED checkVars
        PROVE  TypeOK'
    <3>1. ConnTypeOK'
      BY <2>2, ConnectKeepsTypes DEF TypeOK
    <3> QED BY <2>2, <3>1 DEF TypeOK, checkVars
  <2>3. CASE UNCHANGED vars
    BY <2>3 DEF TypeOK, ConnTypeOK, vars, connVars, checkVars
  <2> QED BY <2>1, <2>2, <2>3 DEF Next
<1> QED BY <1>1, <1>2, PTL DEF Spec

-----------------------------------------------------------------------------
(* Names.                                                                  *)

\* Why AuthServesRemote holds: an address is in the map only under an
\* endpoint that leads to it, and is in it before the handshake.
MapInv ==
    /\ \A r \in Remotes : \A ep \in addrToEndpoint[r] : r \in Reachable(ep)
    /\ \A c \in Conns : conn[c] = "connected" =>
           /\ remote[c] # {}
           /\ remote[c] \subseteq Reachable(DialEp(c))
    /\ \A c \in Conns : conn[c] = "dialled" =>
           \A r \in remote[c] : addrToEndpoint[r] # {}
    /\ \A c \in Conns : conn[c] = "idle" => remote[c] = {} /\ actualAuth[c] = {}
    /\ \A c \in Conns : conn[c] \in {"connected", "dialled"} => actualAuth[c] = {}
    /\ AuthServesRemote

LEMMA ConnectKeepsMap ==
    ASSUME ConnTypeOK, MapInv, NEW c \in Conns, Connect(c)
    PROVE  MapInv'
<1>d. DialEp(c) \in Dials
  BY DEF Dials
<1>1. CASE Dial(c)
  <2>1. PICK r \in Reachable(DialEp(c)) : remote' = [remote EXCEPT ![c] = {r}]
    BY <1>1 DEF Dial
  <2>2. actualAuth[c] = {}
    BY <1>1 DEF Dial, MapInv
  <2> QED BY <1>1, <2>1, <2>2 DEF ConnTypeOK, Dial, MapInv, AuthServesRemote
<1>2. CASE DialFails(c)
  BY <1>2 DEF ConnTypeOK, DialFails, MapInv, AuthServesRemote
<1>3. CASE updateAddrToEndpoint(c)
  <2>1. \A r \in Remotes : \A ep \in addrToEndpoint'[r] : r \in Reachable(ep)
    BY <1>3 DEF updateAddrToEndpoint, MapInv
  <2>2. \A r \in Remotes : addrToEndpoint[r] # {} => addrToEndpoint'[r] # {}
    BY <1>3 DEF updateAddrToEndpoint
  <2>3. \A r \in remote[c] : addrToEndpoint'[r] # {}
    BY <1>3 DEF updateAddrToEndpoint, ConnTypeOK
  <2>4. \A d \in Conns : conn'[d] = "dialled" =>
            \A r \in remote'[d] : addrToEndpoint'[r] # {}
    BY <1>3, <2>2, <2>3 DEF updateAddrToEndpoint, MapInv, ConnTypeOK
  <2>5. actualAuth[c] = {}
    BY <1>3 DEF updateAddrToEndpoint, MapInv
  <2> QED BY <1>3, <2>1, <2>4, <2>5
          DEF updateAddrToEndpoint, MapInv, AuthServesRemote, ConnTypeOK
<1>4. CASE ClientHandshake(c)
  <2>1. PICK r \in remote[c] : actualAuth' = [actualAuth EXCEPT
            ![c] = IF addrToEndpoint[r] = {} THEN {Auth(c)}
                   ELSE {Host(ep) : ep \in addrToEndpoint[r]}]
    BY <1>4 DEF ClientHandshake
  <2>2. r \in Remotes /\ remote[c] = {r} /\ addrToEndpoint[r] # {}
    BY <1>4, <2>1 DEF ClientHandshake, MapInv, ConnTypeOK
  <2>3. PICK ep \in Dials : addrToEndpoint[r] = {ep}
    BY <2>2 DEF ConnTypeOK
  <2>4. actualAuth' = [actualAuth EXCEPT ![c] = {Host(ep)}] /\ r \in Reachable(ep)
    <3>1. {Host(e) : e \in addrToEndpoint[r]} = {Host(ep)}
      BY <2>3
    <3>2. r \in Reachable(ep)
      BY <2>2, <2>3 DEF MapInv
    <3> QED BY <2>1, <2>2, <3>1, <3>2
  <2>5. AuthServesRemote'
    <3> SUFFICES ASSUME NEW d \in Conns, NEW h \in actualAuth'[d]
                 PROVE  \E e \in Dials : Host(e) = h /\ remote[d] \subseteq Reachable(e)
      BY <1>4 DEF AuthServesRemote, ClientHandshake
    <3>1. CASE d = c
      BY <2>2, <2>4, <3>1 DEF ConnTypeOK
    <3>2. CASE d # c
      BY <2>4, <3>2 DEF ConnTypeOK, MapInv, AuthServesRemote
    <3> QED BY <3>1, <3>2
  <2>6. PICK result \in {"ready", "failed"} : conn' = [conn EXCEPT ![c] = result]
    BY <1>4 DEF ClientHandshake
  <2>7. \A d \in Conns : conn'[d] \in {"idle", "connected", "dialled"} =>
            d # c /\ conn'[d] = conn[d] /\ actualAuth'[d] = actualAuth[d]
    BY <2>4, <2>6 DEF ConnTypeOK
  <2> HIDE DEF AuthServesRemote
  <2> QED BY <1>4, <2>5, <2>7 DEF ClientHandshake, MapInv
<1>5. CASE NoHandshake(c)
  BY <1>5 DEF ConnTypeOK, NoHandshake, MapInv, AuthServesRemote
<1> QED BY <1>1, <1>2, <1>3, <1>4, <1>5 DEF Connect

LEMMA MapInvariant == Spec => []MapInv
<1>1. Init => MapInv
  BY DEF Init, ConnInit, MapInv, AuthServesRemote
<1>2. TypeOK /\ MapInv /\ [Next]_vars => MapInv'
  <2> SUFFICES ASSUME TypeOK, MapInv, [Next]_vars PROVE MapInv'
    OBVIOUS
  <2>1. CASE UNCHANGED connVars
    BY <2>1 DEF MapInv, AuthServesRemote, connVars
  <2>2. ASSUME NEW c \in Conns, Connect(c) PROVE MapInv'
    BY <2>2, ConnectKeepsMap DEF TypeOK
  <2> QED BY <2>1, <2>2 DEF Next, vars
<1> QED BY <1>1, <1>2, CheckTypeCorrect, PTL DEF Spec

\* Every handshake asks for the certificate of a host that leads to the
\* remote address of the connection.
THEOREM NamesServeRemotes == Spec => []AuthServesRemote
<1>1. MapInv => AuthServesRemote
  BY DEF MapInv
<1> QED BY <1>1, MapInvariant, PTL

-----------------------------------------------------------------------------
(* The refinement.                                                         *)

\* A step that leaves the probers, the context and the result alone.
LEMMA QuietStep ==
    ASSUME prober' = prober, (ctx' = "expired") <=> (ctx = "expired"), leader' = leader
    PROVE  UNCHANGED Probe!probeVars
BY DEF Probe!probeVars

\* Who gives up sending does so because time is up or somebody else has
\* been heard; so that while checkLeader runs, a goroutine that is done shows
\* that time is up.
CtxInv ==
    leader = {} => /\ ctx # "cancelled"
                   /\ \A ep \in Endpoints : prober[ep] = "done" => ctx = "expired"

LEMMA CheckKeepsCtx ==
    ASSUME TypeOK, CtxInv, Check
    PROVE  CtxInv'
<1>1. ASSUME NEW ep \in Endpoints, HealthAnswer(ep) \/ HealthFails(ep) PROVE CtxInv'
  BY <1>1 DEF TypeOK, CtxInv, HealthAnswer, HealthFails
<1>2. ASSUME NEW ep \in Endpoints, LeaveLeader(ep) PROVE CtxInv'
  BY <1>2 DEF TypeOK, CtxInv, LeaveLeader
<1>3. ASSUME NEW ep \in Endpoints, SendLeader(ep) PROVE CtxInv'
  BY <1>3 DEF CtxInv, SendLeader, Return
<1>4. CASE SendNoLeader \/ TimedOut
  BY <1>4 DEF CtxInv, SendNoLeader, TimedOut, Return
<1>5. CASE LeaveNoLeader \/ Timeout
  BY <1>5 DEF TypeOK, CtxInv, LeaveNoLeader, Timeout
<1> QED BY <1>1, <1>2, <1>3, <1>4, <1>5 DEF Check, Prober

\* Every step of the check is a step of LeaderProbe, or none.
LEMMA CheckStepsProbe ==
    ASSUME TypeOK, CtxInv, Check
    PROVE  Probe!Next \/ UNCHANGED Probe!probeVars
<1>1. ASSUME NEW ep \in Endpoints, HealthAnswer(ep) PROVE Probe!Answer(ep)
  BY <1>1 DEF TypeOK, HealthAnswer, Probe!Answer
<1>2. ASSUME NEW ep \in Endpoints, HealthFails(ep) PROVE Probe!Answer(ep)
  BY <1>2 DEF TypeOK, HealthFails, Probe!Answer
<1>3. ASSUME NEW ep \in Endpoints, SendLeader(ep) PROVE Probe!Decide(ep)
  BY <1>3 DEF TypeOK, SendLeader, Return, Probe!Decide
<1>4. ASSUME NEW ep \in Endpoints, LeaveLeader(ep) PROVE UNCHANGED Probe!probeVars
  BY <1>4 DEF TypeOK, LeaveLeader, Probe!probeVars
<1>5. CASE SendNoLeader
  <2>1. /\ leader = {} /\ leader' = {NoLeader} /\ prober' = prober
        /\ (ctx' = "expired") <=> (ctx = "expired")
    BY <1>5 DEF SendNoLeader, Return
  <2>2. ctx = "expired" \/ \A ep \in Endpoints : prober[ep] = "unhealthy"
    BY <1>5, <2>1 DEF SendNoLeader, AllDone, CtxInv
  <2>3. ASSUME NEW ep \in Endpoints, prober[ep] = "unhealthy"
        PROVE  prober[ep] # "ask"
    BY <2>3
  <2>4. Probe!GiveUp
    BY <2>1, <2>2, <2>3 DEF Probe!GiveUp
  <2> QED BY <2>4 DEF Probe!Next
<1>6. CASE LeaveNoLeader
  BY <1>6, QuietStep DEF LeaveNoLeader
<1>7. CASE TimedOut
  <2>1. /\ leader = {} /\ leader' = {NoLeader} /\ prober' = prober
        /\ ctx = "expired" /\ ctx' = "expired"
    BY <1>7 DEF TimedOut, Return
  <2>2. Probe!GiveUp
    BY <2>1 DEF Probe!GiveUp
  <2> QED BY <2>2 DEF Probe!Next
<1>8. CASE Timeout
  <2>1. ctx' = "expired" /\ prober' = prober /\ leader' = leader
    BY <1>8 DEF Timeout
  <2>2. Probe!Expire
    BY <2>1 DEF Probe!Expire
  <2> QED BY <2>2 DEF Probe!Next
<1> QED BY <1>1, <1>2, <1>3, <1>4, <1>5, <1>6, <1>7, <1>8
        DEF Check, Prober, Probe!Next

LEMMA CtxInvariant == Spec => []CtxInv
<1>1. Init => CtxInv
  BY DEF Init, CtxInv
<1>2. TypeOK /\ CtxInv /\ [Next]_vars => CtxInv'
  <2> SUFFICES ASSUME TypeOK, CtxInv, [Next]_vars PROVE CtxInv'
    OBVIOUS
  <2>1. CASE UNCHANGED checkVars
    BY <2>1 DEF CtxInv, checkVars
  <2> QED BY <2>1, CheckKeepsCtx DEF Next, vars
<1> QED BY <1>1, <1>2, CheckTypeCorrect, PTL DEF Spec

\* checkLeader, with its goroutines, channels and connections, implements
\* LeaderProbe.
THEOREM ProbeImplemented == Spec => ImplementsProbe
<1>1. Init => Probe!Init
  BY DEF Init, Probe!Init
<1>2. TypeOK /\ CtxInv /\ [Next]_vars => [Probe!Next]_Probe!probeVars
  <2> SUFFICES ASSUME TypeOK, CtxInv, [Next]_vars
               PROVE  Probe!Next \/ UNCHANGED Probe!probeVars
    OBVIOUS
  <2>1. CASE UNCHANGED checkVars
    BY <2>1, QuietStep DEF checkVars
  <2> QED BY <2>1, CheckStepsProbe DEF Next, vars
<1> QED BY <1>1, <1>2, CtxInvariant, CheckTypeCorrect, PTL DEF Spec, ImplementsProbe, Probe!Spec
-----------------------------------------------------------------------------
(* Names, when hosts do not share addresses.                               *)

\* Dials that may arrive at one address are dials of one host.
HostsApart ==
    \A e, f \in Dials : Reachable(e) \cap Reachable(f) # {} => Host(e) = Host(f)

\* Every handshake verifies the host of its own endpoint.
OwnNames == \A c \in Conns : actualAuth[c] \subseteq {Host(DialEp(c))}

\* A connection keeps an address of its own endpoint, and has one before it
\* shakes hands.
RemoteInv ==
    \A c \in Conns :
        /\ remote[c] \subseteq Reachable(DialEp(c))
        /\ conn[c] \in {"connected", "dialled"} \/ actualAuth[c] # {} => remote[c] # {}

LEMMA ConnectKeepsRemote ==
    ASSUME ConnTypeOK, MapInv, RemoteInv, NEW c \in Conns, Connect(c)
    PROVE  RemoteInv'
<1>1. CASE Dial(c)
  <2>1. PICK r \in Reachable(DialEp(c)) : remote' = [remote EXCEPT ![c] = {r}]
    BY <1>1 DEF Dial
  <2> QED BY <1>1, <2>1 DEF ConnTypeOK, Dial, RemoteInv
<1>2. CASE DialFails(c)
  BY <1>2 DEF ConnTypeOK, DialFails, RemoteInv, MapInv
<1>3. CASE updateAddrToEndpoint(c) \/ NoHandshake(c)
  BY <1>3 DEF ConnTypeOK, updateAddrToEndpoint, NoHandshake, RemoteInv
<1>4. CASE ClientHandshake(c)
  <2>1. remote' = remote /\ remote[c] # {}
    BY <1>4 DEF ClientHandshake
  <2>2. \A d \in Conns \ {c} : conn'[d] = conn[d] /\ actualAuth'[d] = actualAuth[d]
    BY <1>4 DEF ConnTypeOK, ClientHandshake
  <2> QED BY <2>1, <2>2 DEF RemoteInv
<1> QED BY <1>1, <1>2, <1>3, <1>4 DEF Connect

\* When no two hosts of the cluster share an address, a handshake never asks
\* for the certificate of another server than the one that was dialled,
\* although all connections share one map.
THEOREM NamesAreOwn ==
    ASSUME HostsApart
    PROVE  Spec => []OwnNames
<1>1. Init => RemoteInv
  BY DEF Init, ConnInit, RemoteInv
<1>2. TypeOK /\ MapInv /\ RemoteInv /\ [Next]_vars => RemoteInv'
  <2> SUFFICES ASSUME TypeOK, MapInv, RemoteInv, [Next]_vars PROVE RemoteInv'
    OBVIOUS
  <2>1. CASE UNCHANGED connVars
    BY <2>1 DEF RemoteInv, connVars
  <2>2. ASSUME NEW c \in Conns, Connect(c) PROVE RemoteInv'
    BY <2>2, ConnectKeepsRemote DEF TypeOK
  <2> QED BY <2>1, <2>2 DEF Next, vars
<1>3. RemoteInv /\ AuthServesRemote => OwnNames
  <2> SUFFICES ASSUME RemoteInv, AuthServesRemote, NEW c \in Conns, NEW h \in actualAuth[c]
               PROVE  h = Host(DialEp(c))
    BY DEF OwnNames
  <2>1. PICK e \in Dials : Host(e) = h /\ remote[c] \subseteq Reachable(e)
    BY DEF AuthServesRemote
  <2>2. remote[c] # {} /\ remote[c] \subseteq Reachable(DialEp(c))
    BY DEF RemoteInv
  <2>3. DialEp(c) \in Dials
    BY DEF Dials
  <2> QED BY <2>1, <2>2, <2>3 DEF HostsApart
<1> QED BY <1>1, <1>2, <1>3, MapInvariant, NamesServeRemotes, CheckTypeCorrect, PTL DEF Spec

-----------------------------------------------------------------------------
(* Nobody is left behind.                                                  *)

\* checkLeader has returned and its goroutines have ended.
Ended == /\ leader # {} /\ waiter = "done"
         /\ \A ep \in Endpoints : prober[ep] \in {"unhealthy", "done"}

\* A channel of the check is read, or its sender sees that the context is
\* done: what a send can do before and after the return of checkLeader.
SendCanGo == leader = {} \/ ctx # "live"

\* While a goroutine of the check has not ended, one of them can make a step,
\* or it is the answer to a health check that is missing (which comes at the
\* latest when the second is over).
OnlyAnswersBlock ==
    \/ Ended
    \/ \E ep \in Endpoints : prober[ep] = "send" /\ SendCanGo
    \/ waiter = "wait" /\ AllDone /\ SendCanGo
    \/ leader = {} /\ ctx = "expired"
    \/ \E ep \in Endpoints : prober[ep] = "ask"

\* The deferred cancel, and who gave up without it.
ReturnInv ==
    /\ leader # {} => ctx # "live"
    /\ waiter = "done" => ctx # "live"

LEMMA CheckKeepsReturn ==
    ASSUME TypeOK, ReturnInv, Check
    PROVE  ReturnInv'
<1>1. ASSUME NEW ep \in Endpoints, HealthAnswer(ep) \/ HealthFails(ep) \/ LeaveLeader(ep)
      PROVE  ReturnInv'
  BY <1>1 DEF ReturnInv, HealthAnswer, HealthFails, LeaveLeader
<1>2. ASSUME NEW ep \in Endpoints, SendLeader(ep) PROVE ReturnInv'
  BY <1>2 DEF ReturnInv, SendLeader, Return
<1>3. CASE SendNoLeader \/ TimedOut
  BY <1>3 DEF ReturnInv, SendNoLeader, TimedOut, Return
<1>4. CASE LeaveNoLeader \/ Timeout
  BY <1>4 DEF ReturnInv, LeaveNoLeader, Timeout
<1> QED BY <1>1, <1>2, <1>3, <1>4 DEF Check, Prober

\* The goroutines of a check never wait for each other, nor for a reader that
\* has gone, for every number of endpoints.
THEOREM NoCheckDeadlock == Spec => []OnlyAnswersBlock
<1>1. Init => ReturnInv
  BY DEF Init, ReturnInv
<1>2. TypeOK /\ ReturnInv /\ [Next]_vars => ReturnInv'
  <2> SUFFICES ASSUME TypeOK, ReturnInv, [Next]_vars PROVE ReturnInv'
    OBVIOUS
  <2>1. CASE UNCHANGED checkVars
    BY <2>1 DEF ReturnInv, checkVars
  <2> QED BY <2>1, CheckKeepsReturn DEF Next, vars
<1>3. TypeOK /\ CtxInv /\ ReturnInv => OnlyAnswersBlock
  <2> SUFFICES ASSUME TypeOK, CtxInv, ReturnInv PROVE OnlyAnswersBlock
    OBVIOUS
  <2>1. SendCanGo
    BY DEF ReturnInv, SendCanGo
  <2>2. CASE \E ep \in Endpoints : prober[ep] \in {"ask", "send"}
    BY <2>1, <2>2 DEF OnlyAnswersBlock
  <2>3. CASE \A ep \in Endpoints : prober[ep] \notin {"ask", "send"}
    <3>1. \A ep \in Endpoints : prober[ep] \in {"unhealthy", "done"}
      BY <2>3 DEF TypeOK
    <3>2. CASE waiter = "wait"
      BY <2>1, <3>1, <3>2 DEF OnlyAnswersBlock, AllDone
    <3>3. CASE waiter = "done"
      <4>1. leader = {} => ctx = "expired"
        BY <3>3 DEF TypeOK, CtxInv, ReturnInv
      <4> QED BY <3>1, <3>3, <4>1 DEF OnlyAnswersBlock, Ended
    <3> QED BY <3>2, <3>3 DEF TypeOK
  <2> QED BY <2>2, <2>3
<1> QED BY <1>1, <1>2, <1>3, CtxInvariant, CheckTypeCorrect, PTL DEF Spec
=============================================================================
