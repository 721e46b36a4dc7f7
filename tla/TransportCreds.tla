--------------------------- MODULE TransportCreds ---------------------------
(***************************************************************************)
(* The connections of a client: dialer in client/client.go, Dialer and     *)
(* ParseEndpoint in client/balancer/resolver/resolver.go, and the          *)
(* credentials of client/credentials.go.  All of them share one map, from  *)
(* the remote address of a connection to the endpoint that was dialled,    *)
(* which the TLS handshake reads to know whose certificate to ask for.     *)
(*                                                                         *)
(* Something that is there or not is a set: empty, or with it as element.  *)
(***************************************************************************)
EXTENDS Naturals

CONSTANTS Endpoints,   \* the endpoints of the cluster: [scheme, host]
          Remotes,     \* addresses of open connections, as RemoteAddr has them
          Lookup,      \* <<proto, host, remote>>: where net.Dial may arrive
          ServerName   \* the authority that gRPC has for the target "brain:"

VARIABLES first,          \* the endpoint that is first in the configuration
          conn,           \* conn[c]: how far connection c is
          remote,         \* remote[c]: its RemoteAddr
          addrToEndpoint, \* the map of the credentials
          actualAuth      \* actualAuth[c]: the name its handshake is made with

connVars == <<first, conn, remote, addrToEndpoint, actualAuth>>

(* gRPC dials each endpoint for the calls of the client, and each check of *)
(* the leader dials it once more.                                          *)
Conns == [ep : Endpoints, of : {"calls", "check"}]

Proto(ep) == CASE ep.scheme \in {"", "http", "https"} -> "tcp"
               [] ep.scheme \in {"unix", "unixs"} -> "unix"
               [] OTHER -> ""

Host(ep) == IF Proto(ep) = "" THEN "" ELSE ep.host

(* A check dials "passthrough:///" and the host, of which gRPC passes on   *)
(* the host without a scheme.                                              *)
DialEp(c) == IF c.of = "calls" THEN c.ep ELSE [scheme |-> "", host |-> Host(c.ep)]

Dials == {DialEp(c) : c \in Conns}

Names == {Host(ep) : ep \in Dials} \cup {ServerName}

Reachable(ep) == {r \in Remotes : <<Proto(ep), Host(ep), r>> \in Lookup}

(* The name that gRPC gives to the handshake.                              *)
Auth(c) == IF c.of = "calls" THEN ServerName ELSE DialEp(c).host

\* The scheme of the first endpoint decides for all of them.
Secure == first.scheme \in {"https", "unixs"}

ConnInit ==
    /\ first \in Endpoints
    /\ conn = [c \in Conns |-> "idle"]
    /\ remote = [c \in Conns |-> {}]
    /\ addrToEndpoint = [r \in Remotes |-> {}]
    /\ actualAuth = [c \in Conns |-> {}]

Dial(c) ==
    /\ conn[c] = "idle"
    /\ \E r \in Reachable(DialEp(c)) : remote' = [remote EXCEPT ![c] = {r}]
    /\ conn' = [conn EXCEPT ![c] = "connected"]
    /\ UNCHANGED <<first, addrToEndpoint, actualAuth>>

(* Nobody listens, no such host, the context is done, or no protocol for   *)
(* the scheme of the endpoint.                                             *)
DialFails(c) ==
    /\ conn[c] = "idle"
    /\ conn' = [conn EXCEPT ![c] = "failed"]
    /\ UNCHANGED <<first, remote, addrToEndpoint, actualAuth>>

(* The dialer of the client enters the connection into the map before it   *)
(* gives it to gRPC.                                                       *)
updateAddrToEndpoint(c) ==
    /\ conn[c] = "connected"
    /\ addrToEndpoint' = [r \in Remotes |->
           IF r \in remote[c] THEN {DialEp(c)} ELSE addrToEndpoint[r]]
    /\ conn' = [conn EXCEPT ![c] = "dialled"]
    /\ UNCHANGED <<first, remote, actualAuth>>

\* A mutant of ClientHandshake: it verifies the name that gRPC gives.
ClientHandshakeAsGiven(c) ==
    /\ Secure
    /\ conn[c] = "dialled"
    /\ actualAuth' = [actualAuth EXCEPT ![c] = {Auth(c)}]
    /\ \E result \in {"ready", "failed"} : conn' = [conn EXCEPT ![c] = result]
    /\ UNCHANGED <<first, remote, addrToEndpoint>>

(* Both "health check" and "main conn": the name handed to the TLS library *)
(* is the host in the map.  The library verifies it unless the program set *)
(* a ServerName in Config.TLS.  The server may not accept it, or fail.     *)
ClientHandshake(c) ==
    /\ Secure
    /\ conn[c] = "dialled"
    /\ \E r \in remote[c] : actualAuth' = [actualAuth EXCEPT
           ![c] = IF addrToEndpoint[r] = {} THEN {Auth(c)}
                  ELSE {Host(ep) : ep \in addrToEndpoint[r]}]
    /\ \E result \in {"ready", "failed"} : conn' = [conn EXCEPT ![c] = result]
    /\ UNCHANGED <<first, remote, addrToEndpoint>>

(* WithInsecure.                                                           *)
NoHandshake(c) ==
    /\ ~Secure
    /\ conn[c] = "dialled"
    /\ conn' = [conn EXCEPT ![c] = "ready"]
    /\ UNCHANGED <<first, remote, addrToEndpoint, actualAuth>>

Connect(c) == \/ Dial(c) \/ DialFails(c) \/ updateAddrToEndpoint(c)
              \/ ClientHandshake(c) \/ NoHandshake(c)
-----------------------------------------------------------------------------
\* Every variable declared here has its type.
ConnTypeOK ==
    /\ first \in Endpoints
    /\ conn \in [Conns -> {"idle", "connected", "dialled", "ready", "failed"}]
    /\ remote \in [Conns -> {{}} \cup {{r} : r \in Remotes}]
    /\ addrToEndpoint \in [Remotes -> {{}} \cup {{ep} : ep \in Dials}]
    /\ actualAuth \in [Conns -> {{}} \cup {{h} : h \in Names}]

\* A handshake asks for the certificate of a host that the connection may
\* have been dialled for: one of the endpoints that lead to its remote
\* address, and so of its own endpoint unless two of them lead to the same
\* address and their dials run into one another (credentials.go:44-47).
AuthServesRemote ==
    \A c \in Conns : \A h \in actualAuth[c] :
        \E ep \in Dials : Host(ep) = h /\ remote[c] \subseteq Reachable(ep)
=============================================================================
