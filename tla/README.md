# A TLA+ model of kubebrain-client

kubebrain-client is the Go client of KubeBrain, a key-value store with one
leader and several followers. A program creates client handles; a handle sends
writes to the leader of its cluster and spreads reads over the followers, and
finds out who the leader is by health checks. This directory holds TLA+ modules
of the parts of the client that run concurrently, the TLC configurations that
check them, and theorems about them that TLAPS checks.

Paths below are relative to `src/`.

## The system

| Part | Source | State | Operations |
|---|---|---|---|
| Leader registry | `client/balancer/picker/leader_ctrl.go` | the process-wide `globalLeaderCtrl`: `leaderIndex` (cluster key or endpoint to `leaderRecord`), its RWMutex, a singleflight group; in a record `amount`, `leader`, `ctx`, `cancel` and a goroutine | RegisterCluster, UpdateClusterLeader, UnregisterCluster, GetLeader, getLeaderRecord, the ticks of healthCheck |
| Read/write separating picker | `client/balancer/picker/rw_separated.go` | `leader`, `readerAddrs` under `mu`; `nextReader` atomic; a pointer to the record | Pick (pickReader, pickWriter, updateLeader, compareLeader) |
| Picker builder | `client/balancer/picker/builder.go`, `client/init.go` | none | Build, called by gRPC whenever the set of ready connections changes |
| Leader check | `client/leader.go` | per call: two channels, a WaitGroup, a context with a timeout of a second | checkLeader, grpcHealthCheck |
| Client handle | `client/client.go` | the gRPC connection, resolver group, credentials | NewClient, Close |
| Range and watch streams | `client/client_stream.go`, `LimitErrGroup` in `client/util.go` | per call: channels, an errgroup, a token channel | RangeStream, Watch |
| Prefix end | `client/util.go` | none | prefixEnd |
| Resolver groups | `client/balancer/resolver/resolver.go` | the builder's map of groups; in a group the addresses and the resolvers | Build, SetAddrs, addResolver, removeResolver, Close |
| Endpoint parsing and dialer | same file | none | ParseEndpoint, Dialer |
| Transport credentials | `client/credentials.go` | `addrToEndpoint` | updateAddrToEndpoint, ClientHandshake, Clone |
| Unary calls, options, types, errors | the other files of `client/` and `errors/` | none | forwarders and setters |
| Generated code | `api/v2rpc` | | |

How they interact. `newClient` (client.go:99) creates a resolver group, dials
(gRPC then calls the resolver's Build, connects, and calls the picker's Build in
goroutines of its own) and only then registers the cluster with `checkLeader` as
the callback. The registry calls it at once, holding its write lock, and then
every second in the goroutine of the record. A picker that is built looks its
record up by one of its ready addresses and keeps the pointer; every request of
the client goes through `Pick`, which compares the record's leader with the one
its list of followers was built for. `Close` removes the resolver group, closes
the connection and unregisters the cluster. Handles with the same endpoints share
a record, so `Close` of one acts on what another uses.

What is hard here: the reference counts that handles of one process share; the
answers of checks that are stored after the lock was released; a singleflight
entry that is forgotten while a call is in flight; an RWMutex that `pickReader`
holds while it calls a function that takes it; leaders that move during a pick;
and in the streams, errors, cancellation and several goroutines that feed one
channel. PROJECT.json lists the hazards line by line.

What makes the parts correct:

- registry: exact reference counts, one record per cluster under all of its
  keys, no goroutine that outlives its cluster, an open client's cluster always
  checked, the leader found in the end, every call returns;
- picker: what a pick returns is right for a leader of its time, even shares,
  callers do not lock each other out;
- leader check: a leader is reported only if it answered SERVING, "no leader" only
  if nobody did or time is up, all goroutines end; a handshake asks for the name of
  a host that the connection may have been dialled for;
- streams: everything of every partition in order, or an error; the channel
  is closed once and not while somebody sends; at most `maxConcurrent` streams; one
  revision;
- prefix end: the range from a prefix to its end has the keys with the prefix, and
  a watch delivers those;
- client handle: a picker of a registered client uses the record that is kept up
  to date, calls get a server when there is one for them, Close leaves nothing.

## Modules

| Module | Models | Extends |
|---|---|---|
| `ClusterDirectory` | the abstract promise of the registry: clusters have members and may have a known leader | |
| `LeaderCtrl` | the registry | |
| `PickRule` | where one undisturbed Pick sends a call | |
| `RWPicker` | the picker | instantiates `PickRule` |
| `MergedStream` | the abstract promise of a stream: each source in order, then complete, an error, or given up by the caller | |
| `StreamPump` | the goroutine between an RPC stream and a Go channel, and the reader of a channel | |
| `DirectStream` | Watch, and RangeStream without `WithMaxConcurrent` | `StreamPump` |
| `RangeStream` | RangeStream with `WithMaxConcurrent` | `StreamPump` |
| `PrefixEnd` | `prefixEnd`, and the order of keys | |
| `PrefixWatch` | reading what has a prefix: the request, the server's selection, the stream | `DirectStream`, `PrefixEnd` |
| `TransportCreds` | connections: endpoint parsing, dialer, credentials | |
| `LeaderProbe` | the abstract promise of one check of the leader | |
| `LeaderCheck` | `checkLeader` with its goroutines, over the connections | `TransportCreds` |
| `ResolverGroup` | resolver groups and their builder | |
| `BrainClient` | client handles from NewClient to Close, the pickers and calls of their connections | `LeaderCtrl`, instantiates `ResolverGroup` and `PickRule` |
| `MC...` | constants for TLC | the module of that name |
| `...Proofs` | theorems | the module of that name |

`BrainClientProofs` extends `LeaderCtrlProofs` too, and `PrefixWatchProofs` extends
`DirectStreamProofs` and `PrefixEndProofs`: they build on those theorems.

Every module that is checked also holds the mutants of its definitions: operators
marked "A mutant of ..." that no action uses. Each is a plausible mistake, and
each property of a passing run is violated when one of them takes the place of
its original, which shows that the run could have found the mistake.

### LeaderCtrl

A client handle registers once, so records carry the name of the client whose
registration created them. `marshalEndpoints` sorts and joins the endpoints: a
key is modelled as the set of endpoints, and an endpoint's own key as the set of
that endpoint alone, because the key of a one-endpoint cluster and the key of the
endpoint are the same string in the code. (A configuration that names one endpoint
twice, which panics with itself, is no set and is left out.)

| In the model | In the code |
|---|---|
| `index`, `amount`, `leader`, `ctx` | `leaderIndex`; `amount`, `leader`, `ctx` of a record |
| `lock` | the write lock, held while `newLeaderRecord` runs the first check (leader_ctrl.go:79-84). Other critical sections are single steps that need `lock` free |
| `checker`, `seen` | where the goroutine of healthCheck is, and the answer it holds between `cb()` and `setLeader` (175-179) |
| `flight`, `joined`, `found` | the singleflight group, whose call a client waits for, and the answer of `cb` between 219 and 221, or between 144 and the end of the creation |
| `pc` | where a handle is in NewClient or Close |
| `serving` | which servers answer SERVING; changed by `Elect`, not by the client |

`CheckResults` is what `checkLeader` may answer: any server of the cluster that
serves now, or no leader, because each check also may time out (`LeaderCheck`
shows the detail). RegisterCluster is RegisterExisting, or RegisterNew followed by
CreateRecord or PanicOnConflict; then StartFlight or JoinFlight and what follows.
The answer of the first check is taken with the lock (`FirstCheck`) and stored when
the record is made, when the servers may have changed; as nobody else passes the lock
in between, an answer that came later in the check is that of a client that took the
lock later.
UpdateClusterLeader lets an open client start the second half again.
UnregisterAgain is a Close of a closed handle: the code has no guard against it. A
failed health check changes nothing and is no step. The check-then-act in
`setLeader` has no effect of its own: a write that is skipped because the value is
there already equals a write of it.

### PickRule and RWPicker

One picker, one record, several goroutines in `Pick`. `ready` is the set of servers
the picker was built with, any of `ReadySets`: gRPC builds one whenever that set
changes, the first one with a single server. `writer` and `holds` are
sync.RWMutex: a goroutine that calls Lock announces itself and turns readers
away, then waits for those who hold a read lock; a goroutine's second RLock
waits for an announced writer as well. Critical sections that hold the lock to
their end are one step; the one of pickReader that calls pickWriter is not, and
is where `holds` is 1 (rw_separated.go:131-137). `window` and `served` are
history: the leaders the record had during a call, and the reads that each
follower got since the list was built. `FirstLeaders` says whether a leader is
known when the picker is built. `SetLeader` only ever sets an address, as
healthCheck skips failed checks.

The map iteration that fills `readerAddrs` has no order: the model allows every
listing of the set.

`PickRule` says where a Pick goes if nothing moves while it decides: `Targets` is
the set of servers that it may return for a kind of call, a set of ready servers
and a leader. PickLinearizable measures the picks of `RWPicker` by it, and
BrainClient's `Pick` uses it. `StepsLeft` is a bound on what a Pick has still to
do, and `Stuck` says that no Pick can make a step. `Trapped` says that an announced
writer waits while a read that fell back to pickWriter is inside updateLeader with
its read lock in hand: that read waits for the writer, or is the writer, and the
writer waits for the read lock. `nextReader` is a natural number: its conversion to
an int, which turns negative after 2^31 reads where int has 32 bits, is left out.

### StreamPump, DirectStream and RangeStream

A response is the stream it came from, its number there, and whether its `Err()`
returns an error; a failed RPC gives `Failure`, which comes from no stream. A Go
channel of capacity 1 is a set of at most one response. The server of stream `s`
has `length[s]` responses; it may put an error in any of them, and any Recv may
fail.

| In the model | In the code |
|---|---|
| `pump`, `received`, `holding` | where fetchStreamRangeResp (or fetchWatchResp) is, and the response between Recv and the send (client_stream.go:159-198) |
| `input`, `closed` | the channel that rangeStream or Watch returns |
| `ctx` | the context of the RPCs; in RangeStream that of the errgroup, which the caller's cancellation, an error of a callback and the end of Wait all make done |
| `spawner`, `next` | the loop of concurrentRangeStream, then the goroutine that waits and closes (118-135) |
| `tokens` | the content of `limitCh` |
| `task`, `hand` | where the callback of a partition is, and the response it took (140-157) |
| `output`, `outClosed` | the merged channel |
| `header`, `store`, `snapshot` | the revision ListPartition answered, the server's newest, and the one a partition's RPC reads |
| `got`, `gotError`, `ended` | what the program that reads the channel has seen |
| `Returned` | concurrentRangeStream has come to its return (137): before that the caller has no channel to read |

In DirectStream the pump's channel is the caller's own, and the answer of
ListPartition is supposed to have at most one key exactly when the range is empty.
Its revision, at which the one RPC then reads (84-86), is left out there. `SkipTask` is Go finding
the context done. A callback's return value matters only through the context it
cancels, so dropping a response because the context is done is a plain return.
The goroutine of `Wait` is CloseOutput; Wait cancels the context before the close.
`MaxConcurrent = 1` is not a value of RangeStream, because the code then takes the
path that DirectStream models; 0 stands for every argument that becomes an
int of at most zero.

### PrefixEnd and PrefixWatch

Keys are sequences of bytes, with a largest byte. `prefixEnd` is translated from
the loop; `Precedes` and `InRange` are the byte order and the half-open range of
the server, for which an end of one zero byte means no end.

`PrefixWatch` puts it to work: `Watch(k, opts)` applies the options to the request
one after the other, as the loop of client_stream.go:31-33 does, in every order;
the server selects positions of its `log` by the request's range and revision
(an entry's position is its revision, `now` is the next one when the request
arrives) and sends a bookmark for the entry `Tick`, which is no event, if the
request allows bookmarks; and DirectStream carries the responses, of which
`Position` says where their entries are. `start` is the
revision that the program asked for. A range stream asks for the range from a
prefix to its `PrefixEnd` and reads the log that is there.

### TransportCreds and LeaderCheck

Each endpoint has a connection for the calls of the client and one for the check
of the leader (`Conns`); they share `addrToEndpoint`. `Lookup` says at which remote
addresses a host may be reached, and may lead two hosts to one. `DialEp` is what the
dialer gets: the endpoint as configured for calls, the host without a scheme for a
check. `Secure` is `initScheme`: the scheme of the first endpoint decides for all.
`remote` and `actualAuth` are the address of a connection and the name its
handshake is made with; the TLS library verifies that name unless the program set
another one, ServerName, in Config.TLS. dial, map update and handshake are steps of their own.

| In the model | In the code |
|---|---|
| `prober[ep]` | the goroutine of an endpoint: asking, with the answer SERVING in its select, with another answer or an error, or done |
| `waiter` | the goroutine of `wg.Wait()` |
| `ctx` | the context: live, expired, or cancelled by the deferred cancel |
| `leader` | what checkLeader has returned, if it has |

A send on an unbuffered channel and its receipt are one step (`SendLeader`,
`SendNoLeader`). `LeaderProbe` has no connections, goroutines or channels: endpoints
answer, time runs out, one verdict is given.

### ResolverGroup and BrainClient

`resolverGroups`, `addrs` and `resolvers` are the fields of the same names; `known`
is what gRPC was told last. In `BrainClient` a group's id is its client.

| In the model | In the code |
|---|---|
| `stage`, `pc` | where a handle is in newClient and Close: group, addresses, dial, then the steps of the registry; and back |
| `picker[c].record`, `.ready` | the pointer and the ready servers that a picker was built with (rw_separated.go:38-63); `NoRecord` is the empty record that getLeaderRecord makes when it finds none |
| `picker[c].registered` | history: was the client registered when the picker was built |
| `call[c]` | one call: nothing, to be picked for, waiting for another picker, sent |

gRPC is outside of this repository and modelled as it behaves at the version in
`go.mod`: after `DialContext` and until the connection's Close it may call the
builder for any other set of ready servers at any moment; a call that gets
ErrNoSubConnAvailable waits for another picker; any call may end with an error
(a context of its own, a lost connection, TRANSIENT_FAILURE). A Pick is one
step here, by `PickRule`; each Pick of `RWPicker` that returns gives what such a
step would (PickLinearizable). So what BrainClient says of calls that get through
supposes that their Picks return, which `rwpicker_stuck` shows they may not.
Which servers a call may go to depends on the service in its method's name
(`selectPickFunc`), and `Invokes` says which methods the client's operations call;
TLC checks ServicesAssumption, that they are those of the three services.

Only handles in `Observed` build pickers and make calls. Handles meet in the
registry only, and what one of them picks and calls changes nothing there, so that
following one of them while all register and close loses no behaviour.

## Runs

| Run | Question | Answer |
|---|---|---|
| `leaderctrl_safety` | do three clients of one cluster whose servers change keep the registry consistent, in every order of registering, updating, checking and closing, and does it implement ClusterDirectory? | yes: RefCountExact, IndexCoherent, NoLeakedChecker, OpenClientMonitored, JoinersHaveACall, RecordStable, ImplementsDirectory |
| `leaderctrl_live` | when clusters share a server and a handle is closed twice: are types and leaders right, is the leader found and kept in the end, does every RegisterCluster return, does the goroutine of a closed cluster end? | yes: TypeOK, LeaderOfOwnCluster, LeaderConverges, RegisterReturns, CheckerEnds |
| `leaderctrl_overlap` | is an open client always in a record with a running health check when clusters overlap and nothing has panicked? | RegisteredIsChecked: no, see below |
| `rwpicker_safety` | with no, one or two ready servers, and a leader that is known or not and moves, also to a server that is not ready: are picks right, are shares even, how many steps does a Pick make, what is the only thing that can block them, and do they return without it? | yes: TypeOK, PickLinearizable, RoundRobinBalanced, PickBounded, OnlyUpgradesBlock, PickReturnsUntrapped |
| `rwpicker_stuck` | and does every Pick return? | PickReturns: no, see below |
| `prefixwatch` | does a watch or a range of a prefix deliver exactly what has it, and implement MergedStream, and end when its context is done? | yes: TypeOK, DeliversPrefix, ImplementsMergedStream, EndsWhenDone |
| `rangestream_merged` | does the merged stream implement MergedStream, at one revision, with failures and a context that may end at any moment, and does the caller's loop then end even if the servers stall; do its goroutines wait for nobody but the servers, and does a range that is read to its end leave none of them? | yes: TypeOK, NoSendAfterClose, OneSnapshot, OnlyServersBlock, NothingLeftBehind, ImplementsMergedStream, EndsWhenDone |
| `rangestream_silent` | is it complete or ended by an error when the context may end? | no, see below |
| `rangestream_limit` | are at most `MaxConcurrent` partitions read at once? | no, see below |
| `leadercheck` | does checkLeader implement LeaderProbe, do all its goroutines end, do handshakes ask for a name that fits? | yes: TypeOK, AuthServesRemote, ImplementsProbe, EverybodyEnds |
| `brainclient` | do pickers of registered clients keep the record that is maintained, is the cluster of a call checked while the call lasts, do calls get through when there is a leader and pickers are built now and then, does Close end? | yes: ClientTypeOK, RegisteredPickerIsMaintained, CallsAreServed, PickersLetCallsThrough, CloseEnds |
| `brainclient_waiting` | do calls get through when no other picker is built? | no, see below |

Bounds.

- Registry. Three clients are enough for a cluster to be left by one while two
  remain, for a flight with a waiter and a newcomer, and for a third who comes
  after the record was deleted and created again. Two servers give a leader and
  somebody to replace it; `MaxElections = 1` moves the leadership once, to every
  possible set of serving servers, the empty one and overlapping leaders included.
  Two clusters at once are in the live and overlap runs, where they share a server;
  disjoint ones share the lock only, and the theorems are about any number of them.
  `MaxExtraCloses = 1` is one Close too many.
- Picker. No, one or two ready addresses and others that are not give lists of
  no, one and two followers and a leader without a connection; the leader is
  unknown at first, or one of the servers. One move of the leader and
  three picks of three goroutines are a holder, a waiting writer and a waiting
  reader of the lock, and let a pick span two leaders while others rebuild the list.
- Streams. Two partitions of up to two responses let one partition fail while the
  other has a response in its pump, one in its pump's channel and one in its
  callback; the run about the limit needs one partition more than the limit of two.
  `MaxRevision = 2` is one commit between two RPCs. The merged run gives no
  revision, so that all depends on the one of ListPartition; one that is given is in
  the two other runs and in the theorem SnapshotIsOne.
- Prefixes. With two bytes a prefix of up to two has every mixture of bytes that
  can and cannot be incremented, the empty one included, and keys of up to three are
  shorter, equal, longer, below and above. A log has up to two entries, keys or
  ticks; the watch starts at each of its revisions, at the next one, or at none
  given.
- Leader check. Two endpoints, one with https and one with http, either of them
  first; one has an address of its own and one that it shares with the other.
- Client. Two handles of one cluster of two servers, one of them observed: the other
  one can be the creator of the record, or the last to leave it, at every point of
  the life of the first. `MaxElections = 0`: any set of servers may serve, and does
  so for the whole run; leaders that move are in the runs of the registry and the
  picker. One call at a time.

Deadlock is not checked: clients register and close once, leaders move and picks
are made a bounded number of times, streams and checks end, and then the program
rests. That nobody is stuck half way is what RegisterReturns, PickReturnsUntrapped,
EndsWhenDone, EverybodyEnds and CloseEnds say, and what OnlyUpgradesBlock,
OnlyServersBlock and the theorems about deadlock below say state by state.

Fairness. A goroutine that can run does run (weak fairness). Waiting for the
registry's lock or for rw.mu is granted in the end although the lock is taken and
released in between (strong fairness): sync.RWMutex queues. The ticker of
healthCheck never stops, and a check of a server that keeps serving does not fail
for ever: weak fairness of CheckFinds, which is enabled as long as some server of
the cluster serves. A goroutine whose context is cancelled takes the cancellation
in the end, although its select may take a tick instead a number of times (Go's
select chooses at random). Nobody is obliged to register, close, pick, call or
elect. For the streams every goroutine goes on, the program reads its channel
until it is closed, and an RPC whose context is done fails in the end, as gRPC
promises; servers owe nothing. In the leader check time passes, goroutines that
can go on do, and an RPC whose context is done returns. A handle that is being
closed goes on, and gRPC asks the picker it has; nothing makes it build another one,
which is why PickersLetCallsThrough supposes that it does now and then.

## What the runs found

- `leaderctrl_overlap`. The registry panics when a cluster shares an endpoint with
  another one ("do not support one endpoint in different cluster"), but a
  one-endpoint cluster that comes after a larger one with that endpoint is counted
  in the larger one's record instead. If its client is the last to close, it deletes
  the one key it knows and cancels the record, which stays indexed under the larger
  cluster's key; a client of that cluster that registers later is counted in the
  cancelled record and has no health check. The repository's own tests use such
  endpoints in one process (`example/example_test.go:90` and `:230`).
- `rwpicker_stuck`. A read without followers calls pickWriter, and so updateLeader
  and compareLeader, with rw.mu read-locked. In the run one server is ready and is
  the leader, and nothing ever changes: of the first two reads of the picker, both
  find that rw.leader is not set yet; one sets it, finds an empty list and keeps its
  read lock; the other announces itself for the write lock; the second RLock of the
  first waits for the second, which waits for the first RLock. The same read locks
  itself out, alone, when the leader appears or moves between its two calls of
  updateLeader. Every later pick waits behind them.
- `rangestream_silent`. When the caller's context ends, Go leaves partitions out
  and callbacks drop what they hold, the error of Recv included: the channel is
  closed after part of the range with no error in it. DirectStream always delivers
  the error.
- `rangestream_limit`. Go gives its token back as soon as the callback's goroutine
  is started, so `WithMaxConcurrent` limits nothing.
- `brainclient_waiting`. A call that finds no leader is told
  ErrNoSubConnAvailable, "and wait for updating" says the comment; but gRPC asks again
  only when another picker is built, and the health check that finds the leader does
  not bring one about. If no server connects or disconnects, the call waits for
  ever with a leader known and ready. The run's picker has the right record; one
  that was built before the registration never sees a leader at all.

Not a violation of anything the repository says, but visible in the models: when a
callback of a range stream returns early, the goroutine of its stream stays blocked
at its send, as nobody reads its channel any more (a range that is read to its end
without an error leaves no such goroutine: NothingLeftBehind); when the dial fails,
the resolver group stays in the builder's map; a group is removed before its resolver
closes, so that removeResolver is never reached and `resolvers` keeps the closed one
(nobody sets addresses any more by then).

## What is proved

For every set of clients, servers, endpoints and configurations, every number and
length of streams, all keys, and all bounds:

| Theorem | States | Assumes |
|---|---|---|
| `TypeCorrect`, `LeadersStayInCluster`, `NobodyStranded` | TypeOK, LeaderOfOwnCluster, JoinersHaveACall of the registry | nothing: overlapping clusters and handles closed twice included |
| `NoRegistryDeadlock` | NobodyLockedOut: whoever waits in the registry waits for the holder of its lock or for a call of another one, which can go on | nothing |
| `RegistrationIsBounded` | RegisterBounded: every step of RegisterCluster and UpdateClusterLeader brings it nearer to its end | nothing |
| `RefCountCorrect`, `IndexIsCoherent`, `NoCheckerLeaks`, `OpenClientsMonitored`, `RecordStability` | RefCountExact, IndexCoherent, NoLeakedChecker, OpenClientMonitored, RecordStable | `ProperUse`: configurations are equal or disjoint, and no second Close |
| `DirectoryImplemented` | the registry implements ClusterDirectory | `ProperUse` |
| `PickerTypeCorrect`, `PickLinearizes`, `SharesAreEven` | TypeOK, PickLinearizable, RoundRobinBalanced of the picker, whatever servers are ready | nothing |
| `OnlyUpgradesDeadlock`, `PicksAreBounded` | OnlyUpgradesBlock, PickBounded | nothing |
| `StreamTypeCorrect`, `ClosedAfterSends`, `SnapshotIsOne`, `OrderKept`, `StreamImplemented` | TypeOK, NoSendAfterClose, OneSnapshot, InOrder and ImplementsMergedStream of the merged range stream | nothing |
| `NoRangeDeadlock`, `RangeLeavesNothing` | OnlyServersBlock, NothingLeftBehind | nothing |
| `DirectTypeCorrect`, `DirectStreamImplemented`, `NoDirectDeadlock` | TypeOK, ImplementsMergedStream, OnlyServersBlock of Watch and the single range stream | nothing |
| `PrefixEndIsExact`, `ProperEndIsNotTheSentinel` | the range from a prefix to its end has exactly the keys with the prefix; no proper end is taken for the mark of an open range | nothing |
| `WatchAsksForPrefix` | any order of the options of a watch gives the request for the prefix and the revision | nothing |
| `WatchTypeCorrect`, `WatchImplementsStream`, `WatchWaitsForServer` | the three of DirectStream while a prefix is read | nothing |
| `PrefixDelivered` | DeliversPrefix | nothing |
| `CheckTypeCorrect`, `NamesServeRemotes`, `ProbeImplemented` | TypeOK, AuthServesRemote, ImplementsProbe of the leader check | nothing |
| `NoCheckDeadlock` | OnlyAnswersBlock: checkLeader and its goroutines wait for the servers and the timeout only | nothing |
| `NamesAreOwn` | OwnNames: every handshake asks for the name of the endpoint that was dialled | `HostsApart`: no two hosts share an address |
| `HandlesUseRegistry` | every behaviour of the composition is one of the registry alone | nothing |
| `ClientTypeCorrect`, `CloseIsClean` | ClientTypeOK; CloseLeavesNothing: a handle that has hung up has no call, picker or group, and gets none again | nothing |
| `PickersAreMaintained`, `CallsHaveHealthCheck` | RegisteredPickerIsMaintained, CallsAreServed | `ProperUse` |
| `PickersStayInCluster` | PickersNameOwnServers: whenever it was built, a picker takes no server of another cluster for the leader, and sends calls to its own ones | the first half of `ProperUse` |

NobodyLockedOut, RegisterBounded, InOrder, DirectStream's OnlyServersBlock, OwnNames,
OnlyAnswersBlock, CloseLeavesNothing and PickersNameOwnServers are defined beside
their theorems. No run checks them: the theorems are about every instance, that of
a run included (and InOrder follows from the refinement).

`leaderctrl_overlap` shows that the first half of ProperUse is needed; a second
Close takes the reference of another handle.

The argument for the registry. RefCountExact, IndexCoherent and NoLeakedChecker
are not inductive alone: a deletion must find all the keys of the record (OwnKeys:
a record is indexed under keys of its own cluster only), a creation must not
overwrite one (LockCoversCreation: whoever creates holds the lock and its cluster
has no record), a record must be new when it is created (RecordLife), and a count
above zero must mean somebody is there (Referenced). OwnAnswers follows the
address of a check from the callback to the record. `RegistryInv` is their
conjunction; IndexStep, LockStep and AnswerStep show one part each for every
action. Disjointness enters through DisjointKeys only, the single Close through
the last reference only. NobodyLockedOut needs that only a client in its first
check holds the lock (LockHolderChecks), and that a joined call is running
(JoinersHaveACall). In the refinement a registration is a Join, a close a
Leave, a stored answer a Learn if its record is still indexed, and the rest is
hidden.

The argument for the picker. A pick must return what was right at some moment of
the call: `Witnessed` says that whatever a goroutine is about to use (the record's
leader, rw.leader, the value updateLeader returned) was the leader during the
call; `FallenBack` says that the list cannot change under a goroutine that holds
the read lock, so a read that goes to the leader had nobody else. The shares:
`EvenLaps` says that the turns go round the list from the position that was next when
it was built, so that a follower has had one read for each whole lap, and one more
if the lap that is going on has passed it. Deadlock: when no Pick can make a step,
whoever is in one waits for the lock, so somebody has announced itself as the writer
and waits for a read lock to be given back; its holder is stuck as well, and the only
place where a holder can be is in pickWriter, where a read comes only if the list was
empty: the list is at all times one of the followers (ReadersMatchLeader), so there
are none for the leader it was built for.

The argument for the range stream. `StreamInv` follows a response on its way:
SpawnInv says that what the loop has not reached is untouched and that the channel
is closed after all callbacks are back; RevisionInv that the revision is known
before a stream is opened; PlaceInv where a goroutine may hold what; and ChainInv,
one `Chain` per partition, that the pump, its channel, the callback, the merged
channel and the caller hold consecutive responses (until the callback is back:
what stays behind it then is never read). The Move lemmas take a response one
place on. `OutcomeInv` adds: an error is on its way to the caller, or the caller
has given up, or every callback that is back has sent everything and every pump
that closed its channel had received everything. In the refinement a read is a
Deliver, or a Fail if the response comes from no partition; the end of the
caller's loop is End; the rest is hidden. DirectStream's argument is the same with
one channel: `DirectInv` counts the responses in the hand of the pump, in the
channel and with the caller.

Nobody waits in a circle because a callback that has been started has a pump or a
closed channel (`WorkInv`): the caller waits for a callback, the last callback for
its pump, a pump for its server. Nothing is left behind: as long as no error is on
its way out and the caller has not given up, a callback returns when its channel is
closed and empty, and the merged channel is closed when all have returned
(`CleanInv`).

The argument for prefixEnd. Below the place where the loop stops all bytes are kept
and behind it all are the largest one; a key above the prefix and below the end
differs from the prefix at no place of it. The first place where two keys differ
exists by the well-foundedness of the naturals. For a watch, `Asked` says that the
request asks for the prefix and the revision that were wanted, whatever the order
of the options (WatchAsksForPrefix: an option sets a field that no other one reads or
writes, the key excepted, which none sets), and `Numbered` that there is one
response for each selected position. That responses are numbered in the order of
their positions needs that counting the selected ones up to a position is strictly
monotonic and leaves no number out; with DirectInv, which says that the caller has a
beginning of the responses, it gives DeliversPrefix.

The argument for the leader check. `MapInv`: an entry of the map under an address is
an endpoint that leads to that address, so whichever dial came last, the name fits
the address. `CtxInv`: while checkLeader
runs, the context is live or expired, and a goroutine that has given up its send
shows that it is expired, so that "no leader" before that means that every
endpoint answered otherwise. An answer, a result and the
passing of time are steps of LeaderProbe; connections and those who leave are hidden.
When hosts do not share addresses, `RemoteInv`, which says that a connection has an
address of the host it was dialled for, makes that host the only one whose name may
be found there.

The argument for the composition. A step of a handle leaves the registry alone or is
one of its steps (RegistryStep), so all its theorems hold here. `PickersInv` says of
a picker whose client was registered when it was built and is counted still that
its record is the one the index has for the client's cluster: a new picker finds
it under any of its servers by IndexCoherent, and it stays by RecordStable. A call
is made by an open handle that has not begun to close (`InOrderOfUse`: the steps of
newClient and Close in their order, across the two variables that hold them), which
OpenClientMonitored is about. `ServersInv` is about all pickers, those built before
the registration included: OwnKeys makes the record under the key of a server one of
the server's cluster, or none.

Only model-checked: liveness (LeaderConverges, RegisterReturns, CheckerEnds,
PickReturnsUntrapped, EndsWhenDone of both streams, EverybodyEnds, PickersLetCallsThrough,
CloseEnds), because fairness and ENABLED are out of the prover's reach, and
ServicesAssumption, which is about constants. The theorems about deadlock and about
the number of steps are the part of it that is safety: somebody can go on as long as
there is something to do, and for RegisterCluster and Pick there is a bounded number
of steps to go; that whoever can go on does is left to TLC. Where the theorems
need to say "can go on", a state formula gives the guards of the actions
(CanGo, CanForward, SpawnerCanGo and so on) in the place of ENABLED.

## Not modelled

- The servers: which of them lead, conflicts of writes, compaction, leases. Unary
  calls pass on what the server answers, and options like WithLimit and WithTTL set a
  field that only the server reads. With `WithMaxConcurrent` a limit goes to each
  partition as it is.
- `GetLeader`, `needUpdateLeader` and the empty-endpoint checks only read.
  `UpdateClusterLeader` is in `LeaderCtrl`; the client does not call it.
- An `https` first endpoint without a TLS configuration gives gRPC nil credentials,
  and a health check of a unix socket dials its path over tcp, as the scheme is
  stripped before it is parsed again: the model has the second (Reachable of a
  `DialEp` without a scheme) and not the first, which ends the program.
- `Clone` of the credentials, which gRPC calls only for balancers that dial on their
  own.
- SetAddrs after the dial: `ResolverGroup` has it, but the client sets its addresses
  once and before, so that the race of addResolver with it
  (resolver.go:139-146) cannot happen in this program.
- Marshalling and the server side of the generated code, logging, the examples and
  the tools.
