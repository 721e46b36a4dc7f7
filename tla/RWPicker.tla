------------------------------ MODULE RWPicker ------------------------------
(***************************************************************************)
(* The picker that sends reads to followers and everything else to the     *)
(* leader (client/balancer/picker/rw_separated.go): concurrent Pick calls  *)
(* on one rwSeparatedRoundBalanced, at the granularity of its lock rw.mu,  *)
(* while the health check moves the leader in the shared record.           *)
(*                                                                         *)
(* rw.mu is a sync.RWMutex.  A goroutine that calls Lock first announces   *)
(* itself (writer), which turns new readers away, and then waits for the   *)
(* readers that hold the lock.  RLock is not reentrant: a second RLock of  *)
(* the same goroutine also waits for an announced writer.                  *)
(***************************************************************************)
EXTENDS Integers, FiniteSets, Sequences, SequencesExt

CONSTANTS Addrs,           \* the addresses a leader record may hold
          ReadySets,       \* the ready addresses a picker may be built with
          Callers,         \* goroutines that issue requests
          NoLeader,        \* the empty leader string
          NoSubConn,       \* Pick failed with ErrNoSubConnAvailable
          NoCaller,        \* nobody
          FirstLeaders,    \* what the record may hold when the picker is built
          MaxMoves,        \* bound: how often the record's leader changes
          MaxPicks         \* bound: how many Pick calls are made

ASSUME ReadyAssumption == \A R \in ReadySets : R \subseteq Addrs /\ IsFiniteSet(R)
ASSUME SentinelAssumption == /\ NoLeader \notin Addrs
                             /\ NoSubConn \notin Addrs
                             /\ NoCaller \notin Callers
ASSUME FirstAssumption == FirstLeaders \subseteq Addrs \cup {NoLeader}
ASSUME BoundAssumption == MaxMoves \in Nat /\ MaxPicks \in Nat

VARIABLES
    ready,        \* the keys of addrToSC and of rawAddrToSC, set once by Build
    recordLeader, \* leader of the leaderRecord, set by its health check
    moves,        \* how often it has changed (bounded)
    leader,       \* rw.leader: the leader readerAddrs was built for
    readerAddrs,  \* rw.readerAddrs
    nextReader,   \* rw.nextReader, atomic
    writer,       \* the goroutine that announced itself in rw.mu.Lock
    holds,        \* 1 if a goroutine holds a read lock of rw.mu, else 0
    pc,           \* where a goroutine is in Pick
    kind,         \* what it picks for
    then,         \* what it does when updateLeader returns
    cur,          \* what updateLeader returns to it
    picked,       \* what its last Pick returned
    picks,        \* how many Pick calls were made (bounded)
    window,       \* history: the leaders the record had during the call
    served        \* history: reads given to each address since the rebuild

\* What Pick only reads.
givenVars == <<ready, recordLeader, moves>>
sharedVars == <<leader, readerAddrs, nextReader>>
lockVars == <<writer, holds>>
callVars == <<pc, kind, then, cur, picked, picks>>
historyVars == <<window, served>>
vars == <<givenVars, sharedVars, lockVars, callVars, historyVars>>

INSTANCE PickRule

-----------------------------------------------------------------------------
Leaders == Addrs \cup {NoLeader}
Readers(R, l) == R \ {l}

Init ==
    /\ ready \in ReadySets
    /\ recordLeader \in FirstLeaders
    /\ moves = 0
    /\ leader = NoLeader
    /\ readerAddrs = <<>>
    /\ nextReader = 0
    /\ writer = NoCaller
    /\ holds = [g \in Callers |-> 0]
    /\ pc = [g \in Callers |-> "idle"]
    /\ kind = [g \in Callers |-> "read"]
    /\ then = [g \in Callers |-> "readers"]
    /\ cur = [g \in Callers |-> NoLeader]
    /\ picked = [g \in Callers |-> NoSubConn]
    /\ picks = 0
    /\ window = [g \in Callers |-> {}]
    /\ served = [x \in ready |-> 0]

(* leaderRecord.setLeader: only a check that found a leader calls it.      *)
SetLeader ==
    /\ moves < MaxMoves
    /\ moves' = moves + 1
    /\ recordLeader' \in Addrs \ {recordLeader}
    /\ window' = [g \in Callers |-> IF pc[g] = "idle" THEN window[g]
                                    ELSE window[g] \cup {recordLeader'}]
    /\ UNCHANGED <<ready, sharedVars, lockVars, callVars, served>>

-----------------------------------------------------------------------------
(* Pick, up to the first statement of the function selectPickFunc chose.   *)
StartPick(g, k) ==
    /\ pc[g] = "idle"
    /\ picks < MaxPicks
    /\ picks' = picks + 1
    /\ kind' = [kind EXCEPT ![g] = k]
    /\ window' = [window EXCEPT ![g] = {recordLeader}]
    /\ IF ready = {}
       THEN /\ picked' = [picked EXCEPT ![g] = NoSubConn]
            /\ UNCHANGED <<pc, then>>
       ELSE /\ pc' = [pc EXCEPT ![g] = "compare"]
            /\ then' = [then EXCEPT ![g] = IF k = "read" THEN "readers" ELSE "writer"]
            /\ UNCHANGED picked
    /\ UNCHANGED <<givenVars, sharedVars, lockVars, cur, served>>

-----------------------------------------------------------------------------
(* updateLeader.                                                           *)

\* A mutant of CompareLeader: only the first leader is noticed.
CompareLeaderOnce(g) ==
    /\ pc[g] = "compare"
    /\ writer = NoCaller
    /\ cur' = [cur EXCEPT ![g] = recordLeader]
    /\ pc' = [pc EXCEPT ![g] = IF leader # NoLeader THEN then[g] ELSE "lock"]
    /\ UNCHANGED <<givenVars, sharedVars, lockVars, kind, then, picked, picks,
                   historyVars>>

\* compareLeader, and the fast return when the leader is still the same.
CompareLeader(g) ==
    /\ pc[g] = "compare"
    /\ writer = NoCaller
    /\ cur' = [cur EXCEPT ![g] = recordLeader]
    /\ pc' = [pc EXCEPT ![g] = IF recordLeader = leader THEN then[g] ELSE "lock"]
    /\ UNCHANGED <<givenVars, sharedVars, lockVars, kind, then, picked, picks,
                   historyVars>>

\* rw.mu.Lock: one writer at a time turns new readers away.
AnnounceWriter(g) ==
    /\ pc[g] = "lock"
    /\ writer = NoCaller
    /\ writer' = g
    /\ pc' = [pc EXCEPT ![g] = "drain"]
    /\ UNCHANGED <<givenVars, sharedVars, holds, kind, then, cur, picked,
                   picks, historyVars>>

\* A mutant of NewReaders: the configured addresses, ready or not.
NewReadersConfigured(l) == SetToSeqs(Addrs \ {l})

\* rw.readerAddrs for a new leader, in whatever order the map yields.
NewReaders(l) == SetToSeqs(Readers(ready, l))

\* A mutant of RebuildReaders: the double check returns with the lock held.
RebuildReadersAndKeep(g) ==
    /\ pc[g] = "drain"
    /\ \A h \in Callers : holds[h] = 0
    /\ writer' = IF recordLeader = leader THEN writer ELSE NoCaller
    /\ cur' = [cur EXCEPT ![g] = recordLeader]
    /\ pc' = [pc EXCEPT ![g] = then[g]]
    /\ leader' = recordLeader
    /\ readerAddrs' \in NewReaders(recordLeader)
    /\ served' = [x \in ready |-> 0]
    /\ UNCHANGED <<givenVars, nextReader, holds, kind, then, picked, picks,
                   window>>

\* A mutant of RebuildReaders: the leader is looked at again after the lock
\* is given back, until it stays the same.
RebuildReadersAndRetry(g) ==
    /\ pc[g] = "drain"
    /\ \A h \in Callers : holds[h] = 0
    /\ writer' = NoCaller
    /\ pc' = [pc EXCEPT ![g] = IF recordLeader = leader THEN then[g] ELSE "compare"]
    /\ leader' = recordLeader
    /\ readerAddrs' \in NewReaders(recordLeader)
    /\ served' = [x \in ready |-> 0]
    /\ UNCHANGED <<givenVars, nextReader, holds, kind, then, cur, picked, picks,
                   window>>

\* The write lock is granted when no goroutine holds a read lock.  Under it
\* the leader is looked at once more, and the list of readers is rebuilt.
RebuildReaders(g) ==
    /\ pc[g] = "drain"
    /\ \A h \in Callers : holds[h] = 0
    /\ writer' = NoCaller
    /\ cur' = [cur EXCEPT ![g] = recordLeader]
    /\ pc' = [pc EXCEPT ![g] = then[g]]
    /\ IF recordLeader = leader
       THEN UNCHANGED <<leader, readerAddrs, served>>
       ELSE /\ leader' = recordLeader
            /\ readerAddrs' \in NewReaders(recordLeader)
            /\ served' = [x \in ready |-> 0]
    /\ UNCHANGED <<givenVars, nextReader, holds, kind, then, picked, picks,
                   window>>
-----------------------------------------------------------------------------
(* pickReader after updateLeader, and pickWriter after its own.            *)

\* A mutant of NextTurn: the counter is read and not advanced.
NextTurnAgain(n) == n

\* atomic.AddInt64(&rw.nextReader, 1).  A counter without a bound: that it
\* wraps, and where int has 32 bits turns negative, is left out.
NextTurn(n) == n + 1

\* rw.mu.RLock, and the next follower in turn: one step, because nothing
\* but nextReader, which is atomic, changes while the read lock is held.
ChooseReader(g) ==
    /\ pc[g] = "readers"
    /\ writer = NoCaller
    /\ readerAddrs # <<>>
    /\ LET addr == readerAddrs[(nextReader % Len(readerAddrs)) + 1]
       IN  /\ picked' = [picked EXCEPT ![g] = addr]
           /\ served' = [served EXCEPT ![addr] = @ + 1]
    /\ nextReader' = NextTurn(nextReader)
    /\ pc' = [pc EXCEPT ![g] = "idle"]
    /\ UNCHANGED <<givenVars, leader, readerAddrs, lockVars, kind, then, cur,
                   picks, window>>

\* There is no follower: pickWriter, and so updateLeader again, is called
\* with the read lock held until pickReader returns.
FallBackToWriter(g) ==
    /\ pc[g] = "readers"
    /\ writer = NoCaller
    /\ readerAddrs = <<>>
    /\ holds' = [holds EXCEPT ![g] = 1]
    /\ pc' = [pc EXCEPT ![g] = "compare"]
    /\ then' = [then EXCEPT ![g] = "writer"]
    /\ UNCHANGED <<givenVars, sharedVars, writer, kind, cur, picked, picks,
                   historyVars>>

\* rw.rawAddrToSC[addr], if it exists.
Connection(addr) == IF addr \in ready THEN addr ELSE NoSubConn

\* The leader's connection, if there is a leader and it is ready.
PickWriter(g) ==
    /\ pc[g] = "writer"
    /\ picked' = [picked EXCEPT ![g] = Connection(cur[g])]
    /\ holds' = [holds EXCEPT ![g] = 0]
    /\ pc' = [pc EXCEPT ![g] = "idle"]
    /\ UNCHANGED <<givenVars, sharedVars, writer, kind, then, cur, picks,
                   historyVars>>

-----------------------------------------------------------------------------
UpdateLeader(g) == CompareLeader(g) \/ AnnounceWriter(g) \/ RebuildReaders(g)
Choose(g) == ChooseReader(g) \/ FallBackToWriter(g) \/ PickWriter(g)

Next == \/ SetLeader
        \/ \E g \in Callers : \/ \E k \in {"read", "write"} : StartPick(g, k)
                              \/ UpdateLeader(g)
                              \/ Choose(g)

Spec == Init /\ [][Next]_vars

(***************************************************************************)
(* A goroutine that can run does run.  sync.RWMutex lets the readers that  *)
(* wait at an Unlock in before the next writer, and hands its writer mutex *)
(* to a waiter that starves, so nobody who asks for the lock again and     *)
(* again while it becomes free is passed over for ever.                    *)
(***************************************************************************)
Fairness == \A g \in Callers : SF_vars(UpdateLeader(g) \/ Choose(g))

FairSpec == Spec /\ Fairness
-----------------------------------------------------------------------------
(* Properties.                                                             *)

\* Every variable has its type.
TypeOK ==
    /\ ready \in ReadySets
    /\ recordLeader \in Leaders
    /\ moves \in 0..MaxMoves
    /\ leader \in Leaders
    /\ readerAddrs \in Seq(ready)
    /\ nextReader \in Nat
    /\ writer \in Callers \cup {NoCaller}
    /\ holds \in [Callers -> 0..1]
    /\ pc \in [Callers -> {"idle", "compare", "lock", "drain", "readers", "writer"}]
    /\ kind \in [Callers -> {"read", "write"}]
    /\ then \in [Callers -> {"readers", "writer"}]
    /\ cur \in [Callers -> Leaders]
    /\ picked \in [Callers -> ready \cup {NoSubConn}]
    /\ picks \in 0..MaxPicks
    /\ window \in [Callers -> SUBSET Leaders]
    /\ served \in [ready -> Nat]

\* What one undisturbed Pick of kind k may return, with R ready, while l is
\* the leader.
AtomicPick(k, R, l) ==
    IF Targets(k, R, l) = {} THEN {NoSubConn} ELSE Targets(k, R, l)

\* However the calls and the health check interleave, what a Pick returned
\* is what it would have returned at one moment of the call: a write never
\* goes to an address that was not the leader during the call, and a read
\* goes to the leader only when there was nobody else.
PickLinearizable ==
    \A g \in Callers : pc[g] = "idle" /\ window[g] # {} =>
        \E l \in window[g] : picked[g] \in AtomicPick(kind[g], ready, l)

\* Reads are spread evenly: of the current followers none has been given two
\* more than another since the list was built.
RoundRobinBalanced ==
    \A i, j \in DOMAIN readerAddrs :
        served[readerAddrs[i]] <= served[readerAddrs[j]] + 1

\* g is inside Pick and no lock keeps it from its next step: the guards of
\* UpdateLeader(g) and Choose(g).
CanStep(g) ==
    \/ pc[g] \in {"compare", "lock", "readers"} /\ writer = NoCaller
    \/ pc[g] = "drain" /\ \A h \in Callers : holds[h] = 0
    \/ pc[g] = "writer"

\* Some Pick is going on, and none of those that are can make a step.
Stuck == (\E g \in Callers : pc[g] # "idle") /\ \A g \in Callers : ~CanStep(g)

\* A read that fell back to pickWriter is inside updateLeader, and its read
\* lock keeps an announced writer waiting, itself or another Pick, for which
\* it waits in turn: neither of them ever goes on.
Trapped ==
    /\ writer # NoCaller
    /\ \E g \in Callers : /\ kind[g] = "read" /\ holds[g] = 1
                           /\ pc[g] \in {"compare", "lock", "drain"}

\* Picks block each other for ever in one way only: they are trapped, and
\* the picker had no follower for the leader that its list was built for,
\* because none was known or because no other server is ready.  Whatever
\* else the callers do, the locks of rw.mu never wait in a circle.
OnlyUpgradesBlock == Stuck => Trapped /\ Followers(ready, leader) = {}

\* How many more steps g may take until its Pick returns: updateLeader runs
\* once, or twice when a read falls back to pickWriter.
StepsLeft(g) ==
    LET here  == [idle |-> 0, compare |-> 3, lock |-> 2, drain |-> 1, readers |-> 5, writer |-> 1]
        after == IF pc[g] \in {"compare", "lock", "drain"} THEN here[then[g]] ELSE 0
    IN  here[pc[g]] + after

\* However often the leader moves, no Pick goes round in updateLeader: each
\* step of a caller leaves it fewer steps to make, and what the others do
\* never gives it more.
PickBounded ==
    [][\A g \in Callers : pc[g] # "idle" =>
           \/ StepsLeft(g)' < StepsLeft(g)
           \/ UNCHANGED <<pc[g], then[g], holds[g], cur[g]>>]_vars

\* Every Pick returns.
PickReturns == \A g \in Callers : pc[g] # "idle" ~> pc[g] = "idle"

\* Every Pick returns, however many servers are ready and however the leader
\* moves, unless Picks trap each other with the lock kept by pickReader.
PickReturnsUntrapped == []~Trapped => PickReturns
=============================================================================
