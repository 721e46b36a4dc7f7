---------------------------- MODULE RangeStream ----------------------------
(***************************************************************************)
(* RangeStream with WithMaxConcurrent (concurrentRangeStream and           *)
(* rangeStreamCallBack in client/client_stream.go, LimitErrGroup in        *)
(* client/util.go): a stream per partition, each with its pump, a callback *)
(* per partition that copies the pump's channel to the caller's, and a     *)
(* goroutine that closes the caller's channel when the callbacks are done. *)
(* An error of a callback cancels the context that all of them share.      *)
(***************************************************************************)
EXTENDS StreamPump, FiniteSets

CONSTANTS MaxConcurrent, \* the limit; 0 means none
          Revision,      \* revision of the request, 0 if not given
          MayCancel,     \* the caller's context may be cancelled or expire
          MaxRevision    \* bound: the last revision of the store

ASSUME RequestAssumption ==
    /\ MaxConcurrent \in Nat \ {1}  \* 1 is singleRangeStream
    /\ Revision \in Nat
    /\ MayCancel \in BOOLEAN
    /\ MaxRevision \in Nat \ {0}

VARIABLES
    cancelled,  \* the caller's own context is done
    spawner,    \* where concurrentRangeStream and then its goroutine are
    next,       \* the partition the loop is at
    tokens,     \* how many tokens limitCh holds
    task,       \* where the callback of a partition is
    hand,       \* the response it took from its pump's channel
    output,     \* the caller's channel, capacity 1
    outClosed,  \* the caller's channel is closed
    store,      \* the revision of the store
    header,     \* the revision in the answer of ListPartition
    snapshot    \* the revision a partition's stream reads, 0 before it is open

ctxVars == <<ctx, cancelled>>
spawnVars == <<spawner, next, tokens>>
taskVars == <<task, hand>>
outVars == <<output, outClosed>>
storeVars == <<store, header, snapshot>>
vars == <<length, ctxVars, pumpVars, callerVars, spawnVars, taskVars, outVars, storeVars>>

Init ==
    /\ PumpInit
    /\ cancelled = FALSE
    /\ spawner = "list"
    /\ next = 1
    /\ tokens = MaxConcurrent
    /\ task = [p \in Streams |-> "none"]
    /\ hand = [p \in Streams |-> {}]
    /\ output = {}
    /\ outClosed = FALSE
    /\ store = 1
    /\ header = 0
    /\ snapshot = [p \in Streams |-> 0]

-----------------------------------------------------------------------------
(* concurrentRangeStream and its goroutine.                                *)

ListFails ==
    /\ spawner = "list"
    /\ output' = {Failure}
    /\ outClosed' = TRUE
    /\ spawner' = "ended"
    /\ UNCHANGED <<length, ctxVars, pumpVars, callerVars, next, tokens, taskVars, storeVars>>

ListPartitions ==
    /\ spawner = "list"
    /\ header' = store
    /\ spawner' = "loop"
    /\ UNCHANGED <<length, ctxVars, pumpVars, callerVars, next, tokens, taskVars, outVars,
                   store, snapshot>>

(* A mutant of TakeToken: Go puts back a token it did not take.            *)
TakeNoToken ==
    /\ spawner = "loop" /\ next \in Streams
    /\ spawner' = "go"
    /\ UNCHANGED <<length, ctxVars, pumpVars, callerVars, next, tokens, taskVars, outVars,
                   storeVars>>

(* Go: the caller of Go waits for a token.  Without a limit there are none *)
(* and errgroup's own Go is called.                                        *)
TakeToken ==
    /\ spawner = "loop" /\ next \in Streams
    /\ MaxConcurrent = 0 \/ tokens > 0
    /\ tokens' = IF MaxConcurrent = 0 THEN tokens ELSE tokens - 1
    /\ spawner' = "go"
    /\ UNCHANGED <<length, ctxVars, pumpVars, callerVars, next, taskVars, outVars, storeVars>>

(* Go starts the callback in a goroutine and puts the token back.          *)
StartTask ==
    /\ spawner = "go"
    /\ task' = [task EXCEPT ![next] = "open"]
    /\ next' = next + 1
    /\ tokens' = IF MaxConcurrent = 0 THEN tokens ELSE tokens + 1
    /\ spawner' = "loop"
    /\ UNCHANGED <<length, ctxVars, pumpVars, callerVars, hand, outVars, storeVars>>

(* Go sees that the context is done, and the partition is left out.        *)
SkipTask ==
    /\ spawner = "loop" /\ next \in Streams
    /\ MaxConcurrent # 0 /\ ctx = "done"
    /\ task' = [task EXCEPT ![next] = "returned"]
    /\ next' = next + 1
    /\ UNCHANGED <<length, ctxVars, pumpVars, callerVars, spawner, tokens, hand, outVars, storeVars>>

(* A mutant of AllReturned: Wait is not called.                            *)
AllStarted == \A p \in Streams : task[p] # "none"

(* Wait returns when all callbacks have, and has the context cancelled.    *)
AllReturned == \A p \in Streams : task[p] = "returned"

CloseOutput ==
    /\ spawner = "loop" /\ next \notin Streams
    /\ AllReturned
    /\ outClosed' = TRUE
    /\ ctx' = "done"
    /\ spawner' = "ended"
    /\ UNCHANGED <<length, cancelled, pumpVars, callerVars, next, tokens, taskVars, output, storeVars>>

Spawn == ListPartitions \/ TakeToken \/ StartTask \/ SkipTask \/ CloseOutput

-----------------------------------------------------------------------------
(* rangeStreamCallBack for partition p.                                    *)

(* A mutant of RequestRevision: the revision of ListPartition is not used. *)
RevisionGiven == Revision

(* All partitions are read at one revision.                                *)
RequestRevision == IF Revision = 0 THEN header ELSE Revision

(* The server reads at the revision of the request, or at its newest.      *)
ServedRevision(r) == IF r = 0 THEN store ELSE r

OpenStream(p) ==
    /\ task[p] = "open"
    /\ task' = [task EXCEPT ![p] = "receive"]
    /\ \/ /\ Open(p)
          /\ snapshot' = [snapshot EXCEPT ![p] = ServedRevision(RequestRevision)]
       \/ Refuse(p) /\ UNCHANGED snapshot
    /\ UNCHANGED <<length, ctxVars, callerVars, spawnVars, hand, outVars, store, header>>

(* A mutant of TakeResponse: a response with an error is returned as the   *)
(* error of the callback, and not sent.                                    *)
TakeResponseOrFail(p) ==
    /\ task[p] = "receive"
    /\ input[p] # {}
    /\ LET failing == \E r \in input[p] : r.err IN
           /\ hand' = [hand EXCEPT ![p] = IF failing THEN {} ELSE input[p]]
           /\ task' = [task EXCEPT ![p] = IF failing THEN "fail" ELSE "check"]
    /\ input' = [input EXCEPT ![p] = {}]
    /\ UNCHANGED <<length, ctxVars, pump, received, holding, closed, callerVars, spawnVars,
                   outVars, storeVars>>

TakeResponse(p) ==
    /\ task[p] = "receive"
    /\ input[p] # {}
    /\ hand' = [hand EXCEPT ![p] = input[p]]
    /\ input' = [input EXCEPT ![p] = {}]
    /\ task' = [task EXCEPT ![p] = "check"]
    /\ UNCHANGED <<length, ctxVars, pump, received, holding, closed, callerVars, spawnVars,
                   outVars, storeVars>>

(* A mutant of InputEnds: the callback polls its channel, and returns when *)
(* nothing is in it.                                                       *)
InputEndsEarly(p) ==
    /\ task[p] = "receive"
    /\ input[p] = {}
    /\ task' = [task EXCEPT ![p] = "returned"]
    /\ UNCHANGED <<length, ctxVars, pumpVars, callerVars, spawnVars, hand, outVars, storeVars>>

(* The loop over the channel ends with its close.                          *)
InputEnds(p) ==
    /\ task[p] = "receive"
    /\ input[p] = {} /\ closed[p]
    /\ task' = [task EXCEPT ![p] = "returned"]
    /\ UNCHANGED <<length, ctxVars, pumpVars, callerVars, spawnVars, hand, outVars, storeVars>>

(* When the context is done the response is dropped and an error returned, *)
(* which the group has no use for: its context is done already.            *)
CheckContext(p) ==
    /\ task[p] = "check"
    /\ IF ctx = "done"
       THEN /\ task' = [task EXCEPT ![p] = "returned"]
            /\ hand' = [hand EXCEPT ![p] = {}]
       ELSE /\ task' = [task EXCEPT ![p] = "send"]
            /\ UNCHANGED hand
    /\ UNCHANGED <<length, ctxVars, pumpVars, callerVars, spawnVars, outVars, storeVars>>

(* output <- resp, blocked while the caller's channel is full.             *)
SendResponse(p) ==
    /\ task[p] = "send"
    /\ output = {}
    /\ output' = hand[p]
    /\ hand' = [hand EXCEPT ![p] = {}]
    /\ task' = [task EXCEPT ![p] = IF \E r \in hand[p] : r.err THEN "fail" ELSE "receive"]
    /\ UNCHANGED <<length, ctxVars, pumpVars, callerVars, spawnVars, outClosed, storeVars>>

(* The callback returns the error it has sent, and the group cancels.      *)
ReturnError(p) ==
    /\ task[p] = "fail"
    /\ task' = [task EXCEPT ![p] = "returned"]
    /\ ctx' = "done"
    /\ UNCHANGED <<length, cancelled, pumpVars, callerVars, spawnVars, hand, outVars, storeVars>>

Copy(p) == \/ TakeResponse(p) \/ InputEnds(p) \/ CheckContext(p)
           \/ SendResponse(p) \/ ReturnError(p)

-----------------------------------------------------------------------------
(* The pumps, the caller and the store.                                    *)

PumpStep(p) ==
    /\ Pump(p)
    /\ UNCHANGED <<length, ctxVars, callerVars, spawnVars, taskVars, outVars, storeVars>>

(* RangeStream gives its channel to the caller when the loop is through.   *)
Returned == spawner = "ended" \/ (spawner = "loop" /\ next \notin Streams)

CallerReads ==
    /\ ~ended
    /\ Returned
    /\ \E r \in output : Read(r)
    /\ output' = {}
    /\ UNCHANGED <<length, ctxVars, pumpVars, spawnVars, taskVars, outClosed, storeVars>>

CallerEnds ==
    /\ ~ended
    /\ output = {} /\ outClosed
    /\ ReadEnd
    /\ UNCHANGED <<length, ctxVars, pumpVars, spawnVars, taskVars, outVars, storeVars>>

(* The caller cancels its context or the deadline passes, and with it the  *)
(* context of the group is done.                                           *)
CtxDone ==
    /\ MayCancel
    /\ ~cancelled
    /\ cancelled' = TRUE
    /\ ctx' = "done"
    /\ UNCHANGED <<length, pumpVars, callerVars, spawnVars, taskVars, outVars, storeVars>>

Commit ==
    /\ store < MaxRevision
    /\ store' = store + 1
    /\ UNCHANGED <<length, ctxVars, pumpVars, callerVars, spawnVars, taskVars, outVars,
                   header, snapshot>>

Next == \/ ListFails \/ Spawn
        \/ \E p \in Streams : OpenStream(p) \/ Copy(p) \/ PumpStep(p)
        \/ CallerReads \/ CallerEnds \/ CtxDone \/ Commit

Spec == Init /\ [][Next]_vars

(***************************************************************************)
(* Every goroutine goes on, the caller reads until its channel is closed,  *)
(* and an RPC whose context is done fails if nothing else comes first.     *)
(* The server need not do anything.                                        *)
(***************************************************************************)
Failing(p) == \/ OpenStream(p) /\ pump'[p] = "ended"
              \/ PumpStep(p) /\ ReceiveError(p)

Fairness ==
    /\ WF_vars(Spawn /\ spawner # "list")
    /\ WF_vars(ctx = "done" /\ ListFails)
    /\ WF_vars(CallerReads \/ CallerEnds)
    /\ \A p \in Streams : /\ WF_vars(Copy(p))
                          /\ WF_vars(PumpStep(p) /\ Forward(p))
                          /\ WF_vars(ctx = "done" /\ Failing(p))

FairSpec == Spec /\ Fairness
-----------------------------------------------------------------------------
(* Properties.                                                             *)

\* Every variable has its type; in particular limitCh always has room for
\* the token that Go puts back.
TypeOK ==
    /\ PumpTypeOK
    /\ cancelled \in BOOLEAN
    /\ spawner \in {"list", "loop", "go", "ended"}
    /\ next \in 1..StreamCount + 1
    /\ tokens \in 0..MaxConcurrent
    /\ task \in [Streams -> {"none", "open", "receive", "check", "send", "fail", "returned"}]
    /\ hand \in [Streams -> Slots]
    /\ output \in Slots
    /\ outClosed \in BOOLEAN
    /\ store \in 1..MaxRevision
    /\ header \in 0..MaxRevision
    /\ snapshot \in [Streams -> Nat]

\* The merged stream delivers every partition in order and without a gap,
\* however the callbacks interleave, and its channel is closed without an
\* error in it only when the caller got everything or has itself ended its
\* context: an error that stops the others is seen before the end.
Merged == INSTANCE MergedStream WITH Sources <- Streams,
              delivered <- got, failed <- gotError
ImplementsMergedStream == Merged!Spec

\* Nobody sends to the caller's channel, or is about to, after its close
\* (which would panic).
NoSendAfterClose ==
    outClosed => \A p \in Streams : task[p] \in {"none", "returned"}

\* The partitions of one range are all read at the revision that was asked
\* for, or at one revision if none was, while the store moves on.
OneSnapshot ==
    \A p, q \in Streams : snapshot[p] # 0 /\ snapshot[q] # 0 =>
        /\ snapshot[p] = snapshot[q]
        /\ Revision # 0 => snapshot[p] = Revision

\* The guards of the steps that the client's goroutines make by themselves.
SpawnerCanGo ==
    \/ spawner = "go"
    \/ spawner = "loop" /\ (next \in Streams => MaxConcurrent = 0 \/ tokens > 0 \/ ctx = "done")
                       /\ (next \notin Streams => AllReturned)
CallbackCanGo(p) ==
    \/ task[p] = "receive" /\ (input[p] # {} \/ closed[p])
    \/ task[p] = "send" /\ output = {}
    \/ task[p] \in {"check", "fail"}
CallerCanGo == Returned /\ (output # {} \/ outClosed)

\* An RPC that the range waits for has not been answered.
AwaitsServer == \/ spawner = "list"
                \/ \E p \in Streams : \/ task[p] = "open"
                                      \/ task[p] = "receive" /\ pump[p] = "receive"

\* Until the caller's loop ends, the goroutines, their channels and limitCh
\* never wait for each other in a circle: somebody can make a step, or what
\* the range waits for is the answer to an RPC.
OnlyServersBlock ==
    \/ ended
    \/ SpawnerCanGo \/ CallerCanGo
    \/ \E p \in Streams : CallbackCanGo(p) \/ CanForward(p)
    \/ AwaitsServer

\* A caller who reads a range to its end, without an error and without giving
\* it up, leaves no goroutine and no RPC behind: every pump has ended, and no
\* response is left in a channel that nobody reads.
NothingLeftBehind ==
    ended /\ ~gotError /\ ~cancelled =>
        \A p \in Streams : pump[p] = "ended" /\ input[p] = {}

\* When the context is done, by the caller or by an error of one partition,
\* the caller's loop ends, even if no server answers any more.
EndsWhenDone == ctx = "done" ~> ended

\* The channel is closed without an error in it only when the caller got
\* everything (what ImplementsMergedStream says but for the cancellation).
CompleteOrError == ended /\ ~gotError => \A p \in Streams : Len(got[p]) = length[p]

\* At most MaxConcurrent partitions are read at once.
Limited ==
    MaxConcurrent # 0 =>
        Cardinality({p \in Streams : task[p] \notin {"none", "returned"}}) <= MaxConcurrent
=============================================================================
