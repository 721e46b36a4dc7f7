---------------------------- MODULE DirectStream ----------------------------
(***************************************************************************)
(* A stream whose caller reads the channel of its only pump: Watch, and    *)
(* RangeStream without WithMaxConcurrent (singleRangeStream), which first  *)
(* asks for the partitions and then reads all of them in one RPC           *)
(* (client/client_stream.go).                                              *)
(***************************************************************************)
EXTENDS StreamPump

ASSUME DirectAssumption == StreamCount = 1

VARIABLE stage         \* "list": before ListPartition; "open"; "opened"

vars == <<length, ctx, stage, pumpVars, callerVars>>

The == 1               \* the only stream

\* RangeStream starts with ListPartition, Watch with the RPC itself.
Init == PumpInit /\ stage \in {"list", "open"}

(* ListPartition fails, at any time and always when the context is done:   *)
(* the caller gets a closed channel with that error.                       *)
ListFails ==
    /\ stage = "list"
    /\ stage' = "opened"
    /\ Refuse(The)
    /\ UNCHANGED <<length, ctx, callerVars>>

(* At most one partition key: there is no partition in the range, and the  *)
(* caller gets a closed channel with nothing in it.  That a server answers *)
(* so exactly for an empty range is supposed of it.                        *)
ListEmpty ==
    /\ stage = "list"
    /\ length[The] = 0
    /\ stage' = "opened"
    /\ pump' = [pump EXCEPT ![The] = "ended"]
    /\ closed' = [closed EXCEPT ![The] = TRUE]
    /\ UNCHANGED <<length, ctx, received, holding, input, callerVars>>

(* The RPC reads from the first partition key to the last one, which are   *)
(* the key and the end that were asked for (rpc.proto:127).  It is one     *)
(* request and so one snapshot: at which revision, that of the list if     *)
(* none was given, is left out.                                            *)
ListPartitions ==
    /\ stage = "list"
    /\ stage' = "open"
    /\ UNCHANGED <<length, ctx, pumpVars, callerVars>>

OpenStream ==
    /\ stage = "open"
    /\ stage' = "opened"
    /\ Open(The) \/ Refuse(The)
    /\ UNCHANGED <<length, ctx, callerVars>>

PumpStep == Pump(The) /\ UNCHANGED <<length, ctx, stage, callerVars>>

CallerReads ==
    /\ ~ended
    /\ \E r \in input[The] : Read(r)
    /\ input' = [input EXCEPT ![The] = {}]
    /\ UNCHANGED <<length, ctx, stage, pump, received, holding, closed>>

CallerEnds ==
    /\ ~ended
    /\ input[The] = {} /\ closed[The]
    /\ ReadEnd
    /\ UNCHANGED <<length, ctx, stage, pumpVars>>

(* The caller cancels its context, or the deadline passes.                 *)
CtxDone ==
    /\ ctx = "live"
    /\ ctx' = "done"
    /\ UNCHANGED <<length, stage, pumpVars, callerVars>>

Next == \/ ListFails \/ ListEmpty \/ ListPartitions \/ OpenStream
        \/ PumpStep
        \/ CallerReads \/ CallerEnds \/ CtxDone

Spec == Init /\ [][Next]_vars

(***************************************************************************)
(* The goroutine goes on, the caller reads until the channel is closed,    *)
(* and an RPC whose context is done fails if nothing else comes first.     *)
(* The server need not do anything.                                        *)
(***************************************************************************)
Failing == ListFails \/ (OpenStream /\ pump'[The] = "ended")
                     \/ (PumpStep /\ ReceiveError(The))

Fairness ==
    /\ WF_vars(PumpStep /\ Forward(The))
    /\ WF_vars(CallerReads \/ CallerEnds)
    /\ WF_vars(ctx = "done" /\ Failing)

FairSpec == Spec /\ Fairness
-----------------------------------------------------------------------------
(* Properties.                                                             *)

\* Every variable has its type.
TypeOK == PumpTypeOK /\ stage \in {"list", "open", "opened"}

\* The caller gets the responses of the server in order and without a gap,
\* and the channel is closed without an error in it only when it had all of
\* them, also if the context is done in between.
Merged == INSTANCE MergedStream WITH Sources <- Streams,
              delivered <- got, failed <- gotError, cancelled <- FALSE
ImplementsMergedStream == Merged!Spec

\* Whatever the server does, the caller's loop ends when the context is done.
EndsWhenDone == ctx = "done" ~> ended
=============================================================================
