----------------------------- MODULE StreamPump -----------------------------
(***************************************************************************)
(* One goroutine per RPC stream reads responses from the server and puts   *)
(* them into a Go channel of capacity 1 (fetchStreamRangeResp and          *)
(* fetchWatchResp in client/client_stream.go, which are the same code for  *)
(* two types); and the caller who reads the channel it was given.  Who     *)
(* opens the streams, and which channel the caller has, is up to the       *)
(* modules that extend this one.                                           *)
(*                                                                         *)
(* Something that is there or not, like the content of such a channel, is  *)
(* a set: empty, or with that element in it.                               *)
(***************************************************************************)
EXTENDS Naturals, Sequences

CONSTANTS StreamCount, \* how many streams there are
          MaxLength    \* bound: how many responses a stream has

ASSUME StreamAssumption == StreamCount \in Nat /\ MaxLength \in Nat

VARIABLES length,      \* length[s]: how many responses the server has for s
          ctx,         \* the context of the RPCs: "live" or "done"
          pump,        \* where the goroutine of a stream is
          received,    \* how many responses it has received
          holding,     \* the response it is about to put into the channel
          input,       \* the channel, capacity 1
          closed,      \* the channel is closed
          got,        \* got[s]: the numbers of the responses of s the caller read
         gotError,    \* the caller has read an error
         ended        \* the caller has seen that its channel is closed

callerVars == <<got, gotError, ended>>
pumpVars == <<pump, received, holding, input, closed>>

Streams == 1..StreamCount

(* StreamRangeResponse and WatchResponse: the stream a response is from,   *)
(* its number in that stream, and whether Err() returns an error (a        *)
(* cancelReason of the server).  A failed RPC gives a response of no       *)
(* stream, with no content and a closeErr.                                 *)
Responses == [of : 0..StreamCount, n : 0..MaxLength, err : BOOLEAN]
Slots == {{}} \cup {{r} : r \in Responses}
Failure == [of |-> 0, n |-> 0, err |-> TRUE]

PumpInit ==
    /\ length \in [Streams -> 0..MaxLength]
    /\ ctx = "live"
    /\ pump = [s \in Streams |-> "off"]
    /\ received = [s \in Streams |-> 0]
    /\ holding = [s \in Streams |-> {}]
    /\ input = [s \in Streams |-> {}]
    /\ closed = [s \in Streams |-> FALSE]
    /\ got = [s \in Streams |-> <<>>]
    /\ gotError = FALSE
    /\ ended = FALSE

-----------------------------------------------------------------------------
(* The RPC is accepted, and the goroutine starts.                          *)
Open(s) ==
    /\ pump[s] = "off"
    /\ pump' = [pump EXCEPT ![s] = "receive"]
    /\ UNCHANGED <<received, holding, input, closed>>

(* The RPC is refused: one error in the channel, which is closed.          *)
Refuse(s) ==
    /\ pump[s] = "off"
    /\ pump' = [pump EXCEPT ![s] = "ended"]
    /\ input' = [input EXCEPT ![s] = {Failure}]
    /\ closed' = [closed EXCEPT ![s] = TRUE]
    /\ UNCHANGED <<received, holding>>

(* client.Recv() returns the next response, with or without an error of    *)
(* the server in it.                                                       *)
Receive(s) ==
    /\ pump[s] = "receive"
    /\ received[s] < length[s]
    /\ received' = [received EXCEPT ![s] = @ + 1]
    /\ \E e \in BOOLEAN : holding' = [holding EXCEPT
           ![s] = {[of |-> s, n |-> received[s] + 1, err |-> e]}]
    /\ pump' = [pump EXCEPT ![s] = "send"]
    /\ UNCHANGED <<input, closed>>

(* A mutant of ReceiveEOF: close(output) is missing.                       *)
ReceiveEOFOpen(s) ==
    /\ pump[s] = "receive"
    /\ received[s] = length[s]
    /\ pump' = [pump EXCEPT ![s] = "ended"]
    /\ UNCHANGED <<received, holding, input, closed>>

(* It returns io.EOF.                                                      *)
ReceiveEOF(s) ==
    /\ pump[s] = "receive"
    /\ received[s] = length[s]
    /\ pump' = [pump EXCEPT ![s] = "ended"]
    /\ closed' = [closed EXCEPT ![s] = TRUE]
    /\ UNCHANGED <<received, holding, input>>

(* It returns another error, as it may do at any time and has to when the  *)
(* context is done.                                                        *)
ReceiveError(s) ==
    /\ pump[s] = "receive"
    /\ holding' = [holding EXCEPT ![s] = {Failure}]
    /\ pump' = [pump EXCEPT ![s] = "send last"]
    /\ UNCHANGED <<received, input, closed>>

(* A mutant of Forward: the error of an RPC is dropped when the channel is *)
(* full.                                                                   *)
ForwardOrDrop(s) ==
    /\ pump[s] \in {"send", "send last"}
    /\ input[s] = {} \/ pump[s] = "send last"
    /\ input' = [input EXCEPT ![s] = IF @ = {} THEN holding[s] ELSE @]
    /\ holding' = [holding EXCEPT ![s] = {}]
    /\ pump' = [pump EXCEPT ![s] = IF pump[s] = "send" THEN "receive" ELSE "ended"]
    /\ closed' = [closed EXCEPT ![s] = pump[s] = "send last"]
    /\ UNCHANGED received

(* A mutant of Forward: the channel stays open after the error of an RPC.  *)
ForwardOpen(s) ==
    /\ pump[s] \in {"send", "send last"}
    /\ input[s] = {}
    /\ input' = [input EXCEPT ![s] = holding[s]]
    /\ holding' = [holding EXCEPT ![s] = {}]
    /\ pump' = [pump EXCEPT ![s] = IF pump[s] = "send" THEN "receive" ELSE "ended"]
    /\ UNCHANGED <<received, closed>>

(* A mutant of Forward: the channel takes more than one response.          *)
ForwardAtOnce(s) ==
    /\ pump[s] \in {"send", "send last"}
    /\ input' = [input EXCEPT ![s] = @ \cup holding[s]]
    /\ holding' = [holding EXCEPT ![s] = {}]
    /\ pump' = [pump EXCEPT ![s] = IF pump[s] = "send" THEN "receive" ELSE "ended"]
    /\ closed' = [closed EXCEPT ![s] = pump[s] = "send last"]
    /\ UNCHANGED received

(* output <- resp, blocked while the channel is full; after the error of   *)
(* an RPC the channel is closed.                                           *)
Forward(s) ==
    /\ pump[s] \in {"send", "send last"}
    /\ input[s] = {}
    /\ input' = [input EXCEPT ![s] = holding[s]]
    /\ holding' = [holding EXCEPT ![s] = {}]
    /\ pump' = [pump EXCEPT ![s] = IF pump[s] = "send" THEN "receive" ELSE "ended"]
    /\ closed' = [closed EXCEPT ![s] = pump[s] = "send last"]
    /\ UNCHANGED received

(* The caller reads response r.                                            *)
Read(r) == /\ got' = [s \in Streams |-> IF s = r.of THEN Append(got[s], r.n)
                                                ELSE got[s]]
           /\ gotError' = (gotError \/ r.err)
           /\ UNCHANGED ended

(* Its loop over the channel ends.                                         *)
ReadEnd == ended' = TRUE /\ UNCHANGED <<got, gotError>>

\* What the server decides, and what the goroutine does.
Serve(s) == Receive(s) \/ ReceiveEOF(s) \/ ReceiveError(s)
Pump(s) == Serve(s) \/ Forward(s)

-----------------------------------------------------------------------------
\* The guard of Forward: a pump with a response in hand, and room for it.
CanForward(s) == pump[s] \in {"send", "send last"} /\ input[s] = {}

\* Every variable declared here has its type; a channel holds one response.
PumpTypeOK ==
    /\ length \in [Streams -> 0..MaxLength]
    /\ ctx \in {"live", "done"}
    /\ pump \in [Streams -> {"off", "receive", "send", "send last", "ended"}]
    /\ received \in [Streams -> 0..MaxLength]
    /\ holding \in [Streams -> Slots]
    /\ input \in [Streams -> Slots]
    /\ closed \in [Streams -> BOOLEAN]
    /\ got \in [Streams -> Seq(0..MaxLength)]
    /\ gotError \in BOOLEAN
    /\ ended \in BOOLEAN
=============================================================================
