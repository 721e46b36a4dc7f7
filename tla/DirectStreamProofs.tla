------------------------- MODULE DirectStreamProofs -------------------------
(* Theorems about DirectStream, for streams of every length.               *)
EXTENDS DirectStream, TLAPS

LEMMA OneStream == Streams = {The} /\ The = 1 /\ The \in Streams
  BY DirectAssumption DEF Streams, The

LEMMA FailureType == Failure \in Responses /\ {Failure} \in Slots /\ {} \in Slots
  <1>1. 0 \in 0..StreamCount /\ 0 \in 0..MaxLength
    BY StreamAssumption
  <1>2. Failure \in Responses
    BY <1>1 DEF Failure, Responses
  <1>. QED  BY <1>2 DEF Slots

\* The numbers of the only stream.
LEMMA Numbers ==
    ASSUME TypeOK
    PROVE  /\ length[The] \in Nat /\ length[The] <= MaxLength
           /\ received[The] \in Nat /\ received[The] <= MaxLength
           /\ got[The] \in Seq(0..MaxLength) /\ Len(got[The]) \in Nat
           /\ MaxLength \in Nat
           /\ holding[The] \in Slots /\ input[The] \in Slots
  <1>1. /\ length[The] \in 0..MaxLength /\ received[The] \in 0..MaxLength
        /\ got[The] \in Seq(0..MaxLength)
        /\ holding[The] \in Slots /\ input[The] \in Slots
    BY OneStream DEF TypeOK, PumpTypeOK
  <1>. QED  BY <1>1, StreamAssumption

\* A response of the stream, by its number.
LEMMA ResponseType ==
    ASSUME NEW n \in 0..MaxLength, NEW e \in BOOLEAN
    PROVE  /\ [of |-> The, n |-> n, err |-> e] \in Responses
           /\ {[of |-> The, n |-> n, err |-> e]} \in Slots
           /\ [of |-> The, n |-> n, err |-> e] # Failure
  BY OneStream, DirectAssumption, StreamAssumption DEF Responses, Slots, Failure

\* What is in a channel or in a hand is a response.
LEMMA SlotsHold ==
    ASSUME NEW slot \in Slots, NEW r \in slot
    PROVE  r \in Responses /\ slot = {r}
  BY DEF Slots

-----------------------------------------------------------------------------
(***************************************************************************)
(* The invariant follows the numbers of the responses: those that the      *)
(* caller has, the one in the channel and the one in the hand of the pump  *)
(* are those that were received, without a gap.                            *)
(***************************************************************************)

\* How many responses of the server a channel or a hand has.
Count(slot) == IF slot = {} \/ slot = {Failure} THEN 0 ELSE 1

\* What the pump has in its hand, by where it is.
HandInv ==
    \/ pump[The] \in {"off", "receive", "ended"} /\ holding[The] = {}
    \/ /\ pump[The] = "send"
       /\ \E e \in BOOLEAN : holding[The] = {[of |-> The, n |-> received[The], err |-> e]}
    \/ pump[The] = "send last" /\ holding[The] = {Failure}

\* The channel is closed by the end of the pump, and a failed RPC ends it.
CloseInv ==
    /\ closed[The] <=> pump[The] = "ended"
    /\ input[The] = {Failure} => pump[The] = "ended"
    /\ ended => pump[The] = "ended" /\ input[The] = {}
    /\ stage # "opened" => pump[The] = "off"
    /\ pump[The] = "off" => received[The] = 0 /\ input[The] = {}

\* In order and without a gap.
OrderInv ==
    /\ received[The] <= length[The]
    /\ received[The] = Len(got[The]) + Count(input[The]) + Count(holding[The])
    /\ \A r \in input[The] : r = Failure \/ (r.of = The /\ r.n = Len(got[The]) + 1)

\* A pump that has ended has received everything, or there is an error that
\* the caller has or will get.
OutcomeInv ==
    pump[The] = "ended" =>
        received[The] = length[The] \/ gotError \/ input[The] = {Failure}

DirectInv == TypeOK /\ HandInv /\ CloseInv /\ OrderInv /\ OutcomeInv

LEMMA InitDirect == Init => DirectInv
  <1>. SUFFICES ASSUME Init PROVE DirectInv
    OBVIOUS
  <1>. USE OneStream, FailureType, StreamAssumption DEF Init, PumpInit
  <1>1. TypeOK
    <2>1. 0 \in 0..MaxLength /\ <<>> \in Seq(0..MaxLength)
      OBVIOUS
    <2>. QED  BY <2>1 DEF TypeOK, PumpTypeOK
  <1>2. HandInv /\ CloseInv /\ OutcomeInv
    BY DEF HandInv, CloseInv, OutcomeInv
  <1>3. OrderInv
    BY <1>1, Numbers DEF OrderInv, Count
  <1>. QED  BY <1>1, <1>2, <1>3 DEF DirectInv

\* Opening the stream, and its refusal.
LEMMA OpenStep ==
    ASSUME DirectInv, ListFails \/ ListEmpty \/ ListPartitions \/ OpenStream
    PROVE  DirectInv'
  <1>. USE OneStream, FailureType
       DEF DirectInv, TypeOK, PumpTypeOK, HandInv, CloseInv, OrderInv, OutcomeInv,
           Count, callerVars, pumpVars
  <1>1. CASE ListFails
    BY <1>1 DEF ListFails, Refuse
  <1>2. CASE ListEmpty
    BY <1>2 DEF ListEmpty
  <1>3. CASE ListPartitions
    BY <1>3 DEF ListPartitions
  <1>4. CASE OpenStream
    <2>1. CASE Open(The)
      BY <1>4, <2>1 DEF OpenStream, Open
    <2>2. CASE Refuse(The)
      BY <1>4, <2>2 DEF OpenStream, Refuse
    <2>. QED  BY <1>4, <2>1, <2>2 DEF OpenStream
  <1>. QED  BY <1>1, <1>2, <1>3, <1>4

\* The pump: received, put into the channel, closed.
LEMMA PumpInv ==
    ASSUME DirectInv, PumpStep
    PROVE  DirectInv'
  <1>. USE OneStream, FailureType
       DEF DirectInv, TypeOK, PumpTypeOK, HandInv, CloseInv, OrderInv, OutcomeInv,
           Count, callerVars, PumpStep
  <1>1. CASE Receive(The)
    <2>1. PICK e \in BOOLEAN : holding' = [holding EXCEPT
              ![The] = {[of |-> The, n |-> received[The] + 1, err |-> e]}]
      BY <1>1 DEF Receive
    <2>2. received[The] + 1 \in 0..MaxLength /\ received[The] + 1 <= length[The]
      <3>1. received[The] < length[The]
        BY <1>1 DEF Receive
      <3>. HIDE DEF TypeOK, PumpTypeOK, HandInv, CloseInv, OrderInv, OutcomeInv
      <3>. QED  BY <3>1, Numbers
    <2>. DEFINE r == [of |-> The, n |-> received[The] + 1, err |-> e]
    <2>3. {r} \in Slots /\ r # Failure
      BY <2>2, ResponseType
    <2>4. holding'[The] = {r} /\ holding' \in [Streams -> Slots]
      BY <2>1, <2>3
    <2>5. received'[The] = received[The] + 1 /\ received' \in [Streams -> 0..MaxLength]
      BY <1>1, <2>2 DEF Receive
    <2>6. holding[The] = {} /\ pump'[The] = "send"
      BY <1>1 DEF Receive
    <2>7. TypeOK'
      BY <1>1, <2>4, <2>5 DEF Receive
    <2>8. HandInv'
      BY <2>4, <2>5, <2>6
    <2>9. CloseInv'
      BY <1>1 DEF Receive
    <2>10. OrderInv'
      <3>1. UNCHANGED <<length, input, got>>
        BY <1>1 DEF Receive
      <3>2. {r} # {} /\ {r} # {Failure}
        BY <2>3
      <3>3. /\ Count(holding[The]) = 0 /\ Count(holding'[The]) = 1
            /\ Count(input[The]) \in {0, 1}
        BY <3>2, <2>4, <2>6
      <3>. HIDE DEF TypeOK, PumpTypeOK, HandInv, CloseInv, OutcomeInv, Count, r
      <3>. QED  BY <3>1, <3>3, <2>2, <2>5, Numbers
    <2>11. OutcomeInv'
      BY <2>6
    <2>. QED  BY <2>7, <2>8, <2>9, <2>10, <2>11
  <1>2. CASE ReceiveEOF(The)
    BY <1>2 DEF ReceiveEOF
  <1>3. CASE ReceiveError(The)
    BY <1>3 DEF ReceiveError
  <1>4. CASE Forward(The)
    <2>1. CASE pump[The] = "send"
      <3>1. PICK e \in BOOLEAN :
                holding[The] = {[of |-> The, n |-> received[The], err |-> e]}
        BY <2>1
      <3>. DEFINE r == [of |-> The, n |-> received[The], err |-> e]
      <3>2. r # Failure /\ r.of = The /\ r.n = received[The]
        BY <3>1, ResponseType
      <3>3. /\ input'[The] = {r} /\ holding'[The] = {} /\ pump'[The] = "receive"
            /\ ~closed'[The]
            /\ input[The] = {}
        BY <1>4, <2>1, <3>1 DEF Forward
      <3>4. TypeOK'
        BY <1>4, <2>1 DEF Forward
      <3>5. OrderInv'
        <4>1. UNCHANGED <<length, received, got>>
          BY <1>4 DEF Forward
        <4>2. {r} # {} /\ {r} # {Failure}
          BY <3>2
        <4>3. /\ Count(holding[The]) = 1 /\ Count(holding'[The]) = 0
              /\ Count(input[The]) = 0 /\ Count(input'[The]) = 1
          BY <3>1, <3>3, <4>2
        <4>. HIDE DEF TypeOK, PumpTypeOK, HandInv, CloseInv, OutcomeInv, Count
        <4>4. Len(got[The]) + 1 = received[The]
          BY <4>3, Numbers
        <4>. HIDE DEF r
        <4>. QED  BY <3>2, <3>3, <4>1, <4>3, <4>4, Numbers
      <3>6. CloseInv'
        BY <1>4, <2>1, <3>2, <3>3 DEF Forward
      <3>. QED  BY <3>3, <3>4, <3>5, <3>6
    <2>2. CASE pump[The] = "send last"
      BY <1>4, <2>2 DEF Forward
    <2>. QED  BY <1>4, <2>1, <2>2 DEF Forward
  <1>. QED  BY <1>1, <1>2, <1>3, <1>4 DEF Pump, Serve

\* What the caller does to its variables when it reads.
LEMMA ReadStep ==
    ASSUME DirectInv, NEW r \in input[The], Read(r)
    PROVE  /\ r \in Responses
           /\ input[The] = {r}
           /\ \/ r = Failure /\ got' = got /\ gotError' = TRUE
              \/ /\ r # Failure
                 /\ got'[The] = Append(got[The], Len(got[The]) + 1)
                 /\ Len(got'[The]) = Len(got[The]) + 1
                 /\ gotError' \in {gotError, TRUE}
           /\ got' \in [Streams -> Seq(0..MaxLength)]
           /\ gotError' \in BOOLEAN
  <1>1. r \in Responses /\ input[The] = {r}
    BY OneStream, SlotsHold DEF DirectInv, TypeOK, PumpTypeOK
  <1>2. got \in [Streams -> Seq(0..MaxLength)] /\ gotError \in BOOLEAN
    BY DEF DirectInv, TypeOK, PumpTypeOK
  <1>3. r.n \in 0..MaxLength /\ r.err \in BOOLEAN
    BY <1>1 DEF Responses
  <1>4. CASE r = Failure
    <2>1. r.of = 0 /\ r.err
      BY <1>4 DEF Failure
    <2>2. got' = got
      BY <1>2, <2>1, OneStream DEF Read
    <2>. QED  BY <1>1, <1>2, <1>4, <2>1, <2>2 DEF Read
  <1>5. CASE r # Failure
    <2>1. r.of = The /\ r.n = Len(got[The]) + 1
      BY <1>5 DEF DirectInv, OrderInv
    <2>2. got'[The] = Append(got[The], Len(got[The]) + 1)
      BY <2>1, OneStream DEF Read
    <2>3. got' \in [Streams -> Seq(0..MaxLength)]
      <3>1. Append(got[The], r.n) \in Seq(0..MaxLength)
        BY <1>2, <1>3, OneStream
      <3>. QED  BY <1>2, <2>1, <3>1, OneStream DEF Read
    <2>4. Len(got'[The]) = Len(got[The]) + 1
      BY <1>2, <1>3, <2>1, <2>2, OneStream
    <2>. QED  BY <1>1, <1>2, <1>3, <1>5, <2>2, <2>3, <2>4 DEF Read
  <1>. QED  BY <1>4, <1>5

LEMMA CallerStep ==
    ASSUME DirectInv, CallerReads \/ CallerEnds \/ CtxDone
    PROVE  DirectInv'
  <1>. USE OneStream, FailureType
       DEF DirectInv, TypeOK, PumpTypeOK, HandInv, CloseInv, OrderInv, OutcomeInv,
           Count, callerVars, pumpVars
  <1>1. CASE CallerReads
    <2>1. PICK r \in input[The] : Read(r)
      BY <1>1 DEF CallerReads
    <2>2. /\ input[The] = {r} /\ input'[The] = {}
          /\ input' \in [Streams -> Slots]
          /\ UNCHANGED <<length, ctx, stage, pump, received, holding, closed, ended>>
      BY <1>1, <2>1, ReadStep DEF CallerReads, Read
    <2>3. got' \in [Streams -> Seq(0..MaxLength)] /\ gotError' \in BOOLEAN
      BY <2>1, ReadStep
    <2>4. CASE r = Failure
      BY <2>1, <2>2, <2>3, <2>4, ReadStep
    <2>5. CASE r # Failure
      <3>1. Len(got[The]) \in Nat /\ Len(got'[The]) = Len(got[The]) + 1
        BY <2>1, <2>5, ReadStep, Numbers
      <3>2. OrderInv'
        <4>1. Count(input[The]) = 1 /\ Count(input'[The]) = 0
          BY <2>2, <2>5
        <4>2. UNCHANGED <<received, length, holding>>
          BY <2>2
        <4>. HIDE DEF TypeOK, PumpTypeOK, HandInv, CloseInv, OutcomeInv, Count
        <4>. QED  BY <3>1, <4>1, <4>2, <2>2, Numbers
      <3>3. OutcomeInv'
        BY <2>1, <2>2, <2>5, ReadStep
      <3>. QED  BY <1>1, <2>2, <2>3, <3>2, <3>3 DEF CallerReads
    <2>. QED  BY <2>4, <2>5
  <1>2. CASE CallerEnds
    BY <1>2 DEF CallerEnds, ReadEnd
  <1>3. CASE CtxDone
    BY <1>3 DEF CtxDone
  <1>. QED  BY <1>1, <1>2, <1>3

LEMMA NextDirect == DirectInv /\ [Next]_vars => DirectInv'
  <1>1. CASE UNCHANGED vars
    BY <1>1 DEF vars, callerVars, pumpVars, DirectInv, TypeOK, PumpTypeOK, HandInv,
                CloseInv, OrderInv, OutcomeInv
  <1>. QED  BY <1>1, OpenStep, PumpInv, CallerStep DEF Next

THEOREM DirectInvariant == Spec => []DirectInv
  BY InitDirect, NextDirect, PTL DEF Spec

\* Type correctness of a watch or a range without a limit, for streams of
\* every length: what is received, in the channel and read stays in range.
THEOREM DirectTypeCorrect == Spec => []TypeOK
  <1>1. DirectInv => TypeOK
    BY DEF DirectInv
  <1>. QED  BY DirectInvariant, <1>1, PTL

-----------------------------------------------------------------------------
(* Each read is a Deliver or a Fail of the abstract stream, the end of the *)
(* caller's loop is its End, and everything else is hidden.                *)

LEMMA InitMerged == Init => Merged!Init
  BY OneStream, StreamAssumption DEF Init, PumpInit, Merged!Init

LEMMA ReadMerged ==
    ASSUME DirectInv, CallerReads
    PROVE  Merged!Next
  <1>1. PICK r \in input[The] : Read(r)
    BY DEF CallerReads
  <1>2. ~ended /\ UNCHANGED <<length, ended>>
    BY <1>1 DEF CallerReads, Read
  <1>3. CASE r = Failure
    <2>1. Merged!Fail
      BY <1>1, <1>2, <1>3, ReadStep DEF Merged!Fail
    <2>. QED  BY <2>1 DEF Merged!Next
  <1>4. CASE r # Failure
    <2>1. Len(got[The]) < length[The]
      <3>1. /\ received[The] <= length[The] /\ received[The] \in Nat /\ length[The] \in Nat
            /\ received[The] = Len(got[The]) + Count(input[The]) + Count(holding[The])
            /\ Len(got[The]) \in Nat
        BY Numbers DEF DirectInv, OrderInv
      <3>2. Count(input[The]) = 1 /\ Count(holding[The]) \in {0, 1}
        BY <1>1, <1>4, ReadStep DEF Count
      <3>. QED  BY <3>1, <3>2
    <2>2. got' = [got EXCEPT ![The] = Append(@, Len(@) + 1)]
      BY <1>1, <1>4, ReadStep, OneStream DEF DirectInv, TypeOK, PumpTypeOK
    <2>3. Merged!Deliver(The)
      BY <1>1, <1>2, <1>4, <2>1, <2>2, ReadStep DEF Merged!Deliver
    <2>. QED  BY <2>3, OneStream DEF Merged!Next
  <1>. QED  BY <1>3, <1>4

LEMMA EndMerged ==
    ASSUME DirectInv, CallerEnds
    PROVE  Merged!Next
  <1>1. input[The] = {} /\ pump[The] = "ended" /\ holding[The] = {}
    BY DEF CallerEnds, DirectInv, CloseInv, HandInv
  <1>2. received[The] = Len(got[The])
    BY <1>1, Numbers DEF DirectInv, OrderInv, Count
  <1>3. gotError \/ \A s \in Streams : Len(got[s]) = length[s]
    BY <1>1, <1>2, OneStream DEF DirectInv, OutcomeInv
  <1>4. Merged!End
    BY <1>3 DEF Merged!End, CallerEnds, ReadEnd
  <1>. QED  BY <1>4 DEF Merged!Next

LEMMA MergedStep == DirectInv /\ [Next]_vars => [Merged!Next]_(Merged!streamVars)
  <1>. USE DEF Merged!streamVars, callerVars
  <1>1. CASE UNCHANGED vars
    BY <1>1 DEF vars
  <1>2. ASSUME ListFails \/ ListEmpty \/ ListPartitions \/ OpenStream \/ PumpStep \/ CtxDone
        PROVE  UNCHANGED Merged!streamVars
    BY <1>2 DEF ListFails, ListEmpty, ListPartitions, OpenStream, PumpStep, CtxDone
  <1>. QED  BY <1>1, <1>2, ReadMerged, EndMerged DEF Next

\* The goroutine and the channel of a watch, or of a range without a limit,
\* deliver what the server sends in order and without a gap, and close the
\* channel with everything delivered or an error in it, cancelled or not.
THEOREM DirectStreamImplemented == Spec => ImplementsMergedStream
  BY DirectInvariant, InitMerged, MergedStep, PTL
  DEF Spec, ImplementsMergedStream, Merged!Spec
-----------------------------------------------------------------------------
(* Nobody waits for each other.                                            *)

\* Until the caller's loop ends, the goroutine and the caller never wait for
\* each other: the pump can put its response into the channel, the caller can
\* read or sees the close, or it is the answer to an RPC that is missing.
OnlyServersBlock ==
    \/ ended
    \/ CanForward(The) \/ input[The] # {} \/ closed[The]
    \/ stage # "opened" \/ pump[The] = "receive"

\* Once the RPC was tried there is a pump, or its end.
OpenedInv == stage = "opened" => pump[The] # "off"

LEMMA OpenedStep ==
    ASSUME TypeOK, OpenedInv, [Next]_vars
    PROVE  OpenedInv'
  <1>. USE OneStream DEF OpenedInv, TypeOK, PumpTypeOK
  <1>1. CASE ListFails \/ ListEmpty \/ ListPartitions
    BY <1>1 DEF ListFails, ListEmpty, ListPartitions, Refuse, pumpVars
  <1>2. CASE OpenStream
    BY <1>2 DEF OpenStream, Open, Refuse
  <1>3. CASE PumpStep
    BY <1>3 DEF PumpStep, Pump, Serve, Receive, ReceiveEOF, ReceiveError, Forward
  <1>4. CASE CallerReads \/ CallerEnds \/ CtxDone
    BY <1>4 DEF CallerReads, CallerEnds, CtxDone, pumpVars
  <1>5. CASE UNCHANGED vars
    BY <1>5 DEF vars, pumpVars
  <1>. QED  BY <1>1, <1>2, <1>3, <1>4, <1>5 DEF Next

\* The caller and the goroutine that fills its channel never wait for each
\* other; a Watch that makes no step waits for its server.
THEOREM NoDirectDeadlock == Spec => []OnlyServersBlock
  <1>1. Init => OpenedInv
    BY DEF Init, OpenedInv
  <1>2. DirectInv /\ OpenedInv /\ [Next]_vars => OpenedInv'
    BY OpenedStep DEF DirectInv
  <1>3. DirectInv /\ OpenedInv => OnlyServersBlock
    <2>. SUFFICES ASSUME DirectInv, OpenedInv, ~ended, stage = "opened",
                         pump[The] # "receive"
                  PROVE  CanForward(The) \/ input[The] # {} \/ closed[The]
      BY DEF OnlyServersBlock
    <2>1. pump[The] \in {"send", "send last", "ended"}
      BY OneStream DEF DirectInv, TypeOK, PumpTypeOK, OpenedInv
    <2>2. pump[The] = "ended" => closed[The]
      BY DEF DirectInv, CloseInv
    <2>. QED  BY <2>1, <2>2 DEF CanForward
  <1>. QED  BY InitDirect, NextDirect, <1>1, <1>2, <1>3, PTL DEF Spec
=============================================================================
