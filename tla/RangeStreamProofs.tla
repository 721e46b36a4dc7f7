------------------------- MODULE RangeStreamProofs -------------------------
(***************************************************************************)
(* Theorems about RangeStream, for every number and length of partitions,  *)
(* with and without a limit, whether or not the caller stays.              *)
(***************************************************************************)
EXTENDS RangeStream, SequenceTheorems, TLAPS

USE DEF ctxVars

\* 1 if the response in a slot is one of partition p.
Of(slot, p) == IF \E r \in slot : r.of = p THEN 1 ELSE 0

\* 1 if the callback has returned.
Back(state) == IF state = "returned" THEN 1 ELSE 0

\* How many responses of p have left its callback.
Sent(p) == Len(got[p]) + Of(output, p)

\* An error that the caller has seen or will see.
ErrorOut == gotError \/ \E r \in output : r.err

-----------------------------------------------------------------------------
(* The parts of the inductive invariant.                                   *)

\* The spawner: what it has not reached is untouched.
SpawnInv ==
    /\ tokens = IF spawner = "go" /\ MaxConcurrent # 0 THEN MaxConcurrent - 1
                                                       ELSE MaxConcurrent
    /\ spawner = "go" => next \in Streams
    /\ spawner = "list" => next = 1 /\ output = {}
    /\ \A p \in Streams : p >= next => task[p] = "none"
    /\ outClosed <=> spawner = "ended"
    /\ outClosed => \A p \in Streams : task[p] \in {"none", "returned"}

\* The revision is known before a stream is opened.
RevisionInv ==
    /\ spawner \in {"loop", "go"} => header # 0
    /\ \A p \in Streams : task[p] # "none" => header # 0
    /\ \A p \in Streams : snapshot[p] # 0 =>
           task[p] # "none" /\ snapshot[p] = RequestRevision

\* A response is where the goroutine that carries it says.
PlaceInv ==
    /\ \A r \in output : r.of = 0 => r = Failure
    /\ \A p \in Streams :
        /\ hand[p] # {} <=> task[p] \in {"check", "send"}
        /\ task[p] \in {"none", "open"} => pump[p] = "off"
        /\ pump[p] \in {"off", "receive", "ended"} => holding[p] = {}
        /\ pump[p] = "send" => holding[p] # {}
        /\ pump[p] = "send last" => holding[p] = {Failure}
        /\ pump[p] = "off" => input[p] = {} /\ received[p] = 0
        /\ closed[p] => pump[p] = "ended"
        /\ \A r \in hand[p] \cup input[p] \cup holding[p] : r = Failure \/ r.of = p

\* The way of the responses of p, from the server (n of them so far, of len)
\* through w, in, h and out to the caller (g): every place holds the response
\* that follows those further on.  A callback that is back (1) leaves the
\* rest of the way as it is.
Chain(g, out, h, in, w, n, len, back, p) ==
    LET sent == Len(g) + Of(out, p)
        taken == sent + Of(h, p)
        piped == taken + Of(in, p)
    IN  /\ g = [i \in 1..Len(g) |-> i]
        /\ \A r \in out : r.of = p => r.n = Len(g) + 1
        /\ \A r \in h : r.of = p => r.n = sent + 1
        /\ taken <= n /\ n <= len
        /\ back = 0 => /\ \A r \in in : r.of = p => r.n = taken + 1
                       /\ \A r \in w : r.of = p => r.n = piped + 1
                       /\ n = piped + Of(w, p)

ChainInv ==
    \A p \in Streams : Chain(got[p], output, hand[p], input[p], holding[p], received[p],
                            length[p], Back(task[p]), p)

\* As long as no error is on its way out, nothing ends too early.
NoErrorYet ==
    /\ ctx = "done" => outClosed
    /\ outClosed => \A p \in Streams : Sent(p) = length[p]
    /\ \A p \in Streams :
        /\ task[p] # "fail"
        /\ task[p] = "returned" => Sent(p) = length[p]
        /\ closed[p] /\ task[p] # "returned" =>
               received[p] = length[p] \/ \E r \in input[p] \cup hand[p] : r.err

OutcomeInv == cancelled \/ ErrorOut \/ NoErrorYet

StreamInv == TypeOK /\ SpawnInv /\ RevisionInv /\ PlaceInv /\ ChainInv
-----------------------------------------------------------------------------
(* Slots.                                                                  *)

LEMMA SlotElement ==
    ASSUME NEW slot \in Slots, NEW r \in slot
    PROVE  r \in Responses /\ slot = {r}
BY DEF Slots

LEMMA OfElement ==
    ASSUME NEW p, NEW r PROVE Of({r}, p) = IF r.of = p THEN 1 ELSE 0
BY DEF Of

LEMMA OfEmpty == ASSUME NEW p PROVE Of({}, p) = 0
BY DEF Of

LEMMA OfRange == ASSUME NEW slot, NEW p PROVE Of(slot, p) \in 0..1
BY DEF Of

LEMMA FailureType == Failure \in Responses /\ {Failure} \in Slots /\ {} \in Slots
<1>1. 0 \in 0..StreamCount /\ 0 \in 0..MaxLength
  BY StreamAssumption
<1>2. Failure \in Responses
  BY <1>1 DEF Failure, Responses
<1> QED BY <1>2 DEF Slots

-----------------------------------------------------------------------------
(* Types, and what the spawner has not reached.                            *)

LEMMA InitTypes == Init => TypeOK /\ SpawnInv
<1> SUFFICES ASSUME Init PROVE TypeOK /\ SpawnInv
  OBVIOUS
<1>1. /\ 0 \in 0..MaxLength /\ 1 \in 1..StreamCount + 1
      /\ MaxConcurrent \in 0..MaxConcurrent
      /\ 1 \in 1..MaxRevision /\ 0 \in 0..MaxRevision
  BY StreamAssumption, RequestAssumption
<1>2. <<>> \in Seq(0..MaxLength)
  OBVIOUS
<1>3. PumpTypeOK
  BY <1>1, <1>2, FailureType DEF Init, PumpInit, PumpTypeOK
<1>4. TypeOK
  BY <1>1, <1>3, FailureType DEF Init, TypeOK
<1>5. SpawnInv
  BY DEF Init, SpawnInv
<1> QED BY <1>4, <1>5

\* A pump keeps its types: it receives no more responses than there are.
LEMMA PumpTypes ==
    ASSUME PumpTypeOK, NEW p \in Streams, Pump(p), UNCHANGED <<length, ctx, callerVars>>
    PROVE  PumpTypeOK'
<1>1. CASE Receive(p)
  <2>0. /\ received[p] \in 0..MaxLength /\ length[p] \in 0..MaxLength
        /\ received[p] < length[p]
    BY <1>1 DEF Receive, PumpTypeOK
  <2>1. received[p] + 1 \in 0..MaxLength /\ received[p] + 1 \in Nat
    BY <2>0, StreamAssumption
  <2>2. ASSUME NEW e \in BOOLEAN
        PROVE  [of |-> p, n |-> received[p] + 1, err |-> e] \in Responses
    BY <2>1, StreamAssumption DEF Responses, Streams
  <2>3. PICK e \in BOOLEAN : holding' =
            [holding EXCEPT ![p] = {[of |-> p, n |-> received[p] + 1, err |-> e]}]
    BY <1>1 DEF Receive
  <2>4. {[of |-> p, n |-> received[p] + 1, err |-> e]} \in Slots
    BY <2>2 DEF Slots
  <2>5. holding' \in [Streams -> Slots]
    BY <2>3, <2>4 DEF PumpTypeOK
  <2> QED BY <1>1, <2>1, <2>5 DEF Receive, PumpTypeOK, callerVars
<1>2. CASE ReceiveEOF(p)
  BY <1>2 DEF ReceiveEOF, PumpTypeOK, callerVars
<1>3. CASE ReceiveError(p)
  BY <1>3, FailureType DEF ReceiveError, PumpTypeOK, callerVars
<1>4. CASE Forward(p)
  BY <1>4, FailureType DEF Forward, PumpTypeOK, callerVars
<1> QED BY <1>1, <1>2, <1>3, <1>4 DEF Pump, Serve

LEMMA TypeStep == TypeOK /\ SpawnInv /\ [Next]_vars => TypeOK'
<1> SUFFICES ASSUME TypeOK, SpawnInv, [Next]_vars PROVE TypeOK'
  OBVIOUS
<1>1. CASE ListFails
  BY <1>1, FailureType DEF ListFails, TypeOK, PumpTypeOK, pumpVars, callerVars, taskVars, storeVars
<1>2. CASE ListPartitions
  <2>1. store \in 0..MaxRevision
    BY RequestAssumption DEF TypeOK
  <2> QED BY <1>2, <2>1 DEF ListPartitions, TypeOK, PumpTypeOK, pumpVars, callerVars, taskVars, outVars
<1>3. CASE TakeToken
  <2>1. tokens' \in 0..MaxConcurrent
    BY <1>3, RequestAssumption DEF TakeToken, TypeOK
  <2> QED BY <1>3, <2>1 DEF TakeToken, TypeOK, PumpTypeOK, pumpVars, callerVars, taskVars, outVars, storeVars
<1>4. CASE StartTask
  <2>1. next' \in 1..StreamCount + 1
    BY <1>4, StreamAssumption DEF StartTask, SpawnInv, Streams
  <2>2. tokens' \in 0..MaxConcurrent
    BY <1>4, RequestAssumption DEF StartTask, SpawnInv
  <2> QED BY <1>4, <2>1, <2>2 DEF StartTask, TypeOK, PumpTypeOK, pumpVars, callerVars,
                                outVars, storeVars
<1>5. CASE SkipTask
  <2>1. next' \in 1..StreamCount + 1
    BY <1>5, StreamAssumption DEF SkipTask, Streams
  <2> QED BY <1>5, <2>1 DEF SkipTask, TypeOK, PumpTypeOK, pumpVars, callerVars, outVars, storeVars
<1>6. CASE CloseOutput
  BY <1>6 DEF CloseOutput, TypeOK, PumpTypeOK, pumpVars, callerVars, taskVars, storeVars
<1>7. ASSUME NEW p \in Streams, OpenStream(p) PROVE TypeOK'
  <2>1. ServedRevision(RequestRevision) \in Nat
    BY RequestAssumption DEF ServedRevision, RequestRevision, TypeOK
  <2>2. PumpTypeOK'
    <3>1. UNCHANGED <<length, ctx, got, gotError, ended>>
      BY <1>7 DEF OpenStream, callerVars
    <3>2. CASE Open(p)
      BY <3>1, <3>2 DEF Open, TypeOK, PumpTypeOK
    <3>3. CASE Refuse(p)
      BY <3>1, <3>3, FailureType DEF Refuse, TypeOK, PumpTypeOK
    <3> QED BY <1>7, <3>2, <3>3 DEF OpenStream
  <2> QED BY <1>7, <2>1, <2>2 DEF OpenStream, TypeOK, spawnVars, outVars
<1>8. ASSUME NEW p \in Streams, TakeResponse(p) PROVE TypeOK'
  BY <1>8, FailureType DEF TakeResponse, TypeOK, PumpTypeOK, callerVars, spawnVars, outVars, storeVars
<1>9. ASSUME NEW p \in Streams, InputEnds(p) PROVE TypeOK'
  BY <1>9 DEF InputEnds, TypeOK, PumpTypeOK, pumpVars, callerVars, spawnVars, outVars, storeVars
<1>10. ASSUME NEW p \in Streams, CheckContext(p) PROVE TypeOK'
  BY <1>10, FailureType DEF CheckContext, TypeOK, PumpTypeOK, pumpVars, callerVars, spawnVars, outVars,
               storeVars
<1>11. ASSUME NEW p \in Streams, SendResponse(p) PROVE TypeOK'
  BY <1>11, FailureType DEF SendResponse, TypeOK, PumpTypeOK, pumpVars, callerVars, spawnVars, storeVars
<1>12. ASSUME NEW p \in Streams, ReturnError(p) PROVE TypeOK'
  BY <1>12 DEF ReturnError, TypeOK, PumpTypeOK, pumpVars, callerVars, spawnVars, outVars,
               storeVars
<1>13. ASSUME NEW p \in Streams, PumpStep(p) PROVE TypeOK'
  <2>1. PumpTypeOK'
    BY <1>13, PumpTypes DEF PumpStep, TypeOK
  <2> QED BY <1>13, <2>1 DEF PumpStep, TypeOK, spawnVars, taskVars, outVars, storeVars
<1>14. CASE CallerReads
  <2>1. PICK r \in output : Read(r)
    BY <1>14 DEF CallerReads
  <2>2. r.n \in 0..MaxLength /\ r.err \in BOOLEAN
    BY <2>1, SlotElement DEF TypeOK, Responses
  <2>3. ASSUME NEW s \in Streams PROVE Append(got[s], r.n) \in Seq(0..MaxLength)
    <3>1. got[s] \in Seq(0..MaxLength)
      BY DEF TypeOK, PumpTypeOK
    <3> QED BY <2>2, <3>1
  <2>4. got' \in [Streams -> Seq(0..MaxLength)]
    BY <2>1, <2>3 DEF Read, TypeOK, PumpTypeOK
  <2>5. PumpTypeOK'
    BY <1>14, <2>1, <2>2, <2>4, FailureType DEF CallerReads, Read, TypeOK, PumpTypeOK, pumpVars
  <2> QED BY <1>14, <2>5, FailureType DEF CallerReads, TypeOK, spawnVars, taskVars, storeVars
<1>15. CASE CallerEnds
  BY <1>15 DEF CallerEnds, ReadEnd, TypeOK, PumpTypeOK, pumpVars, spawnVars, taskVars, outVars,
               storeVars
<1>16. CASE CtxDone
  BY <1>16 DEF CtxDone, TypeOK, PumpTypeOK, pumpVars, callerVars, spawnVars, taskVars, outVars,
               storeVars
<1>17. CASE Commit
  <2>1. store' \in 1..MaxRevision
    BY <1>17, RequestAssumption DEF Commit, TypeOK
  <2> QED BY <1>17, <2>1 DEF Commit, TypeOK, PumpTypeOK, pumpVars, callerVars, spawnVars, taskVars, outVars
<1>18. CASE UNCHANGED vars
  BY <1>18 DEF vars, TypeOK, PumpTypeOK, pumpVars, callerVars, spawnVars, taskVars, outVars,
               storeVars
<1> QED BY <1>1, <1>2, <1>3, <1>4, <1>5, <1>6, <1>7, <1>8, <1>9, <1>10, <1>11, <1>12, <1>13,
           <1>14, <1>15, <1>16, <1>17, <1>18 DEF Next, Spawn, Copy

LEMMA SpawnStep == TypeOK /\ SpawnInv /\ [Next]_vars => SpawnInv'
<1> SUFFICES ASSUME TypeOK, SpawnInv, [Next]_vars PROVE SpawnInv'
  OBVIOUS
<1> USE StreamAssumption, RequestAssumption DEF TypeOK, SpawnInv
<1>1. CASE ListFails
  BY <1>1 DEF ListFails, taskVars, Streams
<1>2. CASE ListPartitions
  BY <1>2 DEF ListPartitions, taskVars, outVars, Streams
<1>3. CASE TakeToken
  BY <1>3 DEF TakeToken, taskVars, outVars, Streams
<1>4. CASE StartTask
  BY <1>4 DEF StartTask, outVars, Streams
<1>5. CASE SkipTask
  BY <1>5 DEF SkipTask, outVars, Streams
<1>6. CASE CloseOutput
  BY <1>6 DEF CloseOutput, AllReturned, taskVars, Streams
<1>7. ASSUME NEW p \in Streams, OpenStream(p) PROVE SpawnInv'
  BY <1>7 DEF OpenStream, spawnVars, outVars, Streams
<1>8. ASSUME NEW p \in Streams, Copy(p) PROVE SpawnInv'
  BY <1>8 DEF Copy, TakeResponse, InputEnds, CheckContext, SendResponse, ReturnError,
              spawnVars, outVars, Streams
<1>9. ASSUME NEW p \in Streams, PumpStep(p) PROVE SpawnInv'
  BY <1>9 DEF PumpStep, spawnVars, taskVars, outVars
<1>10. CASE CallerReads \/ CallerEnds \/ CtxDone \/ Commit
  BY <1>10 DEF CallerReads, CallerEnds, CtxDone, Commit, spawnVars, taskVars, outVars
<1>11. CASE UNCHANGED vars
  BY <1>11 DEF vars, spawnVars, taskVars, outVars
<1> HIDE DEF TypeOK, SpawnInv
<1> QED BY <1>1, <1>2, <1>3, <1>4, <1>5, <1>6, <1>7, <1>8, <1>9, <1>10, <1>11
        DEF Next, Spawn

-----------------------------------------------------------------------------
(* Revisions, and where the responses are.                                 *)

LEMMA RevisionStep == TypeOK /\ SpawnInv /\ RevisionInv /\ [Next]_vars => RevisionInv'
<1> SUFFICES ASSUME TypeOK, SpawnInv, RevisionInv, [Next]_vars PROVE RevisionInv'
  OBVIOUS
<1>1. CASE ListFails
  BY <1>1 DEF ListFails, RevisionInv, RequestRevision, taskVars, storeVars
<1>2. CASE ListPartitions
  <2>1. header' # 0
    BY <1>2, RequestAssumption DEF ListPartitions, TypeOK
  <2>2. \A p \in Streams : task[p] = "none"
    BY <1>2 DEF ListPartitions, SpawnInv, Streams
  <2>3. \A p \in Streams : snapshot[p] = 0
    BY <2>2 DEF RevisionInv
  <2> QED BY <1>2, <2>1, <2>2, <2>3 DEF ListPartitions, RevisionInv, taskVars
<1>3. CASE TakeToken \/ CloseOutput
  BY <1>3 DEF TakeToken, CloseOutput, RevisionInv, RequestRevision, taskVars, storeVars
<1>4. CASE StartTask \/ SkipTask
  BY <1>4 DEF StartTask, SkipTask, TypeOK, RevisionInv, RequestRevision, storeVars
<1>5. ASSUME NEW p \in Streams, OpenStream(p) PROVE RevisionInv'
  <2>1. header # 0 /\ header' = header
    BY <1>5 DEF OpenStream, RevisionInv
  <2>2. ServedRevision(RequestRevision) = RequestRevision
    BY <2>1 DEF ServedRevision, RequestRevision
  <2> QED BY <1>5, <2>1, <2>2 DEF OpenStream, TypeOK, RevisionInv, RequestRevision, spawnVars
<1>6. ASSUME NEW p \in Streams, Copy(p) PROVE RevisionInv'
  BY <1>6 DEF Copy, TakeResponse, InputEnds, CheckContext, SendResponse, ReturnError,
              TypeOK, RevisionInv, RequestRevision, spawnVars, storeVars
<1>7. ASSUME NEW p \in Streams, PumpStep(p) PROVE RevisionInv'
  BY <1>7 DEF PumpStep, RevisionInv, RequestRevision, spawnVars, taskVars, storeVars
<1>8. CASE CallerReads \/ CallerEnds \/ CtxDone \/ Commit
  BY <1>8 DEF CallerReads, CallerEnds, CtxDone, Commit, RevisionInv, RequestRevision,
              spawnVars, taskVars, storeVars
<1>9. CASE UNCHANGED vars
  BY <1>9 DEF vars, RevisionInv, RequestRevision, spawnVars, taskVars, storeVars
<1> QED BY <1>1, <1>2, <1>3, <1>4, <1>5, <1>6, <1>7, <1>8, <1>9 DEF Next, Spawn

\* What a pump may hold after its step.
LEMMA PumpPlaces ==
    ASSUME TypeOK, PlaceInv, NEW p \in Streams, PumpStep(p)
    PROVE  PlaceInv'
<1>1. UNCHANGED <<task, hand, output>>
  BY DEF PumpStep, taskVars, outVars
<1>2. CASE Receive(p)
  <2>1. PICK e \in BOOLEAN : holding' =
            [holding EXCEPT ![p] = {[of |-> p, n |-> received[p] + 1, err |-> e]}]
    BY <1>2 DEF Receive
  <2> DEFINE r == [of |-> p, n |-> received[p] + 1, err |-> e]
  <2>2. r.of = p
    OBVIOUS
  <2> HIDE DEF r
  <2>3. holding' = [holding EXCEPT ![p] = {r}]
    BY <2>1 DEF r
  <2>4. /\ pump[p] = "receive" /\ pump' = [pump EXCEPT ![p] = "send"]
        /\ received' = [received EXCEPT ![p] = received[p] + 1]
        /\ UNCHANGED <<input, closed>>
    BY <1>2 DEF Receive
  <2>5. /\ pump'[p] = "send" /\ holding'[p] = {r}
        /\ \A q \in Streams \ {p} : /\ pump'[q] = pump[q] /\ holding'[q] = holding[q]
                                     /\ received'[q] = received[q]
    BY <2>3, <2>4 DEF TypeOK, PumpTypeOK
  <2>6. \A q \in Streams : \A x \in hand'[q] \cup input'[q] \cup holding'[q] :
            x = Failure \/ x.of = q
    <3> SUFFICES ASSUME NEW q \in Streams, NEW x \in hand'[q] \cup input'[q] \cup holding'[q]
                 PROVE  x = Failure \/ x.of = q
      OBVIOUS
    <3>1. CASE x \in hand[q] \cup input[q] \cup holding[q]
      BY <3>1 DEF PlaceInv
    <3>2. CASE x \notin hand[q] \cup input[q] \cup holding[q]
      <4>1. x \in holding'[q] /\ x \notin holding[q]
        BY <1>1, <2>4, <3>2
      <4>2. q = p /\ x = r
        BY <2>5, <4>1
      <4> QED BY <2>2, <4>2
    <3> QED BY <3>1, <3>2
  <2> QED BY <1>1, <2>4, <2>5, <2>6 DEF PlaceInv
<1>3. CASE ReceiveEOF(p)
  BY <1>1, <1>3 DEF ReceiveEOF, TypeOK, PumpTypeOK, PlaceInv
<1>4. CASE ReceiveError(p)
  BY <1>1, <1>4 DEF ReceiveError, TypeOK, PumpTypeOK, PlaceInv
<1>5. CASE Forward(p)
  BY <1>1, <1>5 DEF Forward, TypeOK, PumpTypeOK, PlaceInv
<1> QED BY <1>2, <1>3, <1>4, <1>5 DEF PumpStep, Pump, Serve

LEMMA PlaceStep == TypeOK /\ SpawnInv /\ PlaceInv /\ [Next]_vars => PlaceInv'
<1> SUFFICES ASSUME TypeOK, SpawnInv, PlaceInv, [Next]_vars PROVE PlaceInv'
  OBVIOUS
<1>1. CASE ListFails
  BY <1>1 DEF ListFails, PlaceInv, pumpVars, taskVars
<1>2. CASE ListPartitions \/ TakeToken \/ CloseOutput
  BY <1>2 DEF ListPartitions, TakeToken, CloseOutput, PlaceInv, pumpVars, taskVars, outVars
<1>3. CASE StartTask
  <2>1. next \in Streams /\ task[next] = "none"
    BY <1>3 DEF StartTask, SpawnInv, Streams
  <2> QED BY <1>3, <2>1 DEF StartTask, TypeOK, PlaceInv, pumpVars, outVars
<1>4. CASE SkipTask
  <2>1. next \in Streams /\ task[next] = "none"
    BY <1>4 DEF SkipTask, SpawnInv, Streams
  <2> QED BY <1>4, <2>1 DEF SkipTask, TypeOK, PlaceInv, pumpVars, outVars
<1>5. ASSUME NEW p \in Streams, OpenStream(p) PROVE PlaceInv'
  <2>1. /\ task' = [task EXCEPT ![p] = "receive"] /\ task[p] = "open"
        /\ hand' = hand /\ output' = output
    BY <1>5 DEF OpenStream, outVars
  <2>2. CASE Open(p)
    BY <2>1, <2>2 DEF Open, TypeOK, PumpTypeOK, PlaceInv
  <2>3. CASE Refuse(p)
    BY <2>1, <2>3 DEF Refuse, TypeOK, PumpTypeOK, PlaceInv
  <2> QED BY <1>5, <2>2, <2>3 DEF OpenStream
<1>6. ASSUME NEW p \in Streams, TakeResponse(p) PROVE PlaceInv'
  BY <1>6 DEF TakeResponse, TypeOK, PumpTypeOK, PlaceInv, outVars
<1>7. ASSUME NEW p \in Streams, InputEnds(p) PROVE PlaceInv'
  BY <1>7 DEF InputEnds, TypeOK, PlaceInv, pumpVars, outVars
<1>8. ASSUME NEW p \in Streams, CheckContext(p) PROVE PlaceInv'
  <2>1. /\ task[p] = "check"
        /\ \/ /\ task' = [task EXCEPT ![p] = "returned"]
              /\ hand' = [hand EXCEPT ![p] = {}]
           \/ task' = [task EXCEPT ![p] = "send"] /\ hand' = hand
        /\ UNCHANGED <<pump, received, holding, input, closed, output>>
    BY <1>8 DEF CheckContext, pumpVars, outVars
  <2>2. CASE task' = [task EXCEPT ![p] = "returned"] /\ hand' = [hand EXCEPT ![p] = {}]
    BY <2>1, <2>2 DEF TypeOK, PlaceInv
  <2>3. CASE task' = [task EXCEPT ![p] = "send"] /\ hand' = hand
    BY <2>1, <2>3 DEF TypeOK, PlaceInv
  <2> QED BY <2>1, <2>2, <2>3
<1>9. ASSUME NEW p \in Streams, SendResponse(p) PROVE PlaceInv'
  <2>1. \A r \in output' : r.of = 0 => r = Failure
    <3>1. p # 0
      BY StreamAssumption DEF Streams
    <3> QED BY <1>9, <3>1 DEF SendResponse, PlaceInv
  <2> QED BY <1>9, <2>1 DEF SendResponse, TypeOK, PlaceInv, pumpVars
<1>10. ASSUME NEW p \in Streams, ReturnError(p) PROVE PlaceInv'
  BY <1>10 DEF ReturnError, TypeOK, PlaceInv, pumpVars, outVars
<1>11. ASSUME NEW p \in Streams, PumpStep(p) PROVE PlaceInv'
  BY <1>11, PumpPlaces
<1>12. CASE CallerReads
  BY <1>12 DEF CallerReads, PlaceInv, pumpVars, taskVars
<1>13. CASE CallerEnds \/ CtxDone \/ Commit
  BY <1>13 DEF CallerEnds, CtxDone, Commit, PlaceInv, pumpVars, taskVars, outVars
<1>14. CASE UNCHANGED vars
  BY <1>14 DEF vars, PlaceInv, pumpVars, taskVars, outVars
<1> QED BY <1>1, <1>2, <1>3, <1>4, <1>5, <1>6, <1>7, <1>8, <1>9, <1>10, <1>11, <1>12, <1>13,
           <1>14 DEF Next, Spawn, Copy

-----------------------------------------------------------------------------
(* One response moves one place.                                           *)

LEMMA NumbersAppend ==
    ASSUME NEW g \in Seq(Nat), g = [i \in 1..Len(g) |-> i]
    PROVE  Append(g, Len(g) + 1) = [i \in 1..Len(Append(g, Len(g) + 1)) |-> i]
<1> DEFINE h == Append(g, Len(g) + 1)
<1>1. /\ h \in Seq(Nat) /\ Len(h) = Len(g) + 1
      /\ \A i \in 1..Len(h) : h[i] = IF i <= Len(g) THEN g[i] ELSE Len(g) + 1
  OBVIOUS
<1>2. \A i \in 1..Len(h) : h[i] = i
  BY <1>1
<1>3. h = [i \in 1..Len(h) |-> h[i]]
  BY <1>1
<1> QED BY <1>2, <1>3

LEMMA MoveBack ==
    ASSUME NEW g, NEW out, NEW h, NEW in, NEW w, NEW n, NEW len, NEW p,
           Chain(g, out, h, in, w, n, len, 0, p)
    PROVE  Chain(g, out, h, in, w, n, len, 1, p)
BY DEF Chain

LEMMA MoveDrop ==
    ASSUME NEW g \in Seq(Nat), NEW out, NEW h, NEW in, NEW w, NEW n \in Nat, NEW len, NEW p,
           Chain(g, out, h, in, w, n, len, 0, p)
    PROVE  Chain(g, out, {}, in, w, n, len, 1, p)
BY OfRange, OfEmpty DEF Chain

LEMMA MoveTake ==
    ASSUME NEW g \in Seq(Nat), NEW out, NEW in, NEW w, NEW n \in Nat, NEW len, NEW p,
           Chain(g, out, {}, in, w, n, len, 0, p)
    PROVE  Chain(g, out, in, {}, w, n, len, 0, p)
BY OfRange, OfEmpty DEF Chain

LEMMA MoveSend ==
    ASSUME NEW g \in Seq(Nat), NEW h, NEW in, NEW w, NEW n \in Nat, NEW len,
           NEW back \in 0..1, NEW p,
           Chain(g, {}, h, in, w, n, len, back, p)
    PROVE  Chain(g, h, {}, in, w, n, len, back, p)
BY OfRange, OfEmpty DEF Chain

LEMMA MoveOther ==
    ASSUME NEW g \in Seq(Nat), NEW out, NEW out2, NEW h, NEW in, NEW w, NEW n \in Nat, NEW len,
           NEW back \in 0..1, NEW p,
           \A r \in out \cup out2 : r.of # p,
           Chain(g, out, h, in, w, n, len, back, p)
    PROVE  Chain(g, out2, h, in, w, n, len, back, p)
<1>1. Of(out, p) = 0 /\ Of(out2, p) = 0
  BY DEF Of
<1> QED BY <1>1 DEF Chain

LEMMA MoveRead ==
    ASSUME NEW g \in Seq(Nat), NEW r, NEW h, NEW in, NEW w, NEW n \in Nat, NEW len,
           NEW back \in 0..1, NEW p, r.of = p,
           Chain(g, {r}, h, in, w, n, len, back, p)
    PROVE  Chain(Append(g, r.n), {}, h, in, w, n, len, back, p)
<1>1. Of({r}, p) = 1 /\ Of({}, p) = 0
  BY DEF Of
<1>2. r.n = Len(g) + 1 /\ g = [i \in 1..Len(g) |-> i]
  BY DEF Chain
<1>3. Append(g, r.n) = [i \in 1..Len(Append(g, r.n)) |-> i]
  BY <1>2, NumbersAppend
<1>4. Len(Append(g, r.n)) = Len(g) + 1
  BY <1>2
<1> DEFINE a == Append(g, r.n)
<1>5. a = [i \in 1..Len(a) |-> i]
  BY <1>3
<1>6. Len(a) = Len(g) + 1
  BY <1>4
<1> HIDE DEF a
<1>7. Len(a) + Of({}, p) = Len(g) + Of({r}, p)
  BY <1>1, <1>6
<1>8. Chain(a, {}, h, in, w, n, len, back, p)
  BY <1>5, <1>7 DEF Chain
<1> QED BY <1>8 DEF a

LEMMA MoveReceive ==
    ASSUME NEW g \in Seq(Nat), NEW out, NEW h, NEW in, NEW r, NEW n \in Nat, NEW len \in Nat,
           NEW back \in 0..1, NEW p, r.of = p, r.n = n + 1, n < len,
           Chain(g, out, h, in, {}, n, len, back, p)
    PROVE  Chain(g, out, h, in, {r}, n + 1, len, back, p)
<1>1. Of({r}, p) = 1 /\ Of({}, p) = 0
  BY DEF Of
<1> QED BY <1>1, OfRange DEF Chain

LEMMA MoveError ==
    ASSUME NEW g \in Seq(Nat), NEW out, NEW h, NEW in, NEW n \in Nat, NEW len,
           NEW back \in 0..1, NEW p \in Streams,
           Chain(g, out, h, in, {}, n, len, back, p)
    PROVE  Chain(g, out, h, in, {Failure}, n, len, back, p)
<1>1. Failure.of # p
  BY StreamAssumption DEF Failure, Streams
<1>2. Of({Failure}, p) = 0 /\ Of({}, p) = 0
  BY <1>1 DEF Of
<1> QED BY <1>1, <1>2, OfRange DEF Chain

LEMMA MoveRefuse ==
    ASSUME NEW g \in Seq(Nat), NEW out, NEW h, NEW w, NEW n \in Nat, NEW len,
           NEW back \in 0..1, NEW p \in Streams,
           Chain(g, out, h, {}, w, n, len, back, p)
    PROVE  Chain(g, out, h, {Failure}, w, n, len, back, p)
<1>1. Failure.of # p
  BY StreamAssumption DEF Failure, Streams
<1>2. Of({Failure}, p) = 0 /\ Of({}, p) = 0
  BY <1>1 DEF Of
<1> QED BY <1>1, <1>2, OfRange DEF Chain

LEMMA MoveForward ==
    ASSUME NEW g \in Seq(Nat), NEW out, NEW h, NEW w, NEW n \in Nat, NEW len,
           NEW back \in 0..1, NEW p,
           Chain(g, out, h, {}, w, n, len, back, p)
    PROVE  Chain(g, out, h, w, {}, n, len, back, p)
BY OfRange, OfEmpty DEF Chain

-----------------------------------------------------------------------------
(* Order.                                                                  *)

LEMMA InitChain == Init => RevisionInv /\ PlaceInv /\ ChainInv
<1> SUFFICES ASSUME Init PROVE RevisionInv /\ PlaceInv /\ ChainInv
  OBVIOUS
<1>1. RevisionInv
  BY DEF Init, RevisionInv
<1>2. PlaceInv
  BY DEF Init, PumpInit, PlaceInv
<1>3. ASSUME NEW p \in Streams
      PROVE  Chain(got[p], output, hand[p], input[p], holding[p], received[p],
                   length[p], Back(task[p]), p)
  <2>1. /\ got[p] = <<>> /\ output = {} /\ hand[p] = {} /\ input[p] = {} /\ holding[p] = {}
        /\ received[p] = 0
    BY <1>3 DEF Init, PumpInit
  <2>2. length[p] \in 0..MaxLength
    BY <1>3 DEF Init, PumpInit
  <2>3. Len(<<>>) = 0 /\ <<>> = [i \in 1..0 |-> i]
    OBVIOUS
  <2> QED BY <2>1, <2>2, <2>3, OfEmpty, StreamAssumption DEF Chain
<1> QED BY <1>1, <1>2, <1>3 DEF ChainInv

LEMMA ChainStep ==
    TypeOK /\ SpawnInv /\ PlaceInv /\ ChainInv /\ [Next]_vars => ChainInv'
<1> SUFFICES ASSUME TypeOK, SpawnInv, PlaceInv, ChainInv, [Next]_vars, NEW q \in Streams
             PROVE  Chain(got'[q], output', hand'[q], input'[q], holding'[q], received'[q],
                          length'[q], Back(task'[q]), q)
  BY DEF ChainInv, Back
<1> DEFINE Goal == Chain(got'[q], output', hand'[q], input'[q], holding'[q], received'[q],
                         length'[q], Back(task'[q]), q)
           back == Back(task[q])
<1>1. /\ got[q] \in Seq(Nat) /\ received[q] \in Nat /\ length[q] \in Nat
      /\ back \in 0..1
  <2>1. /\ got[q] \in Seq(0..MaxLength)
        /\ received[q] \in 0..MaxLength /\ length[q] \in 0..MaxLength
    BY DEF TypeOK, PumpTypeOK
  <2>2. 0..MaxLength \subseteq Nat
    OBVIOUS
  <2>3. got[q] \in Seq(Nat)
    BY <2>1, <2>2, SeqMonotonic
  <2> QED BY <2>1, <2>2, <2>3 DEF Back
<1>2. Chain(got[q], output, hand[q], input[q], holding[q], received[q], length[q], back, q)
  BY DEF ChainInv
<1>3. ASSUME UNCHANGED <<got, output, hand, input, holding, received, length>>,
             back = 1 => Back(task'[q]) = 1
      PROVE  Goal
  <2>1. Back(task'[q]) \in 0..1
    BY DEF Back
  <2>2. CASE Back(task'[q]) = back
    BY <1>2, <1>3, <2>2
  <2>3. CASE back = 0 /\ Back(task'[q]) = 1
    <3>1. Chain(got[q], output, hand[q], input[q], holding[q], received[q], length[q], 0, q)
      BY <1>2, <2>3
    <3>2. Chain(got[q], output, hand[q], input[q], holding[q], received[q], length[q], 1, q)
      BY <3>1, MoveBack
    <3> QED BY <1>3, <2>3, <3>2
  <2> QED BY <1>1, <1>3, <2>1, <2>2, <2>3
<1>4. CASE ListFails
  <2>1. /\ output = {} /\ output' = {Failure}
        /\ UNCHANGED <<got, hand, input, holding, received, length, task>>
    BY <1>4 DEF ListFails, SpawnInv, pumpVars, callerVars, taskVars
  <2>2. \A r \in output \cup output' : r.of # q
    BY <2>1, StreamAssumption DEF Failure, Streams
  <2> QED BY <1>1, <1>2, <2>1, <2>2, MoveOther
<1>5. CASE ListPartitions \/ TakeToken \/ CloseOutput
  <2>1. UNCHANGED <<got, output, hand, input, holding, received, length, task>>
    BY <1>5 DEF ListPartitions, TakeToken, CloseOutput, pumpVars, callerVars, taskVars, outVars
  <2> QED BY <1>3, <2>1
<1>6. CASE StartTask
  <2>1. next \in Streams /\ task[next] = "none"
    BY <1>6 DEF StartTask, SpawnInv, Streams
  <2>2. back = 1 => Back(task'[q]) = 1
    BY <1>6, <2>1 DEF StartTask, TypeOK, Back
  <2> QED BY <1>3, <1>6, <2>2 DEF StartTask, pumpVars, callerVars, outVars
<1>7. CASE SkipTask
  <2>1. back = 1 => Back(task'[q]) = 1
    BY <1>7 DEF SkipTask, TypeOK, Back
  <2> QED BY <1>3, <1>7, <2>1 DEF SkipTask, pumpVars, callerVars, outVars
<1>8. ASSUME NEW p \in Streams, OpenStream(p) PROVE Goal
  <2>1. /\ task[p] = "open" /\ task' = [task EXCEPT ![p] = "receive"]
        /\ UNCHANGED <<got, output, hand, length>>
    BY <1>8 DEF OpenStream, callerVars, outVars
  <2>2. Back(task'[q]) = back
    BY <2>1 DEF TypeOK, Back
  <2>3. CASE Open(p)
    BY <1>3, <2>1, <2>2, <2>3 DEF Open
  <2>4. CASE Refuse(p) /\ q = p
    <3>1. /\ input[q] = {} /\ input'[q] = {Failure}
          /\ UNCHANGED <<holding, received>>
      BY <2>4 DEF Refuse, PlaceInv, TypeOK, PumpTypeOK
    <3>2. Chain(got[q], output, hand[q], {}, holding[q], received[q], length[q], back, q)
      BY <1>2, <3>1
    <3>3. Chain(got[q], output, hand[q], {Failure}, holding[q], received[q], length[q], back, q)
      BY <1>1, <3>2, MoveRefuse
    <3> QED BY <2>1, <2>2, <3>1, <3>3
  <2>5. CASE Refuse(p) /\ q # p
    <3>1. input'[q] = input[q] /\ UNCHANGED <<holding, received>>
      BY <2>5 DEF Refuse, TypeOK, PumpTypeOK
    <3> QED BY <1>2, <2>1, <2>2, <3>1
  <2> QED BY <1>8, <2>3, <2>4, <2>5 DEF OpenStream
<1>9. ASSUME NEW p \in Streams, TakeResponse(p) PROVE Goal
  <2>1. /\ task[p] = "receive" /\ task' = [task EXCEPT ![p] = "check"]
        /\ hand' = [hand EXCEPT ![p] = input[p]]
        /\ input' = [input EXCEPT ![p] = {}]
        /\ UNCHANGED <<got, output, holding, received, length>>
    BY <1>9 DEF TakeResponse, callerVars, outVars
  <2>2. Back(task'[q]) = back
    BY <2>1 DEF TypeOK, Back
  <2>3. CASE q = p
    <3>1. hand[q] = {} /\ hand'[q] = input[q] /\ input'[q] = {} /\ back = 0
      BY <2>1, <2>3 DEF PlaceInv, TypeOK, PumpTypeOK, Back
    <3>2. Chain(got[q], output, {}, input[q], holding[q], received[q], length[q], 0, q)
      BY <1>2, <3>1
    <3>3. Chain(got[q], output, input[q], {}, holding[q], received[q], length[q], 0, q)
      BY <1>1, <3>2, MoveTake
    <3> QED BY <2>1, <2>2, <3>1, <3>3
  <2>4. CASE q # p
    <3>1. hand'[q] = hand[q] /\ input'[q] = input[q]
      BY <2>1, <2>4 DEF TypeOK, PumpTypeOK
    <3> QED BY <1>2, <2>1, <2>2, <3>1
  <2> QED BY <2>3, <2>4
<1>10. ASSUME NEW p \in Streams, InputEnds(p) PROVE Goal
  <2>1. back = 1 => Back(task'[q]) = 1
    BY <1>10 DEF InputEnds, TypeOK, Back
  <2> QED BY <1>3, <1>10, <2>1 DEF InputEnds, pumpVars, callerVars, outVars
<1>11. ASSUME NEW p \in Streams, CheckContext(p) PROVE Goal
  <2>1. /\ task[p] = "check"
        /\ UNCHANGED <<got, output, input, holding, received, length>>
        /\ \/ /\ task' = [task EXCEPT ![p] = "returned"]
              /\ hand' = [hand EXCEPT ![p] = {}]
           \/ task' = [task EXCEPT ![p] = "send"] /\ hand' = hand
    BY <1>11 DEF CheckContext, pumpVars, callerVars, outVars
  <2>2. CASE hand' = hand
    <3>1. back = 1 => Back(task'[q]) = 1
      BY <2>1 DEF TypeOK, Back
    <3> QED BY <1>3, <2>1, <2>2, <3>1
  <2>3. CASE hand' # hand /\ q = p
    <3>1. back = 0 /\ Back(task'[q]) = 1 /\ hand'[q] = {}
      BY <2>1, <2>3 DEF TypeOK, Back
    <3>2. Chain(got[q], output, hand[q], input[q], holding[q], received[q], length[q], 0, q)
      BY <1>2, <3>1
    <3>3. Chain(got[q], output, {}, input[q], holding[q], received[q], length[q], 1, q)
      BY <1>1, <3>2, MoveDrop
    <3> QED BY <2>1, <3>1, <3>3
  <2>4. CASE hand' # hand /\ q # p
    <3>1. hand'[q] = hand[q] /\ task'[q] = task[q]
      BY <2>1, <2>4 DEF TypeOK
    <3> QED BY <1>2, <2>1, <3>1
  <2> QED BY <2>2, <2>3, <2>4
<1>12. ASSUME NEW p \in Streams, SendResponse(p) PROVE Goal
  <2>1. /\ task[p] = "send" /\ task'[p] # "returned"
        /\ output = {} /\ output' = hand[p]
        /\ hand' = [hand EXCEPT ![p] = {}]
        /\ \A x \in Streams \ {p} : task'[x] = task[x]
        /\ UNCHANGED <<got, input, holding, received, length>>
    BY <1>12 DEF SendResponse, TypeOK, pumpVars, callerVars
  <2>2. CASE q = p
    <3>1. hand'[q] = {} /\ Back(task'[q]) = back
      BY <2>1, <2>2 DEF TypeOK, Back
    <3>2. Chain(got[q], {}, hand[q], input[q], holding[q], received[q], length[q], back, q)
      BY <1>2, <2>1
    <3>3. Chain(got[q], hand[q], {}, input[q], holding[q], received[q], length[q], back, q)
      BY <1>1, <3>2, MoveSend
    <3> QED BY <2>1, <2>2, <3>1, <3>3
  <2>3. CASE q # p
    <3>1. hand'[q] = hand[q] /\ task'[q] = task[q]
      BY <2>1, <2>3 DEF TypeOK
    <3>2. Failure.of # q
      BY StreamAssumption DEF Failure, Streams
    <3>3. \A r \in output \cup output' : r.of # q
      BY <2>1, <2>3, <3>2 DEF PlaceInv
    <3> QED BY <1>1, <1>2, <2>1, <3>1, <3>3, MoveOther
  <2> QED BY <2>2, <2>3
<1>13. ASSUME NEW p \in Streams, ReturnError(p) PROVE Goal
  <2>1. back = 1 => Back(task'[q]) = 1
    BY <1>13 DEF ReturnError, TypeOK, Back
  <2> QED BY <1>3, <1>13, <2>1 DEF ReturnError, pumpVars, callerVars, outVars
<1>14. ASSUME NEW p \in Streams, PumpStep(p) PROVE Goal
  <2>1. UNCHANGED <<got, output, hand, length, task>>
    BY <1>14 DEF PumpStep, callerVars, taskVars, outVars
  <2>2. CASE q # p
    <3>1. /\ input'[q] = input[q] /\ holding'[q] = holding[q] /\ received'[q] = received[q]
      BY <1>14, <2>2 DEF PumpStep, Pump, Serve, Receive, ReceiveEOF, ReceiveError, Forward,
                         TypeOK, PumpTypeOK
    <3> QED BY <1>2, <2>1, <3>1
  <2>3. CASE q = p /\ Receive(p)
    <3>1. PICK e \in BOOLEAN : holding' =
              [holding EXCEPT ![p] = {[of |-> p, n |-> received[p] + 1, err |-> e]}]
      BY <2>3 DEF Receive
    <3> DEFINE r == [of |-> p, n |-> received[p] + 1, err |-> e]
    <3>2. r.of = q /\ r.n = received[q] + 1
      BY <2>3
    <3> HIDE DEF r
    <3>3. /\ holding[q] = {} /\ holding'[q] = {r} /\ received'[q] = received[q] + 1
          /\ received[q] < length[q] /\ input' = input
      BY <2>3, <3>1 DEF Receive, PlaceInv, TypeOK, PumpTypeOK, r
    <3>4. Chain(got[q], output, hand[q], input[q], {}, received[q], length[q], back, q)
      BY <1>2, <3>3
    <3>5. Chain(got[q], output, hand[q], input[q], {r}, received[q] + 1, length[q], back, q)
      BY <1>1, <3>2, <3>3, <3>4, MoveReceive
    <3> QED BY <2>1, <3>3, <3>5
  <2>4. CASE q = p /\ ReceiveEOF(p)
    BY <1>2, <2>1, <2>4 DEF ReceiveEOF
  <2>5. CASE q = p /\ ReceiveError(p)
    <3>1. /\ holding[q] = {} /\ holding'[q] = {Failure}
          /\ UNCHANGED <<received, input>>
      BY <2>5 DEF ReceiveError, PlaceInv, TypeOK, PumpTypeOK
    <3>2. Chain(got[q], output, hand[q], input[q], {}, received[q], length[q], back, q)
      BY <1>2, <3>1
    <3>3. Chain(got[q], output, hand[q], input[q], {Failure}, received[q], length[q], back, q)
      BY <1>1, <3>2, MoveError
    <3> QED BY <2>1, <3>1, <3>3
  <2>6. CASE q = p /\ Forward(p)
    <3>1. /\ input[q] = {} /\ input'[q] = holding[q] /\ holding'[q] = {}
          /\ received' = received
      BY <2>6 DEF Forward, TypeOK, PumpTypeOK
    <3> QED BY <1>1, <1>2, <2>1, <3>1, MoveForward
  <2> QED BY <1>14, <2>2, <2>3, <2>4, <2>5, <2>6 DEF PumpStep, Pump, Serve
<1>15. CASE CallerReads
  <2>1. PICK r \in output : Read(r)
    BY <1>15 DEF CallerReads
  <2>2. /\ output = {r} /\ output' = {}
        /\ UNCHANGED <<hand, input, holding, received, length, task>>
    BY <1>15, <2>1, SlotElement DEF CallerReads, TypeOK, pumpVars, taskVars
  <2>3. CASE r.of = q
    <3>1. got'[q] = Append(got[q], r.n)
      BY <2>1, <2>3 DEF Read
    <3>2. Chain(got[q], {r}, hand[q], input[q], holding[q], received[q], length[q], back, q)
      BY <1>2, <2>2
    <3>3. Chain(Append(got[q], r.n), {}, hand[q], input[q], holding[q], received[q], length[q],
                back, q)
      BY <1>1, <2>3, <3>2, MoveRead
    <3> QED BY <2>2, <3>1, <3>3
  <2>4. CASE r.of # q
    <3>1. got'[q] = got[q] /\ \A x \in output \cup output' : x.of # q
      BY <2>1, <2>2, <2>4 DEF Read
    <3> QED BY <1>1, <1>2, <2>2, <3>1, MoveOther
  <2> QED BY <2>3, <2>4
<1>16. CASE CallerEnds \/ CtxDone \/ Commit
  <2>1. UNCHANGED <<got, output, hand, input, holding, received, length, task>>
    BY <1>16 DEF CallerEnds, ReadEnd, CtxDone, Commit, pumpVars, callerVars, taskVars, outVars
  <2> QED BY <1>3, <2>1
<1>17. CASE UNCHANGED vars
  <2>1. UNCHANGED <<got, output, hand, input, holding, received, length, task>>
    BY <1>17 DEF vars, pumpVars, callerVars, taskVars, outVars
  <2> QED BY <1>3, <2>1
<1>18. ASSUME NEW p \in Streams, Copy(p) PROVE Goal
  BY <1>9, <1>10, <1>11, <1>12, <1>13, <1>18 DEF Copy
<1>19. CASE Spawn
  BY <1>5, <1>6, <1>7, <1>19 DEF Spawn
<1> QED
  BY <1>4, <1>8, <1>14, <1>15, <1>16, <1>17, <1>18, <1>19 DEF Next

-----------------------------------------------------------------------------
(* Complete or error.                                                      *)

\* Once an error has been sent to the caller, it stays sent.
LEMMA ErrorStays == TypeOK /\ SpawnInv /\ [Next]_vars /\ ErrorOut => ErrorOut'
<1> SUFFICES ASSUME TypeOK, SpawnInv, [Next]_vars, ErrorOut PROVE ErrorOut'
  OBVIOUS
<1>1. ASSUME output' = output, gotError' = gotError PROVE ErrorOut'
  BY <1>1 DEF ErrorOut
<1>2. CASE ListFails
  BY <1>2 DEF ListFails, ErrorOut, Failure
<1>3. CASE Spawn
  BY <1>1, <1>3 DEF Spawn, ListPartitions, TakeToken, StartTask, SkipTask, CloseOutput,
                    callerVars, outVars
<1>4. ASSUME NEW p \in Streams, OpenStream(p) \/ PumpStep(p) PROVE ErrorOut'
  BY <1>1, <1>4 DEF OpenStream, PumpStep, callerVars, outVars
<1>5. ASSUME NEW p \in Streams, SendResponse(p) PROVE ErrorOut'
  BY <1>5 DEF SendResponse, ErrorOut, callerVars
<1>6. ASSUME NEW p \in Streams,
             TakeResponse(p) \/ InputEnds(p) \/ CheckContext(p) \/ ReturnError(p)
      PROVE  ErrorOut'
  BY <1>1, <1>6 DEF TakeResponse, InputEnds, CheckContext, ReturnError, callerVars, outVars
<1>7. CASE CallerReads
  <2>1. PICK r \in output : Read(r)
    BY <1>7 DEF CallerReads
  <2>2. output = {r} /\ r.err \in BOOLEAN
    BY SlotElement DEF TypeOK, Responses
  <2>3. gotError' = (gotError \/ r.err)
    BY <2>1 DEF Read
  <2> QED BY <2>2, <2>3 DEF ErrorOut
<1>8. CASE CallerEnds \/ CtxDone \/ Commit
  BY <1>1, <1>8 DEF CallerEnds, ReadEnd, CtxDone, Commit, callerVars, outVars
<1>9. CASE UNCHANGED vars
  BY <1>1, <1>9 DEF vars, callerVars, outVars
<1> QED BY <1>2, <1>3, <1>4, <1>5, <1>6, <1>7, <1>8, <1>9 DEF Next, Copy

\* A callback whose channel ends without an error has sent everything.
LEMMA EndIsComplete ==
    ASSUME TypeOK, PlaceInv, ChainInv, NoErrorYet, NEW p \in Streams, InputEnds(p)
    PROVE  Sent(p) = length[p]
<1>1. /\ input[p] = {} /\ hand[p] = {} /\ holding[p] = {} /\ Back(task[p]) = 0
      /\ received[p] = length[p]
  BY DEF InputEnds, PlaceInv, NoErrorYet, Back
<1>2. received[p] = Len(got[p]) + Of(output, p) + Of({}, p) + Of({}, p) + Of({}, p)
  BY <1>1 DEF ChainInv, Chain
<1>3. got[p] \in Seq(0..MaxLength)
  BY DEF TypeOK, PumpTypeOK
<1>4. Len(got[p]) \in Nat
  BY <1>3
<1>5. Of(output, p) \in 0..1 /\ Of({}, p) = 0
  BY OfEmpty, OfRange
<1> QED BY <1>1, <1>2, <1>4, <1>5 DEF Sent

\* What is on the way out of p is neither lost nor repeated by the reader.
LEMMA ReadKeepsSent ==
    ASSUME TypeOK, NEW p \in Streams, CallerReads PROVE Sent(p)' = Sent(p)
<1>1. PICK r \in output : Read(r)
  BY DEF CallerReads
<1>2. output = {r} /\ output' = {} /\ r.n \in 0..MaxLength
  BY <1>1, SlotElement DEF CallerReads, TypeOK, Responses
<1>3. Of({r}, p) = (IF r.of = p THEN 1 ELSE 0) /\ Of({}, p) = 0
  BY OfElement, OfEmpty
<1>4. got[p] \in Seq(0..MaxLength)
  BY DEF TypeOK, PumpTypeOK
<1>5. Len(got[p]) \in Nat
  BY <1>4
<1>6. CASE r.of = p
  <2>1. got'[p] = Append(got[p], r.n)
    BY <1>1, <1>6 DEF Read
  <2>2. Len(got'[p]) = Len(got[p]) + 1
    BY <1>2, <1>4, <2>1
  <2>3. Of(output, p) = 1 /\ Of(output', p) = 0
    BY <1>2, <1>3, <1>6
  <2> QED BY <1>5, <2>2, <2>3 DEF Sent
<1>7. CASE r.of # p
  <2>1. got'[p] = got[p]
    BY <1>1, <1>7 DEF Read
  <2>2. Of(output, p) = 0 /\ Of(output', p) = 0
    BY <1>2, <1>3, <1>7
  <2> QED BY <2>1, <2>2 DEF Sent
<1> QED BY <1>6, <1>7

LEMMA NoErrorStep ==
    ASSUME TypeOK, SpawnInv, PlaceInv, ChainInv, NoErrorYet,
           ~ErrorOut, ~ErrorOut', ~cancelled', Next
    PROVE  NoErrorYet'
<1>1. CASE ListFails
  BY <1>1 DEF ListFails, ErrorOut, Failure
<1>2. CASE ListPartitions \/ TakeToken
  BY <1>2 DEF ListPartitions, TakeToken, NoErrorYet, Sent, pumpVars, callerVars, taskVars, outVars
<1>3. CASE StartTask
  <2>1. ~outClosed /\ next \in Streams /\ task[next] = "none"
    BY <1>3 DEF StartTask, SpawnInv, Streams
  <2>2. \A p \in Streams : Sent(p)' = Sent(p)
    BY <1>3 DEF StartTask, Sent, callerVars, outVars
  <2> QED BY <1>3, <2>1, <2>2 DEF StartTask, NoErrorYet, TypeOK, pumpVars, outVars
<1>4. CASE SkipTask
  BY <1>4 DEF SkipTask, SpawnInv, NoErrorYet
<1>5. CASE CloseOutput
  <2>1. \A p \in Streams : Sent(p)' = Sent(p)
    BY <1>5 DEF CloseOutput, Sent, callerVars
  <2>2. outClosed' /\ \A p \in Streams : Sent(p) = length[p]
    BY <1>5 DEF CloseOutput, AllReturned, NoErrorYet
  <2> QED BY <1>5, <2>1, <2>2 DEF CloseOutput, NoErrorYet, pumpVars, taskVars
<1>6. ASSUME NEW p \in Streams, OpenStream(p) PROVE NoErrorYet'
  <2>1. /\ task[p] = "open" /\ task' = [task EXCEPT ![p] = "receive"] /\ ~outClosed
        /\ UNCHANGED <<ctx, length, got, output, outClosed, hand>>
    BY <1>6 DEF OpenStream, SpawnInv, callerVars, outVars
  <2>2. \A q \in Streams : Sent(q)' = Sent(q)
    BY <2>1 DEF Sent
  <2>3. CASE Open(p)
    BY <2>1, <2>2, <2>3 DEF Open, NoErrorYet, TypeOK
  <2>4. CASE Refuse(p)
    <3>1. /\ input' = [input EXCEPT ![p] = {Failure}] /\ Failure.err
          /\ closed' = [closed EXCEPT ![p] = TRUE] /\ received' = received
      BY <2>4 DEF Refuse, Failure
    <3> QED BY <2>1, <2>2, <3>1 DEF NoErrorYet, TypeOK, PumpTypeOK
  <2> QED BY <1>6, <2>3, <2>4 DEF OpenStream
<1>7. ASSUME NEW p \in Streams, TakeResponse(p) PROVE NoErrorYet'
  <2>1. /\ task[p] = "receive" /\ task' = [task EXCEPT ![p] = "check"] /\ ~outClosed
        /\ hand[p] = {} /\ hand' = [hand EXCEPT ![p] = input[p]]
        /\ input' = [input EXCEPT ![p] = {}]
        /\ UNCHANGED <<ctx, length, got, output, outClosed, closed, received>>
    BY <1>7 DEF TakeResponse, SpawnInv, PlaceInv, callerVars, outVars
  <2>2. \A q \in Streams : Sent(q)' = Sent(q)
    BY <2>1 DEF Sent
  <2>3. \A q \in Streams : input'[q] \cup hand'[q] = input[q] \cup hand[q]
    BY <2>1 DEF TypeOK, PumpTypeOK
  <2> QED BY <2>1, <2>2, <2>3 DEF NoErrorYet, TypeOK
<1>8. ASSUME NEW p \in Streams, InputEnds(p) PROVE NoErrorYet'
  <2>1. /\ task' = [task EXCEPT ![p] = "returned"]
        /\ UNCHANGED <<ctx, length, got, output, outClosed, closed, received, input, hand>>
    BY <1>8 DEF InputEnds, pumpVars, callerVars, outVars
  <2>2. \A q \in Streams : Sent(q)' = Sent(q)
    BY <2>1 DEF Sent
  <2>3. Sent(p) = length[p]
    BY <1>8, EndIsComplete
  <2> QED BY <2>1, <2>2, <2>3 DEF NoErrorYet, TypeOK
<1>9. ASSUME NEW p \in Streams, CheckContext(p) PROVE NoErrorYet'
  <2>1. ~outClosed /\ ctx # "done"
    BY <1>9 DEF CheckContext, SpawnInv, NoErrorYet
  <2>2. /\ task' = [task EXCEPT ![p] = "send"]
        /\ UNCHANGED <<ctx, length, got, output, outClosed, closed, received, input, hand>>
    BY <1>9, <2>1 DEF CheckContext, pumpVars, callerVars, outVars
  <2>3. \A q \in Streams : Sent(q)' = Sent(q)
    BY <2>2 DEF Sent
  <2>4. task[p] = "check"
    BY <1>9 DEF CheckContext
  <2> QED BY <2>1, <2>2, <2>3, <2>4 DEF NoErrorYet, TypeOK
<1>10. ASSUME NEW p \in Streams, SendResponse(p) PROVE NoErrorYet'
  <2>1. /\ task[p] = "send" /\ ~outClosed /\ output = {} /\ output' = hand[p]
        /\ hand' = [hand EXCEPT ![p] = {}]
        /\ UNCHANGED <<ctx, length, got, outClosed, closed, received, input>>
    BY <1>10 DEF SendResponse, SpawnInv, pumpVars, callerVars
  <2>2. \A r \in hand[p] : ~r.err
    BY <2>1 DEF ErrorOut
  <2>3. task' = [task EXCEPT ![p] = "receive"]
    BY <1>10, <2>2 DEF SendResponse
  <2>4. ASSUME NEW q \in Streams \ {p} PROVE Sent(q)' = Sent(q)
    <3>1. Failure.of # q
      BY StreamAssumption DEF Failure, Streams
    <3>2. Of(hand[p], q) = 0 /\ Of({}, q) = 0
      BY <3>1 DEF PlaceInv, Of
    <3> QED BY <2>1, <3>2 DEF Sent
  <2> QED BY <2>1, <2>2, <2>3, <2>4 DEF NoErrorYet, TypeOK
<1>11. ASSUME NEW p \in Streams, ReturnError(p) PROVE NoErrorYet'
  BY <1>11 DEF ReturnError, NoErrorYet
<1>12. ASSUME NEW p \in Streams, PumpStep(p) PROVE NoErrorYet'
  <2>1. UNCHANGED <<ctx, length, got, output, outClosed, task, hand>>
    BY <1>12 DEF PumpStep, callerVars, taskVars, outVars
  <2>2. \A q \in Streams : Sent(q)' = Sent(q)
    BY <2>1 DEF Sent
  <2>3. CASE Receive(p)
    <3>1. pump[p] = "receive" /\ received' = [received EXCEPT ![p] = received[p] + 1]
          /\ UNCHANGED <<input, closed>>
      BY <2>3 DEF Receive
    <3>2. ~closed[p]
      BY <3>1 DEF PlaceInv
    <3>3. \A q \in Streams : closed[q] => received'[q] = received[q]
      BY <3>1, <3>2 DEF TypeOK, PumpTypeOK
    <3> QED BY <2>1, <2>2, <3>1, <3>3 DEF NoErrorYet
  <2>4. CASE ReceiveEOF(p)
    BY <2>1, <2>2, <2>4 DEF ReceiveEOF, NoErrorYet, TypeOK, PumpTypeOK
  <2>5. CASE ReceiveError(p)
    BY <2>1, <2>2, <2>5 DEF ReceiveError, NoErrorYet
  <2>6. CASE Forward(p)
    <3>1. pump[p] = "send last" => holding[p] = {Failure} /\ Failure.err
      BY DEF PlaceInv, Failure
    <3> QED BY <2>1, <2>2, <2>6, <3>1 DEF Forward, NoErrorYet, TypeOK, PumpTypeOK
  <2> QED BY <1>12, <2>3, <2>4, <2>5, <2>6 DEF PumpStep, Pump, Serve
<1>13. CASE CallerReads
  <2>1. \A p \in Streams : Sent(p)' = Sent(p)
    BY <1>13, ReadKeepsSent
  <2> QED BY <1>13, <2>1 DEF CallerReads, NoErrorYet, pumpVars, taskVars
<1>14. CASE CallerEnds \/ Commit
  BY <1>14 DEF CallerEnds, ReadEnd, Commit, NoErrorYet, Sent, pumpVars, callerVars, taskVars, outVars
<1>15. CASE CtxDone
  BY <1>15 DEF CtxDone
<1> QED BY <1>1, <1>2, <1>3, <1>4, <1>5, <1>6, <1>7, <1>8, <1>9, <1>10, <1>11, <1>12, <1>13,
           <1>14, <1>15 DEF Next, Spawn, Copy

LEMMA InitOutcome == Init => OutcomeInv
<1> SUFFICES ASSUME Init PROVE OutcomeInv
  OBVIOUS
<1> QED BY DEF Init, PumpInit, OutcomeInv, NoErrorYet

\* A context that the caller has ended stays so.
LEMMA CancelStays == cancelled /\ [Next]_vars => cancelled'
<1> SUFFICES ASSUME cancelled, [Next]_vars PROVE cancelled'
  OBVIOUS
<1>1. \/ UNCHANGED cancelled
      \/ CtxDone
  BY DEF Next, Spawn, ListFails, ListPartitions, TakeToken, StartTask, SkipTask,
         CloseOutput, OpenStream, Copy, TakeResponse, InputEnds, CheckContext,
         SendResponse, ReturnError, PumpStep, CallerReads, CallerEnds, Commit, vars
<1> QED BY <1>1 DEF CtxDone

LEMMA OutcomeStep == StreamInv /\ OutcomeInv /\ [Next]_vars => OutcomeInv'
<1> SUFFICES ASSUME StreamInv, OutcomeInv, [Next]_vars PROVE OutcomeInv'
  OBVIOUS
<1>1. CASE ErrorOut \/ cancelled
  BY <1>1, ErrorStays, CancelStays DEF StreamInv, OutcomeInv
<1>2. CASE ~ErrorOut /\ ~cancelled /\ Next
  <2>1. CASE ErrorOut' \/ cancelled'
    BY <2>1 DEF OutcomeInv
  <2>2. CASE ~ErrorOut' /\ ~cancelled'
    <3>1. NoErrorYet
      BY <1>2 DEF OutcomeInv
    <3> QED BY <1>2, <2>2, <3>1, NoErrorStep DEF StreamInv, OutcomeInv
  <2> QED BY <2>1, <2>2
<1>3. CASE ~ErrorOut /\ ~cancelled /\ UNCHANGED vars
  <2>1. NoErrorYet
    BY <1>3 DEF OutcomeInv
  <2>2. NoErrorYet'
    BY <1>3, <2>1 DEF vars, pumpVars, callerVars, taskVars, outVars, NoErrorYet, Sent
  <2> QED BY <2>2 DEF OutcomeInv
<1> QED BY <1>1, <1>2, <1>3

-----------------------------------------------------------------------------
(* Theorems.                                                               *)

\* The inductive invariant of the goroutines and their channels.
THEOREM StreamInvariant == Spec => []StreamInv
<1>1. Init => StreamInv
  BY InitTypes, InitChain DEF StreamInv
<1>2. StreamInv /\ [Next]_vars => StreamInv'
  BY TypeStep, SpawnStep, RevisionStep, PlaceStep, ChainStep DEF StreamInv
<1> QED BY <1>1, <1>2, PTL DEF Spec

\* Every variable has its type: limitCh, which Go puts a token back into
\* without waiting, never holds more than it was made for (LimitErrGroup).
THEOREM StreamTypeCorrect == Spec => []TypeOK
<1>1. StreamInv => TypeOK
  BY DEF StreamInv
<1> QED BY StreamInvariant, <1>1, PTL

\* No callback sends to the caller's channel after it is closed, whoever
\* fails and whenever the context is done (concurrentRangeStream).
THEOREM ClosedAfterSends == Spec => []NoSendAfterClose
<1>1. StreamInv => NoSendAfterClose
  BY DEF StreamInv, SpawnInv, NoSendAfterClose
<1> QED BY StreamInvariant, <1>1, PTL

\* All partitions are read at the same revision, and at the one asked for if
\* one was, however many commits come between the RPCs (rangeStreamCallBack).
THEOREM SnapshotIsOne == Spec => []OneSnapshot
<1>1. StreamInv => OneSnapshot
  BY DEF StreamInv, RevisionInv, OneSnapshot, RequestRevision
<1> QED BY StreamInvariant, <1>1, PTL

\* With or without a cancellation: a partition arrives in order, without a
\* gap and without a repetition.
InOrder == \A p \in Streams : got[p] = [i \in 1..Len(got[p]) |-> i]

\* What the caller has of a partition is a beginning of it, in order and with
\* nothing twice, through two goroutines and two channels.
THEOREM OrderKept == Spec => []InOrder
<1>1. StreamInv => InOrder
  BY DEF StreamInv, ChainInv, Chain, InOrder
<1> QED BY StreamInvariant, <1>1, PTL

\* The stream ends complete, after an error, or given up by the caller.
THEOREM OutcomeInvariant == Spec => [](StreamInv /\ OutcomeInv)
<1>1. StreamInv /\ OutcomeInv /\ [Next]_vars => OutcomeInv'
  BY OutcomeStep
<1> QED BY StreamInvariant, InitOutcome, <1>1, PTL DEF Spec

\* The caller takes the next response of a partition, or sees an error.
LEMMA ReadSimulation ==
    ASSUME StreamInv, CallerReads PROVE Merged!Next
<1> USE DEF StreamInv
<1>1. PICK r \in output : Read(r)
  BY DEF CallerReads
<1>2. r \in Responses /\ output = {r} /\ ~ended
  BY <1>1, SlotElement DEF CallerReads, TypeOK
<1>3. UNCHANGED <<length, ended, cancelled>> /\ gotError' = (gotError \/ r.err)
  BY <1>1 DEF CallerReads, Read
<1>4. got' = [s \in Streams |-> IF s = r.of THEN Append(got[s], r.n) ELSE got[s]]
  BY <1>1 DEF Read
<1>5. got \in [Streams -> Seq(0..MaxLength)] /\ length \in [Streams -> 0..MaxLength]
  BY DEF TypeOK, PumpTypeOK
<1>6. CASE r.of = 0
  <2>1. r = Failure
    BY <1>1, <1>6 DEF PlaceInv
  <2>2. gotError' = TRUE
    BY <1>3, <2>1 DEF Failure
  <2>3. \A s \in Streams : s # r.of
    BY <1>6 DEF Streams
  <2>4. got' = got
    BY <1>4, <1>5, <2>3
  <2>5. Merged!Fail
    BY <1>2, <1>3, <2>2, <2>4 DEF Merged!Fail
  <2> QED BY <2>5 DEF Merged!Next
<1>7. CASE r.of # 0
  <2> DEFINE p == r.of
  <2>1. p \in Streams
    BY <1>2, <1>7, StreamAssumption DEF Responses, Streams
  <2>2. Chain(got[p], {r}, hand[p], input[p], holding[p], received[p],
              length[p], Back(task[p]), p)
    BY <1>2, <2>1 DEF ChainInv
  <2>3. Of({r}, p) = 1 /\ Of(hand[p], p) \in 0..1
    BY OfElement, OfRange
  <2>4. got[p] \in Seq(0..MaxLength) /\ length[p] \in Nat /\ received[p] \in Nat
    <3>1. length[p] \in 0..MaxLength /\ received[p] \in 0..MaxLength
      BY <2>1 DEF TypeOK, PumpTypeOK
    <3>2. got[p] \in Seq(0..MaxLength)
      BY <1>5, <2>1
    <3> QED BY <3>1, <3>2
  <2>5. Len(got[p]) \in Nat
    BY <2>4
  <2>6. r.n = Len(got[p]) + 1
    BY <2>2 DEF Chain
  <2>7. Len(got[p]) < length[p]
    <3>1. Len(got[p]) + 1 + Of(hand[p], p) <= received[p] /\ received[p] <= length[p]
      BY <2>2, <2>3 DEF Chain
    <3> QED BY <2>3, <2>4, <2>5, <3>1
  <2>8. got' = [got EXCEPT ![p] = Append(got[p], Len(got[p]) + 1)]
    BY <1>4, <1>5, <2>1, <2>6
  <2>9. gotError' \in {gotError, TRUE}
    BY <1>2, <1>3 DEF TypeOK, PumpTypeOK, Responses
  <2>10. Merged!Deliver(p)
    BY <1>2, <1>3, <2>7, <2>8, <2>9 DEF Merged!Deliver
  <2> QED BY <2>1, <2>10 DEF Merged!Next
<1> QED BY <1>6, <1>7

\* The caller's loop ends.
LEMMA EndSimulation ==
    ASSUME StreamInv, OutcomeInv, CallerEnds PROVE Merged!Next
<1>1. /\ ~ended /\ ended' = TRUE /\ output = {} /\ outClosed
      /\ UNCHANGED <<length, got, gotError, cancelled>>
  BY DEF CallerEnds, ReadEnd
<1>2. CASE gotError \/ cancelled
  BY <1>1, <1>2 DEF Merged!End, Merged!Next
<1>3. CASE ~gotError /\ ~cancelled
  <2>1. \A p \in Streams : Sent(p) = length[p]
    BY <1>1, <1>3 DEF OutcomeInv, ErrorOut, NoErrorYet
  <2>2. \A p \in Streams : Len(got[p]) = length[p]
    <3> SUFFICES ASSUME NEW p \in Streams PROVE Len(got[p]) = length[p]
      OBVIOUS
    <3>1. got[p] \in Seq(0..MaxLength)
      BY DEF StreamInv, TypeOK, PumpTypeOK
    <3>2. Len(got[p]) \in Nat
      BY <3>1
    <3>3. Of(output, p) = 0
      BY <1>1, OfEmpty
    <3> QED BY <2>1, <3>2, <3>3 DEF Sent
  <2> QED BY <1>1, <2>2 DEF Merged!End, Merged!Next
<1> QED BY <1>2, <1>3

\* The other steps change nothing that the caller sees.
LEMMA HiddenSteps ==
    ASSUME [Next]_vars, ~CallerReads, ~CallerEnds, ~CtxDone
    PROVE  UNCHANGED <<length, got, gotError, ended, cancelled>>
<1>1. CASE ListFails \/ Commit \/ UNCHANGED vars
  BY <1>1 DEF ListFails, Commit, vars, callerVars
<1>2. CASE Spawn
  BY <1>2 DEF Spawn, ListPartitions, TakeToken, StartTask, SkipTask, CloseOutput, callerVars
<1>3. ASSUME NEW p \in Streams, OpenStream(p) \/ PumpStep(p)
      PROVE  UNCHANGED <<length, got, gotError, ended, cancelled>>
  BY <1>3 DEF OpenStream, PumpStep, callerVars
<1>4. ASSUME NEW p \in Streams, Copy(p)
      PROVE  UNCHANGED <<length, got, gotError, ended, cancelled>>
  BY <1>4 DEF Copy, TakeResponse, InputEnds, CheckContext, SendResponse, ReturnError, callerVars
<1> QED BY <1>1, <1>2, <1>3, <1>4 DEF Next

\* The goroutines and their channels implement MergedStream: the caller gets
\* each partition in order and without a gap, and when the channel is closed
\* he has all of them, has seen an error, or has ended his own context.
THEOREM StreamImplemented == Spec => ImplementsMergedStream
<1>1. Init => Merged!Init
  <2> SUFFICES ASSUME Init PROVE Merged!Init
    OBVIOUS
  <2>1. length \in [Streams -> Nat]
    BY StreamAssumption DEF Init, PumpInit
  <2> QED BY <2>1 DEF Init, PumpInit, Merged!Init
<1>2. StreamInv /\ OutcomeInv /\ [Next]_vars => [Merged!Next]_(Merged!streamVars)
  <2> SUFFICES ASSUME StreamInv, OutcomeInv, [Next]_vars
               PROVE  [Merged!Next]_(Merged!streamVars)
    OBVIOUS
  <2>1. CASE CallerReads
    BY <2>1, ReadSimulation
  <2>2. CASE CallerEnds
    BY <2>2, EndSimulation
  <2>3. CASE CtxDone
    BY <2>3 DEF CtxDone, callerVars, Merged!Cancel, Merged!Next
  <2>4. CASE ~CallerReads /\ ~CallerEnds /\ ~CtxDone
    BY <2>4, HiddenSteps DEF Merged!streamVars
  <2> QED BY <2>1, <2>2, <2>3, <2>4
<1> QED BY OutcomeInvariant, <1>1, <1>2, PTL DEF Spec, ImplementsMergedStream, Merged!Spec
-----------------------------------------------------------------------------
(* Nobody waits for each other.                                            *)

\* What has been started is under way: the loop leaves no partition out, a
\* callback that reads has a pump, and a pump that ends closes its channel.
WorkInv ==
    \A p \in Streams :
        /\ p < next => task[p] # "none"
        /\ task[p] \in {"receive", "check", "send", "fail"} => pump[p] # "off"
        /\ pump[p] = "ended" => closed[p]

\* A pump that has started is never off again.
LEMMA PumpWorks ==
    ASSUME TypeOK, NEW p \in Streams, Pump(p), NEW q \in Streams,
           pump[q] = "ended" => closed[q]
    PROVE  /\ pump[q] # "off" => pump'[q] # "off"
           /\ pump'[q] = "ended" => closed'[q]
<1> USE DEF TypeOK, PumpTypeOK
<1>1. CASE Receive(p)
  BY <1>1 DEF Receive
<1>2. CASE ReceiveEOF(p)
  BY <1>2 DEF ReceiveEOF
<1>3. CASE ReceiveError(p)
  BY <1>3 DEF ReceiveError
<1>4. CASE Forward(p)
  BY <1>4 DEF Forward
<1> QED BY <1>1, <1>2, <1>3, <1>4 DEF Pump, Serve

LEMMA WorkStep == TypeOK /\ SpawnInv /\ WorkInv /\ [Next]_vars => WorkInv'
<1> SUFFICES ASSUME TypeOK, SpawnInv, WorkInv, [Next]_vars PROVE WorkInv'
  OBVIOUS
<1>1. CASE ListFails \/ ListPartitions \/ TakeToken \/ CloseOutput
  BY <1>1 DEF ListFails, ListPartitions, TakeToken, CloseOutput, WorkInv, pumpVars, taskVars
<1>2. CASE StartTask \/ SkipTask
  <2>1. /\ next \in Streams /\ task[next] = "none" /\ next' = next + 1
        /\ task' \in {[task EXCEPT ![next] = "open"], [task EXCEPT ![next] = "returned"]}
        /\ UNCHANGED <<pump, closed>>
    BY <1>2 DEF StartTask, SkipTask, SpawnInv, pumpVars, Streams
  <2>2. \A p \in Streams : p < next' => p < next \/ p = next
    BY <2>1, StreamAssumption DEF Streams
  <2>3. /\ task'[next] \in {"open", "returned"}
        /\ \A p \in Streams \ {next} : task'[p] = task[p]
    BY <2>1 DEF TypeOK
  <2>4. ASSUME NEW p \in Streams, p = next
        PROVE  task'[p] \notin {"none", "receive", "check", "send", "fail"}
    BY <2>3, <2>4
  <2> QED BY <2>1, <2>2, <2>3, <2>4 DEF WorkInv
<1>3. ASSUME NEW p \in Streams, OpenStream(p) PROVE WorkInv'
  <2>1. /\ task' = [task EXCEPT ![p] = "receive"] /\ task[p] = "open" /\ next' = next
    BY <1>3 DEF OpenStream, spawnVars
  <2>2. CASE Open(p)
    BY <2>1, <2>2 DEF Open, TypeOK, PumpTypeOK, WorkInv
  <2>3. CASE Refuse(p)
    BY <2>1, <2>3 DEF Refuse, TypeOK, PumpTypeOK, WorkInv
  <2> QED BY <1>3, <2>2, <2>3 DEF OpenStream
<1>4. ASSUME NEW p \in Streams, Copy(p) PROVE WorkInv'
  <2>1. /\ task[p] \in {"receive", "check", "send", "fail"}
        /\ \E t \in {"receive", "check", "send", "fail", "returned"} :
               task' = [task EXCEPT ![p] = t]
        /\ UNCHANGED <<next, pump, closed>>
    BY <1>4 DEF Copy, TakeResponse, InputEnds, CheckContext, SendResponse, ReturnError,
                spawnVars, pumpVars
  <2> QED BY <2>1 DEF TypeOK, WorkInv
<1>5. ASSUME NEW p \in Streams, PumpStep(p) PROVE WorkInv'
  <2>1. Pump(p) /\ UNCHANGED <<task, next>>
    BY <1>5 DEF PumpStep, spawnVars, taskVars
  <2> QED BY <2>1, PumpWorks DEF WorkInv
<1>6. CASE CallerReads \/ CallerEnds \/ CtxDone \/ Commit
  BY <1>6 DEF CallerReads, CallerEnds, CtxDone, Commit, WorkInv, spawnVars, pumpVars, taskVars
<1>7. CASE UNCHANGED vars
  BY <1>7 DEF vars, WorkInv, spawnVars, pumpVars, taskVars
<1> QED BY <1>1, <1>2, <1>3, <1>4, <1>5, <1>6, <1>7 DEF Next, Spawn

\* A callback that has not returned, or the pump or the caller it waits for,
\* can make a step, unless a server has to.
LEMMA CallbackGoesOn ==
    ASSUME StreamInv, WorkInv, Returned,
           NEW p \in Streams, task[p] \notin {"none", "returned"}
    PROVE  CallbackCanGo(p) \/ CanForward(p) \/ CallerCanGo \/ AwaitsServer
<1>1. CASE task[p] = "open"
  BY <1>1 DEF AwaitsServer
<1>2. CASE task[p] = "receive"
  <2>1. pump[p] \in {"receive", "send", "send last", "ended"}
    BY <1>2 DEF StreamInv, TypeOK, PumpTypeOK, WorkInv
  <2>2. pump[p] = "ended" => closed[p]
    BY DEF WorkInv
  <2> QED BY <1>2, <2>1, <2>2 DEF CallbackCanGo, CanForward, AwaitsServer
<1>3. CASE task[p] \in {"check", "send", "fail"}
  BY <1>3 DEF CallbackCanGo, CallerCanGo
<1> QED BY <1>1, <1>2, <1>3 DEF StreamInv, TypeOK

\* The loop of concurrentRangeStream is never held up: Go has a token
\* whenever it asks for one, so that the limit costs no waiting.
LEMMA TokenAtHand ==
    ASSUME StreamInv, spawner = "loop"
    PROVE  MaxConcurrent = 0 \/ tokens > 0
BY RequestAssumption DEF StreamInv, SpawnInv

LEMMA NobodyWaits ==
    ASSUME StreamInv, WorkInv
    PROVE  OnlyServersBlock
<1>1. CASE spawner \in {"list", "go"}
  BY <1>1 DEF OnlyServersBlock, AwaitsServer, SpawnerCanGo
<1>2. CASE spawner = "ended"
  BY <1>2 DEF OnlyServersBlock, StreamInv, SpawnInv, CallerCanGo, Returned
<1>3. CASE spawner = "loop" /\ (next \in Streams \/ AllReturned)
  BY <1>3, TokenAtHand DEF OnlyServersBlock, SpawnerCanGo
<1>4. CASE spawner = "loop" /\ next \notin Streams /\ ~AllReturned
  <2>1. PICK p \in Streams : task[p] # "returned"
    BY <1>4 DEF AllReturned
  <2>2. p < next
    BY <1>4, StreamAssumption DEF StreamInv, TypeOK, Streams
  <2>3. task[p] \notin {"none", "returned"}
    BY <2>1, <2>2 DEF WorkInv
  <2>4. Returned
    BY <1>4 DEF Returned
  <2> QED BY <2>3, <2>4, CallbackGoesOn DEF OnlyServersBlock
<1> QED BY <1>1, <1>2, <1>3, <1>4 DEF StreamInv, TypeOK

\* The spawner, the callbacks, the pumps and the caller never wait for each
\* other in a circle, for every number of partitions and every limit.
THEOREM NoRangeDeadlock == Spec => []OnlyServersBlock
<1>1. Init => WorkInv
  BY StreamAssumption DEF Init, PumpInit, WorkInv, Streams
<1>2. StreamInv /\ WorkInv /\ [Next]_vars => WorkInv'
  BY WorkStep DEF StreamInv
<1>3. StreamInv /\ WorkInv => OnlyServersBlock
  BY NobodyWaits
<1> QED BY <1>1, <1>2, <1>3, StreamInvariant, PTL DEF Spec
-----------------------------------------------------------------------------
(* Nothing is left behind.                                                 *)

\* The caller's loop ends with a closed channel that it has emptied.
EndInv == ended => outClosed /\ output = {}

\* As long as no error is on its way out, the channel is closed when all
\* callbacks have returned, and a callback returns when its own is used up.
CleanSoFar ==
    /\ outClosed => AllReturned
    /\ \A p \in Streams : task[p] = "returned" => closed[p] /\ input[p] = {}

CleanInv == cancelled \/ ErrorOut \/ CleanSoFar

LEMMA EndStep == TypeOK /\ SpawnInv /\ EndInv /\ [Next]_vars => EndInv'
<1> SUFFICES ASSUME TypeOK, SpawnInv, EndInv, [Next]_vars PROVE EndInv'
  OBVIOUS
<1>1. CASE ListFails \/ CloseOutput
  BY <1>1 DEF ListFails, CloseOutput, SpawnInv, EndInv, callerVars
<1>2. ASSUME NEW p \in Streams, SendResponse(p) PROVE EndInv'
  BY <1>2 DEF SendResponse, SpawnInv, EndInv, callerVars
<1>3. CASE CallerReads
  BY <1>3 DEF CallerReads, Read, EndInv
<1>4. CASE CallerEnds
  BY <1>4 DEF CallerEnds, EndInv, outVars
<1>5. CASE ListPartitions \/ TakeToken \/ StartTask \/ SkipTask \/ CtxDone \/ Commit
  BY <1>5 DEF ListPartitions, TakeToken, StartTask, SkipTask, CtxDone, Commit, EndInv,
              callerVars, outVars
<1>6. ASSUME NEW p \in Streams,
             \/ OpenStream(p) \/ PumpStep(p)
             \/ TakeResponse(p) \/ InputEnds(p) \/ CheckContext(p) \/ ReturnError(p)
      PROVE  EndInv'
  BY <1>6 DEF OpenStream, PumpStep, TakeResponse, InputEnds, CheckContext, ReturnError, EndInv,
              callerVars, outVars
<1>7. CASE UNCHANGED vars
  BY <1>7 DEF vars, EndInv, callerVars, outVars
<1> QED BY <1>1, <1>2, <1>3, <1>4, <1>5, <1>6, <1>7 DEF Next, Spawn, Copy

\* A pump puts nothing into a channel that is closed, and opens none again.
LEMMA PumpLeavesClosed ==
    ASSUME TypeOK, PlaceInv, NEW p \in Streams, PumpStep(p), NEW q \in Streams,
           closed[q], input[q] = {}
    PROVE  closed'[q] /\ input'[q] = {}
<1>1. pump[q] = "ended"
  BY DEF PlaceInv
<1>2. Pump(p)
  BY DEF PumpStep
<1> USE DEF TypeOK, PumpTypeOK
<1>3. CASE Receive(p) \/ ReceiveEOF(p) \/ ReceiveError(p)
  BY <1>3 DEF Receive, ReceiveEOF, ReceiveError
<1>4. CASE Forward(p)
  BY <1>1, <1>4 DEF Forward
<1> QED BY <1>2, <1>3, <1>4 DEF Pump, Serve

\* Without an error, nothing makes a callback return before its channel ends.
LEMMA CleanStep ==
    ASSUME TypeOK, SpawnInv, PlaceInv, NoErrorYet, CleanSoFar,
           ~ErrorOut', ~cancelled', Next
    PROVE  CleanSoFar'
<1>1. CASE ListFails
  BY <1>1 DEF ListFails, ErrorOut, Failure
<1>2. CASE ListPartitions \/ TakeToken
  BY <1>2 DEF ListPartitions, TakeToken, CleanSoFar, AllReturned, pumpVars, taskVars, outVars
<1>3. CASE StartTask
  <2>1. ~outClosed /\ next \in Streams /\ task' = [task EXCEPT ![next] = "open"]
        /\ UNCHANGED <<outClosed, closed, input>>
    BY <1>3 DEF StartTask, SpawnInv, pumpVars, outVars
  <2> QED BY <2>1 DEF CleanSoFar, TypeOK
<1>4. CASE SkipTask
  BY <1>4 DEF SkipTask, SpawnInv, NoErrorYet
<1>5. CASE CloseOutput
  BY <1>5 DEF CloseOutput, CleanSoFar, AllReturned, pumpVars, taskVars
<1>6. ASSUME NEW p \in Streams, OpenStream(p) PROVE CleanSoFar'
  <2>1. /\ task[p] = "open" /\ task' = [task EXCEPT ![p] = "receive"] /\ ~outClosed
        /\ outClosed' = outClosed
        /\ \A q \in Streams \ {p} : input'[q] = input[q] /\ closed'[q] = closed[q]
    BY <1>6 DEF OpenStream, Open, Refuse, SpawnInv, outVars, TypeOK, PumpTypeOK
  <2> QED BY <2>1 DEF CleanSoFar, TypeOK
<1>7. ASSUME NEW p \in Streams, TakeResponse(p) PROVE CleanSoFar'
  <2>1. /\ task' = [task EXCEPT ![p] = "check"] /\ ~outClosed
        /\ input' = [input EXCEPT ![p] = {}]
        /\ UNCHANGED <<outClosed, closed>>
    BY <1>7 DEF TakeResponse, SpawnInv, outVars
  <2> QED BY <2>1 DEF CleanSoFar, TypeOK, PumpTypeOK
<1>8. ASSUME NEW p \in Streams, InputEnds(p) PROVE CleanSoFar'
  <2>1. /\ task' = [task EXCEPT ![p] = "returned"] /\ ~outClosed
        /\ input[p] = {} /\ closed[p]
        /\ UNCHANGED <<outClosed, closed, input>>
    BY <1>8 DEF InputEnds, SpawnInv, pumpVars, outVars
  <2> QED BY <2>1 DEF CleanSoFar, TypeOK
<1>9. ASSUME NEW p \in Streams, CheckContext(p) PROVE CleanSoFar'
  <2>1. ~outClosed /\ ctx # "done"
    BY <1>9 DEF CheckContext, SpawnInv, NoErrorYet
  <2>2. /\ task' = [task EXCEPT ![p] = "send"]
        /\ UNCHANGED <<outClosed, closed, input>>
    BY <1>9, <2>1 DEF CheckContext, pumpVars, outVars
  <2> QED BY <2>1, <2>2 DEF CleanSoFar, TypeOK
<1>10. ASSUME NEW p \in Streams, SendResponse(p) PROVE CleanSoFar'
  <2>1. /\ ~outClosed /\ task' \in {[task EXCEPT ![p] = t] : t \in {"fail", "receive"}}
        /\ UNCHANGED <<outClosed, closed, input>>
    BY <1>10 DEF SendResponse, SpawnInv, pumpVars
  <2> QED BY <2>1 DEF CleanSoFar, TypeOK
<1>11. ASSUME NEW p \in Streams, ReturnError(p) PROVE CleanSoFar'
  BY <1>11 DEF ReturnError, NoErrorYet
<1>12. ASSUME NEW p \in Streams, PumpStep(p) PROVE CleanSoFar'
  <2>1. UNCHANGED <<outClosed, task>>
    BY <1>12 DEF PumpStep, taskVars, outVars
  <2> QED BY <1>12, <2>1, PumpLeavesClosed DEF CleanSoFar, AllReturned
<1>13. CASE CallerReads \/ CallerEnds \/ Commit
  BY <1>13 DEF CallerReads, CallerEnds, Commit, CleanSoFar, AllReturned, pumpVars, taskVars, outVars
<1>14. CASE CtxDone
  BY <1>14 DEF CtxDone
<1> QED BY <1>1, <1>2, <1>3, <1>4, <1>5, <1>6, <1>7, <1>8, <1>9, <1>10, <1>11, <1>12, <1>13,
           <1>14 DEF Next, Spawn, Copy

LEMMA CleanInvStep == StreamInv /\ OutcomeInv /\ CleanInv /\ [Next]_vars => CleanInv'
<1> SUFFICES ASSUME StreamInv, OutcomeInv, CleanInv, [Next]_vars PROVE CleanInv'
  OBVIOUS
<1>1. CASE ErrorOut \/ cancelled
  BY <1>1, ErrorStays, CancelStays DEF StreamInv, CleanInv
<1>2. CASE ErrorOut' \/ cancelled'
  BY <1>2 DEF CleanInv
<1>3. CASE ~ErrorOut /\ ~cancelled /\ ~ErrorOut' /\ ~cancelled' /\ Next
  <2>1. NoErrorYet /\ CleanSoFar
    BY <1>3 DEF OutcomeInv, CleanInv
  <2> QED BY <1>3, <2>1, CleanStep DEF StreamInv, CleanInv
<1>4. CASE ~ErrorOut /\ ~cancelled /\ UNCHANGED vars
  <2>1. CleanSoFar
    BY <1>4 DEF CleanInv
  <2>2. CleanSoFar'
    BY <1>4, <2>1 DEF vars, pumpVars, taskVars, outVars, CleanSoFar, AllReturned
  <2> QED BY <2>2 DEF CleanInv
<1> QED BY <1>1, <1>2, <1>3, <1>4

\* Reading a range to its end without an error leaves no pump behind, for
\* every number of partitions (rangeStreamCallBack, fetchStreamRangeResp).
THEOREM RangeLeavesNothing == Spec => []NothingLeftBehind
<1>1. Init => EndInv /\ CleanInv
  BY DEF Init, PumpInit, EndInv, CleanInv, CleanSoFar
<1>2. StreamInv /\ EndInv /\ [Next]_vars => EndInv'
  BY EndStep DEF StreamInv
<1>3. StreamInv /\ OutcomeInv /\ CleanInv /\ [Next]_vars => CleanInv'
  BY CleanInvStep
<1>4. StreamInv /\ EndInv /\ CleanInv => NothingLeftBehind
  BY DEF StreamInv, PlaceInv, EndInv, CleanInv, CleanSoFar, ErrorOut, AllReturned,
         NothingLeftBehind
<1> QED BY OutcomeInvariant, <1>1, <1>2, <1>3, <1>4, PTL DEF Spec
=============================================================================
