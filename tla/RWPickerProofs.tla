--------------------------- MODULE RWPickerProofs ---------------------------
(* Theorems about RWPicker for every set of addresses and callers.         *)
EXTENDS RWPicker, FiniteSetTheorems, TLAPS

\* What SetToSeqs yields: listings of a finite set, which are empty only if
\* the set is.
LEMMA Listing ==
    ASSUME NEW R \in ReadySets, NEW l, NEW s \in SetToSeqs(Readers(R, l))
    PROVE  /\ s \in Seq(R)
           /\ \A i \in DOMAIN s : s[i] \in Readers(R, l)
           /\ s = <<>> <=> Readers(R, l) = {}
  <1>1. IsFiniteSet(Readers(R, l))
    BY ReadyAssumption, FS_Difference DEF Readers
  <1>2. Cardinality(Readers(R, l)) \in Nat /\ (Cardinality(Readers(R, l)) = 0 <=> Readers(R, l) = {})
    BY <1>1, FS_CardinalityType, FS_EmptySet
  <1>3. s \in [1..Cardinality(Readers(R, l)) -> Readers(R, l)]
    BY DEF SetToSeqs
  <1>4. s \in Seq(Readers(R, l)) /\ Len(s) = Cardinality(Readers(R, l))
    BY <1>2, <1>3
  <1>. QED  BY <1>2, <1>3, <1>4 DEF Readers

\* The next turn is a position of the list.
LEMMA Turn ==
    ASSUME NEW R, NEW s \in Seq(R), s # <<>>, NEW n \in Nat
    PROVE  (n % Len(s)) + 1 \in DOMAIN s
  <1>1. Len(s) \in Nat \ {0}
    OBVIOUS
  <1>2. n % Len(s) \in 0..(Len(s) - 1)
    BY <1>1
  <1>. QED  BY <1>1, <1>2

-----------------------------------------------------------------------------
(***************************************************************************)
(* The inductive invariant: what a goroutine has seen when it is at each   *)
(* place of Pick, and that the list of readers cannot change under a       *)
(* goroutine that holds the read lock.                                     *)
(***************************************************************************)

\* rw.readerAddrs is exactly the ready addresses other than rw.leader, each
\* once; while no leader is known it is empty.
ReadersMatchLeader ==
    /\ leader = NoLeader => readerAddrs = <<>>
    /\ leader # NoLeader => readerAddrs \in SetToSeqs(Readers(ready, leader))

\* The record's leader was looked at during the call.
Witnessed ==
    \A g \in Callers :
        /\ pc[g] # "idle" => recordLeader \in window[g]
        /\ pc[g] = "readers" => leader \in window[g]
        /\ pc[g] = "writer" => cur[g] \in window[g]

\* A read that fell back to the writer holds the read lock, and the list it
\* found empty stays as it was.
FallenBack ==
    \A g \in Callers :
        /\ pc[g] # "idle" /\ then[g] = "readers" => kind[g] = "read" /\ holds[g] = 0
        /\ pc[g] # "idle" /\ then[g] = "writer" /\ kind[g] = "read" => holds[g] = 1
        /\ pc[g] = "readers" => then[g] = "readers"
        /\ pc[g] = "writer" => then[g] = "writer"
        /\ holds[g] = 1 => readerAddrs = <<>> /\ pc[g] # "idle" /\ kind[g] = "read"
        /\ holds[g] = 1 /\ pc[g] = "writer" => cur[g] = leader

\* A health check never takes a leader back (setLeader after an error).
LeaderKept == leader # NoLeader => recordLeader # NoLeader

PickInv == /\ TypeOK
           /\ LeaderKept
           /\ ReadersMatchLeader
           /\ Witnessed
           /\ FallenBack
           /\ PickLinearizable

LEMMA InitPick == Init => PickInv
  <1>. SUFFICES ASSUME Init PROVE PickInv
    OBVIOUS
  <1>1. TypeOK
    BY FirstAssumption, BoundAssumption DEF Init, TypeOK, Leaders
  <1>2. ReadersMatchLeader /\ LeaderKept
    BY DEF Init, ReadersMatchLeader, LeaderKept
  <1>3. Witnessed /\ FallenBack /\ PickLinearizable
    BY DEF Init, Witnessed, FallenBack, PickLinearizable
  <1>. QED  BY <1>1, <1>2, <1>3 DEF PickInv

\* An empty list means that there is nobody to read from but the leader.
LEMMA NoFollower ==
    ASSUME ready \in ReadySets, ReadersMatchLeader, readerAddrs = <<>>
    PROVE  leader = NoLeader \/ Readers(ready, leader) = {}
  BY Listing DEF ReadersMatchLeader

\* What PickRule says of a read with a follower, of a write and of a read
\* without one, and of a picker that has no ready server.
LEMMA ReadAtomically ==
    ASSUME NEW R, NEW l, l # NoLeader, NEW addr \in Readers(R, l)
    PROVE  addr \in AtomicPick("read", R, l)
  BY DEF AtomicPick, Targets, Followers, Readers

LEMMA WriteAtomically ==
    ASSUME NEW k, NEW l, k # "read" \/ l = NoLeader \/ Readers(ready, l) = {}
    PROVE  Connection(l) \in AtomicPick(k, ready, l)
  BY DEF AtomicPick, Targets, Followers, Readers, Connection

LEMMA NothingReady ==
    ASSUME NEW k, NEW l, ready = {} PROVE NoSubConn \in AtomicPick(k, ready, l)
  BY DEF AtomicPick, Targets, Followers

\* The set of ready addresses of a picker is given to it once.
LEMMA ReadyStays == [Next]_vars => ready' = ready
  BY DEF Next, SetLeader, StartPick, UpdateLeader, CompareLeader, AnnounceWriter,
         RebuildReaders, Choose, ChooseReader, FallBackToWriter, PickWriter, vars, givenVars

LEMMA TypeStep == TypeOK /\ [Next]_vars => TypeOK'
  <1>. SUFFICES ASSUME TypeOK, [Next]_vars PROVE TypeOK'
    OBVIOUS
  <1>. USE DEF givenVars, sharedVars, lockVars, callVars, historyVars
  <1>1. CASE SetLeader
    BY <1>1, BoundAssumption DEF TypeOK, SetLeader, Leaders
  <1>2. ASSUME NEW g \in Callers, NEW k \in {"read", "write"}, StartPick(g, k)
        PROVE  TypeOK'
    <2>1. /\ picks' \in 0..MaxPicks
          /\ kind' \in [Callers -> {"read", "write"}]
          /\ window' \in [Callers -> SUBSET Leaders]
      BY <1>2, BoundAssumption DEF TypeOK, StartPick
    <2>2. CASE ready = {}
      BY <1>2, <2>1, <2>2 DEF TypeOK, StartPick
    <2>3. CASE ready # {}
      BY <1>2, <2>1, <2>3 DEF TypeOK, StartPick
    <2>. QED  BY <2>2, <2>3
  <1>3. ASSUME NEW g \in Callers, UpdateLeader(g) PROVE TypeOK'
    <2>1. CASE CompareLeader(g)
      BY <2>1 DEF TypeOK, CompareLeader
    <2>2. CASE AnnounceWriter(g)
      BY <2>2 DEF TypeOK, AnnounceWriter
    <2>3. CASE RebuildReaders(g)
      <3>1. readerAddrs' \in Seq(ready)
        BY <2>3, Listing DEF TypeOK, RebuildReaders, NewReaders
      <3>2. served' \in [ready -> Nat]
        BY <2>3 DEF TypeOK, RebuildReaders
      <3>. QED  BY <2>3, <3>1, <3>2 DEF TypeOK, RebuildReaders
    <2>. QED  BY <1>3, <2>1, <2>2, <2>3 DEF UpdateLeader
  <1>4. ASSUME NEW g \in Callers, Choose(g) PROVE TypeOK'
    <2>1. CASE ChooseReader(g)
      <3>. DEFINE addr == readerAddrs[(nextReader % Len(readerAddrs)) + 1]
      <3>1. addr \in ready
        <4>1. (nextReader % Len(readerAddrs)) + 1 \in DOMAIN readerAddrs
          BY <2>1, Turn DEF TypeOK, ChooseReader
        <4>. QED  BY <4>1 DEF TypeOK
      <3>. HIDE DEF addr
      <3>2. picked' = [picked EXCEPT ![g] = addr] /\ served' = [served EXCEPT ![addr] = @ + 1]
        BY <2>1 DEF ChooseReader, addr
      <3>. QED  BY <2>1, <3>1, <3>2 DEF TypeOK, ChooseReader, NextTurn
    <2>2. CASE FallBackToWriter(g)
      BY <2>2 DEF TypeOK, FallBackToWriter
    <2>3. CASE PickWriter(g)
      BY <2>3 DEF TypeOK, PickWriter, Connection
    <2>. QED  BY <1>4, <2>1, <2>2, <2>3 DEF Choose
  <1>5. CASE UNCHANGED vars
    BY <1>5 DEF TypeOK, vars
  <1>. QED  BY <1>1, <1>2, <1>3, <1>4, <1>5 DEF Next

LEMMA NextPick == PickInv /\ [Next]_vars => PickInv'
  <1>. SUFFICES ASSUME PickInv, [Next]_vars PROVE PickInv'
    OBVIOUS
  <1>. USE DEF givenVars, sharedVars, lockVars, callVars, historyVars
  <1>0. /\ TypeOK /\ TypeOK'
        /\ ready' = ready /\ ready \in ReadySets
        /\ LeaderKept /\ LeaderKept'
        /\ ReadersMatchLeader /\ Witnessed /\ FallenBack /\ PickLinearizable
    <2>1. TypeOK /\ TypeOK'
      BY TypeStep DEF PickInv
    <2>2. LeaderKept /\ LeaderKept'
      BY SentinelAssumption
      DEF PickInv, LeaderKept, Next, SetLeader, StartPick, UpdateLeader, CompareLeader,
          AnnounceWriter, RebuildReaders, Choose, ChooseReader, FallBackToWriter,
          PickWriter, vars
    <2>3. ready' = ready /\ ready \in ReadySets
      BY ReadyStays DEF PickInv, TypeOK
    <2>. QED  BY <2>1, <2>2, <2>3 DEF PickInv
  <1>1. CASE SetLeader
    <2>1. /\ ReadersMatchLeader' /\ FallenBack'
          /\ \A g \in Callers : pc[g] = "idle" => window'[g] = window[g]
          /\ \A g \in Callers : pc[g] # "idle"
                 => window'[g] = window[g] \cup {recordLeader'}
      BY <1>0, <1>1 DEF SetLeader, ReadersMatchLeader, FallenBack, TypeOK
    <2>2. Witnessed'
      BY <1>0, <1>1, <2>1 DEF SetLeader, Witnessed
    <2>3. PickLinearizable'
      BY <1>0, <1>1, <2>1 DEF SetLeader, PickLinearizable
    <2>. QED  BY <1>0, <2>1, <2>2, <2>3 DEF PickInv
  <1>2. ASSUME NEW g \in Callers, NEW k \in {"read", "write"}, StartPick(g, k)
        PROVE  PickInv'
    <2>1. ReadersMatchLeader'
      BY <1>0, <1>2 DEF StartPick, ReadersMatchLeader
    <2>2. CASE ready = {}
      <3>1. Witnessed' /\ FallenBack'
        BY <1>0, <1>2, <2>2 DEF StartPick, Witnessed, FallenBack, TypeOK
      <3>2. PickLinearizable'
        <4>1. picked'[g] = NoSubConn /\ window'[g] = {recordLeader}
          BY <1>0, <1>2, <2>2 DEF StartPick, TypeOK
        <4>2. NoSubConn \in AtomicPick(kind'[g], ready, recordLeader)
          BY <2>2, NothingReady
        <4>3. \A h \in Callers \ {g} :
                  /\ pc'[h] = pc[h] /\ window'[h] = window[h]
                  /\ picked'[h] = picked[h] /\ kind'[h] = kind[h]
          BY <1>0, <1>2, <2>2 DEF StartPick, TypeOK
        <4>. QED  BY <1>0, <4>1, <4>2, <4>3 DEF PickLinearizable
      <3>. QED  BY <1>0, <2>1, <3>1, <3>2 DEF PickInv
    <2>3. CASE ready # {}
      <3>1. /\ pc' = [pc EXCEPT ![g] = "compare"]
            /\ then' = [then EXCEPT ![g] = IF k = "read" THEN "readers" ELSE "writer"]
            /\ kind' = [kind EXCEPT ![g] = k]
            /\ window' = [window EXCEPT ![g] = {recordLeader}]
            /\ pc[g] = "idle" /\ picked' = picked
        BY <1>2, <2>3 DEF StartPick
      <3>2. holds[g] = 0
        BY <1>0, <3>1 DEF FallenBack, TypeOK
      <3>3. Witnessed'
        BY <1>0, <1>2, <3>1 DEF StartPick, Witnessed, TypeOK
      <3>4. FallenBack'
        BY <1>0, <1>2, <3>1, <3>2 DEF StartPick, FallenBack, TypeOK
      <3>5. PickLinearizable'
        BY <1>0, <1>2, <3>1 DEF StartPick, PickLinearizable, TypeOK
      <3>. QED  BY <1>0, <2>1, <3>3, <3>4, <3>5 DEF PickInv
    <2>. QED  BY <2>2, <2>3
  <1>3. ASSUME NEW g \in Callers, CompareLeader(g) PROVE PickInv'
    <2>1. ReadersMatchLeader'
      BY <1>0, <1>3 DEF CompareLeader, ReadersMatchLeader
    <2>2. Witnessed'
      BY <1>0, <1>3 DEF CompareLeader, Witnessed, TypeOK
    <2>3. FallenBack'
      BY <1>0, <1>3 DEF CompareLeader, FallenBack, TypeOK
    <2>4. PickLinearizable'
      BY <1>0, <1>3 DEF CompareLeader, PickLinearizable, TypeOK
    <2>. QED  BY <1>0, <2>1, <2>2, <2>3, <2>4 DEF PickInv
  <1>4. ASSUME NEW g \in Callers, AnnounceWriter(g) PROVE PickInv'
    <2>1. ReadersMatchLeader' /\ Witnessed' /\ FallenBack'
      BY <1>0, <1>4 DEF AnnounceWriter, ReadersMatchLeader, Witnessed, FallenBack, TypeOK
    <2>2. PickLinearizable'
      BY <1>0, <1>4 DEF AnnounceWriter, PickLinearizable, TypeOK
    <2>. QED  BY <1>0, <2>1, <2>2 DEF PickInv
  <1>5. ASSUME NEW g \in Callers, RebuildReaders(g) PROVE PickInv'
    <2>1. /\ pc[g] = "drain" /\ recordLeader' = recordLeader /\ leader' = recordLeader
          /\ pc' = [pc EXCEPT ![g] = then[g]]
          /\ cur' = [cur EXCEPT ![g] = recordLeader]
          /\ UNCHANGED <<holds, kind, then, picked, window>>
          /\ \A h \in Callers : holds[h] = 0
      BY <1>5 DEF RebuildReaders
    <2>2. ReadersMatchLeader'
      <3>1. CASE recordLeader = leader
        BY <1>0, <1>5, <3>1 DEF RebuildReaders, ReadersMatchLeader
      <3>2. CASE recordLeader # leader /\ recordLeader # NoLeader
        BY <1>5, <3>2 DEF RebuildReaders, ReadersMatchLeader, NewReaders
      <3>3. CASE recordLeader # leader /\ recordLeader = NoLeader
        BY <1>0, <3>3 DEF LeaderKept
      <3>. QED  BY <3>1, <3>2, <3>3
    <2>3. Witnessed'
      BY <1>0, <2>1 DEF Witnessed, TypeOK
    <2>4. FallenBack'
      BY <1>0, <2>1 DEF FallenBack, TypeOK
    <2>5. PickLinearizable'
      BY <1>0, <2>1 DEF PickLinearizable, TypeOK
    <2>. QED  BY <1>0, <2>2, <2>3, <2>4, <2>5 DEF PickInv
  <1>6. ASSUME NEW g \in Callers, ChooseReader(g) PROVE PickInv'
    <2>1. /\ pc[g] = "readers" /\ readerAddrs # <<>>
          /\ pc' = [pc EXCEPT ![g] = "idle"]
          /\ UNCHANGED <<recordLeader, leader, readerAddrs, holds, kind, then, cur, window>>
      BY <1>6 DEF ChooseReader
    <2>2. kind[g] = "read" /\ holds[g] = 0 /\ leader \in window[g]
      BY <1>0, <2>1 DEF FallenBack, Witnessed
    <2>3. leader # NoLeader /\ readerAddrs \in SetToSeqs(Readers(ready, leader))
      BY <1>0, <2>1 DEF ReadersMatchLeader
    <2>4. (nextReader % Len(readerAddrs)) + 1 \in DOMAIN readerAddrs
      BY <1>0, <2>1, Turn DEF TypeOK
    <2>5. picked'[g] \in Readers(ready, leader)
      <3>1. picked'[g] = readerAddrs[(nextReader % Len(readerAddrs)) + 1]
        BY <1>0, <1>6 DEF ChooseReader, TypeOK
      <3>. QED  BY <1>0, <2>3, <2>4, <3>1, Listing
    <2>6. picked'[g] \in AtomicPick(kind'[g], ready, leader)
      BY <2>1, <2>2, <2>3, <2>5, ReadAtomically
    <2>7. \A h \in Callers \ {g} : picked'[h] = picked[h] /\ pc'[h] = pc[h]
      BY <1>0, <1>6 DEF ChooseReader, TypeOK
    <2>8. PickLinearizable'
      BY <1>0, <2>1, <2>2, <2>6, <2>7 DEF PickLinearizable
    <2>9. ReadersMatchLeader' /\ Witnessed' /\ FallenBack'
      BY <1>0, <2>1, <2>2 DEF ReadersMatchLeader, Witnessed, FallenBack, TypeOK
    <2>. QED  BY <1>0, <2>8, <2>9 DEF PickInv
  <1>7. ASSUME NEW g \in Callers, FallBackToWriter(g) PROVE PickInv'
    <2>1. ReadersMatchLeader' /\ Witnessed' /\ FallenBack'
      BY <1>0, <1>7
      DEF FallBackToWriter, ReadersMatchLeader, Witnessed, FallenBack, TypeOK
    <2>2. PickLinearizable'
      BY <1>0, <1>7 DEF FallBackToWriter, PickLinearizable, TypeOK
    <2>. QED  BY <1>0, <2>1, <2>2 DEF PickInv
  <1>8. ASSUME NEW g \in Callers, PickWriter(g) PROVE PickInv'
    <2>1. /\ pc[g] = "writer"
          /\ pc' = [pc EXCEPT ![g] = "idle"]
          /\ holds' = [holds EXCEPT ![g] = 0]
          /\ picked' = [picked EXCEPT ![g] = Connection(cur[g])]
          /\ UNCHANGED <<recordLeader, leader, readerAddrs, kind, then, cur, window>>
      BY <1>8 DEF PickWriter
    <2>2. cur[g] \in window[g] /\ then[g] = "writer"
      BY <1>0, <2>1 DEF Witnessed, FallenBack
    <2>3. Connection(cur[g]) \in AtomicPick(kind[g], ready, cur[g])
      <3>1. CASE kind[g] = "write"
        BY <3>1, WriteAtomically
      <3>2. CASE kind[g] = "read"
        <4>1. holds[g] = 1 /\ readerAddrs = <<>> /\ cur[g] = leader
          BY <1>0, <2>1, <2>2, <3>2 DEF FallenBack
        <4>2. cur[g] = NoLeader \/ Readers(ready, cur[g]) = {}
          BY <1>0, <4>1, NoFollower
        <4>. QED  BY <4>2, WriteAtomically
      <3>. QED  BY <1>0, <3>1, <3>2 DEF TypeOK
    <2>4. PickLinearizable'
      BY <1>0, <2>1, <2>2, <2>3 DEF PickLinearizable, TypeOK
    <2>5. ReadersMatchLeader' /\ Witnessed' /\ FallenBack'
      BY <1>0, <2>1, <2>2 DEF ReadersMatchLeader, Witnessed, FallenBack, TypeOK
    <2>. QED  BY <1>0, <2>4, <2>5 DEF PickInv
  <1>9. CASE UNCHANGED vars
    BY <1>9, <1>0
    DEF PickInv, ReadersMatchLeader, Witnessed, FallenBack, PickLinearizable, vars
  <1>. QED
    BY <1>1, <1>2, <1>3, <1>4, <1>5, <1>6, <1>7, <1>8, <1>9
    DEF Next, UpdateLeader, Choose

\* Type correctness of the picker: the list holds ready addresses, and the
\* index computed from nextReader is always one of its positions.
THEOREM PickerTypeCorrect == Spec => []TypeOK
  <1>1. PickInv => TypeOK
    BY DEF PickInv
  <1>. QED  BY InitPick, NextPick, <1>1, PTL DEF Spec

\* What a Pick returns is what an atomic Pick would have returned at some
\* moment of the call, for every number of callers and addresses, whether a
\* leader is known or not.
THEOREM PickLinearizes == Spec => []PickLinearizable
  <1>1. PickInv => PickLinearizable
    BY DEF PickInv
  <1>. QED  BY InitPick, NextPick, <1>1, PTL DEF Spec

-----------------------------------------------------------------------------
(* Even shares.                                                            *)

\* Division with remainder.
LEMMA Division ==
    ASSUME NEW n \in Nat, NEW L \in Nat \ {0}
    PROVE  /\ n \div L \in Nat
           /\ n % L \in 0..(L - 1)
           /\ n = L * (n \div L) + (n % L)
  OBVIOUS

LEMMA DivisionIsUnique ==
    ASSUME NEW L \in Nat \ {0},
           NEW q1 \in Nat, NEW r1 \in 0..(L - 1),
           NEW q2 \in Nat, NEW r2 \in 0..(L - 1),
           L * q1 + r1 = L * q2 + r2
    PROVE  r1 = r2
  <1>1. L * (q1 - q2) = r2 - r1 /\ L * (q2 - q1) = r1 - r2
    OBVIOUS
  <1>2. ASSUME q1 - q2 >= 1 PROVE FALSE
    <2>1. L * (q1 - q2) >= L
      BY <1>2
    <2>. QED  BY <1>1, <2>1
  <1>3. ASSUME q2 - q1 >= 1 PROVE FALSE
    <2>1. L * (q2 - q1) >= L
      BY <1>3
    <2>. QED  BY <1>1, <2>1
  <1>4. q1 = q2
    BY <1>2, <1>3
  <1>. QED  BY <1>1, <1>4

\* The turn after the last position of the list is the first one.
LEMMA NextRemainder ==
    ASSUME NEW n \in Nat, NEW L \in Nat \ {0}
    PROVE  (n + 1) % L = IF (n % L) + 1 = L THEN 0 ELSE (n % L) + 1
  <1>. DEFINE q == n \div L        r == n % L
              q2 == (n + 1) \div L r2 == (n + 1) % L
  <1>1. n + 1 \in Nat
    OBVIOUS
  <1>2. q \in Nat /\ r \in 0..(L - 1) /\ n = L * q + r
    BY Division
  <1>3. q2 \in Nat /\ r2 \in 0..(L - 1) /\ n + 1 = L * q2 + r2
    BY <1>1, Division
  <1>. HIDE DEF q, r, q2, r2
  <1>4. CASE r + 1 = L
    <2>1. L * (q + 1) + 0 = L * q2 + r2
      BY <1>2, <1>3, <1>4
    <2>2. 0 \in 0..(L - 1) /\ q + 1 \in Nat
      BY <1>2
    <2>3. 0 = r2
      BY <2>1, <2>2, <1>3, DivisionIsUnique
    <2>. QED  BY <1>4, <2>3 DEF r, r2
  <1>5. CASE r + 1 # L
    <2>1. L * q + (r + 1) = L * q2 + r2
      BY <1>2, <1>3
    <2>2. r + 1 \in 0..(L - 1)
      BY <1>2, <1>5
    <2>3. r + 1 = r2
      BY <2>1, <2>2, <1>2, <1>3, DivisionIsUnique
    <2>. QED  BY <1>5, <2>3 DEF r, r2
  <1>. QED  BY <1>4, <1>5

\* A listing has nobody twice.
LEMMA ListedOnce ==
    ASSUME NEW R \in ReadySets, NEW l, NEW s \in SetToSeqs(Readers(R, l))
    PROVE  \A i, j \in DOMAIN s : i # j => s[i] # s[j]
  <1>1. s \in [1..Cardinality(Readers(R, l)) -> Readers(R, l)]
    BY DEF SetToSeqs
  <1>2. \A i, j \in 1..Cardinality(Readers(R, l)) : i # j => s[i] # s[j]
    BY DEF SetToSeqs
  <1>. QED  BY <1>1, <1>2

\* The turns go round the list, from the position that was next when it was
\* built: in the lap that is going on they have passed position p.
Passed(first, turn, p) ==
    IF first <= turn THEN first <= p /\ p < turn ELSE first <= p \/ p < turn

\* All have had as many reads as there were whole laps, and one more if the
\* lap that is going on has passed them.
Laps(first, laps, turn) ==
    \A i \in DOMAIN readerAddrs :
        served[readerAddrs[i]] = laps + IF Passed(first, turn, i - 1) THEN 1 ELSE 0

EvenLaps ==
    readerAddrs # <<>> =>
        \E first \in 0..(Len(readerAddrs) - 1), laps \in Nat :
            Laps(first, laps, nextReader % Len(readerAddrs))

\* The one whose turn it is has not been passed, and then has: from the last
\* position the turn goes to the first, and when all have been passed the
\* next lap begins.
LEMMA PassOne ==
    ASSUME NEW L \in Nat \ {0}, NEW first \in 0..(L - 1), NEW turn \in 0..(L - 1),
           NEW turn2, turn2 = IF turn + 1 = L THEN 0 ELSE turn + 1
    PROVE  /\ ~Passed(first, turn, turn)
           /\ turn2 # first => \A p \in 0..(L - 1) :
                  Passed(first, turn2, p) <=> (p = turn \/ Passed(first, turn, p))
           /\ turn2 = first => \A p \in 0..(L - 1) :
                  /\ ~Passed(first, turn2, p)
                  /\ p = turn \/ Passed(first, turn, p)
  BY DEF Passed

LEMMA LapsStep ==
    ASSUME PickInv, EvenLaps, NEW g \in Callers, ChooseReader(g)
    PROVE  EvenLaps'
  <1>. DEFINE L == Len(readerAddrs)
              turn == nextReader % L
              addr == readerAddrs[turn + 1]
  <1>1. L \in Nat \ {0} /\ nextReader \in Nat /\ readerAddrs \in Seq(ready)
        /\ served \in [ready -> Nat]
    BY DEF PickInv, TypeOK, ChooseReader
  <1>2. /\ readerAddrs' = readerAddrs /\ nextReader' = nextReader + 1
        /\ served' = [served EXCEPT ![addr] = @ + 1]
    BY DEF ChooseReader, NextTurn
  <1>3. turn \in 0..(L - 1)
    BY <1>1, Division
  <1>4. (nextReader + 1) % L = IF turn + 1 = L THEN 0 ELSE turn + 1
    BY <1>1, NextRemainder
  <1>5. PICK first \in 0..(L - 1), laps \in Nat : Laps(first, laps, turn)
    BY DEF EvenLaps, ChooseReader
  <1>6. \A i, j \in 1..L : i # j => readerAddrs[i] # readerAddrs[j]
    <2>1. readerAddrs \in SetToSeqs(Readers(ready, leader))
      BY DEF PickInv, ReadersMatchLeader, ChooseReader
    <2>2. ready \in ReadySets
      BY DEF PickInv, TypeOK
    <2>. QED  BY <1>1, <2>1, <2>2, ListedOnce
  <1>7. \A i \in 1..L : served'[readerAddrs[i]] =
            served[readerAddrs[i]] + IF i - 1 = turn THEN 1 ELSE 0
    <2>1. turn + 1 \in 1..L
      BY <1>1, <1>3
    <2>. HIDE DEF turn
    <2>2. SUFFICES ASSUME NEW i \in 1..L
          PROVE served'[readerAddrs[i]] =
                    served[readerAddrs[i]] + IF i - 1 = turn THEN 1 ELSE 0
      OBVIOUS
    <2>3. readerAddrs[i] \in ready /\ served[readerAddrs[i]] \in Nat
      BY <1>1
    <2>4. CASE i = turn + 1
      BY <1>1, <1>2, <1>3, <2>3, <2>4
    <2>5. CASE i # turn + 1
      <3>1. readerAddrs[i] # addr /\ i - 1 # turn
        BY <1>3, <1>6, <2>1, <2>5
      <3>. QED  BY <1>2, <2>3, <3>1
    <2>. QED  BY <2>4, <2>5
  <1>. DEFINE turn2 == (nextReader + 1) % L
  <1>8. turn2 = IF turn + 1 = L THEN 0 ELSE turn + 1
    BY <1>4
  <1>. HIDE DEF turn, turn2
  <1>9. \A i \in 1..L : served[readerAddrs[i]] =
            laps + IF Passed(first, turn, i - 1) THEN 1 ELSE 0
    BY <1>1, <1>5 DEF Laps
  <1>10. \A i \in 1..L : i - 1 \in 0..(L - 1)
    BY <1>1
  <1>11. CASE turn2 # first
    <2>1. \A p \in 0..(L - 1) :
              Passed(first, turn2, p) <=> (p = turn \/ Passed(first, turn, p))
      BY <1>1, <1>3, <1>8, <1>11, PassOne, Zenon
    <2>2. ~Passed(first, turn, turn)
      BY <1>1, <1>3, <1>8, PassOne, Zenon
    <2>3. \A i \in 1..L : served'[readerAddrs[i]] =
              laps + IF Passed(first, turn2, i - 1) THEN 1 ELSE 0
      BY <1>7, <1>9, <1>10, <2>1, <2>2
    <2>4. Laps(first, laps, nextReader % Len(readerAddrs))'
      <3>1. DOMAIN readerAddrs' = 1..L /\ nextReader' % Len(readerAddrs') = turn2
        BY <1>1, <1>2 DEF turn2
      <3>. QED  BY <1>2, <2>3, <3>1 DEF Laps
    <2>. QED  BY <1>1, <1>2, <2>4 DEF EvenLaps
  <1>12. CASE turn2 = first
    <2>1. \A p \in 0..(L - 1) :
              ~Passed(first, turn2, p) /\ (p = turn \/ Passed(first, turn, p))
      BY <1>1, <1>3, <1>8, <1>12, PassOne, Zenon
    <2>2. ~Passed(first, turn, turn)
      BY <1>1, <1>3, <1>8, PassOne, Zenon
    <2>3. \A i \in 1..L : served'[readerAddrs[i]] =
              (laps + 1) + IF Passed(first, turn2, i - 1) THEN 1 ELSE 0
      BY <1>7, <1>9, <1>10, <2>1, <2>2
    <2>4. Laps(first, laps + 1, nextReader % Len(readerAddrs))'
      <3>1. DOMAIN readerAddrs' = 1..L /\ nextReader' % Len(readerAddrs') = turn2
        BY <1>1, <1>2 DEF turn2
      <3>. QED  BY <1>2, <2>3, <3>1 DEF Laps
    <2>. QED  BY <1>1, <1>2, <2>4 DEF EvenLaps
  <1>. QED  BY <1>11, <1>12

LEMMA NextLaps == PickInv /\ EvenLaps /\ [Next]_vars => EvenLaps'
  <1>. SUFFICES ASSUME PickInv, EvenLaps, [Next]_vars PROVE EvenLaps'
    OBVIOUS
  <1>1. CASE UNCHANGED <<readerAddrs, nextReader, served>>
    BY <1>1 DEF EvenLaps, Laps
  <1>2. ASSUME NEW g \in Callers, RebuildReaders(g), recordLeader # leader PROVE EvenLaps'
    <2>1. readerAddrs' \in Seq(ready) /\ nextReader' \in Nat
      BY TypeStep, ReadyStays DEF PickInv, TypeOK
    <2>2. served' = [a \in ready |-> 0]
      BY <1>2 DEF RebuildReaders
    <2>3. CASE readerAddrs' # <<>>
      <3>. DEFINE L == Len(readerAddrs')
                  turn == nextReader' % L
      <3>1. L \in Nat \ {0}
        BY <2>1, <2>3
      <3>2. turn \in 0..(L - 1)
        BY <2>1, <3>1, Division
      <3>. HIDE DEF turn
      <3>3. \A i \in 1..L : served'[readerAddrs'[i]] =
                0 + IF Passed(turn, turn, i - 1) THEN 1 ELSE 0
        BY <2>1, <2>2, <3>2 DEF Passed
      <3>4. PICK first \in 0..(L - 1) : first = turn
        BY <3>2
      <3>5. Laps(first, 0, nextReader % Len(readerAddrs))'
        BY <2>1, <3>3, <3>4 DEF Laps, turn
      <3>. QED  BY <3>4, <3>5 DEF EvenLaps
    <2>. QED  BY <2>3 DEF EvenLaps
  <1>3. ASSUME NEW g \in Callers, RebuildReaders(g), recordLeader = leader PROVE EvenLaps'
    BY <1>1, <1>3 DEF RebuildReaders
  <1>4. ASSUME NEW g \in Callers, NEW k \in {"read", "write"}, StartPick(g, k)
        PROVE  EvenLaps'
    BY <1>1, <1>4 DEF StartPick, sharedVars
  <1>5. ASSUME NEW g \in Callers, CompareLeader(g) \/ AnnounceWriter(g) PROVE EvenLaps'
    BY <1>1, <1>5 DEF CompareLeader, AnnounceWriter, sharedVars, historyVars
  <1>6. ASSUME NEW g \in Callers, FallBackToWriter(g) \/ PickWriter(g) PROVE EvenLaps'
    BY <1>1, <1>6 DEF FallBackToWriter, PickWriter, sharedVars, historyVars
  <1>7. CASE SetLeader \/ UNCHANGED vars
    BY <1>1, <1>7 DEF SetLeader, vars, sharedVars, historyVars
  <1>. QED
    BY <1>2, <1>3, <1>4, <1>5, <1>6, <1>7, LapsStep DEF Next, UpdateLeader, Choose

\* Reads are spread evenly over the followers, for every number of them and
\* of callers, although the list is rebuilt while nextReader goes on.
THEOREM SharesAreEven == Spec => []RoundRobinBalanced
  <1>1. Init => EvenLaps
    BY DEF Init, EvenLaps
  <1>2. PickInv /\ EvenLaps => RoundRobinBalanced
    <2>. SUFFICES ASSUME PickInv, EvenLaps, NEW i \in DOMAIN readerAddrs,
                         NEW j \in DOMAIN readerAddrs
                  PROVE  served[readerAddrs[i]] <= served[readerAddrs[j]] + 1
      BY DEF RoundRobinBalanced
    <2>1. readerAddrs \in Seq(ready) /\ readerAddrs # <<>>
      BY DEF PickInv, TypeOK
    <2>2. PICK first \in 0..(Len(readerAddrs) - 1), laps \in Nat :
              Laps(first, laps, nextReader % Len(readerAddrs))
      BY <2>1 DEF EvenLaps
    <2>3. /\ served[readerAddrs[i]] \in {laps, laps + 1}
          /\ served[readerAddrs[j]] \in {laps, laps + 1}
      BY <2>2 DEF Laps
    <2>. QED  BY <2>3
  <1>. QED  BY InitPick, NextPick, NextLaps, <1>1, <1>2, PTL DEF Spec

-----------------------------------------------------------------------------
(* The locks of rw.mu never wait in a circle.                              *)

\* The goroutine that announced itself as the writer waits for the readers,
\* and it is the only one that does.
WriterDrains ==
    /\ writer # NoCaller => pc[writer] = "drain"
    /\ \A g \in Callers : pc[g] = "drain" => writer = g

LEMMA NextWriterDrains ==
    ASSUME TypeOK, WriterDrains, [Next]_vars
    PROVE  WriterDrains'
  <1>. USE DEF givenVars, sharedVars, lockVars, callVars, historyVars, WriterDrains
  <1>1. ASSUME NEW g \in Callers, NEW k \in {"read", "write"}, StartPick(g, k)
        PROVE  WriterDrains'
    <2>1. pc[g] = "idle" /\ writer' = writer
      BY <1>1 DEF StartPick
    <2>2. pc' \in {pc, [pc EXCEPT ![g] = "compare"]}
      BY <1>1 DEF StartPick
    <2>. QED  BY <2>1, <2>2 DEF TypeOK
  <1>2. ASSUME NEW g \in Callers, CompareLeader(g) \/ FallBackToWriter(g)
        PROVE  WriterDrains'
    BY <1>2 DEF CompareLeader, FallBackToWriter, TypeOK
  <1>3. ASSUME NEW g \in Callers, AnnounceWriter(g) PROVE WriterDrains'
    BY <1>3, SentinelAssumption DEF AnnounceWriter, TypeOK
  <1>4. ASSUME NEW g \in Callers, RebuildReaders(g) PROVE WriterDrains'
    BY <1>4 DEF RebuildReaders, TypeOK
  <1>5. ASSUME NEW g \in Callers, ChooseReader(g) \/ PickWriter(g) PROVE WriterDrains'
    BY <1>5 DEF ChooseReader, PickWriter, TypeOK
  <1>6. CASE SetLeader \/ UNCHANGED vars
    BY <1>6 DEF SetLeader, vars
  <1>. QED
    BY <1>1, <1>2, <1>3, <1>4, <1>5, <1>6 DEF Next, UpdateLeader, Choose

\* Only a read that fell back to pickWriter keeps the read lock, and it did
\* so because the list had nobody for it.
LEMMA HoldersUpdate ==
    ASSUME PickInv, NEW g \in Callers, holds[g] = 1
    PROVE  /\ pc[g] \in {"compare", "lock", "drain", "writer"}
           /\ kind[g] = "read"
           /\ Followers(ready, leader) = {}
  <1>0. TypeOK /\ FallenBack /\ ReadersMatchLeader
    BY DEF PickInv
  <1>1. pc[g] # "idle" /\ readerAddrs = <<>> /\ then[g] = "writer"
    BY <1>0 DEF TypeOK, FallenBack
  <1>2. Followers(ready, leader) = {}
    BY <1>0, <1>1, NoFollower DEF TypeOK, Followers, Readers
  <1>3. pc[g] \in {"compare", "lock", "drain", "writer"}
    BY <1>0, <1>1 DEF TypeOK, FallenBack
  <1>4. kind[g] = "read"
    BY <1>0, <1>1 DEF TypeOK, FallenBack
  <1>. QED  BY <1>2, <1>3, <1>4

LEMMA StuckIsTrapped ==
    ASSUME PickInv, WriterDrains, Stuck
    PROVE  Trapped /\ Followers(ready, leader) = {}
  <1>0. TypeOK
    BY DEF PickInv
  <1>1. PICK g \in Callers : pc[g] # "idle"
    BY DEF Stuck
  <1>2. writer # NoCaller
    <2>. SUFFICES ASSUME writer = NoCaller PROVE CanStep(g)
      BY DEF Stuck
    <2>1. pc[g] # "drain"
      BY SentinelAssumption DEF WriterDrains
    <2>. QED  BY <1>0, <1>1, <2>1 DEF CanStep, TypeOK
  <1>3. writer \in Callers /\ pc[writer] = "drain"
    BY <1>0, <1>2 DEF WriterDrains, TypeOK
  <1>4. PICK h \in Callers : holds[h] # 0
    BY <1>3 DEF Stuck, CanStep
  <1>5. holds[h] = 1 /\ pc[h] # "writer"
    BY <1>0, <1>4 DEF Stuck, CanStep, TypeOK
  <1>. QED  BY <1>2, <1>5, HoldersUpdate DEF Trapped

\* The only way in which Picks block each other for ever is a read that asks
\* for rw.mu again while it keeps its read lock (pickReader calling
\* pickWriter), and it takes a list without followers: for every number of
\* callers and every set of ready addresses, none and one included, and
\* whether or not a leader is known.
THEOREM OnlyUpgradesDeadlock == Spec => []OnlyUpgradesBlock
  <1>1. Init => WriterDrains
    BY DEF Init, WriterDrains
  <1>2. PickInv /\ WriterDrains /\ [Next]_vars => WriterDrains'
    BY NextWriterDrains DEF PickInv
  <1>3. PickInv /\ WriterDrains => OnlyUpgradesBlock
    BY StuckIsTrapped DEF OnlyUpgradesBlock
  <1>. QED  BY InitPick, NextPick, <1>1, <1>2, <1>3, PTL DEF Spec

-----------------------------------------------------------------------------
(* The steps of a Pick are numbered.                                       *)

\* A caller's own step lowers the number of steps it has left.
LEMMA OwnStep ==
    ASSUME PickInv, NEW g \in Callers, UpdateLeader(g) \/ Choose(g)
    PROVE  StepsLeft(g)' < StepsLeft(g)
  <1>. USE DEF StepsLeft
  <1>0. TypeOK /\ FallenBack
    BY DEF PickInv
  <1>1. CASE CompareLeader(g)
    <2>1. pc[g] = "compare" /\ pc'[g] \in {then[g], "lock"} /\ then' = then
      BY <1>0, <1>1 DEF CompareLeader, TypeOK
    <2>. QED  BY <1>0, <2>1 DEF TypeOK
  <1>2. CASE AnnounceWriter(g)
    <2>1. pc[g] = "lock" /\ pc'[g] = "drain" /\ then' = then
      BY <1>0, <1>2 DEF AnnounceWriter, TypeOK
    <2>. QED  BY <1>0, <2>1 DEF TypeOK
  <1>3. CASE RebuildReaders(g)
    <2>1. pc[g] = "drain" /\ pc'[g] = then[g] /\ then' = then
      BY <1>0, <1>3 DEF RebuildReaders, TypeOK
    <2>. QED  BY <1>0, <2>1 DEF TypeOK
  <1>4. CASE ChooseReader(g)
    <2>1. pc[g] = "readers" /\ pc'[g] = "idle"
      BY <1>0, <1>4 DEF ChooseReader, TypeOK
    <2>. QED  BY <2>1
  <1>5. CASE FallBackToWriter(g)
    <2>1. pc[g] = "readers" /\ pc'[g] = "compare" /\ then'[g] = "writer"
      BY <1>0, <1>5 DEF FallBackToWriter, TypeOK
    <2>. QED  BY <2>1
  <1>6. CASE PickWriter(g)
    <2>1. pc[g] = "writer" /\ pc'[g] = "idle"
      BY <1>0, <1>6 DEF PickWriter, TypeOK
    <2>. QED  BY <2>1
  <1>. QED  BY <1>1, <1>2, <1>3, <1>4, <1>5, <1>6 DEF UpdateLeader, Choose

\* Nobody else's step touches a goroutine that is inside Pick.
LEMMA OthersStep ==
    ASSUME PickInv, NEW g \in Callers, pc[g] # "idle", [Next]_vars,
           ~(UpdateLeader(g) \/ Choose(g))
    PROVE  UNCHANGED <<pc[g], then[g], holds[g], cur[g]>>
  <1>. USE DEF givenVars, sharedVars, lockVars, callVars, historyVars
  <1>0. TypeOK
    BY DEF PickInv
  <1>1. CASE SetLeader \/ UNCHANGED vars
    BY <1>1 DEF SetLeader, vars
  <1>2. ASSUME NEW h \in Callers, NEW k \in {"read", "write"}, StartPick(h, k)
        PROVE  UNCHANGED <<pc[g], then[g], holds[g], cur[g]>>
    <2>1. h # g
      BY <1>2 DEF StartPick
    <2>2. /\ pc' \in {pc, [pc EXCEPT ![h] = "compare"]}
          /\ then' \in {then, [then EXCEPT ![h] = IF k = "read" THEN "readers" ELSE "writer"]}
          /\ UNCHANGED <<holds, cur>>
      BY <1>2 DEF StartPick
    <2>. QED  BY <1>0, <2>1, <2>2 DEF TypeOK
  <1>3. ASSUME NEW h \in Callers, h # g, UpdateLeader(h)
        PROVE  UNCHANGED <<pc[g], then[g], holds[g], cur[g]>>
    BY <1>0, <1>3 DEF UpdateLeader, CompareLeader, AnnounceWriter, RebuildReaders, TypeOK
  <1>4. ASSUME NEW h \in Callers, h # g, Choose(h)
        PROVE  UNCHANGED <<pc[g], then[g], holds[g], cur[g]>>
    BY <1>0, <1>4 DEF Choose, ChooseReader, FallBackToWriter, PickWriter, TypeOK
  <1>. QED  BY <1>1, <1>2, <1>3, <1>4 DEF Next

\* A Pick never goes round: however often the leader moves meanwhile, it has
\* at most eight steps of its own to make.
THEOREM PicksAreBounded == Spec => PickBounded
  <1>. DEFINE Bounded(g) == pc[g] # "idle" =>
                  \/ StepsLeft(g)' < StepsLeft(g)
                  \/ UNCHANGED <<pc[g], then[g], holds[g], cur[g]>>
  <1>1. PickInv /\ [Next]_vars => [\A g \in Callers : Bounded(g)]_vars
    BY OwnStep, OthersStep
  <1>. QED  BY InitPick, NextPick, <1>1, PTL DEF Spec, PickBounded
=============================================================================
