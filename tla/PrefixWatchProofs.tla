------------------------- MODULE PrefixWatchProofs -------------------------
(***************************************************************************)
(* Theorems about PrefixWatch: what is read with a prefix is what has the  *)
(* prefix, for keys of every length, logs of every length and options in   *)
(* every order.  The three parts meet here: the end of the range is exact  *)
(* (PrefixEndProofs), the responses arrive in order, without a gap and     *)
(* with an error or all of them (DirectStreamProofs), and response n is    *)
(* made from the n-th entry of the log that the range selects (below).     *)
(***************************************************************************)
EXTENDS PrefixWatch, DirectStreamProofs, PrefixEndProofs, FiniteSetTheorems

(***************************************************************************)
(* The n-th element of a finite set of numbers.                            *)
(***************************************************************************)

\* How many elements of S come no later than p.
Rank(S, p) == Cardinality({q \in S : q <= p})

\* A later element has a higher rank, and no rank is too high.
LEMMA RankIncreases ==
    ASSUME NEW S \in SUBSET Int, IsFiniteSet(S), NEW p \in S
    PROVE  /\ Rank(S, p) \in 1..Cardinality(S)
           /\ \A q \in S : p < q => Rank(S, p) < Rank(S, q)
<1> DEFINE U(q) == {r \in S : r <= q}
<1>1. \A q \in S : /\ IsFiniteSet(U(q)) /\ Cardinality(U(q)) \in Nat
                   /\ Cardinality(U(q)) <= Cardinality(S)
  <2> TAKE q \in S
  <2>1. U(q) \in SUBSET S
    OBVIOUS
  <2> QED BY <2>1, FS_Subset, FS_CardinalityType
<1>2. Cardinality(S) \in Nat
  BY FS_CardinalityType
<1>3. Cardinality(U(p)) # 0
  <2>1. p \in U(p)
    OBVIOUS
  <2> QED BY <1>1, <2>1, FS_EmptySet
<1>4. ASSUME NEW q \in S, p < q
      PROVE  Cardinality(U(p)) < Cardinality(U(q))
  <2>1. \A r \in S : r <= p => r <= q
    BY <1>4
  <2>2. U(p) # U(q)
    <3>1. q \in U(q) /\ q \notin U(p)
      BY <1>4
    <3> QED BY <3>1
  <2>3. Cardinality(U(p)) <= Cardinality(U(q)) /\ Cardinality(U(p)) # Cardinality(U(q))
    <3>1. U(p) \in SUBSET U(q)
      BY <2>1
    <3> QED BY <1>1, <2>2, <3>1, FS_Subset
  <2> HIDE DEF U
  <2> QED BY <1>1, <2>3
<1> HIDE DEF U
<1>5. \A q \in S : Rank(S, q) = Cardinality(U(q))
  BY DEF Rank, U
<1> QED BY <1>1, <1>2, <1>3, <1>4, <1>5

\* Every rank is that of an element.
LEMMA RankIsOnto ==
    ASSUME NEW S \in SUBSET Int, IsFiniteSet(S), NEW n \in 1..Cardinality(S)
    PROVE  \E p \in S : Rank(S, p) = n
<1> DEFINE N == 1..Cardinality(S)
           f == [p \in S |-> Rank(S, p)]
<1>1. Cardinality(S) \in Nat
  BY FS_CardinalityType
<1>2. IsFiniteSet(N) /\ Cardinality(N) = Cardinality(S)
  BY <1>1, FS_Interval
<1>3. f \in [S -> N]
  BY RankIncreases
<1>4. \A p, q \in S : f[p] = f[q] => p = q
  <2> SUFFICES ASSUME NEW p \in S, NEW q \in S, p # q PROVE Rank(S, p) # Rank(S, q)
    OBVIOUS
  <2>1. p < q \/ q < p
    OBVIOUS
  <2>2. Rank(S, p) \in N /\ Rank(S, q) \in N
    BY RankIncreases
  <2>3. Rank(S, p) < Rank(S, q) \/ Rank(S, q) < Rank(S, p)
    BY <2>1, RankIncreases
  <2> QED BY <2>2, <2>3
<1>5. f \in Injection(S, N)
  BY <1>3, <1>4 DEF Injection, IsInjective
<1>6. f \in Surjection(S, N)
  BY <1>2, <1>5, FS_Injection
<1> QED BY <1>6 DEF Surjection

-----------------------------------------------------------------------------
(***************************************************************************)
(* The options of a watch.                                                 *)
(***************************************************************************)

\* The request after the first i options, for every i: the function that
\* Watch takes the last value of exists.
LEMMA RequestsExist ==
    ASSUME NEW k, NEW opts, Len(opts) \in Nat
    PROVE  \E req : req = [i \in 0..Len(opts) |->
               IF i = 0 THEN NewWatchRequest(k) ELSE decorateWatchReq(req[i - 1], opts[i])]
<1> DEFINE L == Len(opts)
           Step(r, i) == r[i] = IF i = 0 THEN NewWatchRequest(k)
                                         ELSE decorateWatchReq(r[i - 1], opts[i])
           T == {n \in 0..L : ~ \E r : \A i \in 0..n : Step(r, i)}
<1>1. T = {}
  <2> SUFFICES ASSUME T # {} PROVE FALSE
    OBVIOUS
  <2>1. PICK n \in T : \A m \in T : n <= m
    <3>1. T \in SUBSET Nat
      OBVIOUS
    <3> HIDE DEF T
    <3> QED BY <3>1, LeastNumber, Zenon
  <2>2. CASE n = 0
    <3>1. Step([i \in 0..L |-> NewWatchRequest(k)], 0)
      OBVIOUS
    <3>2. \A i \in 0..n : Step([j \in 0..L |-> NewWatchRequest(k)], i)
      BY <2>2, <3>1
    <3> QED BY <2>1, <3>2
  <2>3. CASE n # 0
    <3>1. n \in 1..L /\ n - 1 \in 0..L /\ n - 1 \notin T
      <4>1. n \in 0..L
        OBVIOUS
      <4> HIDE DEF T
      <4> QED BY <4>1, <2>1, <2>3
    <3>2. PICK r : \A i \in 0..(n - 1) : Step(r, i)
      BY <3>1
    <3> DEFINE g == [i \in 0..L |-> IF i = n THEN decorateWatchReq(r[n - 1], opts[n])
                                              ELSE r[i]]
    <3>3. \A i \in 0..(n - 1) : g[i] = r[i]
      BY <3>1
    <3>4. \A i \in 0..n : Step(g, i)
      <4> TAKE i \in 0..n
      <4>1. CASE i = n
        <5>1. g[n - 1] = r[n - 1] /\ g[n] = decorateWatchReq(r[n - 1], opts[n])
          BY <3>1, <3>3
        <5> QED BY <2>3, <4>1, <5>1
      <4>2. CASE i # n
        <5>1. i \in 0..(n - 1) /\ (i # 0 => i - 1 \in 0..(n - 1))
          BY <4>2, <3>1
        <5>2. g[i] = r[i] /\ (i # 0 => g[i - 1] = r[i - 1]) /\ Step(r, i)
          BY <3>2, <3>3, <5>1
        <5> QED BY <5>2
      <4> QED BY <4>1, <4>2
    <3> HIDE DEF g
    <3> QED BY <2>1, <3>4
  <2> QED BY <2>2, <2>3
<1>2. PICK r : \A i \in 0..L : Step(r, i)
  BY <1>1
<1> DEFINE req == [i \in 0..L |-> r[i]]
<1>3. \A i \in 0..L : req[i] = r[i] /\ (i # 0 => req[i - 1] = r[i - 1])
  OBVIOUS
<1>4. req = [i \in 0..L |->
          IF i = 0 THEN NewWatchRequest(k) ELSE decorateWatchReq(req[i - 1], opts[i])]
  BY <1>2, <1>3
<1> QED BY <1>4

\* A listing of a finite set has every element.
LEMMA ListedAll ==
    ASSUME NEW S, IsFiniteSet(S), NEW s \in SetToSeqs(S)
    PROVE  /\ Len(s) = Cardinality(S) /\ Len(s) \in Nat
           /\ \A i \in 1..Len(s) : s[i] \in S
           /\ \A e \in S : \E i \in 1..Len(s) : s[i] = e
<1> DEFINE N == 1..Cardinality(S)
<1>1. Cardinality(S) \in Nat
  BY FS_CardinalityType
<1>2. s \in [N -> S] /\ \A i, j \in N : i # j => s[i] # s[j]
  BY DEF SetToSeqs
<1>3. s \in Seq(S) /\ Len(s) = Cardinality(S)
  BY <1>1, <1>2
<1>4. s \in Injection(N, S)
  BY <1>2 DEF Injection, IsInjective
<1>5. s \in Surjection(N, S)
  BY <1>1, <1>4, FS_Injection, FS_Interval
<1> QED BY <1>1, <1>2, <1>3, <1>5 DEF Surjection

\* What a request for key k and revision rev can be in between.
Asking(k, rev) ==
    [key : {k}, end : {<<>>, prefixEnd(k)}, revision : {0, rev},
     allowWatchBookmarks : BOOLEAN]

\* The options that a program gives to read a prefix.
Options(rev) == {WithPrefix, WithBookmark, WithRevision(rev)}

\* An option sets its own field, whatever was set before.
LEMMA OptionSets ==
    ASSUME NEW k, NEW rev, NEW r \in Asking(k, rev), NEW opt \in Options(rev)
    PROVE  LET d == decorateWatchReq(r, opt)
           IN  /\ d \in Asking(k, rev)
               /\ d.end = IF opt = WithPrefix THEN prefixEnd(k) ELSE r.end
               /\ d.revision = IF opt = WithRevision(rev) THEN rev ELSE r.revision
<1> USE DEF Asking, WithPrefix, WithBookmark, WithRevision
<1>1. CASE opt = WithPrefix
  <2>1. decorateWatchReq(r, opt) = [r EXCEPT !.end = prefixEnd(k)]
    BY <1>1 DEF decorateWatchReq, withPrefix
  <2> QED BY <1>1, <2>1
<1>2. CASE opt = WithBookmark
  <2>1. decorateWatchReq(r, opt) = [r EXCEPT !.allowWatchBookmarks = TRUE]
    BY <1>2 DEF decorateWatchReq, withBookMark
  <2> QED BY <1>2, <2>1
<1>3. CASE opt = WithRevision(rev)
  <2>1. decorateWatchReq(r, opt) = [r EXCEPT !.revision = rev]
    BY <1>3 DEF decorateWatchReq, withRevision
  <2> QED BY <1>3, <2>1
<1> QED BY <1>1, <1>2, <1>3 DEF Options

\* In whatever order the options are given, the request asks for the whole
\* prefix, from the revision on that the program wanted.
THEOREM WatchAsksForPrefix ==
    ASSUME NEW k, NEW rev \in Nat, NEW opts \in OptionLists(rev)
    PROVE  /\ Watch(k, opts).key = k
           /\ Watch(k, opts).end = prefixEnd(k)
           /\ Watch(k, opts).revision = rev
<1>0. PICK marks \in SUBSET {WithBookmark} :
          opts \in SetToSeqs({WithPrefix} \cup marks \cup Revisions(rev))
  BY DEF OptionLists
<1> DEFINE S == {WithPrefix} \cup marks \cup Revisions(rev)
           L == Len(opts)
<1>1. IsFiniteSet(S)
  <2>1. S \in SUBSET Options(rev)
    BY DEF Options, Revisions
  <2>2. IsFiniteSet(Options(rev))
    <3>1. Options(rev) = ({WithPrefix} \cup {WithBookmark}) \cup {WithRevision(rev)}
      BY DEF Options
    <3>2. IsFiniteSet({WithPrefix})
      BY FS_Singleton, Zenon
    <3>3. IsFiniteSet({WithPrefix} \cup {WithBookmark})
      BY <3>2, FS_AddElement, Zenon
    <3>4. IsFiniteSet(({WithPrefix} \cup {WithBookmark}) \cup {WithRevision(rev)})
      BY <3>3, FS_AddElement, Zenon
    <3> QED BY <3>1, <3>4
  <2> QED BY <2>1, <2>2, FS_Subset
<1>2. /\ L \in Nat
      /\ \A i \in 1..L : opts[i] \in S
      /\ \A e \in S : \E i \in 1..L : opts[i] = e
  BY <1>0, <1>1, ListedAll
<1>3. \A i \in 1..L : opts[i] \in Options(rev)
  BY <1>2 DEF Options, Revisions
<1>4. WithPrefix \in S /\ (rev # 0 => WithRevision(rev) \in S)
  BY DEF Revisions
<1> DEFINE req[i \in 0..L] ==
        IF i = 0 THEN NewWatchRequest(k) ELSE decorateWatchReq(req[i - 1], opts[i])
<1>5. Watch(k, opts) = req[L]
  BY DEF Watch
<1>6. req = [i \in 0..L |->
          IF i = 0 THEN NewWatchRequest(k) ELSE decorateWatchReq(req[i - 1], opts[i])]
  BY <1>2, RequestsExist
<1> HIDE DEF req, S, L
<1>7. /\ req[0] = NewWatchRequest(k)
      /\ \A i \in 1..L : req[i] = decorateWatchReq(req[i - 1], opts[i])
  <2>1. \A i \in 1..L : i \in 0..L /\ i # 0
    BY <1>2
  <2>2. 0 \in 0..L
    BY <1>2
  <2> QED BY <1>6, <2>1, <2>2
<1> DEFINE Sets(i) == /\ req[i] \in Asking(k, rev)
                      /\ (\E j \in 1..i : opts[j] = WithPrefix) => req[i].end = prefixEnd(k)
                      /\ (\E j \in 1..i : opts[j] = WithRevision(rev)) => req[i].revision = rev
           T == {i \in 0..L : ~ Sets(i)}
<1>8. Sets(0)
  BY <1>7 DEF NewWatchRequest, Asking
<1>9. ASSUME NEW i \in 1..L, Sets(i - 1) PROVE Sets(i)
  <2>1. req[i - 1] \in Asking(k, rev) /\ opts[i] \in Options(rev)
        /\ req[i] = decorateWatchReq(req[i - 1], opts[i])
    BY <1>3, <1>7, <1>9
  <2>2. /\ req[i] \in Asking(k, rev)
        /\ req[i].end = IF opts[i] = WithPrefix THEN prefixEnd(k) ELSE req[i - 1].end
        /\ req[i].revision = IF opts[i] = WithRevision(rev) THEN rev ELSE req[i - 1].revision
    BY <2>1, OptionSets
  <2>3. \A j \in 1..i : j = i \/ j \in 1..(i - 1)
    BY <1>2
  <2> QED BY <2>2, <2>3, <1>9
<1>10. T = {}
  <2> SUFFICES ASSUME T # {} PROVE FALSE
    OBVIOUS
  <2>1. PICK n \in T : \A m \in T : n <= m
    <3>1. T \in SUBSET Nat
      OBVIOUS
    <3> HIDE DEF T
    <3> QED BY <3>1, LeastNumber, Zenon
  <2>2. n \in 0..L /\ ~ Sets(n)
    OBVIOUS
  <2>3. n \in 1..L /\ n - 1 \in 0..L
    <3> HIDE DEF Sets, T
    <3> QED BY <2>2, <1>8, <1>2
  <2>4. n - 1 \notin T
    <3> HIDE DEF T
    <3> QED BY <2>1, <2>3
  <2>5. Sets(n - 1)
    BY <2>3, <2>4
  <2> HIDE DEF Sets, T
  <2> QED BY <1>9, <2>2, <2>3, <2>5
<1>11. Sets(L)
  <2> HIDE DEF Sets
  <2> QED BY <1>10, <1>2
<1>12. req[L].key = k /\ req[L].end = prefixEnd(k) /\ req[L].revision \in {0, rev}
  BY <1>2, <1>4, <1>11 DEF Asking
<1>13. rev # 0 => req[L].revision = rev
  BY <1>2, <1>4, <1>11
<1> QED BY <1>5, <1>12, <1>13

-----------------------------------------------------------------------------
(***************************************************************************)
(* A prefix is read by the stream of DirectStream.                         *)
(***************************************************************************)

LEMMA WatchSteps == [WatchNext]_watchVars => [Next]_vars
  BY DEF WatchNext, watchVars

\* Reading a prefix is a behaviour of the stream that DirectStream describes:
\* the request says which responses there are, and nothing else.
THEOREM WatchUsesStream == WatchSpec => Spec
<1>1. WatchInit => Init
  BY DEF WatchInit
<1> QED BY <1>1, WatchSteps, PTL DEF WatchSpec, Spec

\* Type correctness while a prefix is read.
THEOREM WatchTypeCorrect == WatchSpec => []TypeOK
  BY WatchUsesStream, DirectTypeCorrect, PTL

\* Reading a prefix, too, implements the abstract stream.
THEOREM WatchImplementsStream == WatchSpec => ImplementsMergedStream
  BY WatchUsesStream, DirectStreamImplemented, PTL

\* And it waits for nobody but the server.
THEOREM WatchWaitsForServer == WatchSpec => []OnlyServersBlock
  BY WatchUsesStream, NoDirectDeadlock, PTL

-----------------------------------------------------------------------------
(***************************************************************************)
(* What the caller has, in terms of the server's log.                      *)
(***************************************************************************)

\* What was asked for, and how many responses that makes.
Asked ==
    /\ log \in Seq(LogKeys \cup {Tick})
    /\ request.key \in PrefixKeys
    /\ request.end = prefixEnd(request.key)
    /\ First = (IF start = 0 THEN now ELSE start)
    /\ First \in Nat \ {0}
    /\ length[The] = Cardinality(Selected)

\* The i-th response that was read is response i.
Numbered == \A i \in DOMAIN got[The] : got[The][i] = i

PrefixInv == DirectInv /\ Asked /\ Numbered

LEMMA InitPrefix == WatchInit => PrefixInv
<1> SUFFICES ASSUME WatchInit PROVE PrefixInv
  OBVIOUS
<1>1. DirectInv
  BY InitDirect DEF WatchInit
<1>2. Numbered
  BY OneStream DEF WatchInit, Init, PumpInit, Numbered
<1>3. log \in Seq(LogKeys \cup {Tick})
  BY StreamAssumption DEF WatchInit, BoundedSeq, SeqOf
<1>4. length[The] = Cardinality(Selected)
  BY OneStream DEF WatchInit
<1>5. PICK k \in PrefixKeys :
          IF stage = "open"
          THEN /\ start \in 0..(Len(log) + 1)
               /\ \E opts \in OptionLists(start) : request = Watch(k, opts)
               /\ now \in IF start = 0 THEN 1..(Len(log) + 1) ELSE {1}
          ELSE start = 0 /\ request = RangeRequest(k) /\ now = 1
  BY DEF WatchInit
<1>6. /\ start \in Nat /\ now \in Nat \ {0}
      /\ request.key = k /\ request.end = prefixEnd(k) /\ request.revision = start
  <2>1. CASE stage = "open"
    <3>1. Len(log) \in Nat /\ start \in Nat
      BY <1>3, <1>5, <2>1
    <3>2. PICK opts \in OptionLists(start) : request = Watch(k, opts)
      BY <1>5, <2>1
    <3>3. /\ Watch(k, opts).key = k
          /\ Watch(k, opts).end = prefixEnd(k)
          /\ Watch(k, opts).revision = start
      BY <3>1, WatchAsksForPrefix
    <3>4. request.key = k /\ request.end = prefixEnd(k) /\ request.revision = start
      BY <3>2, <3>3
    <3>5. now \in Nat \ {0}
      BY <1>5, <2>1, <3>1
    <3> QED BY <3>1, <3>4, <3>5
  <2>2. CASE stage # "open"
    BY <1>5, <2>2 DEF RangeRequest, NewWatchRequest
  <2> QED BY <2>1, <2>2
<1>7. Asked
  BY <1>3, <1>4, <1>5, <1>6 DEF Asked, First
<1> QED BY <1>1, <1>2, <1>7 DEF PrefixInv

LEMMA NextPrefix == PrefixInv /\ [WatchNext]_watchVars => PrefixInv'
<1> SUFFICES ASSUME PrefixInv, [WatchNext]_watchVars PROVE PrefixInv'
  OBVIOUS
<1>1. DirectInv'
  BY NextDirect, WatchSteps DEF PrefixInv
<1>2. UNCHANGED <<request, start, log, now>> /\ UNCHANGED length
  BY DEF WatchNext, watchVars, vars, requestVars, Next, ListFails, ListEmpty,
         ListPartitions, OpenStream, PumpStep, CallerReads, CallerEnds, CtxDone
<1>3. Asked'
  BY <1>2 DEF PrefixInv, Asked, Selected, First
<1>4. Numbered'
  <2>1. CASE CallerReads
    <3>1. PICK r \in input[The] : Read(r)
      BY <2>1 DEF CallerReads
    <3>2. got' = got \/ got'[The] = Append(got[The], Len(got[The]) + 1)
      BY <3>1, ReadStep DEF PrefixInv
    <3>3. got[The] \in Seq(0..MaxLength)
      BY Numbers DEF PrefixInv, DirectInv
    <3> QED BY <3>2, <3>3 DEF PrefixInv, Numbered
  <2>2. CASE ~ CallerReads
    <3>1. got' = got
      BY <2>2 DEF WatchNext, watchVars, vars, callerVars, Next, ListFails, ListEmpty,
             ListPartitions, OpenStream, PumpStep, CallerEnds, ReadEnd, CtxDone
    <3> QED BY <3>1 DEF PrefixInv, Numbered
  <2> QED BY <2>1, <2>2
<1> QED BY <1>1, <1>3, <1>4 DEF PrefixInv

THEOREM PrefixInvariant == WatchSpec => []PrefixInv
  BY InitPrefix, NextPrefix, PTL DEF WatchSpec

\* Position lists the selected entries in the order of the log.
LEMMA PositionsListSelected ==
    ASSUME Asked
    PROVE  LET N == Cardinality(Selected)
           IN  /\ N \in Nat
               /\ Selected \in SUBSET Nat
               /\ \A n \in 1..N : Position(n) \in Selected
               /\ \A m, n \in 1..N : m < n => Position(m) < Position(n)
               /\ \A p \in Selected : \E n \in 1..N : Position(n) = p
<1> DEFINE N == Cardinality(Selected)
<1>1. Selected \in SUBSET Nat /\ Selected \in SUBSET Int /\ IsFiniteSet(Selected)
  <2>1. First \in Int /\ Len(log) \in Int /\ First > 0
    BY DEF Asked
  <2>2. IsFiniteSet(First..Len(log)) /\ Selected \in SUBSET (First..Len(log))
    BY <2>1, FS_Interval DEF Selected
  <2>3. First..Len(log) \subseteq Nat /\ Nat \subseteq Int
    BY <2>1
  <2>4. IsFiniteSet(Selected)
    BY <2>2, FS_Subset, Zenon
  <2> QED BY <2>2, <2>3, <2>4
<1>2. N \in Nat
  BY <1>1, FS_CardinalityType
<1>3. \A n \in 1..N : Position(n) \in Selected /\ Rank(Selected, Position(n)) = n
  BY <1>1, RankIsOnto DEF Position, Rank
<1>4. \A p, q \in Selected : Rank(Selected, p) = Rank(Selected, q) => p = q
  <2> SUFFICES ASSUME NEW p \in Selected, NEW q \in Selected, p # q
               PROVE  Rank(Selected, p) # Rank(Selected, q)
    OBVIOUS
  <2>1. p < q \/ q < p
    BY <1>1
  <2>2. Rank(Selected, p) \in 1..N /\ Rank(Selected, q) \in 1..N
    BY <1>1, RankIncreases
  <2>3. Rank(Selected, p) < Rank(Selected, q) \/ Rank(Selected, q) < Rank(Selected, p)
    BY <1>1, <2>1, RankIncreases
  <2> QED BY <2>2, <2>3
<1>5. \A p \in Selected : \E n \in 1..N : Position(n) = p
  BY <1>1, <1>3, <1>4, RankIncreases
<1>6. ASSUME NEW m \in 1..N, NEW n \in 1..N, m < n
      PROVE  Position(m) < Position(n)
  <2>1. Position(m) \in Selected /\ Position(n) \in Selected
        /\ Rank(Selected, Position(m)) = m /\ Rank(Selected, Position(n)) = n
    BY <1>3
  <2>2. ~ (Position(n) < Position(m))
    <3> SUFFICES ASSUME Position(n) < Position(m) PROVE FALSE
      OBVIOUS
    <3>1. Rank(Selected, Position(n)) < Rank(Selected, Position(m))
      BY <1>1, <2>1, RankIncreases
    <3> HIDE DEF N
    <3> QED BY <1>2, <1>6, <2>1, <3>1
  <2>3. Position(m) # Position(n)
    <3>1. m # n
      BY <1>6
    <3> QED BY <2>1, <3>1
  <2> DEFINE x == Position(m)  y == Position(n)
  <2>4. x \in Nat /\ y \in Nat /\ ~ (y < x) /\ x # y
    BY <1>1, <2>1, <2>2, <2>3
  <2> HIDE DEF x, y
  <2>5. x < y
    BY <2>4
  <2> QED BY <2>5 DEF x, y
<1> QED BY <1>1, <1>2, <1>3, <1>5, <1>6

\* The range selects the entries with the prefix, and bookmarks.
LEMMA SelectedIsWanted ==
    ASSUME Asked
    PROVE  /\ \A p \in Selected : log[p] = Tick \/ p \in Wanted
           /\ Wanted \subseteq Selected
<1>1. ASSUME NEW p \in First..Len(log), log[p] # Tick
      PROVE  InRange(log[p], request.key, request.end) <=> HasPrefix(log[p], request.key)
  <2>1. p \in 1..Len(log)
    BY DEF Asked
  <2>2. log[p] \in LogKeys
    BY <1>1, <2>1 DEF Asked
  <2>3. log[p] \in Seq(Bytes) /\ request.key \in Seq(Bytes)
    BY <2>2, KeyAssumption DEF Asked
  <2> QED BY <2>3, PrefixEndIsExact DEF Asked
<1> QED BY <1>1 DEF Selected, Wanted, Asked

\* Watch and RangeStream of a prefix (Watch, WithPrefix, PrefixEnd and
\* fetchWatchResp together): for keys and logs of every length and options in
\* every order, the caller gets the entries with the prefix, from the revision
\* on that it asked for, no others but bookmarks, in order, without a gap, and
\* all of them when the channel is closed without an error.
THEOREM PrefixDelivered == WatchSpec => []DeliversPrefix
<1>1. PrefixInv => DeliversPrefix
  <2> SUFFICES ASSUME PrefixInv PROVE DeliversPrefix
    OBVIOUS
  <2> DEFINE N == Cardinality(Selected)
             G == Len(got[The])
  <2>1. /\ G \in Nat /\ N \in Nat /\ G <= N
        /\ ended /\ ~ gotError => G = N
        /\ DOMAIN got[The] = 1..G
    <3>1. /\ received[The] <= length[The] /\ received[The] \in Nat /\ length[The] \in Nat
          /\ received[The] = G + Count(input[The]) + Count(holding[The])
          /\ G \in Nat /\ got[The] \in Seq(0..MaxLength)
      BY Numbers DEF PrefixInv, DirectInv, OrderInv
    <3>2. Count(input[The]) \in {0, 1} /\ Count(holding[The]) \in {0, 1}
      BY DEF Count
    <3>3. ASSUME ended, ~ gotError
          PROVE  /\ received[The] = length[The]
                 /\ Count(input[The]) = 0 /\ Count(holding[The]) = 0
      BY <3>3 DEF PrefixInv, DirectInv, CloseInv, HandInv, OutcomeInv, Count
    <3>4. length[The] = N
      BY DEF PrefixInv, Asked
    <3> QED BY <3>1, <3>2, <3>3, <3>4
  <2>2. /\ Selected \in SUBSET Nat
        /\ \A n \in 1..N : Position(n) \in Selected
        /\ \A m, n \in 1..N : m < n => Position(m) < Position(n)
        /\ \A p \in Selected : \E n \in 1..N : Position(n) = p
    BY PositionsListSelected DEF PrefixInv
  <2>3. \A i \in 1..G : got[The][i] = i /\ Entry(i) = Position(i) /\ i \in 1..N
    BY <2>1 DEF PrefixInv, Numbered, Entry
  <2> HIDE DEF N, G
  <2>4. \A i, j \in 1..G : i < j => Entry(i) < Entry(j)
    BY <2>2, <2>3
  <2>5. \A i \in 1..G : IsBookmark(got[The][i]) \/ Entry(i) \in Wanted
    BY <2>2, <2>3, SelectedIsWanted DEF PrefixInv, IsBookmark
  <2>6. ASSUME NEW p \in Wanted,
               (ended /\ ~ gotError) \/ (\E i \in 1..G : p <= Entry(i))
        PROVE  \E i \in 1..G : Entry(i) = p
    <3>1. PICK n \in 1..N : Position(n) = p
      BY <2>2, SelectedIsWanted DEF PrefixInv
    <3>2. n \in 1..G
      <4>1. CASE ended /\ ~ gotError
        BY <2>1, <4>1
      <4>2. CASE \E i \in 1..G : p <= Entry(i)
        <5>1. PICK i \in 1..G : p <= Position(i) /\ i \in 1..N
          BY <2>3, <4>2
        <5>2. Position(n) \in Nat /\ Position(i) \in Nat
          BY <2>2, <5>1
        <5>3. ~ (i < n)
          BY <2>2, <3>1, <5>1, <5>2
        <5> QED BY <2>1, <5>1, <5>3
      <4> QED BY <2>6, <4>1, <4>2
    <3> QED BY <2>3, <3>1, <3>2
  <2> QED BY <2>1, <2>4, <2>5, <2>6 DEF DeliversPrefix
<1> QED BY <1>1, PrefixInvariant, PTL
=============================================================================
