--------------------------- MODULE PrefixEndProofs ---------------------------
(***************************************************************************)
(* prefixEnd is right for every prefix and every key, whatever the number  *)
(* of bytes: [prefix, prefixEnd(prefix)) contains the keys with the prefix *)
(* and no others.                                                          *)
(***************************************************************************)
EXTENDS PrefixEnd, WellFoundedInduction, TLAPS

\* The elements of a key are bytes.
LEMMA ByteOf ==
    ASSUME NEW s \in Seq(Bytes)
    PROVE  \A i \in 1..Len(s) : s[i] \in Nat /\ s[i] <= MaxByte
<1>1. \A i \in 1..Len(s) : s[i] \in Bytes
  OBVIOUS
<1>2. \A b \in Bytes : b \in Nat /\ b <= MaxByte
  BY ByteAssumption DEF Bytes
<1> QED BY <1>1, <1>2

\* What it means that two numbers are not related by <.
LEMMA NotLess ==
    ASSUME NEW x \in Nat, NEW y \in Nat, ~ (<<x, y>> \in OpToRel(<, Nat))
    PROVE  y <= x
BY SMT DEF OpToRel

\* A set of numbers has a least element.
LEMMA LeastNumber ==
    ASSUME NEW T \in SUBSET Nat, T # {}
    PROVE  \E m \in T : \A k \in T : m <= k
<1>1. PICK m \in T : \A y \in T : ~ (<<y, m>> \in OpToRel(<, Nat))
  BY NatLessThanWellFounded, WFMin, Zenon
<1> QED BY <1>1, NotLess, Zenon

\* LastBelow is the last of the bytes that are not the largest one.
LEMMA LastBelowIsLast ==
    ASSUME NEW prefix \in Seq(Bytes), Below(prefix) # {}
    PROVE  /\ LastBelow(prefix) \in Below(prefix)
           /\ \A j \in Below(prefix) : j <= LastBelow(prefix)
<1> DEFINE T == {Len(prefix) - i : i \in Below(prefix)}
<1>1. T \in SUBSET Nat /\ T # {}
  BY DEF Below
<1>2. PICK m \in T : \A k \in T : m <= k
  BY <1>1, LeastNumber, Zenon
<1>3. PICK i \in Below(prefix) : m = Len(prefix) - i
  BY <1>2, Zenon
<1>4. \A j \in Below(prefix) : j <= i
  <2> TAKE j \in Below(prefix)
  <2>1. Len(prefix) - j \in T
    OBVIOUS
  <2> HIDE DEF T
  <2> QED BY <2>1, <1>2, <1>3 DEF Below
<1> HIDE DEF T
<1>5. \E l \in Below(prefix) : \A j \in Below(prefix) : j <= l
  BY <1>4
<1> QED BY <1>5 DEF LastBelow

\* What prefixEnd returns when some byte is not the largest one: as many
\* bytes as up to that one, which is greater by one.
LEMMA ProperEnd ==
    ASSUME NEW prefix \in Seq(Bytes), Below(prefix) # {}
    PROVE  LET n == LastBelow(prefix) e == prefixEnd(prefix)
           IN  /\ n \in 1..Len(prefix) /\ prefix[n] < MaxByte
               /\ Len(e) = n /\ e[n] = prefix[n] + 1
               /\ \A i \in 1..(n - 1) : e[i] = prefix[i]
               /\ \A i \in (n + 1)..Len(prefix) : prefix[i] = MaxByte
<1> DEFINE n == LastBelow(prefix)
<1>1. n \in 1..Len(prefix) /\ prefix[n] < MaxByte
  BY LastBelowIsLast DEF Below
<1>2. \A i \in (n + 1)..Len(prefix) : prefix[i] = MaxByte
  <2> TAKE i \in (n + 1)..Len(prefix)
  <2>1. i \in 1..Len(prefix) /\ i > n
    BY <1>1
  <2>2. ~ (prefix[i] < MaxByte)
    BY <2>1, LastBelowIsLast, <1>1 DEF Below
  <2>3. prefix[i] \in Bytes
    BY <2>1
  <2> QED BY <2>2, <2>3, ByteAssumption DEF Bytes
<1> DEFINE e == prefixEnd(prefix)  cut == SubSeq(prefix, 1, n)
<1>3. e = [cut EXCEPT ![n] = cut[n] + 1]
  BY DEF prefixEnd
<1> HIDE DEF n, e
<1>4. /\ cut \in Seq(Bytes) /\ Len(cut) = n
      /\ \A i \in 1..n : cut[i] = prefix[i]
  BY <1>1
<1> HIDE DEF cut
<1>5. /\ Len(e) = n /\ e[n] = prefix[n] + 1
      /\ \A i \in 1..(n - 1) : e[i] = prefix[i]
  BY <1>1, <1>3, <1>4
<1> QED BY <1>1, <1>2, <1>5 DEF n, e

\* The sentinel for "no end" is never the end of a prefix that has one.
THEOREM ProperEndIsNotTheSentinel ==
    ASSUME NEW prefix \in Seq(Bytes), Below(prefix) # {}
    PROVE  prefixEnd(prefix) # NoPrefixEnd
<1> DEFINE n == LastBelow(prefix)
<1>1. n \in 1..Len(prefix) /\ Len(prefixEnd(prefix)) = n
      /\ prefixEnd(prefix)[n] = prefix[n] + 1
  BY ProperEnd
<1>2. prefix[n] \in Nat
  BY <1>1, ByteOf
<1> HIDE DEF n
<1>3. prefix[n] + 1 # 0
  BY <1>2
<1>4. Len(NoPrefixEnd) = 1 /\ NoPrefixEnd[1] = 0
  BY DEF NoPrefixEnd
<1> QED BY <1>1, <1>3, <1>4

\* A key without the prefix differs from it in a first place.
LEMMA FirstDifference ==
    ASSUME NEW prefix \in Seq(Bytes), NEW key \in Seq(Bytes),
           ~ HasPrefix(key, prefix)
    PROVE  \E i \in 1..Len(prefix) :
               /\ i > Len(key) \/ key[i] # prefix[i]
               /\ \A j \in 1..(i - 1) : j <= Len(key) /\ key[j] = prefix[j]
<1> DEFINE T == {i \in 1..Len(prefix) : i > Len(key) \/ key[i] # prefix[i]}
<1>1. T \in SUBSET Nat
  OBVIOUS
<1>2. T # {}
  BY DEF HasPrefix
<1>3. PICK i \in T : \A j \in T : i <= j
  BY <1>1, <1>2, LeastNumber, Zenon
<1>4. \A j \in 1..(i - 1) : j \in 1..Len(prefix) /\ j \notin T
  BY <1>3
<1>5. \A j \in 1..(i - 1) : j <= Len(key) /\ key[j] = prefix[j]
  BY <1>4
<1> QED BY <1>3, <1>5

\* prefixEnd: for every prefix, the empty one and those of 0xff bytes
\* included, the range from the prefix to its end has the keys with the
\* prefix and no others.
THEOREM PrefixEndIsExact ==
    ASSUME NEW prefix \in Seq(Bytes), NEW key \in Seq(Bytes)
    PROVE  InRange(key, prefix, prefixEnd(prefix)) <=> HasPrefix(key, prefix)
<1> DEFINE n == LastBelow(prefix)  e == prefixEnd(prefix)
<1>b. \A i \in 1..Len(prefix) : prefix[i] \in Nat /\ prefix[i] <= MaxByte
  BY ByteOf
<1>k. \A i \in 1..Len(key) : key[i] \in Nat /\ key[i] <= MaxByte
  BY ByteOf
<1>e. ASSUME Below(prefix) # {}
      PROVE  /\ n \in 1..Len(prefix) /\ Len(e) = n
             /\ e[n] = prefix[n] + 1
             /\ \A i \in 1..(n - 1) : e[i] = prefix[i]
             /\ \A i \in Below(prefix) : i <= n
             /\ e # NoPrefixEnd
  BY <1>e, ProperEnd, LastBelowIsLast, ProperEndIsNotTheSentinel
<1>1. ASSUME HasPrefix(key, prefix)
      PROVE  InRange(key, prefix, e)
  <2>1. ~ Precedes(key, prefix)
    BY <1>1, <1>b, <1>k DEF HasPrefix, Precedes
  <2>2. CASE Below(prefix) = {}
    BY <2>1, <2>2 DEF InRange, prefixEnd
  <2>3. CASE Below(prefix) # {}
    <3> HIDE DEF n, e
    <3>1. n \in 1..Len(key) /\ key[n] = prefix[n] /\ prefix[n] \in Nat
      BY <1>1, <1>b, <1>e, <2>3 DEF HasPrefix
    <3>2. \A j \in 1..(n - 1) : j <= Len(key) /\ key[j] = e[j]
      BY <1>1, <1>e, <2>3 DEF HasPrefix
    <3>3. Precedes(key, e)
      BY <1>e, <2>3, <3>1, <3>2 DEF Precedes
    <3> QED BY <2>1, <3>3 DEF InRange
  <2> QED BY <2>2, <2>3
<1>2. ASSUME ~ HasPrefix(key, prefix)
      PROVE  ~ InRange(key, prefix, e)
  <2>1. PICK i \in 1..Len(prefix) :
            /\ i > Len(key) \/ key[i] # prefix[i]
            /\ \A j \in 1..(i - 1) : j <= Len(key) /\ key[j] = prefix[j]
    BY <1>2, FirstDifference
  <2>2. CASE i > Len(key)
    <3>1. i = Len(key) + 1
      BY <2>1, <2>2
    <3> QED BY <2>1, <3>1 DEF Precedes, InRange
  <2>3. CASE i <= Len(key) /\ key[i] < prefix[i]
    BY <2>1, <2>3 DEF Precedes, InRange
  <2>4. CASE i <= Len(key) /\ prefix[i] < key[i]
    <3>1. i \in Below(prefix)
      BY <2>4, <1>b, <1>k, ByteAssumption DEF Below
    <3>2. i <= n /\ e # NoPrefixEnd /\ n \in 1..Len(prefix) /\ Len(e) = n
          /\ e[n] = prefix[n] + 1 /\ \A j \in 1..(n - 1) : e[j] = prefix[j]
      BY <1>e, <3>1
    <3> HIDE DEF n, e
    <3>3. SUFFICES ASSUME NEW m \in 1..n,
                          \A j \in 1..(m - 1) : j <= Len(key) /\ key[j] = e[j],
                          m = Len(key) + 1 \/ (m <= Len(key) /\ key[m] < e[m])
                   PROVE  FALSE
      BY <3>2 DEF Precedes, InRange
    <3>4. CASE m < i
      BY <2>1, <2>4, <3>2, <3>3, <3>4, <1>b, <1>k
    <3>5. CASE m = i
      BY <2>4, <3>2, <3>3, <3>5, <1>b, <1>k
    <3>6. CASE m > i
      BY <2>4, <3>2, <3>3, <3>6, <1>b, <1>k
    <3> QED BY <3>4, <3>5, <3>6
  <2> QED BY <2>1, <2>2, <2>3, <2>4, <1>b, <1>k
<1> QED BY <1>1, <1>2
=============================================================================
