----------------------------- MODULE PrefixEnd -----------------------------
(***************************************************************************)
(* The range of keys that a prefix stands for: prefixEnd in client/util.go *)
(* (exported as PrefixEnd, and used by WithPrefix), and the order of keys  *)
(* by which the server reads the range.  A key is a sequence of bytes.     *)
(***************************************************************************)
EXTENDS Integers, Sequences

CONSTANT MaxByte       \* the largest byte, 0xff

ASSUME ByteAssumption == MaxByte \in Nat \ {0}

Bytes == 0..MaxByte

\* noPrefixEnd: no key follows all keys with the prefix; read to the end.
NoPrefixEnd == <<0>>

\* The positions at which the loop may stop, from the last one down.
Below(prefix) == {i \in 1..Len(prefix) : prefix[i] < MaxByte}

\* A mutant of LastBelow: the loop runs from the first byte up.
FirstBelow(prefix) ==
    CHOOSE i \in Below(prefix) : \A j \in Below(prefix) : i <= j

\* Where it stops.
LastBelow(prefix) ==
    CHOOSE i \in Below(prefix) : \A j \in Below(prefix) : j <= i

\* The byte at which the loop stops is incremented and those after it are
\* cut off.
prefixEnd(prefix) ==
    IF Below(prefix) = {} THEN NoPrefixEnd
    ELSE [SubSeq(prefix, 1, LastBelow(prefix)) EXCEPT ![LastBelow(prefix)] = @ + 1]

-----------------------------------------------------------------------------
(* The server: keys in byte order, a range includes its start and excludes *)
(* its end.                                                                *)

\* At the first place where they differ, key a has ended or is smaller.
Precedes(a, b) ==
    \E i \in 1..Len(b) :
        /\ \A j \in 1..(i - 1) : j <= Len(a) /\ a[j] = b[j]
        /\ i = Len(a) + 1 \/ (i <= Len(a) /\ a[i] < b[i])

InRange(key, start, end) ==
    /\ ~ Precedes(key, start)
    /\ end = NoPrefixEnd \/ Precedes(key, end)

HasPrefix(key, prefix) ==
    /\ Len(prefix) <= Len(key)
    /\ \A i \in 1..Len(prefix) : key[i] = prefix[i]
=============================================================================
