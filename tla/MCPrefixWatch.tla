--------------------------- MODULE MCPrefixWatch ---------------------------
(* Instances of PrefixWatch for TLC: all keys up to a length.              *)
EXTENDS PrefixWatch

ShortKeys == BoundedSeq(Bytes, 2)
AllKeys == BoundedSeq(Bytes, 3)
=============================================================================
