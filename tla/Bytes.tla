--------------------------------- MODULE Bytes ---------------------------------
(***************************************************************************)
(* Bytes, as the bits that shifts and exclusive ors work on, the most      *)
(* significant first.                                                      *)
(***************************************************************************)
EXTENDS Integers, Sequences

CONSTANT ByteBits    \* 8

ASSUME BytesAssumption == ByteBits \in Nat \ {0}

Bit  == {0, 1}
Byte == [1..ByteBits -> Bit]

Xor(a, b) == [i \in 1..ByteBits |-> IF a[i] = b[i] THEN 0 ELSE 1]

\* What ends a C string.
ZeroByte == [i \in 1..ByteBits |-> 0]
=============================================================================
