----------------------------- MODULE MCChallenge -----------------------------
(***************************************************************************)
(* An instance of Challenge for TLC: bytes of 2 bits and challenges of 3   *)
(* bytes; moduli of 7 bytes, so that as with 256 the text of a full number *)
(* is one of three bytes and a last one, and may lack a block.             *)
(***************************************************************************)
EXTENDS Challenge

\* PrivateKey of 67 and 71, of 83 and 59, and of 73 and 67, with the exponent 17.
MCBankKeys == {[n |-> 4757, e |-> 17, p |-> 67, q |-> 71, dp |-> 35, dq |-> 33, u |-> 17],
               [n |-> 4897, e |-> 17, p |-> 83, q |-> 59, dp |-> 29, dq |-> 41, u |-> 38]}
MCAtmKey   == [n |-> 4891, e |-> 17, p |-> 73, q |-> 67, dp |-> 17, dq |-> 35, u |-> 12]

\* They are written out so that TLC does not generate them again wherever they occur.
ASSUME MCKeysAreGenerated ==
    /\ MCBankKeys = {PrivateKey(67, 71, 17), PrivateKey(83, 59, 17)}
    /\ MCAtmKey = PrivateKey(73, 67, 17)

MCRandom == {1, 67, 1234, 4000}

MCWindowLimits == <<2, 4, 6>>
=============================================================================
