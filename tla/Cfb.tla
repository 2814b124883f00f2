---------------------------------- MODULE Cfb ----------------------------------
(***************************************************************************)
(* The cipher of every message after the handshake: CFB_Mode over a block  *)
(* cipher (cryptopp/strciphr.cpp, modes.cpp).  One Encryption and one      *)
(* Decryption object per end live as long as the connection; their state   *)
(* is a register of one block and m_leftOver, the number of its bytes that *)
(* are still to be used as keystream.  Message lengths are arbitrary, so a *)
(* message may begin and end anywhere in a block.  `out' is what the last  *)
(* call put out.                                                           *)
(***************************************************************************)
EXTENDS Bytes

CONSTANTS
    BlockSize,
    BlockCipher    \* the permutation of blocks that the key selects

Block == [1..BlockSize -> Byte]

ASSUME CfbAssumption ==
    /\ BlockSize \in Nat \ {0}
    /\ BlockCipher \in [Block -> Block]

\* A cipher object, and what it put out.
Ciphers == [reg : Block, left : 0..BlockSize, out : Seq(Byte)]

XorBytes(s, t) == [i \in 1..Len(s) |-> Xor(s[i], t[i])]

\* CombineMessageAndShiftRegister, on the bytes of the register that are left over:
\* the ciphertext takes the place of the keystream.
Combine(cipher, dir, s) ==
    LET at  == BlockSize - cipher.left
        out == XorBytes(SubSeq(cipher.reg, at + 1, at + Len(s)), s)
        fed == IF dir = "encrypt" THEN out ELSE s
    IN  [reg  |-> [i \in 1..BlockSize |->
                      IF i - at \in 1..Len(s) THEN fed[i - at] ELSE cipher.reg[i]],
         left |-> cipher.left - Len(s),
         out  |-> cipher.out \o out]

\* TransformRegister: a block of keystream.
Transform(cipher) ==
    [reg |-> BlockCipher[cipher.reg], left |-> BlockSize, out |-> cipher.out]

\* Mutant: deciphering keeps the plaintext as the register.
IterateTurnPlain(t, dir) ==
    LET block == SubSeq(t.rest, 1, BlockSize)
        out   == XorBytes(BlockCipher[t.cipher.reg], block)
    IN  IF Len(t.rest) < BlockSize THEN t
        ELSE [cipher |-> [reg |-> out, left |-> 0, out |-> t.cipher.out \o out],
              rest   |-> SubSeq(t.rest, BlockSize + 1, Len(t.rest))]

\* Iterate: whole blocks at once.  Each is combined with the cipher of the ciphertext
\* block before it, the last of which becomes the register.
IterateTurn(t, dir) ==
    LET block == SubSeq(t.rest, 1, BlockSize)
        out   == XorBytes(BlockCipher[t.cipher.reg], block)
    IN  IF Len(t.rest) < BlockSize THEN t
        ELSE [cipher |-> [reg  |-> IF dir = "encrypt" THEN out ELSE block,
                          left |-> 0,
                          out  |-> t.cipher.out \o out],
              rest   |-> SubSeq(t.rest, BlockSize + 1, Len(t.rest))]

\* There are no more turns than bytes.
Iterations(cipher, dir, s) ==
    LET turn[i \in 0..Len(s)] ==
            IF i = 0 THEN [cipher |-> cipher, rest |-> s] ELSE IterateTurn(turn[i - 1], dir)
    IN  turn
Iterate(cipher, dir, s) == Iterations(cipher, dir, s)[Len(s)]

\* Whole blocks one by one, and then a part of one.
BlockTurn(t, dir) ==
    LET n == IF Len(t.rest) < BlockSize THEN Len(t.rest) ELSE BlockSize
    IN  IF t.rest = <<>> THEN t
        ELSE [cipher |-> Combine(Transform(t.cipher), dir, SubSeq(t.rest, 1, n)),
              rest   |-> SubSeq(t.rest, n + 1, Len(t.rest))]
BlockTurns(cipher, dir, s) ==
    LET turn[i \in 0..Len(s)] ==
            IF i = 0 THEN [cipher |-> cipher, rest |-> s] ELSE BlockTurn(turn[i - 1], dir)
    IN  turn
Blocks(cipher, dir, s) == BlockTurns(cipher, dir, s)[Len(s)].cipher

\* ProcessData: first what is left over of the register, then whole blocks, at once
\* if the memory is aligned, and then the rest.
ProcessData(cipher, dir, s, aligned) ==
    LET n     == IF Len(s) < cipher.left THEN Len(s) ELSE cipher.left
        begun == Combine([cipher EXCEPT !.out = <<>>], dir, SubSeq(s, 1, n))
        rest  == SubSeq(s, n + 1, Len(s))
        whole == Iterate(begun, dir, rest)
    IN  IF aligned /\ Len(rest) >= BlockSize
        THEN Blocks(whole.cipher, dir, whole.rest)
        ELSE Blocks(begun, dir, rest)

\* CipherResynchronize, on construction.
Resynchronize(iv) == Transform([reg |-> iv, left |-> 0, out |-> <<>>])
=============================================================================
