------------------------------ MODULE MCDialogue ------------------------------
(***************************************************************************)
(* An instance of Dialogue for TLC: bytes of 4 bits and characters of 3,   *)
(* so that 3 bytes make 4 characters as in base64, blocks of 2 bytes.      *)
(***************************************************************************)
EXTENDS Dialogue

\* Numbers as bits, and back.
Bits(n, v)  == [i \in 1..n |-> (v \div 2^(n - i)) % 2]
Value(b)    == CHOOSE v \in 0 .. 2^ByteBits - 1 : Bits(ByteBits, v) = b
Wording(s)  == [i \in 1..Len(s) |-> Bits(ByteBits, s[i])]
Chars(s)    == [i \in 1..Len(s) |-> Bits(CharBits, s[i])]

\* A permutation of the blocks: multiplication modulo the prime 257.
MCBlockCipher ==
    [b \in Block |-> LET x == (((16 * Value(b[1]) + Value(b[2]) + 1) * 101) % 257) - 1
                     IN  Wording(<<x \div 16, x % 16>>)]

MCIV == Wording(<<7, 12>>)

\* The second begins with the first, as "withdraw 10" with "withdraw 1"; the last is
\* what an ATM without a card file sends.
MCTyped   == {Wording(<<5, 9>>), Wording(<<5, 9, 3, 7, 2>>), Wording(<<6>>)}
MCValid   == MCTyped \ {Wording(<<6>>)}
MCAnswers == {Wording(<<8>>), Wording(<<2, 4, 2, 11, 13, 1>>)}

\* Nothing; padding and one digit, which is less than a byte; two; more than the
\* first request has.
MCTails == {<<>>, <<Padding>> \o Chars(<<3>>), Chars(<<0, 7>>), Chars(<<1, 2, 3, 4, 5, 6>>)}
=============================================================================
