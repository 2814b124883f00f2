-------------------------------- MODULE Base64 --------------------------------
(***************************************************************************)
(* The text encoding of every message (cryptopp/basecode.cpp, base64.cpp): *)
(* the encoder fills characters of CharBits bits from bytes of ByteBits    *)
(* bits, pads the last block, and the Grouper breaks lines; the decoder    *)
(* skips whatever is no digit.  Base64 has ByteBits = 8 and CharBits = 6;  *)
(* what matters is that neither divides the other.                         *)
(*                                                                         *)
(* Both keep a partly filled unit between two inputs, so a text may come   *)
(* in any portions.  Each loop of the code is a function of the turns that *)
(* it has made.                                                            *)
(***************************************************************************)
EXTENDS Bytes

CONSTANTS
    CharBits,
    GroupSize,    \* MaxLineLength: 72
    Padding, NewLine, Nul    \* the characters '=', '\n' and the zero byte

Digit == [1..CharBits -> Bit]    \* a character of the alphabet, by its value

ASSUME Base64Assumption ==
    /\ CharBits \in Nat \ {0} /\ CharBits <= ByteBits
    /\ GroupSize \in Nat \ {0}
    /\ {Padding, NewLine, Nul} \cap Digit = {}
    /\ Padding # NewLine /\ Nul \notin {Padding, NewLine}

Char == Digit \cup {Padding, NewLine, Nul}

\* The characters of the least number of bits that is whole bytes and whole characters.
BlockSizes == {n \in 1..ByteBits : (n * CharBits) % ByteBits = 0}
OutputBlockSize == CHOOSE n \in BlockSizes : \A k \in BlockSizes : n <= k

-----------------------------------------------------------------------------
(* BaseN_Encoder: whole characters, the bits of the next, and what is left of the byte *)

\* The upper bits of the byte go to the character that is being filled.
Turn(e) ==
    LET room == CharBits - Len(e.part)
    IN  IF Len(e.rest) < room
        THEN [chars |-> e.chars, part |-> e.part \o e.rest, rest |-> <<>>]
        ELSE [chars |-> Append(e.chars, e.part \o SubSeq(e.rest, 1, room)), part |-> <<>>,
              rest  |-> SubSeq(e.rest, room + 1, Len(e.rest))]

\* A byte takes no more turns than it has bits.
Turns(e, b) ==
    LET turn[i \in 0..ByteBits] ==
            IF i = 0 THEN [e EXCEPT !.rest = b] ELSE Turn(turn[i - 1])
    IN  turn
PutByte(e, b) == Turns(e, b)[ByteBits]

Encoding(bytes) ==
    LET encoding[i \in 0..Len(bytes)] ==
            IF i = 0 THEN [chars |-> <<>>, part |-> <<>>, rest |-> <<>>]
            ELSE PutByte(encoding[i - 1], bytes[i])
    IN  encoding

\* Mutant: the last character is what the memory held before.
FinishBare(e) == IF e.part = <<>> THEN e.chars ELSE Append(e.chars, e.part)

\* The end of the message: the last character is zero where no bit was put, and the last
\* block is filled up.
Finish(e) ==
    IF e.part = <<>> THEN e.chars
    ELSE Append(e.chars, e.part \o [i \in 1 .. CharBits - Len(e.part) |-> 0])
Pad(s) == s \o [i \in 1 .. (OutputBlockSize - (Len(s) % OutputBlockSize)) % OutputBlockSize |->
                   Padding]

\* Grouper: a line break before every group but the first, and at the end.
Group(g, c) ==
    IF g.counter = GroupSize
    THEN [text |-> g.text \o <<NewLine, c>>, counter |-> 1]
    ELSE [text |-> Append(g.text, c), counter |-> g.counter + 1]
Grouping(s) ==
    LET grouping[i \in 0..Len(s)] ==
            IF i = 0 THEN [text |-> <<>>, counter |-> 0] ELSE Group(grouping[i - 1], s[i])
    IN  grouping
BreakLines(s) == Append(Grouping(s)[Len(s)].text, NewLine)

Encode(bytes) == BreakLines(Pad(Finish(Encoding(bytes)[Len(bytes)])))

-----------------------------------------------------------------------------
(* BaseN_Decoder: whole bytes, and the upper bits of the next one *)

\* Mutant: the padding counts as zero bits.
PutCharPadded(d, c) ==
    LET bits == d.part \o (IF c \in Digit THEN c ELSE [i \in 1..CharBits |-> 0])
    IN  IF Len(bits) < ByteBits THEN [d EXCEPT !.part = bits]
        ELSE [bytes |-> Append(d.bytes, SubSeq(bits, 1, ByteBits)),
              part  |-> SubSeq(bits, ByteBits + 1, Len(bits))]

PutChar(d, c) ==
    LET bits == d.part \o c
    IN  IF c \notin Digit THEN d
        ELSE IF Len(bits) < ByteBits THEN [d EXCEPT !.part = bits]
        ELSE [bytes |-> Append(d.bytes, SubSeq(bits, 1, ByteBits)),
              part  |-> SubSeq(bits, ByteBits + 1, Len(bits))]

Decoding(text) ==
    LET decoding[i \in 0..Len(text)] ==
            IF i = 0 THEN [bytes |-> <<>>, part |-> <<>>] ELSE PutChar(decoding[i - 1], text[i])
    IN  decoding

\* The end of the message drops what is no whole byte.
Decode(text) == Decoding(text)[Len(text)].bytes
=============================================================================
