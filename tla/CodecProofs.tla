----------------------------- MODULE CodecProofs -----------------------------
(***************************************************************************)
(* The codecs of the dialogue for every message, byte size and key: base64 *)
(* of Base64.tla and CFB mode of Cfb.tla.                                  *)
(*                                                                         *)
(* Base64 is proved over its bits.  What an encoder has put out, with the  *)
(* bits that it holds, are the bits of the bytes it was given; the decoder *)
(* that reads the characters has these bits again, and gathers them into   *)
(* the same bytes (Follows).  So a text decodes to its bytes, RoundTrip,   *)
(* and a portion of a text to the beginning of them, PortionDecodes.       *)
(*                                                                         *)
(* CFB mode is proved against one byte at a time, Step: ProcessDataRuns.   *)
(* What a division of a message or its place in memory changes in          *)
(* ProcessData is then of no account, TwoCalls, and a receiver that is in  *)
(* step with the sender reads what was sent, and stays in step, Deciphers; *)
(* of a portion it reads the beginning, DeciphersAlike.                    *)
(***************************************************************************)
EXTENDS Base64, Cfb, MathFacts, SequenceTheorems

-----------------------------------------------------------------------------
(* Sequences *)

\* A sequence is what is before a place in it and what is behind.
LEMMA Split ==
    ASSUME NEW S, NEW s \in Seq(S), NEW n \in 0..Len(s)
    PROVE  /\ SubSeq(s, 1, n) \in Seq(S) /\ Len(SubSeq(s, 1, n)) = n
           /\ SubSeq(s, n + 1, Len(s)) \in Seq(S) /\ Len(SubSeq(s, n + 1, Len(s))) = Len(s) - n
           /\ SubSeq(s, 1, n) \o SubSeq(s, n + 1, Len(s)) = s
           /\ \A i \in 1..n : SubSeq(s, 1, n)[i] = s[i]
           /\ \A i \in 1 .. Len(s) - n : SubSeq(s, n + 1, Len(s))[i] = s[n + i]
  <1>1. Len(s) \in Nat /\ \A i \in 1..Len(s) : s[i] \in S
    BY LenProperties, ElementOfSeq
  <1>2. /\ SubSeq(s, 1, n) \in Seq(S)
        /\ Len(SubSeq(s, 1, n)) = IF 1 <= n THEN n - 1 + 1 ELSE 0
        /\ \A i \in 1 .. n - 1 + 1 : SubSeq(s, 1, n)[i] = s[1 + i - 1]
    <2>1. n \in Int /\ 1 \in Int /\ \A i \in 1..n : s[i] \in S
      BY <1>1
    <2> QED
      BY <2>1, SubSeqProperties
  <1>3. /\ SubSeq(s, n + 1, Len(s)) \in Seq(S)
        /\ Len(SubSeq(s, n + 1, Len(s))) = IF n + 1 <= Len(s) THEN Len(s) - (n + 1) + 1 ELSE 0
        /\ \A i \in 1 .. Len(s) - (n + 1) + 1 : SubSeq(s, n + 1, Len(s))[i] = s[(n + 1) + i - 1]
    <2>1. n + 1 \in Int /\ Len(s) \in Int /\ \A i \in n + 1 .. Len(s) : s[i] \in S
      BY <1>1
    <2> QED
      BY <2>1, SubSeqProperties
  <1>4. SubSeq(s, 1, n) \o SubSeq(s, n + 1, Len(s)) = SubSeq(s, 1, Len(s))
    <2>1. 1 \in 1 .. Len(s) + 1 /\ n \in 1 - 1 .. Len(s) /\ Len(s) \in n .. Len(s)
      BY <1>1
    <2> QED
      BY <2>1, ConcatAdjacentSubSeq
  <1>5. SubSeq(s, 1, Len(s)) = s
    BY SubSeqFull
  <1>6. /\ Len(SubSeq(s, 1, n)) = n /\ Len(SubSeq(s, n + 1, Len(s))) = Len(s) - n
        /\ \A i \in 1..n : SubSeq(s, 1, n)[i] = s[i]
        /\ \A i \in 1 .. Len(s) - n : SubSeq(s, n + 1, Len(s))[i] = s[n + i]
    BY <1>1, <1>2, <1>3
  <1> QED
    BY <1>2, <1>3, <1>4, <1>5, <1>6

\* What is before the seam of two sequences is the first, and what is behind the second.
LEMMA Seam ==
    ASSUME NEW S, NEW s \in Seq(S), NEW t \in Seq(S), NEW n, n = Len(s)
    PROVE  /\ SubSeq(s \o t, 1, n) = s
           /\ SubSeq(s \o t, n + 1, Len(s \o t)) = t
  <1>1. /\ s \o t \in Seq(S) /\ Len(s \o t) = Len(s) + Len(t)
        /\ \A i \in 1 .. Len(s) + Len(t) : (s \o t)[i] = IF i <= Len(s) THEN s[i] ELSE t[i - Len(s)]
    BY ConcatProperties
  <1>2. Len(s) \in Nat /\ Len(t) \in Nat /\ n \in 0..Len(s \o t)
    BY <1>1, LenProperties
  <1>3. /\ SubSeq(s \o t, 1, n) \in Seq(S) /\ Len(SubSeq(s \o t, 1, n)) = n
        /\ SubSeq(s \o t, n + 1, Len(s \o t)) \in Seq(S)
        /\ Len(SubSeq(s \o t, n + 1, Len(s \o t))) = Len(s \o t) - n
        /\ \A i \in 1..n : SubSeq(s \o t, 1, n)[i] = (s \o t)[i]
        /\ \A i \in 1 .. Len(s \o t) - n : SubSeq(s \o t, n + 1, Len(s \o t))[i] = (s \o t)[n + i]
    BY <1>1, <1>2, Split
  <1>4. \A i \in 1..Len(s) : SubSeq(s \o t, 1, n)[i] = s[i]
    BY <1>1, <1>2, <1>3
  <1>5. \A i \in 1..Len(t) : SubSeq(s \o t, n + 1, Len(s \o t))[i] = t[i]
    <2> SUFFICES ASSUME NEW i \in 1..Len(t)
                 PROVE  SubSeq(s \o t, n + 1, Len(s \o t))[i] = t[i]
      OBVIOUS
    <2>1. i \in 1 .. Len(s \o t) - n /\ n + i \in 1 .. Len(s) + Len(t) /\ ~(n + i <= Len(s))
          /\ (n + i) - Len(s) = i
      BY <1>1, <1>2
    <2> QED
      BY <1>1, <1>3, <2>1
  <1>6. Len(SubSeq(s \o t, n + 1, Len(s \o t))) = Len(t)
    BY <1>1, <1>2, <1>3
  <1>7. SubSeq(s \o t, 1, n) = s
    BY <1>3, <1>4, SeqEqual
  <1>8. SubSeq(s \o t, n + 1, Len(s \o t)) = t
    BY <1>3, <1>5, <1>6, SeqEqual
  <1> QED
    BY <1>7, <1>8

\* A function on 1..n is a sequence of n elements, and the other way round.
LEMMA FixedLength ==
    ASSUME NEW S, NEW n \in Nat
    PROVE  \A s : s \in [1..n -> S] <=> s \in Seq(S) /\ Len(s) = n
  <1>1. ASSUME NEW s \in [1..n -> S]
        PROVE  s \in Seq(S) /\ Len(s) = n
    <2>1. s \in Seq(S)
      BY SeqDef
    <2>2. Len(s) \in Nat /\ DOMAIN s = 1..Len(s) /\ DOMAIN s = 1..n
      BY <2>1, LenProperties
    <2> QED
      BY <2>1, <2>2
  <1>2. ASSUME NEW s \in Seq(S), Len(s) = n
        PROVE  s \in [1..n -> S]
    BY <1>2, LenProperties
  <1> QED
    BY <1>1, <1>2

\* The beginning of a sequence, up to its next element.
LEMMA OneMore ==
    ASSUME NEW S, NEW s \in Seq(S), NEW n \in 0 .. Len(s) - 1
    PROVE  SubSeq(s, 1, n + 1) = Append(SubSeq(s, 1, n), s[n + 1])
  <1>1. /\ Len(s) \in Nat /\ n + 1 \in 1..Len(s) /\ n + 1 \in 0..Len(s) /\ n \in 0..Len(s)
        /\ s[n + 1] \in S
    BY LenProperties, ElementOfSeq
  <1>2. /\ SubSeq(s, 1, n) \in Seq(S) /\ Len(SubSeq(s, 1, n)) = n
        /\ \A i \in 1..n : SubSeq(s, 1, n)[i] = s[i]
    BY <1>1, Split
  <1>3. /\ SubSeq(s, 1, n + 1) \in Seq(S) /\ Len(SubSeq(s, 1, n + 1)) = n + 1
        /\ \A i \in 1 .. n + 1 : SubSeq(s, 1, n + 1)[i] = s[i]
    BY <1>1, Split
  <1> DEFINE t == Append(SubSeq(s, 1, n), s[n + 1])
  <1>4. /\ t \in Seq(S) /\ Len(t) = n + 1
        /\ \A i \in 1..n : t[i] = s[i]
        /\ t[n + 1] = s[n + 1]
    BY <1>1, <1>2, AppendProperties
  <1>5. \A i \in 1 .. n + 1 : SubSeq(s, 1, n + 1)[i] = t[i]
    <2> SUFFICES ASSUME NEW i \in 1 .. n + 1
                 PROVE  SubSeq(s, 1, n + 1)[i] = t[i]
      OBVIOUS
    <2>1. i \in 1..n \/ i = n + 1
      BY <1>1
    <2> QED
      BY <1>3, <1>4, <2>1
  <1> HIDE DEF t
  <1>6. SubSeq(s, 1, n + 1) = t
    BY <1>3, <1>4, <1>5, SeqEqual
  <1> QED
    BY <1>6 DEF t

-----------------------------------------------------------------------------
(* The decoder *)

Decoders == {d \in [bytes : Seq(Byte), part : Seq(Bit)] : Len(d.part) < ByteBits}

Empty == [bytes |-> <<>>, part |-> <<>>]

\* What the decoder keeps of a text.
Read(text) == Decoding(text)[Len(text)]

\* What is assumed of the sizes, for arithmetic.
LEMMA Numbers ==
    ByteBits \in Nat /\ CharBits \in Nat /\ 0 < ByteBits /\ 0 < CharBits /\ CharBits <= ByteBits
  BY BytesAssumption, Base64Assumption

\* What is assumed of the sizes and of the characters, without names.
LEMMA Sizes ==
    /\ ByteBits \in Nat /\ CharBits \in Nat /\ 0 < ByteBits /\ 0 < CharBits /\ CharBits <= ByteBits
    /\ Byte = [1..ByteBits -> Bit] /\ Digit = [1..CharBits -> Bit] /\ Digit \subseteq Char
    /\ Padding \in Char /\ Padding \notin Digit /\ NewLine \in Char /\ NewLine \notin Digit
    /\ Nul \in Char /\ Nul \notin Digit
    /\ Padding # NewLine /\ Nul # Padding /\ Nul # NewLine
  <1>1. {Padding, NewLine, Nul} \cap Digit = {}
    BY Base64Assumption
  <1>2. Padding \notin Digit /\ NewLine \notin Digit /\ Nul \notin Digit
    BY <1>1
  <1> QED
    BY <1>2, BytesAssumption, Base64Assumption DEF Byte, Digit, Char

\* A character fills up a byte, or does not; what is no digit changes nothing.
LEMMA PutCharSteps ==
    ASSUME NEW d \in Decoders, NEW c \in Char
    PROVE  /\ c \notin Digit => PutChar(d, c) = d
           /\ c \in Digit => d.part \o c \in Seq(Bit) /\ Len(d.part \o c) = Len(d.part) + CharBits
           /\ c \in Digit /\ Len(d.part \o c) < ByteBits =>
                 PutChar(d, c) = [bytes |-> d.bytes, part |-> d.part \o c]
           /\ c \in Digit /\ ~(Len(d.part \o c) < ByteBits) =>
                 /\ PutChar(d, c) = [bytes |-> Append(d.bytes, SubSeq(d.part \o c, 1, ByteBits)),
                                     part  |-> SubSeq(d.part \o c, ByteBits + 1, Len(d.part \o c))]
                 /\ SubSeq(d.part \o c, 1, ByteBits) \in Byte
                 /\ SubSeq(d.part \o c, ByteBits + 1, Len(d.part \o c)) \in Seq(Bit)
                 /\ Len(SubSeq(d.part \o c, ByteBits + 1, Len(d.part \o c)))
                        = Len(d.part) + CharBits - ByteBits
  <1> DEFINE bits == d.part \o c
  <1>1. d.part \in Seq(Bit) /\ d.bytes \in Seq(Byte) /\ d = [bytes |-> d.bytes, part |-> d.part]
        /\ Len(d.part) \in Nat
    BY LenProperties DEF Decoders
  <1>2. ASSUME c \in Digit
        PROVE  bits \in Seq(Bit) /\ Len(bits) = Len(d.part) + CharBits
    <2>1. c \in Seq(Bit) /\ Len(c) = CharBits
      BY <1>2, Sizes, FixedLength
    <2> QED
      BY <1>1, <2>1, ConcatProperties
  <1>3. ASSUME c \in Digit, ~(Len(bits) < ByteBits)
        PROVE  /\ SubSeq(bits, 1, ByteBits) \in Byte
               /\ SubSeq(bits, ByteBits + 1, Len(bits)) \in Seq(Bit)
               /\ Len(SubSeq(bits, ByteBits + 1, Len(bits))) = Len(d.part) + CharBits - ByteBits
    <2> HIDE DEF bits
    <2>1. ByteBits \in 0..Len(bits)
      BY <1>1, <1>2, <1>3, Sizes
    <2>2. /\ SubSeq(bits, 1, ByteBits) \in Seq(Bit) /\ Len(SubSeq(bits, 1, ByteBits)) = ByteBits
          /\ SubSeq(bits, ByteBits + 1, Len(bits)) \in Seq(Bit)
          /\ Len(SubSeq(bits, ByteBits + 1, Len(bits))) = Len(bits) - ByteBits
      BY <1>2, <1>3, <2>1, Split
    <2>3. SubSeq(bits, 1, ByteBits) \in Byte
      BY <2>2, Sizes, FixedLength
    <2>4. Len(bits) = Len(d.part) + CharBits
      BY <1>2, <1>3
    <2> QED
      BY <1>1, <2>2, <2>3, <2>4, Sizes
  <1>4. c \notin Digit => PutChar(d, c) = d
    BY DEF PutChar
  <1>5. c \in Digit /\ Len(bits) < ByteBits => PutChar(d, c) = [bytes |-> d.bytes, part |-> bits]
    BY <1>1 DEF PutChar
  <1>6. c \in Digit /\ ~(Len(bits) < ByteBits) =>
           PutChar(d, c) = [bytes |-> Append(d.bytes, SubSeq(bits, 1, ByteBits)),
                            part  |-> SubSeq(bits, ByteBits + 1, Len(bits))]
    BY DEF PutChar
  <1> QED
    BY <1>2, <1>3, <1>4, <1>5, <1>6

\* The bytes only become more, by at most one for a character.
LEMMA PutCharTypes ==
    ASSUME NEW d \in Decoders, NEW c \in Char
    PROVE  /\ PutChar(d, c) \in Decoders
           /\ Len(PutChar(d, c).bytes) \in {Len(d.bytes), Len(d.bytes) + 1}
           /\ \A i \in 1..Len(d.bytes) : PutChar(d, c).bytes[i] = d.bytes[i]
  <1>1. d.part \in Seq(Bit) /\ d.bytes \in Seq(Byte) /\ Len(d.part) \in Nat /\ Len(d.bytes) \in Nat
        /\ Len(d.part) < ByteBits
    BY LenProperties DEF Decoders
  <1>2. CASE c \notin Digit
    BY <1>1, <1>2, PutCharSteps
  <1>3. CASE c \in Digit /\ Len(d.part \o c) < ByteBits
    <2>1. PutChar(d, c) = [bytes |-> d.bytes, part |-> d.part \o c] /\ d.part \o c \in Seq(Bit)
      BY <1>3, PutCharSteps
    <2>2. [bytes |-> d.bytes, part |-> d.part \o c] \in Decoders
      BY <1>1, <1>3, <2>1 DEF Decoders
    <2> QED
      BY <2>1, <2>2
  <1>4. CASE c \in Digit /\ ~(Len(d.part \o c) < ByteBits)
    <2> DEFINE b == SubSeq(d.part \o c, 1, ByteBits)
               p == SubSeq(d.part \o c, ByteBits + 1, Len(d.part \o c))
    <2>1. /\ PutChar(d, c) = [bytes |-> Append(d.bytes, b), part |-> p]
          /\ b \in Byte /\ p \in Seq(Bit) /\ Len(p) = Len(d.part) + CharBits - ByteBits
      BY <1>4, PutCharSteps
    <2> HIDE DEF b, p
    <2>2. /\ Append(d.bytes, b) \in Seq(Byte) /\ Len(Append(d.bytes, b)) = Len(d.bytes) + 1
          /\ \A i \in 1..Len(d.bytes) : Append(d.bytes, b)[i] = d.bytes[i]
      BY <1>1, <2>1, AppendProperties
    <2>3. Len(p) < ByteBits
      BY <1>1, <2>1, Sizes
    <2>4. [bytes |-> Append(d.bytes, b), part |-> p] \in Decoders
      BY <2>1, <2>2, <2>3 DEF Decoders
    <2> QED
      BY <2>1, <2>2, <2>4
  <1> QED
    BY <1>2, <1>3, <1>4

\* The definition of Decoding, unfolded.
LEMMA DecodingSteps ==
    ASSUME NEW text \in Seq(Char)
    PROVE  /\ Decoding(text) \in [0..Len(text) -> Decoders]
           /\ Decoding(text)[0] = Empty
           /\ \A i \in 1..Len(text) : Decoding(text)[i] = PutChar(Decoding(text)[i - 1], text[i])
  <1> DEFINE n == Len(text)
             g == [y \in Decoders \X (1..n) |-> PutChar(y[1], text[y[2]])]
             F == Decoding(text)
             Body(f) == [i \in 0..n |-> IF i = 0 THEN Empty ELSE PutChar(f[i - 1], text[i])]
  <1>1. n \in Nat /\ \A i \in 1..n : text[i] \in Char
    BY LenProperties, ElementOfSeq
  <1>2. Empty \in Decoders
    BY Sizes, EmptySeq DEF Empty, Decoders
  <1>3. Closed(g, Decoders, n)
    BY <1>1, PutCharTypes DEF Closed
  <1>4. PICK f \in [0..n -> Decoders] : f[0] = Empty /\ \A i \in 1..n : f[i] = g[<<f[i - 1], i>>]
    <2> HIDE DEF g, n
    <2> QED
      BY <1>1, <1>2, <1>3, Recursion
  <1>5. \A i \in 1..n : f[i] = PutChar(f[i - 1], text[i])
    <2> SUFFICES ASSUME NEW i \in 1..n PROVE f[i] = PutChar(f[i - 1], text[i])
      OBVIOUS
    <2>1. f[i - 1] \in Decoders
      BY <1>1, <1>4
    <2> QED
      BY <1>4, <2>1
  <1>6. f = Body(f)
    BY <1>1, <1>4, <1>5
  <1>7. F = Body(F)
    <2>1. F = CHOOSE h : h = Body(h)
      BY DEF Decoding, Empty
    <2> HIDE DEF F, Body
    <2> QED
      BY <1>6, <2>1
  <1> HIDE DEF F
  <1>8. F[0] = Empty /\ \A i \in 1..n : F[i] = PutChar(F[i - 1], text[i])
    BY <1>1, <1>7
  <1>9. \A i \in 0..n : F[i] \in Decoders
    <2> DEFINE S == {i \in 0..n : F[i] \in Decoders}
    <2>1. 0 \in S
      BY <1>1, <1>2, <1>8
    <2>2. ASSUME NEW i \in 0 .. n - 1, i \in S
          PROVE  i + 1 \in S
      <3>1. i + 1 \in 1..n /\ (i + 1) - 1 = i /\ i + 1 \in 0..n
        BY <1>1
      <3>2. F[i + 1] = PutChar(F[i], text[i + 1])
        BY <1>8, <3>1
      <3>3. F[i] \in Decoders /\ text[i + 1] \in Char
        BY <1>1, <2>2, <3>1
      <3> QED
        BY <3>1, <3>2, <3>3, PutCharTypes
    <2> HIDE DEF S
    <2>3. 0..n \subseteq S
      BY <1>1, <2>1, <2>2, Upwards
    <2> QED
      BY <2>3 DEF S
  <1>10. F \in [0..n -> Decoders]
    BY <1>7, <1>9
  <1> QED
    BY <1>8, <1>10 DEF F

\* Two texts begin with the same n characters.
Agree(t, u, n) == n \in 0..Len(t) /\ n \in 0..Len(u) /\ \A i \in 1..n : t[i] = u[i]

\* What the decoder keeps depends on what it has read, and not on what will follow.
LEMMA DecodingAgrees ==
    ASSUME NEW t \in Seq(Char), NEW u \in Seq(Char), NEW n, Agree(t, u, n)
    PROVE  Decoding(t)[n] = Decoding(u)[n]
  <1> DEFINE S == {i \in 0..n : Decoding(t)[i] = Decoding(u)[i]}
  <1>1. n \in 0..Len(t) /\ n \in 0..Len(u) /\ n \in Nat /\ \A i \in 1..n : t[i] = u[i]
    BY DEF Agree
  <1>2. /\ Decoding(t)[0] = Empty /\ Decoding(u)[0] = Empty
        /\ \A i \in 1..Len(t) : Decoding(t)[i] = PutChar(Decoding(t)[i - 1], t[i])
        /\ \A i \in 1..Len(u) : Decoding(u)[i] = PutChar(Decoding(u)[i - 1], u[i])
    BY DecodingSteps
  <1>3. Len(t) \in Nat /\ Len(u) \in Nat
    BY LenProperties
  <1>4. 0 \in S
    BY <1>1, <1>2
  <1>5. ASSUME NEW i \in 0 .. n - 1, i \in S
        PROVE  i + 1 \in S
    <2>1. /\ i + 1 \in 1..n /\ i + 1 \in 1..Len(t) /\ i + 1 \in 1..Len(u) /\ i + 1 \in 0..n
          /\ (i + 1) - 1 = i
      BY <1>1, <1>3
    <2>2. /\ Decoding(t)[i + 1] = PutChar(Decoding(t)[i], t[i + 1])
          /\ Decoding(u)[i + 1] = PutChar(Decoding(u)[i], u[i + 1])
      BY <1>2, <2>1
    <2> QED
      BY <1>1, <1>5, <2>1, <2>2
  <1> HIDE DEF S
  <1>6. 0..n \subseteq S
    BY <1>1, <1>4, <1>5, Upwards
  <1> QED
    BY <1>1, <1>6 DEF S

\* A portion from the beginning is read as the text is, up to its end.
LEMMA ReadOfPortion ==
    ASSUME NEW t \in Seq(Char), NEW n \in 0..Len(t)
    PROVE  Read(SubSeq(t, 1, n)) = Decoding(t)[n]
  <1>1. /\ SubSeq(t, 1, n) \in Seq(Char) /\ Len(SubSeq(t, 1, n)) = n
        /\ \A i \in 1..n : SubSeq(t, 1, n)[i] = t[i]
    BY Split
  <1>2. n \in Nat /\ Len(t) \in Nat
    BY LenProperties
  <1>3. Agree(SubSeq(t, 1, n), t, n)
    BY <1>1, <1>2 DEF Agree
  <1> QED
    BY <1>1, <1>3, DecodingAgrees DEF Read

\* A decoder stays one, after each character of a text.
LEMMA ReadIsDecoder ==
    ASSUME NEW t \in Seq(Char)
    PROVE  Read(t) \in Decoders /\ \A i \in 0..Len(t) : Decoding(t)[i] \in Decoders
  BY DecodingSteps, LenProperties DEF Read

\* A decoder that has read nothing is empty.
LEMMA ReadEmpty == Read(<<>>) = Empty
  <1>1. <<>> \in Seq(Char) /\ Len(<<>>) = 0
    BY EmptySeq
  <1> QED
    BY <1>1, DecodingSteps DEF Read

\* To read one character more is to put it to what the text before has left.
LEMMA ReadAppend ==
    ASSUME NEW t \in Seq(Char), NEW c \in Char
    PROVE  Read(Append(t, c)) = PutChar(Read(t), c)
  <1> DEFINE u == Append(t, c)
  <1>1. /\ u \in Seq(Char) /\ Len(u) = Len(t) + 1
        /\ \A i \in 1..Len(t) : u[i] = t[i]
        /\ u[Len(t) + 1] = c
    BY AppendProperties
  <1>2. Len(t) \in Nat
    BY LenProperties
  <1> HIDE DEF u
  <1>3. Agree(u, t, Len(t))
    BY <1>1, <1>2 DEF Agree
  <1>4. Decoding(u)[Len(t)] = Decoding(t)[Len(t)]
    BY <1>1, <1>3, DecodingAgrees
  <1>5. Len(t) + 1 \in 1..Len(u) /\ (Len(t) + 1) - 1 = Len(t)
    BY <1>1, <1>2
  <1>6. Decoding(u)[Len(t) + 1] = PutChar(Decoding(u)[(Len(t) + 1) - 1], u[Len(t) + 1])
    BY <1>1, <1>5, DecodingSteps
  <1>7. Read(u) = PutChar(Read(t), c)
    BY <1>1, <1>4, <1>5, <1>6 DEF Read
  <1> QED
    BY <1>7 DEF u

\* Reading on adds bytes, at most one for a character, and takes none away.
LEMMA ReadGrows ==
    ASSUME NEW t \in Seq(Char), NEW m \in 0..Len(t), NEW n \in m..Len(t)
    PROVE  /\ Len(Decoding(t)[m].bytes) <= Len(Decoding(t)[n].bytes)
           /\ Len(Decoding(t)[n].bytes) <= Len(Decoding(t)[m].bytes) + (n - m)
           /\ \A i \in 1..Len(Decoding(t)[m].bytes) :
                 Decoding(t)[n].bytes[i] = Decoding(t)[m].bytes[i]
  <1> DEFINE D == Decoding(t)
             Grown(k) == /\ Len(D[m].bytes) <= Len(D[k].bytes)
                         /\ Len(D[k].bytes) <= Len(D[m].bytes) + (k - m)
                         /\ \A i \in 1..Len(D[m].bytes) : D[k].bytes[i] = D[m].bytes[i]
             S == {k \in 0 .. Len(t) - m : Grown(m + k)}
  <1>1. Len(t) \in Nat /\ m \in Nat /\ n \in Nat /\ n - m \in 0 .. Len(t) - m /\ Len(t) - m \in Nat
        /\ m + (n - m) = n
    BY LenProperties
  <1>2. /\ \A i \in 1..Len(t) : D[i] = PutChar(D[i - 1], t[i]) /\ t[i] \in Char
        /\ \A i \in 0..Len(t) : D[i] \in Decoders
    BY DecodingSteps, ReadIsDecoder, ElementOfSeq
  <1> HIDE DEF D
  <1>3. \A i \in 0..Len(t) : Len(D[i].bytes) \in Nat
    BY <1>2, LenProperties DEF Decoders
  <1>4. 0 \in S
    BY <1>1, <1>3
  <1>5. ASSUME NEW k \in 0 .. (Len(t) - m) - 1, k \in S
        PROVE  k + 1 \in S
    <2> DEFINE j == m + k
    <2>1. /\ j + 1 \in 1..Len(t) /\ (j + 1) - 1 = j /\ j \in 0..Len(t) /\ j + 1 \in 0..Len(t)
          /\ k + 1 \in 0 .. Len(t) - m /\ j + 1 = m + (k + 1)
      BY <1>1
    <2>2. Grown(j)
      BY <1>5
    <2> HIDE DEF j
    <2>3. D[j + 1] = PutChar(D[j], t[j + 1]) /\ D[j] \in Decoders /\ t[j + 1] \in Char
      BY <1>2, <2>1
    <2>4. /\ Len(D[j + 1].bytes) \in {Len(D[j].bytes), Len(D[j].bytes) + 1}
          /\ \A i \in 1..Len(D[j].bytes) : D[j + 1].bytes[i] = D[j].bytes[i]
      BY <2>3, PutCharTypes
    <2>5. Len(D[j + 1].bytes) \in Nat /\ Len(D[j].bytes) \in Nat /\ Len(D[m].bytes) \in Nat /\ j \in Nat
      BY <1>1, <1>3, <2>1
    <2>6. Grown(j + 1)
      <3> DEFINE x == Len(D[m].bytes)
                 y == Len(D[j].bytes)
                 z == Len(D[j + 1].bytes)
      <3>1. /\ x <= y /\ y <= x + (j - m) /\ z \in {y, y + 1}
            /\ x \in Nat /\ y \in Nat /\ z \in Nat
            /\ \A i \in 1..x : D[j].bytes[i] = D[m].bytes[i]
            /\ \A i \in 1..y : D[j + 1].bytes[i] = D[j].bytes[i]
        BY <2>2, <2>4, <2>5
      <3> HIDE DEF x, y, z
      <3>2. x <= z /\ z <= x + ((j + 1) - m)
        BY <1>1, <2>5, <3>1
      <3>3. \A i \in 1..x : D[j + 1].bytes[i] = D[m].bytes[i]
        BY <3>1
      <3> QED
        BY <3>2, <3>3 DEF x, y, z
    <2> HIDE DEF Grown
    <2> QED
      BY <2>1, <2>6
  <1>6. n - m \in S
    <2> HIDE DEF S
    <2> QED
      BY <1>1, <1>4, <1>5, Upwards
  <1>7. Grown(n)
    BY <1>1, <1>6
  <1> QED
    BY <1>7 DEF D

\* No character from m on is a digit.
NoDigits(t, m) == m \in 0..Len(t) /\ \A i \in m + 1 .. Len(t) : t[i] \notin Digit

\* What is no digit does not count.
LEMMA ReadSkips ==
    ASSUME NEW t \in Seq(Char), NEW m, NoDigits(t, m)
    PROVE  Read(t) = Decoding(t)[m]
  <1> DEFINE D == Decoding(t)
             S == {k \in 0 .. Len(t) - m : D[m + k] = D[m]}
  <1>1. /\ Len(t) \in Nat /\ m \in Nat /\ Len(t) - m \in Nat /\ m + (Len(t) - m) = Len(t)
        /\ m \in 0..Len(t) /\ \A i \in m + 1 .. Len(t) : t[i] \notin Digit
    BY LenProperties DEF NoDigits
  <1>2. /\ \A i \in 1..Len(t) : D[i] = PutChar(D[i - 1], t[i]) /\ t[i] \in Char
        /\ \A i \in 0..Len(t) : D[i] \in Decoders
    BY DecodingSteps, ReadIsDecoder, ElementOfSeq
  <1> HIDE DEF D
  <1>3. 0 \in S
    BY <1>1
  <1>4. ASSUME NEW k \in 0 .. (Len(t) - m) - 1, k \in S
        PROVE  k + 1 \in S
    <2>1. /\ (m + k) + 1 \in 1..Len(t) /\ ((m + k) + 1) - 1 = m + k /\ m + k \in 0..Len(t)
          /\ (m + k) + 1 \in m + 1 .. Len(t) /\ k + 1 \in 0 .. Len(t) - m
          /\ (m + k) + 1 = m + (k + 1)
      BY <1>1
    <2>2. D[(m + k) + 1] = PutChar(D[m + k], t[(m + k) + 1]) /\ t[(m + k) + 1] \in Char
          /\ D[m + k] \in Decoders /\ t[(m + k) + 1] \notin Digit
      BY <1>1, <1>2, <2>1
    <2>3. D[m + (k + 1)] = D[m + k]
      BY <2>1, <2>2, PutCharSteps
    <2> QED
      BY <1>4, <2>1, <2>3
  <1>5. Len(t) - m \in S
    <2> HIDE DEF S
    <2>1. 0 .. Len(t) - m \subseteq S
      BY <1>1, <1>3, <1>4, Upwards
    <2> QED
      BY <1>1, <2>1
  <1> QED
    BY <1>1, <1>5 DEF D, Read

-----------------------------------------------------------------------------
(* The encoder *)

\* ConcatAssociative, for bits.
LEMMA BitsAssociative ==
    ASSUME NEW s \in Seq(Bit), NEW t \in Seq(Bit), NEW u \in Seq(Bit)
    PROVE  (s \o t) \o u = s \o (t \o u)
  BY ConcatAssociative

\* If two sequences are divided at the same place, the parts are equal.
LEMMA SameSeam ==
    ASSUME NEW s \in Seq(Bit), NEW t \in Seq(Bit), NEW u \in Seq(Bit), NEW v \in Seq(Bit),
           s \o t = u \o v, Len(s) = Len(u)
    PROVE  s = u /\ t = v
  <1> DEFINE n == Len(s)
  <1>1. SubSeq(s \o t, 1, n) = s /\ SubSeq(s \o t, n + 1, Len(s \o t)) = t
    BY Seam
  <1>2. SubSeq(u \o v, 1, n) = u /\ SubSeq(u \o v, n + 1, Len(u \o v)) = v
    BY Seam
  <1> QED
    BY <1>1, <1>2

Encoders == {e \in [chars : Seq(Digit), part : Seq(Bit), rest : Seq(Bit)] :
                 Len(e.part) < CharBits}

\* How many bits the character that is being filled still takes.
Room(e) == CharBits - Len(e.part)

\* The first character of the next turn, if it is filled up, and what then remains.
Filled(e) == e.part \o SubSeq(e.rest, 1, Room(e))
Remains(e) == SubSeq(e.rest, Room(e) + 1, Len(e.rest))

\* The fields of an encoder: less than a character is being filled.
LEMMA EncoderTypes ==
    ASSUME NEW e \in Encoders
    PROVE  /\ e = [chars |-> e.chars, part |-> e.part, rest |-> e.rest]
           /\ e.chars \in Seq(Digit) /\ e.part \in Seq(Bit) /\ e.rest \in Seq(Bit)
           /\ Len(e.chars) \in Nat /\ Len(e.part) \in Nat /\ Len(e.rest) \in Nat
           /\ Len(e.part) < CharBits /\ Room(e) \in 1..CharBits
  <1>1. /\ e = [chars |-> e.chars, part |-> e.part, rest |-> e.rest]
        /\ e.chars \in Seq(Digit) /\ e.part \in Seq(Bit) /\ e.rest \in Seq(Bit)
        /\ Len(e.part) < CharBits
    BY DEF Encoders
  <1>2. Len(e.chars) \in Nat /\ Len(e.part) \in Nat /\ Len(e.rest) \in Nat
    BY <1>1, LenProperties
  <1>3. Room(e) \in 1..CharBits
    BY <1>1, <1>2, Sizes DEF Room
  <1> QED
    BY <1>1, <1>2, <1>3

\* A turn moves the bits of the byte to the character, as many as it takes, and none
\* is lost, repeated or moved before another.
LEMMA TurnSteps ==
    ASSUME NEW e \in Encoders
    PROVE  /\ Turn(e) \in Encoders
           /\ Len(e.rest) < Room(e) =>
                 Turn(e) = [chars |-> e.chars, part |-> e.part \o e.rest, rest |-> <<>>]
           /\ ~(Len(e.rest) < Room(e)) =>
                 /\ Turn(e) = [chars |-> Append(e.chars, Filled(e)), part |-> <<>>,
                               rest |-> Remains(e)]
                 /\ Filled(e) \in Digit
                 /\ Remains(e) \in Seq(Bit) /\ Len(Remains(e)) = Len(e.rest) - Room(e)
                 /\ Filled(e) \o Remains(e) = e.part \o e.rest
  <1>1. /\ e.chars \in Seq(Digit) /\ e.part \in Seq(Bit) /\ e.rest \in Seq(Bit)
        /\ Len(e.chars) \in Nat /\ Len(e.part) \in Nat /\ Len(e.rest) \in Nat
        /\ Len(e.part) < CharBits /\ Room(e) \in 1..CharBits
    BY EncoderTypes
  <1>2. <<>> \in Seq(Bit) /\ Len(<<>>) = 0
    BY EmptySeq
  <1>3. ASSUME Len(e.rest) < Room(e)
        PROVE  /\ Turn(e) = [chars |-> e.chars, part |-> e.part \o e.rest, rest |-> <<>>]
               /\ Turn(e) \in Encoders
    <2>1. Turn(e) = [chars |-> e.chars, part |-> e.part \o e.rest, rest |-> <<>>]
      BY <1>3 DEF Turn, Room
    <2>2. e.part \o e.rest \in Seq(Bit) /\ Len(e.part \o e.rest) = Len(e.part) + Len(e.rest)
      BY <1>1, ConcatProperties
    <2>3. Len(e.part \o e.rest) < CharBits
      <3> DEFINE x == Len(e.part)
                 y == Len(e.rest)
      <3>1. y < CharBits - x /\ x \in Nat /\ y \in Nat /\ Len(e.part \o e.rest) = x + y
        BY <1>1, <1>3, <2>2 DEF Room
      <3> HIDE DEF x, y
      <3> QED
        BY <3>1, Numbers
    <2>4. [chars |-> e.chars, part |-> e.part \o e.rest, rest |-> <<>>] \in Encoders
      BY <1>1, <1>2, <2>2, <2>3 DEF Encoders
    <2> QED
      BY <2>1, <2>4
  <1>4. ASSUME ~(Len(e.rest) < Room(e))
        PROVE  /\ Turn(e) = [chars |-> Append(e.chars, Filled(e)), part |-> <<>>,
                             rest |-> Remains(e)]
               /\ Turn(e) \in Encoders
               /\ Filled(e) \in Digit
               /\ Remains(e) \in Seq(Bit) /\ Len(Remains(e)) = Len(e.rest) - Room(e)
               /\ Filled(e) \o Remains(e) = e.part \o e.rest
    <2> DEFINE first == SubSeq(e.rest, 1, Room(e))
    <2>1. Turn(e) = [chars |-> Append(e.chars, Filled(e)), part |-> <<>>, rest |-> Remains(e)]
      BY <1>4 DEF Turn, Room, Filled, Remains
    <2>2. Room(e) \in 0..Len(e.rest)
      BY <1>1, <1>4, Numbers
    <2>3. /\ first \in Seq(Bit) /\ Len(first) = Room(e)
          /\ Remains(e) \in Seq(Bit) /\ Len(Remains(e)) = Len(e.rest) - Room(e)
          /\ first \o Remains(e) = e.rest
      <3>1. e.rest \in Seq(Bit)
        BY <1>1
      <3> QED
        BY <2>2, <3>1, Split DEF Remains
    <2>4. Filled(e) = e.part \o first
      BY DEF Filled
    <2> HIDE DEF first
    <2>5. Filled(e) \in Seq(Bit) /\ Len(Filled(e)) = Len(e.part) + Room(e)
      BY <1>1, <2>3, <2>4, ConcatProperties
    <2>6. Len(Filled(e)) = CharBits
      BY <1>1, <2>5, Numbers DEF Room
    <2>7. Filled(e) \in Digit
      BY <2>5, <2>6, Sizes, FixedLength
    <2>8. Filled(e) \o Remains(e) = e.part \o e.rest
      <3>1. (e.part \o first) \o Remains(e) = e.part \o (first \o Remains(e))
        BY <1>1, <2>3, BitsAssociative
      <3> QED
        BY <2>3, <2>4, <3>1
    <2>9. Append(e.chars, Filled(e)) \in Seq(Digit)
      BY <1>1, <2>7, AppendProperties
    <2>10. [chars |-> Append(e.chars, Filled(e)), part |-> <<>>, rest |-> Remains(e)] \in Encoders
      BY <1>2, <2>3, <2>9, Sizes DEF Encoders
    <2> QED
      BY <2>1, <2>3, <2>7, <2>8, <2>10
  <1> QED
    BY <1>3, <1>4

-----------------------------------------------------------------------------
(* What the decoder makes of what the encoder has put out *)

\* The bits of the bytes from the k-th to the i-th, of which there are at most two.
Ahead(bytes, k, i) ==
    IF k = i THEN <<>> ELSE IF k = i - 1 THEN bytes[i] ELSE bytes[i - 1] \o bytes[i]

\* A decoder d has decoded the first of i bytes, and has the rest of them in its part
\* of a byte and the bits that are still to come.
Follows(d, bits, bytes, i) ==
    /\ i \in 0..Len(bytes) /\ Len(d.bytes) \in 0..i /\ i - 2 <= Len(d.bytes)
    /\ \A j \in 1..Len(d.bytes) : d.bytes[j] = bytes[j]
    /\ d.part \o bits = Ahead(bytes, Len(d.bytes), i)

\* The bits of the bytes between k and i, of which there are two at most.
LEMMA AheadFacts ==
    ASSUME NEW bytes \in Seq(Byte), NEW i \in 0..Len(bytes), NEW k \in 0..i, i - 2 <= k
    PROVE  /\ Ahead(bytes, k, i) \in Seq(Bit)
           /\ k = i => Len(Ahead(bytes, k, i)) = 0
           /\ k = i - 1 => Len(Ahead(bytes, k, i)) = ByteBits
           /\ k = i - 2 => Len(Ahead(bytes, k, i)) = ByteBits + ByteBits
           /\ k # i => /\ bytes[k + 1] \in Byte
                       /\ bytes[k + 1] \in Seq(Bit) /\ Len(bytes[k + 1]) = ByteBits
                       /\ Ahead(bytes, k, i) = bytes[k + 1] \o Ahead(bytes, k + 1, i)
  <1>1. Len(bytes) \in Nat /\ i \in Nat /\ k \in Nat
    BY LenProperties
  <1>2. \A j \in 1..Len(bytes) : bytes[j] \in Byte /\ bytes[j] \in Seq(Bit) /\ Len(bytes[j]) = ByteBits
    BY Sizes, FixedLength, ElementOfSeq
  <1>3. <<>> \in Seq(Bit) /\ Len(<<>>) = 0
    BY EmptySeq
  <1>4. CASE k = i
    BY <1>1, <1>3, <1>4 DEF Ahead
  <1>5. CASE k = i - 1
    <2>1. i \in 1..Len(bytes) /\ k # i /\ k + 1 = i /\ k # i - 2
      BY <1>1, <1>5
    <2>2. Ahead(bytes, k, i) = bytes[i] /\ Ahead(bytes, k + 1, i) = <<>>
      BY <1>5, <2>1 DEF Ahead
    <2>3. bytes[i] = bytes[i] \o <<>>
      BY <1>2, <2>1, ConcatEmptySeq
    <2> QED
      BY <1>2, <2>1, <2>2, <2>3
  <1>6. CASE k = i - 2
    <2>1. /\ i \in 1..Len(bytes) /\ i - 1 \in 1..Len(bytes) /\ k + 1 = i - 1 /\ k # i /\ k # i - 1
          /\ i - 1 # i
      BY <1>1, <1>6
    <2>2. Ahead(bytes, k, i) = bytes[i - 1] \o bytes[i] /\ Ahead(bytes, k + 1, i) = bytes[i]
      BY <1>6, <2>1 DEF Ahead
    <2>3. /\ bytes[i - 1] \o bytes[i] \in Seq(Bit)
          /\ Len(bytes[i - 1] \o bytes[i]) = Len(bytes[i - 1]) + Len(bytes[i])
      BY <1>2, <2>1, ConcatProperties
    <2> QED
      BY <1>2, <2>1, <2>2, <2>3
  <1>7. k = i \/ k = i - 1 \/ k = i - 2
    BY <1>1
  <1> QED
    BY <1>4, <1>5, <1>6, <1>7

\* A decoder that is given a character of the bits to come still follows.
LEMMA DecoderFollows ==
    ASSUME NEW bytes \in Seq(Byte), NEW i, NEW d \in Decoders, NEW c \in Digit, NEW r \in Seq(Bit),
           Follows(d, c \o r, bytes, i)
    PROVE  Follows(PutChar(d, c), r, bytes, i)
  <1> DEFINE k == Len(d.bytes)
             q == d.part \o c
             e == PutChar(d, c)
  <1>1. /\ i \in 0..Len(bytes) /\ k \in 0..i /\ i - 2 <= k
        /\ \A j \in 1..k : d.bytes[j] = bytes[j]
        /\ d.part \o (c \o r) = Ahead(bytes, k, i)
    BY DEF Follows
  <1>2. /\ Len(bytes) \in Nat /\ i \in Nat /\ k \in Nat
        /\ d.part \in Seq(Bit) /\ d.bytes \in Seq(Byte) /\ Len(r) \in Nat
    BY <1>1, LenProperties DEF Decoders
  <1>3. c \in Char /\ c \in Seq(Bit) /\ q \in Seq(Bit) /\ Len(q) \in Nat
    BY Sizes, FixedLength, PutCharSteps, LenProperties
  <1>4. q \o r = Ahead(bytes, k, i)
    <2>1. (d.part \o c) \o r = d.part \o (c \o r)
      BY <1>2, <1>3, BitsAssociative
    <2> QED
      BY <1>1, <2>1
  <1>5. CASE Len(q) < ByteBits
    <2>1. e = [bytes |-> d.bytes, part |-> q]
      BY <1>3, <1>5, PutCharSteps
    <2> QED
      BY <1>1, <1>4, <2>1 DEF Follows
  <1>6. CASE ~(Len(q) < ByteBits)
    <2> DEFINE b == SubSeq(q, 1, ByteBits)
               p == SubSeq(q, ByteBits + 1, Len(q))
    <2>1. e = [bytes |-> Append(d.bytes, b), part |-> p] /\ b \in Byte /\ p \in Seq(Bit)
      BY <1>3, <1>6, PutCharSteps
    <2>2. b \in Seq(Bit) /\ Len(b) = ByteBits /\ b \o p = q
      <3>1. ByteBits \in 0..Len(q)
        BY <1>3, <1>6, Sizes
      <3> QED
        BY <1>3, <3>1, Split
    <2> HIDE DEF b, p, q, k
    <2>3. b \o (p \o r) = Ahead(bytes, k, i)
      <3>1. (b \o p) \o r = b \o (p \o r)
        BY <2>1, <2>2, BitsAssociative
      <3> QED
        BY <1>4, <2>2, <3>1
    <2>4. p \o r \in Seq(Bit) /\ Len(p \o r) \in Nat
          /\ Len(b \o (p \o r)) = ByteBits + Len(p \o r)
      <3>1. p \o r \in Seq(Bit)
        BY <2>1, ConcatProperties
      <3> QED
        BY <2>2, <3>1, ConcatProperties, LenProperties
    <2>5. k # i
      <3> SUFFICES ASSUME k = i PROVE FALSE
        OBVIOUS
      <3>1. Len(Ahead(bytes, k, i)) = 0
        BY <1>1, AheadFacts DEF k
      <3>2. ByteBits + Len(p \o r) = 0
        BY <2>3, <2>4, <3>1
      <3> QED
        BY <2>4, <3>2, Numbers
    <2>6. /\ bytes[k + 1] \in Seq(Bit) /\ Len(bytes[k + 1]) = ByteBits
          /\ Ahead(bytes, k, i) = bytes[k + 1] \o Ahead(bytes, k + 1, i)
      BY <1>1, <2>5, AheadFacts DEF k
    <2>7. k + 1 \in 0..i /\ i - 2 <= k + 1
      BY <1>1, <1>2, <2>5
    <2>8. Ahead(bytes, k + 1, i) \in Seq(Bit)
      BY <1>1, <2>7, AheadFacts
    <2>9. b = bytes[k + 1] /\ p \o r = Ahead(bytes, k + 1, i)
      <3> DEFINE x == bytes[k + 1]
                 y == Ahead(bytes, k + 1, i)
                 z == p \o r
      <3>1. /\ b \o z = x \o y /\ Len(b) = Len(x)
            /\ x \in Seq(Bit) /\ y \in Seq(Bit) /\ z \in Seq(Bit)
        BY <2>2, <2>3, <2>4, <2>6, <2>8
      <3> HIDE DEF x, y, z
      <3>2. b = x /\ z = y
        BY <2>2, <3>1, SameSeam
      <3> QED
        BY <3>2 DEF x, y, z
    <2>10. /\ Len(e.bytes) = k + 1 /\ e.part = p
           /\ \A j \in 1 .. k + 1 : e.bytes[j] = bytes[j]
      <3>1. /\ Len(Append(d.bytes, b)) = k + 1
            /\ \A j \in 1..k : Append(d.bytes, b)[j] = d.bytes[j]
            /\ Append(d.bytes, b)[k + 1] = b
        BY <1>2, <2>1, AppendProperties DEF k
      <3>2. \A j \in 1 .. k + 1 : j \in 1..k \/ j = k + 1
        BY <1>2
      <3> QED
        BY <1>1, <2>1, <2>9, <3>1, <3>2
    <2> QED
      BY <1>1, <2>7, <2>9, <2>10 DEF Follows
  <1> QED
    BY <1>5, <1>6

\* The definition of Turns, unfolded.
LEMMA TurnsSteps ==
    ASSUME NEW e \in Encoders, NEW b \in Byte
    PROVE  /\ Turns(e, b) \in [0..ByteBits -> Encoders]
           /\ Turns(e, b)[0] = [chars |-> e.chars, part |-> e.part, rest |-> b]
           /\ \A i \in 1..ByteBits : Turns(e, b)[i] = Turn(Turns(e, b)[i - 1])
  <1> DEFINE n == ByteBits
             a == [chars |-> e.chars, part |-> e.part, rest |-> b]
             g == [y \in Encoders \X (1..n) |-> Turn(y[1])]
             F == Turns(e, b)
             Body(f) == [i \in 0..n |-> IF i = 0 THEN a ELSE Turn(f[i - 1])]
  <1>0. b \in Seq(Bit)
    BY Sizes, FixedLength
  <1>1. n \in Nat
    BY Numbers
  <1>2. a \in Encoders /\ [e EXCEPT !.rest = b] = a
    BY <1>0, EncoderTypes DEF Encoders
  <1> HIDE DEF a, n
  <1>3. Closed(g, Encoders, n)
    BY TurnSteps DEF Closed
  <1>4. PICK f \in [0..n -> Encoders] : f[0] = a /\ \A i \in 1..n : f[i] = g[<<f[i - 1], i>>]
    <2> HIDE DEF g
    <2> QED
      BY <1>1, <1>2, <1>3, Recursion
  <1>5. \A i \in 1..n : f[i] = Turn(f[i - 1])
    <2> SUFFICES ASSUME NEW i \in 1..n PROVE f[i] = Turn(f[i - 1])
      OBVIOUS
    <2>1. f[i - 1] \in Encoders
      BY <1>1, <1>4
    <2> QED
      BY <1>4, <2>1
  <1>6. f = Body(f)
    BY <1>1, <1>4, <1>5
  <1>7. F = Body(F)
    <2>1. F = CHOOSE h : h = Body(h)
      BY <1>2 DEF Turns, a, n
    <2> HIDE DEF F, Body
    <2> QED
      BY <1>6, <2>1
  <1> HIDE DEF F
  <1>8. F[0] = a /\ \A i \in 1..n : F[i] = Turn(F[i - 1])
    BY <1>1, <1>7
  <1>9. \A i \in 0..n : F[i] \in Encoders
    <2> DEFINE S == {i \in 0..n : F[i] \in Encoders}
    <2>1. 0 \in S
      BY <1>1, <1>2, <1>8
    <2>2. ASSUME NEW i \in 0 .. n - 1, i \in S
          PROVE  i + 1 \in S
      <3>1. i + 1 \in 1..n /\ (i + 1) - 1 = i /\ i + 1 \in 0..n
        BY <1>1
      <3>2. F[i + 1] = Turn(F[i])
        BY <1>8, <3>1
      <3> QED
        BY <2>2, <3>1, <3>2, TurnSteps
    <2> HIDE DEF S
    <2>3. 0..n \subseteq S
      BY <1>1, <2>1, <2>2, Upwards
    <2> QED
      BY <2>3 DEF S
  <1>10. F \in [0..n -> Encoders]
    BY <1>7, <1>9
  <1> QED
    BY <1>8, <1>10 DEF F, a, n

\* After as many turns as a byte has bits nothing of it is left.
LEMMA PutByteTypes ==
    ASSUME NEW e \in Encoders, NEW b \in Byte
    PROVE  PutByte(e, b) \in Encoders /\ PutByte(e, b).rest = <<>>
  <1> DEFINE F == Turns(e, b)
             L(i) == Len(F[i].rest)
             S == {i \in 0..ByteBits : L(i) <= ByteBits - i}
  <1>1. /\ \A i \in 0..ByteBits : F[i] \in Encoders
        /\ F[0] = [chars |-> e.chars, part |-> e.part, rest |-> b]
        /\ \A i \in 1..ByteBits : F[i] = Turn(F[i - 1])
    BY Numbers, TurnsSteps
  <1>2. ByteBits \in Nat /\ Len(b) = ByteBits
    BY Sizes, FixedLength
  <1> HIDE DEF F
  <1>3. 0 \in S
    BY <1>1, <1>2
  <1>4. ASSUME NEW i \in 0 .. ByteBits - 1, i \in S
        PROVE  i + 1 \in S
    <2> DEFINE f == F[i]
               h == F[i + 1]
    <2>1. /\ i + 1 \in 1..ByteBits /\ (i + 1) - 1 = i /\ i \in 0..ByteBits /\ i + 1 \in 0..ByteBits
          /\ i \in Nat
      BY <1>2
    <2>2. h = Turn(f) /\ f \in Encoders
      BY <1>1, <2>1
    <2>3. Len(f.rest) <= ByteBits - i
      BY <1>4
    <2> HIDE DEF f, h
    <2>4. Len(f.rest) \in Nat /\ Room(f) \in 1..CharBits
      BY <2>2, EncoderTypes
    <2>5. Len(h.rest) <= ByteBits - (i + 1)
      <3>1. CASE Len(f.rest) < Room(f)
        <4>1. h = [chars |-> f.chars, part |-> f.part \o f.rest, rest |-> <<>>]
          BY <2>2, <3>1, TurnSteps
        <4>2. Len(h.rest) = 0
          BY <4>1, EmptySeq
        <4> QED
          BY <1>2, <2>1, <4>2
      <3>2. CASE ~(Len(f.rest) < Room(f))
        <4> DEFINE x == Len(f.rest)
                   y == Len(h.rest)
                   r == Room(f)
        <4>1. /\ h = [chars |-> Append(f.chars, Filled(f)), part |-> <<>>, rest |-> Remains(f)]
              /\ Len(Remains(f)) = x - r
          BY <2>2, <3>2, TurnSteps
        <4>2. y = x - r /\ x \in Nat /\ r \in 1..CharBits /\ x <= ByteBits - i
          BY <2>3, <2>4, <4>1
        <4> HIDE DEF x, y, r
        <4>3. y <= ByteBits - (i + 1)
          BY <1>2, <2>1, <4>2, Numbers
        <4> QED
          BY <4>3 DEF y
      <3> QED
        BY <3>1, <3>2
    <2> QED
      BY <2>1, <2>5 DEF h
  <1>5. ByteBits \in S
    <2> HIDE DEF S
    <2>1. 0..ByteBits \subseteq S
      BY <1>2, <1>3, <1>4, Upwards
    <2> QED
      BY <1>2, <2>1
  <1>6. F[ByteBits] \in Encoders /\ L(ByteBits) <= 0
    BY <1>1, <1>2, <1>5
  <1>7. F[ByteBits].rest = <<>>
    <2>1. F[ByteBits].rest \in Seq(Bit)
      BY <1>6, EncoderTypes
    <2> QED
      BY <1>6, <2>1, EmptySeq
  <1> QED
    BY <1>6, <1>7 DEF F, PutByte

\* What is ahead becomes more by a byte that is put in.
LEMMA AheadGrows ==
    ASSUME NEW bytes \in Seq(Byte), NEW i \in 1..Len(bytes), NEW k \in 0 .. i - 1, i - 2 <= k
    PROVE  Ahead(bytes, k, i) = Ahead(bytes, k, i - 1) \o bytes[i]
  <1>1. Len(bytes) \in Nat /\ bytes[i] \in Seq(Bit)
    BY LenProperties, ElementOfSeq, Sizes, FixedLength
  <1>2. CASE k = i - 1
    <2>1. k # i /\ Ahead(bytes, k, i) = bytes[i] /\ Ahead(bytes, k, i - 1) = <<>>
      BY <1>1, <1>2 DEF Ahead
    <2> QED
      BY <1>1, <2>1, ConcatEmptySeq
  <1>3. CASE k = i - 2
    <2>1. k # i /\ k # i - 1 /\ k = (i - 1) - 1
      BY <1>1, <1>3
    <2>2. Ahead(bytes, k, i) = bytes[i - 1] \o bytes[i]
      BY <2>1 DEF Ahead
    <2>3. Ahead(bytes, k, i - 1) = bytes[i - 1]
      BY <2>1 DEF Ahead
    <2> QED
      BY <2>2, <2>3
  <1>4. k = i - 1 \/ k = i - 2
    BY <1>1
  <1> QED
    BY <1>2, <1>3, <1>4

\* A decoder that has read the characters of an encoder follows it over a byte.
LEMMA PutByteFollowed ==
    ASSUME NEW bytes \in Seq(Byte), NEW i \in 1..Len(bytes), NEW e \in Encoders,
           Follows(Read(e.chars), e.part, bytes, i - 1)
    PROVE  Follows(Read(PutByte(e, bytes[i]).chars), PutByte(e, bytes[i]).part, bytes, i)
  <1> DEFINE b == bytes[i]
             F == Turns(e, b)
             After(j) == Follows(Read(F[j].chars), F[j].part \o F[j].rest, bytes, i)
             S == {j \in 0..ByteBits : After(j)}
  <1>1. b \in Byte /\ b \in Seq(Bit) /\ Len(b) = ByteBits /\ ByteBits \in Nat /\ Len(bytes) \in Nat
    BY Sizes, FixedLength, ElementOfSeq, LenProperties
  <1>2. /\ \A j \in 0..ByteBits : F[j] \in Encoders
        /\ F[0] = [chars |-> e.chars, part |-> e.part, rest |-> b]
        /\ \A j \in 1..ByteBits : F[j] = Turn(F[j - 1])
    BY <1>1, TurnsSteps
  <1>3. /\ e.chars \in Seq(Char) /\ e.part \in Seq(Bit) /\ Len(e.part) \in Nat /\ Len(e.part) < CharBits
        /\ Read(e.chars) \in Decoders
    <2>1. e.chars \in Seq(Digit)
      BY EncoderTypes
    <2>2. e.chars \in Seq(Char)
      BY <2>1, Sizes, SeqMonotonic
    <2> QED
      BY <2>2, EncoderTypes, ReadIsDecoder
  <1> HIDE DEF F
  <1>4. After(0)
    <2> DEFINE d == Read(e.chars)
               k == Len(d.bytes)
    <2>1. /\ i - 1 \in 0..Len(bytes) /\ k \in 0 .. i - 1 /\ (i - 1) - 2 <= k
          /\ \A j \in 1..k : d.bytes[j] = bytes[j]
          /\ d.part \o e.part = Ahead(bytes, k, i - 1)
      BY DEF Follows
    <2>2. d.part \in Seq(Bit) /\ Len(d.part) \in Nat /\ Len(d.part) < ByteBits
      BY <1>3, LenProperties DEF Decoders
    <2>3. d.part \o (e.part \o b) = Ahead(bytes, k, i - 1) \o b
      <3>1. (d.part \o e.part) \o b = d.part \o (e.part \o b)
        BY <1>1, <1>3, <2>2, BitsAssociative
      <3> QED
        BY <2>1, <3>1
    <2>4. k # i - 3
      <3> SUFFICES ASSUME k = i - 3 PROVE FALSE
        OBVIOUS
      <3>1. Len(Ahead(bytes, k, i - 1)) = ByteBits + ByteBits
        <4>1. k = (i - 1) - 2
          BY <1>1
        <4> HIDE DEF k
        <4> QED
          BY <2>1, <4>1, AheadFacts
      <3>2. Len(d.part \o e.part) = Len(d.part) + Len(e.part)
        BY <1>3, <2>2, ConcatProperties
      <3> DEFINE x == Len(d.part)
                 y == Len(e.part)
      <3>3. x + y = ByteBits + ByteBits /\ x \in Nat /\ y \in Nat /\ x < ByteBits /\ y < CharBits
        BY <1>3, <2>1, <2>2, <3>1, <3>2
      <3> HIDE DEF x, y
      <3> QED
        BY <3>3, Numbers
    <2> HIDE DEF d, k
    <2>5. k \in 0 .. i - 1 /\ i - 2 <= k /\ k \in 0..i /\ i \in 0..Len(bytes)
      BY <1>1, <2>1, <2>4
    <2>6. d.part \o (e.part \o b) = Ahead(bytes, k, i)
      BY <2>3, <2>5, AheadGrows
    <2>7. Follows(d, e.part \o b, bytes, i)
      BY <2>1, <2>5, <2>6 DEF Follows, k
    <2> QED
      BY <1>2, <2>7 DEF d
  <1>5. ASSUME NEW j \in 0 .. ByteBits - 1, j \in S
        PROVE  j + 1 \in S
    <2> DEFINE f == F[j]
    <2>1. /\ j + 1 \in 1..ByteBits /\ (j + 1) - 1 = j /\ j \in 0..ByteBits /\ j + 1 \in 0..ByteBits
      BY <1>1
    <2>2. F[j + 1] = Turn(f) /\ f \in Encoders
      BY <1>2, <2>1
    <2>3. Follows(Read(f.chars), f.part \o f.rest, bytes, i)
      BY <1>5
    <2>4. f.chars \in Seq(Digit) /\ f.chars \in Seq(Char) /\ f.part \in Seq(Bit) /\ f.rest \in Seq(Bit)
      <3>1. f.chars \in Seq(Digit)
        BY <2>2, EncoderTypes
      <3> HIDE DEF f
      <3>2. f.chars \in Seq(Char)
        BY <3>1, Sizes, SeqMonotonic
      <3> QED
        BY <2>2, <3>1, <3>2, EncoderTypes
    <2> HIDE DEF f
    <2>5. CASE Len(f.rest) < Room(f)
      <3>1. Turn(f) = [chars |-> f.chars, part |-> f.part \o f.rest, rest |-> <<>>]
        BY <2>2, <2>5, TurnSteps
      <3>2. f.part \o f.rest \in Seq(Bit) /\ (f.part \o f.rest) \o <<>> = f.part \o f.rest
        <4>1. f.part \o f.rest \in Seq(Bit)
          BY <2>4, ConcatProperties
        <4> QED
          BY <4>1, ConcatEmptySeq
      <3>3. After(j + 1)
        BY <2>2, <2>3, <3>1, <3>2
      <3> QED
        BY <2>1, <3>3
    <2>6. CASE ~(Len(f.rest) < Room(f))
      <3> DEFINE c == Filled(f)
                 r == Remains(f)
      <3>1. /\ Turn(f) = [chars |-> Append(f.chars, c), part |-> <<>>, rest |-> r]
            /\ c \in Digit /\ r \in Seq(Bit) /\ c \o r = f.part \o f.rest
        BY <2>2, <2>6, TurnSteps
      <3> HIDE DEF c, r
      <3>2. c \in Char /\ Read(f.chars) \in Decoders
        BY <2>4, <3>1, Sizes, ReadIsDecoder
      <3>3. Read(Append(f.chars, c)) = PutChar(Read(f.chars), c)
        BY <2>4, <3>2, ReadAppend
      <3>4. Follows(PutChar(Read(f.chars), c), r, bytes, i)
        <4>1. Follows(Read(f.chars), c \o r, bytes, i)
          BY <2>3, <3>1
        <4> QED
          BY <3>1, <3>2, <4>1, DecoderFollows
      <3>5. <<>> \o r = r
        BY <3>1, ConcatEmptySeq
      <3>6. After(j + 1)
        BY <2>2, <3>1, <3>3, <3>4, <3>5
      <3> QED
        BY <2>1, <3>6
    <2> QED
      BY <2>5, <2>6
  <1>6. After(ByteBits)
    <2>1. 0 \in S
      BY <1>1, <1>4
    <2> HIDE DEF S
    <2>2. 0..ByteBits \subseteq S
      BY <1>1, <1>5, <2>1, Upwards
    <2> QED
      BY <1>1, <2>2 DEF S
  <1>7. PutByte(e, b) = F[ByteBits] /\ F[ByteBits] \in Encoders /\ F[ByteBits].rest = <<>>
    BY <1>1, <1>2, PutByteTypes DEF PutByte, F
  <1>8. F[ByteBits].part \o <<>> = F[ByteBits].part
    BY <1>7, EncoderTypes, ConcatEmptySeq
  <1> QED
    BY <1>6, <1>7, <1>8

\* The encoder before the first byte.
Fresh == [chars |-> <<>>, part |-> <<>>, rest |-> <<>>]

\* The definition of Encoding, unfolded.
LEMMA EncodingSteps ==
    ASSUME NEW bytes \in Seq(Byte)
    PROVE  /\ Encoding(bytes) \in [0..Len(bytes) -> Encoders]
           /\ Encoding(bytes)[0] = Fresh
           /\ \A i \in 1..Len(bytes) : Encoding(bytes)[i] = PutByte(Encoding(bytes)[i - 1], bytes[i])
  <1> DEFINE n == Len(bytes)
             g == [y \in Encoders \X (1..n) |-> PutByte(y[1], bytes[y[2]])]
             F == Encoding(bytes)
             Body(f) == [i \in 0..n |-> IF i = 0 THEN Fresh ELSE PutByte(f[i - 1], bytes[i])]
  <1>1. n \in Nat /\ \A i \in 1..n : bytes[i] \in Byte
    BY LenProperties, ElementOfSeq
  <1>2. Fresh \in Encoders
    BY Sizes, EmptySeq DEF Fresh, Encoders
  <1>3. Closed(g, Encoders, n)
    BY <1>1, PutByteTypes DEF Closed
  <1>4. PICK f \in [0..n -> Encoders] : f[0] = Fresh /\ \A i \in 1..n : f[i] = g[<<f[i - 1], i>>]
    <2> HIDE DEF g, n
    <2> QED
      BY <1>1, <1>2, <1>3, Recursion
  <1>5. \A i \in 1..n : f[i] = PutByte(f[i - 1], bytes[i])
    <2> SUFFICES ASSUME NEW i \in 1..n PROVE f[i] = PutByte(f[i - 1], bytes[i])
      OBVIOUS
    <2>1. f[i - 1] \in Encoders
      BY <1>1, <1>4
    <2> QED
      BY <1>4, <2>1
  <1>6. f = Body(f)
    BY <1>1, <1>4, <1>5
  <1>7. F = Body(F)
    <2>1. F = CHOOSE h : h = Body(h)
      BY DEF Encoding, Fresh
    <2> HIDE DEF F, Body
    <2> QED
      BY <1>6, <2>1
  <1> HIDE DEF F
  <1>8. F[0] = Fresh /\ \A i \in 1..n : F[i] = PutByte(F[i - 1], bytes[i])
    BY <1>1, <1>7
  <1>9. \A i \in 0..n : F[i] \in Encoders
    <2> DEFINE S == {i \in 0..n : F[i] \in Encoders}
    <2>1. 0 \in S
      BY <1>1, <1>2, <1>8
    <2>2. ASSUME NEW i \in 0 .. n - 1, i \in S
          PROVE  i + 1 \in S
      <3>1. i + 1 \in 1..n /\ (i + 1) - 1 = i /\ i + 1 \in 0..n
        BY <1>1
      <3>2. F[i + 1] = PutByte(F[i], bytes[i + 1])
        BY <1>8, <3>1
      <3>3. F[i] \in Encoders /\ bytes[i + 1] \in Byte
        BY <1>1, <2>2, <3>1
      <3> QED
        BY <3>1, <3>2, <3>3, PutByteTypes
    <2> HIDE DEF S
    <2>3. 0..n \subseteq S
      BY <1>1, <2>1, <2>2, Upwards
    <2> QED
      BY <2>3 DEF S
  <1>10. F \in [0..n -> Encoders]
    BY <1>7, <1>9
  <1> QED
    BY <1>8, <1>10 DEF F

\* A decoder follows the encoder from byte to byte.
LEMMA EncodingFollowed ==
    ASSUME NEW bytes \in Seq(Byte), NEW i \in 0..Len(bytes)
    PROVE  /\ Encoding(bytes)[i] \in Encoders
           /\ Follows(Read(Encoding(bytes)[i].chars), Encoding(bytes)[i].part, bytes, i)
  <1> DEFINE n == Len(bytes)
             F == Encoding(bytes)
             Good(j) == Follows(Read(F[j].chars), F[j].part, bytes, j)
             S == {j \in 0..n : Good(j)}
  <1>1. n \in Nat
    BY LenProperties
  <1>2. /\ \A j \in 0..n : F[j] \in Encoders
        /\ F[0] = Fresh
        /\ \A j \in 1..n : F[j] = PutByte(F[j - 1], bytes[j])
    BY EncodingSteps
  <1> HIDE DEF F
  <1>3. Good(0)
    <2>1. Read(F[0].chars) = Empty /\ F[0].part = <<>>
      BY <1>2, ReadEmpty DEF Fresh
    <2>2. <<>> \o <<>> = <<>>
      BY EmptySeq, ConcatEmptySeq
    <2>3. Len(Empty.bytes) = 0 /\ Empty.part = <<>> /\ 0 \in 0..n
      BY <1>1, EmptySeq DEF Empty
    <2>4. Ahead(bytes, 0, 0) = <<>>
      BY DEF Ahead
    <2>5. Follows(Empty, <<>>, bytes, 0)
      BY <2>2, <2>3, <2>4 DEF Follows
    <2> QED
      BY <2>1, <2>5
  <1> HIDE DEF Good
  <1>4. ASSUME NEW j \in 0 .. n - 1, j \in S
        PROVE  j + 1 \in S
    <2> DEFINE k == j + 1
    <2>1. k \in 1..n /\ k - 1 = j /\ k \in 0..n /\ j \in 0..n
      BY <1>1
    <2> HIDE DEF k
    <2>2. F[k] = PutByte(F[j], bytes[k]) /\ F[j] \in Encoders
      BY <1>2, <2>1
    <2>3. Follows(Read(F[j].chars), F[j].part, bytes, k - 1)
      BY <1>4, <2>1 DEF Good
    <2> DEFINE e == F[j]
    <2>4. e \in Encoders /\ Follows(Read(e.chars), e.part, bytes, k - 1)
      BY <2>2, <2>3
    <2>5. F[k] = PutByte(e, bytes[k])
      BY <2>2
    <2> HIDE DEF e
    <2>6. Follows(Read(PutByte(e, bytes[k]).chars), PutByte(e, bytes[k]).part, bytes, k)
      BY <2>1, <2>4, PutByteFollowed
    <2>7. Good(k)
      BY <2>5, <2>6 DEF Good
    <2> QED
      BY <2>1, <2>7 DEF k
  <1>5. 0 \in S
    BY <1>1, <1>3
  <1>6. 0..n \subseteq S
    <2> HIDE DEF S
    <2> QED
      BY <1>1, <1>4, <1>5, Upwards
  <1> QED
    BY <1>2, <1>6 DEF F, Good

\* The last character holds the last bits: what Finish puts out decodes to the bytes.
LEMMA FinishDecodes ==
    ASSUME NEW bytes \in Seq(Byte)
    PROVE  /\ Finish(Encoding(bytes)[Len(bytes)]) \in Seq(Digit)
           /\ Read(Finish(Encoding(bytes)[Len(bytes)])).bytes = bytes
  <1> DEFINE n == Len(bytes)
             e == Encoding(bytes)[n]
             d == Read(e.chars)
             k == Len(d.bytes)
  <1>1. n \in Nat
    BY LenProperties
  <1>2. e \in Encoders /\ Follows(d, e.part, bytes, n)
    BY <1>1, EncodingFollowed
  <1>3. Finish(Encoding(bytes)[Len(bytes)]) = Finish(e)
    OBVIOUS
  <1> HIDE DEF e
  <1>4. /\ e.chars \in Seq(Digit) /\ e.chars \in Seq(Char) /\ e.part \in Seq(Bit)
        /\ Len(e.part) \in Nat /\ Len(e.part) < CharBits
    <2>1. e.chars \in Seq(Digit)
      BY <1>2, EncoderTypes
    <2>2. e.chars \in Seq(Char)
      BY <2>1, Sizes, SeqMonotonic
    <2> QED
      BY <1>2, <2>1, <2>2, EncoderTypes
  <1>5. d \in Decoders
    BY <1>4, ReadIsDecoder
  <1> HIDE DEF d
  <1>6. /\ n \in 0..Len(bytes) /\ k \in 0..n /\ n - 2 <= k
        /\ \A j \in 1..k : d.bytes[j] = bytes[j]
        /\ d.part \o e.part = Ahead(bytes, k, n)
    BY <1>2 DEF Follows
  <1>7. d.part \in Seq(Bit) /\ d.bytes \in Seq(Byte) /\ Len(d.part) \in Nat /\ Len(d.part) < ByteBits
        /\ k \in Nat
    BY <1>5, LenProperties DEF Decoders
  <1>8. Len(d.part \o e.part) = Len(d.part) + Len(e.part)
    BY <1>4, <1>7, ConcatProperties
  <1> HIDE DEF k
  <1>9. k # n - 2 \/ k = n
    <2> SUFFICES ASSUME k = n - 2 PROVE FALSE
      OBVIOUS
    <2>1. Len(Ahead(bytes, k, n)) = ByteBits + ByteBits
      BY <1>6, AheadFacts
    <2> DEFINE x == Len(d.part)
               y == Len(e.part)
    <2>2. x + y = ByteBits + ByteBits /\ x \in Nat /\ y \in Nat /\ x < ByteBits /\ y < CharBits
      BY <1>4, <1>6, <1>7, <1>8, <2>1
    <2> HIDE DEF x, y
    <2> QED
      BY <2>2, Numbers
  <1>10. CASE e.part = <<>>
    <2>1. Finish(e) = e.chars
      BY <1>10 DEF Finish
    <2>2. k = n
      <3> SUFFICES ASSUME k # n PROVE FALSE
        OBVIOUS
      <3>1. k = n - 1
        BY <1>1, <1>6, <1>7, <1>9
      <3>2. Len(Ahead(bytes, k, n)) = ByteBits
        BY <1>6, <3>1, AheadFacts
      <3>3. Len(e.part) = 0
        BY <1>10, EmptySeq
      <3> DEFINE x == Len(d.part)
                 y == Len(e.part)
      <3>4. x + y = ByteBits /\ x \in Nat /\ y = 0 /\ x < ByteBits
        BY <1>6, <1>7, <1>8, <3>2, <3>3
      <3> HIDE DEF x, y
      <3> QED
        BY <3>4, Numbers
    <2>3. d.bytes = bytes
      <3>1. Len(d.bytes) = Len(bytes) /\ \A j \in 1..Len(d.bytes) : d.bytes[j] = bytes[j]
        BY <1>6, <2>2 DEF k
      <3> QED
        BY <1>7, <3>1, SeqEqual
    <2> QED
      BY <1>4, <2>1, <2>3 DEF d, e
  <1>11. CASE e.part # <<>>
    <2> DEFINE z == [i \in 1 .. CharBits - Len(e.part) |-> 0]
               c == e.part \o z
               q == d.part \o c
    <2>1. Finish(e) = Append(e.chars, c)
      BY <1>11 DEF Finish
    <2>2. z \in Seq(Bit) /\ Len(z) = CharBits - Len(e.part)
      <3> DEFINE m == CharBits - Len(e.part)
      <3>1. m \in Nat
        BY <1>4, Numbers
      <3>2. z \in [1..m -> Bit]
        BY DEF Bit
      <3> HIDE DEF m, z
      <3>3. z \in Seq(Bit) /\ Len(z) = m
        BY <3>1, <3>2, FixedLength
      <3> QED
        BY <3>3 DEF m
    <2> HIDE DEF z
    <2>3. c \in Seq(Bit) /\ Len(c) = CharBits /\ c \in Digit
      <3>1. c \in Seq(Bit) /\ Len(c) = Len(e.part) + Len(z)
        BY <1>4, <2>2, ConcatProperties
      <3>2. Len(c) = CharBits
        BY <1>4, <2>2, <3>1, Numbers
      <3> HIDE DEF c
      <3>3. c \in Digit
        BY <3>1, <3>2, Numbers, Sizes, FixedLength
      <3> QED
        BY <3>1, <3>2, <3>3
    <2>4. q = (d.part \o e.part) \o z
      BY <1>4, <1>7, <2>2, BitsAssociative
    <2> HIDE DEF c, q
    <2>5. k = n - 1
      <3> SUFFICES ASSUME k = n PROVE FALSE
        BY <1>1, <1>6, <1>7, <1>9
      <3>1. Len(Ahead(bytes, k, n)) = 0
        BY <1>6, AheadFacts
      <3>2. Len(e.part) = 0
        <4> DEFINE x == Len(d.part)
                   y == Len(e.part)
        <4>1. x + y = 0 /\ x \in Nat /\ y \in Nat
          BY <1>4, <1>6, <1>7, <1>8, <3>1
        <4> HIDE DEF x, y
        <4>2. y = 0
          BY <4>1
        <4> QED
          BY <4>2 DEF y
      <3> QED
        BY <1>4, <1>11, <3>2, EmptySeq
    <2>6. n \in 1..Len(bytes) /\ k + 1 = n /\ k # n
      BY <1>1, <1>7, <2>5
    <2>7. d.part \o e.part = bytes[n] /\ bytes[n] \in Seq(Bit) /\ Len(bytes[n]) = ByteBits
          /\ bytes[n] \in Byte
      <3>1. d.part \o e.part = bytes[n]
        BY <1>6, <2>5, <2>6 DEF Ahead
      <3>2. bytes[n] \in Byte
        BY <2>6, ElementOfSeq
      <3> QED
        BY <3>1, <3>2, Sizes, FixedLength
    <2>8. q = bytes[n] \o z /\ Len(q) = ByteBits + Len(z) /\ ~(Len(q) < ByteBits)
      <3>1. q = bytes[n] \o z
        BY <2>4, <2>7
      <3>2. Len(q) = ByteBits + Len(z)
        BY <2>2, <2>7, <3>1, ConcatProperties
      <3> DEFINE x == Len(q)
                 y == Len(z)
      <3>3. x = ByteBits + y /\ y \in Nat
        BY <2>2, <3>2, LenProperties
      <3> HIDE DEF x, y
      <3>4. ~(x < ByteBits)
        BY <3>3, Numbers
      <3> QED
        BY <3>1, <3>2, <3>4 DEF x
    <2>9. SubSeq(q, 1, ByteBits) = bytes[n]
      <3> DEFINE b == bytes[n]
      <3>1. b \in Seq(Bit) /\ ByteBits = Len(b) /\ q = b \o z
        BY <2>7, <2>8
      <3> HIDE DEF b
      <3>2. SubSeq(b \o z, 1, ByteBits) = b
        BY <2>2, <3>1, Seam
      <3> QED
        BY <3>1, <3>2 DEF b
    <2>10. PutChar(d, c).bytes = Append(d.bytes, bytes[n])
      <3>1. c \in Char
        BY <2>3, Sizes
      <3>2. ~(Len(d.part \o c) < ByteBits)
        BY <2>8 DEF q
      <3>3. PutChar(d, c) = [bytes |-> Append(d.bytes, SubSeq(d.part \o c, 1, ByteBits)),
                             part  |-> SubSeq(d.part \o c, ByteBits + 1, Len(d.part \o c))]
        <4>1. d \in Decoders /\ c \in Digit /\ c \in Char
          BY <1>5, <2>3, <3>1
        <4> QED
          BY <3>2, <4>1, PutCharSteps
      <3>4. SubSeq(d.part \o c, 1, ByteBits) = bytes[n]
        BY <2>9 DEF q
      <3> DEFINE r == SubSeq(d.part \o c, ByteBits + 1, Len(d.part \o c))
      <3>5. PutChar(d, c) = [bytes |-> Append(d.bytes, bytes[n]), part |-> r]
        BY <3>3, <3>4
      <3> HIDE DEF r
      <3> QED
        BY <3>5
    <2>11. Append(d.bytes, bytes[n]) = bytes
      <3> DEFINE s == Append(d.bytes, bytes[n])
      <3>1. /\ s \in Seq(Byte) /\ Len(s) = k + 1
            /\ \A j \in 1..k : s[j] = d.bytes[j]
            /\ s[k + 1] = bytes[n]
        BY <1>7, <2>7, AppendProperties DEF k
      <3> HIDE DEF s
      <3>2. Len(s) = Len(bytes)
        BY <2>6, <3>1
      <3>3. \A j \in 1..Len(s) : s[j] = bytes[j]
        <4>1. \A j \in 1..Len(s) : j \in 1..k \/ j = n
          BY <1>1, <1>7, <2>6, <3>1
        <4> QED
          BY <1>6, <2>6, <3>1, <4>1
      <3>4. s = bytes
        BY <3>1, <3>2, <3>3, SeqEqual
      <3> QED
        BY <3>4 DEF s
    <2>12. Read(Append(e.chars, c)) = PutChar(d, c)
      <3>1. c \in Char
        BY <2>3, Sizes
      <3> QED
        BY <1>4, <3>1, ReadAppend DEF d
    <2>13. Append(e.chars, c) \in Seq(Digit)
      BY <1>4, <2>3, AppendProperties
    <2>14. Finish(e) \in Seq(Digit) /\ Read(Finish(e)).bytes = bytes
      BY <2>1, <2>10, <2>11, <2>12, <2>13
    <2> QED
      BY <2>14 DEF e
  <1> QED
    BY <1>10, <1>11

\* Two encoders have put out and kept as many characters and bits.
SameShape(e, f) ==
    Len(e.chars) = Len(f.chars) /\ Len(e.part) = Len(f.part) /\ Len(e.rest) = Len(f.rest)

\* How many characters and bits a turn leaves does not depend on what they are.
LEMMA TurnShape ==
    ASSUME NEW e \in Encoders, NEW f \in Encoders, SameShape(e, f)
    PROVE  SameShape(Turn(e), Turn(f))
  <1>1. Len(e.chars) = Len(f.chars) /\ Len(e.part) = Len(f.part) /\ Len(e.rest) = Len(f.rest)
    BY DEF SameShape
  <1>2. Room(e) = Room(f)
    BY <1>1 DEF Room
  <1>3. /\ e.chars \in Seq(Digit) /\ e.part \in Seq(Bit) /\ e.rest \in Seq(Bit)
        /\ f.chars \in Seq(Digit) /\ f.part \in Seq(Bit) /\ f.rest \in Seq(Bit)
    BY EncoderTypes
  <1>4. CASE Len(e.rest) < Room(e)
    <2>1. /\ Turn(e) = [chars |-> e.chars, part |-> e.part \o e.rest, rest |-> <<>>]
          /\ Turn(f) = [chars |-> f.chars, part |-> f.part \o f.rest, rest |-> <<>>]
      BY <1>1, <1>2, <1>4, TurnSteps
    <2>2. Len(e.part \o e.rest) = Len(e.part) + Len(e.rest)
      BY <1>3, ConcatProperties
    <2>3. Len(f.part \o f.rest) = Len(f.part) + Len(f.rest)
      BY <1>3, ConcatProperties
    <2>4. Len(e.part \o e.rest) = Len(f.part \o f.rest)
      BY <1>1, <2>2, <2>3
    <2> DEFINE p == e.part \o e.rest
               q == f.part \o f.rest
    <2>5. /\ Turn(e) = [chars |-> e.chars, part |-> p, rest |-> <<>>]
          /\ Turn(f) = [chars |-> f.chars, part |-> q, rest |-> <<>>]
          /\ Len(p) = Len(q)
      BY <2>1, <2>4
    <2> HIDE DEF p, q
    <2> QED
      BY <1>1, <2>5 DEF SameShape
  <1>5. CASE ~(Len(e.rest) < Room(e))
    <2>1. /\ Turn(e) = [chars |-> Append(e.chars, Filled(e)), part |-> <<>>, rest |-> Remains(e)]
          /\ Turn(f) = [chars |-> Append(f.chars, Filled(f)), part |-> <<>>, rest |-> Remains(f)]
          /\ Filled(e) \in Digit /\ Filled(f) \in Digit
          /\ Len(Remains(e)) = Len(e.rest) - Room(e) /\ Len(Remains(f)) = Len(f.rest) - Room(f)
      BY <1>1, <1>2, <1>5, TurnSteps
    <2>2. Len(Append(e.chars, Filled(e))) = Len(e.chars) + 1
      BY <1>3, <2>1, AppendProperties
    <2>3. Len(Append(f.chars, Filled(f))) = Len(f.chars) + 1
      BY <1>3, <2>1, AppendProperties
    <2>4. /\ Len(Append(e.chars, Filled(e))) = Len(Append(f.chars, Filled(f)))
          /\ Len(Remains(e)) = Len(Remains(f))
      BY <1>1, <1>2, <2>1, <2>2, <2>3
    <2> QED
      BY <2>1, <2>4 DEF SameShape
  <1> QED
    BY <1>4, <1>5

\* The same for the turns that a byte takes.
LEMMA PutByteShape ==
    ASSUME NEW e \in Encoders, NEW f \in Encoders, SameShape(e, f), NEW a \in Byte, NEW b \in Byte
    PROVE  SameShape(PutByte(e, a), PutByte(f, b))
  <1> DEFINE F == Turns(e, a)
             G == Turns(f, b)
             S == {i \in 0..ByteBits : SameShape(F[i], G[i])}
  <1>1. /\ \A i \in 0..ByteBits : F[i] \in Encoders /\ G[i] \in Encoders
        /\ F[0] = [chars |-> e.chars, part |-> e.part, rest |-> a]
        /\ G[0] = [chars |-> f.chars, part |-> f.part, rest |-> b]
        /\ \A i \in 1..ByteBits : F[i] = Turn(F[i - 1]) /\ G[i] = Turn(G[i - 1])
    BY Numbers, TurnsSteps
  <1>2. ByteBits \in Nat /\ Len(a) = ByteBits /\ Len(b) = ByteBits
    BY Sizes, FixedLength
  <1> HIDE DEF F, G
  <1>3. 0 \in S
    <2>1. SameShape(F[0], G[0])
      BY <1>1, <1>2 DEF SameShape
    <2> QED
      BY <1>2, <2>1
  <1>4. ASSUME NEW i \in 0 .. ByteBits - 1, i \in S
        PROVE  i + 1 \in S
    <2>1. i + 1 \in 1..ByteBits /\ (i + 1) - 1 = i /\ i + 1 \in 0..ByteBits /\ i \in 0..ByteBits
      BY <1>2
    <2>2. /\ F[i + 1] = Turn(F[i]) /\ G[i + 1] = Turn(G[i]) /\ F[i] \in Encoders /\ G[i] \in Encoders
          /\ SameShape(F[i], G[i])
      BY <1>1, <1>4, <2>1
    <2>3. SameShape(F[i + 1], G[i + 1])
      BY <2>2, TurnShape
    <2> QED
      BY <2>1, <2>3
  <1>5. ByteBits \in S
    <2> HIDE DEF S
    <2>1. 0..ByteBits \subseteq S
      BY <1>2, <1>3, <1>4, Upwards
    <2> QED
      BY <1>2, <2>1
  <1> QED
    BY <1>5 DEF PutByte, F, G

\* How many characters there are depends on how many bytes.
LEMMA FinishShape ==
    ASSUME NEW x \in Seq(Byte), NEW y \in Seq(Byte), Len(x) = Len(y)
    PROVE  Len(Finish(Encoding(x)[Len(x)])) = Len(Finish(Encoding(y)[Len(y)]))
  <1> DEFINE n == Len(x)
             F == Encoding(x)
             G == Encoding(y)
             S == {i \in 0..n : SameShape(F[i], G[i])}
  <1>1. n \in Nat /\ \A i \in 1..n : x[i] \in Byte /\ y[i] \in Byte
    BY LenProperties, ElementOfSeq
  <1>2. /\ \A i \in 0..n : F[i] \in Encoders
        /\ F[0] = Fresh
        /\ \A i \in 1..n : F[i] = PutByte(F[i - 1], x[i])
    BY EncodingSteps
  <1>3. /\ \A i \in 0..n : G[i] \in Encoders
        /\ G[0] = Fresh
        /\ \A i \in 1..n : G[i] = PutByte(G[i - 1], y[i])
    BY EncodingSteps
  <1> HIDE DEF F, G
  <1>4. 0 \in S
    <2>1. SameShape(F[0], G[0])
      BY <1>2, <1>3 DEF SameShape
    <2> QED
      BY <1>1, <2>1
  <1>5. ASSUME NEW i \in 0 .. n - 1, i \in S
        PROVE  i + 1 \in S
    <2>1. i + 1 \in 1..n /\ (i + 1) - 1 = i /\ i + 1 \in 0..n /\ i \in 0..n
      BY <1>1
    <2> DEFINE a == x[i + 1]
               b == y[i + 1]
    <2>2. /\ F[i + 1] = PutByte(F[i], a) /\ G[i + 1] = PutByte(G[i], b)
          /\ F[i] \in Encoders /\ G[i] \in Encoders /\ SameShape(F[i], G[i])
          /\ a \in Byte /\ b \in Byte
      BY <1>1, <1>2, <1>3, <1>5, <2>1
    <2> HIDE DEF a, b
    <2>3. SameShape(F[i + 1], G[i + 1])
      BY <2>2, PutByteShape
    <2> QED
      BY <2>1, <2>3
  <1>6. n \in S
    <2> HIDE DEF S
    <2>1. 0..n \subseteq S
      BY <1>1, <1>4, <1>5, Upwards
    <2> QED
      BY <1>1, <2>1
  <1> DEFINE e == F[n]
             f == G[n]
  <1>7. e \in Encoders /\ f \in Encoders /\ SameShape(e, f)
    BY <1>1, <1>2, <1>3, <1>6
  <1>8. e = Encoding(x)[Len(x)] /\ f = Encoding(y)[Len(y)]
    BY DEF F, G
  <1> HIDE DEF e, f
  <1>9. ASSUME NEW g \in Encoders
        PROVE  /\ Len(Finish(g)) = IF Len(g.part) = 0 THEN Len(g.chars) ELSE Len(g.chars) + 1
    <2>1. g.chars \in Seq(Digit) /\ g.part \in Seq(Bit) /\ Len(g.part) \in Nat /\ Len(g.part) < CharBits
      BY EncoderTypes
    <2>2. g.part = <<>> <=> Len(g.part) = 0
      BY <2>1, EmptySeq
    <2> DEFINE c == g.part \o [i \in 1 .. CharBits - Len(g.part) |-> 0]
    <2>3. Len(Append(g.chars, c)) = Len(g.chars) + 1
      <3>1. g.chars \in Seq(Digit \cup {c}) /\ c \in Digit \cup {c}
        BY <2>1, SeqMonotonic
      <3> HIDE DEF c
      <3> QED
        BY <3>1, AppendProperties
    <2> HIDE DEF c
    <2> QED
      BY <2>2, <2>3 DEF Finish, c
  <1>10. Len(Finish(e)) = Len(Finish(f))
    <2>1. Len(e.chars) = Len(f.chars) /\ Len(e.part) = Len(f.part)
      BY <1>7 DEF SameShape
    <2> QED
      BY <1>7, <1>9, <2>1
  <1> QED
    BY <1>8, <1>10

\* A block of characters is not empty.
LEMMA OutputBlockSizeType == OutputBlockSize \in Nat \ {0}
  <1>1. ByteBits \in BlockSizes
    <2>1. (ByteBits * CharBits) % ByteBits = 0
      BY BytesAssumption, Base64Assumption
    <2> QED
      BY <2>1, BytesAssumption DEF BlockSizes
  <1>2. BlockSizes \in SUBSET Nat /\ \A n \in BlockSizes : n # 0
    BY DEF BlockSizes
  <1>3. \E n \in BlockSizes : \A k \in BlockSizes : n <= k
    BY <1>1, <1>2, LeastExists
  <1>4. OutputBlockSize \in BlockSizes
    BY <1>3 DEF OutputBlockSize
  <1> QED
    BY <1>2, <1>4

\* How many characters are missing from the last block.
Missing(k) == (OutputBlockSize - (k % OutputBlockSize)) % OutputBlockSize

\* The missing characters of the last block are a number.
LEMMA MissingType ==
    ASSUME NEW k \in Nat
    PROVE  Missing(k) \in Nat
  <1> DEFINE m == OutputBlockSize
             j == m - (k % m)
  <1>1. m \in Nat \ {0}
    BY OutputBlockSizeType
  <1> HIDE DEF m
  <1>2. k % m \in 0 .. m - 1
    BY <1>1
  <1>3. j \in Nat
    BY <1>1, <1>2
  <1> HIDE DEF j
  <1>4. j % m \in Nat
    BY <1>1, <1>3
  <1> QED
    BY <1>4 DEF j, m, Missing

\* Padding is behind the digits, and how much there is depends on their number.
LEMMA PadFacts ==
    ASSUME NEW s \in Seq(Digit)
    PROVE  /\ Pad(s) \in Seq(Digit \cup {Padding}) /\ Len(Pad(s)) = Len(s) + Missing(Len(s))
           /\ Len(s) \in Nat /\ Len(Pad(s)) \in Nat
           /\ \A i \in 1..Len(s) : Pad(s)[i] = s[i]
           /\ \A i \in Len(s) + 1 .. Len(Pad(s)) : Pad(s)[i] = Padding
  <1> DEFINE k == Len(s)
             m == Missing(k)
             C == Digit \cup {Padding}
             p == [i \in 1..m |-> Padding]
  <1>1. k \in Nat /\ m \in Nat /\ s \in Seq(C)
    BY LenProperties, MissingType, SeqMonotonic
  <1>2. Pad(s) = s \o p
    BY DEF Pad, Missing
  <1> HIDE DEF m
  <1>3. p \in Seq(C) /\ Len(p) = m /\ \A i \in 1..m : p[i] = Padding
    <2>1. p \in [1..m -> C] /\ \A i \in 1..m : p[i] = Padding
      OBVIOUS
    <2> HIDE DEF p
    <2> QED
      BY <1>1, <2>1, FixedLength
  <1> HIDE DEF p, C
  <1>4. /\ s \o p \in Seq(C) /\ Len(s \o p) = k + m
        /\ \A i \in 1 .. k + Len(p) : (s \o p)[i] = IF i <= k THEN s[i] ELSE p[i - k]
    BY <1>1, <1>3, ConcatProperties
  <1>5. \A i \in 1..k : (s \o p)[i] = s[i]
    BY <1>1, <1>3, <1>4
  <1>6. ASSUME NEW i \in k + 1 .. k + m
        PROVE  (s \o p)[i] = Padding
    <2>1. i \in 1 .. k + Len(p) /\ ~(i <= k) /\ i - k \in 1..m
      BY <1>1, <1>3
    <2> QED
      BY <1>3, <1>4, <2>1
  <1> QED
    BY <1>1, <1>2, <1>4, <1>5, <1>6 DEF m, C

\* The decoder does not count padding.
LEMMA PadDecodes ==
    ASSUME NEW s \in Seq(Digit)
    PROVE  Pad(s) \in Seq(Char) /\ Read(Pad(s)) = Read(s)
  <1> DEFINE t == Pad(s)
             k == Len(s)
  <1>1. /\ t \in Seq(Digit \cup {Padding}) /\ k \in Nat /\ Len(t) \in Nat
        /\ Len(t) = k + Missing(k) /\ Missing(k) \in Nat
        /\ \A i \in 1..k : t[i] = s[i]
        /\ \A i \in k + 1 .. Len(t) : t[i] = Padding
    BY PadFacts, MissingType
  <1>2. t \in Seq(Char) /\ s \in Seq(Char)
    <2>1. Digit \cup {Padding} \subseteq Char /\ Digit \subseteq Char
      BY Sizes
    <2> QED
      BY <1>1, <2>1, SeqMonotonic
  <1> HIDE DEF t
  <1>3. NoDigits(t, k)
    BY <1>1, Sizes DEF NoDigits
  <1>4. Agree(t, s, k)
    BY <1>1 DEF Agree
  <1>5. Read(t) = Decoding(t)[k]
    BY <1>2, <1>3, ReadSkips
  <1>6. Decoding(t)[k] = Decoding(s)[k]
    BY <1>2, <1>4, DecodingAgrees
  <1> QED
    BY <1>2, <1>5, <1>6 DEF Read, t

-----------------------------------------------------------------------------
(* Line breaks *)

Groupers == [text : Seq(Char), counter : Nat]

NoText == [text |-> <<>>, counter |-> 0]

\* A character goes behind the text, or behind a line break.
LEMMA GroupSteps ==
    ASSUME NEW g \in Groupers, NEW c \in Char
    PROVE  /\ Group(g, c) \in Groupers
           /\ \/ Group(g, c).text = Append(g.text, c)
              \/ Group(g, c).text = Append(Append(g.text, NewLine), c)
           /\ Append(g.text, NewLine) \in Seq(Char)
  <1>1. g.text \in Seq(Char) /\ g.counter \in Nat /\ NewLine \in Char
    BY Sizes DEF Groupers
  <1>2. Append(g.text, c) \in Seq(Char) /\ Append(g.text, NewLine) \in Seq(Char)
    BY <1>1, AppendProperties
  <1>3. Append(Append(g.text, NewLine), c) \in Seq(Char)
    BY <1>2, AppendProperties
  <1>4. g.text \o <<NewLine, c>> = Append(Append(g.text, NewLine), c)
    <2> DEFINE t == g.text
    <2>1. t \in Seq(Char)
      BY <1>1
    <2> HIDE DEF t
    <2>2. t \o <<NewLine, c>> = Append(Append(t, NewLine), c)
      BY <1>1, <2>1
    <2> QED
      BY <2>2 DEF t
  <1>5. CASE g.counter = GroupSize
    <2>1. Group(g, c) = [text |-> Append(Append(g.text, NewLine), c), counter |-> 1]
      BY <1>4, <1>5 DEF Group
    <2> QED
      BY <1>2, <1>3, <2>1 DEF Groupers
  <1>6. CASE g.counter # GroupSize
    <2>1. Group(g, c) = [text |-> Append(g.text, c), counter |-> g.counter + 1]
      BY <1>6 DEF Group
    <2> QED
      BY <1>1, <1>2, <2>1 DEF Groupers
  <1> QED
    BY <1>5, <1>6

\* The definition of Grouping, unfolded.
LEMMA GroupingSteps ==
    ASSUME NEW s \in Seq(Char)
    PROVE  /\ Grouping(s) \in [0..Len(s) -> Groupers]
           /\ Grouping(s)[0] = NoText
           /\ \A i \in 1..Len(s) : Grouping(s)[i] = Group(Grouping(s)[i - 1], s[i])
  <1> DEFINE n == Len(s)
             g == [y \in Groupers \X (1..n) |-> Group(y[1], s[y[2]])]
             F == Grouping(s)
             Body(f) == [i \in 0..n |-> IF i = 0 THEN NoText ELSE Group(f[i - 1], s[i])]
  <1>1. n \in Nat /\ \A i \in 1..n : s[i] \in Char
    BY LenProperties, ElementOfSeq
  <1>2. NoText \in Groupers
    BY EmptySeq DEF NoText, Groupers
  <1>3. Closed(g, Groupers, n)
    BY <1>1, GroupSteps DEF Closed
  <1>4. PICK f \in [0..n -> Groupers] : f[0] = NoText /\ \A i \in 1..n : f[i] = g[<<f[i - 1], i>>]
    <2> HIDE DEF g, n
    <2> QED
      BY <1>1, <1>2, <1>3, Recursion
  <1>5. \A i \in 1..n : f[i] = Group(f[i - 1], s[i])
    <2> SUFFICES ASSUME NEW i \in 1..n PROVE f[i] = Group(f[i - 1], s[i])
      OBVIOUS
    <2>1. f[i - 1] \in Groupers
      BY <1>1, <1>4
    <2> QED
      BY <1>4, <2>1
  <1>6. f = Body(f)
    BY <1>1, <1>4, <1>5
  <1>7. F = Body(F)
    <2>1. F = CHOOSE h : h = Body(h)
      BY DEF Grouping, NoText
    <2> HIDE DEF F, Body
    <2> QED
      BY <1>6, <2>1
  <1> HIDE DEF F
  <1>8. F[0] = NoText /\ \A i \in 1..n : F[i] = Group(F[i - 1], s[i])
    BY <1>1, <1>7
  <1>9. \A i \in 0..n : F[i] \in Groupers
    <2> DEFINE S == {i \in 0..n : F[i] \in Groupers}
    <2>1. 0 \in S
      BY <1>1, <1>2, <1>8
    <2>2. ASSUME NEW i \in 0 .. n - 1, i \in S
          PROVE  i + 1 \in S
      <3>1. i + 1 \in 1..n /\ (i + 1) - 1 = i /\ i + 1 \in 0..n
        BY <1>1
      <3>2. F[i + 1] = Group(F[i], s[i + 1])
        BY <1>8, <3>1
      <3>3. F[i] \in Groupers /\ s[i + 1] \in Char
        BY <1>1, <2>2, <3>1
      <3> QED
        BY <3>1, <3>2, <3>3, GroupSteps
    <2> HIDE DEF S
    <2>3. 0..n \subseteq S
      BY <1>1, <2>1, <2>2, Upwards
    <2> QED
      BY <2>3 DEF S
  <1>10. F \in [0..n -> Groupers]
    BY <1>7, <1>9
  <1> QED
    BY <1>8, <1>10 DEF F

\* The decoder does not count line breaks.
LEMMA BreakLinesDecodes ==
    ASSUME NEW s \in Seq(Char)
    PROVE  BreakLines(s) \in Seq(Char) /\ Read(BreakLines(s)) = Read(s)
  <1> DEFINE n == Len(s)
             G == Grouping(s)
             D == Decoding(s)
             S == {i \in 0..n : Read(G[i].text) = D[i]}
  <1>1. n \in Nat /\ \A i \in 1..n : s[i] \in Char
    BY LenProperties, ElementOfSeq
  <1>2. /\ \A i \in 0..n : G[i] \in Groupers
        /\ G[0] = NoText
        /\ \A i \in 1..n : G[i] = Group(G[i - 1], s[i])
    BY GroupingSteps
  <1>3. D[0] = Empty /\ \A i \in 1..n : D[i] = PutChar(D[i - 1], s[i])
    BY DecodingSteps
  <1>4. \A i \in 0..n : D[i] \in Decoders
    BY ReadIsDecoder
  <1> HIDE DEF G, D
  <1>5. 0 \in S
    <2>1. G[0].text = <<>>
      BY <1>2 DEF NoText
    <2> QED
      BY <1>1, <1>3, <2>1, ReadEmpty
  <1>6. ASSUME NEW t \in Seq(Char)
        PROVE  Append(t, NewLine) \in Seq(Char) /\ Read(Append(t, NewLine)) = Read(t)
    <2>1. NewLine \in Char /\ NewLine \notin Digit /\ Read(t) \in Decoders
      BY Sizes, ReadIsDecoder
    <2>2. PutChar(Read(t), NewLine) = Read(t)
      BY <2>1, PutCharSteps
    <2> QED
      BY <2>1, <2>2, ReadAppend, AppendProperties
  <1>7. ASSUME NEW i \in 0 .. n - 1, i \in S
        PROVE  i + 1 \in S
    <2> DEFINE t == G[i].text
               c == s[i + 1]
    <2>1. i + 1 \in 1..n /\ (i + 1) - 1 = i /\ i + 1 \in 0..n /\ i \in 0..n
      BY <1>1
    <2>2. G[i + 1] = Group(G[i], c) /\ G[i] \in Groupers /\ c \in Char
      BY <1>1, <1>2, <2>1
    <2>3. D[i + 1] = PutChar(D[i], c)
      BY <1>3, <2>1
    <2>4. \/ G[i + 1].text = Append(t, c)
          \/ G[i + 1].text = Append(Append(t, NewLine), c)
      BY <2>2, GroupSteps
    <2>5. t \in Seq(Char) /\ Read(t) = D[i]
      BY <1>7, <2>2 DEF Groupers
    <2> HIDE DEF t, c
    <2>6. Append(t, NewLine) \in Seq(Char) /\ Read(Append(t, NewLine)) = Read(t)
      BY <1>6, <2>5
    <2>7. Read(Append(t, c)) = PutChar(Read(t), c)
      BY <2>2, <2>5, ReadAppend
    <2> DEFINE u == Append(t, NewLine)
    <2>8. u \in Seq(Char) /\ Read(u) = Read(t)
      BY <2>6
    <2> HIDE DEF u
    <2>9. Read(Append(u, c)) = PutChar(Read(u), c)
      BY <2>2, <2>8, ReadAppend
    <2>10. Read(G[i + 1].text) = D[i + 1]
      BY <2>3, <2>4, <2>5, <2>7, <2>8, <2>9 DEF u
    <2> QED
      BY <2>1, <2>10
  <1>8. n \in S
    <2> HIDE DEF S
    <2>1. 0..n \subseteq S
      BY <1>1, <1>5, <1>7, Upwards
    <2> QED
      BY <1>1, <2>1
  <1> DEFINE t == G[n].text
  <1>9. t \in Seq(Char) /\ Read(t) = D[n]
    BY <1>1, <1>2, <1>8 DEF Groupers
  <1>10. BreakLines(s) = Append(t, NewLine)
    BY DEF BreakLines, G
  <1> HIDE DEF t
  <1>11. Append(t, NewLine) \in Seq(Char) /\ Read(Append(t, NewLine)) = Read(t)
    BY <1>6, <1>9
  <1> QED
    BY <1>9, <1>10, <1>11 DEF Read, D

-----------------------------------------------------------------------------
(* Both together *)

\* What the encoder makes of any bytes, the decoder makes these bytes of.
THEOREM RoundTrip ==
    ASSUME NEW bytes \in Seq(Byte)
    PROVE  Encode(bytes) \in Seq(Char) /\ Decode(Encode(bytes)) = bytes
  <1> DEFINE s == Finish(Encoding(bytes)[Len(bytes)])
             p == Pad(s)
  <1>1. s \in Seq(Digit) /\ Read(s).bytes = bytes
    BY FinishDecodes
  <1> HIDE DEF s
  <1>2. p \in Seq(Char) /\ Read(p) = Read(s)
    BY <1>1, PadDecodes
  <1>3. Encode(bytes) = BreakLines(p)
    BY DEF Encode, s
  <1> HIDE DEF p
  <1>4. BreakLines(p) \in Seq(Char) /\ Read(BreakLines(p)) = Read(p)
    BY <1>2, BreakLinesDecodes
  <1> QED
    BY <1>1, <1>2, <1>3, <1>4 DEF Decode, Read

\* A portion from the beginning decodes to the beginning.
THEOREM PortionDecodes ==
    ASSUME NEW text \in Seq(Char), NEW n \in 0..Len(text)
    PROVE  /\ Decode(SubSeq(text, 1, n)) \in Seq(Byte) /\ Decode(text) \in Seq(Byte)
           /\ Len(Decode(SubSeq(text, 1, n))) <= Len(Decode(text))
           /\ \A i \in 1..Len(Decode(SubSeq(text, 1, n))) :
                 Decode(SubSeq(text, 1, n))[i] = Decode(text)[i]
  <1> DEFINE D == Decoding(text)
             N == Len(text)
  <1>1. N \in Nat /\ n \in 0..N /\ N \in n..N /\ N \in 0..N
    BY LenProperties
  <1>2. Decode(SubSeq(text, 1, n)) = D[n].bytes /\ Decode(text) = D[N].bytes
    BY ReadOfPortion DEF Decode, Read
  <1>3. D[n] \in Decoders /\ D[N] \in Decoders
    BY <1>1, ReadIsDecoder
  <1>4. /\ Len(D[n].bytes) <= Len(D[N].bytes)
        /\ \A i \in 1..Len(D[n].bytes) : D[N].bytes[i] = D[n].bytes[i]
    BY <1>1, ReadGrows
  <1> HIDE DEF D, N
  <1> QED
    BY <1>2, <1>3, <1>4 DEF Decoders

-----------------------------------------------------------------------------
(* The cipher, byte by byte *)

\* What is assumed of the sizes of blocks and bytes, for arithmetic.
LEMMA BlockNumbers ==
    /\ BlockSize \in Nat /\ 0 < BlockSize /\ ByteBits \in Nat
    /\ Byte = [1..ByteBits -> Bit] /\ Bit = {0, 1}
  BY CfbAssumption, BytesAssumption DEF Byte, Bit

\* The register before a byte, and the byte of keystream for it.
Ready(c) == IF c.left = 0 THEN Transform(c) ELSE c
Key(c) == Ready(c).reg[BlockSize - Ready(c).left + 1]

\* One byte: what is to be transmitted, or was, takes the place of the keystream.
Sent(c, dir, b) == IF dir = "encrypt" THEN Xor(Key(c), b) ELSE b
Step(c, dir, b) ==
    [reg  |-> [i \in 1..BlockSize |->
                  IF i = BlockSize - Ready(c).left + 1 THEN Sent(c, dir, b) ELSE Ready(c).reg[i]],
     left |-> Ready(c).left - 1,
     out  |-> Append(c.out, Xor(Key(c), b))]

\* Byte after byte.
Run(c, dir, s) ==
    LET run[i \in 0..Len(s)] == IF i = 0 THEN c ELSE Step(run[i - 1], dir, s[i])
    IN  run
Ran(c, dir, s) == Run(c, dir, s)[Len(s)]

\* An exclusive or is undone by another.
LEMMA XorFacts ==
    ASSUME NEW a \in Byte, NEW b \in Byte
    PROVE  Xor(a, b) \in Byte /\ Xor(a, Xor(a, b)) = b
  <1>1. a \in [1..ByteBits -> Bit] /\ b \in [1..ByteBits -> Bit] /\ Bit = {0, 1}
    BY BlockNumbers
  <1>2. \A i \in 1..ByteBits : Xor(a, b)[i] = IF a[i] = b[i] THEN 0 ELSE 1
    BY DEF Xor
  <1>3. Xor(a, b) \in [1..ByteBits -> Bit]
    BY <1>1 DEF Xor
  <1>4. Xor(a, Xor(a, b)) = [i \in 1..ByteBits |-> b[i]]
    <2>1. \A i \in 1..ByteBits : (IF a[i] = Xor(a, b)[i] THEN 0 ELSE 1) = b[i]
      <3> SUFFICES ASSUME NEW i \in 1..ByteBits
                   PROVE  (IF a[i] = Xor(a, b)[i] THEN 0 ELSE 1) = b[i]
        OBVIOUS
      <3>1. a[i] \in {0, 1} /\ b[i] \in {0, 1}
        BY <1>1
      <3> QED
        BY <1>2, <3>1
    <2> DEFINE x == Xor(a, b)
    <2>2. Xor(a, x) = [i \in 1..ByteBits |-> IF a[i] = x[i] THEN 0 ELSE 1]
      BY DEF Xor
    <2> QED
      BY <2>1, <2>2
  <1> QED
    BY <1>1, <1>3, <1>4, BlockNumbers

\* The fields of a cipher object.
LEMMA CipherTypes ==
    ASSUME NEW c \in Ciphers
    PROVE  /\ c = [reg |-> c.reg, left |-> c.left, out |-> c.out]
           /\ c.reg \in [1..BlockSize -> Byte] /\ c.reg \in Block /\ c.left \in 0..BlockSize
           /\ c.left \in Nat /\ c.out \in Seq(Byte)
  BY BlockNumbers DEF Ciphers, Block

\* A new block of the key stream.
LEMMA TransformFacts ==
    ASSUME NEW c \in Ciphers
    PROVE  /\ Transform(c) \in Ciphers
           /\ Transform(c) = [reg |-> BlockCipher[c.reg], left |-> BlockSize, out |-> c.out]
           /\ BlockCipher[c.reg] \in [1..BlockSize -> Byte]
  <1>1. Transform(c) = [reg |-> BlockCipher[c.reg], left |-> BlockSize, out |-> c.out]
    BY DEF Transform
  <1>2. BlockCipher[c.reg] \in Block
    BY CfbAssumption, CipherTypes
  <1> QED
    BY <1>1, <1>2, CipherTypes, BlockNumbers DEF Ciphers, Block

\* A cipher object made ready for one byte has a byte of the key stream left, and
\* making it ready puts nothing out.
LEMMA ReadyFacts ==
    ASSUME NEW c \in Ciphers
    PROVE  /\ Ready(c) \in Ciphers /\ Ready(c).reg \in [1..BlockSize -> Byte]
           /\ Ready(c).left \in 1..BlockSize /\ Ready(c).out = c.out
           /\ Ready(Ready(c)) = Ready(c) /\ Key(c) \in Byte
           /\ c.left # 0 => Ready(c) = c
  <1>1. /\ Ready(c) \in Ciphers /\ Ready(c).left \in 1..BlockSize /\ Ready(c).out = c.out
    BY CipherTypes, TransformFacts, BlockNumbers DEF Ready
  <1>2. Ready(c).reg \in [1..BlockSize -> Byte]
    BY <1>1, CipherTypes
  <1>3. BlockSize - Ready(c).left + 1 \in 1..BlockSize
    BY <1>1, BlockNumbers
  <1>4. Ready(c).left # 0
    BY <1>1
  <1>5. Ready(Ready(c)) = Ready(c)
    BY <1>4 DEF Ready
  <1> QED
    BY <1>1, <1>2, <1>3, <1>5 DEF Key, Ready

\* One byte through a cipher object puts out one byte.
LEMMA StepTypes ==
    ASSUME NEW c \in Ciphers, NEW dir, NEW b \in Byte
    PROVE  /\ Step(c, dir, b) \in Ciphers
           /\ Len(Step(c, dir, b).out) = Len(c.out) + 1
           /\ Sent(c, dir, b) \in Byte
  <1> DEFINE r == Ready(c)
             x == Xor(Key(c), b)
             y == Sent(c, dir, b)
             reg == [i \in 1..BlockSize |-> IF i = BlockSize - r.left + 1 THEN y ELSE r.reg[i]]
  <1>1. r \in Ciphers /\ r.left \in 1..BlockSize /\ r.reg \in [1..BlockSize -> Byte]
    BY ReadyFacts
  <1>2. x \in Byte
    BY ReadyFacts, XorFacts
  <1>3. y \in Byte
    BY <1>2 DEF Sent
  <1>4. Append(c.out, x) \in Seq(Byte) /\ Len(Append(c.out, x)) = Len(c.out) + 1
    BY <1>2, CipherTypes, AppendProperties
  <1>5. r.left - 1 \in 0..BlockSize
    BY <1>1, BlockNumbers
  <1>6. Step(c, dir, b) = [reg |-> reg, left |-> r.left - 1, out |-> Append(c.out, x)]
    BY DEF Step
  <1> HIDE DEF r, x, y
  <1>7. reg \in [1..BlockSize -> Byte]
    BY <1>1, <1>3
  <1> HIDE DEF reg
  <1>8. [reg |-> reg, left |-> r.left - 1, out |-> Append(c.out, x)] \in Ciphers
    BY <1>4, <1>5, <1>7 DEF Ciphers, Block
  <1> QED
    BY <1>3, <1>4, <1>6, <1>8 DEF y

\* The definition of Run, unfolded.
LEMMA RunSteps ==
    ASSUME NEW c \in Ciphers, NEW dir, NEW s \in Seq(Byte)
    PROVE  /\ Run(c, dir, s) \in [0..Len(s) -> Ciphers]
           /\ Run(c, dir, s)[0] = c
           /\ \A i \in 1..Len(s) : Run(c, dir, s)[i] = Step(Run(c, dir, s)[i - 1], dir, s[i])
  <1> DEFINE n == Len(s)
             g == [y \in Ciphers \X (1..n) |-> Step(y[1], dir, s[y[2]])]
             F == Run(c, dir, s)
             Body(f) == [i \in 0..n |-> IF i = 0 THEN c ELSE Step(f[i - 1], dir, s[i])]
  <1>1. n \in Nat /\ \A i \in 1..n : s[i] \in Byte
    BY LenProperties, ElementOfSeq
  <1>2. c \in Ciphers
    OBVIOUS
  <1>3. Closed(g, Ciphers, n)
    BY <1>1, StepTypes DEF Closed
  <1>4. PICK f \in [0..n -> Ciphers] : f[0] = c /\ \A i \in 1..n : f[i] = g[<<f[i - 1], i>>]
    <2> HIDE DEF g, n
    <2>1. n \in Nat
      BY <1>1
    <2>2. \E f \in [0..n -> Ciphers] : f[0] = c /\ \A i \in 1..n : f[i] = g[<<f[i - 1], i>>]
      BY <1>2, <1>3, <2>1, Recursion
    <2> QED
      BY <2>2
  <1>5. \A i \in 1..n : f[i] = Step(f[i - 1], dir, s[i])
    <2> SUFFICES ASSUME NEW i \in 1..n PROVE f[i] = Step(f[i - 1], dir, s[i])
      OBVIOUS
    <2>1. f[i - 1] \in Ciphers
      BY <1>1, <1>4
    <2> QED
      BY <1>4, <2>1
  <1>6. f = Body(f)
    BY <1>1, <1>4, <1>5
  <1>7. F = Body(F)
    <2>1. F = CHOOSE h : h = Body(h)
      BY DEF Run
    <2> HIDE DEF F, Body
    <2> QED
      BY <1>6, <2>1
  <1> HIDE DEF F
  <1>8. F[0] = c /\ \A i \in 1..n : F[i] = Step(F[i - 1], dir, s[i])
    BY <1>1, <1>7
  <1>9. \A i \in 0..n : F[i] \in Ciphers
    <2> DEFINE S == {i \in 0..n : F[i] \in Ciphers}
    <2>1. 0 \in S
      BY <1>1, <1>8
    <2>2. ASSUME NEW i \in 0 .. n - 1, i \in S
          PROVE  i + 1 \in S
      <3>1. i + 1 \in 1..n /\ (i + 1) - 1 = i /\ i + 1 \in 0..n
        BY <1>1
      <3>2. F[i + 1] = Step(F[i], dir, s[i + 1])
        BY <1>8, <3>1
      <3>3. F[i] \in Ciphers /\ s[i + 1] \in Byte
        BY <1>1, <2>2, <3>1
      <3> QED
        BY <3>1, <3>2, <3>3, StepTypes
    <2> HIDE DEF S
    <2>3. 0..n \subseteq S
      BY <1>1, <2>1, <2>2, Upwards
    <2> QED
      BY <2>3 DEF S
  <1>10. F \in [0..n -> Ciphers]
    BY <1>7, <1>9
  <1> QED
    BY <1>8, <1>10 DEF F

\* After any bytes a cipher object is one.
LEMMA RanType ==
    ASSUME NEW c \in Ciphers, NEW dir, NEW s \in Seq(Byte)
    PROVE  Ran(c, dir, s) \in Ciphers
  BY RunSteps, LenProperties DEF Ran

\* What has become of the cipher depends on the bytes so far.
LEMMA RunAgrees ==
    ASSUME NEW c \in Ciphers, NEW dir, NEW s \in Seq(Byte), NEW t \in Seq(Byte), NEW n, Agree(s, t, n)
    PROVE  Run(c, dir, s)[n] = Run(c, dir, t)[n]
  <1> DEFINE F == Run(c, dir, s)
             G == Run(c, dir, t)
             S == {i \in 0..n : F[i] = G[i]}
  <1>1. n \in 0..Len(s) /\ n \in 0..Len(t) /\ n \in Nat /\ \A i \in 1..n : s[i] = t[i]
    BY DEF Agree
  <1>2. /\ F[0] = c /\ \A i \in 1..Len(s) : F[i] = Step(F[i - 1], dir, s[i])
        /\ G[0] = c /\ \A i \in 1..Len(t) : G[i] = Step(G[i - 1], dir, t[i])
    BY RunSteps
  <1>3. Len(s) \in Nat /\ Len(t) \in Nat
    BY LenProperties
  <1> HIDE DEF F, G
  <1>4. 0 \in S
    BY <1>1, <1>2
  <1>5. ASSUME NEW i \in 0 .. n - 1, i \in S
        PROVE  i + 1 \in S
    <2>1. /\ i + 1 \in 1..n /\ i + 1 \in 1..Len(s) /\ i + 1 \in 1..Len(t) /\ i + 1 \in 0..n
          /\ (i + 1) - 1 = i
      BY <1>1, <1>3
    <2>2. F[i + 1] = Step(F[i], dir, s[i + 1]) /\ G[i + 1] = Step(G[i], dir, t[i + 1])
      BY <1>2, <2>1
    <2> QED
      BY <1>1, <1>5, <2>1, <2>2
  <1> HIDE DEF S
  <1>6. 0..n \subseteq S
    BY <1>1, <1>4, <1>5, Upwards
  <1>7. n \in S
    BY <1>1, <1>6
  <1> QED
    BY <1>7 DEF S, F, G

\* Bytes may be given in two portions.
LEMMA RunSplit ==
    ASSUME NEW c \in Ciphers, NEW dir, NEW s \in Seq(Byte), NEW n \in 0..Len(s)
    PROVE  /\ Ran(c, dir, SubSeq(s, 1, n)) = Run(c, dir, s)[n]
           /\ Ran(c, dir, SubSeq(s, 1, n)) \in Ciphers
           /\ Ran(Ran(c, dir, SubSeq(s, 1, n)), dir, SubSeq(s, n + 1, Len(s))) = Ran(c, dir, s)
  <1> DEFINE t == SubSeq(s, 1, n)
             u == SubSeq(s, n + 1, Len(s))
             F == Run(c, dir, s)
             d == Ran(c, dir, t)
             G == Run(d, dir, u)
             S == {i \in 0 .. Len(s) - n : G[i] = F[n + i]}
  <1>1. /\ t \in Seq(Byte) /\ Len(t) = n /\ u \in Seq(Byte) /\ Len(u) = Len(s) - n
        /\ \A i \in 1..n : t[i] = s[i]
        /\ \A i \in 1 .. Len(s) - n : u[i] = s[n + i]
    BY Split
  <1>2. Len(s) \in Nat /\ n \in Nat /\ Len(s) - n \in Nat
    BY LenProperties
  <1> HIDE DEF t, u
  <1>3. d = F[n]
    <2>1. Agree(t, s, n)
      BY <1>1, <1>2 DEF Agree
    <2> QED
      BY <1>1, <2>1, RunAgrees DEF Ran
  <1>4. d \in Ciphers
    BY <1>1, RanType
  <1>5. \A i \in 1..Len(s) : F[i] = Step(F[i - 1], dir, s[i])
    BY RunSteps
  <1> HIDE DEF F, d
  <1>6. G[0] = d /\ \A i \in 1..Len(u) : G[i] = Step(G[i - 1], dir, u[i])
    BY <1>1, <1>4, RunSteps
  <1> HIDE DEF G
  <1>7. 0 \in S
    BY <1>2, <1>3, <1>6
  <1>8. ASSUME NEW i \in 0 .. (Len(s) - n) - 1, i \in S
        PROVE  i + 1 \in S
    <2>1. /\ i + 1 \in 1..Len(u) /\ (i + 1) - 1 = i /\ i + 1 \in 0 .. Len(s) - n
          /\ n + (i + 1) \in 1..Len(s) /\ (n + (i + 1)) - 1 = n + i
      BY <1>1, <1>2
    <2>2. G[i + 1] = Step(G[i], dir, u[i + 1]) /\ F[n + (i + 1)] = Step(F[n + i], dir, s[n + (i + 1)])
      BY <1>5, <1>6, <2>1
    <2> QED
      BY <1>1, <1>8, <2>1, <2>2
  <1>9. Len(s) - n \in S
    <2> HIDE DEF S
    <2>1. 0 .. Len(s) - n \subseteq S
      BY <1>2, <1>7, <1>8, Upwards
    <2> QED
      BY <1>2, <2>1
  <1>10. G[Len(u)] = F[Len(s)]
    <2>1. n + (Len(s) - n) = Len(s)
      BY <1>2
    <2> QED
      BY <1>1, <1>9, <2>1
  <1>11. Ran(d, dir, u) = Ran(c, dir, s)
    BY <1>10 DEF Ran, F, G
  <1> QED
    BY <1>3, <1>4, <1>11 DEF t, u, d, F

\* No bytes, no change.
LEMMA RunNothing ==
    ASSUME NEW c \in Ciphers, NEW dir
    PROVE  Ran(c, dir, <<>>) = c
  <1>1. <<>> \in Seq(Byte) /\ Len(<<>>) = 0
    BY EmptySeq
  <1> QED
    BY <1>1, RunSteps DEF Ran

\* The next block is made when it is needed: nothing depends on when.
LEMMA RunReady ==
    ASSUME NEW c \in Ciphers, NEW dir, NEW s \in Seq(Byte), c.left = 0, s # <<>>
    PROVE  Ran(Transform(c), dir, s) = Ran(c, dir, s)
  <1> DEFINE d == Transform(c)
             t == SubSeq(s, 1, 1)
             b == s[1]
  <1>1. Len(s) \in Nat /\ Len(s) # 0
    BY LenProperties, EmptySeq
  <1>2. 1 \in 0..Len(s) /\ 1 \in 1..Len(s) /\ b \in Byte
    BY <1>1, ElementOfSeq
  <1>3. d \in Ciphers /\ d = Ready(c)
    BY TransformFacts DEF Ready
  <1>4. Run(c, dir, s)[1] = Step(Run(c, dir, s)[0], dir, b) /\ Run(c, dir, s)[0] = c
    BY <1>2, RunSteps
  <1> HIDE DEF d
  <1>5. Run(d, dir, s)[1] = Step(Run(d, dir, s)[0], dir, b) /\ Run(d, dir, s)[0] = d
    BY <1>2, <1>3, RunSteps
  <1>6. Step(d, dir, b) = Step(c, dir, b)
    <2>1. Ready(d) = Ready(c) /\ d.out = c.out
      BY <1>3, ReadyFacts
    <2>2. Key(d) = Key(c)
      BY <2>1 DEF Key
    <2>3. Sent(d, dir, b) = Sent(c, dir, b)
      BY <2>2 DEF Sent
    <2> QED
      BY <2>1, <2>2, <2>3 DEF Step
  <1>7. Ran(d, dir, t) = Ran(c, dir, t)
    BY <1>2, <1>3, <1>4, <1>5, <1>6, RunSplit
  <1>8. /\ Ran(Ran(c, dir, t), dir, SubSeq(s, 1 + 1, Len(s))) = Ran(c, dir, s)
        /\ Ran(Ran(d, dir, t), dir, SubSeq(s, 1 + 1, Len(s))) = Ran(d, dir, s)
    BY <1>2, <1>3, RunSplit
  <1> QED
    BY <1>7, <1>8 DEF d

-----------------------------------------------------------------------------
(* Many bytes at once *)

\* What an exclusive or with the keystream makes of s.
Stream(c, s) ==
    XorBytes(SubSeq(c.reg, BlockSize - c.left + 1, BlockSize - c.left + Len(s)), s)

\* Bytes that the rest of the block covers are combined each with its own of the register.
LEMMA StreamFacts ==
    ASSUME NEW c \in Ciphers, NEW s \in Seq(Byte), Len(s) <= c.left
    PROVE  /\ Stream(c, s) \in Seq(Byte) /\ Len(Stream(c, s)) = Len(s)
           /\ \A j \in 1..Len(s) :
                 /\ BlockSize - c.left + j \in 1..BlockSize
                 /\ Stream(c, s)[j] = Xor(c.reg[BlockSize - c.left + j], s[j])
  <1> DEFINE at == BlockSize - c.left
             m == Len(s)
             k == SubSeq(c.reg, at + 1, at + m)
             x == XorBytes(k, s)
             reg == c.reg
  <1>1. /\ c.left \in 0..BlockSize /\ m \in Nat /\ m <= c.left /\ BlockSize \in Nat
        /\ \A j \in 1..m : s[j] \in Byte
    BY CipherTypes, BlockNumbers, LenProperties, ElementOfSeq
  <1>2. at \in Nat /\ at + m \in 0..BlockSize /\ \A j \in 1..m : at + j \in 1..BlockSize
    BY <1>1
  <1>3. reg \in Seq(Byte) /\ Len(reg) = BlockSize /\ \A j \in 1..BlockSize : reg[j] \in Byte
    BY CipherTypes, BlockNumbers, FixedLength
  <1> HIDE DEF at, reg
  <1>4. /\ k \in Seq(Byte) /\ Len(k) = m
        /\ \A j \in 1..m : k[j] = reg[at + j]
    <2> DEFINE p == at + 1
               q == at + m
    <2>1. p \in Int /\ q \in Int /\ \A j \in p..q : reg[j] \in Byte
      BY <1>1, <1>2, <1>3
    <2>2. k = SubSeq(reg, p, q)
      BY DEF reg
    <2> HIDE DEF k, p, q
    <2>3. /\ SubSeq(reg, p, q) \in Seq(Byte)
          /\ Len(SubSeq(reg, p, q)) = IF p <= q THEN q - p + 1 ELSE 0
          /\ \A j \in 1 .. q - p + 1 : SubSeq(reg, p, q)[j] = reg[p + j - 1]
      BY <1>3, <2>1, SubSeqProperties
    <2>4. q - p + 1 = m /\ (p <= q <=> 1 <= m) /\ p = at + 1
      BY <1>1, <1>2 DEF p, q
    <2>5. Len(k) = m
      BY <1>1, <2>2, <2>3, <2>4
    <2>6. \A j \in 1..m : k[j] = reg[at + j]
      <3> SUFFICES ASSUME NEW j \in 1..m PROVE k[j] = reg[at + j]
        OBVIOUS
      <3>1. p + j - 1 = at + j
        BY <1>1, <1>2, <2>4
      <3> QED
        BY <2>2, <2>3, <2>4, <3>1
    <2> QED
      BY <2>2, <2>3, <2>5, <2>6
  <1>5. Stream(c, s) = x
    BY DEF Stream, at
  <1> HIDE DEF k
  <1>6. \A j \in 1..m : Xor(k[j], s[j]) \in Byte
    <2> SUFFICES ASSUME NEW j \in 1..m PROVE Xor(k[j], s[j]) \in Byte
      OBVIOUS
    <2>1. k[j] \in Byte /\ s[j] \in Byte
      BY <1>1, <1>2, <1>3, <1>4
    <2> QED
      BY <2>1, XorFacts
  <1>7. x = [j \in 1..m |-> Xor(k[j], s[j])]
    BY <1>4 DEF XorBytes
  <1>8. x \in [1..m -> Byte] /\ \A j \in 1..m : x[j] = Xor(k[j], s[j])
    BY <1>6, <1>7
  <1> HIDE DEF x
  <1>9. x \in Seq(Byte) /\ Len(x) = m
    BY <1>1, <1>8, FixedLength
  <1> QED
    BY <1>2, <1>4, <1>5, <1>8, <1>9 DEF at, reg

\* Where the ciphertext of s comes from.
Feed(c, dir, s) == IF dir = "encrypt" THEN Stream(c, s) ELSE s

\* CombineMessageAndShiftRegister within the rest of the block, field by field.
LEMMA CombineFacts ==
    ASSUME NEW c \in Ciphers, NEW dir, NEW s \in Seq(Byte), Len(s) <= c.left
    PROVE  /\ Combine(c, dir, s) =
                 [reg  |-> [i \in 1..BlockSize |->
                               IF i - (BlockSize - c.left) \in 1..Len(s)
                               THEN Feed(c, dir, s)[i - (BlockSize - c.left)] ELSE c.reg[i]],
                  left |-> c.left - Len(s),
                  out  |-> c.out \o Stream(c, s)]
           /\ Combine(c, dir, s) \in Ciphers
  <1> DEFINE at == BlockSize - c.left
             m == Len(s)
             f == Feed(c, dir, s)
             x == Stream(c, s)
             reg == [i \in 1..BlockSize |-> IF i - at \in 1..m THEN f[i - at] ELSE c.reg[i]]
  <1>1. c.left \in 0..BlockSize /\ m \in Nat /\ m <= c.left /\ BlockSize \in Nat
    BY CipherTypes, BlockNumbers, LenProperties
  <1>2. x \in Seq(Byte) /\ Len(x) = m
    BY StreamFacts
  <1>3. f \in Seq(Byte) /\ Len(f) = m
    BY <1>2 DEF Feed
  <1>4. Combine(c, dir, s) = [reg |-> reg, left |-> c.left - m, out |-> c.out \o x]
    BY DEF Combine, Feed, Stream
  <1> HIDE DEF f, x
  <1>5. \A j \in 1..m : f[j] \in Byte
    BY <1>3, ElementOfSeq
  <1>6. c.reg \in [1..BlockSize -> Byte] /\ c.out \in Seq(Byte)
    BY CipherTypes
  <1>7. reg \in [1..BlockSize -> Byte]
    BY <1>5, <1>6
  <1>8. c.left - m \in 0..BlockSize
    BY <1>1
  <1>9. c.out \o x \in Seq(Byte)
    BY <1>2, <1>6, ConcatProperties
  <1>10. Combine(c, dir, s) \in Ciphers
    <2> HIDE DEF reg
    <2> QED
      BY <1>4, <1>7, <1>8, <1>9 DEF Ciphers, Block
  <1> QED
    BY <1>4, <1>10 DEF f, x

\* ConcatAppend, for bytes.
LEMMA AppendBehind ==
    ASSUME NEW s \in Seq(Byte), NEW t \in Seq(Byte), NEW b \in Byte
    PROVE  s \o Append(t, b) = Append(s \o t, b)
  <1> DEFINE u == Append(t, b)
             v == s \o t
             x == s \o u
             y == Append(v, b)
  <1>1. /\ u \in Seq(Byte) /\ Len(u) = Len(t) + 1
        /\ \A i \in 1..Len(t) : u[i] = t[i]
        /\ u[Len(t) + 1] = b
    BY AppendProperties
  <1>2. /\ v \in Seq(Byte) /\ Len(v) = Len(s) + Len(t)
        /\ \A i \in 1 .. Len(s) + Len(t) : v[i] = IF i <= Len(s) THEN s[i] ELSE t[i - Len(s)]
    BY ConcatProperties
  <1>3. Len(s) \in Nat /\ Len(t) \in Nat
    BY LenProperties
  <1> HIDE DEF u, v
  <1>4. /\ x \in Seq(Byte) /\ Len(x) = Len(s) + Len(u)
        /\ \A i \in 1 .. Len(s) + Len(u) : x[i] = IF i <= Len(s) THEN s[i] ELSE u[i - Len(s)]
    BY <1>1, ConcatProperties
  <1>5. /\ y \in Seq(Byte) /\ Len(y) = Len(v) + 1
        /\ \A i \in 1..Len(v) : y[i] = v[i]
        /\ y[Len(v) + 1] = b
    <2>1. v \in Seq(Byte)
      BY <1>2
    <2> QED
      BY <2>1, AppendProperties
  <1> HIDE DEF x, y
  <1> DEFINE k == Len(s)
             l == Len(t)
  <1>6. /\ k \in Nat /\ l \in Nat
        /\ Len(u) = l + 1 /\ Len(v) = k + l /\ Len(x) = k + (l + 1) /\ Len(y) = k + l + 1
        /\ \A i \in 1..l : u[i] = t[i]
        /\ u[l + 1] = b
        /\ \A i \in 1 .. k + l : v[i] = IF i <= k THEN s[i] ELSE t[i - k]
        /\ \A i \in 1 .. k + (l + 1) : x[i] = IF i <= k THEN s[i] ELSE u[i - k]
        /\ \A i \in 1 .. k + l : y[i] = v[i]
        /\ y[k + l + 1] = b
    BY <1>1, <1>2, <1>3, <1>4, <1>5
  <1> HIDE DEF k, l
  <1>7. Len(x) = Len(y) /\ \A i \in 1..Len(x) : x[i] = y[i]
    <2>1. Len(x) = Len(y)
      BY <1>6
    <2> SUFFICES ASSUME NEW i \in 1 .. k + (l + 1) PROVE x[i] = y[i]
      BY <1>6, <2>1
    <2>2. CASE i <= k
      <3>1. i \in 1 .. k + l
        BY <1>6, <2>2
      <3> QED
        BY <1>6, <2>2, <3>1
    <2>3. CASE ~(i <= k) /\ i # k + l + 1
      <3>1. i \in 1 .. k + l /\ i - k \in 1..l
        BY <1>6, <2>3
      <3> QED
        BY <1>6, <2>3, <3>1
    <2>4. CASE i = k + l + 1
      <3>1. i - k = l + 1 /\ ~(i <= k)
        BY <1>6, <2>4
      <3> QED
        BY <1>6, <2>4, <3>1
    <2> QED
      BY <2>2, <2>3, <2>4
  <1>8. x = y
    BY <1>4, <1>5, <1>7, SeqEqual
  <1> QED
    BY <1>8 DEF x, y, u, v

\* One byte more.
LEMMA CombineOne ==
    ASSUME NEW c \in Ciphers, NEW dir, NEW s \in Seq(Byte), NEW b \in Byte, Len(s) < c.left
    PROVE  Combine(c, dir, Append(s, b)) = Step(Combine(c, dir, s), dir, b)
  <1> DEFINE at == BlockSize - c.left
             m == Len(s)
             t == Append(s, b)
             d == Combine(c, dir, s)
             e == Combine(c, dir, t)
             x == Xor(c.reg[at + m + 1], b)
  <1>1. c.left \in 0..BlockSize /\ m \in Nat /\ m < c.left /\ BlockSize \in Nat /\ m <= c.left
    BY CipherTypes, BlockNumbers, LenProperties
  <1>2. at \in Nat /\ at + m + 1 \in 1..BlockSize /\ c.reg[at + m + 1] \in Byte
    BY <1>1, CipherTypes
  <1>3. x \in Byte
    BY <1>2, XorFacts
  <1>4. /\ t \in Seq(Byte) /\ Len(t) = m + 1
        /\ \A i \in 1..m : t[i] = s[i]
        /\ t[m + 1] = b
    BY AppendProperties
  <1> HIDE DEF t
  <1>5. Len(t) <= c.left
    BY <1>1, <1>4
  <1>6. /\ Stream(c, s) \in Seq(Byte) /\ Len(Stream(c, s)) = m
        /\ \A j \in 1..m : Stream(c, s)[j] = Xor(c.reg[at + j], s[j])
    BY <1>1, StreamFacts
  <1>7. /\ Stream(c, t) \in Seq(Byte) /\ Len(Stream(c, t)) = m + 1
        /\ \A j \in 1 .. m + 1 : Stream(c, t)[j] = Xor(c.reg[at + j], t[j])
    BY <1>4, <1>5, StreamFacts
  <1>8. Stream(c, t) = Append(Stream(c, s), x)
    <2> DEFINE u == Stream(c, s)
               v == Append(u, x)
               w == Stream(c, t)
    <2>1. /\ v \in Seq(Byte) /\ Len(v) = m + 1
          /\ \A j \in 1..m : v[j] = u[j]
          /\ v[m + 1] = x
      BY <1>3, <1>6, AppendProperties
    <2> HIDE DEF u, v, w
    <2>2. \A j \in 1 .. m + 1 : w[j] = v[j]
      <3> SUFFICES ASSUME NEW j \in 1 .. m + 1 PROVE w[j] = v[j]
        OBVIOUS
      <3>1. CASE j \in 1..m
        <4>1. w[j] = Xor(c.reg[at + j], s[j])
          BY <1>4, <1>7, <3>1 DEF w
        <4>2. v[j] = Xor(c.reg[at + j], s[j])
          BY <1>6, <2>1, <3>1 DEF u
        <4> QED
          BY <4>1, <4>2
      <3>2. CASE j = m + 1
        <4>1. at + j = at + m + 1
          <5>1. at \in Nat /\ m \in Nat /\ j = m + 1
            BY <1>1, <1>2, <3>2
          <5> HIDE DEF at, m
          <5> QED
            BY <5>1
        <4>2. w[j] = Xor(c.reg[at + j], t[j]) /\ t[j] = b
          BY <1>4, <1>7, <3>2 DEF w
        <4>3. v[j] = x
          BY <2>1, <3>2
        <4> QED
          BY <4>1, <4>2, <4>3
      <3> QED
        BY <1>1, <3>1, <3>2
    <2>3. w \in Seq(Byte) /\ Len(w) = m + 1
      BY <1>7 DEF w
    <2>4. w = v
      BY <2>1, <2>2, <2>3, SeqEqual
    <2> QED
      BY <2>4 DEF u, v, w
  <1>9. c.out \o Append(Stream(c, s), x) = Append(c.out \o Stream(c, s), x)
    BY <1>3, <1>6, CipherTypes, AppendBehind
  <1>10. /\ d \in Ciphers
         /\ d.reg = [i \in 1..BlockSize |->
                        IF i - at \in 1..m THEN Feed(c, dir, s)[i - at] ELSE c.reg[i]]
         /\ d.left = c.left - m /\ d.out = c.out \o Stream(c, s)
    <2>1. /\ d \in Ciphers
          /\ d = [reg  |-> [i \in 1..BlockSize |->
                               IF i - at \in 1..m THEN Feed(c, dir, s)[i - at] ELSE c.reg[i]],
                  left |-> c.left - m, out |-> c.out \o Stream(c, s)]
      BY <1>1, CombineFacts
    <2> HIDE DEF d
    <2> QED
      BY <2>1
  <1>11. e = [reg  |-> [i \in 1..BlockSize |->
                           IF i - at \in 1 .. m + 1 THEN Feed(c, dir, t)[i - at] ELSE c.reg[i]],
              left |-> c.left - (m + 1), out |-> c.out \o Stream(c, t)]
    BY <1>4, <1>5, CombineFacts
  <1> HIDE DEF d, e
  <1>12. Ready(d) = d
    <2>1. d.left # 0
      BY <1>1, <1>10
    <2> QED
      BY <2>1 DEF Ready
  <1>13. BlockSize - d.left + 1 = at + m + 1
    BY <1>1, <1>2, <1>10
  <1>14. Key(d) = c.reg[at + m + 1]
    <2> DEFINE k == at + m + 1
    <2>1. ~(k - at \in 1..m) /\ k \in 1..BlockSize
      BY <1>1, <1>2
    <2>2. Key(d) = d.reg[k]
      BY <1>12, <1>13 DEF Key
    <2> HIDE DEF at, k
    <2>3. d.reg[k] = c.reg[k]
      BY <1>10, <2>1
    <2> QED
      BY <2>2, <2>3 DEF k
  <1>15. Sent(d, dir, b) = Feed(c, dir, t)[m + 1]
    <2>1. Feed(c, dir, t)[m + 1] = IF dir = "encrypt" THEN Stream(c, t)[m + 1] ELSE t[m + 1]
      BY DEF Feed
    <2>2. Stream(c, t)[m + 1] = x
      <3>1. at + (m + 1) = at + m + 1
        BY <1>1, <1>2
      <3> QED
        BY <1>1, <1>4, <1>7, <3>1
    <2> QED
      BY <1>4, <1>14, <2>1, <2>2 DEF Sent
  <1>16. \A j \in 1..m : Feed(c, dir, t)[j] = Feed(c, dir, s)[j]
    <2> SUFFICES ASSUME NEW j \in 1..m PROVE Feed(c, dir, t)[j] = Feed(c, dir, s)[j]
      OBVIOUS
    <2>1. t[j] = s[j] /\ Stream(c, s)[j] = Xor(c.reg[at + j], s[j])
      BY <1>4, <1>6
    <2>2. Stream(c, t)[j] = Xor(c.reg[at + j], t[j])
      BY <1>1, <1>7
    <2> QED
      BY <2>1, <2>2 DEF Feed
  <1>17. \A i \in 1..BlockSize :
            (IF i - at \in 1 .. m + 1 THEN Feed(c, dir, t)[i - at] ELSE c.reg[i])
                = IF i = at + m + 1 THEN Sent(d, dir, b) ELSE d.reg[i]
    <2> SUFFICES ASSUME NEW i \in 1..BlockSize
                 PROVE  (IF i - at \in 1 .. m + 1 THEN Feed(c, dir, t)[i - at] ELSE c.reg[i])
                            = IF i = at + m + 1 THEN Sent(d, dir, b) ELSE d.reg[i]
      OBVIOUS
    <2>1. d.reg[i] = IF i - at \in 1..m THEN Feed(c, dir, s)[i - at] ELSE c.reg[i]
      BY <1>10
    <2> HIDE DEF at
    <2>2. CASE i = at + m + 1
      <3>1. i - at = m + 1 /\ i - at \in 1 .. m + 1
        BY <1>1, <1>2, <2>2
      <3> QED
        BY <1>15, <2>2, <3>1
    <2>3. CASE i # at + m + 1
      <3>1. i - at \in 1 .. m + 1 <=> i - at \in 1..m
        BY <1>1, <1>2, <2>3
      <3> QED
        BY <1>16, <2>1, <2>3, <3>1
    <2> QED
      BY <2>2, <2>3
  <1>18. Step(d, dir, b) =
            [reg  |-> [i \in 1..BlockSize |-> IF i = at + m + 1 THEN Sent(d, dir, b) ELSE d.reg[i]],
             left |-> d.left - 1, out |-> Append(d.out, Xor(Key(d), b))]
    BY <1>12, <1>13 DEF Step
  <1>19. d.left - 1 = c.left - (m + 1)
    BY <1>1, <1>10
  <1>20. Append(d.out, Xor(Key(d), b)) = c.out \o Stream(c, t)
    BY <1>8, <1>9, <1>10, <1>14
  <1>21. e = Step(d, dir, b)
    <2> DEFINE R == [i \in 1..BlockSize |-> IF i = at + m + 1 THEN Sent(d, dir, b) ELSE d.reg[i]]
               Q == [i \in 1..BlockSize |->
                        IF i - at \in 1 .. m + 1 THEN Feed(c, dir, t)[i - at] ELSE c.reg[i]]
    <2>1. R = Q
      BY <1>17
    <2>2. /\ e = [reg |-> Q, left |-> c.left - (m + 1), out |-> c.out \o Stream(c, t)]
          /\ Step(d, dir, b) = [reg |-> R, left |-> d.left - 1, out |-> Append(d.out, Xor(Key(d), b))]
      BY <1>11, <1>18
    <2> HIDE DEF R, Q
    <2> QED
      BY <1>19, <1>20, <2>1, <2>2
  <1> QED
    BY <1>21 DEF d, e, t

\* As much as is left over of the register, at once or byte by byte.
LEMMA CombineRuns ==
    ASSUME NEW c \in Ciphers, NEW dir, NEW s \in Seq(Byte), Len(s) <= c.left
    PROVE  Combine(c, dir, s) = Ran(c, dir, s)
  <1> DEFINE n == Len(s)
             F == Run(c, dir, s)
             S == {i \in 0..n : Combine(c, dir, SubSeq(s, 1, i)) = F[i]}
  <1>1. n \in Nat /\ c.left \in 0..BlockSize /\ BlockSize \in Nat /\ n <= c.left
    BY LenProperties, CipherTypes, BlockNumbers
  <1>2. F[0] = c /\ \A i \in 1..n : F[i] = Step(F[i - 1], dir, s[i])
    BY RunSteps
  <1> HIDE DEF F
  <1>3. 0 \in S
    <2> DEFINE t == SubSeq(s, 1, 0)
               x == Stream(c, t)
    <2>1. t \in Seq(Byte) /\ Len(t) = 0
      BY <1>1, Split
    <2> HIDE DEF t
    <2>2. Len(t) <= c.left
      BY <1>1, <2>1
    <2>3. x \in Seq(Byte) /\ Len(x) = 0
      BY <2>1, <2>2, StreamFacts
    <2>4. c.out \o x = c.out
      BY <2>3, CipherTypes, EmptySeq, ConcatEmptySeq
    <2>5. Combine(c, dir, t) =
                 [reg  |-> [i \in 1..BlockSize |->
                               IF i - (BlockSize - c.left) \in 1..Len(t)
                               THEN Feed(c, dir, t)[i - (BlockSize - c.left)] ELSE c.reg[i]],
                  left |-> c.left - Len(t),
                  out  |-> c.out \o x]
      BY <2>1, <2>2, CombineFacts
    <2>6. c.left - Len(t) = c.left
      BY <1>1, <2>1
    <2>7. c.reg = [i \in 1..BlockSize |-> IF i - (BlockSize - c.left) \in 1..Len(t)
                               THEN Feed(c, dir, t)[i - (BlockSize - c.left)] ELSE c.reg[i]]
      <3> DEFINE N == 1..Len(t)
                 at == BlockSize - c.left
                 f == Feed(c, dir, t)
      <3>1. N = {}
        BY <2>1
      <3> HIDE DEF N, at, f
      <3>2. c.reg = [i \in 1..BlockSize |-> IF i - at \in N THEN f[i - at] ELSE c.reg[i]]
        BY <3>1, CipherTypes
      <3> QED
        BY <3>2 DEF N, at, f
    <2>8. c = [reg |-> c.reg, left |-> c.left, out |-> c.out]
      BY CipherTypes
    <2>9. Combine(c, dir, t) = c
      BY <2>4, <2>5, <2>6, <2>7, <2>8
    <2> QED
      BY <1>1, <1>2, <2>9 DEF t
  <1>4. ASSUME NEW i \in 0 .. n - 1, i \in S
        PROVE  i + 1 \in S
    <2> DEFINE t == SubSeq(s, 1, i)
               b == s[i + 1]
    <2>1. i + 1 \in 1..n /\ (i + 1) - 1 = i /\ i + 1 \in 0..n /\ i \in 0..n
      BY <1>1
    <2>2. t \in Seq(Byte) /\ Len(t) = i /\ b \in Byte
      BY <2>1, Split, ElementOfSeq
    <2>3. SubSeq(s, 1, i + 1) = Append(t, b)
      BY OneMore
    <2>4. Combine(c, dir, t) = F[i]
      BY <1>4
    <2> HIDE DEF t, b
    <2>5. Len(t) < c.left
      BY <1>1, <2>2
    <2>6. Combine(c, dir, Append(t, b)) = Step(F[i], dir, b)
      BY <2>2, <2>4, <2>5, CombineOne
    <2>7. F[i + 1] = Step(F[i], dir, b)
      BY <1>2, <2>1 DEF b
    <2> QED
      BY <2>1, <2>3, <2>6, <2>7
  <1>5. n \in S
    <2> HIDE DEF S
    <2>1. 0..n \subseteq S
      BY <1>1, <1>3, <1>4, Upwards
    <2> QED
      BY <1>1, <2>1
  <1>6. SubSeq(s, 1, n) = s
    BY SubSeqFull
  <1> QED
    BY <1>5, <1>6 DEF F, Ran

-----------------------------------------------------------------------------
(* Whole blocks *)

\* Behind the first bytes of a message: nothing is left over of the register, or of
\* the message.
Works == {t \in [cipher : Ciphers, rest : Seq(Byte)] : t.rest # <<>> => t.cipher.left = 0}

\* A block, or what there is of one, is as if byte by byte.
LEMMA BlockTurnFacts ==
    ASSUME NEW t \in Works, NEW dir
    PROVE  /\ BlockTurn(t, dir) \in Works
           /\ Ran(BlockTurn(t, dir).cipher, dir, BlockTurn(t, dir).rest) = Ran(t.cipher, dir, t.rest)
           /\ t.rest # <<>> => Len(BlockTurn(t, dir).rest) <= Len(t.rest) - 1
  <1> DEFINE c == t.cipher
             s == t.rest
             n == IF Len(s) < BlockSize THEN Len(s) ELSE BlockSize
             a == SubSeq(s, 1, n)
             u == SubSeq(s, n + 1, Len(s))
             d == Transform(c)
             e == Combine(d, dir, a)
  <1>1. c \in Ciphers /\ s \in Seq(Byte) /\ (s # <<>> => c.left = 0)
    BY DEF Works
  <1>2. CASE s = <<>>
    BY <1>2 DEF BlockTurn
  <1>3. CASE s # <<>>
    <2>1. BlockTurn(t, dir) = [cipher |-> e, rest |-> u]
      BY <1>3 DEF BlockTurn
    <2> HIDE DEF c, s
    <2>2. Len(s) \in Nat /\ Len(s) # 0
      BY <1>1, <1>3, LenProperties, EmptySeq
    <2>3. n \in 0..Len(s) /\ n <= BlockSize /\ n \in 1..BlockSize /\ (n # BlockSize => n = Len(s))
      BY <2>2, BlockNumbers
    <2> HIDE DEF n
    <2>4. a \in Seq(Byte) /\ Len(a) = n /\ u \in Seq(Byte) /\ Len(u) = Len(s) - n
      BY <1>1, <2>3, Split
    <2>5. d \in Ciphers /\ d.left = BlockSize
      BY <1>1, TransformFacts
    <2>6. e = Ran(c, dir, a)
      <3> HIDE DEF a, d
      <3>1. Len(a) <= d.left
        BY <2>3, <2>4, <2>5
      <3>2. e = Ran(d, dir, a)
        BY <2>4, <2>5, <3>1, CombineRuns
      <3>3. a # <<>>
        BY <2>3, <2>4, EmptySeq
      <3> QED
        BY <1>1, <1>3, <2>4, <3>2, <3>3, RunReady DEF d
    <2>7. Ran(e, dir, u) = Ran(c, dir, s) /\ e \in Ciphers
      BY <1>1, <2>3, <2>6, RunSplit
    <2>8. e.left = BlockSize - n
      <3> HIDE DEF a, d
      <3>1. Len(a) <= d.left
        BY <2>3, <2>4, <2>5
      <3> QED
        BY <2>4, <2>5, <3>1, CombineFacts
    <2> HIDE DEF a, u, d, e
    <2>9. u # <<>> => e.left = 0
      <3> SUFFICES ASSUME u # <<>> PROVE e.left = 0
        OBVIOUS
      <3>1. Len(u) # 0
        BY <2>4, EmptySeq
      <3> QED
        BY <2>2, <2>3, <2>4, <2>8, <3>1, BlockNumbers
    <2>10. Len(u) <= Len(s) - 1
      BY <2>2, <2>3, <2>4
    <2>11. [cipher |-> e, rest |-> u] \in Works
      BY <2>4, <2>7, <2>9 DEF Works
    <2> QED
      BY <2>1, <2>7, <2>10, <2>11 DEF c, s
  <1> QED
    BY <1>2, <1>3

\* A whole block with Iterate is as a whole block without it.
LEMMA IterateIsBlock ==
    ASSUME NEW t \in Works, NEW dir, ~(Len(t.rest) < BlockSize)
    PROVE  IterateTurn(t, dir) = BlockTurn(t, dir)
  <1> DEFINE c == t.cipher
             s == t.rest
             a == SubSeq(s, 1, BlockSize)
             u == SubSeq(s, BlockSize + 1, Len(s))
             d == Transform(c)
             k == BlockCipher[c.reg]
             x == XorBytes(k, a)
             f == IF dir = "encrypt" THEN x ELSE a
  <1>1. c \in Ciphers /\ s \in Seq(Byte) /\ (s # <<>> => c.left = 0)
    BY DEF Works
  <1>2. Len(s) \in Nat /\ ~(Len(s) < BlockSize) /\ s # <<>> /\ BlockSize \in 0..Len(s)
    BY <1>1, LenProperties, EmptySeq, BlockNumbers
  <1>3. IterateTurn(t, dir) = [cipher |-> [reg |-> f, left |-> 0, out |-> c.out \o x], rest |-> u]
    BY <1>2 DEF IterateTurn
  <1>4. BlockTurn(t, dir) = [cipher |-> Combine(d, dir, a), rest |-> u]
    BY <1>2 DEF BlockTurn
  <1> HIDE DEF c, s
  <1>5. a \in Seq(Byte) /\ Len(a) = BlockSize
    BY <1>1, <1>2, Split
  <1>6. d \in Ciphers /\ d.reg = k /\ d.left = BlockSize /\ d.out = c.out /\ k \in [1..BlockSize -> Byte]
    BY <1>1, TransformFacts
  <1>7. Stream(d, a) = x
    <2>1. k \in Seq(Byte) /\ Len(k) = BlockSize
      BY <1>6, BlockNumbers, FixedLength
    <2> HIDE DEF k, a, d
    <2>2. SubSeq(k, 1, BlockSize) = k
      BY <2>1, SubSeqFull
    <2>3. BlockSize - d.left + 1 = 1 /\ BlockSize - d.left + Len(a) = BlockSize
      BY <1>5, <1>6, BlockNumbers
    <2>4. Stream(d, a) = XorBytes(SubSeq(k, 1, BlockSize), a)
      BY <1>6, <2>3 DEF Stream
    <2> QED
      BY <2>2, <2>4
  <1> HIDE DEF a, u, d, k, x
  <1>8. Len(a) <= d.left
    BY <1>5, <1>6, BlockNumbers
  <1>9. f = Feed(d, dir, a)
    BY <1>7 DEF Feed
  <1>10. f \in [1..BlockSize -> Byte]
    <2>1. x \in Seq(Byte) /\ Len(x) = BlockSize
      BY <1>5, <1>6, <1>7, <1>8, StreamFacts
    <2>2. f \in Seq(Byte) /\ Len(f) = BlockSize
      BY <1>5, <2>1
    <2> HIDE DEF f
    <2> QED
      BY <2>2, BlockNumbers, FixedLength
  <1> HIDE DEF f
  <1>11. f = [i \in 1..BlockSize |->
                 IF i - (BlockSize - d.left) \in 1..Len(a) THEN f[i - (BlockSize - d.left)] ELSE d.reg[i]]
    <2>1. \A i \in 1..BlockSize : i - (BlockSize - d.left) = i /\ i \in 1..Len(a)
      BY <1>5, <1>6, BlockNumbers
    <2> DEFINE at == BlockSize - d.left
    <2>2. \A i \in 1..BlockSize : i - at = i /\ i \in 1..Len(a)
      BY <2>1
    <2> HIDE DEF at
    <2>3. f = [i \in 1..BlockSize |-> IF i - at \in 1..Len(a) THEN f[i - at] ELSE d.reg[i]]
      BY <1>10, <2>2
    <2> QED
      BY <2>3 DEF at
  <1>12. Combine(d, dir, a) = [reg |-> f, left |-> d.left - Len(a), out |-> d.out \o x]
    <2>1. Combine(d, dir, a) =
                 [reg  |-> [i \in 1..BlockSize |->
                               IF i - (BlockSize - d.left) \in 1..Len(a)
                               THEN Feed(d, dir, a)[i - (BlockSize - d.left)] ELSE d.reg[i]],
                  left |-> d.left - Len(a),
                  out  |-> d.out \o Stream(d, a)]
      BY <1>5, <1>6, <1>8, CombineFacts
    <2> QED
      BY <1>7, <1>9, <1>11, <2>1
  <1>13. d.left - Len(a) = 0
    BY <1>5, <1>6, BlockNumbers
  <1> QED
    BY <1>3, <1>4, <1>6, <1>12, <1>13

\* A turn of Iterate does what its bytes do one by one.
LEMMA IterateTurnFacts ==
    ASSUME NEW t \in Works, NEW dir
    PROVE  /\ IterateTurn(t, dir) \in Works
           /\ Ran(IterateTurn(t, dir).cipher, dir, IterateTurn(t, dir).rest) = Ran(t.cipher, dir, t.rest)
  <1>1. CASE Len(t.rest) < BlockSize
    BY <1>1 DEF IterateTurn
  <1>2. CASE ~(Len(t.rest) < BlockSize)
    BY <1>2, IterateIsBlock, BlockTurnFacts
  <1> QED
    BY <1>1, <1>2

\* The definition of BlockTurns, unfolded.
LEMMA BlockTurnsSteps ==
    ASSUME NEW t \in Works, NEW dir
    PROVE  /\ BlockTurns(t.cipher, dir, t.rest) \in [0..Len(t.rest) -> Works]
           /\ BlockTurns(t.cipher, dir, t.rest)[0] = t
           /\ \A i \in 1..Len(t.rest) : BlockTurns(t.cipher, dir, t.rest)[i]
                                            = BlockTurn(BlockTurns(t.cipher, dir, t.rest)[i - 1], dir)
  <1> DEFINE n == Len(t.rest)
             g == [y \in Works \X (1..n) |-> BlockTurn(y[1], dir)]
             F == BlockTurns(t.cipher, dir, t.rest)
             Body(f) == [i \in 0..n |-> IF i = 0 THEN t ELSE BlockTurn(f[i - 1], dir)]
  <1>1. n \in Nat
    <2>1. t.rest \in Seq(Byte)
      BY DEF Works
    <2> QED
      BY <2>1, LenProperties
  <1>2. t \in Works /\ t = [cipher |-> t.cipher, rest |-> t.rest]
    BY DEF Works
  <1>3. Closed(g, Works, n)
    BY BlockTurnFacts DEF Closed
  <1>4. PICK f \in [0..n -> Works] : f[0] = t /\ \A i \in 1..n : f[i] = g[<<f[i - 1], i>>]
    <2> HIDE DEF g, n
    <2> QED
      BY <1>1, <1>3, Recursion
  <1>5. \A i \in 1..n : f[i] = BlockTurn(f[i - 1], dir)
    <2> SUFFICES ASSUME NEW i \in 1..n PROVE f[i] = BlockTurn(f[i - 1], dir)
      OBVIOUS
    <2>1. f[i - 1] \in Works
      BY <1>1, <1>4
    <2> QED
      BY <1>4, <2>1
  <1>6. f = Body(f)
    BY <1>1, <1>4, <1>5
  <1>7. F = Body(F)
    <2>1. F = CHOOSE h : h = Body(h)
      BY <1>2 DEF BlockTurns
    <2> HIDE DEF F, Body
    <2> QED
      BY <1>6, <2>1
  <1> HIDE DEF F
  <1>8. F[0] = t /\ \A i \in 1..n : F[i] = BlockTurn(F[i - 1], dir)
    BY <1>1, <1>7
  <1>9. \A i \in 0..n : F[i] \in Works
    <2> DEFINE S == {i \in 0..n : F[i] \in Works}
    <2>1. 0 \in S
      BY <1>1, <1>2, <1>8
    <2>2. ASSUME NEW i \in 0 .. n - 1, i \in S
          PROVE  i + 1 \in S
      <3>1. i + 1 \in 1..n /\ (i + 1) - 1 = i /\ i + 1 \in 0..n
        BY <1>1
      <3>2. F[i + 1] = BlockTurn(F[i], dir)
        BY <1>8, <3>1
      <3>3. F[i] \in Works
        BY <2>2
      <3> QED
        BY <3>1, <3>2, <3>3, BlockTurnFacts
    <2> HIDE DEF S
    <2>3. 0..n \subseteq S
      BY <1>1, <2>1, <2>2, Upwards
    <2> QED
      BY <2>3 DEF S
  <1>10. F \in [0..n -> Works]
    BY <1>7, <1>9
  <1> QED
    BY <1>8, <1>10 DEF F

\* The definition of Iterations, unfolded.
LEMMA IterationsSteps ==
    ASSUME NEW t \in Works, NEW dir
    PROVE  /\ Iterations(t.cipher, dir, t.rest) \in [0..Len(t.rest) -> Works]
           /\ Iterations(t.cipher, dir, t.rest)[0] = t
           /\ \A i \in 1..Len(t.rest) : Iterations(t.cipher, dir, t.rest)[i]
                                            = IterateTurn(Iterations(t.cipher, dir, t.rest)[i - 1], dir)
  <1> DEFINE n == Len(t.rest)
             g == [y \in Works \X (1..n) |-> IterateTurn(y[1], dir)]
             F == Iterations(t.cipher, dir, t.rest)
             Body(f) == [i \in 0..n |-> IF i = 0 THEN t ELSE IterateTurn(f[i - 1], dir)]
  <1>1. n \in Nat
    <2>1. t.rest \in Seq(Byte)
      BY DEF Works
    <2> QED
      BY <2>1, LenProperties
  <1>2. t \in Works /\ t = [cipher |-> t.cipher, rest |-> t.rest]
    BY DEF Works
  <1>3. Closed(g, Works, n)
    BY IterateTurnFacts DEF Closed
  <1>4. PICK f \in [0..n -> Works] : f[0] = t /\ \A i \in 1..n : f[i] = g[<<f[i - 1], i>>]
    <2> HIDE DEF g, n
    <2> QED
      BY <1>1, <1>3, Recursion
  <1>5. \A i \in 1..n : f[i] = IterateTurn(f[i - 1], dir)
    <2> SUFFICES ASSUME NEW i \in 1..n PROVE f[i] = IterateTurn(f[i - 1], dir)
      OBVIOUS
    <2>1. f[i - 1] \in Works
      BY <1>1, <1>4
    <2> QED
      BY <1>4, <2>1
  <1>6. f = Body(f)
    BY <1>1, <1>4, <1>5
  <1>7. F = Body(F)
    <2>1. F = CHOOSE h : h = Body(h)
      BY <1>2 DEF Iterations
    <2> HIDE DEF F, Body
    <2> QED
      BY <1>6, <2>1
  <1> HIDE DEF F
  <1>8. F[0] = t /\ \A i \in 1..n : F[i] = IterateTurn(F[i - 1], dir)
    BY <1>1, <1>7
  <1>9. \A i \in 0..n : F[i] \in Works
    <2> DEFINE S == {i \in 0..n : F[i] \in Works}
    <2>1. 0 \in S
      BY <1>1, <1>2, <1>8
    <2>2. ASSUME NEW i \in 0 .. n - 1, i \in S
          PROVE  i + 1 \in S
      <3>1. i + 1 \in 1..n /\ (i + 1) - 1 = i /\ i + 1 \in 0..n
        BY <1>1
      <3>2. F[i + 1] = IterateTurn(F[i], dir)
        BY <1>8, <3>1
      <3>3. F[i] \in Works
        BY <2>2
      <3> QED
        BY <3>1, <3>2, <3>3, IterateTurnFacts
    <2> HIDE DEF S
    <2>3. 0..n \subseteq S
      BY <1>1, <2>1, <2>2, Upwards
    <2> QED
      BY <2>3 DEF S
  <1>10. F \in [0..n -> Works]
    BY <1>7, <1>9
  <1> QED
    BY <1>8, <1>10 DEF F

\* Block after block, until nothing is left.
LEMMA BlocksRun ==
    ASSUME NEW c \in Ciphers, NEW dir, NEW s \in Seq(Byte), s # <<>> => c.left = 0
    PROVE  Blocks(c, dir, s) = Ran(c, dir, s)
  <1> DEFINE n == Len(s)
             F == BlockTurns(c, dir, s)
             All == Ran(c, dir, s)
             Good(i) == Ran(F[i].cipher, dir, F[i].rest) = All /\ Len(F[i].rest) <= n - i
             S == {i \in 0..n : Good(i)}
  <1>1. n \in Nat
    BY LenProperties
  <1> DEFINE w == [cipher |-> c, rest |-> s]
  <1>2. w \in Works /\ w.cipher = c /\ w.rest = s
    BY DEF Works
  <1> HIDE DEF w
  <1>3. /\ \A i \in 0..n : F[i] \in Works
        /\ F[0] = w
        /\ \A i \in 1..n : F[i] = BlockTurn(F[i - 1], dir)
    <2> DEFINE G == BlockTurns(w.cipher, dir, w.rest)
    <2>1. F = G /\ n = Len(w.rest)
      BY <1>2
    <2>2. /\ G \in [0..Len(w.rest) -> Works] /\ G[0] = w
          /\ \A i \in 1..Len(w.rest) : G[i] = BlockTurn(G[i - 1], dir)
      BY <1>2, BlockTurnsSteps
    <2> HIDE DEF F, G, n
    <2> QED
      BY <1>1, <2>1, <2>2
  <1> HIDE DEF F
  <1>4. 0 \in S
    BY <1>1, <1>2, <1>3
  <1> HIDE DEF All
  <1>5. ASSUME NEW i \in 0 .. n - 1, i \in S
        PROVE  i + 1 \in S
    <2> DEFINE t == F[i]
               u == F[i + 1]
    <2>1. i + 1 \in 1..n /\ (i + 1) - 1 = i /\ i + 1 \in 0..n /\ i \in 0..n
      BY <1>1
    <2>2. u = BlockTurn(t, dir) /\ t \in Works
      BY <1>3, <2>1
    <2>3. Ran(t.cipher, dir, t.rest) = All /\ Len(t.rest) <= n - i
      BY <1>5
    <2> HIDE DEF t, u
    <2>4. t.rest \in Seq(Byte) /\ Len(t.rest) \in Nat
      BY <2>2, LenProperties DEF Works
    <2>5. Ran(u.cipher, dir, u.rest) = All /\ (t.rest # <<>> => Len(u.rest) <= Len(t.rest) - 1)
      BY <2>2, <2>3, BlockTurnFacts
    <2>6. Len(u.rest) <= n - (i + 1)
      <3>1. CASE t.rest = <<>>
        <4>1. u = t
          BY <2>2, <3>1 DEF BlockTurn
        <4>2. Len(u.rest) = 0
          BY <3>1, <4>1, EmptySeq
        <4> QED
          BY <1>1, <2>1, <4>2
      <3>2. CASE t.rest # <<>>
        <4> DEFINE x == Len(t.rest)
                   y == Len(u.rest)
        <4>1. y <= x - 1 /\ x <= n - i /\ x \in Nat /\ y \in Nat
          <5>1. u.rest \in Seq(Byte)
            BY <2>2, BlockTurnFacts DEF Works
          <5> QED
            BY <2>3, <2>4, <2>5, <3>2, <5>1, LenProperties
        <4> HIDE DEF x, y
        <4>2. y <= n - (i + 1)
          BY <1>1, <2>1, <4>1
        <4> QED
          BY <4>2 DEF y
      <3> QED
        BY <3>1, <3>2
    <2> QED
      BY <2>1, <2>5, <2>6 DEF u
  <1>6. n \in S
    <2> HIDE DEF S
    <2>1. 0..n \subseteq S
      BY <1>1, <1>4, <1>5, Upwards
    <2> QED
      BY <1>1, <2>1
  <1> DEFINE t == F[n]
  <1>7. t \in Works /\ Ran(t.cipher, dir, t.rest) = All /\ Len(t.rest) <= n - n
    BY <1>1, <1>3, <1>6
  <1>8. Blocks(c, dir, s) = t.cipher
    BY DEF Blocks, F
  <1> HIDE DEF t
  <1>9. t.rest = <<>> /\ t.cipher \in Ciphers
    <2>1. t.rest \in Seq(Byte) /\ Len(t.rest) \in Nat /\ t.cipher \in Ciphers
      BY <1>7, LenProperties DEF Works
    <2>2. Len(t.rest) = 0
      BY <1>1, <1>7, <2>1
    <2> QED
      BY <2>1, <2>2, EmptySeq
  <1> QED
    BY <1>7, <1>8, <1>9, RunNothing DEF All

\* Iterate, which starts at the beginning of a block, does what its bytes do one by one.
LEMMA IterateRuns ==
    ASSUME NEW c \in Ciphers, NEW dir, NEW s \in Seq(Byte), s # <<>> => c.left = 0
    PROVE  /\ Iterate(c, dir, s) \in Works
           /\ Ran(Iterate(c, dir, s).cipher, dir, Iterate(c, dir, s).rest) = Ran(c, dir, s)
  <1> DEFINE n == Len(s)
             F == Iterations(c, dir, s)
             All == Ran(c, dir, s)
             Good(i) == Ran(F[i].cipher, dir, F[i].rest) = All
             S == {i \in 0..n : Good(i)}
  <1>1. n \in Nat
    BY LenProperties
  <1> DEFINE w == [cipher |-> c, rest |-> s]
  <1>2. w \in Works /\ w.cipher = c /\ w.rest = s
    BY DEF Works
  <1> HIDE DEF w
  <1>3. /\ \A i \in 0..n : F[i] \in Works
        /\ F[0] = w
        /\ \A i \in 1..n : F[i] = IterateTurn(F[i - 1], dir)
    <2> DEFINE G == Iterations(w.cipher, dir, w.rest)
    <2>1. F = G /\ n = Len(w.rest)
      BY <1>2
    <2>2. /\ G \in [0..Len(w.rest) -> Works] /\ G[0] = w
          /\ \A i \in 1..Len(w.rest) : G[i] = IterateTurn(G[i - 1], dir)
      BY <1>2, IterationsSteps
    <2> HIDE DEF F, G, n
    <2> QED
      BY <1>1, <2>1, <2>2
  <1> HIDE DEF F
  <1>4. 0 \in S
    BY <1>1, <1>2, <1>3
  <1> HIDE DEF All
  <1>5. ASSUME NEW i \in 0 .. n - 1, i \in S
        PROVE  i + 1 \in S
    <2>1. i + 1 \in 1..n /\ (i + 1) - 1 = i /\ i + 1 \in 0..n /\ i \in 0..n
      BY <1>1
    <2>2. F[i + 1] = IterateTurn(F[i], dir) /\ F[i] \in Works
      BY <1>3, <2>1
    <2>3. Good(i + 1)
      BY <1>5, <2>2, IterateTurnFacts
    <2> QED
      BY <2>1, <2>3
  <1>6. n \in S
    <2> HIDE DEF S
    <2>1. 0..n \subseteq S
      BY <1>1, <1>4, <1>5, Upwards
    <2> QED
      BY <1>1, <2>1
  <1>7. Iterate(c, dir, s) = F[n]
    BY DEF Iterate, F
  <1> QED
    BY <1>1, <1>3, <1>6, <1>7 DEF All

\* The cipher before a call.
Emptied(c) == [c EXCEPT !.out = <<>>]

\* A cipher object with its output taken away.
LEMMA EmptiedType ==
    ASSUME NEW c \in Ciphers
    PROVE  /\ Emptied(c) \in Ciphers
           /\ Emptied(c) = [reg |-> c.reg, left |-> c.left, out |-> <<>>]
  BY CipherTypes, EmptySeq DEF Emptied, Ciphers

\* In each of its ways through, ProcessData does as if byte by byte.
THEOREM ProcessDataRuns ==
    ASSUME NEW c \in Ciphers, NEW dir, NEW s \in Seq(Byte), NEW aligned
    PROVE  ProcessData(c, dir, s, aligned) = Ran(Emptied(c), dir, s)
  <1> DEFINE o == Emptied(c)
             n == IF Len(s) < c.left THEN Len(s) ELSE c.left
             a == SubSeq(s, 1, n)
             u == SubSeq(s, n + 1, Len(s))
             begun == Combine(o, dir, a)
             whole == Iterate(begun, dir, u)
             All == Ran(o, dir, s)
  <1>1. o \in Ciphers /\ o.left = c.left /\ o.left \in 0..BlockSize /\ Len(s) \in Nat /\ BlockSize \in Nat
    BY EmptiedType, CipherTypes, LenProperties, BlockNumbers
  <1>2. n \in 0..Len(s) /\ n <= o.left /\ (n # o.left => n = Len(s)) /\ n \in Nat
    BY <1>1
  <1>3. ProcessData(c, dir, s, aligned) =
            IF aligned /\ Len(u) >= BlockSize THEN Blocks(whole.cipher, dir, whole.rest)
            ELSE Blocks(begun, dir, u)
    BY DEF ProcessData, Emptied
  <1> HIDE DEF n, o
  <1>4. a \in Seq(Byte) /\ Len(a) = n /\ u \in Seq(Byte) /\ Len(u) = Len(s) - n
    BY <1>2, Split
  <1>5. begun = Ran(o, dir, a) /\ begun.left = o.left - n
    <2> HIDE DEF a
    <2>1. Len(a) <= o.left
      BY <1>2, <1>4
    <2> QED
      BY <1>1, <1>4, <2>1, CombineRuns, CombineFacts
  <1>6. begun \in Ciphers /\ Ran(begun, dir, u) = All
    BY <1>1, <1>2, <1>5, RunSplit
  <1> HIDE DEF a, u, begun, All
  <1>7. u # <<>> => begun.left = 0
    <2> SUFFICES ASSUME u # <<>> PROVE begun.left = 0
      OBVIOUS
    <2>1. Len(u) # 0
      BY <1>4, EmptySeq
    <2> QED
      BY <1>1, <1>2, <1>4, <1>5, <2>1
  <1>8. Blocks(begun, dir, u) = All
    BY <1>4, <1>6, <1>7, BlocksRun
  <1>9. Blocks(whole.cipher, dir, whole.rest) = All
    <2>1. whole \in Works /\ Ran(whole.cipher, dir, whole.rest) = All
      BY <1>4, <1>6, <1>7, IterateRuns
    <2> HIDE DEF whole
    <2>2. whole.cipher \in Ciphers /\ whole.rest \in Seq(Byte)
          /\ (whole.rest # <<>> => whole.cipher.left = 0)
      BY <2>1 DEF Works
    <2> QED
      BY <2>1, <2>2, BlocksRun
  <1> QED
    BY <1>3, <1>8, <1>9 DEF All, o

-----------------------------------------------------------------------------
(* Two calls, and both ends *)

\* Two ciphers will make the same keystream.
InStep(c, d) == c.reg = d.reg /\ c.left = d.left

\* Ends that are in step have the same next byte of the key stream.
LEMMA InStepFacts ==
    ASSUME NEW c \in Ciphers, NEW d \in Ciphers, InStep(c, d)
    PROVE  /\ Ready(c).reg = Ready(d).reg /\ Ready(c).left = Ready(d).left
           /\ Key(c) = Key(d)
  <1>1. c.reg = d.reg /\ c.left = d.left
    BY DEF InStep
  <1>2. Ready(c).reg = Ready(d).reg /\ Ready(c).left = Ready(d).left
    <2>1. CASE c.left = 0
      <3>1. Ready(c) = Transform(c) /\ Ready(d) = Transform(d)
        BY <1>1, <2>1 DEF Ready
      <3> QED
        BY <1>1, <3>1 DEF Transform
    <2>2. CASE c.left # 0
      BY <1>1, <2>2 DEF Ready
    <2> QED
      BY <2>1, <2>2
  <1> QED
    BY <1>2 DEF Key

\* If the same is transmitted, ciphers stay in step.
LEMMA StepInStep ==
    ASSUME NEW c \in Ciphers, NEW d \in Ciphers, NEW dir, NEW dir2, NEW a, NEW b,
           InStep(c, d), Sent(c, dir, a) = Sent(d, dir2, b)
    PROVE  InStep(Step(c, dir, a), Step(d, dir2, b))
  <1>1. Ready(c).reg = Ready(d).reg /\ Ready(c).left = Ready(d).left
    BY InStepFacts
  <1> QED
    BY <1>1 DEF InStep, Step

\* Every byte put out is one put in, with the keystream at its place.
LEMMA OutFacts ==
    ASSUME NEW c \in Ciphers, NEW dir, NEW s \in Seq(Byte), c.out = <<>>
    PROVE  \A i \in 0..Len(s) :
              /\ Len(Run(c, dir, s)[i].out) = i
              /\ \A j \in 1..i : Run(c, dir, s)[i].out[j] = Xor(Key(Run(c, dir, s)[j - 1]), s[j])
  <1> DEFINE n == Len(s)
             F == Run(c, dir, s)
             Good(i) == Len(F[i].out) = i /\ \A j \in 1..i : F[i].out[j] = Xor(Key(F[j - 1]), s[j])
             S == {i \in 0..n : Good(i)}
  <1>1. n \in Nat /\ \A i \in 1..n : s[i] \in Byte
    BY LenProperties, ElementOfSeq
  <1>2. /\ \A i \in 0..n : F[i] \in Ciphers
        /\ F[0] = c
        /\ \A i \in 1..n : F[i] = Step(F[i - 1], dir, s[i])
    BY RunSteps
  <1> HIDE DEF F
  <1>3. 0 \in S
    BY <1>1, <1>2, EmptySeq
  <1>4. ASSUME NEW i \in 0 .. n - 1, i \in S
        PROVE  i + 1 \in S
    <2> DEFINE d == F[i]
               e == F[i + 1]
               x == Xor(Key(d), s[i + 1])
    <2>1. i + 1 \in 1..n /\ (i + 1) - 1 = i /\ i + 1 \in 0..n /\ i \in 0..n /\ i \in Nat
      BY <1>1
    <2>2. e = Step(d, dir, s[i + 1]) /\ d \in Ciphers /\ s[i + 1] \in Byte
      BY <1>1, <1>2, <2>1
    <2>3. Len(d.out) = i /\ \A j \in 1..i : d.out[j] = Xor(Key(F[j - 1]), s[j])
      BY <1>4
    <2> HIDE DEF d, e
    <2>4. e.out = Append(d.out, x)
      BY <2>2 DEF Step
    <2>5. x \in Byte /\ d.out \in Seq(Byte)
      BY <2>2, ReadyFacts, XorFacts, CipherTypes
    <2> HIDE DEF x
    <2>6. /\ Len(e.out) = i + 1
          /\ \A j \in 1..i : e.out[j] = d.out[j]
          /\ e.out[i + 1] = x
      BY <2>3, <2>4, <2>5, AppendProperties
    <2>7. \A j \in 1 .. i + 1 : e.out[j] = Xor(Key(F[j - 1]), s[j])
      <3> SUFFICES ASSUME NEW j \in 1 .. i + 1 PROVE e.out[j] = Xor(Key(F[j - 1]), s[j])
        OBVIOUS
      <3>1. CASE j \in 1..i
        BY <2>3, <2>6, <3>1
      <3>2. CASE j = i + 1
        BY <2>1, <2>6, <3>2 DEF x, d
      <3> QED
        BY <2>1, <3>1, <3>2
    <2> QED
      BY <2>1, <2>6, <2>7 DEF e
  <1> HIDE DEF S
  <1>5. 0..n \subseteq S
    BY <1>1, <1>3, <1>4, Upwards
  <1> QED
    BY <1>5 DEF S, F

\* What comes out is as long as what goes in.
LEMMA RanOut ==
    ASSUME NEW c \in Ciphers, NEW dir, NEW s \in Seq(Byte)
    PROVE  /\ Ran(Emptied(c), dir, s) \in Ciphers
           /\ Ran(Emptied(c), dir, s).out \in Seq(Byte)
           /\ Len(Ran(Emptied(c), dir, s).out) = Len(s)
  <1>1. Emptied(c) \in Ciphers /\ Emptied(c).out = <<>>
    BY EmptiedType
  <1>2. Len(s) \in 0..Len(s)
    BY LenProperties
  <1>3. Ran(Emptied(c), dir, s) \in Ciphers
    BY <1>1, RanType
  <1> QED
    BY <1>1, <1>2, <1>3, OutFacts, CipherTypes DEF Ran

\* What was put out before stays in front, and changes nothing.
LEMMA OutBehind ==
    ASSUME NEW c \in Ciphers, NEW dir, NEW s \in Seq(Byte)
    PROVE  /\ Ran(c, dir, s).reg = Ran(Emptied(c), dir, s).reg
           /\ Ran(c, dir, s).left = Ran(Emptied(c), dir, s).left
           /\ Ran(c, dir, s).out = c.out \o Ran(Emptied(c), dir, s).out
  <1> DEFINE n == Len(s)
             o == Emptied(c)
             F == Run(c, dir, s)
             G == Run(o, dir, s)
             Good(i) == InStep(F[i], G[i]) /\ F[i].out = c.out \o G[i].out
             S == {i \in 0..n : Good(i)}
  <1>1. n \in Nat /\ \A i \in 1..n : s[i] \in Byte
    BY LenProperties, ElementOfSeq
  <1>2. o \in Ciphers /\ o.reg = c.reg /\ o.left = c.left /\ o.out = <<>> /\ c.out \in Seq(Byte)
    BY EmptiedType, CipherTypes
  <1> HIDE DEF o
  <1>3. /\ \A i \in 0..n : F[i] \in Ciphers /\ G[i] \in Ciphers
        /\ F[0] = c /\ G[0] = o
        /\ \A i \in 1..n : F[i] = Step(F[i - 1], dir, s[i]) /\ G[i] = Step(G[i - 1], dir, s[i])
    BY <1>2, RunSteps
  <1> HIDE DEF F, G
  <1>4. 0 \in S
    <2>1. c.out \o <<>> = c.out
      BY <1>2, ConcatEmptySeq
    <2>2. F[0].out = c.out \o G[0].out
      BY <1>2, <1>3, <2>1
    <2>3. InStep(F[0], G[0])
      BY <1>2, <1>3 DEF InStep
    <2>4. Good(0) /\ 0 \in 0..n
      BY <1>1, <2>2, <2>3
    <2> HIDE DEF Good
    <2> QED
      BY <2>4
  <1>5. ASSUME NEW i \in 0 .. n - 1, i \in S
        PROVE  i + 1 \in S
    <2> DEFINE d == F[i]
               e == G[i]
               b == s[i + 1]
               x == Xor(Key(d), b)
    <2>1. i + 1 \in 1..n /\ (i + 1) - 1 = i /\ i + 1 \in 0..n /\ i \in 0..n
      BY <1>1
    <2>2. /\ F[i + 1] = Step(d, dir, b) /\ G[i + 1] = Step(e, dir, b)
          /\ d \in Ciphers /\ e \in Ciphers /\ b \in Byte
      BY <1>1, <1>3, <2>1
    <2>3. InStep(d, e) /\ d.out = c.out \o e.out
      BY <1>5
    <2> HIDE DEF d, e, b
    <2>4. Key(d) = Key(e) /\ x \in Byte /\ e.out \in Seq(Byte)
      BY <2>2, <2>3, InStepFacts, ReadyFacts, XorFacts, CipherTypes
    <2>5. Sent(d, dir, b) = Sent(e, dir, b)
      BY <2>4 DEF Sent
    <2>6. InStep(F[i + 1], G[i + 1])
      BY <2>2, <2>3, <2>5, StepInStep
    <2>7. F[i + 1].out = Append(d.out, x) /\ G[i + 1].out = Append(e.out, x)
      BY <2>2, <2>4 DEF Step
    <2> HIDE DEF x
    <2>8. c.out \o Append(e.out, x) = Append(c.out \o e.out, x)
      BY <1>2, <2>4, AppendBehind
    <2> QED
      BY <2>1, <2>3, <2>6, <2>7, <2>8
  <1>6. n \in S
    <2> HIDE DEF S
    <2>1. 0..n \subseteq S
      BY <1>1, <1>4, <1>5, Upwards
    <2> QED
      BY <1>1, <2>1
  <1> QED
    BY <1>6 DEF F, G, o, Ran, InStep

\* One call puts out the first n bytes of s, and the next the rest.
Divided(c, dir, s, n, first, second) ==
    /\ first = Ran(Emptied(c), dir, SubSeq(s, 1, n))
    /\ second = Ran(Emptied(first), dir, SubSeq(s, n + 1, Len(s)))

\* A message may be given in two calls: the same comes out, and the cipher is left the same.
THEOREM TwoCalls ==
    ASSUME NEW c \in Ciphers, NEW dir, NEW s \in Seq(Byte), NEW n \in 0..Len(s),
           NEW first, NEW second, Divided(c, dir, s, n, first, second)
    PROVE  /\ first.out \o second.out = Ran(Emptied(c), dir, s).out
           /\ InStep(second, Ran(Emptied(c), dir, s))
  <1> DEFINE a == SubSeq(s, 1, n)
             u == SubSeq(s, n + 1, Len(s))
             o == Emptied(c)
  <1>1. a \in Seq(Byte) /\ u \in Seq(Byte)
    BY Split
  <1>2. o \in Ciphers
    BY EmptiedType
  <1> HIDE DEF o
  <1>0. first = Ran(o, dir, a) /\ second = Ran(Emptied(first), dir, u)
    BY DEF Divided, o
  <1>3. first \in Ciphers /\ Ran(first, dir, u) = Ran(o, dir, s)
    BY <1>0, <1>2, RunSplit
  <1> HIDE DEF a, u
  <1>4. /\ Ran(first, dir, u).reg = Ran(Emptied(first), dir, u).reg
        /\ Ran(first, dir, u).left = Ran(Emptied(first), dir, u).left
        /\ Ran(first, dir, u).out = first.out \o Ran(Emptied(first), dir, u).out
    BY <1>1, <1>3, OutBehind
  <1> QED
    BY <1>0, <1>3, <1>4 DEF InStep, o

\* Of a message x that was enciphered, as much as arrives unchanged is deciphered to what
\* it was, and both ends are in step as far as that.
LEMMA DeciphersPortion ==
    ASSUME NEW c \in Ciphers, NEW d \in Ciphers, InStep(c, d), NEW m \in Seq(Byte),
           NEW y \in Seq(Byte), NEW k, Agree(Ran(Emptied(c), "encrypt", m).out, y, k)
    PROVE  /\ k \in 0..Len(m) /\ k \in 0..Len(y)
           /\ \A i \in 0..k : InStep(Run(Emptied(c), "encrypt", m)[i], Run(Emptied(d), "decrypt", y)[i])
           /\ \A j \in 1..k : Ran(Emptied(d), "decrypt", y).out[j] = m[j]
  <1> DEFINE n == Len(m)
             E == Run(Emptied(c), "encrypt", m)
             F == Run(Emptied(d), "decrypt", y)
             x == Ran(Emptied(c), "encrypt", m).out
             S == {i \in 0..k : InStep(E[i], F[i])}
  <1>1. n \in Nat /\ (\A i \in 1..n : m[i] \in Byte) /\ Len(y) \in Nat /\ Len(x) = n
    BY LenProperties, ElementOfSeq, RanOut
  <1>2. k \in 0..n /\ k \in 0..Len(y) /\ k \in Nat /\ \A i \in 1..k : x[i] = y[i]
    BY <1>1 DEF Agree
  <1>3. /\ Emptied(c) \in Ciphers /\ Emptied(c).out = <<>>
        /\ Emptied(d) \in Ciphers /\ Emptied(d).out = <<>> /\ InStep(Emptied(c), Emptied(d))
    BY EmptiedType DEF InStep
  <1>4. /\ \A i \in 0..n : E[i] \in Ciphers
        /\ E[0] = Emptied(c)
        /\ \A i \in 1..n : E[i] = Step(E[i - 1], "encrypt", m[i])
    BY <1>3, RunSteps
  <1>5. /\ \A i \in 0..Len(y) : F[i] \in Ciphers
        /\ F[0] = Emptied(d)
        /\ \A i \in 1..Len(y) : F[i] = Step(F[i - 1], "decrypt", y[i])
    BY <1>3, RunSteps
  <1>6. \A j \in 1..n : x[j] = Xor(Key(E[j - 1]), m[j])
    <2>1. n \in 0..n
      BY <1>1
    <2> QED
      BY <1>3, <2>1, OutFacts DEF Ran
  <1>7. \A j \in 1..Len(y) : Ran(Emptied(d), "decrypt", y).out[j] = Xor(Key(F[j - 1]), y[j])
    <2>1. Len(y) \in 0..Len(y)
      BY <1>1
    <2> QED
      BY <1>3, <2>1, OutFacts DEF Ran
  <1> HIDE DEF E, F, x
  <1>8. 0 \in S
    BY <1>2, <1>3, <1>4, <1>5
  <1>9. ASSUME NEW i \in 0 .. k - 1, i \in S
        PROVE  i + 1 \in S
    <2>1. /\ i + 1 \in 1..n /\ i + 1 \in 1..Len(y) /\ (i + 1) - 1 = i /\ i + 1 \in 0..k
          /\ i \in 0..n /\ i \in 0..Len(y) /\ i + 1 \in 1..k
      BY <1>1, <1>2
    <2> DEFINE e == E[i]
               f == F[i]
               a == m[i + 1]
               b == y[i + 1]
    <2>2. /\ e \in Ciphers /\ f \in Ciphers /\ InStep(e, f)
          /\ E[i + 1] = Step(e, "encrypt", a) /\ F[i + 1] = Step(f, "decrypt", b)
          /\ b = Xor(Key(e), a)
      BY <1>2, <1>4, <1>5, <1>6, <1>9, <2>1
    <2> HIDE DEF e, f, a, b
    <2>3. Sent(e, "encrypt", a) = Sent(f, "decrypt", b)
      BY <2>2 DEF Sent
    <2>4. InStep(Step(e, "encrypt", a), Step(f, "decrypt", b))
      BY <2>2, <2>3, StepInStep
    <2> QED
      BY <2>1, <2>2, <2>4
  <1>10. \A i \in 0..k : InStep(E[i], F[i])
    <2> HIDE DEF S
    <2>1. 0..k \subseteq S
      BY <1>2, <1>8, <1>9, Upwards
    <2> QED
      BY <2>1 DEF S
  <1>11. ASSUME NEW j \in 1..k
         PROVE  Ran(Emptied(d), "decrypt", y).out[j] = m[j]
    <2>1. j \in 1..n /\ j \in 1..Len(y) /\ j - 1 \in 0..k /\ j - 1 \in 0..n /\ j - 1 \in 0..Len(y)
      BY <1>1, <1>2
    <2> DEFINE e == E[j - 1]
               f == F[j - 1]
               a == m[j]
    <2>2. e \in Ciphers /\ f \in Ciphers /\ InStep(e, f) /\ a \in Byte /\ y[j] = Xor(Key(e), a)
      BY <1>1, <1>2, <1>4, <1>5, <1>6, <1>10, <2>1
    <2>3. Ran(Emptied(d), "decrypt", y).out[j] = Xor(Key(f), y[j])
      BY <1>7, <2>1
    <2> HIDE DEF e, f, a
    <2>4. Key(e) = Key(f) /\ Key(e) \in Byte
      BY <2>2, InStepFacts, ReadyFacts
    <2>5. Xor(Key(e), Xor(Key(e), a)) = a
      BY <2>2, <2>4, XorFacts
    <2> QED
      BY <2>2, <2>3, <2>4, <2>5 DEF a
  <1> QED
    BY <1>2, <1>10, <1>11 DEF E, F

\* What one end enciphers, the other deciphers, if they were in step; and they still are.
THEOREM Deciphers ==
    ASSUME NEW c \in Ciphers, NEW d \in Ciphers, InStep(c, d), NEW m \in Seq(Byte), NEW x,
           x = Ran(Emptied(c), "encrypt", m).out
    PROVE  /\ Ran(Emptied(d), "decrypt", x).out = m
           /\ InStep(Ran(Emptied(c), "encrypt", m), Ran(Emptied(d), "decrypt", x))
  <1>1. x \in Seq(Byte) /\ Len(x) = Len(m) /\ Len(m) \in Nat
    BY RanOut, LenProperties
  <1>2. Agree(Ran(Emptied(c), "encrypt", m).out, x, Len(m))
    BY <1>1 DEF Agree
  <1> DEFINE f == Ran(Emptied(d), "decrypt", x)
             k == Len(m)
  <1>3. /\ InStep(Run(Emptied(c), "encrypt", m)[k], Run(Emptied(d), "decrypt", x)[k])
        /\ \A j \in 1..k : f.out[j] = m[j]
    <2> HIDE DEF f, k
    <2>1. k \in 0..k
      BY <1>1 DEF k
    <2> QED
      BY <1>1, <1>2, <2>1, DeciphersPortion DEF f, k
  <1>4. f.out \in Seq(Byte) /\ Len(f.out) = k
    BY <1>1, RanOut
  <1> HIDE DEF f
  <1>5. f.out = m
    BY <1>3, <1>4, SeqEqual
  <1> QED
    BY <1>1, <1>3, <1>5 DEF f, Ran

-----------------------------------------------------------------------------
(* Portions of a text, and of a message *)

\* The last character is needed: before it something is missing of the last byte.
LEMMA FinishEnds ==
    ASSUME NEW bytes \in Seq(Byte), NEW s, s = Finish(Encoding(bytes)[Len(bytes)]),
           NEW r \in 0 .. Len(s) - 1
    PROVE  Len(Decoding(s)[r].bytes) < Len(bytes)
  <1> DEFINE n == Len(bytes)
             l == Len(s)
             e == Encoding(bytes)[n]
             D == Decoding(s)
             f == Read(e.chars)
  <1>1. n \in Nat /\ n \in 0..Len(bytes)
    BY LenProperties
  <1>2. e \in Encoders /\ Follows(f, e.part, bytes, n) /\ s = Finish(e)
    BY <1>1, EncodingFollowed
  <1>3. s \in Seq(Digit) /\ Read(s).bytes = bytes
    BY FinishDecodes
  <1>4. s \in Seq(Char) /\ l \in Nat /\ r \in Nat /\ r <= l - 1 /\ l - 1 \in 0..l /\ l \in 1..l
    BY <1>3, Sizes, SeqMonotonic, LenProperties
  <1> HIDE DEF e
  <1>5. /\ e.chars \in Seq(Digit) /\ e.chars \in Seq(Char) /\ e.part \in Seq(Bit)
        /\ Len(e.part) \in Nat /\ Len(e.chars) \in Nat
    <2>1. e.chars \in Seq(Digit) /\ e.part \in Seq(Bit) /\ Len(e.part) \in Nat /\ Len(e.chars) \in Nat
      BY <1>2, EncoderTypes
    <2>2. e.chars \in Seq(Char)
      BY <2>1, Sizes, SeqMonotonic
    <2> QED
      BY <2>1, <2>2
  <1>6. f \in Decoders
    BY <1>5, ReadIsDecoder
  <1>7. f.part \in Seq(Bit) /\ f.bytes \in Seq(Byte) /\ Len(f.part) \in Nat /\ Len(f.bytes) \in Nat
    BY <1>6, LenProperties DEF Decoders
  <1>8. Len(f.bytes) = n => Len(f.part) = 0 /\ Len(e.part) = 0
    <2> SUFFICES ASSUME Len(f.bytes) = n PROVE Len(f.part) = 0 /\ Len(e.part) = 0
      OBVIOUS
    <2>1. f.part \o e.part = Ahead(bytes, n, n)
      BY <1>2 DEF Follows
    <2>2. Len(Ahead(bytes, n, n)) = 0
      <3>1. n \in 0..n /\ n - 2 <= n
        BY <1>1
      <3> QED
        BY <1>1, <3>1, AheadFacts
    <2>3. Len(f.part \o e.part) = Len(f.part) + Len(e.part)
      BY <1>5, <1>7, ConcatProperties
    <2> DEFINE x == Len(f.part)
               y == Len(e.part)
    <2>4. x + y = 0 /\ x \in Nat /\ y \in Nat
      BY <1>5, <1>7, <2>1, <2>2, <2>3
    <2> HIDE DEF x, y
    <2>5. x = 0 /\ y = 0
      BY <2>4
    <2> QED
      BY <2>5 DEF x, y
  <1>9. Len(f.bytes) <= n
    BY <1>1, <1>2 DEF Follows
  <1>10. D[r].bytes \in Seq(Byte) /\ Len(D[r].bytes) <= Len(D[l - 1].bytes)
         /\ Len(D[r].bytes) \in Nat /\ Len(D[l - 1].bytes) \in Nat
    <2>1. l - 1 \in r..Len(s) /\ r \in 0..Len(s)
      BY <1>4
    <2>2. Len(D[r].bytes) <= Len(D[l - 1].bytes)
      <3> DEFINE m == l - 1
      <3>1. m \in r..Len(s)
        BY <2>1
      <3> HIDE DEF m
      <3>2. Len(D[r].bytes) <= Len(D[m].bytes)
        BY <1>4, <2>1, <3>1, ReadGrows
      <3> QED
        BY <3>2 DEF m
    <2>3. D[r] \in Decoders /\ D[l - 1] \in Decoders
      BY <1>4, <2>1, ReadIsDecoder
    <2> QED
      BY <2>2, <2>3, LenProperties DEF Decoders
  <1>11. CASE e.part # <<>>
    <2> DEFINE c == e.part \o [i \in 1 .. CharBits - Len(e.part) |-> 0]
               m == Len(e.chars)
    <2>1. s = Append(e.chars, c)
      BY <1>2, <1>11 DEF Finish
    <2>2. l = m + 1 /\ \A i \in 1..m : s[i] = e.chars[i]
      <3> HIDE DEF c
      <3> QED
        BY <1>5, <2>1
    <2>3. Agree(s, e.chars, m)
      BY <1>5, <2>2 DEF Agree
    <2> HIDE DEF m
    <2>4. D[m] = Decoding(e.chars)[m]
      BY <1>4, <1>5, <2>3, DecodingAgrees
    <2>5. D[l - 1] = f
      BY <1>5, <2>2, <2>4 DEF m, Read
    <2>6. Len(e.part) # 0
      BY <1>5, <1>11, EmptySeq
    <2> HIDE DEF f
    <2>7. Len(f.bytes) # n
      BY <1>8, <2>6
    <2>8. Len(D[r].bytes) <= Len(f.bytes)
      BY <1>10, <2>5
    <2> DEFINE x == Len(D[r].bytes)
               y == Len(f.bytes)
    <2>9. x <= y /\ y # n /\ y <= n /\ x \in Nat /\ y \in Nat
      BY <1>7, <1>9, <1>10, <2>7, <2>8
    <2> HIDE DEF x, y
    <2>10. x < n
      BY <1>1, <2>9
    <2> QED
      BY <2>10 DEF x, n
  <1>12. CASE e.part = <<>>
    <2> DEFINE g == D[l - 1]
               c == s[l]
    <2>1. s = e.chars
      BY <1>2, <1>12 DEF Finish
    <2>2. f = D[l] /\ f.bytes = bytes
      BY <1>3, <2>1 DEF Read
    <2>3. Len(f.part) = 0
      BY <1>8, <2>2
    <2>4. D[l] = PutChar(g, c) /\ c \in Digit /\ c \in Char /\ g \in Decoders
      <3>1. D[l] = PutChar(g, c)
        BY <1>4, DecodingSteps
      <3>2. c \in Digit
        BY <1>3, <1>4, ElementOfSeq
      <3>3. g \in Decoders
        BY <1>4, ReadIsDecoder
      <3> QED
        BY <3>1, <3>2, <3>3, Sizes
    <2>5. f = PutChar(g, c)
      BY <2>2, <2>4
    <2>6. Len(g.bytes) = Len(D[l - 1].bytes)
      OBVIOUS
    <2> HIDE DEF g, c, f
    <2>7. g.bytes \in Seq(Byte) /\ Len(g.bytes) \in Nat /\ Len(g.part) \in Nat
      BY <2>4, LenProperties DEF Decoders
    <2>8. CASE Len(g.part \o c) < ByteBits
      <3>1. f = [bytes |-> g.bytes, part |-> g.part \o c] /\ Len(g.part \o c) = Len(g.part) + CharBits
        BY <2>4, <2>5, <2>8, PutCharSteps
      <3>2. Len(g.part) + CharBits = 0
        BY <2>3, <3>1
      <3> QED
        BY <2>7, <3>2, Numbers
    <2>9. CASE ~(Len(g.part \o c) < ByteBits)
      <3> DEFINE b == SubSeq(g.part \o c, 1, ByteBits)
                 p == SubSeq(g.part \o c, ByteBits + 1, Len(g.part \o c))
      <3>1. f = [bytes |-> Append(g.bytes, b), part |-> p] /\ b \in Byte
        BY <2>4, <2>5, <2>9, PutCharSteps
      <3> HIDE DEF b, p
      <3>2. f.bytes = Append(g.bytes, b)
        BY <3>1
      <3>3. Len(f.bytes) = Len(g.bytes) + 1
        BY <2>7, <3>1, <3>2, AppendProperties
      <3>4. Len(g.bytes) + 1 = n
        BY <2>2, <3>3
      <3> DEFINE x == Len(D[r].bytes)
                 y == Len(g.bytes)
      <3>5. x <= y /\ y + 1 = n /\ x \in Nat /\ y \in Nat
        BY <1>10, <2>6, <2>7, <3>4
      <3> HIDE DEF x, y
      <3>6. x < n
        BY <1>1, <3>5
      <3> QED
        BY <3>6 DEF x, n
    <2> QED
      BY <2>8, <2>9
  <1> QED
    BY <1>11, <1>12

\* What is no digit does not count before a text either.
LEMMA ReadBehind ==
    ASSUME NEW t \in Seq(Char), NEW u \in Seq(Char), NoDigits(t, 0)
    PROVE  \A i \in 0..Len(u) : Decoding(t \o u)[Len(t) + i] = Decoding(u)[i]
  <1> DEFINE w == t \o u
             m == Len(t)
             n == Len(u)
             D == Decoding(w)
             E == Decoding(u)
             S == {i \in 0..n : D[m + i] = E[i]}
  <1>1. m \in Nat /\ n \in Nat /\ w \in Seq(Char) /\ Len(w) = m + n
        /\ \A i \in 1 .. m + n : w[i] = IF i <= m THEN t[i] ELSE u[i - m]
    BY LenProperties, ConcatProperties
  <1>2. D[m] = Empty
    <2>1. Agree(w, t, m)
      BY <1>1 DEF Agree
    <2> HIDE DEF m, w
    <2>2. D[m] = Decoding(t)[m]
      BY <1>1, <2>1, DecodingAgrees
    <2>3. Read(t) = Decoding(t)[0]
      <3> DEFINE o == 0
      <3>1. NoDigits(t, o)
        OBVIOUS
      <3> HIDE DEF o
      <3>2. Read(t) = Decoding(t)[o]
        BY <3>1, ReadSkips
      <3> QED
        BY <3>2 DEF o
    <2> QED
      BY <2>2, <2>3, DecodingSteps DEF Read, m
  <1>3. E[0] = Empty /\ \A i \in 1..n : E[i] = PutChar(E[i - 1], u[i])
    BY DecodingSteps
  <1>4. \A i \in 1 .. m + n : D[i] = PutChar(D[i - 1], w[i])
    BY <1>1, DecodingSteps
  <1> HIDE DEF D, E, w, m, n
  <1>5. 0 \in S
    BY <1>1, <1>2, <1>3
  <1>6. ASSUME NEW i \in 0 .. n - 1, i \in S
        PROVE  i + 1 \in S
    <2>1. /\ i + 1 \in 1..n /\ i + 1 \in 0..n /\ (i + 1) - 1 = i
          /\ m + (i + 1) \in 1 .. m + n /\ (m + (i + 1)) - 1 = m + i
          /\ ~(m + (i + 1) <= m) /\ (m + (i + 1)) - m = i + 1
      BY <1>1
    <2>2. D[m + (i + 1)] = PutChar(D[m + i], u[i + 1])
      BY <1>1, <1>4, <2>1
    <2>3. E[i + 1] = PutChar(E[i], u[i + 1])
      BY <1>3, <2>1
    <2> QED
      BY <1>6, <2>1, <2>2, <2>3
  <1>7. 0..n \subseteq S
    <2> HIDE DEF S
    <2> QED
      BY <1>1, <1>5, <1>6, Upwards
  <1> QED
    BY <1>7 DEF D, E, w, m, n

\* What a read of n characters decodes to, if nothing of value is behind them.
LEMMA PortionRead ==
    ASSUME NEW t \in Seq(Char), NEW n \in 0..Len(t), NEW tail \in Seq(Char), NoDigits(tail, 0)
    PROVE  Decode(SubSeq(t, 1, n) \o tail) = Decoding(t)[n].bytes
  <1> DEFINE a == SubSeq(t, 1, n)
             w == a \o tail
  <1>1. a \in Seq(Char) /\ Len(a) = n /\ n \in Nat /\ Len(tail) \in Nat
        /\ \A i \in 1..n : a[i] = t[i]
    BY Split, LenProperties
  <1>2. /\ w \in Seq(Char) /\ Len(w) = n + Len(tail)
        /\ \A i \in 1 .. n + Len(tail) : w[i] = IF i <= n THEN a[i] ELSE tail[i - n]
    <2> HIDE DEF a
    <2> QED
      BY <1>1, ConcatProperties
  <1> HIDE DEF w, a
  <1>3. NoDigits(w, n)
    <2> SUFFICES ASSUME NEW i \in n + 1 .. Len(w) PROVE w[i] \notin Digit
      BY <1>1, <1>2 DEF NoDigits
    <2>1. i \in 1 .. n + Len(tail) /\ ~(i <= n) /\ i - n \in 1..Len(tail)
      BY <1>1, <1>2
    <2>2. tail[i - n] \notin Digit
      BY <2>1 DEF NoDigits
    <2> QED
      BY <1>2, <2>1, <2>2
  <1>4. Read(w) = Decoding(w)[n]
    BY <1>2, <1>3, ReadSkips
  <1>5. Agree(w, t, n)
    BY <1>1, <1>2 DEF Agree
  <1>6. Decoding(w)[n] = Decoding(t)[n]
    BY <1>2, <1>5, DecodingAgrees
  <1> QED
    BY <1>4, <1>6 DEF Decode, Read, w, a

\* What has been decoded after n characters is the beginning of what will be.
LEMMA DecodedSoFar ==
    ASSUME NEW t \in Seq(Char), NEW n \in 0..Len(t), NEW b, b = Decoding(t)[n].bytes
    PROVE  /\ b \in Seq(Byte) /\ Len(b) \in Nat /\ Len(b) <= n /\ Len(b) <= Len(Decode(t))
           /\ Decode(t) \in Seq(Byte) /\ Len(Decode(t)) \in Nat
           /\ n = Len(t) => b = Decode(t)
           /\ \A i \in 1..Len(b) : b[i] = Decode(t)[i]
  <1> DEFINE N == Len(t)
             o == 0
  <1>1. N \in Nat /\ N \in n..Len(t) /\ N \in 0..Len(t) /\ o \in 0..Len(t) /\ n \in o..Len(t) /\ n \in Nat
    BY LenProperties
  <1>2. Decode(t) = Decoding(t)[N].bytes
    BY DEF Decode
  <1>3. Decoding(t)[n] \in Decoders /\ Decoding(t)[N] \in Decoders
    BY <1>1, ReadIsDecoder
  <1>4. b \in Seq(Byte) /\ Len(b) \in Nat /\ Decode(t) \in Seq(Byte) /\ Len(Decode(t)) \in Nat
    BY <1>2, <1>3, LenProperties DEF Decoders
  <1>5. Decoding(t)[o] = Empty
    BY DecodingSteps
  <1> HIDE DEF N, o
  <1>6. Len(b) <= Len(Decode(t)) /\ \A i \in 1..Len(b) : b[i] = Decode(t)[i]
    BY <1>1, <1>2, ReadGrows
  <1>7. Len(Decoding(t)[n].bytes) <= Len(Decoding(t)[o].bytes) + (n - o)
    BY <1>1, ReadGrows
  <1>8. Len(Decoding(t)[o].bytes) = 0
    BY <1>5, EmptySeq DEF Empty
  <1>9. Len(b) <= n
    BY <1>1, <1>4, <1>7, <1>8 DEF o
  <1>10. n = Len(t) => b = Decode(t)
    BY <1>2 DEF N
  <1> QED
    BY <1>4, <1>6, <1>9, <1>10

\* One is the beginning of the other, element by element.
Alike(s, t) == \A i \in 1..Len(s) : i <= Len(t) => s[i] = t[i]

\* As far as the bytes are those enciphered, they are deciphered.
LEMMA DeciphersAlike ==
    ASSUME NEW c \in Ciphers, NEW m \in Seq(Byte), NEW b \in Seq(Byte),
           Alike(b, Ran(Emptied(c), "encrypt", m).out)
    PROVE  /\ Ran(Emptied(c), "decrypt", b) \in Ciphers
           /\ Ran(Emptied(c), "decrypt", b).out \in Seq(Byte)
           /\ Len(Ran(Emptied(c), "decrypt", b).out) = Len(b)
           /\ Len(Ran(Emptied(c), "encrypt", m).out) = Len(m)
           /\ Alike(Ran(Emptied(c), "decrypt", b).out, m)
  <1> DEFINE x == Ran(Emptied(c), "encrypt", m).out
             y == Ran(Emptied(c), "decrypt", b).out
             k == IF Len(b) <= Len(x) THEN Len(b) ELSE Len(x)
  <1>1. x \in Seq(Byte) /\ Len(x) = Len(m)
    BY RanOut
  <1>2. Ran(Emptied(c), "decrypt", b) \in Ciphers /\ y \in Seq(Byte) /\ Len(y) = Len(b)
    BY RanOut
  <1>3. Len(b) \in Nat /\ Len(m) \in Nat
    BY LenProperties
  <1>4. Alike(b, x)
    OBVIOUS
  <1>5. InStep(c, c)
    BY DEF InStep
  <1> DEFINE z == x
  <1>6. Agree(z, b, k) /\ z = Ran(Emptied(c), "encrypt", m).out
    <2> HIDE DEF x
    <2>1. k \in 0..Len(b) /\ k \in 0..Len(x)
      BY <1>1, <1>3
    <2>2. \A i \in 1..k : x[i] = b[i]
      BY <1>1, <1>3, <1>4 DEF Alike
    <2>3. Agree(x, b, k)
      <3> HIDE DEF k
      <3> QED
        BY <2>1, <2>2 DEF Agree
    <2> QED
      BY <2>3 DEF x
  <1>7. \A j \in 1..k : y[j] = m[j]
    <2> HIDE DEF k
    <2>1. Agree(Ran(Emptied(c), "encrypt", m).out, b, k)
      BY <1>6
    <2> QED
      BY <1>5, <2>1, DeciphersPortion
  <1>8. Alike(y, m)
    <2> HIDE DEF x, y
    <2> SUFFICES ASSUME NEW i \in 1..Len(y), i <= Len(m) PROVE y[i] = m[i]
      BY DEF Alike
    <2>1. i \in 1..k
      BY <1>1, <1>2, <1>3
    <2> QED
      BY <1>7, <2>1
  <1> QED
    BY <1>1, <1>2, <1>8
=============================================================================
