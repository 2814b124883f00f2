---------------------------- MODULE DialogueProofs ----------------------------
(***************************************************************************)
(* What is proved of the dialogue, for every number of requests, cuts and  *)
(* messages.                                                               *)
(*                                                                         *)
(* One invariant is Base.  On each line are texts and rests of texts.      *)
(* Size is a length that no text exceeds; Within(n, k) says that n         *)
(* characters are no more than k texts, and OnItsWay counts them: requests *)
(* unread, requests unanswered and answers unread are one at most, and one *)
(* more for each read that was cut.  So TCP takes every answer whole, and  *)
(* none is cleared under its way; and an ATM that waits has something of   *)
(* these to wait for.                                                      *)
(*                                                                         *)
(* A second one, Course, follows each message from the cipher that sends   *)
(* it to the one that receives it.  One exchange, the k-th, is the first   *)
(* not known to have gone well: Frontier(k).  In either direction its      *)
(* message is yet to come, and the ciphers of both ends are in step        *)
(* (Clear), or it is first on the line (Holds), or it was taken for        *)
(* something it is related to (InOrder).  As long as no cut has spoilt it  *)
(* (Never), it is alone on the line (Carries), and a whole read takes it   *)
(* as it was sent.                                                         *)
(*                                                                         *)
(* What a message becomes rests on the facts of CodecProofs.               *)
(***************************************************************************)
EXTENDS Dialogue, CodecProofs

-----------------------------------------------------------------------------
(* The text of a message, without its line breaks *)

\* A character goes on behind the text, unless it is a line break.
Keep(t, c) == IF c = NewLine THEN t ELSE Append(t, c)
Kept(s) == Unbroken(s)[Len(s)]

\* The definition of Unbroken, unfolded.
LEMMA UnbrokenSteps ==
    ASSUME NEW s \in Seq(Char)
    PROVE  /\ Unbroken(s) \in [0..Len(s) -> Seq(Char)]
           /\ Unbroken(s)[0] = <<>>
           /\ \A i \in 1..Len(s) : Unbroken(s)[i] = Keep(Unbroken(s)[i - 1], s[i])
  <1> DEFINE n == Len(s)
             X == Seq(Char)
             none == <<>>
             g == [y \in X \X (1..n) |-> Keep(y[1], s[y[2]])]
             F == Unbroken(s)
             Body(f) == [i \in 0..n |-> IF i = 0 THEN <<>>
                                        ELSE IF s[i] = NewLine THEN f[i - 1]
                                        ELSE Append(f[i - 1], s[i])]
  <1>1. n \in Nat /\ \A i \in 1..n : s[i] \in Char
    BY LenProperties, ElementOfSeq
  <1>2. none \in X
    BY EmptySeq
  <1>3. \A t \in X : \A c \in Char : Keep(t, c) \in X
    BY AppendProperties DEF Keep
  <1>4. Closed(g, X, n)
    <2> HIDE DEF X, n
    <2> QED
      BY <1>1, <1>3 DEF Closed
  <1>5. PICK f \in [0..n -> X] : f[0] = none /\ \A i \in 1..n : f[i] = g[<<f[i - 1], i>>]
    <2> HIDE DEF g, n, X, none
    <2> QED
      BY <1>1, <1>2, <1>4, Recursion
  <1>6. \A i \in 1..n : f[i] = Keep(f[i - 1], s[i])
    <2> SUFFICES ASSUME NEW i \in 1..n PROVE f[i] = Keep(f[i - 1], s[i])
      OBVIOUS
    <2>1. f[i - 1] \in X
      BY <1>1, <1>5
    <2> HIDE DEF X
    <2> QED
      BY <1>5, <2>1
  <1>7. f = Body(f)
    <2> HIDE DEF X
    <2> QED
      BY <1>1, <1>5, <1>6 DEF Keep
  <1>8. F = Body(F)
    <2>1. F = CHOOSE h : h = Body(h)
      BY DEF Unbroken
    <2> HIDE DEF F, Body
    <2> QED
      BY <1>7, <2>1
  <1> HIDE DEF F
  <1>9. F[0] = <<>> /\ \A i \in 1..n : F[i] = Keep(F[i - 1], s[i])
    <2> HIDE DEF n
    <2>1. F[0] = <<>>
      BY <1>1, <1>8
    <2>2. ASSUME NEW i \in 1..n
          PROVE  F[i] = Keep(F[i - 1], s[i])
      <3>1. i \in 0..n /\ i # 0
        BY <1>1
      <3> QED
        BY <1>8, <3>1 DEF Keep
    <2> QED
      BY <2>1, <2>2
  <1>10. \A i \in 0..n : F[i] \in X
    <2> DEFINE S == {i \in 0..n : F[i] \in X}
    <2> HIDE DEF X
    <2>1. 0 \in S
      BY <1>1, <1>2, <1>9
    <2>2. ASSUME NEW i \in 0 .. n - 1, i \in S
          PROVE  i + 1 \in S
      <3>1. i + 1 \in 1..n /\ (i + 1) - 1 = i /\ i + 1 \in 0..n
        BY <1>1
      <3>2. F[i + 1] = Keep(F[i], s[i + 1])
        BY <1>9, <3>1
      <3>3. F[i] \in X /\ s[i + 1] \in Char
        BY <1>1, <2>2, <3>1
      <3> QED
        BY <1>3, <3>1, <3>2, <3>3
    <2> HIDE DEF S
    <2>3. 0..n \subseteq S
      BY <1>1, <2>1, <2>2, Upwards
    <2> QED
      BY <2>3 DEF S
  <1>11. F \in [0..n -> X]
    BY <1>8, <1>10
  <1> QED
    BY <1>9, <1>11 DEF F

\* What is kept of a text depends on what was read of it.
LEMMA KeptAppend ==
    ASSUME NEW t \in Seq(Char), NEW c \in Char
    PROVE  Kept(t) \in Seq(Char) /\ Kept(Append(t, c)) = Keep(Kept(t), c)
  <1> DEFINE u == Append(t, c)
             n == Len(t)
             S == {i \in 0..n : Unbroken(u)[i] = Unbroken(t)[i]}
  <1>1. /\ u \in Seq(Char) /\ Len(u) = n + 1 /\ u[n + 1] = c
        /\ \A i \in 1..n : u[i] = t[i]
    BY AppendProperties
  <1>2. n \in Nat
    BY LenProperties
  <1> HIDE DEF u
  <1>3. /\ Unbroken(t)[0] = <<>> /\ Unbroken(u)[0] = <<>>
        /\ \A i \in 1..n : Unbroken(t)[i] = Keep(Unbroken(t)[i - 1], t[i])
        /\ \A i \in 1 .. n + 1 : Unbroken(u)[i] = Keep(Unbroken(u)[i - 1], u[i])
        /\ Unbroken(t) \in [0..n -> Seq(Char)]
    BY <1>1, UnbrokenSteps
  <1>4. 0 \in S
    BY <1>2, <1>3
  <1>5. ASSUME NEW i \in 0 .. n - 1, i \in S
        PROVE  i + 1 \in S
    <2>1. i + 1 \in 1..n /\ i + 1 \in 1 .. n + 1 /\ i + 1 \in 0..n /\ (i + 1) - 1 = i
      BY <1>2
    <2>2. /\ Unbroken(t)[i + 1] = Keep(Unbroken(t)[i], t[i + 1])
          /\ Unbroken(u)[i + 1] = Keep(Unbroken(u)[i], u[i + 1])
      BY <1>3, <2>1
    <2> QED
      BY <1>1, <1>5, <2>1, <2>2
  <1> HIDE DEF S
  <1>6. 0..n \subseteq S
    BY <1>2, <1>4, <1>5, Upwards
  <1>7. n \in 0..n /\ n + 1 \in 1 .. n + 1 /\ (n + 1) - 1 = n
    BY <1>2
  <1>8. Unbroken(u)[n] = Unbroken(t)[n]
    BY <1>6, <1>7 DEF S
  <1>9. Unbroken(u)[n + 1] = Keep(Unbroken(u)[n], c)
    BY <1>1, <1>3, <1>7
  <1>10. Kept(t) = Unbroken(t)[n] /\ Kept(u) = Unbroken(u)[n + 1]
    BY <1>1 DEF Kept
  <1> HIDE DEF n
  <1> QED
    BY <1>3, <1>7, <1>8, <1>9, <1>10 DEF u

\* The Grouper adds nothing but line breaks.
LEMMA BreakLinesKept ==
    ASSUME NEW s \in Seq(Char), \A i \in 1..Len(s) : s[i] # NewLine
    PROVE  Kept(BreakLines(s)) = s
  <1> DEFINE n == Len(s)
             G == Grouping(s)
             S == {i \in 0..n : Kept(G[i].text) = SubSeq(s, 1, i)}
  <1>1. n \in Nat /\ \A i \in 1..n : s[i] \in Char
    BY LenProperties, ElementOfSeq
  <1>2. /\ \A i \in 0..n : G[i] \in Groupers
        /\ G[0] = NoText
        /\ \A i \in 1..n : G[i] = Group(G[i - 1], s[i])
    BY GroupingSteps
  <1> HIDE DEF G
  <1>3. 0 \in S
    <2> DEFINE none == <<>>
    <2>1. G[0].text = none
      BY <1>2 DEF NoText
    <2>2. none \in Seq(Char) /\ Len(none) = 0
      BY EmptySeq
    <2>3. Kept(none) = none
      BY <2>2, UnbrokenSteps DEF Kept
    <2>4. SubSeq(s, 1, 0) = none
      BY SubSeqEmpty
    <2> HIDE DEF none
    <2>5. Kept(G[0].text) = SubSeq(s, 1, 0) /\ 0 \in 0..n
      BY <1>1, <2>1, <2>3, <2>4
    <2> QED
      BY <2>5
  <1>4. ASSUME NEW t \in Seq(Char)
        PROVE  Append(t, NewLine) \in Seq(Char) /\ Kept(Append(t, NewLine)) = Kept(t)
    <2>1. NewLine \in Char
      BY Sizes
    <2> QED
      BY <2>1, KeptAppend, AppendProperties DEF Keep
  <1>5. ASSUME NEW i \in 0 .. n - 1, i \in S
        PROVE  i + 1 \in S
    <2> DEFINE t == G[i].text
               c == s[i + 1]
               u == Append(t, NewLine)
    <2>1. i + 1 \in 1..n /\ (i + 1) - 1 = i /\ i + 1 \in 0..n /\ i \in 0..n
      BY <1>1
    <2>2. G[i + 1] = Group(G[i], c) /\ G[i] \in Groupers /\ c \in Char /\ c # NewLine
      BY <1>1, <1>2, <2>1
    <2>3. \/ G[i + 1].text = Append(t, c)
          \/ G[i + 1].text = Append(u, c)
      BY <2>2, GroupSteps
    <2>4. t \in Seq(Char) /\ Kept(t) = SubSeq(s, 1, i)
      BY <1>5, <2>2 DEF Groupers
    <2>5. SubSeq(s, 1, i + 1) = Append(SubSeq(s, 1, i), c)
      BY OneMore
    <2> HIDE DEF t, c
    <2>6. u \in Seq(Char) /\ Kept(u) = Kept(t)
      BY <1>4, <2>4
    <2> HIDE DEF u
    <2>7. Kept(Append(t, c)) = Append(Kept(t), c)
      BY <2>2, <2>4, KeptAppend DEF Keep
    <2>8. Kept(Append(u, c)) = Append(Kept(u), c)
      BY <2>2, <2>6, KeptAppend DEF Keep
    <2>9. Kept(G[i + 1].text) = SubSeq(s, 1, i + 1)
      BY <2>3, <2>4, <2>5, <2>6, <2>7, <2>8
    <2> QED
      BY <2>1, <2>9
  <1>6. n \in S
    <2> HIDE DEF S
    <2>1. 0..n \subseteq S
      BY <1>1, <1>3, <1>5, Upwards
    <2> QED
      BY <1>1, <2>1
  <1> DEFINE t == G[n].text
  <1>7. t \in Seq(Char) /\ Kept(t) = SubSeq(s, 1, n)
    BY <1>1, <1>2, <1>6 DEF Groupers
  <1>8. BreakLines(s) = Append(t, NewLine)
    BY DEF BreakLines, G
  <1> HIDE DEF t
  <1>9. Kept(Append(t, NewLine)) = Kept(t)
    BY <1>4, <1>7
  <1>10. SubSeq(s, 1, Len(s)) = s
    BY SubSeqFull
  <1> QED
    BY <1>7, <1>8, <1>9, <1>10

\* The characters of a text.
Texts == Seq(Digit \cup {Padding})

\* A text is of characters that are read, none a line break or a zero byte.
LEMMA TextsAreRead ==
    ASSUME NEW t \in Texts
    PROVE  t \in Seq(Char) /\ Len(t) \in Nat /\ \A i \in 1..Len(t) : t[i] # NewLine /\ t[i] # Nul
  <1>1. \A c \in Digit \cup {Padding} : c \in Char /\ c # NewLine /\ c # Nul
    BY Sizes
  <1>2. Len(t) \in Nat /\ \A i \in 1..Len(t) : t[i] \in Digit \cup {Padding}
    BY ElementOfSeq, LenProperties DEF Texts
  <1>3. t \in Seq(Char)
    BY <1>1, SeqMonotonic DEF Texts
  <1> QED
    BY <1>1, <1>2, <1>3

\* A text is the padded digits of the bytes, and decodes to them.
LEMMA TextFacts ==
    ASSUME NEW bytes \in Seq(Byte)
    PROVE  /\ Text(bytes) = Pad(Finish(Encoding(bytes)[Len(bytes)]))
           /\ Text(bytes) \in Texts
           /\ Decode(Text(bytes)) = bytes
           /\ Len(bytes) <= Len(Text(bytes))
  <1> DEFINE s == Finish(Encoding(bytes)[Len(bytes)])
             p == Pad(s)
             n == Len(p)
  <1>1. s \in Seq(Digit) /\ Read(s).bytes = bytes
    BY FinishDecodes
  <1> HIDE DEF s
  <1>2. p \in Texts /\ p \in Seq(Char) /\ Read(p) = Read(s)
    BY <1>1, PadFacts, PadDecodes DEF Texts
  <1>3. Encode(bytes) = BreakLines(p)
    BY DEF Encode, s
  <1> HIDE DEF p
  <1>4. n \in Nat /\ \A i \in 1..n : p[i] # NewLine
    BY <1>2, TextsAreRead
  <1>5. Kept(BreakLines(p)) = p
    BY <1>2, <1>4, BreakLinesKept
  <1>6. Text(bytes) = p
    BY <1>3, <1>5 DEF Text, Kept
  <1>7. Decode(p) = bytes
    BY <1>1, <1>2 DEF Decode, Read
  <1>8. Decoding(p)[n].bytes = bytes /\ Decoding(p)[0] = Empty
    BY <1>2, <1>7, DecodingSteps DEF Decode
  <1>9. Len(Decoding(p)[n].bytes) <= Len(Decoding(p)[0].bytes) + (n - 0)
    <2>1. 0 \in 0..n /\ n \in 0..n
      BY <1>4
    <2> QED
      BY <1>2, <2>1, ReadGrows
  <1>10. Empty.bytes = <<>> /\ Len(<<>>) = 0
    BY DEF Empty
  <1>11. Len(bytes) <= n
    <2>1. Len(Decoding(p)[0].bytes) = 0
      BY <1>8, <1>10
    <2>2. Len(bytes) <= 0 + (n - 0)
      BY <1>8, <1>9, <2>1
    <2> HIDE DEF n
    <2> QED
      BY <1>4, <2>2
  <1> QED
    BY <1>2, <1>6, <1>7, <1>11 DEF p, s

\* How long a text is depends on the number of bytes.
LEMMA TextLength ==
    ASSUME NEW x \in Seq(Byte), NEW y \in Seq(Byte), Len(x) = Len(y)
    PROVE  Len(Text(x)) = Len(Text(y))
  <1> DEFINE s == Finish(Encoding(x)[Len(x)])
             t == Finish(Encoding(y)[Len(y)])
  <1>1. Len(s) = Len(t) /\ s \in Seq(Digit) /\ t \in Seq(Digit)
    BY FinishShape, FinishDecodes
  <1>2. Text(x) = Pad(s) /\ Text(y) = Pad(t)
    BY TextFacts
  <1> HIDE DEF s, t
  <1>3. Len(Pad(s)) = Len(s) + Missing(Len(s)) /\ Len(Pad(t)) = Len(t) + Missing(Len(t))
    BY <1>1, PadFacts
  <1> QED
    BY <1>1, <1>2, <1>3

\* What a text decodes to is some bytes.
LEMMA DecodeType ==
    ASSUME NEW t \in Seq(Char)
    PROVE  Decode(t) \in Seq(Byte)
  <1>1. Len(t) \in 0..Len(t)
    BY LenProperties
  <1> QED
    BY <1>1, PortionDecodes

-----------------------------------------------------------------------------
(* Messages *)

\* Texts of messages have at most this many characters.
Sizable(size) ==
    /\ size \in Nat /\ size * (MaxCuts + 1) <= Window
    /\ \A m \in Typed \cup Answers : Len(Text([i \in 1..Len(m) |-> ZeroByte])) <= size

\* What is assumed of the bounds.
LEMMA Bounds ==
    /\ MaxLength \in Nat /\ Window \in Nat /\ MaxRequests \in Nat /\ MaxCuts \in Nat
    /\ \E size \in Nat : Sizable(size)
  <1>1. /\ {MaxLength, Window, MaxRequests, MaxCuts} \subseteq Nat
        /\ \E size \in 0..Window :
              /\ size * (MaxCuts + 1) <= Window
              /\ \A m \in Typed \cup Answers : Len(Text([i \in 1..Len(m) |-> ZeroByte])) <= size
    BY DialogueAssumption
  <1> QED
    BY <1>1 DEF Sizable

\* What is assumed of the messages.
LEMMA Messages ==
    ASSUME NEW m \in Typed \cup Answers
    PROVE  m \in Seq(Byte) /\ m # <<>> /\ Len(m) \in Nat /\ 0 < Len(m)
  <1>1. m \in Seq(Byte) /\ m # <<>>
    BY DialogueAssumption
  <1> QED
    BY <1>1, EmptySeq, LenProperties

\* The text of a message as a cipher enciphers it.
LEMMA MessageText ==
    ASSUME NEW m \in Typed \cup Answers, NEW bytes \in Seq(Byte), Len(bytes) = Len(m),
           NEW size, Sizable(size)
    PROVE  /\ Text(bytes) \in Texts /\ Len(Text(bytes)) \in Nat
           /\ 0 < Len(Text(bytes)) /\ Len(Text(bytes)) <= size
  <1> DEFINE zeros == [i \in 1..Len(m) |-> ZeroByte]
             t == Text(bytes)
  <1>1. m \in Seq(Byte) /\ Len(m) \in Nat /\ 0 < Len(m)
    BY Messages
  <1>2. ZeroByte \in Byte
    BY DEF ZeroByte, Byte, Bit
  <1>3. zeros \in [1..Len(m) -> Byte]
    BY <1>2
  <1>4. zeros \in Seq(Byte) /\ Len(zeros) = Len(m)
    BY <1>1, <1>3, FixedLength
  <1>5. Len(Text(zeros)) <= size
    BY DEF Sizable
  <1> HIDE DEF zeros
  <1>6. Len(t) = Len(Text(zeros))
    BY <1>4, TextLength
  <1>7. t \in Texts /\ Len(bytes) <= Len(t)
    BY TextFacts
  <1>8. Len(t) \in Nat
    BY <1>7, TextsAreRead
  <1> HIDE DEF t
  <1> QED
    BY <1>1, <1>5, <1>6, <1>7, <1>8 DEF t

\* A C string is what comes before the first zero byte.
LEMMA CStringFacts ==
    ASSUME NEW s \in Seq(Byte)
    PROVE  /\ CString(s) \in Seq(Byte) /\ Len(CString(s)) \in 0..Len(s)
           /\ \A i \in 1..Len(CString(s)) : CString(s)[i] = s[i]
           /\ \/ CString(s) = s
              \/ Len(CString(s)) < Len(s) /\ s[Len(CString(s)) + 1] = ZeroByte
  <1> DEFINE zeros == {i \in 1..Len(s) : s[i] = ZeroByte}
             least == CHOOSE i \in zeros : \A j \in zeros : i <= j
  <1>1. Len(s) \in Nat
    BY LenProperties
  <1>2. CASE zeros = {}
    <2>1. CString(s) = s
      BY <1>2 DEF CString
    <2> QED
      BY <1>1, <2>1
  <1>3. CASE zeros # {}
    <2>1. CString(s) = SubSeq(s, 1, least - 1)
      BY <1>3 DEF CString
    <2>2. least \in zeros
      <3>1. zeros \in SUBSET Nat
        BY <1>1
      <3> HIDE DEF zeros
      <3>2. \E i \in zeros : \A j \in zeros : i <= j
        BY <1>3, <3>1, LeastExists
      <3> QED
        BY <3>2
    <2> DEFINE n == least - 1
    <2>3. n \in 0..Len(s) /\ n < Len(s) /\ s[n + 1] = ZeroByte
      <3>1. least \in 1..Len(s) /\ s[least] = ZeroByte
        BY <2>2
      <3> HIDE DEF least
      <3>2. (least - 1) + 1 = least
        BY <1>1, <3>1
      <3> QED
        BY <1>1, <3>1, <3>2
    <2> HIDE DEF n
    <2>4. /\ SubSeq(s, 1, n) \in Seq(Byte) /\ Len(SubSeq(s, 1, n)) = n
          /\ \A i \in 1..n : SubSeq(s, 1, n)[i] = s[i]
      BY <2>3, Split
    <2>5. CString(s) = SubSeq(s, 1, n)
      BY <2>1 DEF n
    <2> QED
      BY <2>3, <2>4, <2>5
  <1> QED
    BY <1>2, <1>3

\* A request is understood up to a zero byte; nothing is cut off at the length of what was
\* read, where what was deciphered is not longer.
LEMMA UnderstoodFacts ==
    ASSUME NEW s \in Seq(Byte), NEW n \in Nat
    PROVE  /\ Understood(s, n) \in Seq(Byte)
           /\ Len(s) <= n => Understood(s, n) = CString(s)
           /\ \A i \in 1..Len(s) : i <= n /\ (\A j \in 1..i : s[j] # ZeroByte) =>
                 i <= Len(Understood(s, n)) /\ Understood(s, n)[i] = s[i]
  <1> DEFINE k == IF Len(s) < n THEN Len(s) ELSE n
             t == SubSeq(s, 1, k)
             c == CString(t)
  <1>1. Len(s) \in Nat /\ k \in 0..Len(s)
    BY LenProperties
  <1>2. Len(s) <= n => k = Len(s)
    BY <1>1
  <1>3. \A i \in 1..Len(s) : i <= n => i \in 1..k
    BY <1>1
  <1>4. Understood(s, n) = c
    BY DEF Understood
  <1> HIDE DEF k
  <1>5. /\ t \in Seq(Byte) /\ Len(t) = k /\ \A i \in 1..k : t[i] = s[i]
        /\ k = Len(s) => t = s
    BY <1>1, Split, SubSeqFull
  <1> HIDE DEF t
  <1>6. /\ c \in Seq(Byte) /\ Len(c) \in 0..k /\ \A i \in 1..Len(c) : c[i] = t[i]
        /\ c = t \/ (Len(c) < k /\ t[Len(c) + 1] = ZeroByte)
    BY <1>5, CStringFacts
  <1>7. Len(s) <= n => c = CString(s)
    BY <1>2, <1>5
  <1> HIDE DEF c
  <1>8. ASSUME NEW i \in 1..Len(s), i <= n, \A j \in 1..i : s[j] # ZeroByte
        PROVE  i <= Len(c) /\ c[i] = s[i]
    <2>1. i \in 1..k
      BY <1>3, <1>8
    <2>2. CASE c = t
      BY <1>1, <1>5, <2>1, <2>2
    <2>3. CASE Len(c) < k /\ t[Len(c) + 1] = ZeroByte
      <3> DEFINE l == Len(c)
      <3>1. l \in 0..k /\ l < k /\ l + 1 \in 1..k
        BY <1>1, <1>6, <2>3
      <3>2. s[l + 1] = ZeroByte
        BY <1>5, <2>3, <3>1
      <3> HIDE DEF l
      <3>3. ~(l + 1 \in 1..i)
        BY <1>8, <3>2
      <3>4. i <= l /\ i \in 1..l
        BY <1>1, <2>1, <3>1, <3>3
      <3> QED
        BY <1>5, <1>6, <2>1, <3>4 DEF l
    <2> QED
      BY <1>6, <2>2, <2>3
  <1> QED
    BY <1>4, <1>6, <1>7, <1>8

\* What a call of ProcessData makes of a cipher.
LEMMA Processed ==
    ASSUME NEW c \in Ciphers, NEW dir, NEW s \in Seq(Byte), NEW aligned
    PROVE  /\ ProcessData(c, dir, s, aligned) = Ran(Emptied(c), dir, s)
           /\ ProcessData(c, dir, s, aligned) \in Ciphers
           /\ ProcessData(c, dir, s, aligned).out \in Seq(Byte)
           /\ Len(ProcessData(c, dir, s, aligned).out) = Len(s)
  BY ProcessDataRuns, RanOut

\* Prefixes, element by element.
LEMMA PrefixFacts ==
    ASSUME NEW S, NEW s \in Seq(S), NEW t \in Seq(S), Len(s) <= Len(t),
           \A i \in 1..Len(s) : s[i] = t[i]
    PROVE  IsPrefix(s, t)
  <1> DEFINE p == SubSeq(t, 1, Len(s))
  <1>1. Len(s) \in 0..Len(t)
    BY LenProperties
  <1>2. p \in Seq(S) /\ Len(p) = Len(s) /\ \A i \in 1..Len(s) : p[i] = t[i]
    BY <1>1, Split
  <1> HIDE DEF p
  <1>3. p = s
    BY <1>2, SeqEqual
  <1>4. SubSeq(s, 1, Len(s)) = s
    BY SubSeqFull
  <1> QED
    BY <1>3, <1>4 DEF IsPrefix, p

-----------------------------------------------------------------------------
(* How much is on its way *)

Size == CHOOSE size \in Nat : Sizable(size)

\* n characters are no more than k messages have.
Within(n, k) == n <= k * Size

\* What is within k texts: one more text is within one more, a few are within what TCP
\* takes, and something is within one at least.
LEMMA Units ==
    /\ Size \in Nat /\ Sizable(Size)
    /\ \A n, l, k \in Nat : Within(n, k) /\ l <= Size => Within(n + l, k + 1)
    /\ \A n, k \in Nat : Within(n, k) /\ k <= MaxCuts + 1 => n <= Window
    /\ \A n, k \in Nat : Within(n, k) /\ 0 < n => 1 <= k
    /\ Within(0, 0)
  <1>1. Size \in Nat /\ Sizable(Size)
    BY Bounds DEF Size
  <1>2. Size * (MaxCuts + 1) <= Window /\ MaxCuts \in Nat /\ Window \in Nat
    BY <1>1, Bounds DEF Sizable
  <1>3. ASSUME NEW n \in Nat, NEW l \in Nat, NEW k \in Nat, Within(n, k), l <= Size
        PROVE  Within(n + l, k + 1)
    <2>1. n <= k * Size /\ k * Size \in Nat
      BY <1>1, <1>3 DEF Within
    <2>2. (k + 1) * Size = k * Size + Size
      BY <1>1
    <2> QED
      BY <1>1, <1>3, <2>1, <2>2 DEF Within
  <1>4. ASSUME NEW n \in Nat, NEW k \in Nat, Within(n, k), k <= MaxCuts + 1
        PROVE  n <= Window
    <2> DEFINE d == MaxCuts + 1 - k
    <2>1. d \in Nat /\ MaxCuts + 1 = k + d
      BY <1>2, <1>4
    <2> HIDE DEF d
    <2>2. Size * (k + d) = k * Size + Size * d /\ Size * d \in Nat /\ k * Size \in Nat
      BY <1>1, <2>1
    <2> QED
      BY <1>2, <1>4, <2>1, <2>2 DEF Within
  <1>5. ASSUME NEW n \in Nat, NEW k \in Nat, Within(n, k), 0 < n
        PROVE  1 <= k
    <2>1. CASE k = 0
      BY <1>1, <1>5, <2>1 DEF Within
    <2> QED
      BY <2>1
  <1>6. Within(0, 0)
    BY <1>1 DEF Within
  <1> QED
    BY <1>1, <1>3, <1>4, <1>5, <1>6

\* There are no more messages unread, whole or in part, than cuts, and one more while the
\* ATM waits.
OnItsWay(u, a) ==
    /\ Within(Len(line["up"]), u) /\ Within(Len(line["down"]), a)
    /\ u + a + (IF Len(typed) = Len(shown) THEN 1 ELSE 0) <= 1 + cuts

\* The ATM waits for one answer at a time, and only if there is something to come.
Waits ==
    /\ Len(typed) \in {Len(shown), Len(shown) + 1}
    /\ atm = "prompt" => Len(typed) = Len(shown)
    /\ atm = "waiting" => Len(typed) = Len(shown) + 1
    /\ atm = "waiting" => bank = "closed" \/ \E d \in Dirs : line[d] # <<>>

\* The inductive invariant for whatever does not depend on what is enciphered.
Base ==
    /\ DialogueTypeOK
    /\ \A d \in Dirs : line[d] \in Texts
    /\ \E u, a \in Nat : OnItsWay(u, a)
    /\ Waits

\* The invariant, taken apart.
LEMMA BaseFacts ==
    ASSUME Base
    PROVE  /\ "up" \in Dirs /\ "down" \in Dirs
           /\ \A d \in Dirs : /\ line[d] \in Texts /\ Len(line[d]) \in Nat
                              /\ sending[d] \in Ciphers /\ receiving[d] \in Ciphers
           /\ line \in [Dirs -> Seq(Char)]
           /\ typed \in Seq(Seq(Byte)) /\ heard \in Seq(Seq(Byte))
           /\ answered \in Seq(Seq(Byte)) /\ shown \in Seq(Seq(Byte))
           /\ Len(typed) \in Nat /\ Len(heard) \in Nat /\ Len(answered) \in Nat /\ Len(shown) \in Nat
           /\ MaxCuts \in Nat /\ cuts \in Nat /\ cuts <= MaxCuts
           /\ {fresh, spoilt} \subseteq BOOLEAN
  <1>1. DialogueTypeOK /\ \A d \in Dirs : line[d] \in Texts
    BY DEF Base
  <1>2. \A d \in Dirs : sending[d] \in Ciphers /\ receiving[d] \in Ciphers
    BY <1>1 DEF DialogueTypeOK
  <1>3. /\ typed \in Seq(Seq(Byte)) /\ heard \in Seq(Seq(Byte))
        /\ answered \in Seq(Seq(Byte)) /\ shown \in Seq(Seq(Byte))
    BY <1>1 DEF DialogueTypeOK
  <1>4. /\ Len(typed) \in Nat /\ Len(heard) \in Nat /\ Len(answered) \in Nat /\ Len(shown) \in Nat
    BY <1>3, LenProperties
  <1>5. MaxCuts \in Nat /\ cuts \in 0..MaxCuts /\ {fresh, spoilt} \subseteq BOOLEAN
    BY <1>1, Bounds DEF DialogueTypeOK
  <1>6. \A d \in Dirs : Len(line[d]) \in Nat
    BY <1>1, TextsAreRead
  <1>7. line \in [Dirs -> Seq(Char)] /\ "up" \in Dirs /\ "down" \in Dirs
    BY <1>1 DEF DialogueTypeOK, Dirs
  <1>8. cuts \in Nat /\ cuts <= MaxCuts
    BY <1>5
  <1> QED
    BY <1>1, <1>2, <1>3, <1>4, <1>5, <1>6, <1>7, <1>8

\* A message is sent: its text goes on behind what is on the line.
LEMMA Sends ==
    ASSUME Base, NEW d \in Dirs, NEW m \in Typed \cup Answers
    PROVE  /\ Enciphered(d, m) = Ran(Emptied(sending[d]), "encrypt", m)
           /\ Enciphered(d, m) \in Ciphers
           /\ Enciphered(d, m).out \in Seq(Byte) /\ Len(Enciphered(d, m).out) = Len(m)
           /\ Text(Enciphered(d, m).out) \in Texts
           /\ Len(Text(Enciphered(d, m).out)) \in 1..Size
           /\ line[d] \o Text(Enciphered(d, m).out) \in Texts
           /\ Len(line[d] \o Text(Enciphered(d, m).out))
                  = Len(line[d]) + Len(Text(Enciphered(d, m).out))
  <1> DEFINE c == Enciphered(d, m)
             t == Text(c.out)
  <1>1. sending[d] \in Ciphers /\ line[d] \in Texts
    BY BaseFacts
  <1>2. m \in Seq(Byte)
    BY Messages
  <1>3. /\ c = Ran(Emptied(sending[d]), "encrypt", m)
        /\ c \in Ciphers /\ c.out \in Seq(Byte) /\ Len(c.out) = Len(m)
    <2> DEFINE k == sending[d]
               dir == "encrypt"
               aligned == FALSE
    <2>1. k \in Ciphers /\ c = ProcessData(k, dir, m, aligned)
      BY <1>1 DEF Enciphered
    <2> HIDE DEF k, c, dir, aligned
    <2>2. /\ ProcessData(k, dir, m, aligned) = Ran(Emptied(k), dir, m)
          /\ ProcessData(k, dir, m, aligned) \in Ciphers
          /\ ProcessData(k, dir, m, aligned).out \in Seq(Byte)
          /\ Len(ProcessData(k, dir, m, aligned).out) = Len(m)
      BY <1>2, <2>1, Processed
    <2> QED
      BY <2>1, <2>2 DEF k, dir
  <1> HIDE DEF c
  <1>4. t \in Texts /\ Len(t) \in Nat /\ 0 < Len(t) /\ Len(t) <= Size /\ Size \in Nat
    BY <1>3, Units, MessageText
  <1> HIDE DEF t
  <1>5. line[d] \o t \in Texts /\ Len(line[d] \o t) = Len(line[d]) + Len(t)
    BY <1>1, <1>4, ConcatProperties DEF Texts
  <1>6. Len(t) \in 1..Size
    BY <1>4
  <1> QED
    BY <1>3, <1>4, <1>5, <1>6 DEF c, t

\* Some characters are read, all of them or, with another cut, a part.
LEMMA Reads ==
    ASSUME Base, NEW d \in Dirs, NEW n \in Arrived(d), Count(d, n)
    PROVE  /\ n \in 1..Len(line[d]) /\ n \in 0..Len(line[d])
           /\ Got(d, n) \in Texts
           /\ Rest(d, n)[d] \in Texts /\ Len(Rest(d, n)[d]) = Len(line[d]) - n
           /\ Rest(d, n) \in [Dirs -> Seq(Char)]
           /\ \A e \in Dirs \ {d} : Rest(d, n)[e] = line[e]
           /\ cuts' \in Nat /\ cuts' <= MaxCuts
           /\ (cuts' = cuts /\ n = Len(line[d])) \/ cuts' = cuts + 1
  <1>1. /\ line[d] \in Texts /\ Len(line[d]) \in Nat /\ line \in [Dirs -> Seq(Char)]
        /\ MaxCuts \in Nat /\ cuts \in Nat /\ cuts <= MaxCuts
    BY BaseFacts
  <1>2. n \in 1..Len(line[d]) /\ (n = Len(line[d]) \/ cuts < MaxCuts)
    BY DEF Arrived
  <1>3. n \in 0..Len(line[d])
    BY <1>1, <1>2
  <1> DEFINE r == SubSeq(line[d], n + 1, Len(line[d]))
  <1>4. Got(d, n) \in Texts /\ r \in Texts /\ Len(r) = Len(line[d]) - n
    BY <1>1, <1>3, Split DEF Got, Texts
  <1>5. Rest(d, n) = [line EXCEPT ![d] = r]
    BY DEF Rest
  <1> HIDE DEF r
  <1>6. r \in Seq(Char)
    BY <1>4, TextsAreRead
  <1>7. /\ Rest(d, n)[d] = r /\ \A e \in Dirs \ {d} : Rest(d, n)[e] = line[e]
        /\ Rest(d, n) \in [Dirs -> Seq(Char)]
    BY <1>1, <1>5, <1>6
  <1>8. cuts' = IF n < Len(line[d]) THEN cuts + 1 ELSE cuts
    BY DEF Count
  <1>9. /\ cuts' \in Nat /\ cuts' <= MaxCuts
        /\ (cuts' = cuts /\ n = Len(line[d])) \/ cuts' = cuts + 1
    BY <1>1, <1>2, <1>8
  <1> QED
    BY <1>2, <1>3, <1>4, <1>7, <1>9

\* The texts on their way are one more than the cuts at most, so TCP takes them.
LEMMA FewUnits ==
    ASSUME NEW u \in Nat, NEW a \in Nat, NEW x \in {0, 1}, NEW c \in Nat, c <= MaxCuts,
           u + a + x <= 1 + c
    PROVE  u <= MaxCuts + 1 /\ a <= MaxCuts + 1
  BY Bounds

\* What Base comes to after a step.
LEMMA BaseAgain ==
    ASSUME line' \in [Dirs -> Seq(Char)], \A d \in Dirs : line'[d] \in Texts,
           NEW u \in Nat, NEW a \in Nat, OnItsWay(u, a)',
           cuts' \in Nat, cuts' <= MaxCuts, Waits',
           atm' \in {"prompt", "waiting", "gone"}, bank' \in {"reading", "writing", "closed"},
           {fresh', spoilt'} \subseteq BOOLEAN,
           sending' \in [Dirs -> Ciphers], receiving' \in [Dirs -> Ciphers],
           typed' \in Seq(Seq(Byte)), heard' \in Seq(Seq(Byte)),
           answered' \in Seq(Seq(Byte)), shown' \in Seq(Seq(Byte))
    PROVE  Base'
  <1>1. MaxCuts \in Nat /\ Window \in Nat
    BY Bounds
  <1>2. \A d \in Dirs : Len(line'[d]) <= Window
    <2> DEFINE m == Len(line'["up"])
               n == Len(line'["down"])
    <2>1. "up" \in Dirs /\ "down" \in Dirs /\ \A d \in Dirs : d = "up" \/ d = "down"
      BY DEF Dirs
    <2>2. m \in Nat /\ n \in Nat
      BY <2>1, TextsAreRead
    <2>3. /\ Within(m, u) /\ Within(n, a)
          /\ u + a + (IF Len(typed') = Len(shown') THEN 1 ELSE 0) <= 1 + cuts'
      BY DEF OnItsWay
    <2>4. u <= MaxCuts + 1 /\ a <= MaxCuts + 1
      <3> DEFINE x == IF Len(typed') = Len(shown') THEN 1 ELSE 0
                 c == cuts'
      <3>1. x \in {0, 1} /\ u + a + x <= 1 + c /\ c \in Nat /\ c <= MaxCuts
        BY <2>3
      <3> HIDE DEF x, c
      <3> QED
        BY <3>1, FewUnits
    <2> HIDE DEF m, n
    <2>5. m <= Window /\ n <= Window
      BY <2>2, <2>3, <2>4, Units
    <2> QED
      BY <2>1, <2>5 DEF m, n
  <1>3. cuts' \in 0..MaxCuts
    BY <1>1
  <1>4. DialogueTypeOK'
    BY <1>2, <1>3 DEF DialogueTypeOK
  <1> QED
    BY <1>4 DEF Base

\* Nothing is on its way at first.
LEMMA BaseInit ==
    ASSUME DialogueInit
    PROVE  Base
  <1>1. Resynchronize(IV) \in Ciphers
    <2> DEFINE c == [reg |-> IV, left |-> 0, out |-> <<>>]
    <2>1. 0 \in 0..BlockSize /\ IV \in Block /\ <<>> \in Seq(Byte)
      BY BlockNumbers, DialogueAssumption, EmptySeq
    <2>2. c \in Ciphers
      BY <2>1 DEF Ciphers
    <2>3. Resynchronize(IV) = Transform(c)
      BY DEF Resynchronize
    <2> HIDE DEF c
    <2> QED
      BY <2>2, <2>3, TransformFacts
  <1>2. /\ <<>> \in Seq(Seq(Byte)) /\ <<>> \in Seq(Char) /\ <<>> \in Texts /\ Len(<<>>) = 0
        /\ 0 \in 0..MaxCuts /\ 0 <= Window
    BY EmptySeq, Bounds DEF Texts
  <1>3. /\ line = [d \in Dirs |-> <<>>] /\ sending = [d \in Dirs |-> Resynchronize(IV)]
        /\ receiving = [d \in Dirs |-> Resynchronize(IV)]
        /\ typed = <<>> /\ heard = <<>> /\ answered = <<>> /\ shown = <<>>
        /\ cuts = 0 /\ fresh = TRUE /\ spoilt = FALSE /\ atm = "prompt" /\ bank = "reading"
    BY DEF DialogueInit
  <1>4. \A d \in Dirs : line[d] = <<>>
    BY <1>3
  <1>5. DialogueTypeOK
    <2>1. /\ line \in [Dirs -> Seq(Char)] /\ \A d \in Dirs : Len(line[d]) <= Window
      BY <1>2, <1>3, <1>4
    <2>2. sending \in [Dirs -> Ciphers] /\ receiving \in [Dirs -> Ciphers]
      BY <1>1, <1>3
    <2>3. \A h \in {typed, heard, answered, shown} : h \in Seq(Seq(Byte))
      BY <1>2, <1>3
    <2>4. /\ atm \in {"prompt", "waiting", "gone"} /\ bank \in {"reading", "writing", "closed"}
          /\ {fresh, spoilt} \subseteq BOOLEAN /\ cuts \in 0..MaxCuts
      BY <1>2, <1>3
    <2> QED
      BY <2>1, <2>2, <2>3, <2>4 DEF DialogueTypeOK
  <1>6. Waits
    BY <1>2, <1>3 DEF Waits
  <1>7. OnItsWay(0, 0)
    <2>1. "up" \in Dirs /\ "down" \in Dirs
      BY DEF Dirs
    <2>2. Len(line["up"]) = 0 /\ Len(line["down"]) = 0 /\ Len(typed) = Len(shown)
      BY <1>2, <1>3, <1>4, <2>1
    <2> QED
      BY <1>3, <2>2, Units DEF OnItsWay
  <1>8. \A d \in Dirs : line[d] \in Texts
    BY <1>2, <1>4
  <1> QED
    BY <1>5, <1>6, <1>7, <1>8 DEF Base

\* A request goes behind what is on its way to the bank.
LEMMA BaseType ==
    ASSUME Base, Type
    PROVE  Base'
  <1>1. PICK m \in Typed :
           /\ typed' = Append(typed, m)
           /\ sending' = [sending EXCEPT !["up"] = Enciphered("up", m)]
           /\ line' = IF bank = "closed" THEN line
                      ELSE [line EXCEPT !["up"] = @ \o Text(Enciphered("up", m).out)]
    BY DEF Type
  <1>2. /\ atm = "prompt" /\ atm' = "waiting"
        /\ bank' = bank /\ fresh' = fresh /\ receiving' = receiving /\ heard' = heard
        /\ answered' = answered /\ shown' = shown /\ cuts' = cuts /\ spoilt' = spoilt
    BY DEF Type
  <1> DEFINE c == Enciphered("up", m)
             t == Text(c.out)
             l == line["up"] \o t
  <1>3. m \in Typed \cup Answers /\ m \in Seq(Byte)
    BY Messages
  <1>4. DialogueTypeOK /\ Waits /\ \E u, a \in Nat : OnItsWay(u, a)
    BY DEF Base
  <1>5. PICK u \in Nat, a \in Nat : OnItsWay(u, a)
    BY <1>4
  <1>6. "up" \in Dirs /\ "down" \in Dirs /\ \A d \in Dirs : d = "up" \/ d = "down"
    BY DEF Dirs
  <1>7. c \in Ciphers /\ Len(t) \in 1..Size /\ l \in Texts /\ Len(l) = Len(line["up"]) + Len(t)
    BY <1>3, <1>6, Sends
  <1> HIDE DEF c, t, l
  <1>8. /\ line["up"] \in Texts /\ line["down"] \in Texts /\ line \in [Dirs -> Seq(Char)]
        /\ Len(line["up"]) \in Nat /\ Len(line["down"]) \in Nat
        /\ Len(typed) \in Nat /\ Len(shown) \in Nat /\ cuts \in Nat /\ cuts <= MaxCuts
        /\ typed \in Seq(Seq(Byte))
    BY <1>6, BaseFacts
  <1>9. typed' \in Seq(Seq(Byte)) /\ Len(typed') = Len(typed) + 1
    BY <1>1, <1>3, <1>8, AppendProperties
  <1>10. Len(typed) = Len(shown)
    BY <1>2, <1>4 DEF Waits
  <1>11. sending' \in [Dirs -> Ciphers]
    BY <1>1, <1>4, <1>7 DEF c, DialogueTypeOK
  <1>12. Size \in Nat /\ u + a + 1 <= 1 + cuts /\ Within(Len(line["up"]), u) /\ Within(Len(line["down"]), a)
    BY <1>5, <1>10, Units DEF OnItsWay
  <1>13. CASE bank = "closed"
    <2>1. line' = line
      BY <1>1, <1>13
    <2>2. OnItsWay(u, a)'
      BY <1>2, <1>8, <1>9, <1>10, <1>12, <2>1 DEF OnItsWay
    <2>3. Waits'
      BY <1>2, <1>8, <1>9, <1>10, <1>13 DEF Waits
    <2> QED
      BY <1>2, <1>4, <1>6, <1>8, <1>9, <1>11, <2>1, <2>2, <2>3, BaseAgain DEF DialogueTypeOK
  <1>14. CASE bank # "closed"
    <2>1. line' = [line EXCEPT !["up"] = l]
      BY <1>1, <1>14 DEF l, t, c
    <2>2. l \in Seq(Char) /\ Len(l) \in Nat
      BY <1>7, TextsAreRead
    <2>3. /\ line'["up"] = l /\ line'["down"] = line["down"] /\ line' \in [Dirs -> Seq(Char)]
          /\ \A d \in Dirs : line'[d] \in Texts
      BY <1>6, <1>7, <1>8, <2>1, <2>2
    <2>4. Within(Len(l), u + 1)
      <3> DEFINE n == Len(line["up"])
                 k == Len(t)
      <3>1. n \in Nat /\ k \in Nat /\ k <= Size /\ Within(n, u)
        BY <1>7, <1>8, <1>12
      <3> HIDE DEF n, k
      <3>2. Within(n + k, u + 1)
        BY <3>1, Units
      <3> QED
        BY <1>7, <3>2 DEF n, k
    <2> DEFINE v == u + 1
    <2>5. v \in Nat /\ OnItsWay(v, a)'
      <3>1. Len(typed') # Len(shown')
        BY <1>2, <1>8, <1>9, <1>10
      <3>2. v \in Nat /\ v + a <= 1 + cuts' /\ v + a + 0 = v + a
        BY <1>2, <1>8, <1>12
      <3>3. Within(Len(line'["up"]), v) /\ Within(Len(line'["down"]), a)
        BY <1>12, <2>3, <2>4
      <3> HIDE DEF v
      <3> QED
        BY <3>1, <3>2, <3>3 DEF OnItsWay
    <2> HIDE DEF v
    <2>6. l # <<>>
      <3>1. 0 < Len(l)
        BY <1>7, <1>8
      <3> QED
        BY <3>1, EmptySeq
    <2>7. Waits'
      BY <1>2, <1>6, <1>8, <1>9, <1>10, <2>3, <2>6 DEF Waits
    <2> QED
      BY <1>2, <1>4, <1>6, <1>8, <1>9, <1>11, <2>3, <2>5, <2>7, BaseAgain DEF DialogueTypeOK
  <1> QED
    BY <1>13, <1>14

\* What is read is decoded and deciphered.
LEMMA Receives ==
    ASSUME Base, NEW d \in Dirs, NEW t \in Seq(Char)
    PROVE  /\ Deciphered(d, t) = Ran(Emptied(receiving[d]), "decrypt", Decode(t))
           /\ Deciphered(d, t) \in Ciphers
           /\ Deciphered(d, t).out \in Seq(Byte) /\ Len(Deciphered(d, t).out) = Len(Decode(t))
  <1> DEFINE k == receiving[d]
             c == Deciphered(d, t)
             dir == "decrypt"
             aligned == TRUE
             m == Decode(t)
  <1>1. k \in Ciphers /\ m \in Seq(Byte) /\ c = ProcessData(k, dir, m, aligned)
    BY BaseFacts, DecodeType DEF Deciphered
  <1> HIDE DEF k, c, dir, aligned, m
  <1>2. /\ ProcessData(k, dir, m, aligned) = Ran(Emptied(k), dir, m)
        /\ ProcessData(k, dir, m, aligned) \in Ciphers
        /\ ProcessData(k, dir, m, aligned).out \in Seq(Byte)
        /\ Len(ProcessData(k, dir, m, aligned).out) = Len(m)
    BY <1>1, Processed
  <1> QED
    BY <1>1, <1>2 DEF k, c, dir, m

\* A read takes an answer, or cuts one and leaves the rest on its way.
LEMMA BaseShow ==
    ASSUME Base, Show
    PROVE  Base'
  <1>1. PICK n \in Arrived("down") :
           /\ receiving' = [receiving EXCEPT !["down"] = Deciphered("down", Got("down", n))]
           /\ shown' = Append(shown, Deciphered("down", Got("down", n)).out)
           /\ line' = Rest("down", n)
           /\ Count("down", n)
           /\ atm' = "prompt"
           /\ UNCHANGED <<bank, fresh, sending, typed, heard, answered, spoilt>>
    BY DEF Show
  <1>2. /\ atm = "waiting" /\ bank' = bank /\ fresh' = fresh /\ sending' = sending
        /\ typed' = typed /\ heard' = heard /\ answered' = answered /\ spoilt' = spoilt
    BY <1>1 DEF Show
  <1> DEFINE c == Deciphered("down", Got("down", n))
             l == line["down"]
             r == line'["down"]
  <1>3. DialogueTypeOK /\ Waits /\ \E u, a \in Nat : OnItsWay(u, a)
    BY DEF Base
  <1>4. PICK u \in Nat, a \in Nat : OnItsWay(u, a)
    BY <1>3
  <1>5. "up" \in Dirs /\ "down" \in Dirs /\ \A d \in Dirs : d = "up" \/ d = "down"
    BY DEF Dirs
  <1>6. /\ n \in 1..Len(l) /\ Got("down", n) \in Texts
        /\ r \in Texts /\ Len(r) = Len(l) - n /\ line' \in [Dirs -> Seq(Char)]
        /\ line'["up"] = line["up"]
        /\ cuts' \in Nat /\ cuts' <= MaxCuts
        /\ (cuts' = cuts /\ n = Len(l)) \/ cuts' = cuts + 1
    BY <1>1, <1>5, Reads
  <1>7. /\ line["up"] \in Texts /\ l \in Texts /\ Len(line["up"]) \in Nat /\ Len(l) \in Nat
        /\ Len(typed) \in Nat /\ Len(shown) \in Nat /\ cuts \in Nat /\ shown \in Seq(Seq(Byte))
    BY <1>5, BaseFacts
  <1>8. c \in Ciphers /\ c.out \in Seq(Byte)
    BY <1>5, <1>6, TextsAreRead, Receives
  <1> HIDE DEF c
  <1>9. receiving' \in [Dirs -> Ciphers]
    BY <1>1, <1>3, <1>8 DEF c, DialogueTypeOK
  <1>10. shown' \in Seq(Seq(Byte)) /\ Len(shown') = Len(shown) + 1
    BY <1>1, <1>7, <1>8, AppendProperties DEF c
  <1>11. Len(typed) = Len(shown) + 1
    BY <1>2, <1>3 DEF Waits
  <1>12. \A d \in Dirs : line'[d] \in Texts
    BY <1>5, <1>6, <1>7
  <1>13. /\ u + a <= 1 + cuts /\ Within(Len(line["up"]), u) /\ Within(Len(l), a)
    <2>1. Len(typed) # Len(shown)
      BY <1>7, <1>11
    <2> QED
      BY <1>4, <2>1 DEF OnItsWay
  <1>14. Waits'
    BY <1>1, <1>2, <1>10, <1>11 DEF Waits
  <1>15. Len(typed') = Len(shown')
    BY <1>2, <1>10, <1>11
  <1>16. \E b \in Nat : OnItsWay(u, b)'
    <2> DEFINE j == Len(l)
               k == Len(r)
    <2>1. j \in Nat /\ n \in 1..j /\ k = j - n /\ Within(j, a)
      BY <1>6, <1>7, <1>13
    <2>2. Within(Len(line'["up"]), u)
      BY <1>6, <1>13
    <2> HIDE DEF j
    <2>3. CASE cuts' = cuts /\ n = j
      <3>1. k = 0 /\ 1 <= a
        BY <2>1, <2>3, Units
      <3>2. Within(k, 0)
        BY <3>1, Units
      <3>3. u + 0 + 1 <= 1 + cuts'
        BY <1>7, <1>13, <2>3, <3>1
      <3>4. OnItsWay(u, 0)'
        BY <1>15, <2>2, <3>2, <3>3 DEF OnItsWay
      <3> QED
        BY <3>4
    <2>4. CASE cuts' = cuts + 1
      <3>1. k \in Nat /\ k <= j
        BY <2>1
      <3>2. Within(k, a)
        <4> HIDE DEF k
        <4>1. Size \in Nat /\ a * Size \in Nat
          BY Units
        <4> QED
          BY <2>1, <3>1, <4>1 DEF Within
      <3>3. u + a + 1 <= 1 + cuts'
        BY <1>7, <1>13, <2>4
      <3>4. OnItsWay(u, a)'
        BY <1>15, <2>2, <3>2, <3>3 DEF OnItsWay
      <3> QED
        BY <3>4
    <2> QED
      BY <1>6, <2>3, <2>4 DEF j
  <1>17. PICK b \in Nat : OnItsWay(u, b)'
    BY <1>16
  <1> QED
    BY <1>1, <1>2, <1>3, <1>6, <1>9, <1>10, <1>12, <1>14, <1>17, BaseAgain DEF DialogueTypeOK

\* Steps that do not touch the lines, the ciphers and what was sent and read.
LEMMA BaseQuiet ==
    ASSUME Base, Disconnected \/ Quit \/ Written \/ EndOfFile
    PROVE  Base'
  <1>1. DialogueTypeOK /\ Waits /\ \E u, a \in Nat : OnItsWay(u, a)
    BY DEF Base
  <1>2. PICK u \in Nat, a \in Nat : OnItsWay(u, a)
    BY <1>1
  <1>3. UNCHANGED <<fresh, line, ciphers, histories>>
    BY DEF Disconnected, Quit, Written, EndOfFile
  <1>4. /\ line' = line /\ fresh' = fresh /\ sending' = sending /\ receiving' = receiving
        /\ typed' = typed /\ heard' = heard /\ answered' = answered /\ shown' = shown
        /\ cuts' = cuts /\ spoilt' = spoilt
    BY <1>3 DEF ciphers, histories
  <1>5. OnItsWay(u, a)'
    BY <1>2, <1>4 DEF OnItsWay
  <1>6. /\ atm' \in {"prompt", "waiting", "gone"} /\ bank' \in {"reading", "writing", "closed"}
        /\ atm' = atm \/ atm' = "gone"
        /\ bank' = bank \/ bank' = "closed" \/ bank = "writing"
    BY <1>1 DEF Disconnected, Quit, Written, EndOfFile, DialogueTypeOK
  <1>7. Waits'
    BY <1>1, <1>4, <1>6 DEF Waits
  <1>8. /\ \A d \in Dirs : line[d] \in Texts
        /\ line \in [Dirs -> Seq(Char)] /\ cuts \in Nat /\ cuts <= MaxCuts
    BY BaseFacts
  <1> QED
    BY <1>1, <1>4, <1>5, <1>6, <1>7, <1>8, BaseAgain DEF DialogueTypeOK

\* What is behind the text is characters.
LEMMA BehindType ==
    ASSUME NEW tail \in Behind
    PROVE  tail \in Seq(Char)
  <1>1. Tails \subseteq Seq(Char) /\ <<>> \in Seq(Char)
    BY DialogueAssumption, EmptySeq
  <1> QED
    BY <1>1 DEF Behind

\* A request is heard: there is room for one message more.
LEMMA Hears ==
    ASSUME Base, NEW n \in Arrived("up"), NEW tail \in Behind, Hear(n, tail)
    PROVE  /\ Got("up", n) \o tail \in Seq(Char)
           /\ receiving' \in [Dirs -> Ciphers]
           /\ heard' \in Seq(Seq(Byte)) /\ Len(heard') = Len(heard) + 1
           /\ {fresh', spoilt'} \subseteq BOOLEAN
           /\ \E u, a \in Nat :
                 /\ Within(Len(line["up"]) - n, u) /\ Within(Len(line["down"]), a)
                 /\ u + a + (IF Len(typed) = Len(shown) THEN 1 ELSE 0) <= cuts'
  <1> DEFINE l == line["up"]
             s == Got("up", n) \o tail
             c == Deciphered("up", s)
             x == IF Len(typed) = Len(shown) THEN 1 ELSE 0
  <1>1. /\ receiving' = [receiving EXCEPT !["up"] = c]
        /\ heard' = Append(heard, Understood(c.out, n))
        /\ spoilt' = (spoilt \/ \E i \in 1..Len(tail) : tail[i] \in Digit)
        /\ fresh' = FALSE /\ Count("up", n)
    BY DEF Hear
  <1>2. "up" \in Dirs /\ "down" \in Dirs
    BY DEF Dirs
  <1>3. /\ n \in 1..Len(l) /\ Got("up", n) \in Texts
        /\ cuts' \in Nat /\ ((cuts' = cuts /\ n = Len(l)) \/ cuts' = cuts + 1)
    BY <1>1, <1>2, Reads
  <1>4. /\ Len(l) \in Nat /\ Len(line["down"]) \in Nat /\ cuts \in Nat /\ heard \in Seq(Seq(Byte))
        /\ Len(typed) \in Nat /\ Len(shown) \in Nat
    BY <1>2, BaseFacts
  <1>5. s \in Seq(Char)
    BY <1>3, BehindType, TextsAreRead, ConcatProperties
  <1> HIDE DEF s
  <1>6. c \in Ciphers /\ c.out \in Seq(Byte)
    BY <1>2, <1>5, Receives
  <1> HIDE DEF c
  <1>7. n \in Nat
    BY <1>3, <1>4
  <1>8. Understood(c.out, n) \in Seq(Byte)
    <2> DEFINE o == c.out
    <2>1. o \in Seq(Byte)
      BY <1>6
    <2> HIDE DEF o
    <2>2. Understood(o, n) \in Seq(Byte)
      BY <1>7, <2>1, UnderstoodFacts
    <2> QED
      BY <2>2 DEF o
  <1>9. receiving' \in [Dirs -> Ciphers]
    BY <1>1, <1>6 DEF Base, DialogueTypeOK
  <1>10. heard' \in Seq(Seq(Byte)) /\ Len(heard') = Len(heard) + 1
    BY <1>1, <1>4, <1>8, AppendProperties
  <1>11. {fresh', spoilt'} \subseteq BOOLEAN
    <2>1. spoilt' \in BOOLEAN
      BY <1>1, Zenon
    <2> QED
      BY <1>1, <2>1
  <1>12. PICK u \in Nat, a \in Nat : OnItsWay(u, a)
    BY DEF Base
  <1>13. \E v, b \in Nat : Within(Len(l) - n, v) /\ Within(Len(line["down"]), b) /\ v + b + x <= cuts'
    <2> DEFINE j == Len(l)
               k == j - n
               i == Len(line["down"])
    <2>1. j \in Nat /\ n \in 1..j /\ Within(j, u) /\ Within(i, a) /\ u + a + x <= 1 + cuts /\ x \in Nat
      BY <1>3, <1>4, <1>12 DEF OnItsWay
    <2>2. (cuts' = cuts /\ n = j) \/ cuts' = cuts + 1
      BY <1>3
    <2> HIDE DEF j, i, x
    <2>3. CASE cuts' = cuts /\ n = j
      <3>1. k = 0 /\ 1 <= u
        BY <2>1, <2>3, Units
      <3>2. Within(k, 0)
        BY <3>1, Units
      <3>3. 0 + a + x <= cuts'
        BY <1>4, <2>1, <2>3, <3>1
      <3>4. Within(Len(l) - n, 0) /\ Within(Len(line["down"]), a)
        BY <2>1, <3>2 DEF j, i
      <3> QED
        BY <3>3, <3>4
    <2>4. CASE cuts' = cuts + 1
      <3>1. k \in Nat /\ k <= j
        BY <2>1
      <3>2. Within(k, u)
        <4> HIDE DEF k
        <4>1. Size \in Nat /\ u * Size \in Nat
          BY Units
        <4> QED
          BY <2>1, <3>1, <4>1 DEF Within
      <3>3. u + a + x <= cuts'
        BY <1>4, <2>1, <2>4
      <3>4. Within(Len(l) - n, u) /\ Within(Len(line["down"]), a)
        BY <2>1, <3>2 DEF j, i
      <3> QED
        BY <3>3, <3>4
    <2> QED
      BY <2>2, <2>3, <2>4 DEF j, i
  <1> QED
    BY <1>5, <1>9, <1>10, <1>11, <1>13 DEF s

\* An answer is sent whole, before data_ is cleared.
LEMMA AnswerIsSent ==
    ASSUME Base, Answer
    PROVE  \E n \in Arrived("up"), tail \in Behind, a \in Answers :
              /\ Understood(Deciphered("up", Got("up", n) \o tail).out, n) \in Valid
              /\ Hear(n, tail)
              /\ answered' = Append(answered, a)
              /\ sending' = [sending EXCEPT !["down"] = Enciphered("down", a)]
              /\ line' = [Rest("up", n) EXCEPT !["down"] =
                             line["down"] \o Text(Enciphered("down", a).out)]
              /\ \E v, b \in Nat : OnItsWay(v, b)'
  <1>1. PICK n \in Arrived("up"), tail \in Behind, a \in Answers :
          /\ Understood(Deciphered("up", Got("up", n) \o tail).out, n) \in Valid
          /\ Hear(n, tail)
          /\ answered' = Append(answered, a)
          /\ sending' = [sending EXCEPT !["down"] = Enciphered("down", a)]
          /\ line' = [Rest("up", n) EXCEPT !["down"] =
                 @ \o [i \in 1..Len(Text(Enciphered("down", a).out)) |->
                          IF i <= Window - Len(line["down"])
                          THEN Text(Enciphered("down", a).out)[i] ELSE Nul]]
          /\ UNCHANGED <<atm, typed, shown>>
    BY DEF Answer
  <1> DEFINE t == Text(Enciphered("down", a).out)
             l == line["down"]
             room == Window - Len(l)
             cut == [i \in 1..Len(t) |-> IF i <= room THEN t[i] ELSE Nul]
             x == IF Len(typed) = Len(shown) THEN 1 ELSE 0
  <1>2. "up" \in Dirs /\ "down" \in Dirs /\ a \in Typed \cup Answers
    BY DEF Dirs
  <1>3. t \in Texts /\ Len(t) \in 1..Size /\ l \o t \in Texts /\ Len(l \o t) = Len(l) + Len(t)
    BY <1>2, Sends
  <1>4. Count("up", n)
    BY <1>1 DEF Hear
  <1>5. /\ Rest("up", n)["down"] = l /\ Len(Rest("up", n)["up"]) = Len(line["up"]) - n
        /\ Rest("up", n) \in [Dirs -> Seq(Char)] /\ cuts' \in Nat /\ cuts' <= MaxCuts
    BY <1>2, <1>4, Reads
  <1>6. PICK v \in Nat, b \in Nat :
           Within(Len(line["up"]) - n, v) /\ Within(Len(l), b) /\ v + b + x <= cuts'
    BY <1>1, Hears
  <1>7. Len(l) \in Nat /\ Size \in Nat /\ MaxCuts \in Nat
    BY <1>2, BaseFacts, Units
  <1> HIDE DEF t
  <1>8. Within(Len(l) + Len(t), b + 1)
    <2> DEFINE j == Len(l)
               k == Len(t)
    <2>1. j \in Nat /\ k \in Nat /\ k <= Size /\ Within(j, b)
      BY <1>3, <1>6, <1>7
    <2> HIDE DEF j, k
    <2>2. Within(j + k, b + 1)
      BY <2>1, Units
    <2> QED
      BY <2>2 DEF j, k
  <1>9. Len(l) + Len(t) <= Window
    <2> DEFINE j == Len(l) + Len(t)
               k == b + 1
    <2>1. j \in Nat /\ k \in Nat
      BY <1>3, <1>7
    <2>2. k <= MaxCuts + 1
      <3> DEFINE m == cuts'
      <3>1. x \in {0, 1} /\ m \in Nat /\ m <= MaxCuts /\ v + b + x <= m
        BY <1>5, <1>6
      <3> HIDE DEF x, m
      <3>2. b <= MaxCuts
        BY <1>7, <3>1
      <3> QED
        BY <1>7, <3>2
    <2>3. Within(j, k)
      BY <1>8
    <2> HIDE DEF j, k
    <2>4. j <= Window
      BY <2>1, <2>2, <2>3, Units
    <2> QED
      BY <2>4 DEF j
  <1>10. cut = t
    <2>1. \A i \in 1..Len(t) : i <= room
      BY <1>3, <1>7, <1>9, Bounds
    <2>2. t = [i \in 1..Len(t) |-> t[i]]
      BY <1>3, LenProperties DEF Texts
    <2> HIDE DEF room
    <2>3. cut = [i \in 1..Len(t) |-> t[i]]
      BY <2>1
    <2> QED
      BY <2>2, <2>3
  <1>11. line' = [Rest("up", n) EXCEPT !["down"] = @ \o cut]
    BY <1>1 DEF t
  <1> HIDE DEF cut
  <1>12. line' = [Rest("up", n) EXCEPT !["down"] = l \o t]
    BY <1>5, <1>10, <1>11
  <1>13. line'["down"] = l \o t /\ line'["up"] = Rest("up", n)["up"]
    BY <1>2, <1>5, <1>12
  <1> DEFINE k == b + 1
  <1>14. OnItsWay(v, k)'
    <2>1. Within(Len(line'["up"]), v) /\ Within(Len(line'["down"]), k)
      BY <1>3, <1>5, <1>6, <1>8, <1>13
    <2>2. x' = x
      BY <1>1
    <2>3. v + k + x' <= 1 + cuts'
      <3> DEFINE m == cuts'
                 y == x'
      <3>1. x \in {0, 1} /\ m \in Nat /\ v + b + x <= m /\ y = x
        BY <1>5, <1>6, <2>2
      <3> HIDE DEF x, m, y
      <3>2. v + k + y <= 1 + m
        BY <3>1
      <3> QED
        BY <3>2 DEF m, y
    <2> QED
      BY <2>1, <2>3 DEF OnItsWay
  <1>15. k \in Nat
    OBVIOUS
  <1> HIDE DEF k
  <1> QED
    BY <1>1, <1>12, <1>14, <1>15 DEF t

\* The request is read and the answer goes behind what is on its way to the ATM.
LEMMA BaseAnswer ==
    ASSUME Base, Answer
    PROVE  Base'
  <1>1. PICK n \in Arrived("up"), tail \in Behind, m \in Answers :
           /\ Hear(n, tail)
           /\ answered' = Append(answered, m)
           /\ sending' = [sending EXCEPT !["down"] = Enciphered("down", m)]
           /\ line' = [Rest("up", n) EXCEPT !["down"] =
                          line["down"] \o Text(Enciphered("down", m).out)]
           /\ \E u, a \in Nat : OnItsWay(u, a)'
    BY AnswerIsSent
  <1>2. /\ bank' = "writing" /\ atm' = atm /\ typed' = typed /\ shown' = shown
    BY DEF Answer
  <1> DEFINE c == Enciphered("down", m)
             l == line["down"] \o Text(c.out)
  <1>3. DialogueTypeOK /\ Waits
    BY DEF Base
  <1>4. PICK u \in Nat, a \in Nat : OnItsWay(u, a)'
    BY <1>1
  <1>5. "up" \in Dirs /\ "down" \in Dirs /\ \A d \in Dirs : d = "up" \/ d = "down"
    BY DEF Dirs
  <1>6. m \in Typed \cup Answers /\ m \in Seq(Byte)
    BY Messages
  <1>7. /\ c \in Ciphers /\ l \in Texts /\ Len(l) = Len(line["down"]) + Len(Text(c.out))
        /\ Len(Text(c.out)) \in 1..Size
    BY <1>5, <1>6, Sends
  <1>8. Len(line["down"]) \in Nat /\ answered \in Seq(Seq(Byte)) /\ Size \in Nat
    BY <1>5, BaseFacts, Units
  <1> HIDE DEF l
  <1>9. l # <<>>
    <2> DEFINE k == Len(Text(c.out))
               j == Len(line["down"])
    <2>1. k \in 1..Size /\ j \in Nat /\ Len(l) = j + k
      BY <1>7, <1>8
    <2> HIDE DEF k, j
    <2>2. 0 < Len(l)
      BY <1>8, <2>1
    <2> QED
      BY <2>2, EmptySeq
  <1> HIDE DEF c
  <1>10. Count("up", n)
    BY <1>1 DEF Hear
  <1>11. /\ Rest("up", n)["up"] \in Texts /\ Rest("up", n) \in [Dirs -> Seq(Char)]
         /\ cuts' \in Nat /\ cuts' <= MaxCuts
    BY <1>5, <1>10, Reads
  <1>12. l \in Seq(Char)
    BY <1>7, TextsAreRead
  <1>13. line' = [Rest("up", n) EXCEPT !["down"] = l]
    BY <1>1 DEF l, c
  <1>14. /\ line'["down"] = l /\ line' \in [Dirs -> Seq(Char)]
         /\ \A d \in Dirs : line'[d] \in Texts
    BY <1>5, <1>7, <1>11, <1>12, <1>13
  <1>15. /\ receiving' \in [Dirs -> Ciphers] /\ heard' \in Seq(Seq(Byte))
         /\ {fresh', spoilt'} \subseteq BOOLEAN
    BY <1>1, Hears
  <1>16. sending' \in [Dirs -> Ciphers]
    BY <1>1, <1>3, <1>7 DEF c, DialogueTypeOK
  <1>17. answered' \in Seq(Seq(Byte))
    BY <1>1, <1>6, <1>8, AppendProperties
  <1>18. Waits'
    BY <1>2, <1>3, <1>5, <1>9, <1>14 DEF Waits
  <1>19. /\ bank' \in {"reading", "writing", "closed"} /\ atm' \in {"prompt", "waiting", "gone"}
         /\ typed' \in Seq(Seq(Byte)) /\ shown' \in Seq(Seq(Byte))
    BY <1>2, <1>3 DEF DialogueTypeOK
  <1> QED
    BY <1>4, <1>11, <1>14, <1>15, <1>16, <1>17, <1>18, <1>19, BaseAgain

\* The request is read, and the connection closed.
LEMMA BaseRefuse ==
    ASSUME Base, Refuse
    PROVE  Base'
  <1>1. PICK n \in Arrived("up"), tail \in Behind : Hear(n, tail) /\ line' = Rest("up", n)
    BY DEF Refuse
  <1>2. /\ bank' = "closed" /\ atm' = atm /\ typed' = typed /\ shown' = shown
        /\ sending' = sending /\ answered' = answered
    BY DEF Refuse
  <1>3. DialogueTypeOK /\ Waits
    BY DEF Base
  <1>4. "up" \in Dirs /\ "down" \in Dirs /\ \A d \in Dirs : d = "up" \/ d = "down"
    BY DEF Dirs
  <1>5. Count("up", n)
    BY <1>1 DEF Hear
  <1>6. /\ line'["up"] \in Texts /\ Len(line'["up"]) = Len(line["up"]) - n
        /\ line' \in [Dirs -> Seq(Char)] /\ line'["down"] = line["down"]
        /\ cuts' \in Nat /\ cuts' <= MaxCuts
    BY <1>1, <1>4, <1>5, Reads
  <1>7. /\ receiving' \in [Dirs -> Ciphers] /\ heard' \in Seq(Seq(Byte))
        /\ {fresh', spoilt'} \subseteq BOOLEAN
    BY <1>1, Hears
  <1>8. \A d \in Dirs : line'[d] \in Texts
    BY <1>4, <1>6, BaseFacts
  <1>9. PICK u \in Nat, a \in Nat :
           /\ Within(Len(line["up"]) - n, u) /\ Within(Len(line["down"]), a)
           /\ u + a + (IF Len(typed) = Len(shown) THEN 1 ELSE 0) <= cuts'
    BY <1>1, Hears
  <1>10. OnItsWay(u, a)'
    <2> DEFINE x == IF Len(typed) = Len(shown) THEN 1 ELSE 0
               m == cuts'
    <2>1. x \in {0, 1} /\ m \in Nat /\ u + a + x <= m
      BY <1>6, <1>9
    <2>2. x' = x
      BY <1>2
    <2> HIDE DEF x, m
    <2>3. u + a + x <= 1 + m
      BY <2>1
    <2>4. u + a + x' <= 1 + cuts'
      BY <2>2, <2>3 DEF m
    <2> QED
      BY <1>6, <1>9, <2>4 DEF OnItsWay, x
  <1>11. Waits'
    BY <1>2, <1>3 DEF Waits
  <1>12. /\ bank' \in {"reading", "writing", "closed"} /\ atm' \in {"prompt", "waiting", "gone"}
         /\ typed' \in Seq(Seq(Byte)) /\ shown' \in Seq(Seq(Byte))
         /\ sending' \in [Dirs -> Ciphers] /\ answered' \in Seq(Seq(Byte))
    BY <1>2, <1>3 DEF DialogueTypeOK
  <1> QED
    BY <1>6, <1>7, <1>8, <1>10, <1>11, <1>12, BaseAgain

\* The invariant is kept by every step.
LEMMA BaseNext ==
    ASSUME Base, [DialogueNext]_dialogueVars
    PROVE  Base'
  <1>1. CASE Type
    BY <1>1, BaseType
  <1>2. CASE Show
    BY <1>2, BaseShow
  <1>3. CASE Disconnected \/ Quit \/ Written \/ EndOfFile
    BY <1>3, BaseQuiet
  <1>4. CASE Answer
    BY <1>4, BaseAnswer
  <1>5. CASE Refuse
    BY <1>5, BaseRefuse
  <1>6. CASE UNCHANGED dialogueVars
    <2>1. /\ atm' = atm /\ bank' = bank /\ fresh' = fresh /\ line' = line
          /\ sending' = sending /\ receiving' = receiving
          /\ typed' = typed /\ heard' = heard /\ answered' = answered /\ shown' = shown
          /\ cuts' = cuts /\ spoilt' = spoilt
      BY <1>6 DEF dialogueVars, ciphers, histories
    <2> QED
      BY <2>1 DEF Base, DialogueTypeOK, OnItsWay, Waits
  <1> QED
    BY <1>1, <1>2, <1>3, <1>4, <1>5, <1>6 DEF DialogueNext

\* The invariant holds.
LEMMA BaseHolds == DialogueSpec => []Base
  <1>1. DialogueInit => Base
    BY BaseInit
  <1>2. Base /\ [DialogueNext]_dialogueVars => Base'
    BY BaseNext
  <1> QED
    BY <1>1, <1>2, PTL DEF DialogueSpec

\* Every variable has its type, over the whole conversation; in particular each cipher
\* keeps a register of one block, and no line holds more than TCP takes.
THEOREM DialogueTypes == DialogueSpec => []DialogueTypeOK
  <1>1. Base => DialogueTypeOK
    BY DEF Base
  <1> QED
    BY <1>1, BaseHolds, PTL

\* No answer has zero bytes in place of its end: data_ is not cleared under it.
THEOREM NothingIsCleared == DialogueSpec => []AnswersIntact
  <1>1. Base => AnswersIntact
    <2> SUFFICES ASSUME Base PROVE AnswersIntact
      OBVIOUS
    <2>1. line["down"] \in Texts
      BY BaseFacts
    <2> QED
      BY <2>1, TextsAreRead DEF AnswersIntact
  <1> QED
    BY <1>1, BaseHolds, PTL

\* The ATM never waits for an answer while the bank waits for a request and nothing is on
\* its way between them.
THEOREM NobodyIsStuck == DialogueSpec => []NobodyWaitsForNothing
  <1>1. Base => NobodyWaitsForNothing
    BY DEF Base, Waits, NobodyWaitsForNothing
  <1> QED
    BY <1>1, BaseHolds, PTL

\* In every state between two exchanges, any portion of a text decodes to the beginning
\* of what was encoded.
THEOREM AnyPortionDecodes == DialogueSpec => []PortionsDecode
  <1>1. Base => PortionsDecode
    <2> SUFFICES ASSUME Base, NEW d \in Dirs, NEW m \in Typed \cup Answers
                 PROVE  LET bytes == Enciphered(d, m).out
                            text  == Encode(bytes)
                        IN  /\ Decode(text) = bytes
                            /\ \A n \in 0..Len(text) : IsPrefix(Decode(SubSeq(text, 1, n)), bytes)
      BY DEF PortionsDecode
    <2> DEFINE bytes == Enciphered(d, m).out
               text == Encode(bytes)
    <2>1. bytes \in Seq(Byte)
      BY Sends
    <2> HIDE DEF bytes
    <2>2. text \in Seq(Char) /\ Decode(text) = bytes
      BY <2>1, RoundTrip
    <2> HIDE DEF text
    <2>3. ASSUME NEW n \in 0..Len(text)
          PROVE  IsPrefix(Decode(SubSeq(text, 1, n)), bytes)
      <3> DEFINE p == Decode(SubSeq(text, 1, n))
      <3>1. p \in Seq(Byte) /\ Len(p) <= Len(bytes) /\ \A i \in 1..Len(p) : p[i] = bytes[i]
        BY <2>2, PortionDecodes
      <3> HIDE DEF p
      <3>2. IsPrefix(p, bytes)
        BY <2>1, <3>1, PrefixFacts
      <3> QED
        BY <3>2 DEF p
    <2> QED
      BY <2>2, <2>3 DEF text, bytes
  <1> QED
    BY <1>1, BaseHolds, PTL

\* In every state between two exchanges, a message that is divided between two calls of
\* ProcessData comes out as in one, and leaves the cipher as it does in one.
THEOREM DivisionDoesNotMatter == DialogueSpec => []DivisionIsIrrelevant
  <1>1. ASSUME NEW c \in Ciphers, NEW dir, NEW m \in Seq(Byte), NEW n \in 0..Len(m)
        PROVE  LET whole  == ProcessData(c, dir, m, TRUE)
                   first  == ProcessData(c, dir, SubSeq(m, 1, n), FALSE)
                   second == ProcessData(first, dir, SubSeq(m, n + 1, Len(m)), TRUE)
               IN  first.out \o second.out = whole.out /\ State(second) = State(whole)
    <2> DEFINE s == SubSeq(m, 1, n)
               t == SubSeq(m, n + 1, Len(m))
               yes == TRUE
               no == FALSE
               whole == ProcessData(c, dir, m, yes)
               first == ProcessData(c, dir, s, no)
               second == ProcessData(first, dir, t, yes)
    <2>1. s \in Seq(Byte) /\ t \in Seq(Byte)
      BY Split
    <2> HIDE DEF s, t, yes, no
    <2>2. whole = Ran(Emptied(c), dir, m)
      BY Processed
    <2>3. first = Ran(Emptied(c), dir, s) /\ first \in Ciphers
      BY <2>1, Processed
    <2> HIDE DEF first, whole
    <2>4. second = Ran(Emptied(first), dir, t)
      BY <2>1, <2>3, Processed
    <2> HIDE DEF second
    <2>5. /\ first.out \o second.out = Ran(Emptied(c), dir, m).out
          /\ InStep(second, Ran(Emptied(c), dir, m))
      <3>1. /\ first = Ran(Emptied(c), dir, SubSeq(m, 1, n))
            /\ second = Ran(Emptied(first), dir, SubSeq(m, n + 1, Len(m)))
        BY <2>3, <2>4 DEF s, t
      <3>2. Divided(c, dir, m, n, first, second)
        BY <3>1 DEF Divided
      <3> QED
        BY <3>2, TwoCalls
    <2>6. first.out \o second.out = whole.out /\ State(second) = State(whole)
      BY <2>2, <2>5 DEF InStep, State
    <2> QED
      BY <2>6 DEF first, second, whole, s, t, yes, no
  <1>2. Base => DivisionIsIrrelevant
    <2> SUFFICES ASSUME Base, NEW d \in Dirs, NEW m \in Typed \cup Answers,
                        NEW c \in {<<sending[d], "encrypt">>, <<receiving[d], "decrypt">>}
                 PROVE  LET whole == ProcessData(c[1], c[2], m, TRUE)
                        IN  \A n \in 0..Len(m) :
                              LET first  == ProcessData(c[1], c[2], SubSeq(m, 1, n), FALSE)
                                  second == ProcessData(first, c[2], SubSeq(m, n + 1, Len(m)), TRUE)
                              IN  /\ first.out \o second.out = whole.out
                                  /\ State(second) = State(whole)
      BY DEF DivisionIsIrrelevant
    <2>1. m \in Seq(Byte)
      BY Messages
    <2>2. sending[d] \in Ciphers /\ receiving[d] \in Ciphers
      BY BaseFacts
    <2>3. c[1] \in Ciphers
      BY <2>2
    <2> DEFINE k == c[1]
               dir == c[2]
    <2> HIDE DEF k, dir
    <2>4. k \in Ciphers
      BY <2>3 DEF k
    <2>5. \A n \in 0..Len(m) :
             LET whole  == ProcessData(k, dir, m, TRUE)
                 first  == ProcessData(k, dir, SubSeq(m, 1, n), FALSE)
                 second == ProcessData(first, dir, SubSeq(m, n + 1, Len(m)), TRUE)
             IN  first.out \o second.out = whole.out /\ State(second) = State(whole)
      BY <1>1, <2>1, <2>4
    <2> QED
      BY <2>5 DEF k, dir
  <1> QED
    BY <1>2, BaseHolds, PTL

-----------------------------------------------------------------------------
(* A message on the line *)

\* A text decodes to x, and not before its last digit.
Just(t, x) ==
    /\ Decode(t) = x
    /\ \A r \in 0..Len(t) : Len(Decoding(t)[r].bytes) = Len(x) => NoDigits(t, r)

\* So it is with the text of x, also behind what is no digit.
LEMMA JustText ==
    ASSUME NEW t \in Seq(Char), NoDigits(t, 0), NEW x \in Seq(Byte), x # <<>>
    PROVE  Just(t \o Text(x), x)
  <1> DEFINE u == Text(x)
             s == Finish(Encoding(x)[Len(x)])
             w == t \o u
             m == Len(t)
             n == Len(u)
             l == Len(s)
  <1>1. u \in Texts /\ u = Pad(s) /\ Decode(u) = x
    BY TextFacts
  <1>2. u \in Seq(Char) /\ s \in Seq(Digit)
    BY <1>1, TextsAreRead, FinishDecodes
  <1>3. /\ l \in Nat /\ n \in Nat /\ l <= n /\ \A i \in 1..l : u[i] = s[i]
        /\ \A i \in l + 1 .. n : u[i] = Padding
    <2>1. Len(Pad(s)) = l + Missing(l) /\ l \in Nat /\ n \in Nat /\ Missing(l) \in Nat
      BY <1>1, <1>2, PadFacts, MissingType
    <2> QED
      BY <1>1, <1>2, <2>1, PadFacts
  <1>4. /\ m \in Nat /\ w \in Seq(Char) /\ Len(w) = m + n
        /\ \A i \in 1 .. m + n : w[i] = IF i <= m THEN t[i] ELSE u[i - m]
    BY <1>2, LenProperties, ConcatProperties
  <1>5. \A i \in 0..n : Decoding(w)[m + i] = Decoding(u)[i]
    BY <1>2, ReadBehind
  <1>6. Decode(w) = x
    <2>1. Decoding(w)[m + n] = Decoding(u)[n]
      BY <1>3, <1>5
    <2> QED
      BY <1>1, <1>4, <2>1 DEF Decode
  <1>7. ASSUME NEW r \in 0..Len(w), Len(Decoding(w)[r].bytes) = Len(x)
        PROVE  NoDigits(w, r)
    <2>1. m + l <= r
      <3> SUFFICES ASSUME r < m + l PROVE FALSE
        BY <1>3, <1>4
      <3>1. CASE r < m
        <4>1. Decoding(w)[r].bytes = <<>>
          <5>1. m \in 0..Len(w) /\ r \in 0..m /\ m \in r..Len(w) /\ 0 \in 0..n /\ m + 0 = m
            BY <1>3, <1>4, <3>1
          <5>2. Decoding(w)[m] = Empty
            BY <1>2, <1>5, <5>1, DecodingSteps
          <5>3. Len(Decoding(w)[m].bytes) = 0
            BY <5>2, EmptySeq DEF Empty
          <5>4. Decoding(w)[r] \in Decoders
            BY <1>4, ReadIsDecoder
          <5>5. Len(Decoding(w)[r].bytes) <= Len(Decoding(w)[m].bytes)
            <6> HIDE DEF w, m
            <6> QED
              BY <1>4, <5>1, ReadGrows
          <5>6. Decoding(w)[r].bytes \in Seq(Byte)
            BY <5>4 DEF Decoders
          <5>7. Len(Decoding(w)[r].bytes) \in Nat
            BY <5>6, LenProperties
          <5>8. Len(Decoding(w)[r].bytes) = 0
            BY <5>3, <5>5, <5>7
          <5> QED
            BY <5>6, <5>8, EmptySeq
        <4>2. Len(x) = 0
          BY <1>7, <4>1, EmptySeq
        <4> QED
          BY <4>2, EmptySeq
      <3>2. CASE m <= r
        <4> DEFINE i == r - m
        <4>1. i \in 0 .. l - 1 /\ i \in 0..n /\ m + i = r /\ i \in 0..l
          BY <1>3, <1>4, <3>2
        <4>2. Decoding(w)[r] = Decoding(u)[i]
          BY <1>5, <4>1
        <4>3. Agree(u, s, i)
          BY <1>3, <4>1 DEF Agree
        <4>4. s \in Seq(Char)
          BY <1>2, Sizes, SeqMonotonic
        <4> HIDE DEF i
        <4>5. Decoding(u)[i] = Decoding(s)[i]
          <5> HIDE DEF u, s
          <5> QED
            BY <1>2, <4>3, <4>4, DecodingAgrees
        <4>6. Len(Decoding(s)[i].bytes) < Len(x)
          <5> DEFINE z == s
          <5>1. z = Finish(Encoding(x)[Len(x)]) /\ i \in 0 .. Len(z) - 1
            BY <4>1
          <5> HIDE DEF z
          <5>2. Len(Decoding(z)[i].bytes) < Len(x)
            BY <5>1, FinishEnds
          <5> QED
            BY <5>2 DEF z
        <4>7. Len(x) < Len(x)
          BY <1>7, <4>2, <4>5, <4>6
        <4> QED
          BY <4>7, LenProperties
      <3> QED
        BY <1>4, <3>1, <3>2
    <2>2. \A i \in r + 1 .. Len(w) : w[i] \notin Digit
      <3> SUFFICES ASSUME NEW i \in r + 1 .. Len(w) PROVE w[i] \notin Digit
        OBVIOUS
      <3>1. i \in 1 .. m + n /\ ~(i <= m) /\ i - m \in l + 1 .. n
        BY <1>3, <1>4, <2>1
      <3>2. w[i] = Padding
        BY <1>3, <1>4, <3>1
      <3> QED
        BY <3>2, Sizes
    <2> QED
      BY <2>2 DEF NoDigits
  <1> QED
    BY <1>6, <1>7 DEF Just

\* It is the beginning as a sequence.
LEMMA AlikeRelated ==
    ASSUME NEW S, NEW s \in Seq(S), NEW t \in Seq(S), Alike(s, t)
    PROVE  Related(s, t)
  <1>1. Len(s) \in Nat /\ Len(t) \in Nat
    BY LenProperties
  <1>2. CASE Len(s) <= Len(t)
    <2>1. \A i \in 1..Len(s) : s[i] = t[i]
      BY <1>1, <1>2 DEF Alike
    <2>2. IsPrefix(s, t)
      BY <1>2, <2>1, PrefixFacts
    <2> QED
      BY <2>2 DEF Related
  <1>3. CASE Len(t) <= Len(s)
    <2>1. \A i \in 1..Len(t) : t[i] = s[i]
      BY <1>1, <1>3 DEF Alike
    <2>2. IsPrefix(t, s)
      BY <1>3, <2>1, PrefixFacts
    <2> QED
      BY <2>2 DEF Related
  <1> QED
    BY <1>1, <1>2, <1>3

-----------------------------------------------------------------------------
(* One direction *)

\* What was said, what was taken for it, and what can be said.
Said(d)     == IF d = "up" THEN typed ELSE answered
Taken(d)    == IF d = "up" THEN heard ELSE shown
Wordings(d) == IF d = "up" THEN Typed ELSE Answers

\* What the cipher of the sender is after m, if it was in step before.
Coming(d, m) == Ran(Emptied(receiving[d]), "encrypt", m)

\* Everything of value was read, and the ends are in step.
Clear(d) ==
    /\ InStep(sending[d], receiving[d])
    /\ NoDigits(line[d], 0)
    /\ cuts = 0 => line[d] = <<>>

\* What is on the line begins with m, and with m alone.
Holds(d, m)   == Agree(Decode(line[d]), Coming(d, m).out, Len(Coming(d, m).out))
Carries(d, m) == Just(line[d], Coming(d, m).out) /\ InStep(sending[d], Coming(d, m))

\* v is said of s: an answer is shown as it is, a request ends at its first zero byte.
Heeds(d, v, s) ==
    /\ v \in Seq(Byte) /\ Len(v) <= Len(s) /\ \A i \in 1..Len(v) : v[i] = s[i]
    /\ d = "down" \/ (\A i \in 1..Len(s) : s[i] # ZeroByte) => v = s

\* A read of n characters, which gives v.
Takes(d, n, v) ==
    /\ n \in 1..Len(line[d])
    /\ Said(d)' = Said(d) /\ Taken(d)' = Append(Taken(d), v)
    /\ sending'[d] = sending[d]
    /\ receiving'[d] = Ran(Emptied(receiving[d]), "decrypt", Decoding(line[d])[n].bytes)
    /\ line'[d] = SubSeq(line[d], n + 1, Len(line[d]))
    /\ Heeds(d, v, receiving'[d].out)
    /\ cuts' = 0 => cuts = 0 /\ n = Len(line[d])

\* The types of a direction, and of what is read.
LEMMA TakesTypes ==
    ASSUME Base, NEW d \in Dirs, NEW n, NEW v, Takes(d, n, v), NEW b, b = Decoding(line[d])[n].bytes
    PROVE  /\ line[d] \in Seq(Char) /\ n \in Nat /\ n \in 0..Len(line[d]) /\ Len(line[d]) \in Nat
           /\ receiving[d] \in Ciphers /\ receiving'[d] = Ran(Emptied(receiving[d]), "decrypt", b)
           /\ b \in Seq(Byte) /\ Len(b) \in Nat
           /\ v \in Seq(Byte) /\ Len(v) \in Nat /\ Len(v) <= Len(b)
           /\ receiving'[d].out \in Seq(Byte) /\ Len(receiving'[d].out) = Len(b)
  <1>1. line[d] \in Texts /\ receiving[d] \in Ciphers
    BY BaseFacts
  <1>2. line[d] \in Seq(Char) /\ Len(line[d]) \in Nat
    BY <1>1, TextsAreRead
  <1>3. n \in 1..Len(line[d]) /\ n \in Nat /\ n \in 0..Len(line[d])
    BY <1>2 DEF Takes
  <1>4. b \in Seq(Byte) /\ Len(b) \in Nat
    <2> DEFINE t == line[d]
    <2>1. t \in Seq(Char) /\ n \in 0..Len(t) /\ b = Decoding(t)[n].bytes
      BY <1>2, <1>3
    <2> HIDE DEF t
    <2> QED
      BY <2>1, DecodedSoFar
  <1>5. receiving'[d] = Ran(Emptied(receiving[d]), "decrypt", b)
    BY DEF Takes
  <1>6. receiving'[d].out \in Seq(Byte) /\ Len(receiving'[d].out) = Len(b)
    <2> DEFINE dir == "decrypt"
               c == receiving[d]
    <2>1. c \in Ciphers
      BY <1>1
    <2> HIDE DEF dir, c
    <2>2. Ran(Emptied(c), dir, b).out \in Seq(Byte) /\ Len(Ran(Emptied(c), dir, b).out) = Len(b)
      BY <1>4, <2>1, RanOut
    <2> QED
      BY <1>5, <2>2 DEF dir, c
  <1>7. v \in Seq(Byte) /\ Len(v) <= Len(receiving'[d].out)
    BY DEF Takes, Heeds
  <1> QED
    BY <1>1, <1>2, <1>3, <1>4, <1>5, <1>6, <1>7, LenProperties

\* With nothing of value on the line, nothing is read, and only after a cut.
LEMMA TakesNothing ==
    ASSUME Base, NEW d \in Dirs, NEW n, NEW v, Takes(d, n, v), Clear(d)
    PROVE  v = <<>> /\ cuts # 0 /\ cuts' # 0
  <1> DEFINE t == line[d]
             b == Decoding(t)[n].bytes
             o == 0
  <1>1. /\ t \in Seq(Char) /\ n \in 0..Len(t) /\ Len(t) \in Nat
        /\ v \in Seq(Byte) /\ Len(v) \in Nat /\ Len(v) <= Len(b) /\ Len(b) \in Nat
    BY TakesTypes
  <1>2. NoDigits(t, o) /\ (cuts = 0 => t = <<>>)
    BY DEF Clear
  <1>3. n \in 1..Len(t) /\ (cuts' = 0 => cuts = 0)
    BY DEF Takes
  <1>4. t # <<>>
    <2> HIDE DEF t
    <2>1. 0 < Len(t)
      BY <1>1, <1>3
    <2> QED
      BY <2>1, EmptySeq
  <1> HIDE DEF t, o
  <1>5. Read(t) = Decoding(t)[o] /\ Decoding(t)[0] = Empty
    BY <1>1, <1>2, ReadSkips, DecodingSteps
  <1>6. Len(Decode(t)) = 0
    BY <1>5, EmptySeq DEF Decode, Read, Empty, o
  <1> HIDE DEF b
  <1>7. b = Decoding(t)[n].bytes
    BY DEF b
  <1>8. Len(b) <= Len(Decode(t))
    BY <1>1, <1>7, DecodedSoFar
  <1>9. Len(v) = 0
    BY <1>1, <1>6, <1>8
  <1> QED
    BY <1>1, <1>2, <1>3, <1>4, <1>9, EmptySeq

\* With m first on the line, what is read is the beginning of m, or goes on behind it.
LEMMA TakesAlike ==
    ASSUME Base, NEW d \in Dirs, NEW n, NEW v, Takes(d, n, v), NEW m \in Typed \cup Answers,
           Holds(d, m)
    PROVE  Related(v, m)
  <1> DEFINE t == line[d]
             b == Decoding(t)[n].bytes
             c == receiving[d]
             x == Ran(Emptied(c), "encrypt", m).out
             y == Ran(Emptied(c), "decrypt", b).out
  <1>1. /\ t \in Seq(Char) /\ n \in 0..Len(t) /\ c \in Ciphers
        /\ b \in Seq(Byte) /\ Len(b) \in Nat /\ v \in Seq(Byte)
        /\ receiving'[d] = Ran(Emptied(c), "decrypt", b)
    BY TakesTypes
  <1>2. m \in Seq(Byte)
    BY Messages
  <1>3. Agree(Decode(t), x, Len(x))
    BY DEF Holds, Coming
  <1>4. Len(v) <= Len(y) /\ \A i \in 1..Len(v) : v[i] = y[i]
    BY <1>1 DEF Takes, Heeds
  <1> HIDE DEF t
  <1>5. b = Decoding(t)[n].bytes
    OBVIOUS
  <1> HIDE DEF b
  <1>6. /\ Len(b) <= Len(Decode(t)) /\ \A i \in 1..Len(b) : b[i] = Decode(t)[i]
    BY <1>1, <1>5, DecodedSoFar
  <1>7. Alike(b, x)
    <2> HIDE DEF x
    <2> SUFFICES ASSUME NEW i \in 1..Len(b), i <= Len(x) PROVE b[i] = x[i]
      BY DEF Alike
    <2>1. i \in 1..Len(x)
      BY <1>1, <1>3 DEF Agree
    <2> QED
      BY <1>3, <1>6, <2>1 DEF Agree
  <1>8. Alike(y, m) /\ y \in Seq(Byte)
    <2> HIDE DEF c
    <2> QED
      BY <1>1, <1>2, <1>7, DeciphersAlike
  <1> HIDE DEF y
  <1>9. Alike(v, m)
    <2> SUFFICES ASSUME NEW i \in 1..Len(v), i <= Len(m) PROVE v[i] = m[i]
      BY DEF Alike
    <2>1. Len(v) \in Nat /\ Len(y) \in Nat
      BY <1>1, <1>8, LenProperties
    <2>2. i \in 1..Len(y)
      BY <1>4, <2>1
    <2> QED
      BY <1>4, <1>8, <2>2 DEF Alike
  <1> QED
    BY <1>1, <1>2, <1>9, AlikeRelated

\* With m alone on the line, the ends are in step again if m is what was read, and it is
\* if the read was not cut.
LEMMA TakesWell ==
    ASSUME Base, NEW d \in Dirs, NEW n, NEW v, Takes(d, n, v), NEW m \in Wordings(d),
           Carries(d, m)
    PROVE  (v = m => Clear(d)') /\ (cuts' = 0 => v = m)
  <1> DEFINE t == line[d]
             b == Decoding(t)[n].bytes
             c == receiving[d]
             e == Ran(Emptied(c), "encrypt", m)
             f == Ran(Emptied(c), "decrypt", b)
             x == e.out
             y == f.out
  <1>1. /\ t \in Seq(Char) /\ n \in 0..Len(t) /\ Len(t) \in Nat /\ n \in Nat /\ c \in Ciphers
        /\ b \in Seq(Byte) /\ Len(b) \in Nat /\ v \in Seq(Byte)
        /\ Len(v) \in Nat /\ Len(v) <= Len(b)
        /\ receiving'[d] = f
    BY TakesTypes
  <1>2. m \in Typed \cup Answers /\ m \in Seq(Byte) /\ Len(m) \in Nat
        /\ (d # "down" => \A i \in 1..Len(m) : m[i] # ZeroByte)
    <2>1. m \in Typed \cup Answers /\ (d # "down" => m \in Typed)
      BY DEF Wordings, Dirs
    <2>2. \A k \in Typed : \A i \in 1..Len(k) : k[i] # ZeroByte
      BY DialogueAssumption
    <2> QED
      BY <2>1, <2>2, Messages
  <1>3. Just(t, x) /\ InStep(sending[d], e)
    BY DEF Carries, Coming
  <1>4. /\ line'[d] = SubSeq(t, n + 1, Len(t)) /\ sending'[d] = sending[d]
        /\ (cuts' = 0 => n = Len(t))
        /\ (d = "down" \/ (\A i \in 1..Len(y) : y[i] # ZeroByte) => v = y)
    BY <1>1 DEF Takes, Heeds
  <1>5. e \in Ciphers /\ x \in Seq(Byte) /\ Len(x) = Len(m)
    BY <1>1, <1>2, RanOut
  <1>6. Decode(t) = x /\ (Len(b) = Len(x) => NoDigits(t, n))
    BY <1>1, <1>3 DEF Just
  <1>7. b = Decoding(t)[n].bytes
    OBVIOUS
  <1>8. /\ Len(b) <= Len(x) /\ (\A i \in 1..Len(b) : b[i] = x[i]) /\ (n = Len(t) => b = x)
    <2> HIDE DEF t, x, b
    <2> QED
      BY <1>1, <1>6, <1>7, DecodedSoFar
  <1>9. Len(b) = Len(x) => b = x
    <2> HIDE DEF x, b
    <2> QED
      BY <1>1, <1>5, <1>8, SeqEqual
  <1>10. b = x => y = m /\ InStep(e, f)
    <2> SUFFICES ASSUME b = x PROVE y = m /\ InStep(e, f)
      OBVIOUS
    <2>1. InStep(c, c)
      BY DEF InStep
    <2>2. b = Ran(Emptied(c), "encrypt", m).out
      OBVIOUS
    <2> HIDE DEF b, c
    <2> QED
      BY <1>1, <1>2, <2>1, <2>2, Deciphers
  <1>11. cuts' = 0 => v = m
    <2> SUFFICES ASSUME cuts' = 0 PROVE v = m
      OBVIOUS
    <2>1. y = m
      BY <1>4, <1>8, <1>10
    <2> HIDE DEF y
    <2> QED
      BY <1>2, <1>4, <2>1
  <1>12. v = m => Clear(d)'
    <2> SUFFICES ASSUME v = m PROVE Clear(d)'
      OBVIOUS
    <2>1. Len(b) = Len(x)
      <3> HIDE DEF b, x
      <3> QED
        BY <1>1, <1>2, <1>5, <1>8
    <2>2. InStep(e, f) /\ NoDigits(t, n)
      BY <1>6, <1>9, <1>10, <2>1
    <2>3. InStep(sending'[d], receiving'[d])
      <3> HIDE DEF e, f
      <3> QED
        BY <1>1, <1>3, <1>4, <2>2 DEF InStep
    <2> DEFINE u == SubSeq(t, n + 1, Len(t))
    <2>4. u \in Seq(Char) /\ Len(u) = Len(t) - n /\ \A i \in 1 .. Len(t) - n : u[i] = t[n + i]
      <3> HIDE DEF t
      <3> QED
        BY <1>1, Split
    <2> HIDE DEF u
    <2>5. NoDigits(u, 0)
      <3> SUFFICES ASSUME NEW i \in 0 + 1 .. Len(u) PROVE u[i] \notin Digit
        BY <1>1, <2>4 DEF NoDigits
      <3> HIDE DEF t
      <3>1. i \in 1 .. Len(t) - n /\ n + i \in n + 1 .. Len(t)
        BY <1>1, <2>4
      <3>2. t[n + i] \notin Digit
        BY <2>2, <3>1 DEF NoDigits
      <3> QED
        BY <2>4, <3>1, <3>2
    <2>6. cuts' = 0 => u = <<>>
      <3> SUFFICES ASSUME cuts' = 0 PROVE u = <<>>
        OBVIOUS
      <3>1. Len(u) = 0
        BY <1>1, <1>4, <2>4
      <3> QED
        BY <2>4, <3>1, EmptySeq
    <2>7. line'[d] = u
      BY <1>4 DEF u
    <2> QED
      BY <2>3, <2>5, <2>6, <2>7 DEF Clear
  <1> QED
    BY <1>11, <1>12

\* The bank can read, or the ATM can.
Open(d) == d = "up" => bank # "closed"

\* Nothing happens in direction d.
Keeps(d) ==
    /\ Said(d)' = Said(d) /\ Taken(d)' = Taken(d)
    /\ receiving'[d] = receiving[d] /\ sending'[d] = sending[d] /\ line'[d] = line[d]
    /\ cuts' = 0 => cuts = 0

\* The message m is sent, and lost if the bank has closed.
Speaks(d, m) ==
    /\ m \in Wordings(d)
    /\ Said(d)' = Append(Said(d), m) /\ Taken(d)' = Taken(d)
    /\ receiving'[d] = receiving[d] /\ sending'[d] = Enciphered(d, m)
    /\ Open(d) => line'[d] = line[d] \o Text(Enciphered(d, m).out)
    /\ cuts' = 0 => cuts = 0

\* What holds of a line goes on to hold while nothing happens on it.
LEMMA KeepsLine ==
    ASSUME NEW d \in Dirs, Keeps(d)
    PROVE  /\ Clear(d) => Clear(d)'
           /\ \A m : Holds(d, m) => Holds(d, m)'
           /\ \A m : Carries(d, m) => Carries(d, m)'
  <1>1. /\ receiving'[d] = receiving[d] /\ sending'[d] = sending[d] /\ line'[d] = line[d]
        /\ cuts' = 0 => cuts = 0
    BY DEF Keeps
  <1>2. Clear(d) => Clear(d)'
    BY <1>1 DEF Clear
  <1>3. ASSUME NEW m PROVE Coming(d, m)' = Coming(d, m)
    BY <1>1 DEF Coming
  <1>4. ASSUME NEW m, Holds(d, m) PROVE Holds(d, m)'
    BY <1>1, <1>3, <1>4 DEF Holds
  <1>5. ASSUME NEW m, Carries(d, m) PROVE Carries(d, m)'
    BY <1>1, <1>3, <1>5 DEF Carries
  <1> QED
    BY <1>2, <1>4, <1>5

\* The text of a message, and the message after what is of no value.
LEMMA SpeaksClear ==
    ASSUME Base, NEW d \in Dirs, NEW m, Speaks(d, m), Open(d), Clear(d)
    PROVE  Carries(d, m)'
  <1> DEFINE c == sending[d]
             e == receiving[d]
             x == Coming(d, m).out
             t == line[d]
  <1>1. m \in Typed \cup Answers /\ m \in Seq(Byte) /\ 0 < Len(m)
    <2>1. m \in Typed \cup Answers
      BY DEF Speaks, Wordings
    <2> QED
      BY <2>1, Messages
  <1>2. c \in Ciphers /\ e \in Ciphers /\ t \in Seq(Char)
    <2>1. t \in Texts
      BY BaseFacts
    <2> QED
      BY <2>1, BaseFacts, TextsAreRead
  <1>3. Emptied(c) = Emptied(e)
    <2>1. c.reg = e.reg /\ c.left = e.left
      BY DEF Clear, InStep
    <2>2. Emptied(c) = [reg |-> c.reg, left |-> c.left, out |-> <<>>]
      <3> HIDE DEF c
      <3> QED
        BY <1>2, EmptiedType
    <2>3. Emptied(e) = [reg |-> e.reg, left |-> e.left, out |-> <<>>]
      <3> HIDE DEF e
      <3> QED
        BY <1>2, EmptiedType
    <2> QED
      BY <2>1, <2>2, <2>3
  <1>4. Enciphered(d, m) = Coming(d, m)
    <2>1. Enciphered(d, m) = Ran(Emptied(c), "encrypt", m)
      BY <1>1, Sends
    <2> HIDE DEF c, e
    <2>2. Enciphered(d, m) = Ran(Emptied(e), "encrypt", m)
      BY <1>3, <2>1
    <2> QED
      BY <2>2 DEF Coming, e
  <1>5. x \in Seq(Byte) /\ Len(x) = Len(m)
    <2>1. Enciphered(d, m).out \in Seq(Byte) /\ Len(Enciphered(d, m).out) = Len(m)
      BY <1>1, Sends
    <2> QED
      BY <1>4, <2>1
  <1>6. x # <<>>
    <2> HIDE DEF x
    <2> QED
      BY <1>1, <1>5, EmptySeq
  <1>7. Just(t \o Text(x), x)
    <2>1. NoDigits(t, 0)
      BY DEF Clear
    <2> HIDE DEF t, x
    <2> QED
      BY <1>2, <1>5, <1>6, <2>1, JustText
  <1>8. line'[d] = t \o Text(x) /\ sending'[d] = Coming(d, m) /\ Coming(d, m)' = Coming(d, m)
    BY <1>4 DEF Speaks, Coming
  <1>9. Just(line'[d], Coming(d, m)'.out)
    BY <1>7, <1>8
  <1>10. InStep(sending'[d], Coming(d, m)')
    BY <1>8 DEF InStep
  <1> QED
    BY <1>9, <1>10 DEF Carries

\* What goes behind a message does not change it.
LEMMA SpeaksBehind ==
    ASSUME Base, NEW d \in Dirs, NEW m, Speaks(d, m), Open(d), NEW h, Holds(d, h)
    PROVE  Holds(d, h)'
  <1> DEFINE t == line[d]
             u == Text(Enciphered(d, m).out)
             w == t \o u
             x == Coming(d, h).out
             n == Len(t)
  <1>1. m \in Typed \cup Answers
    BY DEF Speaks, Wordings
  <1>2. t \in Texts /\ u \in Texts
    BY <1>1, Sends, BaseFacts
  <1>3. t \in Seq(Char) /\ u \in Seq(Char)
    <2> HIDE DEF t, u
    <2> QED
      BY <1>2, TextsAreRead
  <1>4. line'[d] = w /\ Coming(d, h)' = Coming(d, h)
    BY DEF Speaks, Coming
  <1>5. Agree(Decode(t), x, Len(x))
    BY DEF Holds
  <1> HIDE DEF t, u, x
  <1>6. /\ w \in Seq(Char) /\ n \in Nat /\ n \in 0..Len(w) /\ Len(w) \in Nat
        /\ \A i \in 1..n : w[i] = t[i]
    <2>1. w \in Seq(Char) /\ Len(w) = Len(t) + Len(u) /\ Len(t) \in Nat /\ Len(u) \in Nat
      BY <1>3, ConcatProperties, LenProperties
    <2>2. \A i \in 1 .. Len(t) + Len(u) : w[i] = IF i <= Len(t) THEN t[i] ELSE u[i - Len(t)]
      BY <1>3, ConcatProperties
    <2> QED
      BY <2>1, <2>2
  <1> HIDE DEF w
  <1>7. Decoding(w)[n] = Decoding(t)[n]
    <2>1. Agree(w, t, n)
      BY <1>6 DEF Agree
    <2> HIDE DEF n
    <2> QED
      BY <1>3, <1>6, <2>1, DecodingAgrees
  <1> DEFINE b == Decode(t)
  <1>8. b = Decoding(w)[n].bytes
    BY <1>7 DEF Decode
  <1> HIDE DEF n
  <1>9. /\ b \in Seq(Byte) /\ Len(b) \in Nat /\ Len(b) <= Len(Decode(w)) /\ Len(Decode(w)) \in Nat
        /\ \A i \in 1..Len(b) : b[i] = Decode(w)[i]
    <2> HIDE DEF b
    <2> QED
      BY <1>6, <1>8, DecodedSoFar
  <1>10. Agree(Decode(w), x, Len(x))
    <2>1. Agree(b, x, Len(x))
      BY <1>5
    <2> HIDE DEF b
    <2> DEFINE k == Len(x)
               z == Decode(w)
    <2>2. k \in 0..Len(b) /\ k \in 0..Len(x) /\ \A i \in 1..k : b[i] = x[i]
      BY <2>1 DEF Agree
    <2>3. /\ Len(b) \in Nat /\ Len(b) <= Len(z) /\ Len(z) \in Nat
          /\ \A i \in 1..Len(b) : b[i] = z[i]
      BY <1>9
    <2>4. Agree(z, x, k)
      <3> HIDE DEF z, k
      <3> QED
        BY <2>2, <2>3 DEF Agree
    <2> QED
      BY <2>4
  <1> QED
    BY <1>4, <1>10 DEF Holds, x, w

\* Direction d before or in the k-th exchange, if those before it went well; also after it:
\* what was then taken for the k-th message is related to it.
InOrder(d, k) ==
    /\ k - 1 <= Len(Said(d)) /\ k - 1 <= Len(Taken(d))
    /\ \A j \in 1 .. k - 1 : Taken(d)[j] = Said(d)[j]
    /\ Len(Taken(d)) = k - 1 /\ Open(d) =>
          IF Len(Said(d)) = k - 1 THEN Clear(d)
          ELSE \E m \in Wordings(d) : Said(d)[k] = m /\ Holds(d, m)
    /\ k <= Len(Taken(d)) =>
          IF Len(Said(d)) = k - 1 THEN Taken(d)[k] = <<>> ELSE Related(Taken(d)[k], Said(d)[k])

\* What was said is in the wording of its direction.
Spoken == \A d \in Dirs : Said(d) \in Seq(Wordings(d))

\* The types of what was said and taken in a direction.
LEMMA Histories ==
    ASSUME Base, Spoken, NEW d \in Dirs
    PROVE  /\ Said(d) \in Seq(Wordings(d)) /\ Len(Said(d)) \in Nat
           /\ Taken(d) \in Seq(Seq(Byte)) /\ Len(Taken(d)) \in Nat
           /\ Wordings(d) \subseteq Typed \cup Answers
           /\ \A m \in Wordings(d) : m \in Seq(Byte) /\ m # <<>>
  <1>1. Said(d) \in Seq(Wordings(d)) /\ Len(Said(d)) \in Nat
    BY LenProperties DEF Spoken
  <1>2. Taken(d) \in Seq(Seq(Byte)) /\ Len(Taken(d)) \in Nat
    BY BaseFacts, LenProperties DEF Taken
  <1>3. Wordings(d) \subseteq Typed \cup Answers
    BY DEF Wordings
  <1> QED
    BY <1>1, <1>2, <1>3, Messages

\* One element more, and those before as they were.
LEMMA Appended ==
    ASSUME NEW S, NEW s \in Seq(S), NEW e \in S, NEW t, t = Append(s, e)
    PROVE  /\ t \in Seq(S) /\ Len(s) \in Nat /\ Len(t) = Len(s) + 1 /\ t[Len(s) + 1] = e
           /\ \A i \in 1..Len(s) : t[i] = s[i]
  BY AppendProperties, LenProperties

\* A direction on which nothing happens stays in order.
LEMMA OrderKeeps ==
    ASSUME NEW d \in Dirs, NEW k, InOrder(d, k), Keeps(d), Open(d)' => Open(d)
    PROVE  InOrder(d, k)'
  <1>1. Said(d)' = Said(d) /\ Taken(d)' = Taken(d)
    BY DEF Keeps
  <1>2. (Clear(d) => Clear(d)') /\ \A m : Holds(d, m) => Holds(d, m)'
    BY KeepsLine
  <1>3. Wordings(d)' = Wordings(d)
    BY DEF Wordings
  <1> QED
    BY <1>1, <1>2, <1>3 DEF InOrder

\* So does one on which a message is sent,
LEMMA OrderSpeaks ==
    ASSUME Base, Spoken, NEW d \in Dirs, NEW k \in Nat \ {0}, InOrder(d, k),
           NEW m, Speaks(d, m), Open(d)' => Open(d)
    PROVE  InOrder(d, k)'
  <1> DEFINE s == Said(d)
             t == Taken(d)
  <1>1. /\ m \in Wordings(d) /\ Said(d)' = Append(s, m) /\ Taken(d)' = t
        /\ Wordings(d)' = Wordings(d)
    BY DEF Speaks, Wordings
  <1>2. /\ s \in Seq(Wordings(d)) /\ Len(s) \in Nat /\ Len(t) \in Nat /\ t \in Seq(Seq(Byte))
        /\ m \in Seq(Byte)
    BY <1>1, Histories
  <1>3. /\ k - 1 <= Len(s) /\ k - 1 <= Len(t) /\ \A j \in 1 .. k - 1 : t[j] = s[j]
    BY DEF InOrder
  <1> DEFINE u == Said(d)'
  <1>4. /\ Len(u) = Len(s) + 1 /\ u[Len(s) + 1] = m /\ \A i \in 1..Len(s) : u[i] = s[i]
    <2>1. u = Append(s, m)
      BY <1>1
    <2> HIDE DEF u, s
    <2> QED
      BY <1>1, <1>2, <2>1, Appended
  <1>5. ASSUME Len(t) = k - 1, Open(d)'
        PROVE  \E h \in Wordings(d) : u[k] = h /\ Holds(d, h)'
    <2>1. Open(d)
      BY <1>5
    <2>2. CASE Len(s) = k - 1
      <3>1. Clear(d)
        BY <1>5, <2>1, <2>2 DEF InOrder
      <3>2. Carries(d, m)'
        BY <2>1, <3>1, SpeaksClear
      <3>3. Holds(d, m)'
        <4>1. (Decode(line[d]) = Coming(d, m).out)'
          BY <3>2 DEF Carries, Just
        <4>2. (Coming(d, m).out)' = Coming(d, m).out
          BY DEF Speaks, Coming
        <4> DEFINE x == Coming(d, m).out
                   c == receiving[d]
        <4>3. x \in Seq(Byte)
          <5>1. c \in Ciphers
            BY BaseFacts
          <5> HIDE DEF c
          <5>2. Ran(Emptied(c), "encrypt", m).out \in Seq(Byte)
            BY <1>2, <5>1, RanOut
          <5> QED
            BY <5>2 DEF c, Coming
        <4> HIDE DEF x
        <4>4. Agree(x, x, Len(x))
          BY <4>3, LenProperties DEF Agree
        <4>5. Decode(line'[d]) = x /\ Coming(d, m)'.out = x
          BY <4>1, <4>2 DEF x
        <4> QED
          BY <4>4, <4>5 DEF Holds
      <3> QED
        BY <1>1, <1>2, <1>4, <2>2, <3>3
    <2>3. CASE Len(s) # k - 1
      <3>1. PICK h \in Wordings(d) : s[k] = h /\ Holds(d, h)
        BY <1>5, <2>1, <2>3 DEF InOrder
      <3>2. Holds(d, h)'
        BY <2>1, <3>1, SpeaksBehind
      <3>3. k \in 1..Len(s)
        BY <1>2, <1>3, <2>3
      <3> QED
        BY <1>4, <3>1, <3>2, <3>3
    <2> QED
      BY <2>2, <2>3
  <1>6. ASSUME k <= Len(t)
        PROVE  Related(t[k], u[k])
    <2>1. CASE Len(s) = k - 1
      <3> DEFINE none == <<>>
      <3>1. t[k] = none
        BY <1>6, <2>1 DEF InOrder
      <3>2. none \in Seq(Byte) /\ Len(none) = 0
        BY EmptySeq
      <3> HIDE DEF none
      <3>3. Alike(none, m)
        BY <3>2 DEF Alike
      <3>4. Related(none, m)
        BY <1>2, <3>2, <3>3, AlikeRelated
      <3>5. u[k] = m
        BY <1>2, <1>4, <2>1
      <3> QED
        BY <3>1, <3>4, <3>5
    <2>2. CASE Len(s) # k - 1
      <3>1. Related(t[k], s[k])
        BY <1>6, <2>2 DEF InOrder
      <3>2. k \in 1..Len(s)
        BY <1>2, <1>3, <2>2
      <3> QED
        BY <1>4, <3>1, <3>2
    <2> QED
      BY <2>1, <2>2
  <1>7. k - 1 <= Len(u) /\ Len(u) # k - 1 /\ \A j \in 1 .. k - 1 : t[j] = u[j]
    <2>1. k - 1 <= Len(u) /\ Len(u) # k - 1
      <3> HIDE DEF u, s
      <3> QED
        BY <1>2, <1>3, <1>4
    <2>2. ASSUME NEW j \in 1 .. k - 1 PROVE t[j] = u[j]
      <3>1. j \in 1..Len(s)
        <4> HIDE DEF s
        <4> QED
          BY <1>2, <1>3
      <3> QED
        BY <1>3, <1>4, <3>1
    <2> QED
      BY <2>1, <2>2
  <1>8. /\ k - 1 <= Len(t)
        /\ Len(t) = k - 1 /\ Open(d)' => \E h \in Wordings(d) : u[k] = h /\ Holds(d, h)'
        /\ k <= Len(t) => Related(t[k], u[k])
    BY <1>3, <1>5, <1>6
  <1> QED
    BY <1>1, <1>7, <1>8 DEF InOrder

\* and one from which is read.
LEMMA OrderTakes ==
    ASSUME Base, Spoken, NEW d \in Dirs, NEW k \in Nat \ {0}, InOrder(d, k), Open(d),
           NEW n, NEW v, Takes(d, n, v)
    PROVE  InOrder(d, k)'
  <1> DEFINE s == Said(d)
             t == Taken(d)
             w == Taken(d)'
  <1>1. Said(d)' = s /\ w = Append(t, v) /\ v \in Seq(Byte)
    BY DEF Takes, Heeds
  <1>2. /\ s \in Seq(Wordings(d)) /\ Len(s) \in Nat /\ Len(t) \in Nat /\ t \in Seq(Seq(Byte))
    BY Histories
  <1>3. /\ k - 1 <= Len(s) /\ k - 1 <= Len(t) /\ \A j \in 1 .. k - 1 : t[j] = s[j]
    BY DEF InOrder
  <1>4. /\ Len(w) = Len(t) + 1 /\ w[Len(t) + 1] = v /\ \A i \in 1..Len(t) : w[i] = t[i]
    <2> HIDE DEF w, t
    <2> QED
      BY <1>1, <1>2, Appended
  <1>5. IF Len(s) = k - 1 THEN w[k] = <<>> ELSE Related(w[k], s[k])
    <2>1. CASE Len(t) = k - 1
      <3>1. w[k] = v
        <4> HIDE DEF w, t
        <4> QED
          BY <1>4, <2>1
      <3>2. CASE Len(s) = k - 1
        <4>1. Clear(d)
          BY <2>1, <3>2 DEF InOrder
        <4>2. v = <<>>
          BY <4>1, TakesNothing
        <4> QED
          BY <3>1, <3>2, <4>2
      <3>3. CASE Len(s) # k - 1
        <4>1. PICK h \in Wordings(d) : s[k] = h /\ Holds(d, h)
          BY <2>1, <3>3 DEF InOrder
        <4>2. h \in Typed \cup Answers
          BY DEF Wordings
        <4>3. Related(v, h)
          BY <4>1, <4>2, TakesAlike
        <4> QED
          BY <3>1, <3>3, <4>1, <4>3
      <3> QED
        BY <3>2, <3>3
    <2>2. CASE Len(t) # k - 1
      <3>1. k \in 1..Len(t) /\ k <= Len(t)
        <4> HIDE DEF t
        <4> QED
          BY <1>2, <1>3, <2>2
      <3>2. w[k] = t[k]
        BY <1>4, <3>1
      <3> QED
        BY <3>1, <3>2 DEF InOrder
    <2> QED
      BY <2>1, <2>2
  <1>6. k - 1 <= Len(w) /\ Len(w) # k - 1 /\ \A j \in 1 .. k - 1 : w[j] = s[j]
    <2>1. k - 1 <= Len(w) /\ Len(w) # k - 1
      <3> HIDE DEF w, t
      <3> QED
        BY <1>2, <1>3, <1>4
    <2>2. ASSUME NEW j \in 1 .. k - 1 PROVE w[j] = s[j]
      <3>1. j \in 1..Len(t)
        <4> HIDE DEF t
        <4> QED
          BY <1>2, <1>3
      <3> QED
        BY <1>3, <1>4, <3>1
    <2> QED
      BY <2>1, <2>2
  <1> QED
    BY <1>1, <1>3, <1>5, <1>6 DEF InOrder

-----------------------------------------------------------------------------
(* The steps, seen from one direction *)

\* A request is sent.
LEMMA TypeSpeaks ==
    ASSUME Base, Type
    PROVE  /\ \E m : Speaks("up", m)
           /\ Keeps("down")
           /\ cuts' = cuts /\ bank' = bank /\ fresh' = fresh /\ spoilt' = spoilt
           /\ atm = "prompt"
  <1>1. PICK m \in Typed :
           /\ typed' = Append(typed, m)
           /\ sending' = [sending EXCEPT !["up"] = Enciphered("up", m)]
           /\ line' = IF bank = "closed" THEN line
                      ELSE [line EXCEPT !["up"] = @ \o Text(Enciphered("up", m).out)]
    BY DEF Type
  <1>2. /\ UNCHANGED <<bank, fresh, receiving, heard, answered, shown, cuts, spoilt>>
        /\ atm = "prompt"
    BY DEF Type
  <1>3. "up" \in Dirs /\ "down" \in Dirs /\ "up" # "down"
    BY DEF Dirs
  <1>4. DOMAIN line = Dirs /\ DOMAIN sending = Dirs
    BY DEF Base, DialogueTypeOK
  <1>5. Speaks("up", m)
    <2>1. bank # "closed" => line'["up"] = line["up"] \o Text(Enciphered("up", m).out)
      BY <1>1, <1>3, <1>4
    <2>2. sending'["up"] = Enciphered("up", m)
      BY <1>1, <1>3, <1>4
    <2> QED
      BY <1>1, <1>2, <2>1, <2>2 DEF Speaks, Wordings, Said, Taken, Open
  <1>6. Keeps("down")
    <2>1. line'["down"] = line["down"] /\ sending'["down"] = sending["down"]
      BY <1>1, <1>3, <1>4
    <2> QED
      BY <1>2, <1>3, <2>1 DEF Keeps, Said, Taken
  <1> QED
    BY <1>2, <1>5, <1>6

\* An answer is taken, as much of it as is read.
LEMMA ShowTakes ==
    ASSUME Base, Show
    PROVE  /\ \E n, v : Takes("down", n, v)
           /\ Keeps("up")
           /\ bank' = bank /\ fresh' = fresh /\ spoilt' = spoilt /\ atm = "waiting"
  <1>1. PICK n \in Arrived("down") :
           /\ receiving' = [receiving EXCEPT !["down"] = Deciphered("down", Got("down", n))]
           /\ shown' = Append(shown, Deciphered("down", Got("down", n)).out)
           /\ line' = Rest("down", n)
           /\ Count("down", n)
    BY DEF Show
  <1>2. /\ UNCHANGED <<bank, fresh, sending, typed, heard, answered, spoilt>>
        /\ atm = "waiting"
    BY DEF Show
  <1>3. "up" \in Dirs /\ "down" \in Dirs /\ "up" # "down"
    BY DEF Dirs
  <1>4. DOMAIN line = Dirs /\ DOMAIN receiving = Dirs
    BY DEF Base, DialogueTypeOK
  <1> DEFINE down == "down"
             t == line[down]
             b == Decoding(t)[n].bytes
             c == Deciphered(down, Got(down, n))
  <1>5. t \in Seq(Char) /\ Len(t) \in Nat
    BY <1>3, BaseFacts, TextsAreRead
  <1>6. /\ n \in 1..Len(t) /\ n \in 0..Len(t) /\ n \in Nat /\ cuts \in Nat
        /\ (cuts' = 0 => cuts = 0 /\ n = Len(t))
    <2>1. n \in 1..Len(line["down"])
      BY DEF Arrived
    <2>2. n \in 1..Len(t) /\ n \in 0..Len(t) /\ n \in Nat
      BY <1>5, <2>1
    <2>3. cuts \in Nat
      BY BaseFacts
    <2>4. cuts' = IF n < Len(t) THEN cuts + 1 ELSE cuts
      BY <1>1 DEF Count
    <2> HIDE DEF t
    <2>5. cuts' = 0 => cuts = 0 /\ n = Len(t)
      BY <1>5, <2>2, <2>3, <2>4
    <2> QED
      BY <2>2, <2>3, <2>5
  <1>7. b \in Seq(Byte) /\ Decode(Got(down, n)) = b
    <2> DEFINE none == <<>>
    <2>1. none \in Seq(Char) /\ NoDigits(none, 0)
      BY EmptySeq DEF NoDigits
    <2>2. SubSeq(t, 1, n) \o none = SubSeq(t, 1, n)
      <3> HIDE DEF t
      <3>1. SubSeq(t, 1, n) \in Seq(Char)
        BY <1>5, <1>6, Split
      <3> QED
        BY <3>1, ConcatEmptySeq
    <2> HIDE DEF t, none
    <2>3. Decode(SubSeq(t, 1, n) \o none) = Decoding(t)[n].bytes
      BY <1>5, <1>6, <2>1, PortionRead
    <2>4. Decoding(t)[n].bytes \in Seq(Byte)
      BY <1>5, <1>6, DecodedSoFar
    <2> QED
      BY <2>2, <2>3, <2>4 DEF Got, t
  <1>8. /\ c = Ran(Emptied(receiving[down]), "decrypt", b)
        /\ c.out \in Seq(Byte)
    <2>1. Got(down, n) \in Seq(Char)
      <3> HIDE DEF t
      <3>1. SubSeq(t, 1, n) \in Seq(Char)
        BY <1>5, <1>6, Split
      <3> QED
        BY <3>1 DEF Got, t
    <2>2. down \in Dirs
      BY <1>3
    <2> HIDE DEF down, b
    <2>3. c = Ran(Emptied(receiving[down]), "decrypt", Decode(Got(down, n))) /\ c.out \in Seq(Byte)
      BY <2>1, <2>2, Receives
    <2> QED
      BY <1>7, <2>3
  <1>9. Takes("down", n, c.out)
    <2>1. receiving'["down"] = c
      BY <1>1, <1>3, <1>4
    <2>2. line'["down"] = SubSeq(t, n + 1, Len(t))
      BY <1>1, <1>3, <1>4 DEF Rest
    <2> HIDE DEF c
    <2>3. Len(c.out) \in Nat
      BY <1>8, LenProperties
    <2>4. Heeds("down", c.out, c.out)
      BY <1>8, <2>3 DEF Heeds
    <2>5. shown' = Append(shown, c.out)
      BY <1>1 DEF c
    <2>6. /\ Said("down")' = Said("down") /\ Taken("down")' = Append(Taken("down"), c.out)
          /\ sending'["down"] = sending["down"]
      BY <1>2, <2>5 DEF Said, Taken
    <2>7. receiving'["down"] = Ran(Emptied(receiving["down"]), "decrypt", Decoding(line["down"])[n].bytes)
      BY <1>8, <2>1
    <2>8. Heeds("down", c.out, receiving'["down"].out)
      BY <2>1, <2>4
    <2> QED
      BY <1>6, <2>2, <2>6, <2>7, <2>8 DEF Takes
  <1>10. Keeps("up")
    <2>1. line'["up"] = line["up"] /\ receiving'["up"] = receiving["up"]
      BY <1>1, <1>3, <1>4 DEF Rest
    <2> QED
      BY <1>2, <1>6, <2>1 DEF Keeps, Said, Taken
  <1> QED
    BY <1>2, <1>9, <1>10

\* A request is heard, and what was behind it in data_ is of no value.
LEMMA HearTakes ==
    ASSUME Base, NEW n \in Arrived("up"), NEW tail \in Behind, Hear(n, tail), ~spoilt',
           line'["up"] = Rest("up", n)["up"], sending'["up"] = sending["up"], typed' = typed
    PROVE  /\ Takes("up", n, Understood(Deciphered("up", Got("up", n) \o tail).out, n))
           /\ ~spoilt /\ (cuts' = 0 => cuts = 0)
  <1> DEFINE up == "up"
             t == line[up]
             s == Got(up, n) \o tail
             b == Decoding(t)[n].bytes
             c == Deciphered(up, s)
             v == Understood(c.out, n)
  <1>1. /\ receiving' = [receiving EXCEPT !["up"] = c]
        /\ heard' = Append(heard, v)
        /\ spoilt' = (spoilt \/ \E i \in 1..Len(tail) : tail[i] \in Digit)
        /\ Count("up", n)
    BY DEF Hear
  <1>2. up \in Dirs
    BY DEF Dirs
  <1>3. DOMAIN line = Dirs /\ DOMAIN receiving = Dirs
    BY DEF Base, DialogueTypeOK
  <1>4. t \in Seq(Char) /\ Len(t) \in Nat /\ tail \in Seq(Char)
    BY <1>2, BaseFacts, TextsAreRead, BehindType
  <1>5. /\ n \in 1..Len(t) /\ n \in 0..Len(t) /\ n \in Nat /\ cuts \in Nat
        /\ (cuts' = 0 => cuts = 0 /\ n = Len(t))
    <2>1. n \in 1..Len(line["up"])
      BY DEF Arrived
    <2>2. n \in 1..Len(t) /\ n \in 0..Len(t) /\ n \in Nat
      BY <1>4, <2>1
    <2>3. cuts \in Nat
      BY BaseFacts
    <2>4. cuts' = IF n < Len(t) THEN cuts + 1 ELSE cuts
      BY <1>1 DEF Count
    <2> HIDE DEF t
    <2>5. cuts' = 0 => cuts = 0 /\ n = Len(t)
      BY <1>4, <2>2, <2>3, <2>4
    <2> QED
      BY <2>2, <2>3, <2>5
  <1>6. ~spoilt /\ NoDigits(tail, 0)
    <2>1. ~spoilt /\ \A i \in 1..Len(tail) : tail[i] \notin Digit
      BY <1>1
    <2>2. Len(tail) \in Nat
      BY <1>4, LenProperties
    <2> QED
      BY <2>1, <2>2 DEF NoDigits
  <1>7. b \in Seq(Byte) /\ Decode(s) = b /\ Len(b) <= n /\ Len(b) \in Nat /\ s \in Seq(Char)
    <2> HIDE DEF t
    <2>1. Decode(SubSeq(t, 1, n) \o tail) = Decoding(t)[n].bytes
      BY <1>4, <1>5, <1>6, PortionRead
    <2>2. Decoding(t)[n].bytes \in Seq(Byte) /\ Len(Decoding(t)[n].bytes) <= n
          /\ Len(Decoding(t)[n].bytes) \in Nat
      BY <1>4, <1>5, DecodedSoFar
    <2>3. SubSeq(t, 1, n) \in Seq(Char)
      BY <1>4, <1>5, Split
    <2>4. SubSeq(t, 1, n) \o tail \in Seq(Char)
      BY <1>4, <2>3, ConcatProperties
    <2> QED
      BY <2>1, <2>2, <2>4 DEF Got, t
  <1>8. /\ c = Ran(Emptied(receiving[up]), "decrypt", b)
        /\ c.out \in Seq(Byte) /\ Len(c.out) = Len(b)
    <2> HIDE DEF up, b, s
    <2>1. c = Ran(Emptied(receiving[up]), "decrypt", Decode(s)) /\ c.out \in Seq(Byte)
          /\ Len(c.out) = Len(Decode(s))
      BY <1>2, <1>7, Receives
    <2> QED
      BY <1>7, <2>1
  <1>9. Heeds("up", v, c.out)
    <2> DEFINE o == c.out
    <2>1. o \in Seq(Byte) /\ Len(o) <= n /\ Len(o) \in Nat
      BY <1>7, <1>8
    <2> HIDE DEF o
    <2> DEFINE u == Understood(o, n)
    <2>2. u = CString(o)
      BY <1>5, <2>1, UnderstoodFacts
    <2>3. /\ u \in Seq(Byte) /\ Len(u) \in 0..Len(o)
          /\ \A i \in 1..Len(u) : u[i] = o[i]
          /\ (u = o \/ (Len(u) < Len(o) /\ o[Len(u) + 1] = ZeroByte))
      BY <2>1, <2>2, CStringFacts
    <2> HIDE DEF u
    <2>4. (\A i \in 1..Len(o) : o[i] # ZeroByte) => u = o
      <3> SUFFICES ASSUME \A i \in 1..Len(o) : o[i] # ZeroByte, u # o PROVE FALSE
        OBVIOUS
      <3>1. Len(u) + 1 \in 1..Len(o) /\ o[Len(u) + 1] = ZeroByte
        BY <2>1, <2>3
      <3> QED
        BY <3>1
    <2>5. Len(u) <= Len(o)
      BY <2>1, <2>3
    <2>6. Heeds("up", u, o)
      BY <2>3, <2>4, <2>5 DEF Heeds
    <2> QED
      BY <2>6 DEF u, o
  <1>10. Takes("up", n, v)
    <2>1. receiving'["up"] = c
      BY <1>1, <1>2, <1>3
    <2>2. line'["up"] = SubSeq(t, n + 1, Len(t))
      BY <1>2, <1>3 DEF Rest
    <2> HIDE DEF c, v
    <2>3. Said("up")' = Said("up") /\ Taken("up")' = Append(Taken("up"), v)
      BY <1>1 DEF Said, Taken
    <2>4. receiving'["up"] = Ran(Emptied(receiving["up"]), "decrypt", Decoding(line["up"])[n].bytes)
      BY <1>8, <2>1
    <2>5. Heeds("up", v, receiving'["up"].out)
      BY <1>9, <2>1
    <2> QED
      BY <1>5, <2>2, <2>3, <2>4, <2>5 DEF Takes
  <1> QED
    BY <1>5, <1>6, <1>10

\* A request is taken, and its answer sent.
LEMMA AnswerSpeaks ==
    ASSUME Base, Answer, ~spoilt'
    PROVE  /\ \E n, v, a : Takes("up", n, v) /\ v \in Valid /\ Speaks("down", a)
           /\ ~spoilt /\ ~fresh' /\ bank = "reading" /\ bank' = "writing"
  <1>1. PICK n \in Arrived("up"), tail \in Behind, a \in Answers :
           /\ Understood(Deciphered("up", Got("up", n) \o tail).out, n) \in Valid
           /\ Hear(n, tail)
           /\ answered' = Append(answered, a)
           /\ sending' = [sending EXCEPT !["down"] = Enciphered("down", a)]
           /\ line' = [Rest("up", n) EXCEPT !["down"] =
                          line["down"] \o Text(Enciphered("down", a).out)]
    BY AnswerIsSent
  <1>2. typed' = typed /\ shown' = shown /\ bank = "reading" /\ bank' = "writing"
    BY DEF Answer
  <1>3. "up" \in Dirs /\ "down" \in Dirs /\ "up" # "down"
    BY DEF Dirs
  <1>4. DOMAIN line = Dirs /\ DOMAIN receiving = Dirs /\ DOMAIN sending = Dirs
    BY DEF Base, DialogueTypeOK
  <1>5. line'["up"] = Rest("up", n)["up"] /\ sending'["up"] = sending["up"]
    BY <1>1, <1>3, <1>4 DEF Rest
  <1> DEFINE v == Understood(Deciphered("up", Got("up", n) \o tail).out, n)
  <1>6. Takes("up", n, v) /\ ~spoilt /\ (cuts' = 0 => cuts = 0)
    BY <1>1, <1>2, <1>5, HearTakes
  <1>7. receiving'["down"] = receiving["down"] /\ ~fresh'
    BY <1>1, <1>3, <1>4 DEF Hear
  <1>8. Speaks("down", a)
    <2>1. line'["down"] = line["down"] \o Text(Enciphered("down", a).out)
      BY <1>1, <1>3, <1>4 DEF Rest
    <2>2. sending'["down"] = Enciphered("down", a)
      BY <1>1, <1>3, <1>4
    <2> QED
      BY <1>1, <1>2, <1>6, <1>7, <2>1, <2>2 DEF Speaks, Wordings, Said, Taken
  <1> QED
    BY <1>1, <1>2, <1>6, <1>7, <1>8

\* A request is taken, and the bank closes.
LEMMA RefuseTakes ==
    ASSUME Base, Refuse, ~spoilt'
    PROVE  /\ \E n, v : Takes("up", n, v)
           /\ Keeps("down")
           /\ ~spoilt /\ ~fresh' /\ bank = "reading" /\ bank' = "closed"
  <1>1. PICK n \in Arrived("up"), tail \in Behind : Hear(n, tail) /\ line' = Rest("up", n)
    BY DEF Refuse
  <1>2. /\ UNCHANGED <<atm, sending, typed, answered, shown>>
        /\ bank = "reading" /\ bank' = "closed"
    BY DEF Refuse
  <1>3. "up" \in Dirs /\ "down" \in Dirs /\ "up" # "down"
    BY DEF Dirs
  <1>4. DOMAIN line = Dirs /\ DOMAIN receiving = Dirs
    BY DEF Base, DialogueTypeOK
  <1>5. line'["up"] = Rest("up", n)["up"] /\ sending'["up"] = sending["up"]
    BY <1>1, <1>2
  <1> DEFINE v == Understood(Deciphered("up", Got("up", n) \o tail).out, n)
  <1>6. Takes("up", n, v) /\ ~spoilt /\ (cuts' = 0 => cuts = 0)
    BY <1>1, <1>2, <1>5, HearTakes
  <1>7. receiving'["down"] = receiving["down"] /\ line'["down"] = line["down"] /\ ~fresh'
    BY <1>1, <1>3, <1>4 DEF Hear, Rest
  <1>8. Keeps("down")
    BY <1>2, <1>3, <1>6, <1>7 DEF Keeps, Said, Taken
  <1> QED
    BY <1>2, <1>6, <1>7, <1>8

\* The other steps neither send nor take.
LEMMA RestKeeps ==
    ASSUME Disconnected \/ Quit \/ Written \/ EndOfFile \/ UNCHANGED dialogueVars
    PROVE  /\ \A d \in Dirs : Keeps(d)
           /\ UNCHANGED <<typed, heard, answered, shown, fresh, spoilt, cuts>>
           /\ bank = "closed" => bank' = "closed"
  <1>1. UNCHANGED <<fresh, line, sending, receiving, typed, heard, answered, shown, cuts, spoilt>>
    BY DEF Disconnected, Quit, Written, EndOfFile, dialogueVars, ciphers, histories
  <1>2. ASSUME NEW d \in Dirs PROVE Keeps(d)
    BY <1>1 DEF Keeps, Said, Taken
  <1>3. bank = "closed" => bank' = "closed"
    BY DEF Disconnected, Quit, Written, EndOfFile, dialogueVars
  <1> QED
    BY <1>1, <1>2, <1>3

-----------------------------------------------------------------------------
(* The k-th exchange *)

\* The k-th message of direction d is the last, and alone on the line.
Brings(d, k) == Len(Said(d)) = k /\ \E m \in Wordings(d) : Said(d)[k] = m /\ Carries(d, m)

\* The k-th message was taken, for something else.
Spoiled(d, k) ==
    /\ k <= Len(Taken(d))
    /\ IF k <= Len(Said(d)) THEN Taken(d)[k] # Said(d)[k] ELSE Taken(d)[k] = <<>>

\* The k-th request comes, or is on its way.
Asking(k) ==
    /\ bank # "closed"
    /\ Len(heard) = k - 1 /\ Len(answered) = k - 1 /\ Len(shown) = k - 1
    /\ Len(typed) = k - 1 \/ Brings("up", k)

\* Its answer is on its way; the bank may have read on, after a cut.
Answering(k) ==
    /\ Len(typed) = k /\ k <= Len(heard) /\ heard[k] = typed[k]
    /\ Brings("down", k) /\ Len(shown) = k - 1
    /\ \/ Len(heard) = k /\ (bank # "closed" => Clear("up"))
       \/ Len(heard) = k + 1 /\ heard[k + 1] = <<>> /\ bank = "closed" /\ cuts # 0

\* There will be no answer, but the request was understood if it was read.
Ended(k) ==
    /\ bank = "closed"
    /\ Len(answered) = k - 1 /\ Len(shown) = k - 1
    /\ \/ Len(heard) = k - 1
       \/ Len(heard) = k /\ k <= Len(typed) /\ heard[k] = typed[k]

\* The k-th exchange does not go well any more.
Never(k) == Spoiled("up", k) \/ Spoiled("down", k) \/ (bank = "closed" /\ Len(answered) < k)

\* Where the k-th exchange can be.
Phase(k) == Asking(k) \/ Answering(k) \/ Ended(k) \/ (cuts # 0 /\ Never(k))

\* The exchanges before the k-th went well.
Frontier(k) == InOrder("up", k) /\ InOrder("down", k) /\ Phase(k)

\* Messages are sent, and taken; none is undone.
Grows(d) ==
    /\ Said(d)' = Said(d) \/ \E m \in Wordings(d) : Said(d)' = Append(Said(d), m)
    /\ Taken(d)' = Taken(d) \/ \E v \in Seq(Byte) : Taken(d)' = Append(Taken(d), v)
    /\ cuts' = 0 => cuts = 0

\* A message that was spoilt stays so.
LEMMA SpoiledStays ==
    ASSUME Base, Spoken, NEW d \in Dirs, NEW k \in Nat \ {0}, Spoiled(d, k), Grows(d)
    PROVE  Spoiled(d, k)'
  <1> DEFINE s == Said(d)
             t == Taken(d)
             u == Said(d)'
             w == Taken(d)'
             S == Wordings(d)
  <1>1. /\ s \in Seq(S) /\ Len(s) \in Nat /\ Len(t) \in Nat /\ t \in Seq(Seq(Byte))
        /\ \A m \in S : m # <<>>
    BY Histories
  <1>2. k <= Len(t) /\ IF k <= Len(s) THEN t[k] # s[k] ELSE t[k] = <<>>
    BY DEF Spoiled
  <1>3. k <= Len(w) /\ w[k] = t[k]
    <2>1. CASE w = t
      BY <1>2, <2>1
    <2>2. ASSUME NEW v \in Seq(Byte), w = Append(t, v) PROVE k <= Len(w) /\ w[k] = t[k]
      <3> HIDE DEF t, w
      <3>1. Len(w) = Len(t) + 1 /\ \A i \in 1..Len(t) : w[i] = t[i]
        BY <1>1, <2>2, Appended
      <3>2. k \in 1..Len(t)
        BY <1>1, <1>2
      <3> QED
        BY <1>1, <3>1, <3>2
    <2> QED
      BY <2>1, <2>2 DEF Grows
  <1>4. IF k <= Len(u) THEN t[k] # u[k] ELSE t[k] = <<>>
    <2>1. CASE u = s
      BY <1>2, <2>1
    <2>2. ASSUME NEW m \in S, u = Append(s, m)
          PROVE  IF k <= Len(u) THEN t[k] # u[k] ELSE t[k] = <<>>
      <3> HIDE DEF s, u, S, t
      <3>1. Len(u) = Len(s) + 1 /\ u[Len(s) + 1] = m /\ \A i \in 1..Len(s) : u[i] = s[i]
        BY <1>1, <2>2, Appended
      <3>2. CASE k <= Len(s)
        <4>1. k \in 1..Len(s) /\ k <= Len(u)
          BY <1>1, <3>1, <3>2
        <4> QED
          BY <1>2, <3>1, <3>2, <4>1
      <3>3. CASE ~(k <= Len(s))
        <4>1. k <= Len(u) => k = Len(s) + 1
          BY <1>1, <3>1, <3>3
        <4> QED
          BY <1>1, <1>2, <3>1, <3>3, <4>1
      <3> QED
        BY <3>2, <3>3
    <2> QED
      BY <2>1, <2>2 DEF Grows
  <1> QED
    BY <1>3, <1>4 DEF Spoiled

\* A message alone on the line stays so while nothing happens.
LEMMA BringsKeeps ==
    ASSUME NEW d \in Dirs, NEW k, Brings(d, k), Keeps(d)
    PROVE  Brings(d, k)'
  <1>1. PICK m \in Wordings(d) : Said(d)[k] = m /\ Carries(d, m)
    BY DEF Brings
  <1>2. Carries(d, m)'
    BY <1>1, KeepsLine
  <1>3. Said(d)' = Said(d) /\ Wordings(d)' = Wordings(d)
    BY DEF Keeps, Wordings
  <1> QED
    BY <1>1, <1>2, <1>3 DEF Brings

\* A message sent while the line is clear is alone on it.
LEMMA BringsSpeaks ==
    ASSUME Base, Spoken, NEW d \in Dirs, NEW k \in Nat \ {0}, Len(Said(d)) = k - 1,
           NEW m, Speaks(d, m), Open(d), Clear(d)
    PROVE  Brings(d, k)'
  <1> DEFINE s == Said(d)
             u == Said(d)'
             S == Wordings(d)
  <1>1. s \in Seq(S) /\ m \in S /\ u = Append(s, m) /\ Wordings(d)' = S
    BY Histories DEF Speaks, Wordings
  <1>2. Len(u) = k /\ u[k] = m
    <2> HIDE DEF s, u, S
    <2>1. Len(s) \in Nat /\ Len(u) = Len(s) + 1 /\ u[Len(s) + 1] = m
      BY <1>1, Appended
    <2>2. Len(s) = k - 1
      BY DEF s
    <2> QED
      BY <2>1, <2>2
  <1>3. Carries(d, m)'
    BY SpeaksClear
  <1> QED
    BY <1>1, <1>2, <1>3 DEF Brings

\* The k-th message is taken as it was sent, and the ends are in step again, or a read was cut.
LEMMA Taking ==
    ASSUME Base, Spoken, NEW d \in Dirs, NEW k \in Nat \ {0}, InOrder(d, k), Open(d),
           NEW n, NEW v, Takes(d, n, v), Len(Taken(d)) = k - 1,
           Len(Said(d)) = k - 1 \/ Brings(d, k)
    PROVE  /\ Said(d)' = Said(d) /\ Len(Taken(d)') = k /\ Taken(d)'[k] = v
           /\ \/ Len(Said(d)) = k /\ Taken(d)'[k] = Said(d)[k] /\ Clear(d)'
              \/ Spoiled(d, k)' /\ cuts' # 0
           /\ Len(Said(d)) = k - 1 => v = <<>> /\ cuts' # 0
  <1> DEFINE s == Said(d)
             t == Taken(d)
             w == Taken(d)'
  <1>1. Said(d)' = s /\ w = Append(t, v) /\ v \in Seq(Byte)
    BY DEF Takes, Heeds
  <1>2. Len(s) \in Nat /\ t \in Seq(Seq(Byte))
    BY Histories
  <1>3. Len(w) = k /\ w[k] = v
    <2> HIDE DEF w, t
    <2>1. Len(t) \in Nat /\ Len(w) = Len(t) + 1 /\ w[Len(t) + 1] = v
      BY <1>1, <1>2, Appended
    <2>2. Len(t) = k - 1
      BY DEF t
    <2> QED
      BY <2>1, <2>2
  <1>4. CASE Len(s) = k - 1
    <2>1. Clear(d)
      BY <1>4 DEF InOrder
    <2>2. v = <<>> /\ cuts' # 0
      BY <2>1, TakesNothing
    <2>3. ~(k <= Len(s))
      BY <1>4
    <2> QED
      BY <1>1, <1>3, <2>2, <2>3 DEF Spoiled
  <1>5. CASE Brings(d, k)
    <2>1. PICK m \in Wordings(d) : s[k] = m /\ Carries(d, m)
      BY <1>5 DEF Brings
    <2>2. (v = m => Clear(d)') /\ (cuts' = 0 => v = m)
      BY <2>1, TakesWell
    <2>3. Len(s) = k /\ k <= k
      BY <1>5 DEF Brings
    <2> QED
      BY <1>1, <1>3, <2>1, <2>2, <2>3 DEF Spoiled
  <1> QED
    BY <1>4, <1>5

\* The steps of a direction only add to it.
LEMMA AllGrow ==
    ASSUME NEW d \in Dirs, NEW m, NEW n, NEW v,
           Keeps(d) \/ Speaks(d, m) \/ Takes(d, n, v)
    PROVE  Grows(d)
  <1>1. CASE Keeps(d)
    BY <1>1 DEF Keeps, Grows
  <1>2. CASE Speaks(d, m)
    BY <1>2 DEF Speaks, Grows
  <1>3. CASE Takes(d, n, v)
    BY <1>3 DEF Takes, Heeds, Grows
  <1> QED
    BY <1>1, <1>2, <1>3

\* What went wrong stays so.
LEMMA NeverStays ==
    ASSUME Base, Spoken, NEW k \in Nat \ {0}, cuts # 0, Never(k), Grows("up"), Grows("down"),
           bank = "closed" => bank' = "closed" /\ answered' = answered
    PROVE  cuts' # 0 /\ Never(k)'
  <1>1. "up" \in Dirs /\ "down" \in Dirs
    BY DEF Dirs
  <1>2. cuts' # 0
    BY DEF Grows
  <1>3. CASE Spoiled("up", k)
    <2>1. Spoiled("up", k)'
      BY <1>1, <1>3, SpoiledStays
    <2> QED
      BY <1>2, <2>1 DEF Never
  <1>4. CASE Spoiled("down", k)
    <2>1. Spoiled("down", k)'
      BY <1>1, <1>4, SpoiledStays
    <2> QED
      BY <1>2, <2>1 DEF Never
  <1>5. CASE bank = "closed" /\ Len(answered) < k
    BY <1>2, <1>5 DEF Never
  <1> QED
    BY <1>3, <1>4, <1>5 DEF Never

\* The k-th exchange went well in direction d.
LEMMA OrderNext ==
    ASSUME NEW d \in Dirs, NEW k \in Nat \ {0}, InOrder(d, k)', Len(Said(d)') = k,
           NEW l, l = Len(Taken(d)'), l \in Nat, k <= l, Taken(d)'[k] = Said(d)'[k],
           l = k /\ Open(d)' => Clear(d)', k + 1 <= l => Taken(d)'[k + 1] = <<>>
    PROVE  InOrder(d, k + 1)'
  <1> DEFINE t == Taken(d)'
             s == Said(d)'
  <1>1. \A j \in 1 .. k - 1 : t[j] = s[j]
    BY DEF InOrder
  <1>2. (k + 1) - 1 = k
    OBVIOUS
  <1>3. \A j \in 1 .. (k + 1) - 1 : t[j] = s[j]
    <2> SUFFICES ASSUME NEW j \in 1..k PROVE t[j] = s[j]
      BY <1>2
    <2>1. j = k \/ j \in 1 .. k - 1
      OBVIOUS
    <2> QED
      BY <1>1, <2>1
  <1> QED
    BY <1>2, <1>3 DEF InOrder

\* The k-th exchange goes through its phases: a request is typed,
LEMMA FrontierType ==
    ASSUME Base, Spoken, NEW k \in Nat \ {0}, Frontier(k), Type
    PROVE  Frontier(k)'
  <1>1. PICK m : Speaks("up", m)
    BY TypeSpeaks
  <1>2. Keeps("down") /\ cuts' = cuts /\ bank' = bank /\ atm = "prompt"
    BY TypeSpeaks
  <1>3. "up" \in Dirs /\ "down" \in Dirs
    BY DEF Dirs
  <1>4. InOrder("up", k) /\ InOrder("down", k)
    BY DEF Frontier
  <1>5. Open("up")' => Open("up")
    BY <1>2 DEF Open
  <1>6. InOrder("up", k)'
    BY <1>1, <1>3, <1>4, <1>5, OrderSpeaks
  <1>7. InOrder("down", k)'
    BY <1>2, <1>3, <1>4, OrderKeeps DEF Open
  <1>8. /\ typed' = Append(typed, m) /\ heard' = heard /\ answered' = answered /\ shown' = shown
        /\ Len(typed) = Len(shown) /\ Len(typed) \in Nat /\ Len(heard) \in Nat
    <2>1. Len(typed) = Len(shown)
      BY <1>2 DEF Base, Waits
    <2> QED
      BY <1>1, <1>2, <2>1, BaseFacts DEF Speaks, Keeps, Said, Taken
  <1>9. ASSUME Asking(k) PROVE Phase(k)'
    <2>1. Len(typed) = k - 1 /\ bank # "closed" /\ Len(heard) = k - 1
      BY <1>8, <1>9 DEF Asking
    <2>2. Clear("up") /\ Open("up") /\ Len(Said("up")) = k - 1
      BY <1>4, <2>1 DEF InOrder, Open, Said, Taken
    <2>3. Brings("up", k)'
      BY <1>1, <1>3, <2>2, BringsSpeaks
    <2>4. Asking(k)'
      BY <1>2, <1>8, <1>9, <2>3 DEF Asking
    <2> QED
      BY <2>4 DEF Phase
  <1>10. ASSUME Answering(k) PROVE Phase(k)'
    <2>1. Len(typed) = k /\ Len(shown) = k - 1
      BY <1>10 DEF Answering
    <2>2. Len(typed) = Len(shown)
      BY <1>8
    <2>3. k = k - 1
      BY <2>1, <2>2
    <2> QED
      BY <2>3
  <1>11. ASSUME Ended(k) PROVE Phase(k)'
    <2>1. k <= Len(typed) => k <= Len(typed') /\ typed'[k] = typed[k]
      <3>1. typed \in Seq(Wordings("up")) /\ m \in Wordings("up")
        BY <1>1, <1>3, Histories DEF Speaks, Said
      <3>2. Len(typed') = Len(typed) + 1 /\ \A i \in 1..Len(typed) : typed'[i] = typed[i]
        BY <1>8, <3>1, Appended
      <3> QED
        BY <1>8, <3>2
    <2>2. Ended(k)'
      BY <1>2, <1>8, <1>11, <2>1 DEF Ended
    <2> QED
      BY <2>2 DEF Phase
  <1>12. ASSUME cuts # 0 /\ Never(k) PROVE Phase(k)'
    <2>1. Grows("up") /\ Grows("down")
      BY <1>1, <1>2, <1>3, AllGrow
    <2>2. cuts' # 0 /\ Never(k)'
      BY <1>2, <1>8, <1>12, <2>1, NeverStays
    <2> QED
      BY <2>2 DEF Phase
  <1>13. Phase(k)'
    BY <1>9, <1>10, <1>11, <1>12 DEF Frontier, Phase
  <1> QED
    BY <1>6, <1>7, <1>13 DEF Frontier

\* the bank goes back to reading, or an end leaves,
LEMMA FrontierRest ==
    ASSUME Base, Spoken, NEW k \in Nat \ {0}, Frontier(k),
           Disconnected \/ Quit \/ Written \/ EndOfFile \/ UNCHANGED dialogueVars
    PROVE  Frontier(k)'
  <1>1. /\ \A d \in Dirs : Keeps(d)
        /\ UNCHANGED <<typed, heard, answered, shown, cuts>>
        /\ bank = "closed" => bank' = "closed"
    BY RestKeeps
  <1>2. "up" \in Dirs /\ "down" \in Dirs
    BY DEF Dirs
  <1>3. InOrder("up", k)' /\ InOrder("down", k)'
    <2>1. \A d \in Dirs : Open(d)' => Open(d)
      BY <1>1 DEF Open
    <2> QED
      BY <1>1, <1>2, <2>1, OrderKeeps DEF Frontier
  <1>4. ASSUME Asking(k) PROVE Phase(k)'
    <2>1. CASE bank' = "closed"
      <3>1. Ended(k)'
        BY <1>1, <1>4, <2>1 DEF Asking, Ended
      <3> QED
        BY <3>1 DEF Phase
    <2>2. CASE bank' # "closed"
      <3>1. Brings("up", k) => Brings("up", k)'
        BY <1>1, <1>2, BringsKeeps
      <3>2. Asking(k)'
        BY <1>1, <1>4, <2>2, <3>1 DEF Asking
      <3> QED
        BY <3>2 DEF Phase
    <2> QED
      BY <2>1, <2>2
  <1>5. ASSUME Answering(k) PROVE Phase(k)'
    <2>1. Brings("down", k)'
      BY <1>1, <1>2, <1>5, BringsKeeps DEF Answering
    <2>2. Clear("up") => Clear("up")'
      BY <1>1, <1>2, KeepsLine
    <2>3. Answering(k)'
      BY <1>1, <1>5, <2>1, <2>2 DEF Answering
    <2> QED
      BY <2>3 DEF Phase
  <1>6. ASSUME Ended(k) PROVE Phase(k)'
    <2>1. Ended(k)'
      BY <1>1, <1>6 DEF Ended
    <2> QED
      BY <2>1 DEF Phase
  <1>7. ASSUME cuts # 0 /\ Never(k) PROVE Phase(k)'
    <2>1. Grows("up") /\ Grows("down")
      BY <1>1, <1>2, AllGrow
    <2>2. cuts' # 0 /\ Never(k)'
      BY <1>1, <1>7, <2>1, NeverStays
    <2> QED
      BY <2>2 DEF Phase
  <1>8. Phase(k)'
    BY <1>4, <1>5, <1>6, <1>7 DEF Frontier, Phase
  <1> QED
    BY <1>3, <1>8 DEF Frontier

\* the answer is shown, and the next exchange begins if it is the right one,
LEMMA FrontierShow ==
    ASSUME Base, Spoken, NEW k \in Nat \ {0}, Frontier(k), Show
    PROVE  \E j \in Nat \ {0} : Frontier(j)'
  <1>1. PICK n, v : Takes("down", n, v)
    BY ShowTakes
  <1>2. Keeps("up") /\ bank' = bank /\ atm = "waiting"
    BY ShowTakes
  <1>3. "up" \in Dirs /\ "down" \in Dirs
    BY DEF Dirs
  <1>4. InOrder("up", k) /\ InOrder("down", k) /\ Open("down")
    BY DEF Frontier, Open
  <1>5. InOrder("up", k)'
    BY <1>2, <1>3, <1>4, OrderKeeps DEF Open
  <1>6. InOrder("down", k)'
    BY <1>1, <1>3, <1>4, OrderTakes
  <1>7. /\ typed' = typed /\ heard' = heard /\ answered' = answered /\ (cuts' = 0 => cuts = 0)
        /\ Len(typed) \in Nat /\ Len(heard) \in Nat
    BY <1>1, <1>2, BaseFacts DEF Takes, Keeps, Said, Taken
  <1>8. ASSUME Asking(k) \/ Ended(k) PROVE Phase(k)'
    <2>1. Len(Taken("down")) = k - 1 /\ Len(Said("down")) = k - 1 /\ Len(Said("down")) # k
      BY <1>8 DEF Asking, Ended, Said, Taken
    <2>2. Spoiled("down", k)' /\ cuts' # 0
      BY <1>1, <1>3, <1>4, <2>1, Taking
    <2> QED
      BY <2>2 DEF Phase, Never
  <1>9. ASSUME cuts # 0 /\ Never(k) PROVE Phase(k)'
    <2>1. Grows("up") /\ Grows("down")
      BY <1>1, <1>2, <1>3, AllGrow
    <2>2. cuts' # 0 /\ Never(k)'
      BY <1>2, <1>7, <1>9, <2>1, NeverStays
    <2> QED
      BY <2>2 DEF Phase
  <1>10. ASSUME Answering(k) PROVE Phase(k)' \/ Frontier(k + 1)'
    <2>1. Len(Taken("down")) = k - 1 /\ Len(Said("down")) = k /\ Brings("down", k)
      BY <1>10 DEF Answering, Brings, Taken
    <2>2. /\ Len(shown') = k
          /\ \/ shown'[k] = answered[k] /\ Clear("down")'
             \/ Spoiled("down", k)' /\ cuts' # 0
      BY <1>1, <1>3, <1>4, <2>1, Taking DEF Said, Taken
    <2>3. CASE Spoiled("down", k)' /\ cuts' # 0
      BY <2>3 DEF Phase, Never
    <2>4. CASE shown'[k] = answered[k] /\ Clear("down")'
      <3> DEFINE l == Len(heard)
      <3>1. /\ Len(typed) = k /\ k <= l /\ heard[k] = typed[k]
            /\ \/ l = k /\ (bank # "closed" => Clear("up"))
               \/ l = k + 1 /\ heard[k + 1] = <<>> /\ bank = "closed" /\ cuts # 0
        BY <1>10 DEF Answering
      <3>3. InOrder("up", k + 1)'
        <4>1. Len(Said("up")') = k /\ l = Len(Taken("up")') /\ Taken("up")'[k] = Said("up")'[k]
          BY <1>7, <3>1 DEF Said, Taken
        <4>2. l = k /\ Open("up")' => Clear("up")'
          <5>1. Clear("up") => Clear("up")'
            BY <1>2, <1>3, KeepsLine
          <5>2. k # k + 1
            OBVIOUS
          <5> QED
            BY <1>2, <3>1, <5>1, <5>2 DEF Open
        <4>3. k + 1 <= l => Taken("up")'[k + 1] = <<>>
          <5>1. k + 1 <= l => l # k
            BY <1>7
          <5> QED
            BY <1>7, <3>1, <5>1 DEF Taken
        <4>4. l \in Nat
          BY <1>7
        <4> HIDE DEF l
        <4> QED
          BY <1>3, <1>5, <3>1, <4>1, <4>2, <4>3, <4>4, OrderNext
      <3>4. InOrder("down", k + 1)'
        <4> DEFINE z == Len(shown')
        <4>1. /\ Len(Said("down")') = k /\ z = Len(Taken("down")')
              /\ Taken("down")'[k] = Said("down")'[k]
          BY <1>7, <2>1, <2>4 DEF Said, Taken
        <4>2. z = k /\ z \in Nat /\ k <= z /\ ~(k + 1 <= z)
          BY <2>2
        <4> HIDE DEF z
        <4> QED
          BY <1>3, <1>6, <2>4, <4>1, <4>2, OrderNext
      <3>5. Phase(k + 1)'
        <4>1. Len(answered') = k /\ Len(typed') = k /\ Len(heard') = l /\ bank' = bank
              /\ Len(answered') < k + 1 /\ (k + 1) - 1 = k
          BY <1>2, <1>7, <2>1, <3>1 DEF Said
        <4>2. CASE l = k /\ bank # "closed"
          <5>1. Asking(k + 1)'
            BY <2>2, <4>1, <4>2 DEF Asking
          <5> QED
            BY <5>1 DEF Phase
        <4>3. CASE l = k /\ bank = "closed"
          <5>1. Ended(k + 1)'
            BY <2>2, <4>1, <4>3 DEF Ended
          <5> QED
            BY <5>1 DEF Phase
        <4>4. CASE bank = "closed" /\ cuts # 0
          BY <1>7, <4>1, <4>4 DEF Phase, Never
        <4> QED
          BY <3>1, <4>2, <4>3, <4>4
      <3> QED
        BY <3>3, <3>4, <3>5 DEF Frontier
    <2> QED
      BY <2>2, <2>3, <2>4
  <1>11. Phase(k)' \/ Frontier(k + 1)'
    BY <1>8, <1>9, <1>10 DEF Frontier, Phase
  <1>12. k + 1 \in Nat \ {0}
    OBVIOUS
  <1>13. Frontier(k)' \/ Frontier(k + 1)'
    BY <1>5, <1>6, <1>11 DEF Frontier
  <1> QED
    BY <1>12, <1>13

\* the request is heard and answered,
LEMMA FrontierAnswer ==
    ASSUME Base, Spoken, NEW k \in Nat \ {0}, Frontier(k), Answer, ~spoilt'
    PROVE  Frontier(k)'
  <1>1. PICK n, v, a : Takes("up", n, v) /\ v \in Valid /\ Speaks("down", a)
    BY AnswerSpeaks
  <1>2. bank = "reading" /\ bank' = "writing"
    BY AnswerSpeaks
  <1>3. "up" \in Dirs /\ "down" \in Dirs
    BY DEF Dirs
  <1>4. InOrder("up", k) /\ InOrder("down", k) /\ Open("down") /\ Open("up") /\ v # <<>>
    BY <1>1, <1>2, DialogueAssumption DEF Frontier, Open
  <1>5. InOrder("up", k)'
    BY <1>1, <1>3, <1>4, OrderTakes
  <1>6. InOrder("down", k)'
    BY <1>1, <1>3, <1>4, OrderSpeaks DEF Open
  <1>7. /\ typed' = typed /\ shown' = shown /\ (cuts' = 0 => cuts = 0)
        /\ Len(answered) \in Nat
    BY <1>1, BaseFacts DEF Takes, Speaks, Said, Taken
  <1>8. ASSUME Asking(k) PROVE Phase(k)'
    <2>1. /\ Len(Taken("up")) = k - 1 /\ (Len(Said("up")) = k - 1 \/ Brings("up", k))
          /\ Len(answered) = k - 1 /\ Len(shown) = k - 1
      BY <1>8 DEF Asking, Said, Taken
    <2>2. /\ Len(heard') = k
          /\ \/ Len(typed) = k /\ heard'[k] = typed[k] /\ Clear("up")'
             \/ Spoiled("up", k)' /\ cuts' # 0
      BY <1>1, <1>3, <1>4, <2>1, Taking DEF Said, Taken
    <2>3. CASE Spoiled("up", k)' /\ cuts' # 0
      BY <2>3 DEF Phase, Never
    <2>4. CASE Len(typed) = k /\ heard'[k] = typed[k] /\ Clear("up")'
      <3>1. Clear("down") /\ Len(Said("down")) = k - 1
        BY <1>4, <2>1 DEF InOrder, Said, Taken
      <3>2. Brings("down", k)'
        BY <1>1, <1>3, <1>4, <3>1, BringsSpeaks
      <3>3. k <= Len(heard')
        BY <2>2
      <3>4. Answering(k)'
        BY <1>7, <2>1, <2>2, <2>4, <3>2, <3>3 DEF Answering
      <3> QED
        BY <3>4 DEF Phase
    <2> QED
      BY <2>2, <2>3, <2>4
  <1>9. ~Answering(k) /\ ~Ended(k)
    <2>1. ~Clear("up")
      BY <1>1, <1>3, <1>4, TakesNothing
    <2> QED
      BY <1>2, <2>1 DEF Answering, Ended
  <1>10. ASSUME cuts # 0 /\ Never(k) PROVE Phase(k)'
    <2>1. Grows("up") /\ Grows("down")
      BY <1>1, <1>3, AllGrow
    <2>2. cuts' # 0 /\ Never(k)'
      BY <1>2, <1>10, <2>1, NeverStays
    <2> QED
      BY <2>2 DEF Phase
  <1>11. Phase(k)'
    BY <1>8, <1>9, <1>10 DEF Frontier, Phase
  <1> QED
    BY <1>5, <1>6, <1>11 DEF Frontier

\* or it is refused.
LEMMA FrontierRefuse ==
    ASSUME Base, Spoken, NEW k \in Nat \ {0}, Frontier(k), Refuse, ~spoilt'
    PROVE  Frontier(k)'
  <1>1. PICK n, v : Takes("up", n, v)
    BY RefuseTakes
  <1>2. Keeps("down") /\ bank = "reading" /\ bank' = "closed"
    BY RefuseTakes
  <1>3. "up" \in Dirs /\ "down" \in Dirs
    BY DEF Dirs
  <1>4. InOrder("up", k) /\ InOrder("down", k) /\ Open("up")
    BY <1>2 DEF Frontier, Open
  <1>5. InOrder("up", k)'
    BY <1>1, <1>3, <1>4, OrderTakes
  <1>6. InOrder("down", k)'
    BY <1>2, <1>3, <1>4, OrderKeeps DEF Open
  <1>7. /\ typed' = typed /\ shown' = shown /\ answered' = answered /\ (cuts' = 0 => cuts = 0)
        /\ heard' = Append(heard, v) /\ v \in Seq(Byte) /\ heard \in Seq(Seq(Byte))
    BY <1>1, <1>2, BaseFacts DEF Takes, Heeds, Keeps, Said, Taken
  <1>8. ASSUME Asking(k) PROVE Phase(k)'
    <2>1. /\ Len(Taken("up")) = k - 1 /\ (Len(Said("up")) = k - 1 \/ Brings("up", k))
          /\ Len(answered) = k - 1 /\ Len(shown) = k - 1
      BY <1>8 DEF Asking, Said, Taken
    <2>2. /\ Len(heard') = k
          /\ \/ Len(typed) = k /\ heard'[k] = typed[k]
             \/ Spoiled("up", k)' /\ cuts' # 0
      BY <1>1, <1>3, <1>4, <2>1, Taking DEF Said, Taken
    <2>3. CASE Spoiled("up", k)' /\ cuts' # 0
      BY <2>3 DEF Phase, Never
    <2>4. CASE Len(typed) = k /\ heard'[k] = typed[k]
      <3>1. k <= Len(typed)
        BY <2>4
      <3>2. Ended(k)'
        BY <1>2, <1>7, <2>1, <2>2, <2>4, <3>1 DEF Ended
      <3> QED
        BY <3>2 DEF Phase
    <2> QED
      BY <2>2, <2>3, <2>4
  <1>9. ASSUME Answering(k) PROVE Phase(k)'
    <2>1. /\ Len(typed) = k /\ heard[k] = typed[k] /\ Brings("down", k) /\ Len(shown) = k - 1
          /\ Len(heard) = k /\ Clear("up")
      BY <1>2, <1>9 DEF Answering
    <2>2. v = <<>> /\ cuts' # 0
      BY <1>1, <1>3, <2>1, TakesNothing
    <2>3. Brings("down", k)'
      BY <1>2, <1>3, <2>1, BringsKeeps
    <2>4. /\ Len(heard') = Len(heard) + 1 /\ heard'[Len(heard) + 1] = v
          /\ \A i \in 1..Len(heard) : heard'[i] = heard[i]
      BY <1>7, Appended
    <2>5. Len(heard') = k + 1 /\ heard'[k + 1] = <<>> /\ heard'[k] = heard[k] /\ k <= Len(heard')
      BY <2>1, <2>2, <2>4
    <2>6. Answering(k)'
      BY <1>2, <1>7, <2>1, <2>2, <2>3, <2>5 DEF Answering
    <2> QED
      BY <2>6 DEF Phase
  <1>10. ~Ended(k)
    BY <1>2 DEF Ended
  <1>11. ASSUME cuts # 0 /\ Never(k) PROVE Phase(k)'
    <2>1. Grows("up") /\ Grows("down")
      BY <1>1, <1>2, <1>3, AllGrow
    <2>2. cuts' # 0 /\ Never(k)'
      BY <1>2, <1>11, <2>1, NeverStays
    <2> QED
      BY <2>2 DEF Phase
  <1>12. Phase(k)'
    BY <1>8, <1>9, <1>10, <1>11 DEF Frontier, Phase
  <1> QED
    BY <1>5, <1>6, <1>12 DEF Frontier

\* The first request begins what was heard first.
Begun == cuts = 0 /\ heard # <<>> => typed # <<>> /\ IsPrefix(typed[1], heard[1])

\* The inductive invariant of the course of the dialogue, together with Base.
Course ==
    /\ Spoken
    /\ fresh <=> heard = <<>>
    /\ fresh => ~spoilt
    /\ ~spoilt => \E k \in Nat \ {0} : Frontier(k)
    /\ Begun

\* It holds at the beginning.
LEMMA CourseInit ==
    ASSUME DialogueInit
    PROVE  Course
  <1>1. /\ bank = "reading" /\ fresh = TRUE /\ spoilt = FALSE /\ cuts = 0
        /\ typed = <<>> /\ heard = <<>> /\ answered = <<>> /\ shown = <<>>
        /\ line = [d \in Dirs |-> <<>>]
        /\ sending = [d \in Dirs |-> Resynchronize(IV)]
        /\ receiving = [d \in Dirs |-> Resynchronize(IV)]
    BY DEF DialogueInit
  <1>2. "up" \in Dirs /\ "down" \in Dirs
    BY DEF Dirs
  <1> DEFINE none == <<>>
             one == 1
  <1>3. Len(none) = 0 /\ \A S : none \in Seq(S)
    BY EmptySeq
  <1>4. \A d \in Dirs : Said(d) = none /\ Taken(d) = none /\ line[d] = none
    BY <1>1 DEF Said, Taken
  <1>5. Spoken
    <2> HIDE DEF none
    <2> QED
      BY <1>3, <1>4 DEF Spoken
  <1>6. \A d \in Dirs : Clear(d)
    <2> SUFFICES ASSUME NEW d \in Dirs PROVE Clear(d)
      OBVIOUS
    <2>1. InStep(sending[d], receiving[d])
      BY <1>1 DEF InStep
    <2>2. NoDigits(none, 0)
      <3> HIDE DEF none
      <3> QED
        BY <1>3 DEF NoDigits
    <2> QED
      BY <1>4, <2>1, <2>2 DEF Clear
  <1>7. one \in Nat \ {0} /\ one - 1 = 0 /\ ~(one <= 0) /\ 1 .. one - 1 = {}
    OBVIOUS
  <1>8. \A d \in Dirs : InOrder(d, one)
    <2> SUFFICES ASSUME NEW d \in Dirs PROVE InOrder(d, one)
      OBVIOUS
    <2>1. Len(Said(d)) = 0 /\ Len(Taken(d)) = 0
      BY <1>3, <1>4
    <2> HIDE DEF one
    <2> QED
      BY <1>6, <1>7, <2>1 DEF InOrder
  <1>9. Asking(one)
    <2>1. Len(typed) = 0 /\ Len(heard) = 0 /\ Len(answered) = 0 /\ Len(shown) = 0
      BY <1>1, <1>3
    <2> HIDE DEF one
    <2> QED
      BY <1>1, <1>7, <2>1 DEF Asking
  <1>10. Frontier(one)
    BY <1>2, <1>8, <1>9 DEF Frontier, Phase
  <1>11. Begun
    BY <1>1 DEF Begun
  <1> HIDE DEF one
  <1> QED
    BY <1>1, <1>5, <1>7, <1>10, <1>11 DEF Course

\* What is said is in the wording of its direction, after every step.
LEMMA SpokenNext ==
    ASSUME Spoken, [DialogueNext]_dialogueVars
    PROVE  Spoken'
  <1>1. typed \in Seq(Typed) /\ answered \in Seq(Answers)
    BY DEF Spoken, Dirs, Said, Wordings
  <1>2. typed' \in Seq(Typed)
    <2>1. typed' = typed \/ \E m \in Typed : typed' = Append(typed, m)
      BY DEF DialogueNext, dialogueVars, histories, Type, Show, Disconnected, Quit, Answer, Written,
             Refuse, EndOfFile
    <2> QED
      BY <1>1, <2>1, Appended
  <1>3. answered' \in Seq(Answers)
    <2>1. answered' = answered \/ \E m \in Answers : answered' = Append(answered, m)
      BY DEF DialogueNext, dialogueVars, histories, Type, Show, Disconnected, Quit, Answer, Written,
             Refuse, EndOfFile
    <2> QED
      BY <1>1, <2>1, Appended
  <1> QED
    BY <1>2, <1>3 DEF Spoken, Dirs, Said, Wordings

\* The request that is heard first, if no read was cut: whatever was behind it in data_ is
\* taken for more of it.
LEMMA FirstHeard ==
    ASSUME Base, Spoken, NEW k \in Nat \ {0}, Frontier(k), heard = <<>>, bank = "reading",
           NEW n \in Arrived("up"), NEW tail \in Behind, Hear(n, tail), cuts' = 0
    PROVE  typed # <<>> /\ IsPrefix(typed[1], heard'[1])
  <1> DEFINE t == line["up"]
             s == Got("up", n) \o tail
             c == receiving["up"]
             y == Decode(s)
             o == Deciphered("up", s).out
             v == Understood(o, n)
  <1>1. "up" \in Dirs
    BY DEF Dirs
  <1>2. /\ t \in Seq(Char) /\ Len(t) \in Nat /\ tail \in Seq(Char) /\ c \in Ciphers
        /\ cuts \in Nat
    BY <1>1, BaseFacts, TextsAreRead, BehindType
  <1>3. n \in 1..Len(t) /\ n = Len(t) /\ cuts = 0
    <2>1. n \in 1..Len(t)
      BY DEF Arrived
    <2>2. cuts' = IF n < Len(t) THEN cuts + 1 ELSE cuts
      BY DEF Hear, Count
    <2> HIDE DEF t
    <2> QED
      BY <1>2, <2>1, <2>2
  <1>4. k = 1
    <2>1. k - 1 <= Len(heard)
      BY DEF Frontier, InOrder, Taken
    <2>2. Len(heard) = 0
      BY EmptySeq
    <2> QED
      BY <2>1, <2>2
  <1>5. Asking(k)
    <2>1. Len(heard) = 0
      BY EmptySeq
    <2>2. ~Answering(k) /\ ~Ended(k)
      BY <1>4, <2>1 DEF Answering, Ended
    <2> QED
      BY <1>3, <2>2 DEF Frontier, Phase
  <1>6. Brings("up", k)
    <2> SUFFICES ASSUME Len(typed) = k - 1 PROVE FALSE
      BY <1>5 DEF Asking
    <2>1. Clear("up")
      BY <1>5 DEF Frontier, Asking, InOrder, Open, Said, Taken
    <2>2. t = <<>>
      BY <1>3, <2>1 DEF Clear
    <2>3. Len(t) = 0
      BY <2>2, EmptySeq
    <2> HIDE DEF t
    <2> QED
      BY <1>3, <2>3
  <1>7. PICK m \in Typed : typed[k] = m /\ Carries("up", m)
    BY <1>6 DEF Brings, Said, Wordings
  <1> DEFINE x == Coming("up", m).out
  <1>8. /\ m \in Seq(Byte) /\ m # <<>> /\ Len(m) \in Nat /\ 0 < Len(m)
        /\ \A i \in 1..Len(m) : m[i] # ZeroByte
    BY Messages, DialogueAssumption
  <1>9. x = Ran(Emptied(c), "encrypt", m).out /\ x \in Seq(Byte) /\ Len(x) = Len(m)
    <2>1. x = Ran(Emptied(c), "encrypt", m).out
      BY DEF Coming
    <2> HIDE DEF x, c
    <2> QED
      BY <1>2, <1>8, <2>1, RanOut
  <1>10. Decode(t) = x
    BY <1>7 DEF Carries, Just
  <1>11. Len(x) <= n
    <2> DEFINE b == Decoding(t)[n].bytes
    <2>1. b = Decode(t)
      BY <1>3 DEF Decode
    <2> HIDE DEF t
    <2>2. n \in 0..Len(t)
      BY <1>2, <1>3
    <2>3. b = Decoding(t)[n].bytes
      OBVIOUS
    <2> HIDE DEF b
    <2>4. Len(b) <= n
      BY <1>2, <2>2, <2>3, DecodedSoFar
    <2> QED
      BY <1>10, <2>1, <2>4
  <1>12. s \in Seq(Char) /\ Agree(x, y, Len(x)) /\ y \in Seq(Byte)
    <2> DEFINE l == Len(t)
    <2>1. Got("up", n) = t
      <3>1. Got("up", n) = SubSeq(t, 1, Len(t))
        BY <1>3 DEF Got
      <3> HIDE DEF t
      <3>2. SubSeq(t, 1, Len(t)) = t
        <4>1. Len(t) \in 0..Len(t)
          BY <1>2
        <4>2. SubSeq(t, 1, Len(t)) \in Seq(Char) /\ Len(SubSeq(t, 1, Len(t))) = Len(t)
              /\ \A i \in 1..Len(t) : SubSeq(t, 1, Len(t))[i] = t[i]
          BY <1>2, <4>1, Split
        <4> QED
          BY <1>2, <4>2, SeqEqual
      <3> QED
        BY <3>1, <3>2
    <2>2. s = t \o tail
      BY <2>1
    <2> HIDE DEF t
    <2>3. s \in Seq(Char) /\ Len(s) = Len(t) + Len(tail) /\ Len(tail) \in Nat
      BY <1>2, <2>2, ConcatProperties, LenProperties
    <2>4. SubSeq(s, 1, l) = t
      <3> HIDE DEF s
      <3>1. l \in 0..Len(s)
        BY <1>2, <2>3
      <3>2. SubSeq(s, 1, l) \in Seq(Char) /\ Len(SubSeq(s, 1, l)) = l
            /\ \A i \in 1..l : SubSeq(s, 1, l)[i] = s[i]
        <4> HIDE DEF l
        <4> QED
          BY <2>3, <3>1, Split
      <3>3. \A i \in 1..Len(t) : s[i] = t[i]
        BY <1>2, <2>2, ConcatProperties
      <3> QED
        BY <1>2, <3>2, <3>3, SeqEqual
    <2>5. l \in 0..Len(s)
      <3> HIDE DEF s
      <3> QED
        BY <1>2, <2>3
    <2> HIDE DEF s, l
    <2>6. /\ Decode(SubSeq(s, 1, l)) \in Seq(Byte) /\ Decode(s) \in Seq(Byte)
          /\ Len(Decode(SubSeq(s, 1, l))) <= Len(Decode(s))
          /\ \A i \in 1..Len(Decode(SubSeq(s, 1, l))) : Decode(SubSeq(s, 1, l))[i] = Decode(s)[i]
      BY <2>3, <2>5, PortionDecodes
    <2>7. /\ y \in Seq(Byte) /\ Len(x) <= Len(y) /\ \A i \in 1..Len(x) : x[i] = y[i]
      BY <1>10, <2>4, <2>6
    <2> HIDE DEF x, y
    <2>8. Len(x) \in Nat /\ Len(y) \in Nat
      BY <1>9, <2>7, LenProperties
    <2>9. Agree(x, y, Len(x))
      BY <2>7, <2>8 DEF Agree
    <2> QED
      BY <2>3, <2>7, <2>9
  <1>13. o = Ran(Emptied(c), "decrypt", y).out /\ o \in Seq(Byte) /\ Len(o) = Len(y)
    <2> HIDE DEF s
    <2> QED
      BY <1>1, <1>12, Receives
  <1>14. Len(m) \in 0..Len(o) /\ \A j \in 1..Len(m) : o[j] = m[j]
    <2>1. Len(x) \in Nat /\ Len(y) \in Nat /\ Len(x) <= Len(y) /\ \A i \in 1..Len(x) : x[i] = y[i]
      <3> HIDE DEF x, y
      <3> QED
        BY <1>9, <1>12, LenProperties DEF Agree
    <2>2. Alike(y, x)
      <3> HIDE DEF x, y
      <3> SUFFICES ASSUME NEW i \in 1..Len(y), i <= Len(x) PROVE y[i] = x[i]
        BY DEF Alike
      <3>1. i \in 1..Len(x)
        BY <2>1
      <3> QED
        BY <2>1, <3>1
    <2>3. Alike(y, Ran(Emptied(c), "encrypt", m).out)
      <3> HIDE DEF x, y
      <3> QED
        BY <1>9, <2>2
    <2>4. c \in Ciphers /\ m \in Seq(Byte) /\ y \in Seq(Byte)
      BY <1>2, <1>8, <1>12
    <2>5. Alike(o, m)
      <3>1. Alike(Ran(Emptied(c), "decrypt", y).out, m)
        <4> HIDE DEF c, y
        <4> QED
          BY <2>3, <2>4, DeciphersAlike
      <3> QED
        BY <1>13, <3>1
    <2> HIDE DEF o, x, y
    <2>6. Len(m) <= Len(o) /\ Len(o) \in Nat
      BY <1>8, <1>9, <1>13, <2>1
    <2> QED
      BY <1>8, <2>5, <2>6 DEF Alike
  <1>15. heard' = Append(heard, v)
    BY DEF Hear
  <1> HIDE DEF o
  <1>16. v \in Seq(Byte) /\ \A i \in 1..Len(m) : i <= Len(v) /\ v[i] = m[i]
    <2>1. n \in Nat
      BY <1>2, <1>3
    <2>2. v \in Seq(Byte) /\ Len(o) \in Nat
      BY <1>13, <2>1, UnderstoodFacts, LenProperties
    <2>3. ASSUME NEW i \in 1..Len(m)
          PROVE  i <= Len(v) /\ v[i] = m[i]
      <3>1. i \in 1..Len(o) /\ i <= n
        <4> HIDE DEF x
        <4> QED
          BY <1>8, <1>9, <1>11, <1>14, <2>1, <2>2
      <3>2. \A j \in 1..i : o[j] # ZeroByte
        BY <1>8, <1>14
      <3>3. i <= Len(v) /\ v[i] = o[i]
        BY <1>13, <2>1, <3>1, <3>2, UnderstoodFacts
      <3> QED
        BY <1>14, <3>3
    <2> QED
      BY <2>2, <2>3
  <1> HIDE DEF v
  <1>17. IsPrefix(m, v)
    <2>1. Len(m) <= Len(v)
      BY <1>8, <1>16
    <2> QED
      BY <1>8, <1>16, <2>1, PrefixFacts
  <1>18. heard'[1] = v
    <2>1. heard \in Seq(Seq(Byte)) /\ Len(heard) = 0
      BY BaseFacts, EmptySeq
    <2> QED
      BY <1>15, <1>16, <2>1, Appended
  <1>19. typed # <<>>
    <2>1. Len(typed) = k
      BY <1>6 DEF Brings, Said
    <2> QED
      BY <1>4, <2>1, EmptySeq
  <1> QED
    BY <1>4, <1>7, <1>17, <1>18, <1>19

\* Steps with which the bank hears nothing.
LEMMA NothingHeard ==
    ASSUME Base, Type \/ Show \/ Disconnected \/ Quit \/ Written \/ EndOfFile
                     \/ UNCHANGED dialogueVars
    PROVE  /\ heard' = heard /\ fresh' = fresh /\ spoilt' = spoilt /\ (cuts' = 0 => cuts = 0)
           /\ typed' = typed \/ \E m \in Typed : typed' = Append(typed, m)
  <1>1. CASE Type
    BY <1>1 DEF Type
  <1>2. CASE Show
    <2>1. \E n, v : Takes("down", n, v)
      BY <1>2, ShowTakes
    <2> QED
      BY <1>2, <2>1 DEF Show, Takes
  <1>3. CASE Disconnected \/ Quit \/ Written \/ EndOfFile \/ UNCHANGED dialogueVars
    BY <1>3, RestKeeps
  <1> QED
    BY <1>1, <1>2, <1>3

\* Steps with which it does.
LEMMA SomethingHeard ==
    ASSUME Base, Answer \/ Refuse
    PROVE  /\ \E n \in Arrived("up"), tail \in Behind : Hear(n, tail)
           /\ bank = "reading" /\ typed' = typed /\ fresh' = FALSE /\ heard' # <<>>
           /\ (cuts' = 0 => cuts = 0)
           /\ heard # <<>> => heard'[1] = heard[1]
  <1>1. PICK n \in Arrived("up"), tail \in Behind : Hear(n, tail)
    BY DEF Answer, Refuse
  <1>2. bank = "reading" /\ typed' = typed /\ fresh' = FALSE
    BY <1>1 DEF Answer, Refuse, Hear
  <1>3. cuts' = 0 => cuts = 0
    <2>1. cuts' = (IF n < Len(line["up"]) THEN cuts + 1 ELSE cuts) /\ cuts \in Nat
      BY <1>1, BaseFacts DEF Hear, Count
    <2> QED
      BY <2>1
  <1>4. heard' # <<>> /\ (heard # <<>> => heard'[1] = heard[1])
    <2> DEFINE s == Got("up", n) \o tail
               o == Deciphered("up", s).out
               v == Understood(o, n)
    <2>1. heard' = Append(heard, v) /\ heard \in Seq(Seq(Byte))
      BY <1>1, BaseFacts DEF Hear
    <2>2. v \in Seq(Byte)
      <3>1. s \in Seq(Char)
        BY <1>1, Hears
      <3>2. o \in Seq(Byte)
        <4> HIDE DEF s
        <4> QED
          BY <3>1, Receives, BaseFacts
      <3>3. n \in Nat
        <4>1. n \in 1..Len(line["up"]) /\ Len(line["up"]) \in Nat
          BY BaseFacts DEF Arrived
        <4> QED
          BY <4>1
      <3> HIDE DEF o
      <3> QED
        BY <3>2, <3>3, UnderstoodFacts
    <2> HIDE DEF v
    <2>3. /\ Len(heard) \in Nat /\ Len(heard') = Len(heard) + 1 /\ heard' \in Seq(Seq(Byte))
          /\ \A i \in 1..Len(heard) : heard'[i] = heard[i]
      BY <2>1, <2>2, Appended
    <2>4. heard' # <<>>
      <3>1. Len(heard') # 0
        BY <2>3
      <3> QED
        BY <3>1, EmptySeq
    <2>5. heard # <<>> => 1 \in 1..Len(heard)
      <3>1. heard # <<>> => Len(heard) # 0
        BY <2>1, EmptySeq
      <3> QED
        BY <2>3, <3>1
    <2> QED
      BY <2>3, <2>4, <2>5
  <1> QED
    BY <1>1, <1>2, <1>3, <1>4

\* Every step keeps it.
LEMMA CourseNext ==
    ASSUME Base, Course, [DialogueNext]_dialogueVars
    PROVE  Course'
  <1>1. Spoken /\ Spoken'
    BY SpokenNext DEF Course
  <1>2. CASE Type \/ Show \/ Disconnected \/ Quit \/ Written \/ EndOfFile \/ UNCHANGED dialogueVars
    <2>1. /\ heard' = heard /\ fresh' = fresh /\ spoilt' = spoilt /\ (cuts' = 0 => cuts = 0)
          /\ typed' = typed \/ \E m \in Typed : typed' = Append(typed, m)
      BY <1>2, NothingHeard
    <2>2. typed # <<>> => typed' # <<>> /\ typed'[1] = typed[1]
      <3> SUFFICES ASSUME NEW m \in Typed, typed' = Append(typed, m), typed # <<>>
                   PROVE  typed' # <<>> /\ typed'[1] = typed[1]
        BY <2>1
      <3>1. typed \in Seq(Typed)
        BY <1>1 DEF Spoken, Dirs, Said, Wordings
      <3>2. /\ Len(typed) \in Nat /\ Len(typed') = Len(typed) + 1
            /\ \A i \in 1..Len(typed) : typed'[i] = typed[i]
        BY <3>1, Appended
      <3>3. Len(typed) # 0
        BY <3>1, EmptySeq
      <3>4. 1 \in 1..Len(typed) /\ Len(typed') # 0
        BY <3>2, <3>3
      <3> QED
        BY <3>2, <3>4, EmptySeq
    <2>3. Begun'
      BY <2>1, <2>2 DEF Course, Begun
    <2>4. ~spoilt' => \E k \in Nat \ {0} : Frontier(k)'
      <3> SUFFICES ASSUME ~spoilt' PROVE \E k \in Nat \ {0} : Frontier(k)'
        OBVIOUS
      <3>1. PICK k \in Nat \ {0} : Frontier(k)
        BY <2>1 DEF Course
      <3>2. CASE Type
        BY <1>1, <3>1, <3>2, FrontierType
      <3>3. CASE Show
        BY <1>1, <3>1, <3>3, FrontierShow
      <3>4. CASE Disconnected \/ Quit \/ Written \/ EndOfFile \/ UNCHANGED dialogueVars
        BY <1>1, <3>1, <3>4, FrontierRest
      <3> QED
        BY <1>2, <3>2, <3>3, <3>4
    <2> QED
      BY <1>1, <2>1, <2>3, <2>4 DEF Course
  <1>3. CASE Answer \/ Refuse
    <2>1. PICK n \in Arrived("up"), tail \in Behind : Hear(n, tail)
      BY <1>3, SomethingHeard
    <2>2. /\ bank = "reading" /\ typed' = typed /\ fresh' = FALSE /\ heard' # <<>>
          /\ (cuts' = 0 => cuts = 0)
          /\ heard # <<>> => heard'[1] = heard[1]
      BY <1>3, SomethingHeard
    <2>3. Begun'
      <3> SUFFICES ASSUME cuts' = 0 PROVE typed # <<>> /\ IsPrefix(typed[1], heard'[1])
        BY <2>2 DEF Begun
      <3>1. CASE heard = <<>>
        <4>1. PICK k \in Nat \ {0} : Frontier(k)
          BY <3>1 DEF Course
        <4> QED
          BY <1>1, <2>1, <2>2, <3>1, <4>1, FirstHeard
      <3>2. CASE heard # <<>>
        BY <2>2, <3>2 DEF Course, Begun
      <3> QED
        BY <3>1, <3>2
    <2>4. ~spoilt' => \E k \in Nat \ {0} : Frontier(k)'
      <3> SUFFICES ASSUME ~spoilt' PROVE \E k \in Nat \ {0} : Frontier(k)'
        OBVIOUS
      <3>1. ~spoilt
        BY <1>3, AnswerSpeaks, RefuseTakes
      <3>2. PICK k \in Nat \ {0} : Frontier(k)
        BY <3>1 DEF Course
      <3>3. Frontier(k)'
        BY <1>1, <1>3, <3>2, FrontierAnswer, FrontierRefuse
      <3> QED
        BY <3>3
    <2> QED
      BY <1>1, <2>2, <2>3, <2>4 DEF Course
  <1> QED
    BY <1>2, <1>3 DEF DialogueNext

\* The course of every behaviour.
LEMMA CourseHolds == DialogueSpec => []Course
  <1>1. DialogueInit => Course
    BY CourseInit
  <1>2. Base /\ Course /\ [DialogueNext]_dialogueVars => Course'
    BY CourseNext
  <1> QED
    BY <1>1, <1>2, BaseHolds, PTL DEF DialogueSpec

\* Without cuts the last exchange is in one of its three phases, in which nothing is wrong.
LEMMA CourseBelongs ==
    ASSUME Base, Course
    PROVE  AnswersBelong
  <1> SUFFICES ASSUME cuts = 0, ~spoilt
               PROVE  /\ IsPrefix(heard, typed)
                      /\ IsPrefix(shown, answered)
                      /\ Len(shown) <= Len(heard)
                      /\ atm = "prompt" /\ bank # "closed" => Len(shown) = Len(typed)
    BY DEF AnswersBelong
  <1>1. PICK k \in Nat \ {0} : Frontier(k)
    BY DEF Course
  <1>2. /\ typed \in Seq(Seq(Byte)) /\ heard \in Seq(Seq(Byte))
        /\ answered \in Seq(Seq(Byte)) /\ shown \in Seq(Seq(Byte))
        /\ Len(typed) \in Nat /\ Len(heard) \in Nat /\ Len(answered) \in Nat /\ Len(shown) \in Nat
    BY BaseFacts
  <1>3. /\ k - 1 <= Len(typed) /\ k - 1 <= Len(heard) /\ \A j \in 1 .. k - 1 : heard[j] = typed[j]
        /\ k - 1 <= Len(answered) /\ \A j \in 1 .. k - 1 : shown[j] = answered[j]
    BY <1>1 DEF Frontier, InOrder, Said, Taken
  <1>4. /\ Len(shown) = k - 1
        /\ \/ Len(heard) = k - 1
           \/ Len(heard) = k /\ k <= Len(typed) /\ heard[k] = typed[k]
    <2>1. Asking(k) \/ Answering(k) \/ Ended(k)
      BY <1>1 DEF Frontier, Phase
    <2>2. k <= k
      OBVIOUS
    <2> QED
      BY <2>1, <2>2 DEF Asking, Answering, Ended
  <1>5. IsPrefix(heard, typed)
    <2>1. Len(heard) <= Len(typed)
      BY <1>3, <1>4
    <2>2. ASSUME NEW j \in 1..Len(heard) PROVE heard[j] = typed[j]
      <3>1. j \in 1 .. k - 1 \/ (j = k /\ Len(heard) = k)
        BY <1>4
      <3> QED
        BY <1>3, <1>4, <3>1
    <2> QED
      BY <1>2, <2>1, <2>2, PrefixFacts
  <1>6. IsPrefix(shown, answered)
    <2>1. Len(shown) <= Len(answered) /\ \A j \in 1..Len(shown) : shown[j] = answered[j]
      BY <1>3, <1>4
    <2> QED
      BY <1>2, <2>1, PrefixFacts
  <1>7. Len(shown) <= Len(heard)
    BY <1>3, <1>4
  <1>8. atm = "prompt" => Len(shown) = Len(typed)
    BY DEF Base, Waits
  <1> QED
    BY <1>5, <1>6, <1>7, <1>8

\* The first message that did not go well is the k-th, and related to what was taken for it.
LEMMA OrderRelates ==
    ASSUME Base, Course, ~spoilt, NEW d \in Dirs, NEW i \in 1..Len(Taken(d)), i <= Len(Said(d)),
           \A j \in 1 .. i - 1 : WentWell(j)
    PROVE  Related(Taken(d)[i], Said(d)[i])
  <1> DEFINE s == Said(d)
             t == Taken(d)
  <1>1. PICK k \in Nat \ {0} : Frontier(k)
    BY DEF Course
  <1>2. InOrder(d, k)
    BY <1>1 DEF Frontier, Dirs
  <1>3. /\ s \in Seq(Wordings(d)) /\ Len(s) \in Nat /\ t \in Seq(Seq(Byte)) /\ Len(t) \in Nat
        /\ \A m \in Wordings(d) : m \in Seq(Byte)
    BY Histories DEF Course
  <1>4. i \in Nat /\ i \in 1..Len(s) /\ i <= Len(t)
    <2> HIDE DEF s
    <2>1. i \in 1..Len(t) /\ i <= Len(s)
      BY DEF s
    <2> HIDE DEF t
    <2> QED
      BY <1>3, <2>1
  <1>5. CASE i < k
    <2>1. i \in 1 .. k - 1
      BY <1>4, <1>5
    <2>2. t[i] = s[i]
      BY <1>2, <2>1 DEF InOrder
    <2>3. t[i] \in Seq(Byte)
      BY <1>3, ElementOfSeq
    <2> DEFINE e == t[i]
    <2>4. Related(e, e)
      <3> HIDE DEF e
      <3>1. Alike(e, e)
        BY DEF Alike
      <3> QED
        BY <2>3, <3>1, AlikeRelated DEF e
    <2> QED
      BY <2>2, <2>4
  <1>6. CASE i = k
    <2>1. k <= Len(t) /\ Len(s) # k - 1
      BY <1>3, <1>4, <1>6
    <2>2. Related(t[k], s[k])
      BY <1>2, <2>1 DEF InOrder
    <2> QED
      BY <1>6, <2>2
  <1>7. CASE k < i
    <2>1. k \in 1 .. i - 1
      BY <1>4, <1>7
    <2>2. /\ k <= Len(typed) /\ k <= Len(heard) /\ k <= Len(answered) /\ k <= Len(shown)
          /\ heard[k] = typed[k] /\ shown[k] = answered[k]
      BY <2>1 DEF WentWell
    <2>3. ~Spoiled("up", k) /\ ~Spoiled("down", k)
      BY <2>2 DEF Spoiled, Said, Taken
    <2>4. ~(Len(answered) < k) /\ Len(shown) # k - 1
      <3>1. Len(answered) \in Nat /\ Len(shown) \in Nat
        BY BaseFacts
      <3> QED
        BY <2>2, <3>1
    <2>5. ~Phase(k)
      BY <2>3, <2>4 DEF Phase, Asking, Answering, Ended, Never
    <2> QED
      BY <1>1, <2>5 DEF Frontier
  <1>8. i < k \/ i = k \/ k < i
    BY <1>4
  <1> QED
    BY <1>5, <1>6, <1>7, <1>8

\* So it is in both directions.
LEMMA CourseMovesEnds ==
    ASSUME Base, Course
    PROVE  FaultsMoveEnds
  <1>1. "up" \in Dirs /\ "down" \in Dirs
    BY DEF Dirs
  <1>2. cuts = 0 /\ heard # <<>> => IsPrefix(typed[1], heard[1])
    BY DEF Course, Begun
  <1>3. ASSUME ~spoilt, NEW k \in 1..Len(heard), k <= Len(typed), \A j \in 1 .. k - 1 : WentWell(j)
        PROVE  Related(heard[k], typed[k])
    <2>1. Related(Taken("up")[k], Said("up")[k])
      BY <1>1, <1>3, OrderRelates DEF Said, Taken
    <2> QED
      BY <2>1 DEF Said, Taken
  <1>4. ASSUME ~spoilt, NEW k \in 1..Len(shown), k <= Len(answered), \A j \in 1 .. k - 1 : WentWell(j)
        PROVE  Related(shown[k], answered[k])
    <2>1. Related(Taken("down")[k], Said("down")[k])
      BY <1>1, <1>4, OrderRelates DEF Said, Taken
    <2> QED
      BY <2>1 DEF Said, Taken
  <1> QED
    BY <1>2, <1>3, <1>4 DEF FaultsMoveEnds

\* AnswersBelong: as long as no read of bank.cpp or atm.cpp returns a part of a message, and
\* data_ was empty behind the first, each request is understood as it was typed, and each
\* answer shown as it was given, for the request it was given to.
THEOREM AnswersFindTheirRequests == DialogueSpec => []AnswersBelong
  <1>1. Base /\ Course => AnswersBelong
    BY CourseBelongs
  <1> QED
    BY <1>1, BaseHolds, CourseHolds, PTL

\* FaultsMoveEnds: a read that returns a part moves the ends of messages, and in the first
\* exchange that does not go well does nothing else; what the allocator left behind the
\* first request can only be taken for more of it.
THEOREM FaultsOnlyMoveEnds == DialogueSpec => []FaultsMoveEnds
  <1>1. Base /\ Course => FaultsMoveEnds
    BY CourseMovesEnds
  <1> QED
    BY <1>1, BaseHolds, CourseHolds, PTL
=============================================================================
