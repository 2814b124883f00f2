----------------------------- MODULE ProxyProofs -----------------------------
(***************************************************************************)
(* Theorems about the proxy, for any number of bridges, any buffer and any *)
(* window: types, that an open bridge loses nothing and is closed for a    *)
(* cause, that every link is a Relay, and that an end's last words are     *)
(* delivered when the other end has had all that was said to it.           *)
(*                                                                         *)
(* The invariant says which parts of a link are empty at which step of its *)
(* loop, that a read or a write is outstanding only on an open bridge, and *)
(* that what was delivered is a prefix of what was sent, even when the     *)
(* rest is lost with the bridge.                                           *)
(***************************************************************************)
EXTENDS Proxy, SequenceTheorems, TLAPS

Piece == Links \X Nat

EmptyBuffers ==
    \A l \in Links : loop[l] \in {"off", "reading", "written"} => buffer[l] = <<>>

NotStarted ==
    \A b \in Bridges :
        /\ stage[b] \in {"none", "backlog", "connecting"} =>
              \A l \in Links : l[1] = b => loop[l] = "off"
        /\ stage[b] = "none" => ~open[b]

OpenWhileBusy ==
    /\ \A b \in Bridges : stage[b] \in {"backlog", "connecting"} => open[b]
    /\ \A l \in Links : loop[l] \in {"reading", "writing"} => open[l[1]]

DeliveredIsPrefix ==
    \A l \in Links : \E rest \in Seq(Piece) : sent[l] = got[l] \o rest

Untouched ==
    \A b \in Bridges : stage[b] = "none" =>
        \A l \in Links : l[1] = b =>
            sent[l] = <<>> /\ inbox[l] = <<>> /\ buffer[l] = <<>> /\ got[l] = <<>>

ClosedWhenEnded ==
    \A l \in Links : loop[l] = "ended" => ~open[l[1]]

FailedForCause ==
    \A l \in Links : loop[l] = "failed" => ~open[l[1]] \/ sender[l] # "up" \/ Receiver(l) # "up"

LoopsInv ==
    /\ EmptyBuffers
    /\ OpenWhileBusy
    /\ NotStarted
    /\ ClosedWhenEnded
    /\ FailedForCause

ProxyInv ==
    /\ ProxyTypeOK
    /\ LoopsInv
    /\ Untouched
    /\ NothingLostWhileOpen
    /\ DeliveredIsPrefix

-----------------------------------------------------------------------------
(* Sequences and links *)

\* A sequence is its first n elements and the others.
LEMMA Split ==
    ASSUME NEW S, NEW s \in Seq(S), NEW n \in 0..Len(s)
    PROVE  /\ Upto(s, n) \in Seq(S) /\ Len(Upto(s, n)) = n
           /\ After(s, n) \in Seq(S) /\ Len(After(s, n)) = Len(s) - n
           /\ Upto(s, n) \o After(s, n) = s
  <1>1. /\ Upto(s, n) \in Seq(S) /\ Len(Upto(s, n)) = n
        /\ \A i \in 1..n : Upto(s, n)[i] = s[i]
    <2>1. Len(s) \in Nat /\ \A i \in 1..n : s[i] \in S
      BY ElementOfSeq, LenProperties
    <2>2. n \in Int /\ 1 \in Int /\ n >= 0
      BY <2>1
    <2> HIDE DEF Upto
    <2>3. /\ SubSeq(s, 1, n) \in Seq(S)
          /\ Len(SubSeq(s, 1, n)) = IF 1 <= n THEN n - 1 + 1 ELSE 0
          /\ \A i \in 1 .. n - 1 + 1 : SubSeq(s, 1, n)[i] = s[1 + i - 1]
      BY <2>1, <2>2, SubSeqProperties
    <2> QED
      BY <2>1, <2>2, <2>3 DEF Upto
  <1>2. /\ After(s, n) \in Seq(S) /\ Len(After(s, n)) = Len(s) - n
        /\ \A i \in 1 .. Len(s) - n : After(s, n)[i] = s[n + i]
    <2>1. Len(s) \in Nat /\ \A i \in n + 1 .. Len(s) : s[i] \in S
      BY ElementOfSeq, LenProperties
    <2>2. n \in Int /\ n >= 0 /\ n <= Len(s) /\ n + 1 \in Int /\ Len(s) \in Int
      BY <2>1
    <2>3. /\ SubSeq(s, n + 1, Len(s)) \in Seq(S)
          /\ Len(SubSeq(s, n + 1, Len(s))) =
                IF n + 1 <= Len(s) THEN Len(s) - (n + 1) + 1 ELSE 0
          /\ \A i \in 1 .. Len(s) - (n + 1) + 1 :
                SubSeq(s, n + 1, Len(s))[i] = s[(n + 1) + i - 1]
      BY <2>1, <2>2, SubSeqProperties
    <2> QED
      BY <2>1, <2>2, <2>3 DEF After
  <1>3. /\ Upto(s, n) \o After(s, n) \in Seq(S)
        /\ Len(Upto(s, n) \o After(s, n)) = n + (Len(s) - n)
        /\ \A i \in 1 .. n + (Len(s) - n) : (Upto(s, n) \o After(s, n))[i] =
              IF i <= n THEN Upto(s, n)[i] ELSE After(s, n)[i - n]
    BY <1>1, <1>2, ConcatProperties
  <1>4. Len(s) \in Nat /\ n \in Nat /\ n <= Len(s)
    BY LenProperties
  <1>5. \A i \in 1..Len(s) : (Upto(s, n) \o After(s, n))[i] = s[i]
    BY <1>1, <1>2, <1>3, <1>4
  <1>6. Upto(s, n) \o After(s, n) = s
    <2>1. Len(Upto(s, n) \o After(s, n)) = Len(s)
      BY <1>3, <1>4
    <2>2. \A i \in 1..Len(Upto(s, n) \o After(s, n)) : (Upto(s, n) \o After(s, n))[i] = s[i]
      BY <1>5, <2>1
    <2> QED
      BY <1>3, <2>1, <2>2, SeqEqual
  <1> QED
    BY <1>1, <1>2, <1>6

\* What comes before in a concatenation is its prefix of that length.
LEMMA PrefixOfConcat ==
    ASSUME NEW S, NEW s \in Seq(S), NEW t \in Seq(S), s # <<>>
    PROVE  SubSeq(s \o t, 1, Len(s)) = s
  <1>1. Len(s) \in Nat /\ Len(s) # 0
    BY LenProperties, EmptySeq
  <1>2. 1 \in 1..Len(s) /\ Len(s) \in 1..Len(s)
    BY <1>1
  <1>3. SubSeq(s \o t, 1, Len(s)) = SubSeq(s, 1, Len(s))
    BY <1>2, SubSeqOfConcat1
  <1>4. SubSeq(s, 1, Len(s)) = s
    BY SubSeqFull
  <1> QED
    BY <1>3, <1>4

\* Reversing a link keeps the bridge; twice gives the link.
LEMMA Reverse ==
    ASSUME NEW l \in Links
    PROVE  /\ Rev(l) \in Links /\ Rev(l)[1] = l[1] /\ Rev(l) # l /\ Rev(Rev(l)) = l
           /\ l[1] \in Bridges
           /\ \A k \in Links : k[1] = l[1] => k = l \/ k = Rev(l)
  BY DEF Rev, Links, Dirs

-----------------------------------------------------------------------------
(* The invariant *)

LEMMA ProxyInit0 == ProxyInit => ProxyInv
  <1> SUFFICES ASSUME ProxyInit
               PROVE  ProxyInv
    OBVIOUS
  <1> USE DEF ProxyInit
  <1>1. <<>> \in Seq(Piece) /\ Len(<<>>) = 0 /\ <<>> \o <<>> = <<>>
    BY EmptySeq, ConcatEmptySeq
  <1>2. ProxyTypeOK
    BY <1>1, ProxyAssumption DEF ProxyTypeOK, Piece, LoopSteps
  <1>3. NothingLostWhileOpen
    <2> SUFFICES ASSUME NEW l \in Links
                 PROVE  <<>> = (<<>> \o <<>>) \o <<>>
      BY DEF NothingLostWhileOpen
    <2> QED
      BY <1>1
  <1>4. DeliveredIsPrefix
    BY <1>1 DEF DeliveredIsPrefix
  <1>5. LoopsInv
    BY DEF LoopsInv, EmptyBuffers, OpenWhileBusy, NotStarted, ClosedWhenEnded, FailedForCause
  <1>6. Untouched
    BY DEF Untouched
  <1> QED
    BY <1>2, <1>3, <1>4, <1>5, <1>6 DEF ProxyInv

LEMMA WindowRoom ==
    ASSUME NEW u \in Nat, NEW k \in Nat, NEW w \in Nat, NEW m \in Nat, NEW n \in Nat,
           n <= w - u, k <= m
    PROVE  u + n \in 0..w /\ k - n <= m
  OBVIOUS

LEMMA TypesNext == ProxyInv /\ [ProxyNext]_proxyVars => ProxyTypeOK'
  <1> SUFFICES ASSUME ProxyInv, [ProxyNext]_proxyVars
               PROVE  ProxyTypeOK'
    OBVIOUS
  <1> USE DEF ProxyInv, ProxyTypeOK, LoopSteps
  <1>1. ASSUME NEW b \in Bridges, Connect(b) \/ BridgeStep(b)
        PROVE  ProxyTypeOK'
    <2>1. CASE Start(b)
      <3>1. \A l \in Links : (IF l[1] = b THEN "reading" ELSE loop[l]) \in LoopSteps
        BY DEF Links
      <3> QED
        BY <2>1, <3>1 DEF Start
    <2>2. CASE Connect(b) \/ Accept(b) \/ Refused(b)
      BY <2>2 DEF Connect, Accept, Refused, streamVars
    <2> QED
      BY <1>1, <2>1, <2>2 DEF BridgeStep
  <1>2. ASSUME NEW l \in Links, Send(l)
        PROVE  ProxyTypeOK'
    <2>1. Len(sent[l]) \in Nat
      BY LenProperties
    <2>2. <<l, Len(sent[l]) + 1>> \in Links \X Nat
      BY <2>1
    <2>3. /\ Append(sent[l], <<l, Len(sent[l]) + 1>>) \in Seq(Links \X Nat)
          /\ Append(inbox[l], <<l, Len(sent[l]) + 1>>) \in Seq(Links \X Nat)
      BY <2>2, AppendProperties
    <2> QED
      BY <1>2, <2>3 DEF Send, bridgeVars
  <1>3. ASSUME NEW l \in Links, Take(l) \/ Leave(l)
        PROVE  ProxyTypeOK'
    <2>1. CASE Take(l)
      <3>1. 0 \in 0..Window
        BY ProxyAssumption
      <3> QED
        BY <2>1, <3>1 DEF Take, bridgeVars
    <2>2. CASE Leave(l)
      <3>1. PICK how \in {"closed", "reset"} : sender' = [sender EXCEPT ![l] = how]
        BY <2>2 DEF Leave
      <3> QED
        BY <2>2, <3>1 DEF Leave, bridgeVars, streamVars
    <2> QED
      BY <1>3, <2>1, <2>2
  <1>4. ASSUME NEW l \in Links, ReadSome(l)
        PROVE  ProxyTypeOK'
    <2> DEFINE n == IF Len(inbox[l]) < MaxData THEN Len(inbox[l]) ELSE MaxData
    <2>1. Len(inbox[l]) \in Nat
      BY LenProperties
    <2>2. n \in 0..Len(inbox[l]) /\ n <= MaxData
      BY <2>1, ProxyAssumption
    <2>3. /\ Upto(inbox[l], n) \in Seq(Links \X Nat) /\ Len(Upto(inbox[l], n)) = n
          /\ After(inbox[l], n) \in Seq(Links \X Nat)
      <3> HIDE DEF n
      <3> QED
        BY <2>2, Split
    <2>4. /\ buffer' = [buffer EXCEPT ![l] = Upto(inbox[l], n)]
          /\ inbox' = [inbox EXCEPT ![l] = After(@, n)]
          /\ loop' = [loop EXCEPT ![l] = "read"]
          /\ UNCHANGED <<bridgeVars, sender, sent, got, unread>>
      BY <1>4 DEF ReadSome
    <2> QED
      <3> HIDE DEF n
      <3> QED
        BY <2>2, <2>3, <2>4 DEF bridgeVars
  <1>5. ASSUME NEW l \in Links, WriteSome(l)
        PROVE  ProxyTypeOK'
    <2>1. PICK n \in 1..Len(buffer[l]) :
            /\ n <= Window - unread[l]
            /\ got' = [got EXCEPT ![l] = @ \o Upto(buffer[l], n)]
            /\ unread' = [unread EXCEPT ![l] = @ + n]
            /\ buffer' = [buffer EXCEPT ![l] = After(@, n)]
            /\ loop' = [loop EXCEPT ![l] = IF n = Len(buffer[l]) THEN "written" ELSE "writing"]
      BY <1>5 DEF WriteSome
    <2>2. Len(buffer[l]) \in Nat /\ n \in 0..Len(buffer[l])
      BY LenProperties
    <2>3. /\ Upto(buffer[l], n) \in Seq(Links \X Nat)
          /\ After(buffer[l], n) \in Seq(Links \X Nat)
          /\ Len(After(buffer[l], n)) = Len(buffer[l]) - n
      BY <2>2, Split
    <2>4. got[l] \o Upto(buffer[l], n) \in Seq(Links \X Nat)
      BY <2>3, ConcatProperties
    <2>5. unread[l] + n \in 0..Window /\ Len(buffer[l]) - n <= MaxData
      <3>1. unread[l] \in 0..Window /\ Len(buffer[l]) <= MaxData
        OBVIOUS
      <3>2. n <= Window - unread[l] /\ n \in Nat /\ Window \in Nat /\ MaxData \in Nat
        <4>1. Window \in Nat /\ MaxData \in Nat
          BY ProxyAssumption
        <4>2. n <= Window - unread[l]
          BY <2>1
        <4> QED
          BY <2>2, <4>1, <4>2
      <3>3. unread[l] \in Nat /\ Len(buffer[l]) \in Nat
        BY <2>2, <3>1, <3>2
      <3> QED
        BY <3>1, <3>2, <3>3, WindowRoom
    <2> QED
      BY <1>5, <2>1, <2>3, <2>4, <2>5 DEF WriteSome, bridgeVars
  <1>6. ASSUME NEW l \in Links, WriteInVain(l)
        PROVE  ProxyTypeOK'
    <2>1. <<>> \in Seq(Links \X Nat) /\ Len(<<>>) <= MaxData
      BY EmptySeq, ProxyAssumption
    <2> QED
      BY <1>6, <2>1 DEF WriteInVain, bridgeVars
  <1>7. ASSUME NEW l \in Links,
               \/ ReadError(l) \/ HandleRead(l) \/ WriteError(l)
               \/ HandleWritten(l) \/ HandleError(l)
        PROVE  ProxyTypeOK'
    <2>1. CASE HandleError(l)
      <3>1. Rev(l) \in Links /\ Rev(l) # l
        BY Reverse
      <3> QED
        BY <2>1, <3>1 DEF HandleError
    <2>2. CASE ReadError(l) \/ HandleRead(l) \/ WriteError(l) \/ HandleWritten(l)
      BY <2>2 DEF ReadError, HandleRead, WriteError, HandleWritten, bridgeVars
    <2> QED
      BY <1>7, <2>1, <2>2
  <1>8. CASE AcceptError
    BY <1>8 DEF AcceptError, streamVars
  <1>9. CASE UNCHANGED proxyVars
    BY <1>9 DEF proxyVars, bridgeVars, streamVars
  <1> QED
    BY <1>1, <1>2, <1>3, <1>4, <1>5, <1>6, <1>7, <1>8, <1>9 DEF ProxyNext, LinkStep

LEMMA LoopsNext == ProxyInv /\ [ProxyNext]_proxyVars => LoopsInv'
  <1> SUFFICES ASSUME ProxyTypeOK, LoopsInv, [ProxyNext]_proxyVars
               PROVE  LoopsInv'
    BY DEF ProxyInv
  <1>t. /\ stage \in [Bridges -> {"none", "backlog", "connecting", "relaying", "over"}]
        /\ open \in [Bridges -> BOOLEAN]
        /\ sender \in [Links -> {"up", "closed", "reset"}]
        /\ loop \in [Links -> LoopSteps]
        /\ DOMAIN buffer = Links /\ DOMAIN inbox = Links
    BY DEF ProxyTypeOK
  <1>r. \A l \in Links : /\ Rev(l) \in Links /\ Rev(l)[1] = l[1] /\ Rev(l) # l /\ Rev(Rev(l)) = l
                         /\ l[1] \in Bridges
                         /\ \A k \in Links : k[1] = l[1] => k = l \/ k = Rev(l)
    BY Reverse
  <1> USE <1>t, <1>r DEF LoopsInv, EmptyBuffers, OpenWhileBusy, NotStarted, ClosedWhenEnded,
                         FailedForCause, Receiver
  <1>1. ASSUME NEW b \in Bridges, Connect(b) \/ Accept(b) \/ Refused(b)
        PROVE  LoopsInv'
    BY <1>1 DEF Connect, Accept, Refused, streamVars
  <1>2. ASSUME NEW b \in Bridges, Start(b)
        PROVE  LoopsInv'
    BY <1>2 DEF Start
  <1>3. ASSUME NEW l \in Links, Send(l) \/ Take(l)
        PROVE  LoopsInv'
    BY <1>3 DEF Send, Take, bridgeVars
  <1>4. ASSUME NEW l \in Links, Leave(l)
        PROVE  LoopsInv'
    <2>1. PICK how \in {"closed", "reset"} : sender' = [sender EXCEPT ![l] = how]
      BY <1>4 DEF Leave
    <2> QED
      BY <1>4, <2>1 DEF Leave, bridgeVars, streamVars
  <1>5. ASSUME NEW l \in Links, ReadSome(l) \/ ReadError(l) \/ HandleRead(l) \/ HandleWritten(l)
        PROVE  LoopsInv'
    BY <1>5 DEF ReadSome, ReadError, HandleRead, HandleWritten, bridgeVars
  <1>6. ASSUME NEW l \in Links, WriteSome(l)
        PROVE  LoopsInv'
    <2>1. PICK n \in 1..Len(buffer[l]) :
            /\ buffer' = [buffer EXCEPT ![l] = After(@, n)]
            /\ loop' = [loop EXCEPT ![l] = IF n = Len(buffer[l]) THEN "written" ELSE "writing"]
      BY <1>6 DEF WriteSome
    <2>2. n = Len(buffer[l]) => After(buffer[l], n) = <<>>
      <3>1. Len(buffer[l]) \in Nat
        BY LenProperties DEF ProxyTypeOK
      <3>2. Len(buffer[l]) + 1 \in Int /\ Len(buffer[l]) < Len(buffer[l]) + 1 /\ Len(buffer[l]) \in Int
        BY <3>1
      <3>3. SubSeq(buffer[l], Len(buffer[l]) + 1, Len(buffer[l])) = <<>>
        BY <3>2, SubSeqEmpty
      <3> QED
        BY <3>3 DEF After
    <2>3. loop[l] = "writing" /\ UNCHANGED <<stage, open, sender>>
      BY <1>6 DEF WriteSome, bridgeVars
    <2> QED
      BY <2>1, <2>2, <2>3
  <1>7. ASSUME NEW l \in Links, WriteInVain(l) \/ WriteError(l)
        PROVE  LoopsInv'
    BY <1>7 DEF WriteInVain, WriteError, bridgeVars
  <1>8. ASSUME NEW l \in Links, HandleError(l)
        PROVE  LoopsInv'
    BY <1>8 DEF HandleError
  <1>9. CASE AcceptError \/ UNCHANGED proxyVars
    BY <1>9 DEF AcceptError, proxyVars, bridgeVars, streamVars
  <1> QED
    BY <1>1, <1>2, <1>3, <1>4, <1>5, <1>6, <1>7, <1>8, <1>9 DEF ProxyNext, LinkStep, BridgeStep

LEMMA UntouchedNext == ProxyInv /\ [ProxyNext]_proxyVars => Untouched'
  <1> SUFFICES ASSUME ProxyTypeOK, LoopsInv, Untouched, [ProxyNext]_proxyVars
               PROVE  Untouched'
    BY DEF ProxyInv
  <1>t. /\ DOMAIN stage = Bridges /\ DOMAIN sent = Links /\ DOMAIN inbox = Links
        /\ DOMAIN buffer = Links /\ DOMAIN got = Links /\ DOMAIN loop = Links
    BY DEF ProxyTypeOK
  <1>n. \A l \in Links : stage[l[1]] = "none" => ~open[l[1]] /\ loop[l] = "off"
    BY Reverse DEF LoopsInv, NotStarted
  <1> USE <1>t, <1>n DEF Untouched
  <1>1. ASSUME NEW b \in Bridges, Connect(b) \/ BridgeStep(b)
        PROVE  Untouched'
    BY <1>1 DEF Connect, BridgeStep, Accept, Start, Refused, streamVars
  <1>2. ASSUME NEW l \in Links, Send(l) \/ Take(l) \/ Leave(l)
        PROVE  Untouched'
    BY <1>2 DEF Send, Connected, Take, Leave, bridgeVars, streamVars
  <1>3. ASSUME NEW l \in Links, ReadSome(l) \/ ReadError(l) \/ HandleRead(l) \/ HandleWritten(l)
        PROVE  Untouched'
    BY <1>3 DEF ReadSome, ReadError, HandleRead, HandleWritten, bridgeVars
  <1>4. ASSUME NEW l \in Links, WriteSome(l) \/ WriteInVain(l) \/ WriteError(l)
        PROVE  Untouched'
    BY <1>4 DEF WriteSome, WriteInVain, WriteError, bridgeVars
  <1>5. ASSUME NEW l \in Links, HandleError(l)
        PROVE  Untouched'
    BY <1>5 DEF HandleError
  <1>6. CASE AcceptError \/ UNCHANGED proxyVars
    BY <1>6 DEF AcceptError, proxyVars, bridgeVars, streamVars
  <1> QED
    BY <1>1, <1>2, <1>3, <1>4, <1>5, <1>6 DEF ProxyNext, LinkStep

\* No stream changed, no sender came back and no bridge opened: what the invariant
\* says of the streams stays true.
LEMMA StreamsStay ==
    ASSUME NothingLostWhileOpen, DeliveredIsPrefix,
           UNCHANGED <<sent, inbox, buffer, got>>,
           \A l \in Links : open'[l[1]] /\ Receiver(l)' = "up" => open[l[1]] /\ Receiver(l) = "up"
    PROVE  NothingLostWhileOpen' /\ DeliveredIsPrefix'
  BY DEF NothingLostWhileOpen, DeliveredIsPrefix

\* One link carried bytes: it is enough to look at that one.
LEMMA OneStream ==
    ASSUME NothingLostWhileOpen, DeliveredIsPrefix, NEW l \in Links,
           UNCHANGED <<open, sender>>,
           \A k \in Links \ {l} : /\ sent'[k] = sent[k] /\ inbox'[k] = inbox[k]
                                  /\ buffer'[k] = buffer[k] /\ got'[k] = got[k],
           open[l[1]] /\ Receiver(l) = "up" => sent'[l] = got'[l] \o buffer'[l] \o inbox'[l],
           \E rest \in Seq(Piece) : sent'[l] = got'[l] \o rest
    PROVE  NothingLostWhileOpen' /\ DeliveredIsPrefix'
  <1>1. ASSUME NEW k \in Links, open'[k[1]], Receiver(k)' = "up"
        PROVE  sent'[k] = got'[k] \o buffer'[k] \o inbox'[k]
    <2>1. open[k[1]] /\ Receiver(k) = "up"
      BY <1>1 DEF Receiver
    <2>2. CASE k # l
      <3>1. sent[k] = got[k] \o buffer[k] \o inbox[k]
        BY <2>1 DEF NothingLostWhileOpen
      <3> QED
        BY <2>2, <3>1
    <2>3. CASE k = l
      BY <2>1, <2>3
    <2> QED
      BY <2>2, <2>3
  <1>2. ASSUME NEW k \in Links
        PROVE  \E rest \in Seq(Piece) : sent'[k] = got'[k] \o rest
    <2>1. CASE k # l
      BY <2>1 DEF DeliveredIsPrefix
    <2>2. CASE k = l
      BY <2>2
    <2> QED
      BY <2>1, <2>2
  <1> QED
    BY <1>1, <1>2 DEF NothingLostWhileOpen, DeliveredIsPrefix

LEMMA StreamsNext ==
    ProxyInv /\ [ProxyNext]_proxyVars => NothingLostWhileOpen' /\ DeliveredIsPrefix'
  <1> SUFFICES ASSUME ProxyInv, [ProxyNext]_proxyVars
               PROVE  NothingLostWhileOpen' /\ DeliveredIsPrefix'
    OBVIOUS
  <1>t. /\ sent \in [Links -> Seq(Piece)] /\ inbox \in [Links -> Seq(Piece)]
        /\ buffer \in [Links -> Seq(Piece)] /\ got \in [Links -> Seq(Piece)]
        /\ DOMAIN open = Bridges /\ DOMAIN sender = Links /\ DOMAIN stage = Bridges
    BY DEF ProxyInv, ProxyTypeOK, Piece
  <1>i. NothingLostWhileOpen /\ DeliveredIsPrefix /\ LoopsInv /\ Untouched
    BY DEF ProxyInv
  <1>c. \A s, t, u \in Seq(Piece) : (s \o t) \o u = s \o (t \o u)
    BY ConcatAssociative
  <1>d. \A s, t \in Seq(Piece) : s \o t \in Seq(Piece) /\ s \o <<>> = s /\ <<>> \o s = s
    BY ConcatProperties, ConcatEmptySeq
  <1>e. <<>> \in Seq(Piece)
    BY EmptySeq
  <1>1. ASSUME NEW b \in Bridges, Connect(b)
        PROVE  NothingLostWhileOpen' /\ DeliveredIsPrefix'
    <2>1. stage[b] = "none" /\ open' = [open EXCEPT ![b] = TRUE]
          /\ UNCHANGED <<sent, inbox, buffer, got, sender>>
      BY <1>1 DEF Connect, streamVars
    <2>2. ASSUME NEW l \in Links, l[1] = b
          PROVE  sent[l] = got[l] \o buffer[l] \o inbox[l]
      BY <2>1, <2>2, <1>i, <1>d, <1>e DEF Untouched
    <2>3. ASSUME NEW l \in Links, open'[l[1]], Receiver(l)' = "up"
          PROVE  sent'[l] = got'[l] \o buffer'[l] \o inbox'[l]
      <3>1. sent[l] = got[l] \o buffer[l] \o inbox[l]
        <4>1. CASE l[1] = b
          BY <2>2, <4>1
        <4>2. CASE l[1] # b
          <5>1. open[l[1]] /\ Receiver(l) = "up"
            BY <2>1, <2>3, <4>2, <1>t, Reverse DEF Receiver
          <5> QED
            BY <5>1, <1>i DEF NothingLostWhileOpen
        <4> QED
          BY <4>1, <4>2
      <3> QED
        BY <2>1, <3>1
    <2>4. DeliveredIsPrefix'
      BY <2>1, <1>i DEF DeliveredIsPrefix
    <2> QED
      BY <2>3, <2>4 DEF NothingLostWhileOpen
  <1>2. ASSUME NEW l \in Links, Send(l)
        PROVE  NothingLostWhileOpen' /\ DeliveredIsPrefix'
    <2> DEFINE x == <<l, Len(sent[l]) + 1>>
    <2>1. x \in Piece
      BY <1>t, LenProperties DEF Piece
    <2> HIDE DEF x
    <2>2. /\ sent' = [sent EXCEPT ![l] = Append(@, x)]
          /\ inbox' = [inbox EXCEPT ![l] = Append(@, x)]
          /\ UNCHANGED <<open, sender, buffer, got>>
      BY <1>2 DEF Send, bridgeVars, x
    <2>3. <<x>> \in Seq(Piece)
      BY <2>1
    <2>4. sent'[l] = sent[l] \o <<x>> /\ inbox'[l] = inbox[l] \o <<x>>
      BY <2>1, <2>2, <1>t, AppendIsConcat
    <2>5. open[l[1]] /\ Receiver(l) = "up" => sent'[l] = got'[l] \o buffer'[l] \o inbox'[l]
      <3> SUFFICES ASSUME open[l[1]], Receiver(l) = "up"
                   PROVE  sent'[l] = got'[l] \o buffer'[l] \o inbox'[l]
        OBVIOUS
      <3>1. sent[l] = got[l] \o buffer[l] \o inbox[l]
        BY <1>i DEF NothingLostWhileOpen
      <3> DEFINE front == got[l] \o buffer[l]
      <3>f. front \in Seq(Piece) /\ inbox[l] \in Seq(Piece)
        BY <1>t, <1>d
      <3>a. ASSUME NEW s \in Seq(Piece), NEW t \in Seq(Piece)
            PROVE  (s \o t) \o <<x>> = s \o (t \o <<x>>)
        BY <2>3, <1>c
      <3> HIDE DEF front
      <3>b. (front \o inbox[l]) \o <<x>> = front \o (inbox[l] \o <<x>>)
        BY <3>f, <3>a
      <3>2. (got[l] \o buffer[l] \o inbox[l]) \o <<x>> = (got[l] \o buffer[l]) \o (inbox[l] \o <<x>>)
        BY <3>b DEF front
      <3> QED
        BY <2>2, <2>4, <3>1, <3>2
    <2>6. \E rest \in Seq(Piece) : sent'[l] = got'[l] \o rest
      <3>1. PICK rest \in Seq(Piece) : sent[l] = got[l] \o rest
        BY <1>i DEF DeliveredIsPrefix
      <3>2. (got[l] \o rest) \o <<x>> = got[l] \o (rest \o <<x>>) /\ rest \o <<x>> \in Seq(Piece)
        BY <2>3, <1>t, <1>c, <1>d
      <3> QED
        BY <2>2, <2>4, <3>1, <3>2
    <2> QED
      BY <2>2, <2>5, <2>6, <1>i, <1>t, OneStream
  <1>3. ASSUME NEW l \in Links, ReadSome(l)
        PROVE  NothingLostWhileOpen' /\ DeliveredIsPrefix'
    <2>0. Len(inbox[l]) \in Nat
      BY <1>t, LenProperties
    <2>1. PICK n \in 0..Len(inbox[l]) : /\ buffer' = [buffer EXCEPT ![l] = Upto(inbox[l], n)]
                                       /\ inbox' = [inbox EXCEPT ![l] = After(@, n)]
      <3> DEFINE m == IF Len(inbox[l]) < MaxData THEN Len(inbox[l]) ELSE MaxData
      <3>1. m \in 0..Len(inbox[l])
        BY <2>0, ProxyAssumption
      <3>2. buffer' = [buffer EXCEPT ![l] = Upto(inbox[l], m)] /\ inbox' = [inbox EXCEPT ![l] = After(@, m)]
        BY <1>3 DEF ReadSome
      <3> HIDE DEF m
      <3> QED
        BY <3>1, <3>2
    <2>2. UNCHANGED <<open, sender, sent, got>> /\ buffer[l] = <<>>
      BY <1>3, <1>i DEF ReadSome, bridgeVars, LoopsInv, EmptyBuffers
    <2>3. /\ Upto(inbox[l], n) \in Seq(Piece) /\ After(inbox[l], n) \in Seq(Piece)
          /\ Upto(inbox[l], n) \o After(inbox[l], n) = inbox[l]
      BY <1>t, Split
    <2>4. open[l[1]] /\ Receiver(l) = "up" => sent'[l] = got'[l] \o buffer'[l] \o inbox'[l]
      <3> SUFFICES ASSUME open[l[1]], Receiver(l) = "up"
                   PROVE  sent'[l] = got'[l] \o buffer'[l] \o inbox'[l]
        OBVIOUS
      <3>0. got[l] \in Seq(Piece)
        BY <1>t
      <3>1. sent[l] = got[l] \o inbox[l]
        <4>1. sent[l] = got[l] \o buffer[l] \o inbox[l]
          BY <1>i DEF NothingLostWhileOpen
        <4>2. got[l] \o <<>> = got[l]
          BY <3>0, <1>d
        <4> QED
          BY <2>2, <4>1, <4>2
      <3>2. got[l] \o inbox[l] = (got[l] \o Upto(inbox[l], n)) \o After(inbox[l], n)
        <4>2. Upto(inbox[l], n) \in Seq(Piece) /\ After(inbox[l], n) \in Seq(Piece)
          BY <2>3, Zenon
        <4>3. (got[l] \o Upto(inbox[l], n)) \o After(inbox[l], n)
                  = got[l] \o (Upto(inbox[l], n) \o After(inbox[l], n))
          BY <3>0, <4>2, <1>c, Zenon
        <4> QED
          BY <2>3, <4>3, Zenon
      <3> QED
        BY <2>1, <2>2, <3>1, <3>2, <1>t
    <2>5. \E rest \in Seq(Piece) : sent'[l] = got'[l] \o rest
      BY <2>2, <1>i DEF DeliveredIsPrefix
    <2> QED
      BY <2>1, <2>2, <2>4, <2>5, <1>i, <1>t, OneStream
  <1>4. ASSUME NEW l \in Links, WriteSome(l)
        PROVE  NothingLostWhileOpen' /\ DeliveredIsPrefix'
    <2>1. PICK n \in 1..Len(buffer[l]) :
            /\ got' = [got EXCEPT ![l] = @ \o Upto(buffer[l], n)]
            /\ buffer' = [buffer EXCEPT ![l] = After(@, n)]
      BY <1>4 DEF WriteSome
    <2>2. /\ UNCHANGED <<open, sender, sent, inbox>>
          /\ open[l[1]] /\ Receiver(l) = "up"
      BY <1>4, <1>i DEF WriteSome, bridgeVars, LoopsInv, OpenWhileBusy
    <2>3. n \in 0..Len(buffer[l])
      BY <1>t, LenProperties
    <2>4. /\ Upto(buffer[l], n) \in Seq(Piece) /\ After(buffer[l], n) \in Seq(Piece)
          /\ Upto(buffer[l], n) \o After(buffer[l], n) = buffer[l]
      BY <2>3, <1>t, Split
    <2>5. sent[l] = got[l] \o buffer[l] \o inbox[l]
      BY <2>2, <1>i DEF NothingLostWhileOpen
    <2>6. got[l] \o buffer[l] = (got[l] \o Upto(buffer[l], n)) \o After(buffer[l], n)
      <3>1. got[l] \in Seq(Piece)
        BY <1>t
      <3>3. Upto(buffer[l], n) \in Seq(Piece) /\ After(buffer[l], n) \in Seq(Piece)
        BY <2>4, Zenon
      <3>4. (got[l] \o Upto(buffer[l], n)) \o After(buffer[l], n)
                = got[l] \o (Upto(buffer[l], n) \o After(buffer[l], n))
        BY <3>1, <3>3, <1>c, Zenon
      <3> QED
        BY <2>4, <3>4, Zenon
    <2>7. got'[l] = got[l] \o Upto(buffer[l], n) /\ buffer'[l] = After(buffer[l], n)
      BY <2>1, <1>t
    <2>8. sent'[l] = got'[l] \o buffer'[l] \o inbox'[l]
      BY <2>2, <2>5, <2>6, <2>7
    <2>9. \E rest \in Seq(Piece) : sent'[l] = got'[l] \o rest
      <3>1. got'[l] \in Seq(Piece) /\ buffer'[l] \in Seq(Piece) /\ inbox[l] \in Seq(Piece)
        BY <2>4, <2>7, <1>t, <1>d
      <3>2. (got'[l] \o buffer'[l]) \o inbox[l] = got'[l] \o (buffer'[l] \o inbox[l])
        BY <3>1, <1>c
      <3>3. buffer'[l] \o inbox[l] \in Seq(Piece)
        BY <3>1, <1>d
      <3> QED
        BY <2>2, <2>8, <3>2, <3>3
    <2> QED
      BY <2>1, <2>2, <2>8, <2>9, <1>i, <1>t, OneStream
  <1>5. ASSUME NEW l \in Links, WriteInVain(l)
        PROVE  NothingLostWhileOpen' /\ DeliveredIsPrefix'
    <2>1. /\ buffer' = [buffer EXCEPT ![l] = <<>>] /\ Receiver(l) # "up"
          /\ UNCHANGED <<open, sender, sent, inbox, got>>
      BY <1>5 DEF WriteInVain, bridgeVars
    <2>2. \E rest \in Seq(Piece) : sent'[l] = got'[l] \o rest
      BY <2>1, <1>i DEF DeliveredIsPrefix
    <2> QED
      BY <2>1, <2>2, <1>i, <1>t, OneStream
  <1>6. ASSUME NEW b \in Bridges, BridgeStep(b)
        PROVE  NothingLostWhileOpen' /\ DeliveredIsPrefix'
    <2>1. /\ UNCHANGED <<sent, inbox, buffer, got, sender>>
          /\ \A c \in Bridges : open'[c] => open[c]
      BY <1>6, <1>t DEF BridgeStep, Accept, Start, Refused, streamVars
    <2> QED
      BY <2>1, <1>i, StreamsStay, Reverse DEF Receiver
  <1>7. ASSUME NEW l \in Links,
               \/ Take(l) \/ ReadError(l) \/ HandleRead(l)
               \/ WriteError(l) \/ HandleWritten(l) \/ HandleError(l)
        PROVE  NothingLostWhileOpen' /\ DeliveredIsPrefix'
    <2>1. /\ UNCHANGED <<sent, inbox, buffer, got, sender>>
          /\ \A c \in Bridges : open'[c] => open[c]
      BY <1>7, <1>t
         DEF Take, ReadError, HandleRead, WriteError, HandleWritten, HandleError, bridgeVars
    <2> QED
      BY <2>1, <1>i, StreamsStay, Reverse DEF Receiver
  <1>8. ASSUME NEW l \in Links, Leave(l)
        PROVE  NothingLostWhileOpen' /\ DeliveredIsPrefix'
    <2>1. PICK how \in {"closed", "reset"} : sender' = [sender EXCEPT ![l] = how]
      BY <1>8 DEF Leave
    <2>2. UNCHANGED <<sent, inbox, buffer, got, open>>
      BY <1>8 DEF Leave, bridgeVars, streamVars
    <2>3. \A k \in Links : Receiver(k)' = "up" => Receiver(k) = "up"
      BY <2>1, <1>t, Reverse DEF Receiver
    <2> QED
      BY <2>2, <2>3, <1>i, StreamsStay
  <1>9. CASE AcceptError \/ UNCHANGED proxyVars
    BY <1>9, <1>i, StreamsStay DEF AcceptError, proxyVars, bridgeVars, streamVars, Receiver
  <1> QED
    BY <1>1, <1>2, <1>3, <1>4, <1>5, <1>6, <1>7, <1>8, <1>9 DEF ProxyNext, LinkStep

-----------------------------------------------------------------------------
(* Theorems *)

\* The variables of the proxy have their types and no buffer holds more than
\* max_data_length.
THEOREM ProxyTypes == ProxySpec => []ProxyTypeOK
  <1>1. ProxyInv => ProxyTypeOK
    BY DEF ProxyInv
  <1>2. ProxyInv /\ [ProxyNext]_proxyVars => ProxyInv'
    BY TypesNext, LoopsNext, UntouchedNext, StreamsNext DEF ProxyInv
  <1> QED
    BY ProxyInit0, <1>1, <1>2, PTL DEF ProxySpec

\* The strengthened invariant, from which the theorems below follow.
THEOREM ProxyInvariant == ProxySpec => []ProxyInv
  <1>1. ProxyInv /\ [ProxyNext]_proxyVars => ProxyInv'
    BY TypesNext, LoopsNext, UntouchedNext, StreamsNext DEF ProxyInv
  <1> QED
    BY ProxyInit0, <1>1, PTL DEF ProxySpec

\* The two loops of an open bridge lose, repeat and mix up nothing: what was sent is
\* delivered, in a buffer, or not read yet (handle_downstream_read to
\* handle_upstream_write).
THEOREM ProxyLosesNothing == ProxySpec => []NothingLostWhileOpen
  <1>1. ProxyInv => NothingLostWhileOpen
    BY DEF ProxyInv
  <1> QED
    BY ProxyInvariant, <1>1, PTL

\* A bridge closes only because an end has left or the bank could not be reached
\* (every call of close).
THEOREM ProxyClosesForCause == ProxySpec => ClosesForCause
  <1> DEFINE Cause(b) == \/ stage[b] = "connecting"
                         \/ \E l \in Links : l[1] = b /\ sender[l] # "up"
             Step == \A b \in Bridges : open[b] /\ ~open'[b] => Cause(b)
  <1>1. ASSUME ProxyInv, [ProxyNext]_proxyVars, NEW b \in Bridges, open[b], ~open'[b]
        PROVE  Cause(b)
    <2> USE <1>1
    <2>t. DOMAIN open = Bridges
      BY DEF ProxyInv, ProxyTypeOK
    <2>1. ASSUME NEW c \in Bridges, Connect(c) \/ Accept(c) \/ Start(c)
          PROVE  FALSE
      BY <2>1, <2>t DEF Connect, Accept, Start
    <2>2. ASSUME NEW c \in Bridges, Refused(c)
          PROVE  Cause(b)
      BY <2>2, <2>t DEF Refused
    <2>3. ASSUME NEW l \in Links, HandleError(l)
          PROVE  Cause(b)
      <3>1. l[1] = b
        BY <2>3, <2>t, Reverse DEF HandleError
      <3>2. sender[l] # "up" \/ sender[Rev(l)] # "up"
        BY <2>3, <3>1 DEF HandleError, ProxyInv, LoopsInv, FailedForCause, Receiver
      <3> QED
        BY <3>1, <3>2, Reverse
    <2>4. ASSUME NEW l \in Links,
                 \/ Send(l) \/ Take(l) \/ Leave(l) \/ ReadSome(l) \/ ReadError(l) \/ HandleRead(l)
                 \/ WriteSome(l) \/ WriteInVain(l) \/ WriteError(l) \/ HandleWritten(l)
          PROVE  FALSE
      BY <2>4 DEF Send, Take, Leave, ReadSome, ReadError, HandleRead, WriteSome, WriteInVain,
                  WriteError, HandleWritten, bridgeVars
    <2>5. CASE AcceptError \/ UNCHANGED proxyVars
      BY <2>5 DEF AcceptError, proxyVars, bridgeVars
    <2> HIDE DEF Cause
    <2> QED
      BY <2>1, <2>2, <2>3, <2>4, <2>5 DEF ProxyNext, LinkStep, BridgeStep
  <1>2. ProxyInv /\ [ProxyNext]_proxyVars => [Step]_proxyVars
    BY <1>1
  <1>3. ClosesForCause <=> [][Step]_proxyVars
    BY DEF ClosesForCause
  <1> QED
    BY ProxyInvariant, <1>2, <1>3, PTL DEF ProxySpec

\* A write takes at least one byte, so it delivers a longer prefix.
LEMMA WriteDelivers ==
    ASSUME ProxyInv, DeliveredIsPrefix', ProxyTypeOK', NEW l \in Links, WriteSome(l)
    PROVE  Abs!RelayDeliver(l)
  <1>t. /\ sent \in [Links -> Seq(Piece)] /\ buffer \in [Links -> Seq(Piece)]
        /\ got \in [Links -> Seq(Piece)] /\ got' \in [Links -> Seq(Piece)]
    BY DEF ProxyInv, ProxyTypeOK, Piece
  <1>1. PICK n \in 1..Len(buffer[l]) : got' = [got EXCEPT ![l] = @ \o Upto(buffer[l], n)]
    BY DEF WriteSome
  <1>2. Len(buffer[l]) \in Nat /\ n \in 0..Len(buffer[l]) /\ n \in Nat /\ n >= 1
    BY <1>t, LenProperties
  <1>3. Upto(buffer[l], n) \in Seq(Piece) /\ Len(Upto(buffer[l], n)) = n
    BY <1>2, <1>t, Split
  <1>4. got'[l] = got[l] \o Upto(buffer[l], n) /\ sent' = sent
    BY <1>1, <1>t DEF WriteSome
  <1>5. Len(got'[l]) = Len(got[l]) + n
    <2>1. got[l] \in Seq(Piece)
      BY <1>t
    <2>2. Len(got[l] \o Upto(buffer[l], n)) = Len(got[l]) + Len(Upto(buffer[l], n))
      BY <1>3, <2>1, ConcatProperties
    <2> QED
      BY <1>3, <1>4, <2>2, Zenon
  <1>6. PICK rest \in Seq(Piece) : sent[l] = got'[l] \o rest
    BY <1>4 DEF DeliveredIsPrefix
  <1>7. Len(sent[l]) = Len(got'[l]) + Len(rest)
    BY <1>6, <1>t, ConcatProperties
  <1>8. Len(got[l]) \in Nat /\ Len(got'[l]) \in Nat /\ Len(rest) \in Nat
    BY <1>t, LenProperties
  <1>9. Len(got'[l]) \in Len(got[l]) + 1 .. Len(sent[l])
    BY <1>2, <1>5, <1>7, <1>8
  <1>10. got'[l] # <<>>
    BY <1>2, <1>5, <1>8, EmptySeq
  <1>11. SubSeq(sent[l], 1, Len(got'[l])) = got'[l]
    <2>1. SubSeq(got'[l] \o rest, 1, Len(got'[l])) = got'[l]
      <3>1. got'[l] \in Seq(Piece)
        BY <1>t
      <3> QED
        BY <3>1, <1>10, PrefixOfConcat
    <2> QED
      BY <1>6, <2>1, Zenon
  <1>12. got' = [got EXCEPT ![l] = SubSeq(sent[l], 1, Len(got'[l]))]
    <2>1. got' = [got EXCEPT ![l] = got'[l]]
      BY <1>1, <1>t
    <2> QED
      BY <2>1, <1>11, Zenon
  <1> QED
    BY <1>4, <1>9, <1>12 DEF Abs!RelayDeliver

\* Every direction of every bridge delivers, in order and unchanged, a prefix of
\* what its sender sent on it: the proxy is a Relay, whatever its buffer, the
\* partial writes and the errors.
THEOREM ProxyRefinesRelay == ProxySpec => ImplementsRelay
  <1>1. ProxyInit => Abs!RelayInit
    BY DEF ProxyInit, Abs!RelayInit
  <1>2. ProxyInv /\ ProxyInv' /\ [ProxyNext]_proxyVars => [Abs!RelayNext]_(Abs!relayVars)
    <2> SUFFICES ASSUME ProxyInv, ProxyInv', [ProxyNext]_proxyVars
                 PROVE  [Abs!RelayNext]_(Abs!relayVars)
      OBVIOUS
    <2>1. ASSUME NEW l \in Links, Send(l)
          PROVE  Abs!RelayNext
      <3> DEFINE x == <<l, Len(sent[l]) + 1>>
      <3>1. Len(sent[l]) \in Nat /\ MaxSent[l] \in Nat
        BY ProxyAssumption, LenProperties DEF ProxyInv, ProxyTypeOK
      <3>2. Len(sent[l]) + 1 \in 1..MaxSent[l]
        BY <2>1, <3>1 DEF Send
      <3>3. x \in AllBytes
        BY <3>2 DEF AllBytes
      <3>4. sent' = [sent EXCEPT ![l] = Append(@, x)] /\ UNCHANGED got
        BY <2>1 DEF Send
      <3> HIDE DEF x
      <3> QED
        BY <3>3, <3>4 DEF Abs!RelayNext, Abs!RelaySend
    <2>2. ASSUME NEW l \in Links, WriteSome(l)
          PROVE  Abs!RelayNext
      BY <2>2, WriteDelivers DEF ProxyInv, Abs!RelayNext
    <2>3. ASSUME NEW b \in Bridges, Connect(b) \/ BridgeStep(b)
          PROVE  UNCHANGED <<sent, got>>
      BY <2>3 DEF Connect, BridgeStep, Accept, Start, Refused, streamVars
    <2>4. ASSUME NEW l \in Links,
                 \/ Take(l) \/ Leave(l) \/ ReadSome(l) \/ ReadError(l) \/ HandleRead(l)
                 \/ WriteInVain(l) \/ WriteError(l) \/ HandleWritten(l) \/ HandleError(l)
          PROVE  UNCHANGED <<sent, got>>
      BY <2>4 DEF Take, Leave, ReadSome, ReadError, HandleRead, WriteInVain, WriteError,
                  HandleWritten, HandleError, streamVars
    <2>5. CASE AcceptError \/ UNCHANGED proxyVars
      BY <2>5 DEF AcceptError, proxyVars, bridgeVars, streamVars, Abs!relayVars
    <2> QED
      <3>1. CASE \E b \in Bridges : Connect(b) \/ BridgeStep(b)
        BY <3>1, <2>3 DEF Abs!relayVars
      <3>2. CASE \E l \in Links : Send(l) \/ Take(l) \/ Leave(l) \/ LinkStep(l)
        <4>1. PICK l \in Links : Send(l) \/ Take(l) \/ Leave(l) \/ LinkStep(l)
          BY <3>2
        <4>2. CASE Send(l) \/ WriteSome(l)
          BY <4>2, <2>1, <2>2
        <4>3. CASE ~Send(l) /\ ~WriteSome(l)
          BY <4>1, <4>3, <2>4 DEF LinkStep, Abs!relayVars
        <4> QED
          BY <4>2, <4>3
      <3> QED
        BY <3>1, <3>2, <2>5 DEF ProxyNext, Abs!relayVars
  <1> QED
    BY ProxyInvariant, <1>1, <1>2, PTL DEF ProxySpec, ImplementsRelay, Abs!RelaySpec
-----------------------------------------------------------------------------
(* The last words *)

\* A read returns at least one byte, and a write that has not ended has one to write.
BusyBuffers == \A l \in Links : loop[l] \in {"read", "writing"} => buffer[l] # <<>>

\* No byte is in two places, also when bytes are written in vain.
Counted == \A l \in Links : Len(got[l]) + Len(buffer[l]) + Len(inbox[l]) <= Len(sent[l])

\* Why a handler of an open bridge is about to report an error.
OpenFailures ==
    \A l \in Links : loop[l] = "failed" /\ open[l[1]] =>
        \/ sender[l] = "reset"
        \/ sender[l] = "closed" /\ inbox[l] = <<>> /\ buffer[l] = <<>>
        \/ Receiver(l) # "up" /\ buffer[l] # <<>>

LEMMA BusyBuffersNext ==
    ASSUME ProxyInv, BusyBuffers, [ProxyNext]_proxyVars
    PROVE  BusyBuffers'
  <1>t. /\ loop \in [Links -> LoopSteps]
        /\ buffer \in [Links -> Seq(Piece)] /\ inbox \in [Links -> Seq(Piece)]
    BY DEF ProxyInv, ProxyTypeOK, Piece
  <1> USE <1>t DEF BusyBuffers
  <1>1. ASSUME NEW b \in Bridges, Connect(b) \/ BridgeStep(b)
        PROVE  BusyBuffers'
    BY <1>1 DEF Connect, BridgeStep, Accept, Start, Refused, streamVars
  <1>2. ASSUME NEW l \in Links, Send(l) \/ Take(l) \/ Leave(l)
        PROVE  BusyBuffers'
    BY <1>2 DEF Send, Take, Leave, bridgeVars, streamVars
  <1>3. ASSUME NEW l \in Links, ReadSome(l)
        PROVE  BusyBuffers'
    <2> DEFINE n == IF Len(inbox[l]) < MaxData THEN Len(inbox[l]) ELSE MaxData
    <2>1. inbox[l] \in Seq(Piece) /\ Len(inbox[l]) \in Nat /\ Len(inbox[l]) # 0
      BY <1>3, LenProperties, EmptySeq DEF ReadSome
    <2>2. n \in 0..Len(inbox[l]) /\ n # 0
      BY <2>1, ProxyAssumption
    <2>3. /\ buffer' = [buffer EXCEPT ![l] = Upto(inbox[l], n)]
          /\ loop' = [loop EXCEPT ![l] = "read"]
      BY <1>3 DEF ReadSome
    <2> HIDE DEF n
    <2>4. Len(Upto(inbox[l], n)) = n
      BY <2>1, <2>2, Split
    <2>5. Upto(inbox[l], n) # <<>>
      BY <2>2, <2>4, EmptySeq
    <2> QED
      BY <2>3, <2>5
  <1>4. ASSUME NEW l \in Links, ReadError(l) \/ HandleRead(l) \/ WriteError(l) \/ HandleWritten(l)
        PROVE  BusyBuffers'
    BY <1>4 DEF ReadError, HandleRead, WriteError, HandleWritten
  <1>5. ASSUME NEW l \in Links, WriteSome(l)
        PROVE  BusyBuffers'
    <2>1. PICK n \in 1..Len(buffer[l]) :
            /\ buffer' = [buffer EXCEPT ![l] = After(@, n)]
            /\ loop' = [loop EXCEPT ![l] = IF n = Len(buffer[l]) THEN "written" ELSE "writing"]
      BY <1>5 DEF WriteSome
    <2>2. Len(buffer[l]) \in Nat /\ n \in 0..Len(buffer[l]) /\ buffer[l] \in Seq(Piece)
      BY LenProperties
    <2>3. Len(After(buffer[l], n)) = Len(buffer[l]) - n
      BY <2>2, Split
    <2>4. n # Len(buffer[l]) => After(buffer[l], n) # <<>>
      BY <2>2, <2>3, EmptySeq
    <2> QED
      BY <2>1, <2>4
  <1>6. ASSUME NEW l \in Links, WriteInVain(l)
        PROVE  BusyBuffers'
    BY <1>6 DEF WriteInVain
  <1>7. ASSUME NEW l \in Links, HandleError(l)
        PROVE  BusyBuffers'
    BY <1>7, Reverse DEF HandleError
  <1>8. CASE AcceptError \/ UNCHANGED proxyVars
    BY <1>8 DEF AcceptError, proxyVars, streamVars
  <1> QED
    BY <1>1, <1>2, <1>3, <1>4, <1>5, <1>6, <1>7, <1>8 DEF ProxyNext, LinkStep

\* What the counts of a link come to when bytes are sent, read, written or lost.
LEMMA SendCount ==
    ASSUME NEW g \in Nat, NEW b \in Nat, NEW i \in Nat, NEW s \in Nat, g + b + i <= s
    PROVE  g + b + (i + 1) <= s + 1
  OBVIOUS

LEMMA ReadCount ==
    ASSUME NEW g \in Nat, NEW b \in Nat, NEW i \in Nat, NEW s \in Nat, NEW n \in 0..i,
           b = 0, g + b + i <= s
    PROVE  g + n + (i - n) <= s
  OBVIOUS

LEMMA WriteCount ==
    ASSUME NEW g \in Nat, NEW b \in Nat, NEW i \in Nat, NEW s \in Nat, NEW n \in 0..b,
           g + b + i <= s
    PROVE  (g + n) + (b - n) + i <= s
  OBVIOUS

LEMMA LossCount ==
    ASSUME NEW g \in Nat, NEW b \in Nat, NEW i \in Nat, NEW s \in Nat, g + b + i <= s
    PROVE  g + 0 + i <= s
  OBVIOUS

LEMMA BusyCount ==
    ASSUME NEW g \in Nat, NEW b \in Nat, NEW i \in Nat, NEW s \in Nat, g + b + i <= s, b # 0
    PROVE  s # g
  OBVIOUS

\* One link carried bytes: it is enough to count that one's.
LEMMA OneCount ==
    ASSUME Counted, NEW l \in Links,
           \A k \in Links \ {l} : /\ sent'[k] = sent[k] /\ inbox'[k] = inbox[k]
                                  /\ buffer'[k] = buffer[k] /\ got'[k] = got[k],
           Len(got'[l]) + Len(buffer'[l]) + Len(inbox'[l]) <= Len(sent'[l])
    PROVE  Counted'
  <1> SUFFICES ASSUME NEW k \in Links
               PROVE  Len(got'[k]) + Len(buffer'[k]) + Len(inbox'[k]) <= Len(sent'[k])
    BY DEF Counted
  <1>1. CASE k = l
    BY <1>1
  <1>2. CASE k # l
    BY <1>2 DEF Counted
  <1> QED
    BY <1>1, <1>2

LEMMA CountedNext ==
    ASSUME ProxyInv, Counted, [ProxyNext]_proxyVars
    PROVE  Counted'
  <1>t. /\ sent \in [Links -> Seq(Piece)] /\ inbox \in [Links -> Seq(Piece)]
        /\ buffer \in [Links -> Seq(Piece)] /\ got \in [Links -> Seq(Piece)]
    BY DEF ProxyInv, ProxyTypeOK, Piece
  <1>n. \A l \in Links : /\ Len(sent[l]) \in Nat /\ Len(inbox[l]) \in Nat
                         /\ Len(buffer[l]) \in Nat /\ Len(got[l]) \in Nat
    BY <1>t, LenProperties
  <1>c. ASSUME NEW l \in Links
        PROVE  Len(got[l]) + Len(buffer[l]) + Len(inbox[l]) <= Len(sent[l])
    BY DEF Counted
  <1>0. ASSUME UNCHANGED <<sent, inbox, buffer, got>>
        PROVE  Counted'
    BY <1>0 DEF Counted
  <1>1. ASSUME NEW b \in Bridges, Connect(b) \/ BridgeStep(b)
        PROVE  Counted'
    BY <1>0, <1>1 DEF Connect, BridgeStep, Accept, Start, Refused, streamVars
  <1>2. ASSUME NEW l \in Links,
               \/ Take(l) \/ Leave(l) \/ ReadError(l) \/ HandleRead(l) \/ WriteError(l)
               \/ HandleWritten(l) \/ HandleError(l)
        PROVE  Counted'
    BY <1>0, <1>2 DEF Take, Leave, ReadError, HandleRead, WriteError, HandleWritten, HandleError,
                      streamVars
  <1>3. ASSUME NEW l \in Links, Send(l)
        PROVE  Counted'
    <2> DEFINE x == <<l, Len(sent[l]) + 1>>
    <2>1. x \in Piece
      BY <1>n DEF Piece
    <2>2. /\ sent' = [sent EXCEPT ![l] = Append(@, x)]
          /\ inbox' = [inbox EXCEPT ![l] = Append(@, x)]
          /\ UNCHANGED <<buffer, got>>
      BY <1>3 DEF Send
    <2> HIDE DEF x
    <2>3. Len(Append(sent[l], x)) = Len(sent[l]) + 1 /\ Len(Append(inbox[l], x)) = Len(inbox[l]) + 1
      BY <2>1, <1>t, AppendProperties
    <2>4. /\ Len(sent'[l]) = Len(sent[l]) + 1 /\ Len(inbox'[l]) = Len(inbox[l]) + 1
          /\ Len(buffer'[l]) = Len(buffer[l]) /\ Len(got'[l]) = Len(got[l])
      BY <2>2, <2>3, <1>t
    <2>5. Len(got'[l]) + Len(buffer'[l]) + Len(inbox'[l]) <= Len(sent'[l])
      <3>1. /\ Len(sent[l]) \in Nat /\ Len(inbox[l]) \in Nat
            /\ Len(buffer[l]) \in Nat /\ Len(got[l]) \in Nat
            /\ Len(got[l]) + Len(buffer[l]) + Len(inbox[l]) <= Len(sent[l])
        BY <1>n, <1>c
      <3>2. Len(got[l]) + Len(buffer[l]) + (Len(inbox[l]) + 1) <= Len(sent[l]) + 1
        BY <3>1, SendCount, Zenon
      <3> QED
        BY <2>4, <3>2, Zenon
    <2>6. \A k \in Links \ {l} : /\ sent'[k] = sent[k] /\ inbox'[k] = inbox[k]
                                 /\ buffer'[k] = buffer[k] /\ got'[k] = got[k]
      BY <2>2, <1>t
    <2> QED
      BY <2>5, <2>6, OneCount
  <1>4. ASSUME NEW l \in Links, ReadSome(l)
        PROVE  Counted'
    <2> DEFINE n == IF Len(inbox[l]) < MaxData THEN Len(inbox[l]) ELSE MaxData
    <2>1. n \in 0..Len(inbox[l])
      BY <1>n, ProxyAssumption
    <2>2. /\ buffer' = [buffer EXCEPT ![l] = Upto(inbox[l], n)]
          /\ inbox' = [inbox EXCEPT ![l] = After(@, n)]
          /\ UNCHANGED <<sent, got>> /\ loop[l] = "reading"
      BY <1>4 DEF ReadSome
    <2> HIDE DEF n
    <2>3. Len(Upto(inbox[l], n)) = n /\ Len(After(inbox[l], n)) = Len(inbox[l]) - n
      <3>1. inbox[l] \in Seq(Piece)
        BY <1>t
      <3> QED
        BY <2>1, <3>1, Split
    <2>4. Len(buffer[l]) = 0
      BY <2>2, EmptySeq DEF ProxyInv, LoopsInv, EmptyBuffers
    <2>5. /\ Len(buffer'[l]) = n /\ Len(inbox'[l]) = Len(inbox[l]) - n
          /\ Len(sent'[l]) = Len(sent[l]) /\ Len(got'[l]) = Len(got[l])
      BY <2>2, <2>3, <1>t
    <2>6. Len(got'[l]) + Len(buffer'[l]) + Len(inbox'[l]) <= Len(sent'[l])
      <3>1. /\ Len(sent[l]) \in Nat /\ Len(inbox[l]) \in Nat
            /\ Len(buffer[l]) \in Nat /\ Len(got[l]) \in Nat
            /\ Len(got[l]) + Len(buffer[l]) + Len(inbox[l]) <= Len(sent[l])
        BY <1>n, <1>c
      <3>2. Len(got[l]) + n + (Len(inbox[l]) - n) <= Len(sent[l])
        BY <2>1, <2>4, <3>1, ReadCount, Zenon
      <3> QED
        BY <2>5, <3>2, Zenon
    <2>7. \A k \in Links \ {l} : /\ sent'[k] = sent[k] /\ inbox'[k] = inbox[k]
                                 /\ buffer'[k] = buffer[k] /\ got'[k] = got[k]
      BY <2>2, <1>t
    <2> QED
      BY <2>6, <2>7, OneCount
  <1>5. ASSUME NEW l \in Links, WriteSome(l)
        PROVE  Counted'
    <2>1. PICK n \in 1..Len(buffer[l]) :
            /\ got' = [got EXCEPT ![l] = @ \o Upto(buffer[l], n)]
            /\ buffer' = [buffer EXCEPT ![l] = After(@, n)]
      BY <1>5 DEF WriteSome
    <2>2. n \in 0..Len(buffer[l]) /\ UNCHANGED <<sent, inbox>>
      BY <1>5, <1>n DEF WriteSome
    <2>3. /\ Upto(buffer[l], n) \in Seq(Piece) /\ Len(Upto(buffer[l], n)) = n
          /\ Len(After(buffer[l], n)) = Len(buffer[l]) - n
      <3>1. buffer[l] \in Seq(Piece)
        BY <1>t
      <3> QED
        BY <2>2, <3>1, Split
    <2>4. Len(got[l] \o Upto(buffer[l], n)) = Len(got[l]) + n
      <3>1. got[l] \in Seq(Piece)
        BY <1>t
      <3>2. Len(got[l] \o Upto(buffer[l], n)) = Len(got[l]) + Len(Upto(buffer[l], n))
        BY <2>3, <3>1, ConcatProperties
      <3> QED
        BY <2>3, <3>2, Zenon
    <2>5. /\ Len(got'[l]) = Len(got[l]) + n /\ Len(buffer'[l]) = Len(buffer[l]) - n
          /\ Len(sent'[l]) = Len(sent[l]) /\ Len(inbox'[l]) = Len(inbox[l])
      BY <2>1, <2>2, <2>3, <2>4, <1>t
    <2>6. Len(got'[l]) + Len(buffer'[l]) + Len(inbox'[l]) <= Len(sent'[l])
      <3>1. /\ Len(sent[l]) \in Nat /\ Len(inbox[l]) \in Nat
            /\ Len(buffer[l]) \in Nat /\ Len(got[l]) \in Nat
            /\ Len(got[l]) + Len(buffer[l]) + Len(inbox[l]) <= Len(sent[l])
        BY <1>n, <1>c
      <3>2. (Len(got[l]) + n) + (Len(buffer[l]) - n) + Len(inbox[l]) <= Len(sent[l])
        BY <2>2, <3>1, WriteCount, Zenon
      <3> QED
        BY <2>5, <3>2, Zenon
    <2>7. \A k \in Links \ {l} : /\ sent'[k] = sent[k] /\ inbox'[k] = inbox[k]
                                 /\ buffer'[k] = buffer[k] /\ got'[k] = got[k]
      BY <2>1, <2>2, <1>t
    <2> QED
      BY <2>6, <2>7, OneCount
  <1>6. ASSUME NEW l \in Links, WriteInVain(l)
        PROVE  Counted'
    <2>1. buffer' = [buffer EXCEPT ![l] = <<>>] /\ UNCHANGED <<sent, inbox, got>>
      BY <1>6 DEF WriteInVain
    <2>2. Len(buffer'[l]) = 0
      BY <2>1, <1>t, EmptySeq
    <2>3. Len(got'[l]) + Len(buffer'[l]) + Len(inbox'[l]) <= Len(sent'[l])
      <3>1. /\ Len(sent[l]) \in Nat /\ Len(inbox[l]) \in Nat
            /\ Len(buffer[l]) \in Nat /\ Len(got[l]) \in Nat
            /\ Len(got[l]) + Len(buffer[l]) + Len(inbox[l]) <= Len(sent[l])
        BY <1>n, <1>c
      <3>2. Len(got[l]) + 0 + Len(inbox[l]) <= Len(sent[l])
        BY <3>1, LossCount, Zenon
      <3>3. got' = got /\ inbox' = inbox /\ sent' = sent
        BY <2>1
      <3> QED
        BY <2>2, <3>2, <3>3, Zenon
    <2>4. \A k \in Links \ {l} : /\ sent'[k] = sent[k] /\ inbox'[k] = inbox[k]
                                 /\ buffer'[k] = buffer[k] /\ got'[k] = got[k]
      BY <2>1, <1>t
    <2> QED
      BY <2>3, <2>4, OneCount
  <1>7. CASE AcceptError \/ UNCHANGED proxyVars
    BY <1>0, <1>7 DEF AcceptError, proxyVars, streamVars
  <1> QED
    BY <1>1, <1>2, <1>3, <1>4, <1>5, <1>6, <1>7 DEF ProxyNext, LinkStep

LEMMA OpenFailuresNext ==
    ASSUME ProxyInv, BusyBuffers, OpenFailures, [ProxyNext]_proxyVars
    PROVE  OpenFailures'
  <1>t. /\ open \in [Bridges -> BOOLEAN] /\ sender \in [Links -> {"up", "closed", "reset"}]
        /\ loop \in [Links -> LoopSteps]
        /\ DOMAIN buffer = Links /\ DOMAIN inbox = Links
    BY DEF ProxyInv, ProxyTypeOK
  <1>r. \A l \in Links : /\ Rev(l) \in Links /\ Rev(l)[1] = l[1] /\ Rev(l) # l
                         /\ l[1] \in Bridges
    BY Reverse
  <1>i. /\ \A l \in Links : loop[l] = "reading" => buffer[l] = <<>>
        /\ \A l \in Links : stage[l[1]] = "none" => loop[l] = "off"
    BY <1>r DEF ProxyInv, LoopsInv, EmptyBuffers, NotStarted
  <1> USE <1>t, <1>r DEF OpenFailures, Receiver
  <1>1. ASSUME NEW b \in Bridges, Connect(b) \/ BridgeStep(b)
        PROVE  OpenFailures'
    <2>1. CASE Connect(b)
      BY <2>1, <1>i DEF Connect, streamVars
    <2>2. CASE Accept(b) \/ Start(b) \/ Refused(b)
      BY <2>2 DEF Accept, Start, Refused, streamVars
    <2> QED
      BY <1>1, <2>1, <2>2 DEF BridgeStep
  <1>2. ASSUME NEW l \in Links, Send(l)
        PROVE  OpenFailures'
    <2>1. /\ sender[l] = "up" /\ UNCHANGED <<open, sender, loop, buffer>>
          /\ \A k \in Links : k # l => inbox'[k] = inbox[k]
      BY <1>2 DEF Send, bridgeVars
    <2> QED
      BY <2>1
  <1>3. ASSUME NEW l \in Links, Take(l)
        PROVE  OpenFailures'
    BY <1>3 DEF Take, bridgeVars
  <1>4. ASSUME NEW l \in Links, Leave(l)
        PROVE  OpenFailures'
    <2>1. PICK how \in {"closed", "reset"} : sender' = [sender EXCEPT ![l] = how]
      BY <1>4 DEF Leave
    <2>2. sender[l] = "up" /\ UNCHANGED <<open, loop, buffer, inbox>>
      BY <1>4 DEF Leave, bridgeVars, streamVars
    <2> QED
      BY <2>1, <2>2
  <1>5. ASSUME NEW l \in Links, ReadSome(l) \/ HandleRead(l) \/ HandleWritten(l)
        PROVE  OpenFailures'
    BY <1>5 DEF ReadSome, HandleRead, HandleWritten, bridgeVars
  <1>6. ASSUME NEW l \in Links, ReadError(l)
        PROVE  OpenFailures'
    BY <1>6, <1>i DEF ReadError, bridgeVars
  <1>7. ASSUME NEW l \in Links, WriteSome(l)
        PROVE  OpenFailures'
    <2>1. PICK s \in {"written", "writing"} : loop' = [loop EXCEPT ![l] = s]
      BY <1>7 DEF WriteSome
    <2>2. \A k \in Links : k # l => buffer'[k] = buffer[k]
      BY <1>7 DEF WriteSome
    <2>3. UNCHANGED <<open, sender, inbox>>
      BY <1>7 DEF WriteSome, bridgeVars
    <2> QED
      BY <2>1, <2>2, <2>3
  <1>8. ASSUME NEW l \in Links, WriteInVain(l)
        PROVE  OpenFailures'
    BY <1>8 DEF WriteInVain, bridgeVars
  <1>9. ASSUME NEW l \in Links, WriteError(l)
        PROVE  OpenFailures'
    BY <1>9 DEF WriteError, BusyBuffers, bridgeVars
  <1>10. ASSUME NEW l \in Links, HandleError(l)
        PROVE  OpenFailures'
    BY <1>10 DEF HandleError
  <1>11. CASE AcceptError \/ UNCHANGED proxyVars
    BY <1>11 DEF AcceptError, proxyVars, bridgeVars, streamVars
  <1> QED
    BY <1>1, <1>2, <1>3, <1>4, <1>5, <1>6, <1>7, <1>8, <1>9, <1>10, <1>11 DEF ProxyNext, LinkStep

LastWordsInv == ProxyInv /\ BusyBuffers /\ Counted /\ OpenFailures

\* The last words of an end that closes, after the other end has had everything
\* it said delivered, are delivered before the proxy closes on it (close is called by
\* every handler's error branch): for any buffer, window and portions.
THEOREM ProxyDeliversLastWords == ProxySpec => LastWordsDelivered
  <1> DEFINE Step == \A l \in Links :
                /\ stage[l[1]] = "relaying"
                /\ open[l[1]] /\ ~open'[l[1]]
                /\ sender[l] = "closed" /\ Receiver(l) = "up"
                /\ got[Rev(l)] = sent[Rev(l)]
                => got[l] = sent[l]
  <1>1. ProxyInit => LastWordsInv
    <2> SUFFICES ASSUME ProxyInit
                 PROVE  LastWordsInv
      OBVIOUS
    <2>1. BusyBuffers /\ OpenFailures
      BY DEF ProxyInit, BusyBuffers, OpenFailures
    <2>2. Counted
      <3>1. Len(<<>>) = 0
        BY EmptySeq
      <3> QED
        BY <3>1 DEF ProxyInit, Counted
    <2> QED
      BY <2>1, <2>2, ProxyInit0 DEF LastWordsInv
  <1>2. LastWordsInv /\ [ProxyNext]_proxyVars => LastWordsInv'
    <2>1. ProxyInv /\ [ProxyNext]_proxyVars => ProxyInv'
      BY TypesNext, LoopsNext, UntouchedNext, StreamsNext DEF ProxyInv
    <2> QED
      BY <2>1, BusyBuffersNext, CountedNext, OpenFailuresNext DEF LastWordsInv
  <1>3. ASSUME LastWordsInv, [ProxyNext]_proxyVars, NEW l \in Links,
               stage[l[1]] = "relaying", open[l[1]], ~open'[l[1]], sender[l] = "closed",
               Receiver(l) = "up", got[Rev(l)] = sent[Rev(l)]
        PROVE  got[l] = sent[l]
    <2> USE <1>3
    <2>t. /\ DOMAIN open = Bridges
          /\ sent \in [Links -> Seq(Piece)] /\ inbox \in [Links -> Seq(Piece)]
          /\ buffer \in [Links -> Seq(Piece)] /\ got \in [Links -> Seq(Piece)]
      BY DEF LastWordsInv, ProxyInv, ProxyTypeOK, Piece
    <2>1. PICK k \in Links : HandleError(k)
      <3>1. ASSUME NEW c \in Bridges, Connect(c) \/ Accept(c) \/ Start(c) \/ Refused(c)
            PROVE  FALSE
        BY <3>1, <2>t, Reverse DEF Connect, Accept, Start, Refused
      <3>2. ASSUME NEW k \in Links,
                   \/ Send(k) \/ Take(k) \/ Leave(k) \/ ReadSome(k) \/ ReadError(k)
                   \/ HandleRead(k) \/ WriteSome(k) \/ WriteInVain(k) \/ WriteError(k)
                   \/ HandleWritten(k)
            PROVE  FALSE
        BY <3>2 DEF Send, Take, Leave, ReadSome, ReadError, HandleRead, WriteSome, WriteInVain,
                    WriteError, HandleWritten, bridgeVars
      <3>3. CASE AcceptError \/ UNCHANGED proxyVars
        BY <3>3 DEF AcceptError, proxyVars, bridgeVars
      <3> QED
        BY <3>1, <3>2, <3>3 DEF ProxyNext, LinkStep, BridgeStep
    <2>2. k = l \/ k = Rev(l)
      <3>1. k[1] = l[1]
        BY <2>1, <2>t, Reverse DEF HandleError
      <3> QED
        BY <3>1, Reverse
    <2>3. /\ loop[k] = "failed" /\ open[k[1]]
          /\ Rev(l) \in Links /\ Rev(Rev(l)) = l
      BY <2>1, <2>2, Reverse DEF HandleError
    <2>4. \/ sender[k] = "reset"
          \/ sender[k] = "closed" /\ inbox[k] = <<>> /\ buffer[k] = <<>>
          \/ Receiver(k) # "up" /\ buffer[k] # <<>>
      BY <2>3 DEF LastWordsInv, OpenFailures
    <2>5. CASE k = l
      <3>1. inbox[l] = <<>> /\ buffer[l] = <<>>
        BY <2>4, <2>5
      <3>2. sent[l] = got[l] \o buffer[l] \o inbox[l]
        BY DEF LastWordsInv, ProxyInv, NothingLostWhileOpen
      <3>3. got[l] \in Seq(Piece) /\ sent[l] = (got[l] \o <<>>) \o <<>>
        BY <3>1, <3>2, <2>t
      <3> QED
        BY <3>3, ConcatEmptySeq
    <2>6. CASE k = Rev(l)
      <3>1. buffer[Rev(l)] # <<>>
        BY <2>4, <2>6 DEF Receiver
      <3>2. /\ Len(got[Rev(l)]) \in Nat /\ Len(inbox[Rev(l)]) \in Nat
            /\ Len(buffer[Rev(l)]) \in Nat /\ Len(buffer[Rev(l)]) # 0
        <4>1. /\ got[Rev(l)] \in Seq(Piece) /\ inbox[Rev(l)] \in Seq(Piece)
              /\ buffer[Rev(l)] \in Seq(Piece)
          BY <2>3, <2>t
        <4> QED
          BY <3>1, <4>1, LenProperties, EmptySeq
      <3>3. Len(got[Rev(l)]) + Len(buffer[Rev(l)]) + Len(inbox[Rev(l)]) <= Len(sent[Rev(l)])
        BY <2>3 DEF LastWordsInv, Counted
      <3>4. Len(sent[Rev(l)]) = Len(got[Rev(l)])
        OBVIOUS
      <3>5. Len(sent[Rev(l)]) \in Nat
        BY <3>2, <3>4
      <3> QED
        BY <3>2, <3>3, <3>4, <3>5, BusyCount, Zenon
    <2> QED
      BY <2>2, <2>5, <2>6
  <1>4. LastWordsInv /\ [ProxyNext]_proxyVars => [Step]_proxyVars
    BY <1>3
  <1>5. LastWordsDelivered <=> [][Step]_proxyVars
    BY DEF LastWordsDelivered
  <1> QED
    BY <1>1, <1>2, <1>4, <1>5, PTL DEF ProxySpec
=============================================================================
