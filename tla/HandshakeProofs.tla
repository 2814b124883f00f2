--------------------------- MODULE HandshakeProofs ---------------------------
(***************************************************************************)
(* Theorems about the handshake, for any number of runs of genrsa and with *)
(* every fault: what an ATM that goes past the challenge may rely on, that *)
(* the bank is ready before the ATM, that it goes on only after the ATM's  *)
(* ack, what can make an end fail, and what the dialogue begins with.      *)
(*                                                                         *)
(* The argument for BankProven follows the one bit echo, set by the bank   *)
(* when both ends have loaded their keys and before the ATM compares, and  *)
(* never again; the keys do not change after they are loaded.              *)
(***************************************************************************)
EXTENDS Handshake, SequenceTheorems, FiniteSetTheorems, TLAPS

PcTypes ==
    /\ pc \in [Ends -> {"load", "failed", "C1", "PA", "ACK", "REQ", "served",
                       "C2", "PB", "IV", "done", "answer"}]
    /\ DOMAIN keys = Ends
    /\ DOMAIN secret = Ends
    /\ socket \in [Ends -> Seq(Units)]

\* Who has not loaded its keys has sent nothing, and who waits for a message has
\* loaded them.
Loaded ==
    /\ pc["atm"] = "load" => socket["bank"] = <<>>
    /\ pc["bank"] \in Waiting["bank"] \cup Done["bank"] => Len(keys["bank"]) = 3

EchoIsProof ==
    /\ echo => /\ pc["bank"] \notin {"load", "C1"}
               /\ pc["atm"] # "load"
               /\ Len(keys["bank"]) = 3
               /\ Matched
    /\ pc["atm"] \in {"PB", "IV"} \cup Done["atm"] => echo

Agreed ==
    /\ pc["bank"] \in {"ACK"} \cup Done["bank"] => secret["bank"] = "shared"
    /\ pc["atm"] \in {"IV"} \cup Done["atm"] => secret["atm"] = "shared"

BankReady == pc["bank"] \in Done["bank"] \cup {"failed"}

IvIsSent ==
    /\ \A i \in 1..Len(socket["atm"]) : socket["atm"][i][1] = "IV" => BankReady
    /\ AtmAfterBank

HandshakeInv == PcTypes /\ Loaded /\ EchoIsProof /\ Agreed /\ IvIsSent

-----------------------------------------------------------------------------
(* Messages and sockets *)

LEMMA EndFacts ==
    /\ "bank" \in Ends /\ "atm" \in Ends /\ "bank" # "atm"
    /\ Peer("bank") = "atm" /\ Peer("atm") = "bank"
    /\ Waiting["bank"] = {"C1", "PA", "ACK", "REQ"}
    /\ Waiting["atm"] = {"C2", "PB", "IV", "answer"}
    /\ Done["bank"] = {"REQ", "served"}
    /\ Done["atm"] = {"done", "answer"}
  BY DEF Ends, Peer, Waiting, Done

LEMMA AllMessages == {"C1", "C2", "PA", "PB", "ACK", "IV", "REQ"} = Messages
  BY DEF Messages, Parts

LEMMA TextUnits ==
    ASSUME NEW m \in Messages
    PROVE  /\ Text(m) \in Seq(Units)
           /\ \A i \in 1..Len(Text(m)) : Text(m)[i][1] = m
  <1>1. Parts[m] \in Seq({"head", "most", "last", "pad", "extra"})
    <2>1. Parts[m] \in {<<"head", "most", "last", "pad">>, <<"head", "last", "pad">>,
                        <<"head", "last", "extra">>, <<"head", "last">>, <<"last">>}
      BY AllMessages DEF Parts
    <2> DEFINE P == {"head", "most", "last", "pad", "extra"}
    <2>2. /\ <<"head", "most", "last", "pad">> \in Seq(P) /\ <<"head", "last", "pad">> \in Seq(P)
          /\ <<"head", "last", "extra">> \in Seq(P) /\ <<"head", "last">> \in Seq(P)
          /\ <<"last">> \in Seq(P)
      OBVIOUS
    <2> QED
      BY <2>1, <2>2
  <1>2. Len(Parts[m]) \in Nat
        /\ \A i \in 1..Len(Parts[m]) : Parts[m][i] \in {"head", "most", "last", "pad", "extra"}
    BY <1>1
  <1>3. \A i \in 1..Len(Parts[m]) : <<m, Parts[m][i]>> \in Units
    BY <1>2 DEF Units
  <1>4. Text(m) \in Seq(Units) /\ Len(Text(m)) = Len(Parts[m])
    BY <1>2, <1>3 DEF Text
  <1> QED
    BY <1>4, <1>2 DEF Text

LEMMA LeftUnits ==
    ASSUME socket \in [Ends -> Seq(Units)], NEW e \in Ends, NEW n \in Reads(e)
    PROVE  /\ Left(e, n) \in Seq(Units)
           /\ \A i \in 1..Len(Left(e, n)) :
                 \E j \in 1..Len(socket[e]) : Left(e, n)[i] = socket[e][j]
           /\ Len(Got(e, n)) = n /\ n \in 1..Len(socket[e])
           /\ \A i \in 1..n : Got(e, n)[i] = socket[e][i]
  <1>1. socket[e] \in Seq(Units) /\ Len(socket[e]) \in Nat
        /\ \A i \in 1..Len(socket[e]) : socket[e][i] \in Units
    BY LenProperties, ElementOfSeq
  <1>2. n \in 1..Len(socket[e]) /\ n \in Nat
    BY <1>1 DEF Reads
  <1>3. /\ SubSeq(socket[e], n + 1, Len(socket[e])) \in Seq(Units)
        /\ Len(SubSeq(socket[e], n + 1, Len(socket[e]))) =
              IF n + 1 <= Len(socket[e]) THEN Len(socket[e]) - (n + 1) + 1 ELSE 0
        /\ \A i \in 1 .. Len(socket[e]) - (n + 1) + 1 :
              SubSeq(socket[e], n + 1, Len(socket[e]))[i] = socket[e][(n + 1) + i - 1]
    BY <1>1, <1>2, SubSeqProperties
  <1>4. \A i \in 1..Len(Left(e, n)) : \E j \in 1..Len(socket[e]) : Left(e, n)[i] = socket[e][j]
    <2> SUFFICES ASSUME NEW i \in 1..Len(Left(e, n))
                 PROVE  \E j \in 1..Len(socket[e]) : Left(e, n)[i] = socket[e][j]
      OBVIOUS
    <2>1. i \in 1 .. Len(socket[e]) - n
      BY <1>1, <1>2, <1>3 DEF Left
    <2>2. Left(e, n)[i] = socket[e][n + i] /\ n + i \in 1..Len(socket[e])
      BY <1>1, <1>2, <1>3, <2>1 DEF Left
    <2> QED
      BY <2>2
  <1>5. /\ Len(SubSeq(socket[e], 1, n)) = IF 1 <= n THEN n - 1 + 1 ELSE 0
        /\ \A i \in 1 .. n - 1 + 1 : SubSeq(socket[e], 1, n)[i] = socket[e][1 + i - 1]
    <2>1. \A i \in 1..n : socket[e][i] \in Units
      BY <1>1, <1>2
    <2>2. 1 \in Int /\ n \in Int
      BY <1>2
    <2> QED
      BY <2>1, <2>2, SubSeqProperties
  <1>6. Len(Got(e, n)) = n /\ \A i \in 1..n : Got(e, n)[i] = socket[e][i]
    BY <1>2, <1>5 DEF Got
  <1> QED
    BY <1>2, <1>3, <1>4, <1>6 DEF Left

\* What a read and an answer do to the two sockets.
LEMMA SocketsNext ==
    ASSUME PcTypes, NEW e \in Ends, NEW n \in Reads(e), NEW m \in Messages,
           ReadAndSend(e, n, m) \/ JustRead(e, n)
    PROVE  /\ socket' \in [Ends -> Seq(Units)]
           /\ \A i \in 1..Len(socket'[e]) : \E j \in 1..Len(socket[e]) : socket'[e][i] = socket[e][j]
           /\ \A i \in 1..Len(socket'[Peer(e)]) :
                 \/ socket'[Peer(e)][i][1] = m
                 \/ \E j \in 1..Len(socket[Peer(e)]) : socket'[Peer(e)][i] = socket[Peer(e)][j]
           /\ JustRead(e, n) => socket'[Peer(e)] = socket[Peer(e)]
  <1>1. Peer(e) \in Ends /\ Peer(e) # e
    BY DEF Peer, Ends
  <1>2. socket \in [Ends -> Seq(Units)]
    BY DEF PcTypes
  <1>3. Left(e, n) \in Seq(Units) /\ \A i \in 1..Len(Left(e, n)) :
            \E j \in 1..Len(socket[e]) : Left(e, n)[i] = socket[e][j]
    BY <1>2, LeftUnits
  <1>4. Text(m) \in Seq(Units) /\ \A i \in 1..Len(Text(m)) : Text(m)[i][1] = m
    BY TextUnits
  <1>5. socket[Peer(e)] \in Seq(Units)
    BY <1>1, <1>2
  <1>6. /\ socket[Peer(e)] \o Text(m) \in Seq(Units)
        /\ Len(socket[Peer(e)] \o Text(m)) = Len(socket[Peer(e)]) + Len(Text(m))
        /\ \A i \in 1 .. Len(socket[Peer(e)]) + Len(Text(m)) :
              (socket[Peer(e)] \o Text(m))[i] =
                  IF i <= Len(socket[Peer(e)]) THEN socket[Peer(e)][i]
                  ELSE Text(m)[i - Len(socket[Peer(e)])]
    BY <1>4, <1>5, ConcatProperties
  <1>7. Len(socket[Peer(e)]) \in Nat /\ Len(Text(m)) \in Nat
    BY <1>4, <1>5, LenProperties
  <1>8. \A i \in 1..Len(socket[Peer(e)] \o Text(m)) :
            \/ (socket[Peer(e)] \o Text(m))[i][1] = m
            \/ \E j \in 1..Len(socket[Peer(e)]) : (socket[Peer(e)] \o Text(m))[i] = socket[Peer(e)][j]
    BY <1>4, <1>6, <1>7
  <1>9. CASE JustRead(e, n)
    <2>1. socket'[e] = Left(e, n) /\ socket'[Peer(e)] = socket[Peer(e)]
      BY <1>1, <1>2, <1>9 DEF JustRead
    <2>2. socket' \in [Ends -> Seq(Units)]
      BY <1>2, <1>3, <1>9 DEF JustRead
    <2> QED
      BY <1>3, <2>1, <2>2
  <1>10. CASE ReadAndSend(e, n, m)
    <2>1. socket'[e] = Left(e, n) /\ socket'[Peer(e)] = socket[Peer(e)] \o Text(m)
      BY <1>1, <1>2, <1>10 DEF ReadAndSend
    <2>2. socket' \in [Ends -> Seq(Units)]
      BY <1>1, <1>2, <1>3, <1>6, <1>10 DEF ReadAndSend
    <2>3. JustRead(e, n) => socket'[Peer(e)] = socket[Peer(e)]
      BY <1>1, <1>2 DEF JustRead
    <2> QED
      BY <1>3, <1>8, <2>1, <2>2, <2>3
  <1> QED
    BY <1>9, <1>10

-----------------------------------------------------------------------------
(* The invariant *)

LEMMA HandshakeInit0 == HandshakeInit => HandshakeInv
  <1> SUFFICES ASSUME HandshakeInit
               PROVE  HandshakeInv
    OBVIOUS
  <1> USE EndFacts DEF HandshakeInit
  <1>1. PcTypes
    <2>1. <<>> \in Seq(Units)
      BY EmptySeq
    <2> QED
      BY <2>1 DEF PcTypes
  <1>2. Loaded /\ EchoIsProof /\ Agreed
    BY DEF Loaded, EchoIsProof, Agreed
  <1>3. IvIsSent
    <2>1. Len(socket["atm"]) = 0
      BY EmptySeq
    <2> QED
      BY <2>1 DEF IvIsSent, AtmAfterBank
  <1> QED
    BY <1>1, <1>2, <1>3 DEF HandshakeInv

\* A step that reads and answers moves one end; what it leaves in the sockets was
\* there, or is the answer.
LEMMA SocketsKeep ==
    ASSUME HandshakeInv, NEW e \in Ends, NEW n \in Reads(e), NEW m \in Messages,
           ReadAndSend(e, n, m) \/ JustRead(e, n), BankReady => BankReady',
           m = "IV" /\ e = "bank" /\ ~JustRead(e, n) => BankReady'
    PROVE  /\ socket' \in [Ends -> Seq(Units)]
           /\ \A i \in 1..Len(socket'["atm"]) : socket'["atm"][i][1] = "IV" => BankReady'
  <1>0. PcTypes /\ IvIsSent
    BY DEF HandshakeInv
  <1>1. /\ socket' \in [Ends -> Seq(Units)]
        /\ \A i \in 1..Len(socket'[e]) : \E j \in 1..Len(socket[e]) : socket'[e][i] = socket[e][j]
        /\ \A i \in 1..Len(socket'[Peer(e)]) :
              \/ socket'[Peer(e)][i][1] = m
              \/ \E j \in 1..Len(socket[Peer(e)]) : socket'[Peer(e)][i] = socket[Peer(e)][j]
        /\ JustRead(e, n) => socket'[Peer(e)] = socket[Peer(e)]
    BY <1>0, SocketsNext
  <1>2. CASE e = "atm"
    BY <1>0, <1>1, <1>2, EndFacts DEF IvIsSent
  <1>3. CASE e = "bank"
    <2>1. CASE JustRead(e, n)
      BY <1>0, <1>1, <1>3, <2>1, EndFacts DEF IvIsSent
    <2>2. CASE ~JustRead(e, n)
      BY <1>0, <1>1, <1>3, <2>2, EndFacts DEF IvIsSent
    <2> QED
      BY <2>1, <2>2
  <1> QED
    BY <1>2, <1>3 DEF Ends

\* The ATM reads something of the initial value only if it was sent.
LEMMA IvComesFromBank ==
    ASSUME HandshakeInv, NEW n \in Reads("atm"), NEW i \in 1..n, Got("atm", n)[i][1] = "IV"
    PROVE  BankReady
  <1>1. socket \in [Ends -> Seq(Units)] /\ IvIsSent
    BY DEF HandshakeInv, PcTypes
  <1>2. n \in 1..Len(socket["atm"]) /\ \A j \in 1..n : Got("atm", n)[j] = socket["atm"][j]
    BY <1>1, EndFacts, LeftUnits
  <1>3. socket["atm"] \in Seq(Units) /\ Len(socket["atm"]) \in Nat
    BY <1>1, EndFacts, LenProperties
  <1>4. i \in 1..Len(socket["atm"]) /\ socket["atm"][i][1] = "IV"
    BY <1>2, <1>3
  <1> QED
    BY <1>1, <1>4 DEF IvIsSent

LEMMA BankStepInv ==
    ASSUME HandshakeInv, BankStep
    PROVE  HandshakeInv'
  <1>0. PcTypes /\ Loaded /\ EchoIsProof /\ Agreed /\ IvIsSent
    BY DEF HandshakeInv
  <1> USE <1>0, EndFacts, AllMessages
  <1>1. CASE Load("bank")
    BY <1>1 DEF Load, genVars, HandshakeInv, PcTypes, Loaded, EchoIsProof, Matched, Agreed, IvIsSent,
                AtmAfterBank, BankReady
  <1>2. CASE LoadFails("bank") \/ ReadFails("bank") \/ BankLoaded
    <2>1. PICK s \in {"failed", "C1"} : pc' = [pc EXCEPT !["bank"] = s]
      BY <1>2 DEF LoadFails, ReadFails, BankLoaded, Goto
    <2>2. /\ UNCHANGED <<keys, socket, echo, secret>>
          /\ s = "C1" => pc["bank"] = "load" /\ Len(keys["bank"]) = 3
      BY <1>2, <2>1 DEF LoadFails, ReadFails, BankLoaded, AllLoaded, Goto, PcTypes
    <2>3. PcTypes' /\ Loaded' /\ Agreed'
      BY <2>1, <2>2 DEF PcTypes, Loaded, Agreed
    <2>4. EchoIsProof'
      <3>1. pc'["atm"] = pc["atm"] /\ pc'["bank"] = s /\ Matched' = Matched
        BY <2>1, <2>2 DEF PcTypes, Matched
      <3>2. s = "C1" => ~echo
        BY <2>2 DEF EchoIsProof
      <3> QED
        BY <2>2, <3>1, <3>2 DEF EchoIsProof
    <2>5. IvIsSent'
      BY <2>1, <2>2 DEF PcTypes, IvIsSent, AtmAfterBank, BankReady
    <2> QED
      BY <2>3, <2>4, <2>5 DEF HandshakeInv
  <1>3. CASE BankChallenge
    <2>1. PICK n \in Reads("bank") :
            /\ ReadAndSend("bank", n, "C2")
            /\ echo' = (Decodes(Got("bank", n), "C1") /\ Matched /\ ~zero)
      BY <1>3 DEF BankChallenge
    <2>2. /\ pc["bank"] = "C1" /\ Goto("bank", "PA")
          /\ UNCHANGED <<genVars, keys, zero, refused, acked, secret, iv>>
      BY <1>3 DEF BankChallenge
    <2>3. ~BankReady
      BY <2>2 DEF BankReady
    <2>4. /\ socket' \in [Ends -> Seq(Units)]
          /\ \A i \in 1..Len(socket'["atm"]) : socket'["atm"][i][1] = "IV" => BankReady'
      BY <2>1, <2>3, SocketsKeep
    <2>5. pc["atm"] # "load"
      <3>1. socket["bank"] \in Seq(Units)
        BY DEF PcTypes
      <3>2. socket["bank"] # <<>>
        <4>1. n \in 1..Len(socket["bank"]) /\ Len(socket["bank"]) \in Nat
          BY <2>1, <3>1, LenProperties DEF Reads
        <4>2. Len(<<>>) = 0
          BY EmptySeq
        <4> QED
          BY <4>1, <4>2
      <3> QED
        BY <3>2 DEF Loaded
    <2>6. pc' = [pc EXCEPT !["bank"] = "PA"]
      BY <2>2 DEF Goto
    <2>7. PcTypes' /\ Loaded' /\ Agreed' /\ IvIsSent'
      <3>1. PcTypes' /\ Agreed'
        BY <2>2, <2>4, <2>6 DEF PcTypes, Agreed
      <3>2. Loaded'
        BY <2>2, <2>5, <2>6 DEF PcTypes, Loaded
      <3>3. IvIsSent'
        BY <2>2, <2>3, <2>4, <2>6 DEF PcTypes, IvIsSent, AtmAfterBank, BankReady
      <3> QED
        BY <3>1, <3>2, <3>3
    <2>8. EchoIsProof'
      BY <2>1, <2>2, <2>5, <2>6 DEF EchoIsProof, Loaded, Matched, PcTypes
    <2> QED
      BY <2>7, <2>8 DEF HandshakeInv
  <1>4. CASE BankChallengeThrows
    <2>1. PICK n \in Reads("bank") : JustRead("bank", n)
      BY <1>4 DEF BankChallengeThrows
    <2>2. /\ pc["bank"] = "C1" /\ pc' = [pc EXCEPT !["bank"] = "failed"]
          /\ UNCHANGED <<genVars, keys, zero, echo, refused, acked, secret, iv>>
      BY <1>4 DEF BankChallengeThrows, Goto
    <2>3. BankReady'
      BY <2>2 DEF BankReady, PcTypes
    <2>4. /\ socket' \in [Ends -> Seq(Units)]
          /\ \A i \in 1..Len(socket'["atm"]) : socket'["atm"][i][1] = "IV" => BankReady'
      BY <2>1, <2>3, SocketsKeep
    <2>5. pc["atm"] = "load" => socket'["bank"] = <<>>
      <3>1. socket["bank"] \in Seq(Units) /\ n \in 1..Len(socket["bank"])
        BY <2>1 DEF PcTypes, Reads
      <3>2. socket["bank"] # <<>>
        BY <3>1, EmptySeq
      <3> QED
        BY <3>2 DEF Loaded
    <2> QED
      BY <2>2, <2>3, <2>4, <2>5
         DEF HandshakeInv, PcTypes, Loaded, EchoIsProof, Matched, Agreed, IvIsSent, AtmAfterBank
  <1>5. ASSUME NEW n \in Reads("bank"), NEW m \in Messages,
               ReadAndSend("bank", n, m) \/ JustRead("bank", n),
               UNCHANGED <<keys, echo>>, pc["bank"] # "C1", pc["bank"] # "load",
               pc["atm"] = "load" => ~echo,
               \E s \in Waiting["bank"] \cup Done["bank"] \cup {"failed"} :
                   s # "C1" /\ pc' = [pc EXCEPT !["bank"] = s],
               pc["bank"] \in Waiting["bank"],
               DOMAIN secret' = Ends, secret'["atm"] = secret["atm"],
               pc'["bank"] \in {"ACK"} \cup Done["bank"] => secret'["bank"] = "shared",
               BankReady => BankReady', m = "IV" /\ ~JustRead("bank", n) => BankReady'
        PROVE  HandshakeInv'
    <2>1. /\ socket' \in [Ends -> Seq(Units)]
          /\ \A i \in 1..Len(socket'["atm"]) : socket'["atm"][i][1] = "IV" => BankReady'
      BY <1>5, SocketsKeep
    <2>2. pc["atm"] # "load"
      <3>1. socket["bank"] \in Seq(Units) /\ n \in 1..Len(socket["bank"])
        BY <1>5 DEF PcTypes, Reads
      <3>2. socket["bank"] # <<>>
        BY <3>1, EmptySeq
      <3> QED
        BY <3>2 DEF Loaded
    <2>3. PICK s \in Waiting["bank"] \cup Done["bank"] \cup {"failed"} :
            s # "C1" /\ pc' = [pc EXCEPT !["bank"] = s]
      BY <1>5
    <2>4. PcTypes' /\ Loaded' /\ Agreed'
      BY <1>5, <2>1, <2>2, <2>3 DEF PcTypes, Loaded, Agreed
    <2>5. EchoIsProof'
      BY <1>5, <2>2, <2>3 DEF EchoIsProof, Matched, PcTypes
    <2>6. IvIsSent'
      BY <1>5, <2>1, <2>3 DEF IvIsSent, AtmAfterBank, BankReady, PcTypes
    <2> QED
      BY <2>4, <2>5, <2>6 DEF HandshakeInv
  <1>6. CASE BankAgrees
    <2>1. PICK n \in Reads("bank") :
            /\ ReadAndSend("bank", n, "PB")
            /\ Agree("bank", Got("bank", n), "PA")
            /\ Goto("bank", IF secret'["bank"] = "shared" THEN "ACK" ELSE "failed")
            /\ pc["bank"] = "PA" /\ UNCHANGED <<keys, echo>>
      BY <1>6 DEF BankAgrees
    <2>2. /\ DOMAIN secret' = Ends /\ secret'["atm"] = secret["atm"]
          /\ pc' = [pc EXCEPT !["bank"] = IF secret'["bank"] = "shared" THEN "ACK" ELSE "failed"]
      BY <2>1 DEF Agree, Goto, PcTypes
    <2>3. pc["atm"] = "load" => ~echo
      BY DEF EchoIsProof
    <2>4. ~BankReady /\ (pc'["bank"] = "ACK" => secret'["bank"] = "shared")
          /\ pc'["bank"] \in {"ACK", "failed"}
      BY <2>1, <2>2 DEF BankReady, PcTypes
    <2> QED
      BY <1>5, <2>1, <2>2, <2>3, <2>4
  <1>7. CASE BankAck
    <2>1. PICK n \in Reads("bank") :
            /\ ReadAndSend("bank", n, "IV")
            /\ pc' = [pc EXCEPT !["bank"] = "REQ"]
            /\ pc["bank"] = "ACK" /\ UNCHANGED <<keys, echo, secret>>
      BY <1>7 DEF BankAck, Goto
    <2>2. pc["atm"] = "load" => ~echo
      BY DEF EchoIsProof
    <2>3. BankReady' /\ secret["bank"] = "shared"
      BY <2>1 DEF BankReady, PcTypes, Agreed
    <2> QED
      BY <1>5, <2>1, <2>2, <2>3 DEF PcTypes
  <1>8. CASE BankReads
    <2>1. PICK n \in Reads("bank") : JustRead("bank", n)
      BY <1>8 DEF BankReads
    <2>2. PICK s \in {"served", "failed"} : pc' = [pc EXCEPT !["bank"] = s]
      BY <1>8 DEF BankReads, Goto
    <2>3. pc["bank"] = "REQ" /\ UNCHANGED <<keys, echo, secret>>
      BY <1>8 DEF BankReads
    <2>4. pc["atm"] = "load" => ~echo
      BY DEF EchoIsProof
    <2>5. BankReady' /\ secret["bank"] = "shared"
      BY <2>2, <2>3 DEF BankReady, PcTypes, Agreed
    <2> QED
      BY <1>5, <2>1, <2>2, <2>3, <2>4, <2>5 DEF PcTypes
  <1> QED
    BY <1>1, <1>2, <1>3, <1>4, <1>6, <1>7, <1>8 DEF BankStep

LEMMA AtmStepInv ==
    ASSUME HandshakeInv, AtmStep \/ AtmRequests \/ AtmQuits
    PROVE  HandshakeInv'
  <1>0. PcTypes /\ Loaded /\ EchoIsProof /\ Agreed /\ IvIsSent
    BY DEF HandshakeInv
  <1> USE <1>0, EndFacts, AllMessages
  <1>1. CASE Load("atm")
    <2>1. UNCHANGED <<pc, socket, echo, secret>> /\ pc["atm"] = "load" /\ keys'["bank"] = keys["bank"]
          /\ DOMAIN keys' = Ends
      BY <1>1 DEF Load, PcTypes
    <2>2. ~echo
      BY <2>1 DEF EchoIsProof
    <2> QED
      BY <2>1, <2>2 DEF HandshakeInv, PcTypes, Loaded, EchoIsProof, Agreed, IvIsSent, AtmAfterBank,
                        BankReady
  <1>2. CASE LoadFails("atm") \/ ReadFails("atm") \/ AtmQuits
    <2>1. pc' = [pc EXCEPT !["atm"] = "failed"] /\ UNCHANGED <<keys, socket, echo, secret>>
      BY <1>2 DEF LoadFails, ReadFails, AtmQuits, Goto
    <2>2. PcTypes' /\ Loaded' /\ Agreed' /\ EchoIsProof'
      BY <2>1 DEF PcTypes, Loaded, Agreed, EchoIsProof, Matched
    <2>3. IvIsSent'
      BY <2>1 DEF PcTypes, IvIsSent, AtmAfterBank, BankReady
    <2> QED
      BY <2>2, <2>3 DEF HandshakeInv
  <1>3. ASSUME NEW m \in {"C1", "REQ"}, NEW s \in {"C2", "answer"},
               socket' = [socket EXCEPT !["bank"] = @ \o Text(m)],
               pc' = [pc EXCEPT !["atm"] = s], UNCHANGED <<keys, echo, secret>>,
               s = "answer" => pc["atm"] = "done"
        PROVE  HandshakeInv'
    <2>1. socket["bank"] \in Seq(Units) /\ Text(m) \in Seq(Units)
      BY TextUnits DEF PcTypes
    <2>2. socket["bank"] \o Text(m) \in Seq(Units)
      BY <2>1, ConcatProperties
    <2>3. socket' \in [Ends -> Seq(Units)] /\ socket'["atm"] = socket["atm"]
      BY <1>3, <2>2 DEF PcTypes
    <2>4. PcTypes' /\ Loaded' /\ Agreed'
      BY <1>3, <2>3 DEF PcTypes, Loaded, Agreed
    <2>5. EchoIsProof'
      BY <1>3 DEF EchoIsProof, Matched, PcTypes
    <2>6. IvIsSent'
      BY <1>3, <2>3 DEF IvIsSent, AtmAfterBank, BankReady, PcTypes
    <2> QED
      BY <2>4, <2>5, <2>6 DEF HandshakeInv
  <1>4. CASE AtmChallenge
    BY <1>3, <1>4 DEF AtmChallenge, Goto
  <1>5. CASE AtmRequests
    BY <1>3, <1>5 DEF AtmRequests, Goto
  <1>6. ASSUME NEW n \in Reads("atm"), NEW m \in {"PA", "ACK"},
               ReadAndSend("atm", n, m) \/ JustRead("atm", n),
               UNCHANGED <<keys, echo>>, pc["atm"] # "load",
               NEW s \in {"PB", "IV", "done", "failed"}, pc' = [pc EXCEPT !["atm"] = s],
               s # "failed" => echo,
               DOMAIN secret' = Ends, secret'["bank"] = secret["bank"],
               s \in {"IV", "done"} => secret'["atm"] = "shared",
               s = "done" => BankReady
        PROVE  HandshakeInv'
    <2>1. BankReady' = BankReady /\ pc'["bank"] = pc["bank"] /\ pc'["atm"] = s
      BY <1>6 DEF BankReady, PcTypes
    <2>2. /\ socket' \in [Ends -> Seq(Units)]
          /\ \A i \in 1..Len(socket'["atm"]) : socket'["atm"][i][1] = "IV" => BankReady'
      BY <1>6, <2>1, SocketsKeep
    <2>3. PcTypes' /\ Loaded' /\ Agreed'
      BY <1>6, <2>1, <2>2 DEF PcTypes, Loaded, Agreed
    <2>4. EchoIsProof'
      BY <1>6, <2>1 DEF EchoIsProof, Matched
    <2>5. IvIsSent'
      BY <1>6, <2>1, <2>2 DEF IvIsSent, AtmAfterBank, BankReady
    <2> QED
      BY <2>3, <2>4, <2>5 DEF HandshakeInv
  <1>7. CASE AtmCompares
    <2>1. PICK n \in Reads("atm") :
            /\ ReadAndSend("atm", n, "PA") /\ echo /\ pc["atm"] = "C2"
            /\ pc' = [pc EXCEPT !["atm"] = "PB"]
            /\ UNCHANGED <<keys, echo, secret>>
      BY <1>7 DEF AtmCompares, Goto
    <2> QED
      BY <1>6, <2>1 DEF PcTypes
  <1>8. CASE AtmRefuses
    <2>1. PICK n \in Reads("atm") :
            /\ JustRead("atm", n) /\ pc["atm"] = "C2"
            /\ pc' = [pc EXCEPT !["atm"] = "failed"]
            /\ UNCHANGED <<keys, echo, secret>>
      BY <1>8 DEF AtmRefuses, Goto
    <2> QED
      BY <1>6, <2>1 DEF PcTypes
  <1>9. CASE AtmAgrees
    <2>1. PICK n \in Reads("atm") :
            /\ ReadAndSend("atm", n, "ACK") /\ pc["atm"] = "PB"
            /\ Agree("atm", Got("atm", n), "PB")
            /\ pc' = [pc EXCEPT !["atm"] = IF secret'["atm"] = "shared" THEN "IV" ELSE "failed"]
            /\ UNCHANGED <<keys, echo>>
      BY <1>9 DEF AtmAgrees, Goto
    <2>2. DOMAIN secret' = Ends /\ secret'["bank"] = secret["bank"] /\ echo
      BY <2>1 DEF Agree, PcTypes, EchoIsProof
    <2> QED
      BY <1>6, <2>1, <2>2
  <1>10. CASE AtmStarts
    <2>1. PICK n \in Reads("atm") :
            /\ JustRead("atm", n)
            /\ \/ /\ {<<"IV", "head">>, <<"IV", "last">>} \cap {Got("atm", n)[i] : i \in 1..n} # {}
                  /\ Goto("atm", "done")
               \/ Goto("atm", "failed")
      BY <1>10 DEF AtmStarts
    <2>2. pc["atm"] = "IV" /\ UNCHANGED <<keys, echo, secret>> /\ echo /\ secret["atm"] = "shared"
      BY <1>10 DEF AtmStarts, EchoIsProof, Agreed
    <2>3. CASE Goto("atm", "failed")
      BY <1>6, <2>1, <2>2, <2>3 DEF Goto, PcTypes
    <2>4. CASE /\ {<<"IV", "head">>, <<"IV", "last">>} \cap {Got("atm", n)[i] : i \in 1..n} # {}
               /\ Goto("atm", "done")
      <3>1. PICK i \in 1..n : Got("atm", n)[i] \in {<<"IV", "head">>, <<"IV", "last">>}
        BY <2>4
      <3>2. Got("atm", n)[i][1] = "IV"
        BY <3>1
      <3>3. BankReady
        BY <3>2, IvComesFromBank
      <3> QED
        BY <1>6, <2>1, <2>2, <2>4, <3>3 DEF Goto, PcTypes
    <2> QED
      BY <2>1, <2>3, <2>4
  <1> QED
    BY <1>1, <1>2, <1>4, <1>5, <1>7, <1>8, <1>9, <1>10 DEF AtmStep

\* The inductive invariant, from which the theorems below follow.
THEOREM HandshakeInvariant == HandshakeSpec => []HandshakeInv
  <1>1. HandshakeInv /\ [HandshakeNext]_hsVars => HandshakeInv'
    <2> SUFFICES ASSUME HandshakeInv, [HandshakeNext]_hsVars
                 PROVE  HandshakeInv'
      OBVIOUS
    <2>1. CASE BankStep
      BY <2>1, BankStepInv
    <2>2. CASE AtmStep \/ AtmRequests \/ AtmQuits
      BY <2>2, AtmStepInv
    <2>3. CASE WriteKeys \/ UNCHANGED hsVars
      BY <2>3 DEF WriteKeys, hsVars, genVars, HandshakeInv, PcTypes, Loaded, EchoIsProof, Matched,
                  Agreed, IvIsSent, AtmAfterBank, BankReady
    <2> QED
      BY <2>1, <2>2, <2>3 DEF HandshakeNext
  <1> QED
    BY HandshakeInit0, <1>1, PTL DEF HandshakeSpec

\* The ATM's comparison of the challenges (atm.cpp, "Phony baloney") proves the bank:
\* it holds the private key of the public key the ATM loaded, and uses the ATM's.
THEOREM BankIsProven == HandshakeSpec => []BankProven
  <1>1. HandshakeInv => BankProven
    BY DEF HandshakeInv, EchoIsProof, BankProven
  <1> QED
    BY HandshakeInvariant, <1>1, PTL

\* The ATM is never past the handshake before the bank: what it then sends is read by
\* a session, or the session has ended (atm.cpp reads the initial value last).
THEOREM AtmIsLast == HandshakeSpec => []AtmAfterBank
  <1>1. HandshakeInv => AtmAfterBank
    BY DEF HandshakeInv, IvIsSent
  <1> QED
    BY HandshakeInvariant, <1>1, PTL
-----------------------------------------------------------------------------
(* The ack *)

\* As long as every read returned all that was there, a socket is empty after a read.
\* So before the ATM has sent its ack there is nothing for the bank to take for it:
\* the messages before were sent one at a time, each after the last one was read.
NothingToCapture ==
    ~broken /\ ~acked =>
        /\ pc["atm"] \notin {"IV"} \cup Done["atm"]
        /\ pc["bank"] \in {"PA", "ACK"} => pc["atm"] # "load"
        /\ pc["bank"] = "PA" /\ socket["bank"] # <<>> => pc["atm"] # "C2"
        /\ pc["bank"] = "ACK" => socket["bank"] = <<>> /\ pc["atm"] # "C2"
        /\ pc["bank"] \notin Done["bank"]

\* A read that leaves nothing behind.
LEMMA WholeRead ==
    ASSUME PcTypes, NEW e \in Ends, NEW n \in Reads(e), NEW m \in Messages,
           ReadAndSend(e, n, m) \/ JustRead(e, n)
    PROVE  /\ socket[e] # <<>>
           /\ broken => broken'
           /\ ~broken' => socket'[e] = <<>>
  <1>1. socket[e] \in Seq(Units) /\ Len(socket[e]) \in Nat /\ DOMAIN socket = Ends
    BY LenProperties DEF PcTypes
  <1>2. n \in 1..Len(socket[e])
    BY DEF Reads
  <1>3. socket[e] # <<>>
    BY <1>1, <1>2, EmptySeq
  <1>4. broken' = (broken \/ n < Len(socket[e]))
    BY DEF ReadAndSend, JustRead
  <1>5. socket'[e] = Left(e, n)
    <2>1. Peer(e) # e
      BY DEF Peer, Ends
    <2> QED
      BY <1>1, <2>1 DEF ReadAndSend, JustRead
  <1>6. n = Len(socket[e]) => Left(e, n) = <<>>
    <2> SUFFICES ASSUME n = Len(socket[e])
                 PROVE  SubSeq(socket[e], n + 1, n) = <<>>
      BY DEF Left
    <2>1. n + 1 > n
      BY <1>1
    <2> QED
      BY <1>1, <2>1, SubSeqEmpty
  <1>7. n < Len(socket[e]) \/ n = Len(socket[e])
    BY <1>1, <1>2
  <1> QED
    BY <1>3, <1>4, <1>5, <1>6, <1>7, Zenon

LEMMA NothingToCaptureNext ==
    ASSUME HandshakeInv, NothingToCapture, [HandshakeNext]_hsVars
    PROVE  NothingToCapture'
  <1>0. PcTypes /\ Loaded
    BY DEF HandshakeInv
  <1> USE <1>0, EndFacts, AllMessages
  <1>1. CASE \E e \in Ends : Load(e) \/ LoadFails(e) \/ ReadFails(e)
    <2>1. PICK e \in Ends : Load(e) \/ LoadFails(e) \/ ReadFails(e)
      BY <1>1
    <2>2. /\ UNCHANGED <<socket, acked, broken>>
          /\ pc' = pc \/ pc' = [pc EXCEPT ![e] = "failed"]
      BY <2>1 DEF Load, LoadFails, ReadFails, Goto
    <2> QED
      BY <2>2 DEF NothingToCapture, PcTypes, Ends
  <1>2. CASE BankLoaded
    BY <1>2 DEF BankLoaded, Goto, NothingToCapture, PcTypes
  <1>3. CASE BankChallenge
    <2>1. PICK n \in Reads("bank") : ReadAndSend("bank", n, "C2")
      BY <1>3 DEF BankChallenge
    <2>2. pc["bank"] = "C1" /\ pc' = [pc EXCEPT !["bank"] = "PA"] /\ acked' = acked
      BY <1>3 DEF BankChallenge, Goto
    <2>3. socket["bank"] # <<>> /\ (broken => broken') /\ (~broken' => socket'["bank"] = <<>>)
      BY <2>1, WholeRead
    <2>4. pc["atm"] # "load"
      BY <2>3 DEF Loaded
    <2> QED
      BY <2>2, <2>3, <2>4 DEF NothingToCapture, PcTypes
  <1>4. CASE BankChallengeThrows
    <2>1. PICK n \in Reads("bank") : JustRead("bank", n)
      BY <1>4 DEF BankChallengeThrows
    <2>2. pc' = [pc EXCEPT !["bank"] = "failed"] /\ acked' = acked
      BY <1>4 DEF BankChallengeThrows, Goto
    <2>3. broken => broken'
      BY <2>1, WholeRead
    <2> QED
      BY <2>2, <2>3 DEF NothingToCapture, PcTypes
  <1>5. CASE BankAgrees
    <2>1. PICK n \in Reads("bank") : ReadAndSend("bank", n, "PB")
      BY <1>5 DEF BankAgrees
    <2>2. PICK s \in {"ACK", "failed"} : pc' = [pc EXCEPT !["bank"] = s]
      BY <1>5 DEF BankAgrees, Goto
    <2>3. pc["bank"] = "PA" /\ acked' = acked
      BY <1>5 DEF BankAgrees
    <2>4. socket["bank"] # <<>> /\ (broken => broken') /\ (~broken' => socket'["bank"] = <<>>)
      BY <2>1, WholeRead
    <2> QED
      BY <2>2, <2>3, <2>4 DEF NothingToCapture, PcTypes
  <1>6. CASE BankAck
    <2>1. PICK n \in Reads("bank") : ReadAndSend("bank", n, "IV")
      BY <1>6 DEF BankAck
    <2>2. pc["bank"] = "ACK" /\ acked' = acked
      BY <1>6 DEF BankAck
    <2>3. socket["bank"] # <<>> /\ (broken => broken')
      BY <2>1, WholeRead
    <2> QED
      BY <2>2, <2>3 DEF NothingToCapture
  <1>7. CASE BankReads
    <2>1. PICK n \in Reads("bank") : JustRead("bank", n)
      BY <1>7 DEF BankReads
    <2>2. pc["bank"] = "REQ" /\ acked' = acked
      BY <1>7 DEF BankReads
    <2>3. broken => broken'
      BY <2>1, WholeRead
    <2> QED
      BY <2>2, <2>3 DEF NothingToCapture
  <1>8. CASE AtmChallenge
    <2>1. /\ pc["atm"] = "load" /\ pc' = [pc EXCEPT !["atm"] = "C2"]
          /\ UNCHANGED <<acked, broken>>
      BY <1>8 DEF AtmChallenge, AllLoaded, Goto
    <2> QED
      BY <2>1 DEF NothingToCapture, PcTypes
  <1>9. CASE AtmCompares
    <2>1. PICK n \in Reads("atm") : ReadAndSend("atm", n, "PA")
      BY <1>9 DEF AtmCompares
    <2>2. /\ pc["atm"] = "C2" /\ pc' = [pc EXCEPT !["atm"] = "PB"]
          /\ acked' = acked
      BY <1>9 DEF AtmCompares, Goto
    <2>3. broken => broken'
      BY <2>1, WholeRead
    <2> QED
      BY <2>2, <2>3 DEF NothingToCapture, PcTypes
  <1>10. CASE AtmRefuses
    <2>1. PICK n \in Reads("atm") : JustRead("atm", n)
      BY <1>10 DEF AtmRefuses
    <2>2. pc' = [pc EXCEPT !["atm"] = "failed"] /\ acked' = acked
      BY <1>10 DEF AtmRefuses, Goto
    <2>3. (broken => broken') /\ socket'["bank"] = socket["bank"]
      BY <2>1, WholeRead DEF JustRead, PcTypes
    <2> QED
      BY <2>2, <2>3 DEF NothingToCapture, PcTypes
  <1>11. CASE AtmAgrees
    BY <1>11 DEF AtmAgrees, NothingToCapture
  <1>12. CASE AtmStarts
    <2>1. PICK n \in Reads("atm") : JustRead("atm", n)
      BY <1>12 DEF AtmStarts
    <2>2. pc["atm"] = "IV" /\ acked' = acked
      BY <1>12 DEF AtmStarts
    <2>3. broken => broken'
      BY <2>1, WholeRead
    <2> QED
      BY <2>2, <2>3 DEF NothingToCapture
  <1>13. CASE AtmRequests
    BY <1>13 DEF AtmRequests, NothingToCapture
  <1>14. CASE AtmQuits
    BY <1>14 DEF AtmQuits, NothingToCapture
  <1>15. CASE WriteKeys \/ UNCHANGED hsVars
    BY <1>15 DEF WriteKeys, hsVars, genVars, NothingToCapture
  <1> QED
    BY <1>1, <1>2, <1>3, <1>4, <1>5, <1>6, <1>7, <1>8, <1>9, <1>10, <1>11, <1>12, <1>13, <1>14,
       <1>15 DEF HandshakeNext, BankStep, AtmStep

\* "Capture the ack" (setupenc): the bank, which does not look at what it has read, sends
\* its initial value only after the ATM's ack, for any keys and whoever fails, unless a
\* message was cut or the ATM was ended from outside.
THEOREM AckIsCaptured == HandshakeSpec => []AckCaptured
  <1>1. HandshakeInit => NothingToCapture
    BY EndFacts DEF HandshakeInit, NothingToCapture
  <1>2. HandshakeInv /\ NothingToCapture /\ [HandshakeNext]_hsVars => NothingToCapture'
    BY NothingToCaptureNext
  <1>3. NothingToCapture => AckCaptured
    BY DEF NothingToCapture, AckCaptured
  <1> QED
    BY HandshakeInvariant, <1>1, <1>2, <1>3, PTL DEF HandshakeSpec

-----------------------------------------------------------------------------
(* The keys *)

KeyTypes ==
    /\ files \in [Files -> Contents] /\ gen \in 0 .. 8 * MaxKeys
    /\ keys \in [Ends -> Seq(Contents)]
    /\ \A e \in Ends : Len(keys[e]) <= 3

\* Only genrsa writes key files, and only a load reads them.
LEMMA KeysChange ==
    ASSUME [HandshakeNext]_hsVars
    PROVE  \/ UNCHANGED <<files, gen, keys>>
           \/ WriteKeys
           \/ \E e \in Ends : Load(e)
  BY DEF HandshakeNext, BankStep, AtmStep, hsVars, genVars, Ends, LoadFails, ReadFails, BankLoaded,
         BankChallenge, BankChallengeThrows, BankAgrees, BankAck, BankReads, AtmChallenge,
         AtmCompares, AtmRefuses, AtmAgrees, AtmStarts, AtmRequests, AtmQuits

LEMMA LoadAppends ==
    ASSUME KeyTypes, NEW e \in Ends, Load(e)
    PROVE  /\ keys' \in [Ends -> Seq(Contents)]
           /\ Len(keys[e]) < 3 /\ Len(keys'[e]) = Len(keys[e]) + 1
           /\ \A d \in Ends : \A i \in 1..Len(keys[d]) :
                 i \in 1..Len(keys'[d]) /\ keys'[d][i] = keys[d][i]
           /\ \A d \in Ends : d # e => keys'[d] = keys[d]
  <1> DEFINE k == Len(keys[e]) + 1
             x == files[Loads[e][k]]
  <1>1. keys[e] \in Seq(Contents) /\ Len(keys[e]) \in Nat /\ Len(keys[e]) < 3
    BY LenProperties DEF Load, KeyTypes
  <1>2. x \in Contents
    <2>1. k \in 1..3
      BY <1>1
    <2>2. \A j \in 1..3 : Loads[e][j] \in Files
      <3>1. \A j \in 1..3 : /\ Loads["bank"][j] \in {"privkey", "pubkey", "atmpubkey"}
                            /\ Loads["atm"][j] \in {"atmprivkey", "atmpubkey", "pubkey"}
        BY DEF Loads
      <3>2. {"privkey", "pubkey", "atmprivkey", "atmpubkey"} \subseteq Files
        BY DEF Files, KeyFiles
      <3> QED
        BY <3>1, <3>2 DEF Ends
    <2> QED
      BY <2>1, <2>2 DEF KeyTypes
  <1> HIDE DEF x
  <1>3. keys' = [keys EXCEPT ![e] = Append(keys[e], x)]
    BY DEF Load, x
  <1>4. /\ Append(keys[e], x) \in Seq(Contents)
        /\ Len(Append(keys[e], x)) = Len(keys[e]) + 1
        /\ \A i \in 1..Len(keys[e]) : Append(keys[e], x)[i] = keys[e][i]
    BY <1>1, <1>2, AppendProperties
  <1>5. keys \in [Ends -> Seq(Contents)]
    BY DEF KeyTypes
  <1> HIDE DEF k
  <1>6. keys'[e] = Append(keys[e], x) /\ keys' \in [Ends -> Seq(Contents)]
        /\ \A d \in Ends : d # e => keys'[d] = keys[d]
    BY <1>3, <1>4, <1>5
  <1> QED
    BY <1>1, <1>4, <1>6

LEMMA KeyTypesNext ==
    ASSUME KeyTypes, [HandshakeNext]_hsVars
    PROVE  KeyTypes'
  <1>1. CASE UNCHANGED <<files, gen, keys>>
    BY <1>1 DEF KeyTypes
  <1>2. CASE WriteKeys
    <2> DEFINE i == ((gen \div 2) % 4) + 1
               x == IF gen % 2 = 0 THEN Torn ELSE gen \div 8 + 1
    <2>1. gen \in Nat /\ gen < 8 * MaxKeys /\ MaxKeys \in Nat
      BY <1>2, HandshakeAssumption DEF KeyTypes, WriteKeys
    <2>2. i \in 1..4 /\ x \in Contents
      <3>1. gen \div 2 \in Nat
        BY <2>1
      <3>2. i \in 1..4
        BY <3>1
      <3>3. gen \div 8 \in Nat /\ gen \div 8 < MaxKeys
        BY <2>1
      <3> QED
        BY <2>1, <3>2, <3>3 DEF Contents, Torn
    <2>3. KeyFiles[i] \in Files
      BY <2>2 DEF Files
    <2>4. files' = [files EXCEPT ![KeyFiles[i]] = x] /\ gen' = gen + 1 /\ keys' = keys
      BY <1>2 DEF WriteKeys
    <2> HIDE DEF i, x
    <2>5. files' \in [Files -> Contents]
      BY <2>2, <2>3, <2>4 DEF KeyTypes
    <2> QED
      BY <2>1, <2>4, <2>5 DEF KeyTypes
  <1>3. ASSUME NEW e \in Ends, Load(e)
        PROVE  KeyTypes'
    <2>1. files' = files /\ gen' = gen
      BY <1>3 DEF Load, genVars
    <2>2. /\ keys' \in [Ends -> Seq(Contents)] /\ Len(keys[e]) < 3
          /\ Len(keys'[e]) = Len(keys[e]) + 1
          /\ \A d \in Ends : d # e => keys'[d] = keys[d]
      BY <1>3, LoadAppends
    <2>3. Len(keys[e]) \in Nat
      BY LenProperties DEF KeyTypes
    <2>4. \A d \in Ends : Len(keys'[d]) <= 3
      BY <2>2, <2>3 DEF KeyTypes
    <2> QED
      BY <2>1, <2>2, <2>4 DEF KeyTypes
  <1> QED
    BY <1>1, <1>2, <1>3, KeysChange

\* The contents of the key files and what was loaded of them.
THEOREM KeysAreTyped == HandshakeSpec => []KeyTypes
  <1>1. HandshakeInit => KeyTypes
    <2> SUFFICES ASSUME HandshakeInit PROVE KeyTypes
      OBVIOUS
    <2>1. <<>> \in Seq(Contents) /\ Len(<<>>) = 0
      BY EmptySeq
    <2>2. MaxKeys \in Nat
      BY HandshakeAssumption
    <2> QED
      BY <2>1, <2>2 DEF HandshakeInit, KeyTypes, Contents
  <1> QED
    BY <1>1, KeyTypesNext, PTL DEF HandshakeSpec

\* The rest of the types: each end waits only for what it can, and flags are flags.
FlagTypes ==
    /\ \A e \in Ends : pc[e] \notin Waiting[Peer(e)] \cup Done[Peer(e)]
    /\ zero \in BOOLEAN /\ echo \in BOOLEAN /\ refused \in BOOLEAN
    /\ acked \in BOOLEAN /\ broken \in BOOLEAN
    /\ secret \in [Ends -> {"none", "shared", "other"}]
    /\ iv \in {"none", "bank's", "other"}

LEMMA FlagTypesNext ==
    ASSUME PcTypes, FlagTypes, [HandshakeNext]_hsVars
    PROVE  FlagTypes'
  <1> USE EndFacts, HandshakeAssumption
      DEF FlagTypes, HandshakeNext, BankStep, AtmStep, hsVars, genVars, Load, LoadFails,
          ReadFails, BankLoaded, BankChallenge, BankChallengeThrows, BankAgrees, BankAck,
          BankReads, AtmChallenge, AtmCompares, AtmRefuses, AtmAgrees, AtmStarts, AtmRequests,
          AtmQuits, WriteKeys
  <1>1. zero' \in BOOLEAN /\ refused' \in BOOLEAN /\ acked' \in BOOLEAN
    OBVIOUS
  <1>2. echo' \in BOOLEAN
    <2>1. ASSUME BankChallenge
          PROVE  echo' \in BOOLEAN
      <3>1. PICK n \in Reads("bank") :
                echo' = (Decodes(Got("bank", n), "C1") /\ Matched /\ ~zero)
        BY <2>1
      <3> QED
        BY <3>1, Zenon
    <2>2. ~BankChallenge => echo' = echo
      OBVIOUS
    <2> QED
      BY <2>1, <2>2
  <1>3. broken' \in BOOLEAN
    <2>1. ASSUME NEW e \in Ends, NEW n \in Reads(e), NEW m,
                 ReadAndSend(e, n, m) \/ JustRead(e, n)
          PROVE  broken' \in BOOLEAN
      <3>1. broken' = (broken \/ n < Len(socket[e]))
        BY <2>1 DEF ReadAndSend, JustRead
      <3> QED
        BY <3>1, Zenon
    <2>2. \/ broken' = broken \/ broken' = TRUE
          \/ \E e \in Ends : \E n \in Reads(e) : \E m \in Messages :
                ReadAndSend(e, n, m) \/ JustRead(e, n)
      BY AllMessages
    <2> QED
      BY <2>1, <2>2
  <1>4. secret' \in [Ends -> {"none", "shared", "other"}]
    <2>1. secret' = secret \/ \E e \in Ends, x \in {"shared", "other"} : secret' = [secret EXCEPT ![e] = x]
      BY DEF Agree
    <2> QED
      BY <2>1
  <1>5. iv' \in {"none", "bank's", "other"}
    OBVIOUS
  <1>6. \A e \in Ends : pc'[e] \notin Waiting[Peer(e)] \cup Done[Peer(e)]
    <2>1. \/ pc' = pc
          \/ \E x \in {"failed", "C1", "PA", "ACK", "REQ", "served"} : pc' = [pc EXCEPT !["bank"] = x]
          \/ \E x \in {"failed", "C2", "PB", "IV", "done", "answer"} : pc' = [pc EXCEPT !["atm"] = x]
      BY DEF Goto
    <2> QED
      BY <2>1 DEF PcTypes, Ends
  <1> QED
    BY <1>1, <1>2, <1>3, <1>4, <1>5, <1>6

\* The variables of the handshake keep their types.
THEOREM HandshakeTypes == HandshakeSpec => []HandshakeTypeOK
  <1>1. HandshakeInit => FlagTypes
    BY EndFacts DEF HandshakeInit, FlagTypes, Ends
  <1>2. HandshakeInv /\ FlagTypes /\ [HandshakeNext]_hsVars => FlagTypes'
    BY FlagTypesNext DEF HandshakeInv
  <1>3. HandshakeInv /\ KeyTypes /\ FlagTypes => HandshakeTypeOK
    <2>1. UNION {Waiting[e] \cup Done[e] : e \in Ends} =
              {"C1", "PA", "ACK", "REQ", "served", "C2", "PB", "IV", "answer", "done"}
      BY EndFacts DEF Ends
    <2> QED
      BY <2>1 DEF HandshakeInv, PcTypes, KeyTypes, FlagTypes, HandshakeTypeOK
  <1> QED
    BY HandshakeInvariant, KeysAreTyped, <1>1, <1>2, <1>3, PTL DEF HandshakeSpec

-----------------------------------------------------------------------------
(* Whole messages *)

\* A message that is read whole decodes to its value.
LEMMA WholeDecodes ==
    ASSUME NEW m \in Messages
    PROVE  Decodes(Text(m), m)
  <1> DEFINE t == Text(m)
             read == {i \in 1..Len(t) : t[i][2] # "pad"}
  <1>1. /\ Len(Parts[m]) \in Nat /\ Len(t) = Len(Parts[m])
        /\ \A i \in 1..Len(Parts[m]) : t[i] = <<m, Parts[m][i]>>
    <2>1. Len(Parts[m]) \in Nat
      BY AllMessages DEF Parts
    <2> QED
      BY <2>1 DEF Text
  <1>2. \A k \in Value(m) : /\ k \in 1..Len(Parts[m]) /\ k \in read
                            /\ \A j \in 1 .. k - 1 : Parts[m][j] # "pad"
    <2> SUFFICES ASSUME NEW k \in Value(m)
                 PROVE  /\ k \in 1..Len(Parts[m]) /\ k \in read
                        /\ \A j \in 1 .. k - 1 : Parts[m][j] # "pad"
      OBVIOUS
    <2>1. k \in 1..Len(Parts[m]) /\ Parts[m][k] \notin {"pad", "extra"}
      BY DEF Value
    <2>2. \A j \in 1 .. k - 1 : Parts[m][j] # "pad"
      <3>1. Parts[m] \in {<<"head", "most", "last", "pad">>, <<"head", "last", "pad">>,
                          <<"head", "last", "extra">>, <<"head", "last">>, <<"last">>}
        BY AllMessages DEF Parts
      <3>2. CASE Parts[m] = <<"head", "most", "last", "pad">>
        BY <2>1, <3>2
      <3>3. CASE Parts[m] = <<"head", "last", "pad">>
        BY <2>1, <3>3
      <3>4. CASE Parts[m] = <<"head", "last", "extra">>
        BY <2>1, <3>4
      <3>5. CASE Parts[m] = <<"head", "last">>
        BY <2>1, <3>5
      <3>6. CASE Parts[m] = <<"last">>
        BY <2>1, <3>6
      <3> QED
        BY <3>1, <3>2, <3>3, <3>4, <3>5, <3>6
    <2>3. t[k][2] # "pad"
      BY <1>1, <2>1
    <2> QED
      BY <1>1, <2>1, <2>2, <2>3
  <1> HIDE DEF t
  <1>3. \A k \in Value(m) : {j \in read : j < k} = 1 .. k - 1
    <2> SUFFICES ASSUME NEW k \in Value(m)
                 PROVE  {j \in read : j < k} = 1 .. k - 1
      OBVIOUS
    <2>1. k \in 1..Len(Parts[m]) /\ \A j \in 1 .. k - 1 : Parts[m][j] # "pad"
      BY <1>2
    <2>2. \A j \in 1 .. k - 1 : j \in 1..Len(t) /\ t[j][2] # "pad" /\ j < k
      BY <1>1, <2>1
    <2>3. \A j \in 1..Len(t) : j < k => j \in 1 .. k - 1
      BY <1>1, <2>1
    <2> QED
      BY <2>2, <2>3
  <1>4. \A k \in Value(m) : Cardinality({j \in read : j < k}) = k - 1
    <2> SUFFICES ASSUME NEW k \in Value(m)
                 PROVE  Cardinality(1 .. k - 1) = k - 1
      BY <1>3
    <2>1. 1 \in Int /\ k \in Int /\ k - 1 \in Int /\ k >= 1
      BY <1>1, <1>2
    <2>2. Cardinality(1 .. k - 1) = IF 1 > k - 1 THEN 0 ELSE (k - 1) - 1 + 1
      BY <2>1, FS_Interval
    <2> QED
      BY <2>1, <2>2
  <1>5. \A k \in Value(m) : \E i \in read : t[i] = t[k] /\ Cardinality({j \in read : j < i}) = k - 1
    BY <1>2, <1>4
  <1> QED
    BY <1>5 DEF Decodes, t

\* What C1 and IV have to contain for their readers.
LEMMA WholeContains ==
    /\ <<"C1", "most">> \in {Text("C1")[i] : i \in 1..Len(Text("C1"))}
    /\ {<<"IV", "head">>, <<"IV", "last">>} \subseteq {Text("IV")[i] : i \in 1..Len(Text("IV"))}
  <1>1. /\ Len(Parts["C1"]) = 4 /\ Parts["C1"][2] = "most"
        /\ Len(Parts["IV"]) = 3 /\ Parts["IV"][1] = "head" /\ Parts["IV"][2] = "last"
    BY DEF Parts
  <1>2. /\ Len(Text("C1")) = 4 /\ Text("C1")[2] = <<"C1", "most">>
        /\ Len(Text("IV")) = 3 /\ Text("IV")[1] = <<"IV", "head">> /\ Text("IV")[2] = <<"IV", "last">>
    BY <1>1 DEF Text
  <1> QED
    BY <1>2

\* A read that takes all there is.
LEMMA AllRead ==
    ASSUME PcTypes, NEW e \in Ends, NEW n \in Reads(e), ~(n < Len(socket[e]))
    PROVE  /\ socket[e] # <<>> /\ n = Len(socket[e])
           /\ Got(e, n) = socket[e] /\ Left(e, n) = <<>>
  <1>1. socket[e] \in Seq(Units) /\ Len(socket[e]) \in Nat
    BY LenProperties DEF PcTypes
  <1>2. n \in 1..Len(socket[e]) /\ n = Len(socket[e])
    BY <1>1 DEF Reads
  <1>3. socket[e] # <<>>
    BY <1>1, <1>2, EmptySeq
  <1>4. SubSeq(socket[e], 1, Len(socket[e])) = socket[e]
    BY <1>1, SubSeqFull
  <1>5. SubSeq(socket[e], n + 1, Len(socket[e])) = <<>>
    BY <1>1, <1>2, SubSeqEmpty
  <1> QED
    BY <1>2, <1>3, <1>4, <1>5 DEF Got, Left

-----------------------------------------------------------------------------
(* Failures have a cause *)

\* What can make a handshake fail, once it is so for good.
Cause ==
    \/ zero
    \/ \E d \in Ends : \E i \in 1..Len(keys[d]) : keys[d][i] = Torn
    \/ (\A e \in Ends : Len(keys[e]) = 3) /\ ~Matched

\* The ATM is at a and the bank at b, with this on its way to each.
At(a, b, up, down) ==
    pc["atm"] = a /\ pc["bank"] = b /\ socket["bank"] = up /\ socket["atm"] = down

\* The handshake as it is meant to go: one message at a time.
Lockstep ==
    /\ \/ \E b \in {"load", "C1"} :
              At("load", b, <<>>, <<>>) \/ At("C2", b, Text("C1"), <<>>)
       \/ At("C2", "PA", <<>>, Text("C2")) /\ echo
       \/ At("PB", "PA", Text("PA"), <<>>)
       \/ At("PB", "ACK", <<>>, Text("PB"))
       \/ At("IV", "ACK", Text("ACK"), <<>>)
       \/ At("IV", "REQ", <<>>, Text("IV"))
       \/ At("done", "REQ", <<>>, <<>>)
       \/ At("answer", "REQ", Text("REQ"), <<>>)
       \/ At("answer", "served", <<>>, <<>>)
    /\ pc["atm"] # "load" => Len(keys["atm"]) = 3
    /\ pc["atm"] \in Done["atm"] => iv = "bank's"

\* The handshake goes as it is meant to until something is broken or has a cause to fail.
SmoothUntilCause ==
    /\ pc["atm"] = "load" => ~zero
    /\ broken \/ Cause \/ Lockstep

LEMMA CauseStays ==
    ASSUME PcTypes, KeyTypes, SmoothUntilCause, [HandshakeNext]_hsVars, Cause
    PROVE  Cause'
  <1>1. zero => zero'
    <2>1. AtmChallenge => ~zero
      BY DEF AtmChallenge, AllLoaded, SmoothUntilCause
    <2>2. ~AtmChallenge => zero' = zero
      BY DEF HandshakeNext, BankStep, AtmStep, hsVars, genVars, Load, LoadFails, ReadFails,
             BankLoaded, BankChallenge, BankChallengeThrows, BankAgrees, BankAck, BankReads,
             AtmCompares, AtmRefuses, AtmAgrees, AtmStarts, AtmRequests, AtmQuits, WriteKeys
    <2> QED
      BY <2>1, <2>2
  <1>2. CASE UNCHANGED keys
    BY <1>1, <1>2 DEF Cause, Matched
  <1>3. ASSUME NEW e \in Ends, Load(e)
        PROVE  Cause'
    <2>1. /\ Len(keys[e]) < 3
          /\ \A d \in Ends : \A i \in 1..Len(keys[d]) :
                i \in 1..Len(keys'[d]) /\ keys'[d][i] = keys[d][i]
      BY <1>3, LoadAppends
    <2>2. CASE zero
      BY <1>1, <2>2 DEF Cause
    <2>3. ASSUME NEW d \in Ends, NEW i \in 1..Len(keys[d]), keys[d][i] = Torn
          PROVE  Cause'
      <3>1. i \in 1..Len(keys'[d]) /\ keys'[d][i] = Torn
        BY <2>1, <2>3
      <3>2. \E c \in Ends : \E j \in 1..Len(keys'[c]) : keys'[c][j] = Torn
        BY <3>1
      <3> QED
        BY <3>2 DEF Cause, Torn
    <2>4. ~(\A c \in Ends : Len(keys[c]) = 3)
      <3>1. Len(keys[e]) \in Nat
        BY LenProperties DEF KeyTypes
      <3>2. Len(keys[e]) # 3
        BY <2>1, <3>1
      <3> QED
        BY <3>2
    <2> QED
      BY <2>2, <2>3, <2>4 DEF Cause
  <1> QED
    BY <1>2, <1>3, KeysChange DEF WriteKeys

\* What a read and its answer make of two sockets of which one is empty.
LEMMA OneMessage ==
    ASSUME PcTypes, NEW e \in Ends, NEW n \in Reads(e), ~broken', NEW m \in Messages,
           socket[Peer(e)] = <<>>
    PROVE  /\ ReadAndSend(e, n, m) \/ JustRead(e, n) =>
                 socket[e] # <<>> /\ n = Len(socket[e]) /\ Got(e, n) = socket[e]
           /\ ReadAndSend(e, n, m) => socket'[e] = <<>> /\ socket'[Peer(e)] = Text(m)
           /\ JustRead(e, n) => socket'[e] = <<>> /\ socket'[Peer(e)] = <<>>
  <1>1. SUFFICES ASSUME ReadAndSend(e, n, m) \/ JustRead(e, n)
                 PROVE  /\ socket[e] # <<>> /\ n = Len(socket[e]) /\ Got(e, n) = socket[e]
                        /\ ReadAndSend(e, n, m) => socket'[e] = <<>> /\ socket'[Peer(e)] = Text(m)
                        /\ JustRead(e, n) => socket'[e] = <<>> /\ socket'[Peer(e)] = <<>>
    OBVIOUS
  <1>2. ~(n < Len(socket[e]))
    BY <1>1 DEF ReadAndSend, JustRead
  <1>3. socket[e] # <<>> /\ n = Len(socket[e]) /\ Got(e, n) = socket[e] /\ Left(e, n) = <<>>
    BY <1>2, AllRead
  <1>4. Text(m) \in Seq(Units) /\ <<>> \o Text(m) = Text(m)
    BY TextUnits, ConcatEmptySeq
  <1>5. DOMAIN socket = Ends /\ Peer(e) \in Ends /\ Peer(e) # e
    BY DEF PcTypes, Peer, Ends
  <1>6. ReadAndSend(e, n, m) => socket'[e] = <<>> /\ socket'[Peer(e)] = Text(m)
    BY <1>3, <1>4, <1>5 DEF ReadAndSend
  <1>7. JustRead(e, n) => socket'[e] = <<>> /\ socket'[Peer(e)] = <<>>
    BY <1>3, <1>5 DEF JustRead
  <1> QED
    BY <1>3, <1>6, <1>7

\* A move of one end.
LEMMA PcMoves ==
    ASSUME PcTypes, NEW e \in Ends, NEW s, Goto(e, s)
    PROVE  pc'[e] = s /\ pc'[Peer(e)] = pc[Peer(e)]
  BY DEF PcTypes, Goto, Peer, Ends

LEMMA BankStaysInStep ==
    ASSUME HandshakeInv, KeyTypes, Lockstep, BankStep, ~broken', ~Cause'
    PROVE  Lockstep'
  <1>0. PcTypes /\ Loaded
    BY DEF HandshakeInv
  <1> USE <1>0, EndFacts, AllMessages
  <1>1. CASE Load("bank")
    <2>1. /\ UNCHANGED <<pc, socket, echo, iv>> /\ pc["bank"] = "load"
          /\ keys'["atm"] = keys["atm"]
      BY <1>1, LoadAppends DEF Load
    <2> QED
      BY <2>1 DEF Lockstep, At
  <1>2. CASE LoadFails("bank")
    BY <1>2 DEF LoadFails, Cause, Torn
  <1>3. CASE ReadFails("bank")
    BY <1>3 DEF ReadFails, Lockstep, At
  <1>4. CASE BankLoaded
    <2>1. /\ pc'["bank"] = "C1" /\ pc'["atm"] = pc["atm"] /\ pc["bank"] = "load"
          /\ UNCHANGED <<socket, keys, echo, iv>>
      BY <1>4, PcMoves DEF BankLoaded, AllLoaded
    <2> QED
      BY <2>1 DEF Lockstep, At
  <1>5. CASE BankChallenge
    <2>1. PICK n \in Reads("bank") :
            /\ ReadAndSend("bank", n, "C2")
            /\ echo' = (Decodes(Got("bank", n), "C1") /\ Matched /\ ~zero)
      BY <1>5 DEF BankChallenge
    <2>2. /\ pc["bank"] = "C1" /\ pc'["bank"] = "PA" /\ pc'["atm"] = pc["atm"]
          /\ UNCHANGED <<keys, zero, iv>>
      BY <1>5, PcMoves DEF BankChallenge
    <2>3. socket["atm"] = <<>>
      BY <2>2 DEF Lockstep, At
    <2>4. /\ socket["bank"] # <<>> /\ Got("bank", n) = socket["bank"]
          /\ socket'["bank"] = <<>> /\ socket'["atm"] = Text("C2")
      BY <2>1, <2>3, OneMessage
    <2>5. pc["atm"] = "C2" /\ socket["bank"] = Text("C1")
      BY <2>2, <2>4 DEF Lockstep, At
    <2>6. Matched /\ ~zero
      <3>1. Len(keys["atm"]) = 3 /\ Len(keys["bank"]) = 3
        BY <2>2, <2>5 DEF Lockstep, Loaded
      <3>2. Matched' = Matched
        BY <2>2 DEF Matched
      <3> QED
        BY <2>2, <3>1, <3>2 DEF Cause, Ends
    <2>7. echo'
      <3>1. Decodes(Got("bank", n), "C1")
        BY <2>4, <2>5, WholeDecodes
      <3> QED
        BY <2>1, <2>6, <3>1, Zenon
    <2> QED
      BY <2>2, <2>4, <2>5, <2>7 DEF Lockstep, At
  <1>6. CASE BankChallengeThrows
    <2>1. PICK n \in Reads("bank") :
            /\ \/ <<"C1", "most">> \notin {Got("bank", n)[i] : i \in 1..n}
               \/ ~Decodes(Got("bank", n), "C1")
               \/ zero
               \/ keys["atm"][3] # keys["bank"][1]
            /\ JustRead("bank", n)
      BY <1>6 DEF BankChallengeThrows
    <2>2. pc["bank"] = "C1" /\ UNCHANGED <<keys, zero>>
      BY <1>6 DEF BankChallengeThrows
    <2>3. socket["atm"] = <<>>
      BY <2>2 DEF Lockstep, At
    <2>4. socket["bank"] # <<>> /\ n = Len(socket["bank"]) /\ Got("bank", n) = socket["bank"]
      BY <2>1, <2>3, OneMessage
    <2>5. pc["atm"] = "C2" /\ socket["bank"] = Text("C1")
      BY <2>2, <2>4 DEF Lockstep, At
    <2>6. zero \/ keys["atm"][3] # keys["bank"][1]
      BY <2>1, <2>4, <2>5, WholeDecodes, WholeContains
    <2>7. Len(keys["atm"]) = 3 /\ Len(keys["bank"]) = 3
      BY <2>2, <2>5 DEF Lockstep, Loaded
    <2>8. Cause'
      BY <2>2, <2>6, <2>7 DEF Cause, Matched, Ends
    <2> QED
      BY <2>8
  <1>7. CASE BankAgrees
    <2>1. PICK n \in Reads("bank") :
            /\ ReadAndSend("bank", n, "PB")
            /\ Agree("bank", Got("bank", n), "PA")
            /\ Goto("bank", IF secret'["bank"] = "shared" THEN "ACK" ELSE "failed")
      BY <1>7 DEF BankAgrees
    <2>2. pc["bank"] = "PA" /\ UNCHANGED <<keys, iv>>
      BY <1>7 DEF BankAgrees
    <2>3. socket["atm"] = <<>>
      <3>1. ~At("C2", "PA", <<>>, Text("C2"))
        BY <2>1, AllRead DEF At, ReadAndSend
      <3> QED
        BY <2>2, <3>1 DEF Lockstep, At
    <2>4. /\ socket["bank"] # <<>> /\ Got("bank", n) = socket["bank"]
          /\ socket'["bank"] = <<>> /\ socket'["atm"] = Text("PB")
      BY <2>1, <2>3, OneMessage
    <2>5. pc["atm"] = "PB" /\ socket["bank"] = Text("PA")
      BY <2>2, <2>4 DEF Lockstep, At
    <2>6. secret'["bank"] = "shared"
      BY <2>1, <2>4, <2>5, WholeDecodes DEF Agree, PcTypes
    <2>7. pc'["bank"] = "ACK" /\ pc'["atm"] = pc["atm"]
      BY <2>1, <2>6, PcMoves
    <2> QED
      BY <2>2, <2>4, <2>5, <2>7 DEF Lockstep, At
  <1>8. CASE BankAck
    <2>1. PICK n \in Reads("bank") : ReadAndSend("bank", n, "IV")
      BY <1>8 DEF BankAck
    <2>2. /\ pc["bank"] = "ACK" /\ pc'["bank"] = "REQ" /\ pc'["atm"] = pc["atm"]
          /\ UNCHANGED <<keys, iv>>
      BY <1>8, PcMoves DEF BankAck
    <2>3. socket["atm"] = <<>>
      <3>1. ~At("PB", "ACK", <<>>, Text("PB"))
        BY <2>1, AllRead DEF At, ReadAndSend
      <3> QED
        BY <2>2, <3>1 DEF Lockstep, At
    <2>4. socket["bank"] # <<>> /\ socket'["bank"] = <<>> /\ socket'["atm"] = Text("IV")
      BY <2>1, <2>3, OneMessage
    <2>5. pc["atm"] = "IV"
      BY <2>2, <2>4 DEF Lockstep, At
    <2> QED
      BY <2>2, <2>4, <2>5 DEF Lockstep, At
  <1>9. CASE BankReads
    <2>1. PICK n \in Reads("bank") :
            /\ JustRead("bank", n)
            /\ Goto("bank", IF /\ Got("bank", n) = Text("REQ")
                               /\ iv = "bank's"
                               /\ \A e \in Ends : secret[e] = "shared"
                            THEN "served" ELSE "failed")
      BY <1>9 DEF BankReads
    <2>2. pc["bank"] = "REQ" /\ UNCHANGED <<keys, iv>>
      BY <1>9 DEF BankReads
    <2>3. socket["atm"] = <<>>
      <3>1. ~At("IV", "REQ", <<>>, Text("IV"))
        BY <2>1, AllRead DEF At, JustRead
      <3> QED
        BY <2>2, <3>1 DEF Lockstep, At
    <2>4. /\ socket["bank"] # <<>> /\ Got("bank", n) = socket["bank"]
          /\ socket'["bank"] = <<>> /\ socket'["atm"] = <<>>
      BY <2>1, <2>3, OneMessage
    <2>5. pc["atm"] = "answer" /\ socket["bank"] = Text("REQ") /\ iv = "bank's"
      BY <2>2, <2>4 DEF Lockstep, At
    <2>6. \A e \in Ends : secret[e] = "shared"
      BY <2>2, <2>5 DEF HandshakeInv, Agreed, Ends
    <2>7. Goto("bank", "served")
      BY <2>1, <2>4, <2>5, <2>6
    <2>8. pc'["bank"] = "served" /\ pc'["atm"] = pc["atm"]
      BY <2>7, PcMoves
    <2> QED
      BY <2>2, <2>4, <2>5, <2>8 DEF Lockstep, At
  <1> QED
    BY <1>1, <1>2, <1>3, <1>4, <1>5, <1>6, <1>7, <1>8, <1>9 DEF BankStep

LEMMA AtmStaysInStep ==
    ASSUME HandshakeInv, KeyTypes, Lockstep, AtmStep \/ AtmRequests \/ AtmQuits, ~broken', ~Cause'
    PROVE  Lockstep'
  <1>0. PcTypes /\ Loaded
    BY DEF HandshakeInv
  <1> USE <1>0, EndFacts, AllMessages
  <1>1. CASE Load("atm")
    <2>1. UNCHANGED <<pc, socket, echo, iv>> /\ pc["atm"] = "load"
      BY <1>1 DEF Load
    <2> QED
      BY <2>1 DEF Lockstep, At
  <1>2. CASE LoadFails("atm")
    BY <1>2 DEF LoadFails, Cause, Torn
  <1>3. CASE ReadFails("atm")
    BY <1>3 DEF ReadFails, Lockstep, At
  <1>4. CASE AtmChallenge
    <2>1. /\ pc["atm"] = "load" /\ pc'["atm"] = "C2" /\ pc'["bank"] = pc["bank"]
          /\ Len(keys["atm"]) = 3
          /\ socket' = [socket EXCEPT !["bank"] = @ \o Text("C1")]
          /\ UNCHANGED <<keys, echo, iv>>
      BY <1>4, PcMoves DEF AtmChallenge, AllLoaded
    <2>2. pc["bank"] \in {"load", "C1"} /\ socket["bank"] = <<>> /\ socket["atm"] = <<>>
      BY <2>1 DEF Lockstep, At
    <2>3. socket'["bank"] = Text("C1") /\ socket'["atm"] = <<>>
      <3>1. <<>> \o Text("C1") = Text("C1")
        BY TextUnits, ConcatEmptySeq
      <3> QED
        BY <2>1, <2>2, <3>1 DEF PcTypes
    <2> QED
      BY <2>1, <2>2, <2>3 DEF Lockstep, At
  <1>5. CASE AtmCompares
    <2>1. PICK n \in Reads("atm") : ReadAndSend("atm", n, "PA")
      BY <1>5 DEF AtmCompares
    <2>2. /\ pc["atm"] = "C2" /\ pc'["atm"] = "PB" /\ pc'["bank"] = pc["bank"]
          /\ UNCHANGED <<keys, iv>>
      BY <1>5, PcMoves DEF AtmCompares
    <2>3. pc["bank"] = "PA" /\ socket["bank"] = <<>>
      <3>1. socket["atm"] # <<>>
        BY <2>1, AllRead DEF ReadAndSend
      <3> QED
        BY <2>2, <3>1 DEF Lockstep, At
    <2>4. socket'["atm"] = <<>> /\ socket'["bank"] = Text("PA")
      BY <2>1, <2>3, OneMessage
    <2> QED
      BY <2>2, <2>3, <2>4 DEF Lockstep, At
  <1>6. CASE AtmRefuses
    <2>1. PICK n \in Reads("atm") :
            ~(Decodes(Got("atm", n), "C2") /\ echo) /\ JustRead("atm", n)
      BY <1>6 DEF AtmRefuses
    <2>2. pc["atm"] = "C2"
      BY <1>6 DEF AtmRefuses
    <2>3. socket["atm"] # <<>> /\ Got("atm", n) = socket["atm"]
      BY <2>1, AllRead DEF JustRead
    <2>4. socket["atm"] = Text("C2") /\ echo
      BY <2>2, <2>3 DEF Lockstep, At
    <2> QED
      BY <2>1, <2>3, <2>4, WholeDecodes
  <1>7. CASE AtmAgrees
    <2>1. PICK n \in Reads("atm") :
            /\ ReadAndSend("atm", n, "ACK")
            /\ Agree("atm", Got("atm", n), "PB")
            /\ Goto("atm", IF secret'["atm"] = "shared" THEN "IV" ELSE "failed")
      BY <1>7 DEF AtmAgrees
    <2>2. pc["atm"] = "PB" /\ UNCHANGED <<keys, iv>>
      BY <1>7 DEF AtmAgrees
    <2>3. socket["atm"] # <<>> /\ Got("atm", n) = socket["atm"]
      BY <2>1, AllRead DEF ReadAndSend
    <2>4. pc["bank"] = "ACK" /\ socket["bank"] = <<>> /\ socket["atm"] = Text("PB")
      BY <2>2, <2>3 DEF Lockstep, At
    <2>5. socket'["atm"] = <<>> /\ socket'["bank"] = Text("ACK")
      BY <2>1, <2>4, OneMessage
    <2>6. secret'["atm"] = "shared"
      BY <2>1, <2>3, <2>4, WholeDecodes DEF Agree, PcTypes
    <2>7. pc'["atm"] = "IV" /\ pc'["bank"] = pc["bank"]
      BY <2>1, <2>6, PcMoves
    <2> QED
      BY <2>2, <2>4, <2>5, <2>7 DEF Lockstep, At
  <1>8. CASE AtmStarts
    <2> DEFINE value == {<<"IV", "head">>, <<"IV", "last">>}
    <2>1. PICK n \in Reads("atm") :
            /\ JustRead("atm", n)
            /\ \/ /\ iv' = IF Decodes(Got("atm", n), "IV") THEN "bank's" ELSE "other"
                  /\ Goto("atm", "done")
               \/ ~(value \subseteq {Got("atm", n)[i] : i \in 1..n})
      BY <1>8 DEF AtmStarts
    <2>2. pc["atm"] = "IV" /\ UNCHANGED keys
      BY <1>8 DEF AtmStarts
    <2>3. socket["atm"] # <<>> /\ n = Len(socket["atm"]) /\ Got("atm", n) = socket["atm"]
      BY <2>1, AllRead DEF JustRead
    <2>4. pc["bank"] = "REQ" /\ socket["bank"] = <<>> /\ socket["atm"] = Text("IV")
      BY <2>2, <2>3 DEF Lockstep, At
    <2>5. socket'["atm"] = <<>> /\ socket'["bank"] = <<>>
      BY <2>1, <2>4, OneMessage
    <2>6. iv' = "bank's" /\ Goto("atm", "done")
      BY <2>1, <2>3, <2>4, WholeDecodes, WholeContains
    <2>7. pc'["atm"] = "done" /\ pc'["bank"] = pc["bank"]
      BY <2>6, PcMoves
    <2> QED
      BY <2>2, <2>4, <2>5, <2>6, <2>7 DEF Lockstep, At
  <1>9. CASE AtmRequests
    <2>1. /\ pc["atm"] = "done" /\ pc'["atm"] = "answer" /\ pc'["bank"] = pc["bank"]
          /\ socket' = [socket EXCEPT !["bank"] = @ \o Text("REQ")]
          /\ UNCHANGED <<keys, iv>>
      BY <1>9, PcMoves DEF AtmRequests
    <2>2. pc["bank"] = "REQ" /\ socket["bank"] = <<>> /\ socket["atm"] = <<>>
      BY <2>1 DEF Lockstep, At
    <2>3. socket'["bank"] = Text("REQ") /\ socket'["atm"] = <<>>
      <3>1. <<>> \o Text("REQ") = Text("REQ")
        BY TextUnits, ConcatEmptySeq
      <3> QED
        BY <2>1, <2>2, <3>1 DEF PcTypes
    <2> QED
      BY <2>1, <2>2, <2>3 DEF Lockstep, At
  <1>10. CASE AtmQuits
    BY <1>10 DEF AtmQuits
  <1> QED
    BY <1>1, <1>2, <1>3, <1>4, <1>5, <1>6, <1>7, <1>8, <1>9, <1>10 DEF AtmStep

LEMMA SmoothNext ==
    ASSUME HandshakeInv, KeyTypes, SmoothUntilCause, [HandshakeNext]_hsVars
    PROVE  SmoothUntilCause'
  <1>0. PcTypes
    BY DEF HandshakeInv
  <1>1. pc'["atm"] = "load" => ~zero'
    <2>1. AtmChallenge => pc'["atm"] # "load"
      BY <1>0, EndFacts, PcMoves DEF AtmChallenge
    <2>2. ~AtmChallenge => zero' = zero
      BY DEF HandshakeNext, BankStep, AtmStep, hsVars, genVars, Load, LoadFails, ReadFails,
             BankLoaded, BankChallenge, BankChallengeThrows, BankAgrees, BankAck, BankReads,
             AtmCompares, AtmRefuses, AtmAgrees, AtmStarts, AtmRequests, AtmQuits, WriteKeys
    <2>3. pc'["atm"] = "load" => pc["atm"] = "load"
      BY <1>0, EndFacts DEF PcTypes, HandshakeNext, BankStep, AtmStep, hsVars, Load, LoadFails,
             ReadFails, BankLoaded, BankChallenge, BankChallengeThrows, BankAgrees, BankAck,
             BankReads, AtmChallenge, AtmCompares, AtmRefuses, AtmAgrees, AtmStarts, AtmRequests,
             AtmQuits, WriteKeys, Goto, Ends
    <2> QED
      BY <2>1, <2>2, <2>3 DEF SmoothUntilCause
  <1>2. broken => broken'
    BY DEF HandshakeNext, BankStep, AtmStep, hsVars, genVars, Load, LoadFails, ReadFails,
           BankLoaded, BankChallenge, BankChallengeThrows, BankAgrees, BankAck, BankReads,
           AtmChallenge, AtmCompares, AtmRefuses, AtmAgrees, AtmStarts, AtmRequests, AtmQuits,
           WriteKeys, ReadAndSend, JustRead
  <1>3. Cause => Cause'
    BY <1>0, CauseStays
  <1>4. ASSUME Lockstep, ~broken', ~Cause'
        PROVE  Lockstep'
    <2>1. CASE BankStep
      BY <1>4, <2>1, BankStaysInStep
    <2>2. CASE AtmStep \/ AtmRequests \/ AtmQuits
      BY <1>4, <2>2, AtmStaysInStep
    <2>3. CASE WriteKeys \/ UNCHANGED hsVars
      BY <1>4, <2>3 DEF WriteKeys, hsVars, Lockstep, At
    <2> QED
      BY <2>1, <2>2, <2>3 DEF HandshakeNext
  <1> QED
    BY <1>1, <1>2, <1>3, <1>4 DEF SmoothUntilCause

\* If every read takes what was sent and nobody ends the ATM, a handshake fails, up to and
\* with the first request, only because of torn or mismatched key files or a zero byte at
\* the beginning of the challenge: whatever genrsa writes meanwhile, setupenc, DoRead and
\* the ATM's main leave no other way to fail.
THEOREM FailuresHaveACause == HandshakeSpec => []FailsForCause
  <1>1. HandshakeInit => SmoothUntilCause
    BY EndFacts DEF HandshakeInit, SmoothUntilCause, Lockstep, At
  <1>2. HandshakeInv /\ KeyTypes /\ SmoothUntilCause /\ [HandshakeNext]_hsVars => SmoothUntilCause'
    BY SmoothNext
  <1>3. SmoothUntilCause => FailsForCause
    BY DEF SmoothUntilCause, Lockstep, At, FailsForCause, Cause, Ends
  <1> QED
    BY HandshakeInvariant, KeysAreTyped, <1>1, <1>2, <1>3, PTL DEF HandshakeSpec

-----------------------------------------------------------------------------
(* What the dialogue begins with *)

Untorn(e) == \A i \in 1..Len(keys[e]) : keys[e][i] # Torn

\* The causes of a failure are behind an end that has passed the step at which they
\* show: torn files behind the parsing of the keys, zero bytes behind the bank's C2.
CausesBehind ==
    /\ \A e \in Ends : pc[e] \notin {"load", "failed"} => Untorn(e)
    /\ echo => ~zero /\ Untorn("bank")

LEMMA AllLoadedUntorn ==
    ASSUME NEW e \in Ends, AllLoaded(e)
    PROVE  Untorn(e)
  BY DEF AllLoaded, Untorn

\* Of an end that does not load, the keys and what is known of them stay.
LEMMA UntornStays ==
    ASSUME KeyTypes, [HandshakeNext]_hsVars, NEW e \in Ends, Untorn(e), ~Load(e)
    PROVE  Untorn(e)'
  <1>1. CASE UNCHANGED keys
    BY <1>1 DEF Untorn, Torn
  <1>2. ASSUME NEW d \in Ends, Load(d)
        PROVE  Untorn(e)'
    <2>1. d # e
      BY <1>2
    <2>2. keys'[e] = keys[e]
      BY <1>2, <2>1 DEF Load, KeyTypes
    <2> QED
      BY <2>2 DEF Untorn, Torn
  <1> QED
    BY <1>1, <1>2, KeysChange DEF WriteKeys

LEMMA CausesBehindNext ==
    ASSUME HandshakeInv, KeyTypes, CausesBehind, [HandshakeNext]_hsVars
    PROVE  CausesBehind'
  <1>0. PcTypes /\ EchoIsProof
    BY DEF HandshakeInv
  <1>1. ASSUME NEW e \in Ends, pc'[e] \notin {"load", "failed"}
        PROVE  Untorn(e)'
    <2>1. ~Load(e)
      <3>1. Load(e) => pc[e] = "load" /\ pc' = pc
        BY DEF Load
      <3> QED
        BY <1>1, <3>1
    <2>2. Untorn(e)
      <3>1. CASE pc[e] \notin {"load", "failed"}
        BY <3>1 DEF CausesBehind
      <3>2. CASE pc[e] = "load"
        <4>1. AllLoaded(e)
          BY <1>0, <1>1, <3>2, EndFacts DEF PcTypes, HandshakeNext, BankStep, AtmStep, hsVars, Load,
             LoadFails, ReadFails, BankLoaded, BankChallenge, BankChallengeThrows, BankAgrees,
             BankAck, BankReads, AtmChallenge, AtmCompares, AtmRefuses, AtmAgrees, AtmStarts,
             AtmRequests, AtmQuits, WriteKeys, Goto, Ends
        <4> QED
          BY <4>1, AllLoadedUntorn
      <3>3. CASE pc[e] = "failed"
        <4>1. FALSE
          BY <1>0, <1>1, <3>3, EndFacts DEF PcTypes, HandshakeNext, BankStep, AtmStep, hsVars, Load,
             LoadFails, ReadFails, BankLoaded, BankChallenge, BankChallengeThrows, BankAgrees,
             BankAck, BankReads, AtmChallenge, AllLoaded, AtmCompares, AtmRefuses, AtmAgrees,
             AtmStarts, AtmRequests, AtmQuits, WriteKeys, Goto, Ends
        <4> QED
          BY <4>1
      <3> QED
        BY <3>1, <3>2, <3>3
    <2> QED
      BY <2>1, <2>2, UntornStays
  <1>2. ASSUME echo'
        PROVE  ~zero' /\ Untorn("bank")'
    <2>1. CASE BankChallenge
      <3>1. pc["bank"] = "C1" /\ UNCHANGED <<keys, zero>>
        BY <2>1 DEF BankChallenge
      <3>2. ~zero
        BY <1>2, <2>1, Zenon DEF BankChallenge
      <3>3. Untorn("bank")
        BY <3>1, EndFacts DEF CausesBehind
      <3> QED
        BY <3>1, <3>2, <3>3 DEF Untorn, Torn
    <2>2. CASE ~BankChallenge
      <3>1. echo
        BY <1>2, <2>2 DEF HandshakeNext, BankStep, AtmStep, hsVars, genVars, Load, LoadFails,
           ReadFails, BankLoaded, BankChallengeThrows, BankAgrees, BankAck, BankReads, AtmChallenge,
           AtmCompares, AtmRefuses, AtmAgrees, AtmStarts, AtmRequests, AtmQuits, WriteKeys
      <3>2. pc["atm"] # "load" /\ pc["bank"] # "load"
        BY <1>0, <3>1 DEF EchoIsProof
      <3>3. ~AtmChallenge /\ ~Load("bank")
        BY <3>2 DEF AtmChallenge, AllLoaded, Load
      <3>4. zero' = zero
        BY <2>2, <3>3 DEF HandshakeNext, BankStep, AtmStep, hsVars, genVars, Load, LoadFails,
           ReadFails, BankLoaded, BankChallengeThrows, BankAgrees, BankAck, BankReads,
           AtmCompares, AtmRefuses, AtmAgrees, AtmStarts, AtmRequests, AtmQuits, WriteKeys
      <3>5. ~zero /\ Untorn("bank")
        BY <3>1 DEF CausesBehind
      <3> QED
        BY <3>3, <3>4, <3>5, EndFacts, UntornStays
    <2> QED
      BY <2>1, <2>2
  <1> QED
    BY <1>1, <1>2 DEF CausesBehind

\* If no message is cut, the ATM's user types the first request when the bank waits for
\* it with nothing else left to read, and the two have one secret and one initial value:
\* no characters of setupenc's six messages are left behind, for all that they are read
\* without framing and some hold more than the value.
THEOREM DialogueBegins == HandshakeSpec => []DialogueCanBegin
  <1>1. HandshakeInit => SmoothUntilCause /\ CausesBehind
    BY EndFacts DEF HandshakeInit, SmoothUntilCause, Lockstep, At, CausesBehind, Ends
  <1>2. HandshakeInv /\ KeyTypes /\ SmoothUntilCause /\ CausesBehind /\ [HandshakeNext]_hsVars
            => (SmoothUntilCause /\ CausesBehind)'
    BY SmoothNext, CausesBehindNext
  <1>3. ASSUME HandshakeInv, SmoothUntilCause, CausesBehind
        PROVE  DialogueCanBegin
    <2> SUFFICES ASSUME pc["atm"] = "done", ~broken
                 PROVE  /\ pc["bank"] = "REQ"
                        /\ \A e \in Ends : socket[e] = <<>> /\ secret[e] = "shared"
                        /\ iv = "bank's"
      BY DEF DialogueCanBegin
    <2>1. echo /\ Matched
      BY <1>3, EndFacts DEF HandshakeInv, EchoIsProof
    <2>2. ~zero /\ Untorn("bank") /\ Untorn("atm")
      BY <1>3, <2>1, EndFacts DEF CausesBehind
    <2>3. \A d \in Ends : Untorn(d)
      BY <2>2 DEF Ends
    <2>4. ~Cause
      BY <2>1, <2>2, <2>3 DEF Cause, Untorn
    <2>5. Lockstep
      BY <1>3, <2>4 DEF SmoothUntilCause
    <2>6. At("done", "REQ", <<>>, <<>>) /\ iv = "bank's"
      BY <2>5, EndFacts DEF Lockstep, At
    <2>7. secret["bank"] = "shared" /\ secret["atm"] = "shared"
      BY <1>3, <2>6, EndFacts DEF HandshakeInv, Agreed, At
    <2> QED
      BY <2>6, <2>7 DEF At, Ends
  <1> QED
    BY HandshakeInvariant, KeysAreTyped, <1>1, <1>2, <1>3, PTL DEF HandshakeSpec
=============================================================================
