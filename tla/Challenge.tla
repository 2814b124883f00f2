------------------------------ MODULE Challenge ------------------------------
(***************************************************************************)
(* The challenge of the handshake, down to its numbers (atm.cpp, setupenc  *)
(* in bank.cpp): the ATM sends random bytes under the bank's RSA key, the  *)
(* bank sends them back under the ATM's, and the ATM compares.  Module     *)
(* Handshake has the same exchange with its verdict as one bit.            *)
(*                                                                         *)
(* Bytes are turned into numbers and back at every step, and a number      *)
(* loses its leading zero bytes on the way.  Of the base64 texts only the  *)
(* length is kept: Dialogue shows that the decoder restores the bytes.     *)
(***************************************************************************)
EXTENDS ModArith

CONSTANTS
    ChallengeLength,  \* 128
    MinText,          \* 340: the bank refuses a shorter text
    BankKeys,         \* the private keys a bank may have loaded
    AtmKey,           \* the ATM's private key
    Random            \* the random numbers that are drawn to blind with

ASSUME ChallengeAssumption ==
    /\ ChallengeLength \in Nat \ {0, 1} /\ MinText \in Nat /\ Random \subseteq Nat
    /\ \A key \in BankKeys \cup {AtmKey} :
          ValidKey(key) /\ Raised(ByteBase, ChallengeLength) <= key.n /\ key.n < Radix

Byte == 0 .. ByteBase - 1

VARIABLES
    bankKey,    \* the private key the bank has loaded
    knownKey,   \* the key whose public half the ATM holds for the bank's
    challenge,  \* the ATM's random bytes
    stage,      \* send, answer or verify: whose turn it is; then the verdict
    wire        \* the number under way, as the bytes it is encoded in

challengeVars == <<bankKey, knownKey, challenge, stage, wire>>

Verdicts == {"accepted", "refused", "failed"}

\* Base64: 4 characters for each 3 bytes begun; line breaks are taken out.
TextLength(bytes) == 4 * ((Len(bytes) + 2) \div 3)

-----------------------------------------------------------------------------

AtmSends ==
    /\ stage = "send"
    /\ wire' = MinEncoded(ApplyFunction(knownKey, DecodeInteger(challenge)))
    /\ stage' = "answer"
    /\ UNCHANGED <<bankKey, knownKey, challenge>>

\* What is read behind a string of ChallengeLength - n bytes: its terminating zero, and
\* then whatever the memory holds.
Behind(n) == IF n <= 0 THEN {<<>>} ELSE {<<0>> \o s : s \in [1 .. n - 1 -> Byte]}

\* The bank recovers a number and encodes it in as few bytes as it takes, but reads
\* ChallengeLength bytes of them to send it back.
BankAnswers ==
    /\ stage = "answer"
    /\ TextLength(wire) >= MinText
    /\ \E r \in Blinds(bankKey, Random) :
          LET root      == CalculateInverse(bankKey, DecodeInteger(wire), r)
              recovered == MinEncoded(root.y)
          IN  /\ root.ok
              /\ \E behind \in Behind(ChallengeLength - Len(recovered)) :
                    wire' = MinEncoded(ApplyFunction(AtmKey,
                                DecodeInteger(SubSeq(recovered \o behind, 1, ChallengeLength))))
    /\ stage' = "verify"
    /\ UNCHANGED <<bankKey, knownKey, challenge>>

\* It throws: the text is too short, or the number is none of its key's.
BankThrows ==
    /\ stage = "answer"
    /\ \/ TextLength(wire) < MinText
       \/ \E r \in Blinds(bankKey, Random) :
             ~CalculateInverse(bankKey, DecodeInteger(wire), r).ok
    /\ stage' = "failed"
    /\ UNCHANGED <<bankKey, knownKey, challenge, wire>>

AtmVerifies ==
    /\ stage = "verify"
    /\ \E r \in Blinds(AtmKey, Random) :
          LET root == CalculateInverse(AtmKey, DecodeInteger(wire), r)
          IN  stage' = IF root.ok /\ MinEncoded(root.y) = challenge THEN "accepted" ELSE "refused"
    /\ UNCHANGED <<bankKey, knownKey, challenge, wire>>

-----------------------------------------------------------------------------

ChallengeInit ==
    /\ bankKey \in BankKeys
    /\ knownKey \in BankKeys
    /\ challenge \in [1..ChallengeLength -> Byte]
    /\ stage = "send"
    /\ wire = <<>>

ChallengeNext == AtmSends \/ BankAnswers \/ BankThrows \/ AtmVerifies

ChallengeSpec == ChallengeInit /\ [][ChallengeNext]_challengeVars

-----------------------------------------------------------------------------
(* Properties *)

\* The reference: the power as a product.
Power(a, e, n) ==
    LET p[i \in 0..e] == IF i = 0 THEN 1 % n ELSE (a * p[i - 1]) % n
    IN  p[e]

\* The bank that has the key the ATM knows is accepted, unless the challenge begins
\* with a zero byte or the bank finds its text too short; and then it is not, whatever
\* the numbers drawn to blind with and the memory read behind the recovered bytes.
ChallengeReturns ==
    stage \in Verdicts /\ bankKey = knownKey =>
        LET sent == MinEncoded(Power(DecodeInteger(challenge), knownKey.e, knownKey.n))
        IN  stage = "accepted" <=> challenge[1] # 0 /\ TextLength(sent) >= MinText

\* The algorithms compute what they stand for, of the challenge m and for every key:
\* powers by windows of any size, inverses where there are any, and the root of m's
\* power with any number to blind with.
ArithmeticIsExact ==
    stage = "send" => LET m == DecodeInteger(challenge) IN
        \A key \in BankKeys \cup {AtmKey} :
            /\ \A e \in {1, key.e, m, key.dp} : Exponentiate(m, e, key.n) = Power(m, e, key.n)
            /\ \A a \in Random :
                  LET i == InverseMod(a + m, key.n)
                  IN  IF GCD(a + m, key.n) = 1 THEN i < key.n /\ (i * (a + m)) % key.n = 1
                      ELSE i = 0
            /\ \A r \in Blinds(key, Random) :
                  CalculateInverse(key, Power(m, key.e, key.n), r) = [ok |-> TRUE, y |-> m]
=============================================================================
