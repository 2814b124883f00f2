------------------------------ MODULE Handshake ------------------------------
(***************************************************************************)
(* One handshake between an ATM (atm.cpp, main) and the bank               *)
(* (Session::setupenc in bank.cpp), with the key files that both load and  *)
(* that genrsa.cpp writes.  The six messages are                           *)
(*     C1   challenge under the bank's key         ATM -> bank             *)
(*     C2   the challenge back, under the ATM's    bank -> ATM             *)
(*     PA, PB   Diffie-Hellman public keys         ATM -> bank, bank -> ATM *)
(*     ACK  "ack"                                  ATM -> bank             *)
(*     IV   initial value                          bank -> ATM             *)
(* There is no framing: read_until with an empty delimiter is one          *)
(* read_some.  If TCP or the proxy cuts a message, the reader gets the     *)
(* first part, and what follows stays in the socket for the next read.     *)
(* Cryptography is perfect: what is not decrypted with the right key, or   *)
(* not decoded from the right characters, is some other value.             *)
(***************************************************************************)
EXTENDS Naturals, Sequences, FiniteSets

CONSTANTS
    Faults,   \* "cut", "quit", "genrsa": what goes wrong
    Zero,     \* may the challenge, or what it is enciphered to, begin with zero bytes?
    MaxKeys   \* bound on the runs of genrsa

ASSUME HandshakeAssumption == MaxKeys \in Nat /\ Zero \in BOOLEAN

KeyFiles == <<"privkey", "pubkey", "atmprivkey", "atmpubkey">>   \* as genrsa writes them
Files    == {KeyFiles[i] : i \in 1..4}
Torn     == MaxKeys + 1     \* opened for writing and not yet complete
Contents == 0 .. MaxKeys + 1

\* The files each end reads, in this order.
Loads == [bank |-> <<"privkey", "pubkey", "atmpubkey">>,
          atm  |-> <<"atmprivkey", "atmpubkey", "pubkey">>]

Ends == {"bank", "atm"}
Peer(e) == IF e = "bank" THEN "atm" ELSE "bank"

\* A message in parts: those up to "last" carry the value.  The bank takes a C1 with
\* "most" for long enough; the decoder ignores the padding, "pad"; PA, PB and IV
\* encode one byte too many, whose characters are "extra".
Parts == [C1  |-> <<"head", "most", "last", "pad">>,
          C2  |-> <<"head", "last", "pad">>,
          PA  |-> <<"head", "last", "extra">>,
          PB  |-> <<"head", "last", "extra">>,
          ACK |-> <<"head", "last">>,
          IV  |-> <<"head", "last", "extra">>,
          REQ |-> <<"last">>]     \* the first request, with which the handshake is over
Messages == DOMAIN Parts
Units == {<<m, p>> : m \in Messages, p \in {"head", "most", "last", "pad", "extra"}}

Text(m) == [i \in 1..Len(Parts[m]) |-> <<m, Parts[m][i]>>]

\* The parts that carry the value come first.
Value(m) == {i \in 1..Len(Parts[m]) : Parts[m][i] \notin {"pad", "extra"}}

\* What the decoder makes of the characters u: m's value, if they begin with all of
\* it, padding left aside.
Decodes(u, m) ==
    LET read == {i \in 1..Len(u) : u[i][2] # "pad"}
    IN  \A k \in Value(m) : \E i \in read :
            u[i] = Text(m)[k] /\ Cardinality({j \in read : j < i}) = k - 1

VARIABLES
    files,   \* file -> the key pair in it
    gen,     \* genrsa: how many opens and closes it has done
    pc,      \* end -> the message it waits for, or load, done (the ATM), answer (the
             \* ATM has sent its request), served (the bank understood it), failed
    keys,    \* end -> the contents it loaded, so far
    socket,  \* end -> what was sent to it and it has not read
    zero,    \* does this challenge begin with a zero byte, or what it is enciphered to
             \* with so many that the text is too short for the bank?
    echo,    \* does the C2 that was sent hold the challenge?
    refused, \* history: the ATM found another challenge than its own
    acked,   \* history: the ATM has sent its ack
    broken,  \* history: a message was cut, or the ATM was ended from outside
    secret,  \* end -> what it agreed on: none, shared or other
    iv       \* the initial value the ATM uses: none, bank's or other

genVars  == <<files, gen>>
hsVars   == <<genVars, pc, keys, socket, zero, echo, refused, acked, broken, secret, iv>>

Waiting == [bank |-> {"C1", "PA", "ACK", "REQ"}, atm |-> {"C2", "PB", "IV", "answer"}]
\* The handshake of an end is over, for better or for worse.
Done == [bank |-> {"REQ", "served"}, atm |-> {"done", "answer"}]

\* The public keys in use belong to the private keys in use.
Matched == keys["atm"][3] = keys["bank"][1] /\ keys["bank"][3] = keys["atm"][1]

\* One read_some: all that is there, or part of it.
Reads(e) == {n \in 1..Len(socket[e]) : n = Len(socket[e]) \/ "cut" \in Faults}
Got(e, n)  == SubSeq(socket[e], 1, n)

\* Mutant: a read ends where the value does, and leaves the characters beyond it.
LeftBeyondValue(e, n) ==
    LET value == {i \in 1..n : socket[e][i][2] \notin {"pad", "extra"}}
    IN  SubSeq(socket[e], Cardinality(value) + 1, Len(socket[e]))

Left(e, n) == SubSeq(socket[e], n + 1, Len(socket[e]))

\* End e has read n units and sends m.
ReadAndSend(e, n, m) ==
    /\ socket' = [socket EXCEPT ![e] = Left(e, n), ![Peer(e)] = @ \o Text(m)]
    /\ broken' = (broken \/ n < Len(socket[e]))
JustRead(e, n) ==
    /\ socket' = [socket EXCEPT ![e] = Left(e, n)]
    /\ broken' = (broken \/ n < Len(socket[e]))

Goto(e, s) == pc' = [pc EXCEPT ![e] = s]

Agree(e, u, m) == secret' = [secret EXCEPT ![e] = IF Decodes(u, m) THEN "shared" ELSE "other"]

-----------------------------------------------------------------------------
(* genrsa *)

\* FileSink opens, and so empties, a file; MessageEnd completes it.
WriteKeys ==
    /\ "genrsa" \in Faults
    /\ gen < 8 * MaxKeys
    /\ LET f == KeyFiles[((gen \div 2) % 4) + 1]
       IN  files' = [files EXCEPT ![f] = IF gen % 2 = 0 THEN Torn ELSE gen \div 8 + 1]
    /\ gen' = gen + 1
    /\ UNCHANGED <<pc, keys, socket, zero, echo, refused, acked, secret, iv, broken>>

-----------------------------------------------------------------------------
(* Both ends *)

\* The next key file.  The keys are parsed when all are read.
Load(e) ==
    /\ pc[e] = "load"
    /\ Len(keys[e]) < 3
    /\ keys' = [keys EXCEPT ![e] = Append(@, files[Loads[e][Len(@) + 1]])]
    /\ UNCHANGED <<genVars, pc, socket, zero, echo, refused, acked, secret, iv, broken>>

LoadFails(e) ==
    /\ pc[e] = "load"
    /\ Len(keys[e]) = 3
    /\ \E i \in 1..3 : keys[e][i] = Torn
    /\ Goto(e, "failed")
    /\ UNCHANGED <<genVars, keys, socket, zero, echo, refused, acked, secret, iv, broken>>

AllLoaded(e) ==
    /\ pc[e] = "load"
    /\ Len(keys[e]) = 3
    /\ \A i \in 1..3 : keys[e][i] # Torn

\* read_until throws: the other end has closed and everything from it was read.  A
\* connection closed on data it had not read is reset, and what was on its way is lost.
ReadFails(e) ==
    /\ pc[e] \in Waiting[e]
    /\ pc[Peer(e)] = "failed"
    /\ socket[e] = <<>> \/ socket[Peer(e)] # <<>>
    /\ Goto(e, "failed")
    /\ UNCHANGED <<genVars, keys, socket, zero, echo, refused, acked, secret, iv, broken>>

-----------------------------------------------------------------------------
(* The bank: Session::setupenc *)

BankLoaded ==
    /\ AllLoaded("bank")
    /\ Goto("bank", "C1")
    /\ UNCHANGED <<genVars, keys, socket, zero, echo, refused, acked, secret, iv, broken>>

\* The challenge goes back under the ATM's key.  The ATM will find it if it was decoded
\* and decrypted right and has no leading zero byte, for MinEncodedSize leaves that
\* out and 128 bytes are read from what is left.
BankChallenge == pc["bank"] = "C1" /\ \E n \in Reads("bank") :
    /\ <<"C1", "most">> \in {Got("bank", n)[i] : i \in 1..n}
    /\ ReadAndSend("bank", n, "C2")
    /\ echo' = (Decodes(Got("bank", n), "C1") /\ Matched /\ ~zero)
    /\ Goto("bank", "PA")
    /\ UNCHANGED <<genVars, keys, zero, refused, acked, secret, iv>>

\* Mutant: a challenge that cannot be decoded is read and forgotten.
BankChallengeIgnored == pc["bank"] = "C1" /\ \E n \in Reads("bank") :
    /\ ~Decodes(Got("bank", n), "C1")
    /\ JustRead("bank", n)
    /\ UNCHANGED <<genVars, pc, keys, zero, echo, refused, acked, secret, iv>>

\* Too short, cut or not, or not decrypted: setupenc throws, and the connection is
\* closed.
BankChallengeThrows == pc["bank"] = "C1" /\ \E n \in Reads("bank") :
    /\ \/ <<"C1", "most">> \notin {Got("bank", n)[i] : i \in 1..n}
       \/ ~Decodes(Got("bank", n), "C1")
       \/ zero
       \/ keys["atm"][3] # keys["bank"][1]
    /\ JustRead("bank", n)
    /\ Goto("bank", "failed")
    /\ UNCHANGED <<genVars, keys, zero, echo, refused, acked, secret, iv>>

\* Mutant: the initial value goes out together with the public key.
BankAgreesAndStarts == pc["bank"] = "PA" /\ \E n \in Reads("bank") :
    /\ socket' = [socket EXCEPT !["bank"] = Left("bank", n),
                                !["atm"] = @ \o Text("PB") \o Text("IV")]
    /\ Agree("bank", Got("bank", n), "PA")
    /\ Goto("bank", IF secret'["bank"] = "shared" THEN "ACK" ELSE "failed")
    /\ broken' = (broken \/ n < Len(socket["bank"]))
    /\ UNCHANGED <<genVars, keys, zero, echo, refused, acked, iv>>

\* The ATM's public key: the bank sends its own before it looks at it, and throws if
\* it is none; if what was read decodes to no byte at all, the process ends instead
\* (Crash of BankServer), of which this connection's end is all there is to see here.
BankAgrees == pc["bank"] = "PA" /\ \E n \in Reads("bank") :
    /\ ReadAndSend("bank", n, "PB")
    /\ Agree("bank", Got("bank", n), "PA")
    /\ Goto("bank", IF secret'["bank"] = "shared" THEN "ACK" ELSE "failed")
    /\ UNCHANGED <<genVars, keys, zero, echo, refused, acked, iv>>

\* Mutant: the initial value is sent without waiting for the ack.
BankAckUnread ==
    /\ pc["bank"] = "ACK"
    /\ socket' = [socket EXCEPT !["atm"] = @ \o Text("IV")]
    /\ Goto("bank", "REQ")
    /\ UNCHANGED <<genVars, keys, zero, echo, refused, acked, secret, iv, broken>>

\* "Capture the ack": whatever was read, the bank sends its initial value.
BankAck == pc["bank"] = "ACK" /\ \E n \in Reads("bank") :
    /\ ReadAndSend("bank", n, "IV")
    /\ Goto("bank", "REQ")
    /\ UNCHANGED <<genVars, keys, zero, echo, refused, acked, secret, iv>>

\* DoRead: the first command is valid if it is the request, whole and under the same
\* key and initial value, and nothing else; otherwise the session is closed.
BankReads == pc["bank"] = "REQ" /\ \E n \in Reads("bank") :
    /\ JustRead("bank", n)
    /\ Goto("bank", IF /\ Got("bank", n) = Text("REQ")
                      /\ iv = "bank's"
                      /\ \A e \in Ends : secret[e] = "shared"
                    THEN "served" ELSE "failed")
    /\ UNCHANGED <<genVars, keys, zero, echo, refused, acked, secret, iv>>

-----------------------------------------------------------------------------
(* The ATM: main *)

\* A random challenge, under the bank's public key.
AtmChallenge ==
    /\ AllLoaded("atm")
    /\ zero' \in {FALSE, Zero}
    /\ socket' = [socket EXCEPT !["bank"] = @ \o Text("C1")]
    /\ Goto("atm", "C2")
    /\ UNCHANGED <<genVars, keys, echo, refused, acked, secret, iv, broken>>

\* Mutant: the two challenges are not compared.
AtmComparesNot == pc["atm"] = "C2" /\ \E n \in Reads("atm") :
    /\ ReadAndSend("atm", n, "PA")
    /\ Goto("atm", "PB")
    /\ UNCHANGED <<genVars, keys, zero, echo, refused, acked, secret, iv>>

\* The same challenge comes back: send the public key.
AtmCompares == pc["atm"] = "C2" /\ \E n \in Reads("atm") :
    /\ Decodes(Got("atm", n), "C2") /\ echo
    /\ ReadAndSend("atm", n, "PA")
    /\ Goto("atm", "PB")
    /\ UNCHANGED <<genVars, keys, zero, echo, refused, acked, secret, iv>>

\* ... or another: "Phony baloney", or CalculateInverse throws.
AtmRefuses == pc["atm"] = "C2" /\ \E n \in Reads("atm") :
    /\ ~(Decodes(Got("atm", n), "C2") /\ echo)
    /\ JustRead("atm", n)
    /\ refused' = TRUE
    /\ Goto("atm", "failed")
    /\ UNCHANGED <<genVars, keys, zero, echo, acked, secret, iv>>

\* The bank's public key: the ATM sends its ack before it looks at it.
AtmAgrees == pc["atm"] = "PB" /\ \E n \in Reads("atm") :
    /\ ReadAndSend("atm", n, "ACK")
    /\ acked' = TRUE
    /\ Agree("atm", Got("atm", n), "PB")
    /\ Goto("atm", IF secret'["atm"] = "shared" THEN "IV" ELSE "failed")
    /\ UNCHANGED <<genVars, keys, zero, echo, refused, iv>>

\* The initial value, of which the ATM uses 16 bytes; it throws if there are fewer.
\* How many a part holds is open.
AtmStarts == pc["atm"] = "IV" /\ \E n \in Reads("atm") :
    LET u == {Got("atm", n)[i] : i \in 1..n}
        value == {<<"IV", "head">>, <<"IV", "last">>}
    IN  /\ JustRead("atm", n)
        /\ \/ /\ value \cap u # {}
              /\ iv' = IF Decodes(Got("atm", n), "IV") THEN "bank's" ELSE "other"
              /\ Goto("atm", "done")
           \/ /\ ~(value \subseteq u)
              /\ iv' = iv
              /\ Goto("atm", "failed")
        /\ UNCHANGED <<genVars, keys, zero, echo, refused, acked, secret>>

\* The user types the first request.
AtmRequests ==
    /\ pc["atm"] = "done"
    /\ socket' = [socket EXCEPT !["bank"] = @ \o Text("REQ")]
    /\ Goto("atm", "answer")
    /\ UNCHANGED <<genVars, keys, zero, echo, refused, acked, secret, iv, broken>>

\* The program is ended from outside.
AtmQuits ==
    /\ "quit" \in Faults
    /\ pc["atm"] # "failed"
    /\ Goto("atm", "failed")
    /\ broken' = TRUE
    /\ UNCHANGED <<genVars, keys, socket, zero, echo, refused, acked, secret, iv>>

-----------------------------------------------------------------------------

HandshakeInit ==
    /\ files = [f \in Files |-> 0]
    /\ gen = 0
    /\ pc = [e \in Ends |-> "load"]
    /\ keys = [e \in Ends |-> <<>>]
    /\ socket = [e \in Ends |-> <<>>]
    /\ zero = FALSE
    /\ echo = FALSE
    /\ refused = FALSE
    /\ acked = FALSE
    /\ broken = FALSE
    /\ secret = [e \in Ends |-> "none"]
    /\ iv = "none"

BankStep ==
    \/ Load("bank") \/ LoadFails("bank") \/ ReadFails("bank")
    \/ BankLoaded \/ BankChallenge \/ BankChallengeThrows \/ BankAgrees \/ BankAck
    \/ BankReads

AtmStep ==
    \/ Load("atm") \/ LoadFails("atm") \/ ReadFails("atm")
    \/ AtmChallenge \/ AtmCompares \/ AtmRefuses \/ AtmAgrees \/ AtmStarts

HandshakeNext == BankStep \/ AtmStep \/ AtmRequests \/ AtmQuits \/ WriteKeys

HandshakeSpec == HandshakeInit /\ [][HandshakeNext]_hsVars

\* Each program runs on; nothing in it waits but the reads.
HandshakeFairSpec == HandshakeSpec /\ WF_hsVars(BankStep) /\ WF_hsVars(AtmStep)

-----------------------------------------------------------------------------
(* Properties *)

HandshakeTypeOK ==
    /\ files \in [Files -> Contents]
    /\ gen \in 0 .. 8 * MaxKeys
    /\ pc \in [Ends -> {"load", "failed"} \cup UNION {Waiting[e] \cup Done[e] : e \in Ends}]
    /\ \A e \in Ends : pc[e] \notin Waiting[Peer(e)] \cup Done[Peer(e)]
    /\ keys \in [Ends -> Seq(Contents)]
    /\ \A e \in Ends : Len(keys[e]) <= 3
    /\ socket \in [Ends -> Seq(Units)]
    /\ {zero, echo, refused, acked, broken} \subseteq BOOLEAN
    /\ secret \in [Ends -> {"none", "shared", "other"}]
    /\ iv \in {"none", "bank's", "other"}

\* An ATM that goes past the challenge talks to a bank with the private key that
\* belongs to the public key the ATM loaded, and that bank encrypts for this ATM:
\* whatever genrsa writes meanwhile, and however the messages are cut.
BankProven ==
    pc["atm"] \in {"PB", "IV"} \cup Done["atm"] => Len(keys["bank"]) = 3 /\ Matched

\* What the dialogue takes for granted when it begins, if no message was cut: the bank
\* waits for the first request, and nothing of the handshake is left on its way to
\* either end, to be taken for that request or its answer; both use one secret and one
\* initial value.  There is no framing: characters beyond the value (padding, the byte
\* too many) are gone only if the read that wanted the value took them too.
DialogueCanBegin ==
    pc["atm"] = "done" /\ ~broken =>
        /\ pc["bank"] = "REQ"
        /\ \A e \in Ends : socket[e] = <<>> /\ secret[e] = "shared"
        /\ iv = "bank's"

\* An ATM that may send its first request has a bank whose handshake is over too,
\* unless the bank has closed the connection.
AtmAfterBank == pc["atm"] \in Done["atm"] => pc["bank"] \in Done["bank"] \cup {"failed"}

\* The bank sends its initial value only after the ATM's ack, unless a message was
\* cut: then it takes the rest of one for the ack.
AckCaptured == pc["bank"] \in Done["bank"] => acked \/ broken

\* If no message is cut and nobody quits, a connection fails up to its first request
\* only because the key files were being written when they were read, or because of
\* zero bytes at the beginning of the challenge or of what it is enciphered to.  In particular nothing of the handshake is left over to
\* be taken for the request.
FailsForCause ==
    \A e \in Ends : pc[e] = "failed" =>
        \/ broken
        \/ zero
        \/ \E d \in Ends : \E i \in 1..Len(keys[d]) : keys[d][i] = Torn
        \/ ~Matched

\* The ATM breaks the connection at the challenge only if the other is not the bank.
RefusesOnlyOthers == refused => ~Matched

\* Neither end waits for the other for ever: each completes the handshake or fails,
\* also if messages are cut or the ATM quits.
HandshakeEnds == <>(\A e \in Ends : pc[e] \in Done[e] \cup {"failed"})
=============================================================================
