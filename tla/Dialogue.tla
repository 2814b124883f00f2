------------------------------- MODULE Dialogue -------------------------------
(***************************************************************************)
(* One ATM (the loop of atm.cpp) and its session (DoRead and DoWrite of    *)
(* bank.cpp) after the handshake, down to the bytes: a request is          *)
(* enciphered, encoded, written, read, decoded, deciphered and carried     *)
(* out, and the answer comes back the same way.  Each direction has a      *)
(* cipher object at either end, and the two must stay in step over the     *)
(* whole conversation.  A read returns what has arrived, be it a part of a *)
(* message; the next read goes on with the rest.                           *)
(*                                                                         *)
(* A byte 0 ends a C string.  A command is its wording, a sequence of      *)
(* bytes; what an accepted one does is BankServer's matter.                *)
(***************************************************************************)
EXTENDS Base64, Cfb, SequencesExt

CONSTANTS
    Typed,       \* wording of the commands the ATM sends
    Valid,       \* wordings that pass IsValidATMCommand at the bank
    Answers,     \* wordings of the bank's answers
    IV,          \* the initial value, from the handshake
    Tails,       \* what the allocator left in data_ behind the first request: characters
    MaxLength,   \* max_length
    Window,      \* how many characters TCP takes at once for an end that does not read
    MaxRequests, \* bound on the requests typed
    MaxCuts      \* bound on the reads that return a part of what was sent

Dirs == {"up", "down"}     \* up: requests; down: answers

VARIABLES
    atm,       \* prompt, waiting (for an answer) or gone
    bank,      \* reading, writing or closed
    fresh,     \* is data_ still as the allocator left it?
    line,      \* direction -> characters sent and not yet read
    sending,   \* direction -> the cipher of its sender: cfbEncryption
    receiving, \* direction -> the cipher of its receiver: cfbDecryption
    typed,     \* history: the requests sent
    heard,     \* history: the requests as the bank understood them
    answered,  \* history: the answers sent
    shown,     \* history: the answers as the ATM displayed them
    cuts,      \* history: how many reads returned a part
    spoilt     \* history: did the first read decode characters nobody sent?

ciphers      == <<sending, receiving>>
histories    == <<typed, heard, answered, shown, cuts, spoilt>>
dialogueVars == <<atm, bank, fresh, line, ciphers, histories>>

\* A read of direction d returns n characters.
Arrived(d) == {n \in 1..Len(line[d]) : n = Len(line[d]) \/ cuts < MaxCuts}
Got(d, n)  == SubSeq(line[d], 1, n)
Rest(d, n) == [line EXCEPT ![d] = SubSeq(@, n + 1, Len(@))]
Count(d, n) == cuts' = IF n < Len(line[d]) THEN cuts + 1 ELSE cuts

CString(s) == LET zeros == {i \in 1..Len(s) : s[i] = ZeroByte}
              IN  IF zeros = {} THEN s ELSE SubSeq(s, 1, (CHOOSE i \in zeros : \A j \in zeros : i <= j) - 1)

\* What std::remove keeps of the first i characters.
Unbroken(s) ==
    LET unbroken[i \in 0..Len(s)] ==
            IF i = 0 THEN <<>>
            ELSE IF s[i] = NewLine THEN unbroken[i - 1] ELSE Append(unbroken[i - 1], s[i])
    IN  unbroken

\* The text of a message, without its line breaks, and what a text says.  Memory may be
\* aligned or not: see ProcessData.
Enciphered(d, m) == ProcessData(sending[d], "encrypt", m, FALSE)
Text(bytes)      == Unbroken(Encode(bytes))[Len(Encode(bytes))]
Deciphered(d, t) == ProcessData(receiving[d], "decrypt", Decode(t), TRUE)

\* A message, Typed or Answers, is some bytes.  Only a request ends at a zero byte.  Unread,
\* TCP takes one message more than there are cuts: see AnswersIntact.
ASSUME DialogueAssumption ==
    /\ {MaxLength, Window, MaxRequests, MaxCuts} \subseteq Nat
    /\ IV \in Block
    /\ Tails \subseteq Seq(Char)
    /\ Typed \cup Answers \subseteq Seq(Byte) \ {<<>>}
    /\ <<>> \notin Valid
    /\ \A m \in Typed : \A i \in 1..Len(m) : m[i] # ZeroByte
    /\ \E size \in 0..Window :
          /\ size * (MaxCuts + 1) <= Window
          /\ \A m \in Typed \cup Answers : Len(Text([i \in 1..Len(m) |-> ZeroByte])) <= size

-----------------------------------------------------------------------------
(* The ATM *)

\* Mutant: the next command is sent without waiting for the answer to the last.
TypeAhead ==
    /\ atm \in {"prompt", "waiting"}
    /\ Len(typed) < MaxRequests
    /\ \E m \in Typed :
          LET cipher == Enciphered("up", m)
          IN  /\ typed' = Append(typed, m)
              /\ sending' = [sending EXCEPT !["up"] = cipher]
              /\ line' = IF bank = "closed" THEN line
                         ELSE [line EXCEPT !["up"] = @ \o Text(cipher.out)]
    /\ atm' = "waiting"
    /\ UNCHANGED <<bank, fresh, receiving, heard, answered, shown, cuts, spoilt>>

\* The user's command, with the card's account number in the place of the name; it is
\* sent also if there is no such card, and if the bank has closed the connection.
Type ==
    /\ atm = "prompt"
    /\ Len(typed) < MaxRequests
    /\ \E m \in Typed :
          LET cipher == Enciphered("up", m)
          IN  /\ typed' = Append(typed, m)
              /\ sending' = [sending EXCEPT !["up"] = cipher]
              /\ line' = IF bank = "closed" THEN line
                         ELSE [line EXCEPT !["up"] = @ \o Text(cipher.out)]
    /\ atm' = "waiting"
    /\ UNCHANGED <<bank, fresh, receiving, heard, answered, shown, cuts, spoilt>>

\* Mutant: a cipher object of its own for every answer.
ShowAfresh == atm = "waiting" /\ \E n \in Arrived("down") :
    /\ shown' = Append(shown, Deciphered("down", Got("down", n)).out)
    /\ line' = Rest("down", n)
    /\ Count("down", n)
    /\ atm' = "prompt"
    /\ UNCHANGED <<bank, fresh, ciphers, typed, heard, answered, spoilt>>

\* The answer, whatever has come of it.
Show == atm = "waiting" /\ \E n \in Arrived("down") :
    /\ LET cipher == Deciphered("down", Got("down", n))
       IN  /\ receiving' = [receiving EXCEPT !["down"] = cipher]
           /\ shown' = Append(shown, cipher.out)
    /\ line' = Rest("down", n)
    /\ Count("down", n)
    /\ atm' = "prompt"
    /\ UNCHANGED <<bank, fresh, sending, typed, heard, answered, spoilt>>

\* read_until throws: "DISCONNECTED FROM BANK".  If the bank closed on data it had not
\* read, the connection is reset, and an answer on its way is lost.
Disconnected ==
    /\ atm = "waiting"
    /\ bank = "closed"
    /\ line["down"] = <<>> \/ line["up"] # <<>>
    /\ atm' = "gone"
    /\ UNCHANGED <<bank, fresh, line, ciphers, histories>>

\* The end of the user's input, or of the program.
Quit ==
    /\ atm # "gone"
    /\ atm' = "gone"
    /\ UNCHANGED <<bank, fresh, line, ciphers, histories>>

-----------------------------------------------------------------------------
(* The bank *)

\* What is behind the text in data_.
Behind == IF fresh THEN Tails ELSE {<<>>}

\* The command: what was deciphered, up to its first zero byte, cut at the length of
\* what was read.
Understood(s, n) == CString(SubSeq(s, 1, IF Len(s) < n THEN Len(s) ELSE n))

\* DoRead's handler up to the command: data_, up to the first zero byte, is decoded and
\* deciphered.  The first time, data_ goes on behind the text.
Hear(n, tail) ==
    LET cipher == Deciphered("up", Got("up", n) \o tail)
    IN  /\ receiving' = [receiving EXCEPT !["up"] = cipher]
        /\ heard' = Append(heard, Understood(cipher.out, n))
        /\ spoilt' = (spoilt \/ \E i \in 1..Len(tail) : tail[i] \in Digit)
        /\ fresh' = FALSE
        /\ Count("up", n)

\* A valid command that is carried out: DoWrite.  async_write sends at once what TCP
\* takes; then data_ is cleared under it, and the rest would follow as zeros.
Answer == bank = "reading" /\ \E n \in Arrived("up"), tail \in Behind, a \in Answers :
    /\ n < MaxLength
    /\ Understood(Deciphered("up", Got("up", n) \o tail).out, n) \in Valid
    /\ Hear(n, tail)
    /\ answered' = Append(answered, a)
    /\ LET cipher == Enciphered("down", a)
           text == Text(cipher.out)
           room == Window - Len(line["down"])
       IN  /\ sending' = [sending EXCEPT !["down"] = cipher]
           /\ line' = [Rest("up", n) EXCEPT !["down"] =
                          @ \o [i \in 1..Len(text) |-> IF i <= room THEN text[i] ELSE Nul]]
    /\ bank' = "writing"
    /\ UNCHANGED <<atm, typed, shown>>

\* DoWrite's handler: read again.
Written ==
    /\ bank = "writing"
    /\ bank' = "reading"
    /\ UNCHANGED <<atm, fresh, line, ciphers, histories>>

\* Mutant: a refused command is not answered, and the session goes on.
RefuseSilently == bank = "reading" /\ \E n \in Arrived("up"), tail \in Behind :
    /\ Hear(n, tail)
    /\ line' = Rest("up", n)
    /\ UNCHANGED <<atm, bank, sending, typed, answered, shown>>

\* Too long, invalid, or answered "error": close.
Refuse == bank = "reading" /\ \E n \in Arrived("up"), tail \in Behind :
    /\ Hear(n, tail)
    /\ line' = Rest("up", n)
    /\ bank' = "closed"
    /\ UNCHANGED <<atm, sending, typed, answered, shown>>

\* The ATM has gone, and everything from it was read.
EndOfFile ==
    /\ bank \in {"reading", "writing"}
    /\ atm = "gone"
    /\ bank = "reading" => line["up"] = <<>>
    /\ bank' = "closed"
    /\ UNCHANGED <<atm, fresh, line, ciphers, histories>>

-----------------------------------------------------------------------------

DialogueInit ==
    /\ atm = "prompt"
    /\ bank = "reading"
    /\ fresh = TRUE
    /\ line = [d \in Dirs |-> <<>>]
    /\ sending = [d \in Dirs |-> Resynchronize(IV)]
    /\ receiving = [d \in Dirs |-> Resynchronize(IV)]
    /\ typed = <<>> /\ heard = <<>> /\ answered = <<>> /\ shown = <<>>
    /\ cuts = 0
    /\ spoilt = FALSE

DialogueNext ==
    \/ Type \/ Show \/ Disconnected \/ Quit
    \/ Answer \/ Written \/ Refuse \/ EndOfFile

DialogueSpec == DialogueInit /\ [][DialogueNext]_dialogueVars

-----------------------------------------------------------------------------
(* Properties *)

DialogueTypeOK ==
    /\ atm \in {"prompt", "waiting", "gone"}
    /\ bank \in {"reading", "writing", "closed"}
    /\ {fresh, spoilt} \subseteq BOOLEAN
    /\ line \in [Dirs -> Seq(Char)]
    /\ \A d \in Dirs : Len(line[d]) <= Window
    /\ sending \in [Dirs -> Ciphers] /\ receiving \in [Dirs -> Ciphers]
    /\ \A h \in {typed, heard, answered, shown} : h \in Seq(Seq(Byte))
    /\ cuts \in 0..MaxCuts

\* Between two exchanges.
Quiet == atm = "prompt" /\ bank = "reading" /\ \A d \in Dirs : line[d] = <<>>

State(cipher) == <<cipher.reg, cipher.left>>

\* As long as no message is cut and data_ was empty behind the first request, each request
\* is understood as it was typed, and each answer shown as it was given: the one given to
\* the request it is shown for.  So the cipher objects of both ends of a direction stay in
\* step, wherever in a block the messages before have ended.
AnswersBelong ==
    cuts = 0 /\ ~spoilt =>
        /\ IsPrefix(heard, typed)
        /\ IsPrefix(shown, answered)
        /\ Len(shown) <= Len(heard)
        /\ atm = "prompt" /\ bank # "closed" => Len(shown) = Len(typed)

\* One is the beginning of the other.
Related(s, t) == IsPrefix(s, t) \/ IsPrefix(t, s)

\* The k-th request was understood, and its answer shown, as they were sent.
WentWell(k) ==
    /\ \A h \in {typed, heard, answered, shown} : k <= Len(h)
    /\ heard[k] = typed[k] /\ shown[k] = answered[k]

\* A fault moves the ends of messages and does nothing else at first.  After cuts: in the
\* first exchange that does not go well, what is read is the beginning of what was sent,
\* or goes on behind it.  (It goes on when a cut answer lets the ATM send its next request
\* before the bank has read the last one.)  What the allocator left behind the first
\* request may be taken for more of it.
FaultsMoveEnds ==
    /\ ~spoilt => \A s \in {<<heard, typed>>, <<shown, answered>>} :
           \A k \in 1..Len(s[1]) :
               k <= Len(s[2]) /\ (\A j \in 1 .. k - 1 : WentWell(j)) => Related(s[1][k], s[2][k])
    /\ cuts = 0 /\ heard # <<>> => IsPrefix(typed[1], heard[1])

\* data_ is not cleared before all of the answer in it was sent: as many messages as cuts
\* have left behind, and one more, are within what TCP takes at once.
AnswersIntact == \A i \in 1..Len(line["down"]) : line["down"][i] # Nul

\* Any portion of the text of a message decodes to the beginning of the message, in
\* whichever state the sender's cipher is between two exchanges: line breaks and padding
\* add nothing.
PortionsDecode ==
    Quiet => \A d \in Dirs : \A m \in Typed \cup Answers :
        LET bytes == Enciphered(d, m).out
            text  == Encode(bytes)
        IN  /\ Decode(text) = bytes
            /\ \A n \in 0..Len(text) : IsPrefix(Decode(SubSeq(text, 1, n)), bytes)

\* However a message is divided between calls of ProcessData, and wherever it lies in
\* memory, the same comes out, to encipher and to decipher, between any two exchanges.
DivisionIsIrrelevant ==
    Quiet => \A d \in Dirs : \A m \in Typed \cup Answers :
        \A c \in {<<sending[d], "encrypt">>, <<receiving[d], "decrypt">>} :
            LET whole == ProcessData(c[1], c[2], m, TRUE)
            IN  \A n \in 0..Len(m) :
                    LET first  == ProcessData(c[1], c[2], SubSeq(m, 1, n), FALSE)
                        second == ProcessData(first, c[2], SubSeq(m, n + 1, Len(m)), TRUE)
                    IN  /\ first.out \o second.out = whole.out
                        /\ State(second) = State(whole)

\* The two programs never wait for each other with nothing on its way between them, also
\* if messages are cut or spoilt: the ATM waits for an answer only while there is one to
\* come, or an end of the connection.
NobodyWaitsForNothing ==
    atm = "waiting" => bank # "reading" \/ \E d \in Dirs : line[d] # <<>>
=============================================================================
