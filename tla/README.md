# TurtleCans: a TLA+ verification project

TurtleCans is a small bank: a `bank` process that keeps three accounts, `atm`
processes that users type commands into, and a TCP `proxy` between them. ATM and
bank run an RSA / Diffie-Hellman handshake and then exchange one encrypted
request and one encrypted answer at a time.

This directory holds TLA+ models of that program, the TLC configurations that
check them, and theorems that TLAPS proves about them.

## 1. Inventory

| Part | Source | State | Operations | Talks to |
|---|---|---|---|---|
| Bank object | `bank_object.h`, `user.h` | `users` (balances), `ids`, `loggedin`, `data_m` | `login`, `logout`, `balance`, `adminBalance`, `deposit`, `withdraw`, `transfer` | called by sessions (io_service thread) and by the command line thread |
| Session | `bank.cpp` 59-407 | `data_`, `id`, `login`, `loggedin`, two AES-CFB streams, a socket | constructor (handshake), `DoRead`, `Process`, `DoWrite` | Bank object (calls), ATM (socket) |
| Server | `bank.cpp` 415-445 | acceptor, one spare socket | `DoAccept` | makes Sessions |
| Command line | `bank.cpp` 448-499 | none | `deposit`, `balance` | Bank object |
| Handshake | `bank.cpp` 234-396, `atm.cpp` 87-271 | keys, challenge, IV | six messages, blocking | the two ends of a connection |
| ATM | `atm.cpp` 275-339, `*.card` | AES-CFB streams, a socket | read a line, send, wait, print | bank, through the proxy |
| Proxy | `proxy.cpp` | per bridge: two sockets, two buffers | accept, connect, relay in each direction, close | ATM and bank |
| Validation | `validate.h` | none | `IsValidATMCommand`, `IsValidBankCommand` | session, ATM, command line |
| Key generation | `genrsa.cpp` | none | writes four key files | none |
| Crypto++ | `cryptopp/` | cipher, encoder and decoder objects that outlive a message | RSA, DH, AES, base64 | handshake, session, ATM |

### How they interact

* The bank process has two threads. All sessions and the acceptor run as
  callbacks on one `io_service` thread; the command line has the other. They meet
  in the Bank object, whose every operation locks `data_m`.
* A session reads one request, processes it, writes one answer, reads again.
  There is never more than one read or write outstanding per session.
* A `Session` lives as long as a callback refers to it. Closing its socket and
  returning, or ignoring an error, destroys it.
* The `Session` constructor runs the handshake with *blocking* reads, inside the
  accept callback.
* Nothing is persisted: balances and login flags live and die with the process.

### What is hard here, and what makes each part correct

| Part | Hard because | Correct when |
|---|---|---|
| Bank object | check-then-update under two threads; unlocking by hand on every return path; `long long` limits; transfer to oneself | linearizable; no balance negative; money conserved; only logged-in users pay |
| Session | `id` is set before the pin is known and outlives logout; "log out on error" goes through the same command interpreter; connections die in several ways, before or after a request took effect | acts only on accounts whose pin this ATM gave; a login never outlives its session |
| Server | handshake blocks the only I/O thread; accept is re-armed on success only | every waiting connection is served |
| Handshake | messages have no framing; write errors are ignored; integer encodings lose leading zeros; the key files may be rewritten meanwhile | the bank is proven; both ends derive the same key and IV, or both give up |
| ATM | waits without a limit; takes what arrives for the answer; four cipher objects that must stay in step over messages of any length | each answer shown belongs to the request typed |
| Proxy | two directions fail independently, one `close` ends both; partial writes; a receiver that does not read | relays exactly the bytes it read, in order, until it closes both ends; closes for a cause, and not before the last words |

PROJECT.json lists the hazards one by one, each at its line, with the properties
that address it.

## 2. The modules

| Module | Models | Uses |
|---|---|---|
| `Bank` | The Bank object, one atomic step per operation. It is also the abstract specification of `BankMutex`, and `BankServer`'s accounts. | |
| `BankMutex` | The same operations lock by lock, check by check and update by update, on several threads. | `Bank` |
| `BankServer` | The bank process: acceptor, sessions, command line, over connections that ATMs open, use, close, reset or abandon. | `Bank` |
| `Relay` | What a proxy promises: independent streams, each delivering a prefix of what was sent on it. | |
| `Proxy` | The proxy: accept, connect, the two loops of every bridge, `close`. | `Relay` |
| `Handshake` | `setupenc`, the ATM's half of it, and `genrsa` rewriting the key files. | |
| `Challenge` | The challenge of the handshake, down to its numbers. | `ModArith` |
| `ModArith` | Integers as bytes, modular inverses, Montgomery multiplication, exponentiation, roots, RSA. | |
| `Dialogue` | Requests and answers after the handshake, down to the bytes. | `Base64`, `Cfb` |
| `Base64` | Encoder, line grouper and decoder. | `Bytes` |
| `Cfb` | The cipher object of one direction at one end. | `Bytes` |
| `Bytes` | Bytes as bits. | |
| `BankMutexProofs`, `BankServerProofs`, `ProxyProofs`, `HandshakeProofs`, `DialogueProofs`, `ChallengeProofs` | The theorems about the module they are named after; `BankServerProofs` has those about `Bank` too, `ChallengeProofs` those about `ModArith`. | |
| `CodecProofs` | The theorems about `Base64` and `Cfb`. | |
| `MathFacts` | Induction, recursion, loops, sums, division, congruences, divisors and products, for the other proofs. | |
| `MCBank`, `MCBankMutex`, `MCBankServer`, `MCProxy`, `MCDialogue`, `MCChallenge` | Instances for TLC. (`Handshake` needs none.) | |

The program is modelled at four levels, and each takes from the level below what
that one's runs show:

* `BankServer` sees a connection as requests and answers. That whole requests arrive
  in order is what `Proxy` (`ImplementsRelay`) and `Dialogue` (`AnswersBelong`) show; that
  a first request may be spoilt, or the decryptor be put out of step (`stream`), is what
  `Dialogue` shows of the memory behind it; that a handshake ends if the ATM's program
  goes on is `HandshakeEnds`.
* `Handshake` sees the numbers of the challenge as two bits: `zero`, that one of them
  begins with zero bytes, and `echo`, which is not set then. `Challenge` shows that this
  is right (`ChallengeReturns`): between an ATM and its bank nothing else goes wrong than
  a challenge that begins with a zero byte, and an enciphered one that begins with so
  many that its text is too short. (Of a bank with another key it claims nothing:
  that one is `BankProven`'s case, which takes for granted that only the holder of a key
  undoes its encryption.)
* `BankMutex` implements `Bank` and `Proxy` implements `Relay`. That `BankServer` is written
  with `Bank`'s actions makes its steps steps of `Bank` by its shape; this says nothing
  of the code, and only serves to carry `Bank`'s invariants over in the proofs.

### Bank

`balance` and `loggedin` are the maps of the same name (`users` and `loggedin` in
the code), keyed by user name; `AccountOf` is `ids`. The constructor makes *two*
`User` objects per user, one under `users` and one under `ids`; the second is
only ever asked for its name and pin, so there is one balance. `cash` is a history
variable: money typed in at the command line minus money withdrawn.

`CanLogin`, `CanTransfer`, ... are the conditions under which the method returns
true. A method that returns false changes nothing, so it is no step of this
module. Sums and differences go through `LLong`, which wraps at `MaxBalance`
(`LLONG_MAX`) as `long long` does on the machines this is built for; the theorems
show that no wrapping ever takes place. `HasRoom` is the test
`amount > LLONG_MAX - balance`, wrapping included.

Amounts are natural numbers because `validate.h` lets no other text through.

### BankMutex

`pc` walks through a call: `lock`, `check`, `act`, (`credit`,) `unlock`. The checks
are one step and the update another, so that anything the other thread could do
in between would show; `transfer` has two updates. `ret` and `seen` are the
results of the call. The abstract balance is `Committed`: from the debit on, a
transfer counts as done. With that mapping `BankMutex` implements `Bank`
(`ImplementsBank`), which is linearizability with the update as the point where
a call takes effect, and it justifies the single steps of `BankServer`.
`withdraw`, which nothing in `bank.cpp` calls, is called here so that its code is
checked with the rest.

### BankServer

A connection slot goes through `free`, `backlog` (connected, not accepted),
`handshake`, and then alternates `reading` and `writing`. What the bank's socket
will report of the other end is in `peer`; `arrived` says that a request is waiting
to be read. `stream`, `id`, `login` and `active` are the fields of the Session
(`active` is `Session::loggedin`, renamed because Bank has a `loggedin`); `proved`
is a history variable, the account numbers for which the connection gave the pin.

* Each callback is one action, with everything it calls: `ReadPin`, `ReadLogin`,
  `ReadBalance`, `ReadTransfer` and `ReadLogout` are the branches of `Process`
  that do not return "error"; `ReadRejected` is an invalid command or one that
  does, with the `Process("logout")` and the close that follow; `ReadEnd` is eof
  or reset; `ReadFailed` and `WriteFailed` are the errors nobody handles.
* `ProcessLogout` is `Process("logout")`, which does nothing when the session
  waits for a pin. `ReadLogin` covers `withdraw` too, because the code of the two
  branches is the same.
* `IoFree` stops every callback while a handshake runs.
* `Crash`: of a public value that was cut to less than one byte, `SecByteBlock` makes a
  null pointer, from which `Agree` reads (`bank.cpp:348`, `363`). The process ends, with
  every session and balance. It takes a message that arrives in parts ("cut").
* The first read decodes what the allocator left in `data_` after the request.
  So it may spoil the request (`ReadGarbled`) or put the decryptor out of step
  for the next one (`stream` becomes `lost`). Garbled text that happens to spell a
  valid command is not considered.
* `AcceptError`: the accept callback does not re-arm after an error. When the
  last session is gone too, `IOService.run()` returns and the process ends
  (`Running`).
* Callbacks make several Bank calls at most when a refused request is followed
  by the logout; only one of them changes anything.

The ATM side is what the bank can observe: one request at a time, departures at
any moment. What a request contains is chosen when it is read, which allows every
order of requests. A request that has arrived is still read after the ATM has
gone, as TCP delivers what was received before it reports the end.

### Proxy

A link is one direction of one bridge. `loop` is where its loop is: an outstanding
operation (`reading`, `writing`), a completed one whose handler has not run (`read`,
`written`, `failed`), or `ended`. Completion and handler are separate steps, so that the
other direction's handlers run in between, and a `close` finds operations under way.
`buffer` is `downstream_data_` or `upstream_data_`; `WriteSome` writes a part of it, as
much as TCP takes (`Window` bound on what the other end has not read), and goes on.
`HandleError` is `close()` and its effect on the reverse direction. `got` and `sent` are
histories; every byte is unlike any other. A write may also succeed towards an end that
is gone (`WriteInVain`).

### Handshake

Six messages and the first request. A message is a few parts rather than bytes: the
last part that carries value, the padding the decoder ignores, the extra characters
that PA, PB and IV encode because the code passes a length one too many. `Reads` is
`read_until` with an empty delimiter: one `read_some`, everything there or, with
"cut", a part of it. The rest stays for the next read. What was not decoded whole or
not decrypted with the right key is another value. Each `std::exception` or early
return is the end of that program or connection ("failed"); the other end then reads
what is left, or gets a reset when the closer had unread data. "failed" also stands for
this connection's end when the bank crashes on an empty public value; what that does to
the other connections is `Crash` of `BankServer`.

`WriteKeys` is `genrsa`, run again while keys are being loaded: every open truncates
(`Torn`), every close completes. The ends load three files each, one step per file.

### Dialogue, Base64, Cfb

`Type` is the ATM's loop up to its write, `Show` its read and what it prints. `Answer`
and `Refuse` are `DoRead`'s handler: up to the first zero byte `data_` is decoded,
deciphered and cut at the length read; what is valid is answered by `DoWrite`, anything
else closes. `Behind` is what the allocator left in `data_`, which the handler decodes
with the first request; later `data_` has been cleared. The clearing happens right
after `async_write` was started, so what TCP does not take at once would be zeros.
`sending` and `receiving` are the four cipher objects.

`Base64` keeps the bits of a character (encoder) or a byte (decoder) that is not
full, over inputs of any length. `Cfb` keeps the register and `m_leftOver`, the bytes of
keystream not yet used; `ProcessData` distinguishes the rest of a block, whole blocks,
and the beginning of the next, and the path for aligned memory. The block cipher is a
parameter. Both work on the bits of `Bytes`, and each loop of the code is a function of
the number of turns it has made, so that the codecs can be proved about.

`DialogueAssumption` says what the dialogue takes for granted of its constants: messages
are not empty, requests have no zero byte in them (they are lines of text), and TCP
takes, for an end that does not read, one text more than there are cuts. In the code a
text has at most some 1,400 characters and TCP takes 64 KiB and more.

### Challenge, ModArith

`DecodeInteger` and `MinEncoded` are Crypto++'s `Integer(byte*, n)` and
`Encode(out, MinEncodedSize())`. The bank reads `ChallengeLength` bytes of a string that
may be shorter (`Behind`: the terminating zero, then any memory). `ApplyFunction` and
`CalculateInverse` are RSA's, the latter with blinding, the Chinese remainders and the
check at its end; `Exponentiate` is `AbstractRing::SimultaneousExponentiate` with its
sliding windows and buckets; `InverseMod` is the almost-inverse algorithm with its
division by a power of two; `Montgomery` is `MontgomeryRepresentation`. Numbers are
numbers: carries between words are abstracted. The loops of the code are recursive
functions (`Turns`, `Doublings`, `FillBucket`), so that they can be proved about.
`ValidKey` is what a key has to be, as `InvertibleRSAFunction::Validate` tests it.

## 3. The runs

| Run | Instance | Distinct states | Question, and what it shows |
|---|---|---|---|
| `bank` | 3 users, LLONG_MAX 4, amounts 0, 1, 3 | 1,000 | Sums can pass the limit, accounts can be full, empty, paid to themselves. Balances stay non-negative, money is conserved, debits need a login. |
| `bank_mutex` | 2 users, 2 threads, LLONG_MAX 2 | 65,422 | Every interleaving of lock, check, update and unlock of the two threads the process has. Calls never overlap, checks still hold when the update happens, readers see no half transfer, the calls are linearizable. |
| `server` | 2 connections, 2 users, all kinds of request, resets | 357,222 | Sessions act only on proven accounts; a debit is the request of the very connection whose ATM gave the pin; a login loses its session only by a reset or a withdraw request; a user is logged out under his session's feet only by a stale id. (About a minute.) |
| `server_liveness` | 2 connections, one user's requests, every fault, crashes included | 11,828 | Requests are read, waiting connections served, sessions whose ATM closed or was reset released. |
| `proxy` | 1 bridge, buffer 2, window 2, 3 bytes up and 2 down, every error | 155,594 | An open bridge loses nothing, closes for a cause and after the last words; it implements `Relay`. |
| `proxy_liveness` | 2 bridges, buffer 1, window 1, resets | 119,716 | What is sent arrives, one end's departure reaches the other, waiting ATMs are accepted. |
| `handshake` | cuts, an ATM that quits, two runs of genrsa, zero bytes | 240,034 | The bank is proven; the ack is captured; without cuts a dialogue begins with both ends ready, the same secret, and nothing left on the line; each end completes or fails; with whole messages it fails only because of the key files or a leading zero. |
| `dialogue` | 3 requests, 3 wordings, 2 answers, 4 tails, one cut | 29,727 | Answers belong to their requests; a fault does no more than move the ends of messages; encoder and cipher are indifferent to how a message is portioned; nobody waits for nothing. |
| `challenge` | all challenges of 3 two-bit bytes, 2 banks' keys, 4 random numbers | 1,035 | The bank with the key the ATM knows is accepted exactly if the challenge does not begin with a zero byte and its text is long enough (nothing is claimed of another bank); the arithmetic is exact under either key. |
| `withdraw_locks_out`, `stalled_handshake`, `zero_challenge` | small | | Each shows one place where the code does not do what a comment or the README says (section 6). |

**Why the bounds are enough.**

* *Bank process.* Sessions interact only through the Bank object and the one I/O
  thread; two connections give every pairwise interaction (two sessions of one user,
  one in the handshake while another waits). A transfer concerns two users; a third one
  in `bank` can only stand by. Right and wrong account, pin and amount occur. The
  limits of `long long` are tested against LLONG_MAX 4 or smaller: `LLong` treats every
  width alike and the proofs do not depend on it.
* *Proxy.* Bridges share only the acceptor; `proxy` has one, and more
  bytes than its buffer or TCP's window holds, so that reads and writes are partial, a
  loop comes around, and a receiver that does not read blocks it. Two bridges meet in
  `proxy_liveness`, with resets but without accept errors, which `proxy` has: after one the
  acceptor is idle for good, and `BacklogAccepted` claims nothing. The
  theorems hold for any number of bridges and any sizes.
* *Handshake.* One connection: another one shares with it only the key files, which
  nobody but genrsa writes. Two runs of genrsa give three generations of keys, as
  many as there are files in a load. A message has at most four parts, and any read may
  return any number of them, also across messages.
* *Dialogue.* Bytes of 4 bits and characters of 3 have base64's ratio: 3 bytes make 4
  characters. With blocks of 2 bytes and wordings of 1, 2 and 5 bytes every phase of
  block, encoder and line occurs. One wording begins with another, as "withdraw 10"
  with "withdraw 1". The tails are: none, less than a byte, a byte, and more than the
  rest of the request. `MaxRequests` = 3 lets a fault in the first exchange show in the
  third.
* *Challenge.* Moduli of 7 bytes: 3 bytes make a base64 block, so that as with 256
  bytes the text of a full number ends in a block of one byte, and that of a number with
  leading zero bytes may be a block short. Window limits 2, 4 and 6 make windows of every size. The keys are
  real ones, of primes of 6 and 7 bits, written out and compared with what
  `PrivateKey` makes of them.

Every action fires in a passing run, and every property has a mutant of the code that
breaks it (the definitions marked "Mutant" in the modules, which no specification
uses). `Server.cfg` and `WithdrawLocksOut.cfg` use symmetry over the connections; they
check no liveness.

**Fairness.**

* *Bank process.* `HandlersRun`: the io_service runs completed callbacks in the order
  they complete, and the kernel hands out connections in order, so each callback that
  keeps becoming ready runs in the end. It has to be strong fairness because a
  handshake disables every other callback again and again. A blocking read of the
  handshake returns when the other end has closed. Nothing else is assumed of the
  bank: TCP without keepalive need not notice that a host has gone, so `ReadFailed` is
  not fair. `HandshakesEnd` adds that the ATM program in its handshake continues or
  exits, which `HandshakeEnds` justifies: `atm.cpp` waits there for nobody but the
  bank. It excludes other programs, and hosts that vanish at that moment.
  `stalled_handshake` shows that `BacklogServed` needs this assumption. ATMs are under no
  obligation to connect, send or close.
* *Proxy.* `HandlersRun`: outstanding operations that can complete do, and their
  handlers are called; weak fairness is enough, since nothing disables a completed
  operation but `close`. `EndsRead`: ATM and bank read when they are not busy with what
  they read before, which `SentArrives` and `EndsTogether` need since the proxy has one
  buffer per direction. Nobody is obliged to send or to leave.
* *Handshake.* Weak fairness of each program's steps: neither waits for anything but
  its reads. `AtmRequests`, `AtmQuits` and genrsa are not fair.
* *Dialogue, Challenge.* No fairness. `NobodyWaitsForNothing` is the safety half of "the
  ATM gets its answer": there is no state in which both programs read and nothing is
  on its way. The codecs are nested too deep for TLC to evaluate ENABLED of these
  actions in reasonable time. `Challenge` has three steps.

`CHECK_DEADLOCK FALSE` stands where the program may really stop: the bank after an
accept error, when its last session is gone, or after a crash (`ServerLiveness.cfg`); the proxy when
its bridges are over and accepting has failed, or every bridge of the instance is used
(`Proxy.cfg`, `ProxyLiveness.cfg`); a handshake or a dialogue whose ends are done
(`Handshake.cfg`, `ZeroChallenge.cfg`, `Dialogue.cfg`, `Challenge.cfg`).

## 4. The proofs

All theorems hold for every value of the constants that satisfies the assumption of
their module: `BankAssumption`, `MutexAssumption`, `ServerAssumption`, `ProxyAssumption`,
`HandshakeAssumption`, `BytesAssumption`, `Base64Assumption`, `CfbAssumption`,
`DialogueAssumption`, `ModArithAssumption` and `ChallengeAssumption`. The first three say
that the users are finitely many, that balances fit a `long long`, that amounts do, that account numbers are positive and
belong to users, and that calls and requests carry such amounts; the next two that
bounds and sizes are natural numbers, buffer and window not zero; then that a character
has no more bits than a byte, that padding, line break and zero byte are different
characters and not digits, and that the block cipher makes blocks of blocks;
`DialogueAssumption` is described with `Dialogue` above. `ModArithAssumption` says that a
byte has more than one value, that Montgomery's radix is a power of 2 and at least 8, and
that the window limits are natural numbers. `ChallengeAssumption` says that keys are such as
`Validate` accepts (`GeneratedKeyIsValid`: what `GenerateRandom` makes is), with a modulus that no
challenge reaches and that is below the radix, and that a challenge has more than one
byte: a challenge of a single byte that is zero would return after all, since 0 is encoded
as one byte.

`MathFacts`. Induction over the natural numbers is stated for a set that holds 0
and with each number the next (`SetInduction`); to use it, one takes the set of the
numbers that have the property. `RecursionUp` and `RecursionDown` say that a function defined from
its value before, or after, exists and computes what it says, and `TailResult` that a loop which
goes on while a number decreases ends with what it keeps. `SumChange` says how the sum over a
function changes when it changes at one place. The rest is arithmetic: quotients and
remainders, congruences, divisors, products over a range and over its permutations.

`BankServerProofs`, about `Bank`. The inductive invariant is `BankInv`: every balance is in
0..LLONG_MAX. It implies `BankTypeOK`, which any wrapped sum satisfies too, and
`BalancesNonNegative`, which is not inductive as it stands: nothing in it bounds a
balance from above by LLONG_MAX, and the room check, itself a wrapping subtraction,
is only exact for balances in that range. Under `BankInv` the lemmas `ExactLLong`, `RoomIsExact`,
`AddMoneyExact` and `RemoveMoneyExact` make the arithmetic of the code exact, and
`TransferEffect` treats the two updates of a transfer, also when they hit the same
account. From it: `TypeCorrect`, `NeverNegative`, `DebitsOnlyWhenLoggedIn`, and
`MoneyIsConserved`: each operation changes the sum of the balances, which is defined by
recursion over the users, by what it changes at one user, or at two, and `cash` by
the same.

`BankMutexProofs`. The inductive invariant `MutexInv` has four parts: the types of
the thread variables, `LockHeldInsideOnly`, `ChecksStillHold`, and `CreditIsTransfer`
(only a transfer is ever between two updates). `ChecksStillHold` alone is not
inductive: that nobody else updates while a thread is about to is what
`LockHeldInsideOnly` says.

* `LockCorrect`, `ChecksCorrect`: the two parts.
* `MutexImplementsBank`: `SetFlag`, `PayIn`, `PayOut` and `Debit` map to the operation
  of `Bank`, every other step to a stutter. A lone thread is updating
  (`UpdateAlone`), so before the debit `Committed` is `balance`, and the balance after
  the debit with the credit on top is what `Transfer` computes in one step.
* `ReadsCorrect`: a thread that has read and not yet unlocked holds the lock, so
  `Committed` stays what it read. `MutexTypeCorrect` is proved from the same invariant.

`BankServerProofs`, about `BankServer`.

* The lemma `ServerIsBank` (every step of the process is a step of `Bank` or leaves it
  alone, by the way the module is written) brings the invariants of `Bank` with it:
  `BankInvHolds`, `ServerConservesMoney`.
* `IdsAreProven`: `ActsOnlyOnProvenAccounts` is inductive together with the types.
* `DebitsAuthenticated`: a step that lowers a balance is a `ReadTransfer`
  (`DebitIsTransfer`), whose session has no login dialogue open and the payer's account
  for its id. By `IdsAreProven` that id is proven on this connection, not merely on some
  (`CommandActsFor`).
* `LoginsKept`: a step after which a logged-in user has no session that backs him
  (`Backs`: open, active, out of the login dialogue, under the user's account number)
  is one of two. A session that backs a login cannot change its id but by a withdraw
  request (only `login`, when not active, does otherwise). A session that ends with a
  `ProcessLogout` clears the flag of the user it backs, and takes the session of nobody
  else (`LogoutStaysBacked`). What is left is an end without logout: the connection was
  reset or its host vanished. It speaks of a process that runs on: a crash takes all
  logins with it (`CrashEnds`).
* `InChargeTillStale`: the session that logged a user in remains the only one that takes
  itself to have done so, with the user logged in at the bank (`InCharge`), unless a
  session that has logged itself out and kept its id is logged out again. Only the pin
  step makes a session back a user, and only when the bank had the user logged out, so
  that nobody backed him before; every other step has at most fewer sessions that do
  (`FewerStayInCharge`). A session out of its login dialogue that logs the user out is the
  one in charge, or inactive with the user's id, which is proven (`LogsOutItsUser`).
* `OrderlyLogins`: under the assumption `Orderly` (no withdraw requests, no resets, no
  timeouts, no crashes) `LoginBackedBySession` is then an invariant: it is inductive together with
  the fact that no peer is reset or vanished.

`ProxyProofs`.

* `ProxyInv` joins the types, `LoopsInv`, `Untouched`, `NothingLostWhileOpen` and
  `DeliveredIsPrefix`. `LoopsInv` says which step of a loop has an empty buffer, that an
  outstanding operation means open sockets, that a loop ends only when the bridge is
  closed, and that a `failed` step of an open bridge has a cause. `NothingLostWhileOpen`
  needs the first: a read overwrites the buffer, and loses nothing only because it is
  empty then. `DeliveredIsPrefix` is what remains of it once the bridge has closed, and
  what the refinement needs.
* `ProxyTypes`, `ProxyLosesNothing`, `ProxyClosesForCause` follow.
* `ProxyRefinesRelay`: `Send` maps to `RelaySend`, `WriteSome` to `RelayDeliver`, all else
  to a stutter.
* `ProxyDeliversLastWords`: `LastWordsInv` adds three parts. `BusyBuffers`: a buffer under
  way is not empty. `Counted`: delivered, buffered and waiting bytes are no more than
  those sent, also when some are lost. `OpenFailures`: an error on an open bridge is a
  reset; or the end of a stream that is read and delivered to the last byte; or a
  write, of bytes still in the buffer, to an end that has left. When the bridge closes
  on the sender's own link, the second case leaves nothing undelivered. When it closes
  on the reverse link, the third would leave bytes of the reverse stream uncounted.

`HandshakeProofs`.

* `HandshakeInv` joins the types of `pc` and `socket` with `Loaded` (who waits for a
  message has its keys), `EchoIsProof`, `Agreed` and `IvIsSent`. `BankIsProven` follows
  the bit `echo`: it is set when both ends have loaded their keys, so what it says of
  them stays true, and the ATM does not pass the challenge without it. `AtmIsLast` needs
  `IvIsSent`: characters of the initial value exist only after the bank has sent it.
* `AckIsCaptured`: the bank does not look at the ack, so the argument is about what else
  it could read. `NothingToCapture`: as long as every read took all there was, and the
  ATM has not sent its ack, there is nothing in the bank's socket while the bank waits
  for the ack. It is inductive with `HandshakeInv`; `WholeRead` is its lemma.
* `FailuresHaveACause`: until a read is cut or the ATM is ended, the handshake is at one of
  the nine points of `Lockstep`, which say where both programs are and what is in each
  socket, or a cause to fail has come for good (`Cause`: a leading zero, a torn key file,
  key files of two generations). `WholeDecodes` and `WholeContains` say what decodes of a
  message that is read whole. An end fails only where its message does not decode or is
  of another generation, which at a point of `Lockstep` is a cause.
* `DialogueBegins`: when the ATM is done, `Lockstep` (until a read is cut) leaves one point,
  at which both sockets are empty and the bank waits for the request, or a cause to fail.
  But the causes are behind it: `CausesBehind` says that an end past its loading has no
  torn file, and that the echo, without which the ATM does not go on, was of a challenge
  without leading zeros by a bank with whole keys of the ATM's generation.
* `HandshakeTypes`, `KeysAreTyped`: the types, of the flags and the key files too.

`CodecProofs`.

* `RoundTrip`: the text of any bytes decodes to them. Both codecs are described by the bits
  that have gone through them. The characters an encoder has put out, and the bits it
  holds, are the bits it was given (`PutByteFollowed` over the turns of one byte, `EncodingFollowed`
  over the bytes); the decoder that reads a character takes over its bits (`Follows`).
  The bits at the end that fill up the last character, the padding and the line
  breaks add no byte.
* `PortionDecodes`: a decoder only adds to what it has decoded.
* `ProcessDataRuns`: `Step` is CFB mode one byte at a time. The rest of a block, whole
  blocks with `Iterate`, single blocks through the buffer and the beginning of the next block
  each do what their bytes do in `Step`s, and so does their combination.
* `TwoCalls`, `Deciphers`: `Step`s do not know of calls; and a receiver in step with the
  sender has the same key stream, and the same register after the byte.

`DialogueProofs`. The first inductive invariant is `Base`. It joins the types with three parts.
Lines hold texts and rests of texts only, without line breaks and zero bytes. `Waits`:
the ATM waits for one answer at a time. `OnItsWay`: counted in texts, of which none is
longer than `Size`, what is unread on both lines and the exchange that is still open are
no more than one and one for each cut.

* `DialogueTypes`, `NobodyIsStuck` are parts of it.
* `NothingIsCleared` is not inductive as it stands: that an answer is taken whole when it
  is written needs a bound on the line, which needs the count of texts, which needs that
  every read that cuts one is counted.
* `AnyPortionDecodes` and `DivisionDoesNotMatter` need only the types of the ciphers, and
  the theorems about the codecs.

* `AnswersFindTheirRequests` (`AnswersBelong`) and `FaultsOnlyMoveEnds` (`FaultsMoveEnds`).
  Neither is inductive: what a read gives depends on both ciphers and on what is on the
  line. The second invariant, `Course`, is about the first exchange that is not known to
  have gone well, the k-th. `InOrder` says what is true of its message in one direction
  whatever is cut: yet to be sent, with both ciphers in step and no digit on the line
  (`Clear`); sent, and the line decodes to something that begins with it (`Holds`); or
  taken for something it is related to. `Phase` says where the exchange is: the request is
  on its way, alone on the line (`Asking`); or the answer is (`Answering`); or the bank has
  closed (`Ended`); or, after a cut, something was taken for a message that it is not, and
  the exchange cannot go well any more (`Never`). `TakesNothing`, `TakesAlike` and
  `TakesWell` are the reads: of a clear line, of one that begins with the message, of one
  with the message alone. A message that is taken as it was sent leaves the line clear,
  because its text decodes to it and not before its last digit (`Just`). So an answer that
  is shown as given begins the next exchange, and without cuts `Never` does not occur.
  `FirstHeard` is the first request with what the allocator left behind it, of which only
  the beginning is known.

`ChallengeProofs`. First the arithmetic, for numbers of any size.

* `ExponentiateIsPower`. `Holds(a, x, rep)`: a is x times the radix, modulo m. `RadixInverse` and
  `ReduceIs` say that multiplying and reducing keep it. `Filled` follows the sliding
  windows: the buckets, each counted for its window, add up to the part of the exponent
  that has been passed. `CountedResult` empties them.
* `InverseModIs`. `Almost` is what the four numbers of the almost-inverse algorithm keep at every
  turn, and f + g decreases, so it ends, with the inverse times a power of two or with a
  common divisor.
* `CalculateInverseIs`. The multiples of z modulo a prime are the numbers below it in another
  order, hence Fermat's theorem (`FermatUnit`). With e * d = 1 modulo p - 1 the power d undoes
  the power e (`RootModPrime`), modulo both primes, and modulo their product by the
  Chinese remainders (`CrtIs`, `RootIs`), whether or not the number has a common divisor with the
  modulus. The blinding factor and its inverse cancel, so the check at the end of the code
  never throws.
* `GeneratedKeyIsValid`. Two different odd primes that the selector of `GenerateRandom` accepts for an
  odd exponent give a key that `Validate` accepts.

Then the specification.

* `ArithmeticExact`: the three operators compute what they stand for, for every challenge and
  key. It needs only that the challenge stays what was drawn.
* `ChallengeReturned`: `ChallengeReturns` is not inductive, since it says nothing before the verdict.
  `ReturnsInv` adds what is on the wire: after the ATM's step (`Asked`) the power of the challenge
  under the key the ATM knows; after the bank's (`Answered`), if the bank has that key, the
  power under the ATM's key of what the bank took for the challenge, which is the challenge if
  it does not begin with a zero byte. The numbers cross without loss: encoding drops
  exactly leading zero bytes (`LeastEncoding`, `LeastAgain`), so the ATM, which compares
  bytes, never accepts a challenge that begins with one.

Every safety invariant, action property and refinement that a passing run checks is stated by a
theorem, for every value of the constants. What the prover cannot do stays with TLC:

* What needs fairness: `HandshakeEnds` and the other liveness properties of `handshake`,
  `server_liveness` and `proxy_liveness`.
* The three runs that expect a violation, which are counterexamples.

## 5. What is not modelled

* *The rest of Crypto++.* `cryptopp/` is a vendored library of some 78,000 lines, nearly
  all of the repository's text, most of it algorithms the program never calls. Of what
  it does call, the parts are modelled whose state lives from one message to the next or
  whose treatment of bytes decides what a handler sees: base64, CFB, integers and RSA.
  AES itself, Diffie-Hellman, SHA, the key files' encodings and the random number
  generators are pure functions and are taken to do what they promise.
* *The regular expressions of `validate.h`.* Which texts are commands is a set of
  requests (`Requests`) or wordings (`Valid`). Parsing a number from a valid command is
  part of `BankServer`'s actions as the number itself.
  The patterns allow any white space where the parsing looks for a blank: such a command
  passes and is then refused, as `login` with a name is (`loginName`).
* *The command line's output and its balance command*, which changes nothing and is
  covered as `AdminBalanceCall` of `BankMutex`; *the processor time* its thread burns at the
  end of its input.
* *Card files*: an account number put in the place of a name (`Type` sends the wording
  that results).
* *The composition of all parts in one module.* The levels are linked as section 2
  says, each by a property of the level below.
* *Build files and setup scripts.*

## 6. Where code and comments disagree

| Run | Code | Text |
|---|---|---|
| `withdraw_locks_out` | After `withdraw`, the session is back in its login dialogue, where `Process("logout")` logs nobody out (`bank.cpp:131-139`). The user stays logged in, and `Bank::login` refuses the user from then on. | `bank.cpp:74-75`: "error" "will logout the user and close the connection" |
| `stalled_handshake` | One silent connection blocks the I/O thread (`bank.cpp:61-64`, `281`). | `bank.cpp:502-503`: "service all incoming requests with a separate session for each ATM connected" |
| `zero_challenge` | `MinEncodedSize` leaves out a challenge's leading zero bytes (`bank.cpp:297`, `atm.cpp:170`), so one challenge in 256 is refused although the bank answered rightly. | `README.md:29`: "Otherwise, it is not the Bank so break the connection." |

Others that need no run of their own; the properties above name each as the exception
it is:

* A failed write destroys the session without a logout (`bank.cpp:225-229`), against
  `README.md:38`, "When in doubt, kick the user out": the `reset` disjunct of
  `LoginsKeepTheirSession`.
* Logout leaves `id` and clears only `loggedin` (`bank.cpp:141-147`), so when that
  session ends it logs out whoever is logged in to the account by then, from another
  ATM. The other session then takes itself to be logged in ("User fully logged in",
  `bank.cpp:405`), while the Bank refuses what it asks. This is the exception in
  `InChargeUnlessStale`.
* An exception in a handshake ends that connection alone (`bank.cpp:435`). An empty
  public value throws none: the bank reads from a null pointer and ends (`bank.cpp:348`,
  `363`; `Crash`).
* `withdraw` replaces `id` by the amount and never calls `Bank::withdraw`
  (`bank.cpp:131-139`), against "Withdraw money from the current user's account",
  `bank.cpp:130`.
* The bank takes whatever it reads for the ack (`bank.cpp:377-384`); if the message before
  was cut, its rest is. `AckCaptured` excepts this.
* In steps 2, 7 and 8 of the protocol in `README.md` keys travel enciphered or in the
  open; in the code the ATM's key is a file of the bank's, and the Diffie-Hellman keys
  are sent unenciphered. Step 12 names two initial values; the code has one for both
  directions, with two cipher objects at each end (`Dialogue`'s `IV`).
* If an answer reaches the ATM in two parts, it shows the first for this request and
  the second for the next. The bank may then find two requests in one read, which is
  what "or goes on behind it" in `FaultsMoveEnds` allows.

## 7. Plan

Done: all modules of section 2, their runs, the theorems above. What would come next:

1. `Validate`: the patterns of `validate.h` as an automaton over classes of characters,
   to take the place of the set `Valid` in `Dialogue` and of `Requests` in `BankServer`.
2. `EndToEnd`: `BankServer` over the bytes of `Dialogue` and the links of `Proxy`, for one
   connection, once an instance of it is small enough.
3. Diffie-Hellman's agreement on top of `ModArith`, in the way of `Challenge`: with
   `ExponentiateIsPower` the proof that both ends compute one secret is short.
