----------------------------- MODULE BankServer -----------------------------
(***************************************************************************)
(* The bank process (bank.cpp): the Server that accepts connections, one   *)
(* Session per connection, the command line thread, and the Bank object    *)
(* they share.                                                             *)
(*                                                                         *)
(* All handlers run on one io_service thread, so a handler is one step;    *)
(* the command line thread takes its steps in between.  A handler makes at *)
(* most two Bank calls, of which at most one changes anything, so nothing  *)
(* is lost by running it as one step (BankMutex covers the calls           *)
(* themselves).  The Session constructor performs the whole handshake with *)
(* blocking reads: while it lasts, no other handler runs.                  *)
(*                                                                         *)
(* A connection that has ended gives its slot back; Connect may use it for *)
(* a new one.  What a request says is fixed when the bank reads it.  Wire  *)
(* text (base64, AES, the digits of a number) is not represented: a        *)
(* request is a record, or unreadable.                                     *)
(***************************************************************************)
EXTENDS Bank

CONSTANTS
    Conns,     \* connection slots
    Requests,  \* what ATMs send: records with a field op and the fields it needs
    Faults     \* "reset", "timeout", "accept": the transport errors that occur;
               \* "cut": a handshake message may arrive in pieces

ASSUME ServerAssumption ==
    \A r \in Requests :
        /\ r.op \in {"login", "withdraw", "pin"} => r.num \in Nat
        /\ r.op = "transfer" => r.amount \in Amounts

VARIABLES
    accepting,  \* is an async_accept outstanding?
    conn,       \* state of each connection: see ConnStates
    peer,       \* what the bank's socket will report about the other end
    arrived,    \* has a request arrived that no handler has read?
    stream,     \* data_ and cfbDecryption: see StreamStates
    id,         \* Session::id
    login,      \* Session::login: the next request must be the pin
    active,     \* Session::loggedin
    proved      \* history: account numbers whose pin this connection gave

sessionVars == <<stream, id, login, active, proved>>
netVars     == <<conn, peer, arrived>>
serverVars  == <<bankVars, accepting, netVars, sessionVars>>

\* free: no connection.  backlog: connected, not accepted.  handshake: in the
\* Session constructor.  reading, writing: an async_read_some or an async_write
\* is outstanding.
ConnStates == {"free", "backlog", "handshake", "reading", "writing"}
Open == {c \in Conns : conn[c] \in {"reading", "writing"}}

\* up; closed: orderly close (eof); reset: connection_reset; vanished: reads
\* fail some other way, as when the host is gone and TCP gives up.
PeerStates == {"up", "closed", "reset", "vanished"}

\* fresh: data_ is still as the allocator left it.  sync: the cipher streams of
\* both ends agree.  lost: the decryptor has consumed bytes nobody sent.
StreamStates == {"fresh", "sync", "lost"}

\* The io_service thread is not blocked in a handshake.
IoFree == \A c \in Conns : conn[c] # "handshake"

\* With no accept, read or write outstanding, IOService.run() returns and main
\* ends the process.
Running == accepting \/ \E c \in Conns : conn[c] \notin {"free", "backlog"}

Set(f, c, v) == [f EXCEPT ![c] = v]

-----------------------------------------------------------------------------
(* The ATM's end of a connection *)

Connect(c) ==
    /\ Running
    /\ conn[c] = "free"
    /\ conn' = Set(conn, c, "backlog")
    /\ peer' = Set(peer, c, "up")
    /\ UNCHANGED <<bankVars, accepting, arrived, sessionVars>>

\* An ATM sends its next request when it has had the answer to the last one,
\* which may be before the bank's own handler learns that the write is done.
Send(c) ==
    /\ c \in Open
    /\ peer[c] = "up"
    /\ ~arrived[c]
    /\ arrived' = Set(arrived, c, TRUE)
    /\ UNCHANGED <<bankVars, accepting, conn, peer, sessionVars>>

Depart(c, how) ==
    /\ conn[c] # "free"
    /\ peer[c] = "up"
    /\ peer' = Set(peer, c, how)
    /\ UNCHANGED <<bankVars, accepting, conn, arrived, sessionVars>>

Disconnect(c) == Depart(c, "closed")
Reset(c)      == "reset" \in Faults /\ Depart(c, "reset")
Vanish(c)     == "timeout" \in Faults /\ Depart(c, "vanished")

-----------------------------------------------------------------------------
(* Server: accept, and the handshake inside the Session constructor *)

\* Mutant: Session::id has no initial value.
BlankButId(c) ==
    /\ arrived' = Set(arrived, c, FALSE)
    /\ stream'  = Set(stream, c, "fresh")
    /\ id'      \in {Set(id, c, n) : n \in {-1, 0}}
    /\ login'   = Set(login, c, FALSE)
    /\ active'  = Set(active, c, FALSE)
    /\ proved'  = Set(proved, c, {})

\* Mutant: likewise, and the memory is that of the session before it.
BlankKeepsId(c) ==
    /\ arrived' = Set(arrived, c, FALSE)
    /\ stream'  = Set(stream, c, "fresh")
    /\ id'      = id
    /\ login'   = Set(login, c, FALSE)
    /\ active'  = Set(active, c, FALSE)
    /\ proved'  = Set(proved, c, {})

\* A Session begins with no user, and a slot without one looks the same.
Blank(c) ==
    /\ arrived' = Set(arrived, c, FALSE)
    /\ stream'  = Set(stream, c, "fresh")
    /\ id'      = Set(id, c, 0)
    /\ login'   = Set(login, c, FALSE)
    /\ active'  = Set(active, c, FALSE)
    /\ proved'  = Set(proved, c, {})

\* Mutant: the next accept waits for the session to end.
AcceptOneAtATime(c) ==
    /\ IoFree
    /\ accepting
    /\ Open = {}
    /\ conn[c] = "backlog"
    /\ conn' = Set(conn, c, "handshake")
    /\ UNCHANGED <<bankVars, accepting, peer, arrived, sessionVars>>

Accept(c) ==
    /\ IoFree
    /\ accepting
    /\ conn[c] = "backlog"
    /\ conn' = Set(conn, c, "handshake")
    /\ UNCHANGED <<bankVars, accepting, peer, arrived, sessionVars>>

\* The accept handler re-arms the acceptor only when it is given no error.
AcceptError ==
    /\ "accept" \in Faults
    /\ IoFree
    /\ accepting
    /\ accepting' = FALSE
    /\ UNCHANGED <<bankVars, netVars, sessionVars>>

\* setupenc returns; the Session is made and its first read started.
HandshakeDone(c) ==
    /\ conn[c] = "handshake"
    /\ conn' = Set(conn, c, "reading")
    /\ Blank(c)
    /\ UNCHANGED <<bankVars, accepting, peer>>

\* The Session is gone, and with it its socket.
Destroy(c) ==
    /\ conn' = Set(conn, c, "free")
    /\ peer' = Set(peer, c, "closed")
    /\ Blank(c)
    /\ UNCHANGED accepting

\* setupenc throws: the peer went away, or sent something it cannot use.
HandshakeFailed(c) ==
    /\ conn[c] = "handshake"
    /\ Destroy(c)
    /\ UNCHANGED bankVars

\* Of a public value too short to hold one byte, SecByteBlock makes a null pointer,
\* from which Agree reads a whole value: the process ends, with all its sessions.
\* (What it had in its accounts is left in bankVars; nothing steps any more.)
Crash(c) ==
    /\ "cut" \in Faults
    /\ conn[c] = "handshake"
    /\ accepting' = FALSE
    /\ conn'    = [d \in Conns |-> "free"]
    /\ peer'    = [d \in Conns |-> "closed"]
    /\ arrived' = [d \in Conns |-> FALSE]
    /\ stream'  = [d \in Conns |-> "fresh"]
    /\ id'      = [d \in Conns |-> 0]
    /\ login'   = [d \in Conns |-> FALSE]
    /\ active'  = [d \in Conns |-> FALSE]
    /\ proved'  = [d \in Conns |-> {}]
    /\ UNCHANGED bankVars

-----------------------------------------------------------------------------
(* Session::Process: when a request is not answered "error" *)

IsValidATMCommand(r) ==
    \/ r.op \in {"loginName", "pin", "balance", "withdraw", "logout"}
    \/ r.op = "login" /\ r.num \in Accounts
    \/ r.op = "transfer" /\ r.to \in Users

GivesPin(c, r)       == login[c] /\ r.op = "pin" /\ CanLogin(id[c], r.num)
StartsLogin(c, r)    == ~login[c] /\ r.op = "login" /\ ~active[c]
AsksBalance(c, r)    == ~login[c] /\ r.op = "balance" /\ CanBalance(id[c])
AsksTransfer(c, r)   == ~login[c] /\ r.op = "transfer" /\ CanTransfer(id[c], r.to, r.amount)
StartsWithdraw(c, r) == ~login[c] /\ r.op = "withdraw"
AsksLogout(c, r)     == ~login[c] /\ r.op = "logout" /\ CanLogout(id[c])

Accepted(c, r) ==
    /\ IsValidATMCommand(r)
    /\ \/ GivesPin(c, r)
       \/ StartsLogin(c, r)
       \/ AsksBalance(c, r)
       \/ AsksTransfer(c, r)
       \/ StartsWithdraw(c, r)
       \/ AsksLogout(c, r)

-----------------------------------------------------------------------------
(* Session::DoRead's handler, without an error code *)

\* A read completes with data.
Reads(c) == IoFree /\ conn[c] = "reading" /\ arrived[c]

\* The request r is decoded.  What the first read leaves uninitialized behind it
\* in data_ is decoded too: it may spoil the request (ReadGarbled), or only put
\* the decryptor out of step.
Decodes(c, r) ==
    /\ Reads(c)
    /\ stream[c] # "lost"
    /\ stream' \in {Set(stream, c, s) : s \in IF stream[c] = "fresh" THEN {"sync", "lost"}
                                              ELSE {"sync"}}

\* DoWrite: the answer is on its way.
Answer(c) ==
    /\ conn' = Set(conn, c, "writing")
    /\ arrived' = Set(arrived, c, FALSE)
    /\ UNCHANGED <<accepting, peer>>

\* Mutant: logs out with a pin outstanding too.
ProcessLogoutAlways(c) ==
    IF CanLogout(id[c]) THEN Logout(id[c]) ELSE UNCHANGED bankVars

\* Process("logout"): with a pin outstanding it is taken for a wrong pin.
ProcessLogout(c) ==
    IF ~login[c] /\ CanLogout(id[c]) THEN Logout(id[c]) ELSE UNCHANGED bankVars

ReadPin(c, r) ==
    /\ Decodes(c, r)
    /\ GivesPin(c, r)
    /\ Login(id[c], r.num)
    /\ login' = Set(login, c, FALSE)
    /\ active' = Set(active, c, TRUE)
    /\ proved' = Set(proved, c, proved[c] \cup {id[c]})
    /\ Answer(c)
    /\ UNCHANGED id

\* Mutant: takes commands without waiting for the pin.
ReadLoginNoPin(c, r) ==
    /\ Decodes(c, r)
    /\ IsValidATMCommand(r)
    /\ StartsLogin(c, r) \/ StartsWithdraw(c, r)
    /\ id' = Set(id, c, r.num)
    /\ Answer(c)
    /\ UNCHANGED <<bankVars, login, active, proved>>

\* login <account>, and withdraw <amount>, which is treated the same way: the
\* number becomes the session's id and the pin is asked for.
ReadLogin(c, r) ==
    /\ Decodes(c, r)
    /\ IsValidATMCommand(r)
    /\ StartsLogin(c, r) \/ StartsWithdraw(c, r)
    /\ id' = Set(id, c, r.num)
    /\ login' = Set(login, c, TRUE)
    /\ Answer(c)
    /\ UNCHANGED <<bankVars, active, proved>>

ReadBalance(c, r) ==
    /\ Decodes(c, r)
    /\ AsksBalance(c, r)
    /\ Answer(c)
    /\ UNCHANGED <<bankVars, id, login, active, proved>>

ReadTransfer(c, r) ==
    /\ Decodes(c, r)
    /\ AsksTransfer(c, r)
    /\ Transfer(id[c], r.to, r.amount)
    /\ Answer(c)
    /\ UNCHANGED <<id, login, active, proved>>

ReadLogout(c, r) ==
    /\ Decodes(c, r)
    /\ AsksLogout(c, r)
    /\ Logout(id[c])
    /\ active' = Set(active, c, FALSE)
    /\ Answer(c)
    /\ UNCHANGED <<id, login, proved>>

\* Mutant: neither answers nor closes.
ReadIgnored(c, r) ==
    /\ Reads(c)
    /\ stream[c] # "lost"
    /\ ~Accepted(c, r)
    /\ UNCHANGED serverVars

\* An invalid command, or one answered "error": log out and close.
ReadRejected(c, r) ==
    /\ Reads(c)
    /\ stream[c] # "lost"
    /\ ~Accepted(c, r)
    /\ ProcessLogout(c)
    /\ Destroy(c)

\* What was decoded is not what was sent; it is not a valid command.
ReadGarbled(c) ==
    /\ Reads(c)
    /\ stream[c] # "sync"
    /\ ProcessLogout(c)
    /\ Destroy(c)

-----------------------------------------------------------------------------
(* The handlers' error codes *)

\* Mutants: eof closes without a logout; eof logs out and does not close.
ReadEndNoLogout(c) ==
    /\ IoFree
    /\ conn[c] = "reading"
    /\ ~arrived[c]
    /\ peer[c] \in {"closed", "reset"}
    /\ Destroy(c)
    /\ UNCHANGED bankVars

ReadEndNoClose(c) ==
    /\ IoFree
    /\ conn[c] = "reading"
    /\ ~arrived[c]
    /\ peer[c] \in {"closed", "reset"}
    /\ ProcessLogout(c)
    /\ UNCHANGED <<accepting, netVars, sessionVars>>

\* eof or connection_reset, once what had arrived is read: log out.
ReadEnd(c) ==
    /\ IoFree
    /\ conn[c] = "reading"
    /\ ~arrived[c]
    /\ peer[c] \in {"closed", "reset"}
    /\ ProcessLogout(c)
    /\ Destroy(c)

\* Any other error: the handler does nothing, and nothing keeps the Session.
ReadFailed(c) ==
    /\ IoFree
    /\ conn[c] = "reading"
    /\ ~arrived[c]
    /\ peer[c] = "vanished"
    /\ Destroy(c)
    /\ UNCHANGED bankVars

WriteDone(c) ==
    /\ IoFree
    /\ conn[c] = "writing"
    /\ conn' = Set(conn, c, "reading")
    /\ UNCHANGED <<bankVars, accepting, peer, arrived, sessionVars>>

\* A write error, likewise, drops the Session without more ado.
WriteFailed(c) ==
    /\ IoFree
    /\ conn[c] = "writing"
    /\ peer[c] = "reset"
    /\ Destroy(c)
    /\ UNCHANGED bankVars

-----------------------------------------------------------------------------
(* The command line: deposit <user> <amount>; balance <user> changes nothing *)

CommandLine ==
    /\ Running
    /\ \E u \in Users, a \in Amounts : Deposit(u, a)
    /\ UNCHANGED <<accepting, netVars, sessionVars>>

-----------------------------------------------------------------------------

ServerInit ==
    /\ BankInit
    /\ accepting = TRUE
    /\ conn = [c \in Conns |-> "free"]
    /\ peer = [c \in Conns |-> "closed"]
    /\ arrived = [c \in Conns |-> FALSE]
    /\ stream = [c \in Conns |-> "fresh"]
    /\ id = [c \in Conns |-> 0]
    /\ login = [c \in Conns |-> FALSE]
    /\ active = [c \in Conns |-> FALSE]
    /\ proved = [c \in Conns |-> {}]

AtmStep(c) == Connect(c) \/ Send(c) \/ Disconnect(c) \/ Reset(c) \/ Vanish(c)

HandshakeStep(c) == HandshakeDone(c) \/ HandshakeFailed(c)

ReadStep(c) ==
    \/ \E r \in Requests :
          \/ ReadPin(c, r)
          \/ ReadLogin(c, r)
          \/ ReadBalance(c, r)
          \/ ReadTransfer(c, r)
          \/ ReadLogout(c, r)
          \/ ReadRejected(c, r)
    \/ ReadGarbled(c)
    \/ ReadEnd(c)

WriteStep(c) == WriteDone(c) \/ WriteFailed(c)

ServerNext ==
    \/ \E c \in Conns :
          \/ AtmStep(c)
          \/ Accept(c)
          \/ HandshakeStep(c)
          \/ Crash(c)
          \/ ReadStep(c)
          \/ ReadFailed(c)
          \/ WriteStep(c)
    \/ AcceptError
    \/ CommandLine

ServerSpec == ServerInit /\ [][ServerNext]_serverVars

\* io_service runs completed handlers in the order they complete, and the kernel
\* hands out connections in the order they came: none waits for ever while others
\* run.  (Strong fairness, because each handshake disables all other handlers.)
\* A blocking read returns when the other end has closed.  Nothing makes TCP
\* notice that an ATM has vanished, so ReadFailed is not fair.
HandlersRun ==
    \A c \in Conns :
        /\ SF_serverVars(ReadStep(c))
        /\ SF_serverVars(WriteStep(c))
        /\ SF_serverVars(Accept(c))
        /\ WF_serverVars(HandshakeStep(c) /\ peer[c] \in {"closed", "reset"})

\* An ATM program in its handshake goes on with it, fails it, or exits; it takes
\* no input meanwhile.  Assumed of the ATMs' hosts too: none vanishes just then.
HandshakesEnd == \A c \in Conns : WF_serverVars(HandshakeStep(c))

\* The bank alone is fair; the bank and the programs it talks to are.
BankFairSpec == ServerSpec /\ HandlersRun
FairSpec     == BankFairSpec /\ HandshakesEnd

-----------------------------------------------------------------------------
(* Properties *)

SessionTypeOK ==
    /\ accepting \in BOOLEAN
    /\ conn \in [Conns -> ConnStates]
    /\ peer \in [Conns -> PeerStates]
    /\ arrived \in [Conns -> BOOLEAN]
    /\ stream \in [Conns -> StreamStates]
    /\ id \in [Conns -> Nat]
    /\ login \in [Conns -> BOOLEAN]
    /\ active \in [Conns -> BOOLEAN]
    /\ proved \in [Conns -> SUBSET Accounts]

ServerTypeOK == BankTypeOK /\ SessionTypeOK

\* A session that takes commands (it is not waiting for a pin) has an id for which
\* its own ATM gave the pin, or none.  Session::id is written before the pin is
\* known (login, withdraw), survives logout, and is what balance, transfer and
\* logout act on: this says that none of them ever sees an unproven one.
ActsOnlyOnProvenAccounts ==
    \A c \in Open : ~login[c] => id[c] = 0 \/ id[c] \in proved[c]

\* The handler of c's read runs, and uses its Process.
Handles(c) == conn[c] = "reading" /\ conn'[c] # "reading"

\* c takes commands, on an account of u's that its own ATM proved.
ActsFor(c, u) ==
    ~login[c] /\ id[c] \in proved[c] /\ AccountOf[id[c]] = u

\* Whatever the order of requests, connections and failures, an account loses
\* money only to the request of a session that acts on it and whose own ATM gave
\* its pin, on the very connection whose read is handled; and only while its user
\* is logged in.  The pin another connection gave, though that one be open and
\* logged in, is worth nothing.
DebitsAreAuthenticated ==
    [][\A u \in Users : balance'[u] < balance[u] =>
          /\ loggedin[u]
          /\ \E c \in Conns : Handles(c) /\ ActsFor(c, u)]_serverVars

\* c is the session that logged u in, and will log u out when it ends.
Backs(c, u) ==
    /\ c \in Open
    /\ active[c] /\ ~login[c]
    /\ id[c] \in Accounts
    /\ AccountOf[id[c]] = u

\* A user who is logged in at the bank is logged in by a session that still exists.
\* Otherwise Bank::login refuses the user until the bank is restarted.  A theorem
\* says when this holds.
LoginBackedBySession == \A u \in Users : loggedin[u] => \E c \in Conns : Backs(c, u)

\* In no other way than these two does a user come to be logged in without such a
\* session, as long as the process runs: the session's connection was reset or
\* vanished, or the session was asked to withdraw.  Every other end of a session, in
\* whatever state of its dialogue, and every other request logs the user out or
\* leaves the session in charge.
LoginsKeepTheirSession ==
    [][\A u \in Users : loggedin'[u] /\ Running' /\ ~(\E c \in Conns : Backs(c, u)') =>
          /\ loggedin[u]
          /\ \A c \in Conns : Backs(c, u) =>
                \/ peer[c] \in {"reset", "vanished"}
                \/ login'[c] /\ \E r \in Requests : r.op = "withdraw" /\ id'[c] = r.num]_serverVars

\* No session believes wrongly that it logged u in, and no two believe it.
InCharge(u) ==
    \A c, d \in Conns : Backs(c, u) /\ Backs(d, u) => c = d /\ loggedin[u]

\* A session that logged its user in is the only one and has the user logged in at
\* the bank until it ends itself.  The one way to take the user from it is the id a
\* session keeps when it has logged out: such a session's next logout, or its end,
\* logs out whoever has logged in for the same user since.  A session that is still
\* to give its pin, or whose pin was refused, cannot.
InChargeUnlessStale ==
    [][\A u \in Users : InCharge(u) =>
          \/ InCharge(u)'
          \/ \E c \in Conns : Handles(c) /\ ActsFor(c, u) /\ ~active[c]]_serverVars

\* The steps of the process as steps of the Bank, which carry what holds of the
\* Bank over to the process.
ImplementsBank == BankSpec

\* With no session left nobody is left logged in (the weakest consequence of
\* LoginBackedBySession): an "error" answer, or a failed connection, logs the
\* session's user out, as the comments in Process and DoRead have it.
NobodyLeftLoggedIn == Open = {} => \A u \in Users : ~loggedin[u]

\* A request that has arrived is read in the end, whatever the other ATMs do.
RequestsAreRead == \A c \in Conns : arrived[c] ~> ~arrived[c]

\* A connection waiting to be accepted gets its session (or goes away), as long as
\* the bank accepts at all: no other ATM's handshake or failure stops the bank
\* from serving it.
BacklogServed == \A c \in Conns : conn[c] = "backlog" ~> conn[c] # "backlog" \/ ~accepting

\* A session whose connection is closed or reset is released, from whatever state it
\* is in: also if the reset meets the write of an answer.
ClosedAreReleased ==
    \A c \in Conns :
        peer[c] \in {"closed", "reset"} /\ conn[c] # "backlog" ~> conn[c] = "free"
=============================================================================
