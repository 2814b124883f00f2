------------------------------ MODULE BankMutex ------------------------------
(***************************************************************************)
(* The critical sections of bank_object.h, opened.  Two threads of the     *)
(* bank process call the Bank object: the io_service thread, for the       *)
(* sessions, and the command line thread (bank.cpp).  Each call locks      *)
(* data_m, checks, updates, and unlocks on whichever path it returns;      *)
(* transfer updates twice, so its money is for a while in no account.      *)
(*                                                                         *)
(* ImplementsBank says that the threads see the atomic operations of       *)
(* module Bank, a transfer taking effect with its first update.            *)
(***************************************************************************)
EXTENDS Bank

CONSTANTS
    Threads,   \* the io_service thread and the command line thread
    Calls,     \* thread -> the calls it may make (see the ...Call operators)
    NoThread   \* the value of mutex when data_m is free

ASSUME MutexAssumption ==
    /\ NoThread \notin Threads
    /\ \A t \in Threads : Calls[t] # {}
    /\ \A t \in Threads : \A c \in Calls[t] :
          c.op \in {"withdraw", "transfer", "deposit"} => c.amount \in Amounts

VARIABLES
    mutex,  \* the thread holding data_m
    pc,     \* where each thread is in its call
    call,   \* the call each thread makes, or made last
    ret,    \* what that call returned: true or false
    seen    \* retBal of each thread's last balance or adminBalance

threadVars == <<mutex, pc, call, ret, seen>>
mutexVars  == <<bankVars, threadVars>>

Steps == {"idle", "lock", "check", "act", "credit", "unlock"}

-----------------------------------------------------------------------------
(* The calls, and when they pass their checks *)

LoginCall(i, p)        == [op |-> "login", id |-> i, pin |-> p]
LogoutCall(i)          == [op |-> "logout", id |-> i]
BalanceCall(i)         == [op |-> "balance", id |-> i]
WithdrawCall(i, a)     == [op |-> "withdraw", id |-> i, amount |-> a]
TransferCall(i, to, a) == [op |-> "transfer", id |-> i, user |-> to, amount |-> a]
DepositCall(u, a)      == [op |-> "deposit", user |-> u, amount |-> a]
AdminBalanceCall(u)    == [op |-> "adminBalance", user |-> u]

\* Mutant: deposit without the room check.
PassesNoRoom(c) ==
    \/ c.op = "login"        /\ CanLogin(c.id, c.pin)
    \/ c.op = "logout"       /\ CanLogout(c.id)
    \/ c.op = "balance"      /\ CanBalance(c.id)
    \/ c.op = "withdraw"     /\ CanWithdraw(c.id, c.amount)
    \/ c.op = "transfer"     /\ CanTransfer(c.id, c.user, c.amount)
    \/ c.op \in {"deposit", "adminBalance"} /\ c.user \in Users

Passes(c) ==
    \/ c.op = "login"        /\ CanLogin(c.id, c.pin)
    \/ c.op = "logout"       /\ CanLogout(c.id)
    \/ c.op = "balance"      /\ CanBalance(c.id)
    \/ c.op = "withdraw"     /\ CanWithdraw(c.id, c.amount)
    \/ c.op = "transfer"     /\ CanTransfer(c.id, c.user, c.amount)
    \/ c.op = "deposit"      /\ CanDeposit(c.user, c.amount)
    \/ c.op = "adminBalance" /\ c.user \in Users

-----------------------------------------------------------------------------
(* The steps of a call *)

Goto(t, step) == pc' = [pc EXCEPT ![t] = step]

Invoke(t, c) ==
    /\ pc[t] = "idle"
    /\ Goto(t, "lock")
    /\ call' = [call EXCEPT ![t] = c]
    /\ ret' = [ret EXCEPT ![t] = FALSE]
    /\ seen' = [seen EXCEPT ![t] = 0]
    /\ UNCHANGED <<bankVars, mutex>>

\* Mutants: the calls that pass do not wait for data_m.
Barge(t, Passing(_)) ==
    /\ pc[t] = "lock"
    /\ mutex = NoThread \/ Passing(call[t])
    /\ mutex' = t
    /\ Goto(t, "check")
    /\ UNCHANGED <<bankVars, call, ret, seen>>

AcquireNever(t)        == Barge(t, LAMBDA c : TRUE)
AcquireToUpdateOnly(t) == Barge(t, LAMBDA c : c.op = "adminBalance")

Acquire(t) ==
    /\ pc[t] = "lock"
    /\ mutex = NoThread
    /\ mutex' = t
    /\ Goto(t, "check")
    /\ UNCHANGED <<bankVars, call, ret, seen>>

\* Mutant: returns false and forgets to unlock.
RefuseLocked(t) ==
    /\ pc[t] = "check"
    /\ ~Passes(call[t])
    /\ Goto(t, "idle")
    /\ ret' = [ret EXCEPT ![t] = FALSE]
    /\ UNCHANGED <<bankVars, mutex, call, seen>>

\* A failed check: unlock and return false.
Refuse(t) ==
    /\ pc[t] = "check"
    /\ ~Passes(call[t])
    /\ Goto(t, "unlock")
    /\ ret' = [ret EXCEPT ![t] = FALSE]
    /\ UNCHANGED <<bankVars, mutex, call, seen>>

Admit(t) ==
    /\ pc[t] = "check"
    /\ Passes(call[t])
    /\ Goto(t, "act")
    /\ ret' = [ret EXCEPT ![t] = TRUE]
    /\ UNCHANGED <<bankVars, mutex, call, seen>>

SetFlag(t) ==
    /\ pc[t] = "act"
    /\ call[t].op \in {"login", "logout"}
    /\ loggedin' = [loggedin EXCEPT ![AccountOf[call[t].id]] = (call[t].op = "login")]
    /\ Goto(t, "unlock")
    /\ UNCHANGED <<balance, cash, mutex, call, ret, seen>>

ReadBalance(t) ==
    /\ pc[t] = "act"
    /\ \/ call[t].op = "balance" /\ seen' = [seen EXCEPT ![t] = balance[AccountOf[call[t].id]]]
       \/ call[t].op = "adminBalance" /\ seen' = [seen EXCEPT ![t] = balance[call[t].user]]
    /\ Goto(t, "unlock")
    /\ UNCHANGED <<bankVars, mutex, call, ret>>

PayIn(t) ==
    /\ pc[t] = "act"
    /\ call[t].op = "deposit"
    /\ balance' = AddMoney(balance, call[t].user, call[t].amount)
    /\ cash' = cash + call[t].amount
    /\ Goto(t, "unlock")
    /\ UNCHANGED <<loggedin, mutex, call, ret, seen>>

PayOut(t) ==
    /\ pc[t] = "act"
    /\ call[t].op = "withdraw"
    /\ balance' = RemoveMoney(balance, AccountOf[call[t].id], call[t].amount)
    /\ cash' = cash - call[t].amount
    /\ Goto(t, "unlock")
    /\ UNCHANGED <<loggedin, mutex, call, ret, seen>>

\* The first half of a transfer ...
Debit(t) ==
    /\ pc[t] = "act"
    /\ call[t].op = "transfer"
    /\ balance' = RemoveMoney(balance, AccountOf[call[t].id], call[t].amount)
    /\ Goto(t, "credit")
    /\ UNCHANGED <<loggedin, cash, mutex, call, ret, seen>>

\* ... and the second.
Credit(t) ==
    /\ pc[t] = "credit"
    /\ balance' = AddMoney(balance, call[t].user, call[t].amount)
    /\ Goto(t, "unlock")
    /\ UNCHANGED <<loggedin, cash, mutex, call, ret, seen>>

Release(t) ==
    /\ pc[t] = "unlock"
    /\ mutex' = NoThread
    /\ Goto(t, "idle")
    /\ UNCHANGED <<bankVars, call, ret, seen>>

-----------------------------------------------------------------------------

MutexInit ==
    /\ BankInit
    /\ mutex = NoThread
    /\ pc = [t \in Threads |-> "idle"]
    /\ call = [t \in Threads |-> CHOOSE c \in Calls[t] : TRUE]
    /\ ret = [t \in Threads |-> FALSE]
    /\ seen = [t \in Threads |-> 0]

MutexNext == \E t \in Threads :
    \/ \E c \in Calls[t] : Invoke(t, c)
    \/ Acquire(t)
    \/ Refuse(t)
    \/ Admit(t)
    \/ SetFlag(t)
    \/ ReadBalance(t)
    \/ PayIn(t)
    \/ PayOut(t)
    \/ Debit(t)
    \/ Credit(t)
    \/ Release(t)

MutexSpec == MutexInit /\ [][MutexNext]_mutexVars

-----------------------------------------------------------------------------
(* Properties *)

MutexTypeOK ==
    /\ BankTypeOK
    /\ mutex \in Threads \cup {NoThread}
    /\ pc \in [Threads -> Steps]
    /\ DOMAIN call = Threads
    /\ \A t \in Threads : call[t] \in Calls[t]
    /\ ret \in [Threads -> BOOLEAN]
    /\ seen \in [Threads -> LongLong]

\* data_m is held by exactly the thread that is between its lock and its unlock:
\* two calls never overlap, and no return path of bank_object.h, of which each
\* operation has up to six, leaves the mutex locked behind it.
LockHeldInsideOnly ==
    \A t \in Threads : mutex = t <=> pc[t] \in {"check", "act", "credit", "unlock"}

\* What a call checked (login state, funds, room) is still so when it updates:
\* no deposit typed at the bank slips in between the check and the update of a
\* transfer, or the other way round.
ChecksStillHold == \A t \in Threads : pc[t] = "act" => Passes(call[t])

\* The balances as the atomic operations of module Bank leave them: a transfer
\* under way counts as done.
Committed ==
    IF \E t \in Threads : pc[t] = "credit"
    THEN LET c == call[CHOOSE t \in Threads : pc[t] = "credit"]
         IN  AddMoney(balance, c.user, c.amount)
    ELSE balance

\* balance and adminBalance return a balance the account really has when they
\* return, never the state of a transfer that has debited and not yet credited.
ReadsAreCurrent ==
    \A t \in Threads : pc[t] = "unlock" /\ ret[t] =>
        /\ call[t].op = "balance" => seen[t] = Committed[AccountOf[call[t].id]]
        /\ call[t].op = "adminBalance" => seen[t] = Committed[call[t].user]

Abs == INSTANCE Bank WITH balance <- Committed

\* The two threads, interleaved at every lock, check and update, produce only
\* behaviours of the atomic Bank: bank_object.h is linearizable.
ImplementsBank == Abs!BankSpec
=============================================================================
