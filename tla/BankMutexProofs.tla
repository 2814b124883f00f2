--------------------------- MODULE BankMutexProofs ---------------------------
(***************************************************************************)
(* Theorems about the critical sections of bank_object.h: mutual           *)
(* exclusion, checks that hold until the update, current reads, and that   *)
(* the calls implement the atomic Bank, for every set of threads.          *)
(*                                                                         *)
(* Everything follows from who holds data_m.  No arithmetic is needed: the *)
(* abstract step of a transfer is its debit, with the credit taken as      *)
(* done, whatever the sums come to.                                        *)
(***************************************************************************)
EXTENDS BankMutex, TLAPS

Inside(t) == pc[t] \in {"check", "act", "credit", "unlock"}

MutexTypes ==
    /\ mutex \in Threads \cup {NoThread}
    /\ pc \in [Threads -> Steps]
    /\ DOMAIN call = Threads
    /\ \A t \in Threads : call[t] \in Calls[t]
    /\ ret \in [Threads -> BOOLEAN]
    /\ DOMAIN seen = Threads

CreditIsTransfer == \A t \in Threads : pc[t] = "credit" => call[t].op = "transfer"

MutexInv == MutexTypes /\ LockHeldInsideOnly /\ ChecksStillHold /\ CreditIsTransfer

-----------------------------------------------------------------------------
(* Mutual exclusion *)

\* At most one thread is between lock and unlock.
LEMMA OneInside ==
    ASSUME LockHeldInsideOnly, NEW s \in Threads, NEW t \in Threads, Inside(s), Inside(t)
    PROVE  s = t
  BY DEF LockHeldInsideOnly, Inside

\* A call's checks read only its arguments, the balances and the login flags.
LEMMA PassesStable ==
    ASSUME NEW s \in Threads, Passes(call[s]), call'[s] = call[s], UNCHANGED bankVars
    PROVE  Passes(call[s])'
  BY DEF Passes, CanLogin, CanLogout, CanBalance, CanWithdraw, CanTransfer, CanDeposit, IsLoggedIn,
     HasRoom, bankVars

LEMMA MutexInit0 == MutexInit => MutexInv
  <1> SUFFICES ASSUME MutexInit
               PROVE  MutexInv
    OBVIOUS
  <1>1. \A t \in Threads : (CHOOSE c \in Calls[t] : TRUE) \in Calls[t]
    BY MutexAssumption
  <1> QED
    BY <1>1, MutexAssumption
       DEF MutexInit, MutexInv, MutexTypes, LockHeldInsideOnly, ChecksStillHold, CreditIsTransfer,
           Steps

LEMMA TypesNext == MutexTypes /\ [MutexNext]_mutexVars => MutexTypes'
  <1> SUFFICES ASSUME MutexTypes, [MutexNext]_mutexVars
               PROVE  MutexTypes'
    OBVIOUS
  <1> USE DEF MutexTypes, Goto, Steps
  <1>1. ASSUME NEW t \in Threads, NEW c \in Calls[t], Invoke(t, c)
        PROVE  MutexTypes'
    BY <1>1 DEF Invoke
  <1>2. ASSUME NEW t \in Threads, Acquire(t) \/ Refuse(t) \/ Admit(t) \/ Release(t)
        PROVE  MutexTypes'
    BY <1>2 DEF Acquire, Refuse, Admit, Release
  <1>3. ASSUME NEW t \in Threads,
               SetFlag(t) \/ ReadBalance(t) \/ PayIn(t) \/ PayOut(t) \/ Debit(t) \/ Credit(t)
        PROVE  MutexTypes'
    BY <1>3 DEF SetFlag, ReadBalance, PayIn, PayOut, Debit, Credit
  <1>4. CASE UNCHANGED mutexVars
    BY <1>4 DEF mutexVars, threadVars
  <1> QED
    BY <1>1, <1>2, <1>3, <1>4 DEF MutexNext

LEMMA LockNext ==
    MutexTypes /\ LockHeldInsideOnly /\ [MutexNext]_mutexVars => LockHeldInsideOnly'
  <1> SUFFICES ASSUME MutexTypes, LockHeldInsideOnly, [MutexNext]_mutexVars
               PROVE  LockHeldInsideOnly'
    OBVIOUS
  <1> USE MutexAssumption DEF MutexTypes, LockHeldInsideOnly, Goto, Steps
  <1>1. ASSUME NEW t \in Threads, NEW c \in Calls[t], Invoke(t, c)
        PROVE  LockHeldInsideOnly'
    BY <1>1 DEF Invoke
  <1>2. ASSUME NEW t \in Threads, Acquire(t)
        PROVE  LockHeldInsideOnly'
    BY <1>2 DEF Acquire
  <1>3. ASSUME NEW t \in Threads, Refuse(t) \/ Admit(t)
        PROVE  LockHeldInsideOnly'
    BY <1>3 DEF Refuse, Admit
  <1>4. ASSUME NEW t \in Threads,
               SetFlag(t) \/ ReadBalance(t) \/ PayIn(t) \/ PayOut(t) \/ Debit(t) \/ Credit(t)
        PROVE  LockHeldInsideOnly'
    BY <1>4 DEF SetFlag, ReadBalance, PayIn, PayOut, Debit, Credit
  <1>5. ASSUME NEW t \in Threads, Release(t)
        PROVE  LockHeldInsideOnly'
    BY <1>5 DEF Release
  <1>6. CASE UNCHANGED mutexVars
    BY <1>6 DEF mutexVars, threadVars
  <1> QED
    BY <1>1, <1>2, <1>3, <1>4, <1>5, <1>6 DEF MutexNext

\* Admit establishes the checks; no other thread can undo them before the update.
LEMMA ChecksNext ==
    MutexInv /\ [MutexNext]_mutexVars => ChecksStillHold' /\ CreditIsTransfer'
  <1> SUFFICES ASSUME MutexInv, [MutexNext]_mutexVars
               PROVE  ChecksStillHold' /\ CreditIsTransfer'
    OBVIOUS
  <1>p. /\ pc \in [Threads -> Steps]
        /\ LockHeldInsideOnly /\ ChecksStillHold /\ CreditIsTransfer
    BY DEF MutexInv, MutexTypes
  <1>s. ASSUME NEW s \in Threads, pc[s] = "act", call'[s] = call[s], UNCHANGED bankVars
        PROVE  Passes(call[s])'
    BY <1>p, <1>s, PassesStable DEF ChecksStillHold
  <1>1. ASSUME NEW t \in Threads, NEW c \in Calls[t], Invoke(t, c)
        PROVE  ChecksStillHold' /\ CreditIsTransfer'
    <2>1. /\ UNCHANGED bankVars
          /\ \A s \in Threads : pc'[s] \in {"act", "credit"} => pc'[s] = pc[s] /\ call'[s] = call[s]
      BY <1>p, <1>1 DEF Invoke, Goto
    <2> QED
      BY <1>p, <1>s, <2>1 DEF ChecksStillHold, CreditIsTransfer
  <1>2. ASSUME NEW t \in Threads, Acquire(t) \/ Refuse(t) \/ Release(t)
        PROVE  ChecksStillHold' /\ CreditIsTransfer'
    <2>1. /\ UNCHANGED bankVars /\ call' = call
          /\ \A s \in Threads : pc'[s] \in {"act", "credit"} => pc'[s] = pc[s]
      BY <1>p, <1>2 DEF Acquire, Refuse, Release, Goto
    <2> QED
      BY <1>p, <1>s, <2>1 DEF ChecksStillHold, CreditIsTransfer
  <1>3. ASSUME NEW t \in Threads, Admit(t)
        PROVE  ChecksStillHold' /\ CreditIsTransfer'
    <2>1. /\ UNCHANGED bankVars /\ call' = call /\ Passes(call[t])
          /\ pc'[t] = "act"
          /\ \A s \in Threads \ {t} : pc'[s] = pc[s]
      BY <1>p, <1>3 DEF Admit, Goto
    <2>2. Passes(call[t])'
      BY <2>1, PassesStable
    <2> QED
      BY <1>p, <1>s, <2>1, <2>2 DEF ChecksStillHold, CreditIsTransfer
  <1>4. ASSUME NEW t \in Threads,
               SetFlag(t) \/ ReadBalance(t) \/ PayIn(t) \/ PayOut(t) \/ Debit(t) \/ Credit(t)
        PROVE  ChecksStillHold' /\ CreditIsTransfer'
    <2>1. /\ pc[t] \in {"act", "credit"} /\ call' = call
          /\ pc'[t] \in {"unlock", "credit"}
          /\ pc'[t] = "credit" => call[t].op = "transfer"
          /\ \A s \in Threads \ {t} : pc'[s] = pc[s]
      BY <1>p, <1>4 DEF SetFlag, ReadBalance, PayIn, PayOut, Debit, Credit, Goto
    <2>2. \A s \in Threads \ {t} : pc[s] \notin {"act", "credit"}
      BY <1>p, <2>1, OneInside DEF Inside
    <2> QED
      BY <1>p, <2>1, <2>2 DEF ChecksStillHold, CreditIsTransfer
  <1>5. CASE UNCHANGED mutexVars
    <2>1. UNCHANGED bankVars /\ call' = call /\ pc' = pc
      BY <1>5 DEF mutexVars, threadVars
    <2> QED
      BY <1>p, <1>s, <2>1 DEF ChecksStillHold, CreditIsTransfer
  <1> QED
    BY <1>1, <1>2, <1>3, <1>4, <1>5 DEF MutexNext

\* Every behaviour of the threads stays in the inductive invariant.
THEOREM MutexInvHolds == MutexSpec => []MutexInv
  <1>1. MutexInv /\ [MutexNext]_mutexVars => MutexInv'
    BY TypesNext, LockNext, ChecksNext DEF MutexInv
  <1> QED
    BY <1>1, MutexInit0, PTL DEF MutexSpec

\* data_m is held by the thread inside an operation and by no other, however many
\* threads call the Bank; every return path gives it back.
THEOREM LockCorrect == MutexSpec => []LockHeldInsideOnly
  BY MutexInvHolds, PTL DEF MutexInv

\* What an operation has checked still holds when it updates.
THEOREM ChecksCorrect == MutexSpec => []ChecksStillHold
  BY MutexInvHolds, PTL DEF MutexInv

-----------------------------------------------------------------------------
(* Linearizability *)

\* Committed, when no transfer is half done and when that of t is.
LEMMA CommittedSettled ==
    ASSUME \A s \in Threads : pc[s] # "credit"
    PROVE  Committed = balance
  BY DEF Committed

LEMMA CommittedHalfDone ==
    ASSUME NEW t \in Threads, pc[t] = "credit", \A s \in Threads \ {t} : pc[s] # "credit"
    PROVE  Committed = AddMoney(balance, call[t].user, call[t].amount)
  <1>1. (CHOOSE s \in Threads : pc[s] = "credit") = t
    OBVIOUS
  <1> QED
    BY <1>1 DEF Committed

\* The same of the next state.
LEMMA CommittedSettledNext ==
    ASSUME \A s \in Threads : pc'[s] # "credit"
    PROVE  Committed' = balance'
  BY DEF Committed

LEMMA CommittedHalfDoneNext ==
    ASSUME NEW t \in Threads, pc'[t] = "credit", \A s \in Threads \ {t} : pc'[s] # "credit"
    PROVE  Committed' = AddMoney(balance', call'[t].user, call'[t].amount)
  <1>1. (CHOOSE s \in Threads : pc'[s] = "credit") = t
    OBVIOUS
  <1> QED
    BY <1>1 DEF Committed, AddMoney, LLong

\* A step that leaves the balances alone and no transfer half done differently
\* leaves Committed alone.
LEMMA CommittedStable ==
    ASSUME balance' = balance,
           \A s \in Threads : pc'[s] = "credit" <=> pc[s] = "credit",
           \A s \in Threads : pc[s] = "credit" => call'[s] = call[s]
    PROVE  Committed' = Committed
  <1>1. (CHOOSE s \in Threads : pc'[s] = "credit") = (CHOOSE s \in Threads : pc[s] = "credit")
    OBVIOUS
  <1>2. CASE \E s \in Threads : pc[s] = "credit"
    BY <1>1, <1>2 DEF Committed, AddMoney, LLong
  <1>3. CASE \A s \in Threads : pc[s] # "credit"
    BY <1>3 DEF Committed
  <1> QED
    BY <1>2, <1>3

\* An update other than a transfer's: the abstract balances are the concrete ones
\* before and after it.
LEMMA UpdateAlone ==
    ASSUME MutexInv, NEW t \in Threads, pc[t] = "act", pc' = [pc EXCEPT ![t] = "unlock"]
    PROVE  Committed = balance /\ Committed' = balance'
  <1>1. pc \in [Threads -> Steps] /\ LockHeldInsideOnly
    BY DEF MutexInv, MutexTypes
  <1>2. \A s \in Threads : pc[s] # "credit" /\ pc'[s] # "credit"
    BY <1>1, OneInside DEF Inside
  <1> QED
    BY <1>2, CommittedSettled, CommittedSettledNext

LEMMA AbsStep == MutexInv /\ [MutexNext]_mutexVars => [Abs!BankNext]_(Abs!bankVars)
  <1> SUFFICES ASSUME MutexInv, [MutexNext]_mutexVars
               PROVE  [Abs!BankNext]_(Abs!bankVars)
    OBVIOUS
  <1>p. /\ pc \in [Threads -> Steps]
        /\ LockHeldInsideOnly /\ ChecksStillHold /\ CreditIsTransfer
    BY DEF MutexInv, MutexTypes
  <1>c. \A t \in Threads : call[t].op \in {"withdraw", "transfer", "deposit"} => call[t].amount \in Amounts
    BY MutexAssumption DEF MutexInv, MutexTypes
  <1>1. ASSUME NEW t \in Threads, NEW c \in Calls[t], Invoke(t, c)
        PROVE  UNCHANGED Abs!bankVars
    <2>1. /\ UNCHANGED bankVars
          /\ \A s \in Threads : pc'[s] = "credit" <=> pc[s] = "credit"
          /\ \A s \in Threads : pc[s] = "credit" => call'[s] = call[s]
      BY <1>p, <1>1 DEF Invoke, Goto
    <2> QED
      BY <2>1, CommittedStable DEF bankVars, Abs!bankVars
  <1>2. ASSUME NEW t \in Threads,
               Acquire(t) \/ Refuse(t) \/ Admit(t) \/ ReadBalance(t) \/ Release(t)
        PROVE  UNCHANGED Abs!bankVars
    <2>1. /\ UNCHANGED bankVars /\ call' = call
          /\ \A s \in Threads : pc'[s] = "credit" <=> pc[s] = "credit"
      BY <1>p, <1>2 DEF Acquire, Refuse, Admit, ReadBalance, Release, Goto
    <2> QED
      BY <2>1, CommittedStable DEF bankVars, Abs!bankVars
  <1>3. ASSUME NEW t \in Threads, SetFlag(t)
        PROVE  Abs!BankNext
    <2> DEFINE i == call[t].id
    <2>1. /\ Committed = balance /\ Committed' = balance
          /\ UNCHANGED cash
          /\ Passes(call[t])
      BY <1>p, <1>3, UpdateAlone DEF SetFlag, Goto, ChecksStillHold
    <2>2. CASE call[t].op = "login"
      <3>1. CanLogin(i, call[t].pin)
        BY <2>1, <2>2 DEF Passes
      <3>2. loggedin' = [loggedin EXCEPT ![AccountOf[i]] = TRUE]
        BY <1>3, <2>2 DEF SetFlag
      <3>3. i \in Accounts /\ Abs!Login(i, Pin[AccountOf[i]])
        BY <2>1, <3>1, <3>2 DEF CanLogin, Abs!Login, Abs!CanLogin, Accounts, Abs!Accounts
      <3> QED
        BY <3>3 DEF Abs!BankNext, Accounts, Abs!Accounts
    <2>3. CASE call[t].op = "logout"
      <3>1. CanLogout(i)
        BY <2>1, <2>3 DEF Passes
      <3>2. loggedin' = [loggedin EXCEPT ![AccountOf[i]] = FALSE]
        BY <1>3, <2>3 DEF SetFlag
      <3>3. i \in Accounts /\ Abs!Logout(i)
        BY <2>1, <3>1, <3>2
           DEF CanLogout, IsLoggedIn, Abs!Logout, Abs!CanLogout, Abs!IsLoggedIn, Accounts, Abs!Accounts
      <3> QED
        BY <3>3 DEF Abs!BankNext, Accounts, Abs!Accounts
    <2> QED
      BY <1>3, <2>2, <2>3 DEF SetFlag
  <1>4. ASSUME NEW t \in Threads, PayIn(t)
        PROVE  Abs!BankNext
    <2> DEFINE u == call[t].user
               a == call[t].amount
    <2>1. /\ Committed = balance /\ Committed' = balance'
          /\ Passes(call[t])
      BY <1>p, <1>4, UpdateAlone DEF PayIn, Goto, ChecksStillHold
    <2>2. /\ call[t].op = "deposit" /\ UNCHANGED loggedin
          /\ balance' = AddMoney(balance, u, a)
          /\ cash' = cash + a
      BY <1>4 DEF PayIn
    <2>3. CanDeposit(u, a)
      BY <2>1, <2>2 DEF Passes
    <2>4. u \in Users /\ Abs!Deposit(u, a)
      BY <2>1, <2>2, <2>3 DEF CanDeposit, HasRoom, LLong, AddMoney, Abs!Deposit, Abs!CanDeposit, Abs!HasRoom,
         Abs!LLong, Abs!AddMoney
    <2>5. a \in Amounts
      BY <1>c, <2>2
    <2> QED
      BY <2>4, <2>5 DEF Abs!BankNext
  <1>5. ASSUME NEW t \in Threads, PayOut(t)
        PROVE  Abs!BankNext
    <2> DEFINE i == call[t].id
               a == call[t].amount
    <2>1. /\ Committed = balance /\ Committed' = balance'
          /\ Passes(call[t])
      BY <1>p, <1>5, UpdateAlone DEF PayOut, Goto, ChecksStillHold
    <2>2. /\ call[t].op = "withdraw" /\ UNCHANGED loggedin
          /\ balance' = RemoveMoney(balance, AccountOf[i], a)
          /\ cash' = cash - a
      BY <1>5 DEF PayOut
    <2>3. CanWithdraw(i, a)
      BY <2>1, <2>2 DEF Passes
    <2>4. i \in Accounts /\ Abs!Withdraw(i, a)
      BY <2>1, <2>2, <2>3 DEF CanWithdraw, IsLoggedIn, LLong, RemoveMoney, Accounts, Abs!Withdraw,
         Abs!CanWithdraw, Abs!IsLoggedIn, Abs!LLong, Abs!RemoveMoney, Abs!Accounts
    <2>5. a \in Amounts
      BY <1>c, <2>2
    <2> QED
      BY <2>4, <2>5 DEF Abs!BankNext, Accounts, Abs!Accounts
  <1>6. ASSUME NEW t \in Threads, Debit(t)
        PROVE  Abs!BankNext
    <2> DEFINE i == call[t].id
               u == call[t].user
               a == call[t].amount
    <2>1. /\ call[t].op = "transfer" /\ UNCHANGED <<loggedin, cash, call>>
          /\ balance' = RemoveMoney(balance, AccountOf[i], a)
          /\ pc[t] = "act" /\ pc' = [pc EXCEPT ![t] = "credit"]
      BY <1>6 DEF Debit, Goto
    <2>2. CanTransfer(i, u, a)
      BY <1>p, <2>1 DEF ChecksStillHold, Passes
    <2>3. \A s \in Threads \ {t} : pc[s] # "credit" /\ pc'[s] # "credit"
      BY <1>p, <2>1, OneInside DEF Inside
    <2>4. Committed = balance
      BY <2>1, <2>3, CommittedSettled
    <2>5. Committed' = AddMoney(balance', u, a)
      BY <1>p, <2>1, <2>3, CommittedHalfDoneNext
    <2>6. i \in Accounts /\ u \in Users /\ Abs!CanTransfer(i, u, a)
      BY <2>2, <2>4 DEF CanTransfer, IsLoggedIn, HasRoom, LLong, Accounts, Abs!CanTransfer, Abs!IsLoggedIn,
         Abs!HasRoom, Abs!LLong, Abs!Accounts
    <2>7. Committed' = Abs!AddMoney(Abs!RemoveMoney(Committed, AccountOf[i], a), u, a)
      BY <2>1, <2>4, <2>5 DEF AddMoney, RemoveMoney, LLong, Abs!AddMoney, Abs!RemoveMoney, Abs!LLong
    <2>8. Abs!Transfer(i, u, a)
      BY <2>1, <2>6, <2>7 DEF Abs!Transfer
    <2>9. a \in Amounts
      BY <1>c, <2>1
    <2> QED
      BY <2>6, <2>8, <2>9 DEF Abs!BankNext, Accounts, Abs!Accounts
  <1>7. ASSUME NEW t \in Threads, Credit(t)
        PROVE  UNCHANGED Abs!bankVars
    <2>1. /\ UNCHANGED <<loggedin, cash>>
          /\ balance' = AddMoney(balance, call[t].user, call[t].amount)
          /\ pc[t] = "credit" /\ pc' = [pc EXCEPT ![t] = "unlock"]
      BY <1>7 DEF Credit, Goto
    <2>2. \A s \in Threads \ {t} : pc[s] # "credit" /\ pc'[s] # "credit"
      BY <1>p, <2>1, OneInside DEF Inside
    <2>3. Committed = AddMoney(balance, call[t].user, call[t].amount)
      BY <2>1, <2>2, CommittedHalfDone
    <2>4. Committed' = balance'
      BY <1>p, <2>1, <2>2, CommittedSettledNext
    <2> QED
      BY <2>1, <2>3, <2>4 DEF Abs!bankVars
  <1>8. CASE UNCHANGED mutexVars
    <2>1. UNCHANGED <<balance, loggedin, cash, pc, call>>
      BY <1>8 DEF mutexVars, threadVars, bankVars
    <2> QED
      BY <2>1, CommittedStable DEF Abs!bankVars
  <1> QED
    BY <1>1, <1>2, <1>3, <1>4, <1>5, <1>6, <1>7, <1>8 DEF MutexNext

\* bank_object.h is linearizable: any number of threads calling its operations, in
\* any interleaving of their locks, checks and updates, show the behaviour of the
\* atomic Bank.
THEOREM MutexImplementsBank == MutexSpec => ImplementsBank
  <1>1. MutexInit => Abs!BankInit
    <2>1. MutexInit => \A s \in Threads : pc[s] # "credit"
      BY DEF MutexInit
    <2> QED
      BY <2>1, CommittedSettled DEF MutexInit, BankInit, Abs!BankInit
  <1> QED
    BY <1>1, AbsStep, MutexInvHolds, PTL DEF MutexSpec, ImplementsBank, Abs!BankSpec

-----------------------------------------------------------------------------
(* Current reads *)

LEMMA ReadsNext ==
    MutexInv /\ ReadsAreCurrent /\ [MutexNext]_mutexVars => ReadsAreCurrent'
  <1> SUFFICES ASSUME MutexInv, ReadsAreCurrent, [MutexNext]_mutexVars
               PROVE  ReadsAreCurrent'
    OBVIOUS
  <1>p. /\ pc \in [Threads -> Steps] /\ LockHeldInsideOnly /\ DOMAIN call = Threads
        /\ ret \in [Threads -> BOOLEAN] /\ DOMAIN seen = Threads
    BY DEF MutexInv, MutexTypes
  <1>x. ASSUME NEW t \in Threads, Inside(t)
        PROVE  \A s \in Threads \ {t} : pc[s] # "unlock"
    BY <1>p, <1>x, OneInside DEF Inside
  <1>1. ASSUME NEW t \in Threads, NEW c \in Calls[t], Invoke(t, c)
        PROVE  ReadsAreCurrent'
    <2>p. /\ pc[t] = "idle" /\ pc'[t] = "lock" /\ balance' = balance
          /\ \A s \in Threads \ {t} :
                 pc'[s] = pc[s] /\ call'[s] = call[s] /\ ret'[s] = ret[s] /\ seen'[s] = seen[s]
      BY <1>p, <1>1 DEF Invoke, Goto, bankVars
    <2>1. /\ balance' = balance
          /\ \A s \in Threads : pc'[s] \in {"credit", "unlock"} <=> pc[s] \in {"credit", "unlock"}
          /\ \A s \in Threads : pc[s] \in {"credit", "unlock"} =>
                 pc'[s] = pc[s] /\ call'[s] = call[s] /\ ret'[s] = ret[s] /\ seen'[s] = seen[s]
      BY <2>p
    <2>2. Committed' = Committed
      BY <2>1, CommittedStable
    <2> QED
      BY <2>1, <2>2 DEF ReadsAreCurrent
  <1>2. ASSUME NEW t \in Threads, Acquire(t)
        PROVE  ReadsAreCurrent'
    <2>1. \A s \in Threads : pc[s] # "unlock"
      BY <1>p, <1>2, MutexAssumption DEF Acquire, LockHeldInsideOnly
    <2> QED
      BY <1>p, <1>2, <2>1 DEF Acquire, Goto, ReadsAreCurrent
  <1>3. ASSUME NEW t \in Threads, Refuse(t) \/ Admit(t) \/ Release(t) \/ Debit(t)
        PROVE  ReadsAreCurrent'
    <2>1. \A s \in Threads \ {t} : pc[s] # "unlock"
      BY <1>x, <1>3 DEF Inside, Refuse, Admit, Release, Debit
    <2>2. /\ pc' \in [Threads -> Steps] /\ \A s \in Threads \ {t} : pc'[s] = pc[s]
          /\ pc'[t] = "unlock" => ~ret'[t]
      BY <1>p, <1>3 DEF Refuse, Admit, Release, Debit, Goto, Steps
    <2> QED
      BY <2>1, <2>2 DEF ReadsAreCurrent
  <1>4. ASSUME NEW t \in Threads, SetFlag(t) \/ PayIn(t) \/ PayOut(t) \/ Credit(t)
        PROVE  ReadsAreCurrent'
    <2>1. \A s \in Threads \ {t} : pc[s] # "unlock"
      BY <1>x, <1>4 DEF Inside, SetFlag, PayIn, PayOut, Credit
    <2>2. /\ \A s \in Threads \ {t} : pc'[s] = pc[s]
          /\ call' = call
          /\ call[t].op \notin {"balance", "adminBalance"}
      BY <1>p, <1>4 DEF MutexInv, CreditIsTransfer, SetFlag, PayIn, PayOut, Credit, Goto
    <2> QED
      BY <2>1, <2>2 DEF ReadsAreCurrent
  <1>5. ASSUME NEW t \in Threads, ReadBalance(t)
        PROVE  ReadsAreCurrent'
    <2>1. \A s \in Threads \ {t} : pc[s] # "unlock"
      BY <1>x, <1>5 DEF Inside, ReadBalance
    <2>2. /\ \A s \in Threads \ {t} : pc'[s] = pc[s]
          /\ call' = call
          /\ call[t].op = "balance" => seen'[t] = balance[AccountOf[call[t].id]]
          /\ call[t].op = "adminBalance" => seen'[t] = balance[call[t].user]
      BY <1>p, <1>5 DEF ReadBalance, Goto
    <2>3. Committed' = balance
      BY <1>5, UpdateAlone DEF ReadBalance, Goto, bankVars
    <2> QED
      BY <2>1, <2>2, <2>3 DEF ReadsAreCurrent
  <1>6. CASE UNCHANGED mutexVars
    <2>1. UNCHANGED <<balance, pc, call, ret, seen>>
      BY <1>6 DEF mutexVars, threadVars, bankVars
    <2>2. Committed' = Committed
      BY <2>1, CommittedStable
    <2> QED
      BY <2>1, <2>2 DEF ReadsAreCurrent
  <1> QED
    BY <1>1, <1>2, <1>3, <1>4, <1>5, <1>6 DEF MutexNext

\* A balance that balance or adminBalance returns is the account's balance in the
\* atomic Bank at that moment, however many transfers are called concurrently.
THEOREM ReadsCorrect == MutexSpec => []ReadsAreCurrent
  <1>1. MutexInit => ReadsAreCurrent
    BY DEF MutexInit, ReadsAreCurrent
  <1> QED
    BY <1>1, ReadsNext, MutexInvHolds, PTL DEF MutexSpec

-----------------------------------------------------------------------------
(* Types *)

\* One addition or removal of a legal amount leaves every balance a long long.
LEMMA MoneyTyped ==
    ASSUME NEW b \in [Users -> LongLong], NEW u, NEW a \in Amounts
    PROVE  /\ AddMoney(b, u, a) \in [Users -> LongLong]
           /\ RemoveMoney(b, u, a) \in [Users -> LongLong]
  <1>1. a \in 0..MaxBalance /\ MaxBalance \in Nat
    BY BankAssumption
  <1>2. \A n \in LongLong : LLong(n + a) \in LongLong /\ LLong(n - a) \in LongLong
    BY <1>1 DEF LongLong, LLong
  <1> HIDE DEF LongLong, LLong
  <1> QED
    BY <1>2 DEF AddMoney, RemoveMoney

LEMMA BankTypesNext ==
    MutexInv /\ MutexTypeOK /\ [MutexNext]_mutexVars => MutexTypeOK'
  <1> SUFFICES ASSUME MutexInv, MutexTypeOK, [MutexNext]_mutexVars
               PROVE  MutexTypeOK'
    OBVIOUS
  <1>t. MutexTypes'
    BY TypesNext DEF MutexInv
  <1>p. /\ balance \in [Users -> LongLong] /\ loggedin \in [Users -> BOOLEAN] /\ cash \in Int
        /\ seen \in [Threads -> LongLong]
    BY DEF MutexTypeOK, BankTypeOK
  <1>a. ASSUME NEW t \in Threads, call[t].op \in {"withdraw", "transfer", "deposit"}
        PROVE  call[t].amount \in Amounts /\ call[t].amount \in Int
    <2>1. call[t] \in Calls[t]
      BY DEF MutexInv, MutexTypes
    <2>2. call[t].amount \in Amounts
      BY <1>a, <2>1, MutexAssumption
    <2>3. \A a \in Amounts : a \in Int
      BY BankAssumption
    <2> QED
      BY <2>2, <2>3
  <1>z. 0 \in LongLong
    BY BankAssumption DEF LongLong
  <1> SUFFICES /\ balance' \in [Users -> LongLong] /\ loggedin' \in [Users -> BOOLEAN]
               /\ cash' \in Int /\ seen' \in [Threads -> LongLong]
    BY <1>t DEF MutexTypeOK, BankTypeOK, MutexTypes
  <1>1. ASSUME NEW t \in Threads, NEW c \in Calls[t], Invoke(t, c)
        PROVE  UNCHANGED bankVars /\ seen' \in [Threads -> LongLong]
    BY <1>1, <1>p, <1>z DEF Invoke
  <1>2. ASSUME NEW t \in Threads, Acquire(t) \/ Refuse(t) \/ Admit(t) \/ Release(t)
        PROVE  UNCHANGED <<bankVars, seen>>
    BY <1>2 DEF Acquire, Refuse, Admit, Release
  <1>3. ASSUME NEW t \in Threads, SetFlag(t)
        PROVE  /\ loggedin' \in [Users -> BOOLEAN]
               /\ UNCHANGED <<balance, cash, seen>>
    <2>1. (call[t].op = "login") \in BOOLEAN
      OBVIOUS
    <2> QED
      BY <1>3, <1>p, <2>1 DEF SetFlag
  <1>4. ASSUME NEW t \in Threads, ReadBalance(t)
        PROVE  UNCHANGED bankVars /\ seen' \in [Threads -> LongLong]
    <2>1. Passes(call[t])
      BY <1>4 DEF ReadBalance, MutexInv, ChecksStillHold
    <2>2. CASE call[t].op = "balance"
      <3>1. AccountOf[call[t].id] \in Users
        BY <2>1, <2>2, BankAssumption DEF Passes, CanBalance, IsLoggedIn
      <3> QED
        BY <1>4, <1>p, <2>2, <3>1 DEF ReadBalance
    <2>3. CASE call[t].op = "adminBalance"
      <3>1. call[t].user \in Users
        BY <2>1, <2>3 DEF Passes
      <3> QED
        BY <1>4, <1>p, <2>3, <3>1 DEF ReadBalance
    <2> QED
      BY <1>4, <2>2, <2>3 DEF ReadBalance
  <1>5. ASSUME NEW t \in Threads, PayIn(t) \/ PayOut(t) \/ Debit(t) \/ Credit(t)
        PROVE  /\ balance' \in [Users -> LongLong] /\ cash' \in Int
               /\ UNCHANGED <<loggedin, seen>>
    <2>1. call[t].op \in {"withdraw", "transfer", "deposit"}
      BY <1>5 DEF PayIn, PayOut, Debit, Credit, MutexInv, CreditIsTransfer
    <2>2. /\ AddMoney(balance, call[t].user, call[t].amount) \in [Users -> LongLong]
          /\ RemoveMoney(balance, AccountOf[call[t].id], call[t].amount) \in [Users -> LongLong]
      BY <1>a, <1>p, <2>1, MoneyTyped
    <2>3. cash + call[t].amount \in Int /\ cash - call[t].amount \in Int
      BY <1>a, <1>p, <2>1
    <2> QED
      BY <1>5, <1>p, <2>2, <2>3 DEF PayIn, PayOut, Debit, Credit
  <1>6. CASE UNCHANGED mutexVars
    BY <1>6, <1>p DEF mutexVars, threadVars, bankVars
  <1> QED
    BY <1>1, <1>2, <1>3, <1>4, <1>5, <1>6, <1>p DEF MutexNext, bankVars

\* The variables of the opened critical sections keep their types: no half of a
\* transfer, and no interleaving, leaves a balance that is no long long.
THEOREM MutexTypeCorrect == MutexSpec => []MutexTypeOK
  <1>1. MutexInit => MutexTypeOK
    <2>1. ASSUME MutexInit
          PROVE  BankTypeOK /\ seen \in [Threads -> LongLong]
      BY <2>1, BankAssumption DEF MutexInit, BankInit, BankTypeOK, LongLong
    <2> QED
      BY <2>1, MutexInit0 DEF MutexInv, MutexTypes, MutexTypeOK
  <1> QED
    BY <1>1, BankTypesNext, MutexInvHolds, PTL DEF MutexSpec
=============================================================================
