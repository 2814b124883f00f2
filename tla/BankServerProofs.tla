-------------------------- MODULE BankServerProofs --------------------------
(***************************************************************************)
(* Theorems about the Bank object and the bank process around it.  The     *)
(* balances stay within 0..LLONG_MAX, they add up to what the bank owes,   *)
(* and money leaves an account only with its user logged in.  The          *)
(* inductive invariant is that range: it makes every long long sum and     *)
(* difference of bank_object.h exact, which in turn keeps the range.       *)
(*                                                                         *)
(* The process's sessions and command line make only steps of the Bank, so *)
(* this holds of it too.  A session acts on, and debits, only an account   *)
(* whose pin its own ATM gave; it stays alone in charge of its user until  *)
(* it ends or a stale id logs the user out; and as long as nobody          *)
(* withdraws and no connection breaks other than by an orderly close,      *)
(* every login is backed by a session.                                     *)
(***************************************************************************)
EXTENDS BankServer, MathFacts

-----------------------------------------------------------------------------
(* The Bank object *)

BankInv ==
    /\ balance \in [Users -> 0..MaxBalance]
    /\ loggedin \in [Users -> BOOLEAN]
    /\ cash \in Int

-----------------------------------------------------------------------------

\* A result in 0..LLONG_MAX is not changed by the width of a long long.
LEMMA ExactLLong ==
    ASSUME NEW n \in 0..MaxBalance
    PROVE  LLong(n) = n
  BY BankAssumption DEF LLong

\* With a balance in range, the room check is exact: it passes just when the new
\* balance is in range too.
LEMMA RoomIsExact ==
    ASSUME NEW u \in Users, NEW a \in Nat, balance[u] \in 0..MaxBalance
    PROVE  HasRoom(u, a) <=> balance[u] + a \in 0..MaxBalance
  <1>1. MaxBalance - balance[u] \in 0..MaxBalance
    BY BankAssumption
  <1>2. LLong(MaxBalance - balance[u]) = MaxBalance - balance[u]
    BY <1>1, ExactLLong
  <1> QED
    BY <1>2, BankAssumption DEF HasRoom

\* addMoney and removeMoney, when the result is in range, change one balance by
\* exactly the amount.
LEMMA AddMoneyExact ==
    ASSUME NEW b \in [Users -> 0..MaxBalance], NEW u \in Users, NEW a \in Nat,
           b[u] + a \in 0..MaxBalance
    PROVE  AddMoney(b, u, a) = [b EXCEPT ![u] = b[u] + a]
  BY ExactLLong DEF AddMoney

LEMMA RemoveMoneyExact ==
    ASSUME NEW b \in [Users -> 0..MaxBalance], NEW u \in Users, NEW a \in Nat,
           b[u] - a \in 0..MaxBalance
    PROVE  RemoveMoney(b, u, a) = [b EXCEPT ![u] = b[u] - a]
  BY ExactLLong DEF RemoveMoney

\* What a permitted transfer does to the balances.  Paying oneself is the case
\* in which the two updates meet.
LEMMA TransferEffect ==
    ASSUME BankInv, NEW i \in Accounts, NEW v \in Users, NEW a \in Amounts,
           Transfer(i, v, a)
    PROVE  LET u == AccountOf[i]
               d == [balance EXCEPT ![u] = balance[u] - a]
           IN  /\ u \in Users /\ loggedin[u]
               /\ d \in [Users -> 0..MaxBalance]
               /\ d[v] + a \in 0..MaxBalance
               /\ balance' = [d EXCEPT ![v] = d[v] + a]
  <1> DEFINE u == AccountOf[i]
             d == [balance EXCEPT ![u] = balance[u] - a]
  <1>1. u \in Users /\ a \in Nat /\ a <= MaxBalance
    BY BankAssumption
  <1>2. loggedin[u] /\ a <= balance[u] /\ a > 0 /\ HasRoom(v, a)
    BY <1>1 DEF Transfer, CanTransfer, IsLoggedIn, BankInv
  <1>3. balance[u] - a \in 0..MaxBalance
    BY <1>1, <1>2, BankAssumption DEF BankInv
  <1>4. d \in [Users -> 0..MaxBalance]
    BY <1>3 DEF BankInv
  <1>5. balance[v] + a \in 0..MaxBalance
    BY <1>1, <1>2, RoomIsExact DEF BankInv
  <1>6. d[v] + a \in 0..MaxBalance
    <2>1. CASE v = u
      BY <2>1, <1>1, <1>3, BankAssumption DEF BankInv
    <2>2. CASE v # u
      BY <2>2, <1>5 DEF BankInv
    <2> QED
      BY <2>1, <2>2
  <1>7. RemoveMoney(balance, u, a) = d
    <2>1. balance \in [Users -> 0..MaxBalance]
      BY DEF BankInv
    <2> HIDE DEF u
    <2> QED
      BY <1>1, <1>3, <2>1, RemoveMoneyExact
  <1>8. AddMoney(d, v, a) = [d EXCEPT ![v] = d[v] + a]
    <2> HIDE DEF d
    <2> QED
      BY <1>1, <1>4, <1>6, AddMoneyExact
  <1>9. balance' = AddMoney(RemoveMoney(balance, u, a), v, a)
    BY DEF Transfer
  <1> QED
    BY <1>1, <1>2, <1>4, <1>6, <1>7, <1>8, <1>9

-----------------------------------------------------------------------------

LEMMA InitInv == BankInit => BankInv
  BY BankAssumption DEF BankInit, BankInv

LEMMA NextInv == BankInv /\ [BankNext]_bankVars => BankInv'
  <1> SUFFICES ASSUME BankInv, [BankNext]_bankVars
               PROVE  BankInv'
    OBVIOUS
  <1> USE DEF BankInv
  <1>1. ASSUME NEW i \in Accounts, NEW p, Login(i, p)
        PROVE  BankInv'
    BY <1>1, BankAssumption DEF Login
  <1>2. ASSUME NEW i \in Accounts, Logout(i)
        PROVE  BankInv'
    BY <1>2, BankAssumption DEF Logout
  <1>3. ASSUME NEW u \in Users, NEW a \in Amounts, Deposit(u, a)
        PROVE  BankInv'
    <2>1. a \in Nat /\ a \in Int
      BY BankAssumption
    <2>2. balance[u] + a \in 0..MaxBalance
      BY <1>3, <2>1, RoomIsExact DEF Deposit, CanDeposit
    <2>3. balance' = [balance EXCEPT ![u] = balance[u] + a]
      BY <1>3, <2>1, <2>2, AddMoneyExact DEF Deposit
    <2> QED
      BY <1>3, <2>1, <2>2, <2>3 DEF Deposit
  <1>4. ASSUME NEW i \in Accounts, NEW a \in Amounts, Withdraw(i, a)
        PROVE  BankInv'
    <2> DEFINE u == AccountOf[i]
    <2>1. u \in Users /\ a \in Nat /\ a \in Int
      BY BankAssumption
    <2>2. balance[u] - a \in 0..MaxBalance
      BY <1>4, <2>1, BankAssumption DEF Withdraw, CanWithdraw
    <2>3. balance' = RemoveMoney(balance, u, a)
      BY <1>4 DEF Withdraw
    <2> HIDE DEF u
    <2>4. balance' = [balance EXCEPT ![u] = balance[u] - a]
      BY <2>1, <2>2, <2>3, RemoveMoneyExact
    <2> QED
      BY <1>4, <2>1, <2>2, <2>4 DEF Withdraw
  <1>5. ASSUME NEW i \in Accounts, NEW v \in Users, NEW a \in Amounts, Transfer(i, v, a)
        PROVE  BankInv'
    <2> DEFINE d == [balance EXCEPT ![AccountOf[i]] = balance[AccountOf[i]] - a]
    <2>1. /\ d \in [Users -> 0..MaxBalance]
          /\ d[v] + a \in 0..MaxBalance
          /\ balance' = [d EXCEPT ![v] = d[v] + a]
      BY <1>5, TransferEffect
    <2>2. UNCHANGED <<loggedin, cash>>
      BY <1>5 DEF Transfer
    <2> HIDE DEF d
    <2> QED
      BY <2>1, <2>2
  <1>6. CASE UNCHANGED bankVars
    BY <1>6 DEF bankVars
  <1> QED
    BY <1>1, <1>2, <1>3, <1>4, <1>5, <1>6 DEF BankNext

\* Every behaviour of the Bank stays in the range of the inductive invariant.
THEOREM InvHolds == BankSpec => []BankInv
  BY InitInv, NextInv, PTL DEF BankSpec

\* The variables of the Bank keep their types.
THEOREM TypeCorrect == BankSpec => []BankTypeOK
  <1>1. BankInv => BankTypeOK
    BY BankAssumption DEF BankInv, BankTypeOK, LongLong
  <1> QED
    BY <1>1, InvHolds, PTL

\* No sequence of operations of bank_object.h, with whatever amounts, users and
\* opening balances, makes a balance negative: none overdraws, none overflows.
THEOREM NeverNegative == BankSpec => []BalancesNonNegative
  <1>1. BankInv => BalancesNonNegative
    BY BankAssumption DEF BankInv, BalancesNonNegative
  <1> QED
    BY <1>1, InvHolds, PTL

-----------------------------------------------------------------------------

DebitAllowed ==
    \A u \in Users : balance'[u] < balance[u] =>
        /\ loggedin[u]
        /\ cash' = cash => \E v \in Users \ {u} :
               balance'[u] + balance'[v] = balance[u] + balance[v]

LEMMA StepDebits == BankInv /\ [BankNext]_bankVars => [DebitAllowed]_bankVars
  <1> SUFFICES ASSUME BankInv, BankNext
               PROVE  DebitAllowed
    OBVIOUS
  <1> SUFFICES ASSUME NEW u \in Users, balance'[u] < balance[u]
               PROVE  /\ loggedin[u]
                      /\ cash' = cash => \E v \in Users \ {u} :
                             balance'[u] + balance'[v] = balance[u] + balance[v]
    BY DEF DebitAllowed
  <1> USE DEF BankInv
  <1>1. ASSUME NEW i \in Accounts, NEW p, Login(i, p) \/ Logout(i)
        PROVE  FALSE
    BY <1>1 DEF Login, Logout
  <1>2. ASSUME NEW w \in Users, NEW a \in Amounts, Deposit(w, a)
        PROVE  FALSE
    <2>1. a \in Nat
      BY BankAssumption
    <2>2. balance[w] + a \in 0..MaxBalance
      BY <1>2, <2>1, RoomIsExact DEF Deposit, CanDeposit
    <2>3. balance' = [balance EXCEPT ![w] = balance[w] + a]
      BY <1>2, <2>1, <2>2, AddMoneyExact DEF Deposit
    <2> QED
      BY <2>1, <2>3
  <1>3. ASSUME NEW i \in Accounts, NEW a \in Amounts, Withdraw(i, a)
        PROVE  loggedin[u] /\ cash' # cash
    <2> DEFINE w == AccountOf[i]
    <2>1. w \in Users /\ loggedin[w] /\ a \in Nat /\ a > 0 /\ a <= balance[w]
      BY <1>3, BankAssumption DEF Withdraw, CanWithdraw, IsLoggedIn
    <2>2. cash' = cash - a
      BY <1>3 DEF Withdraw
    <2>3. balance' = RemoveMoney(balance, w, a)
      BY <1>3 DEF Withdraw
    <2>4. w = u
      BY <2>3 DEF RemoveMoney
    <2> HIDE DEF w
    <2> QED
      BY <2>1, <2>2, <2>4
  <1>4. ASSUME NEW i \in Accounts, NEW v \in Users, NEW a \in Amounts, Transfer(i, v, a)
        PROVE  /\ loggedin[u]
               /\ v # u
               /\ balance'[u] + balance'[v] = balance[u] + balance[v]
    <2> DEFINE w == AccountOf[i]
               d == [balance EXCEPT ![w] = balance[w] - a]
    <2>1. /\ w \in Users /\ loggedin[w]
          /\ d[v] + a \in 0..MaxBalance
          /\ balance' = [d EXCEPT ![v] = d[v] + a]
      BY <1>4, TransferEffect
    <2>2. a \in Nat
      BY BankAssumption
    <2>3. w = u /\ v # u
      BY <2>1, <2>2
    <2> QED
      BY <2>1, <2>2, <2>3
  <1> QED
    BY <1>1, <1>2, <1>3, <1>4 DEF BankNext

\* Whatever the users, amounts and order of operations, an account loses money
\* only while its user is logged in, and to one other account or in cash.
THEOREM DebitsOnlyWhenLoggedIn == BankSpec => DebitsNeedLogin
  BY StepDebits, InvHolds, PTL DEF BankSpec, DebitsNeedLogin, DebitAllowed

-----------------------------------------------------------------------------

\* Exact sums and differences change the sum of the balances by the amount.
LEMMA BalanceAdded ==
    ASSUME NEW b \in [Users -> 0..MaxBalance], NEW u \in Users, NEW d \in Int
    PROVE  /\ SumFunction(b) \in Int
           /\ SumFunction([b EXCEPT ![u] = b[u] + d]) = SumFunction(b) + d
  <1>1. b \in [Users -> Int]
    BY BankAssumption
  <1>2. IsFiniteSet(Users)
    BY BankAssumption
  <1> QED
    BY <1>1, <1>2, SumChange

\* The opening balances add up to a number.
LEMMA OpeningSum == SumFunction(Opening) \in Int
  <1>1. Opening \in [Users -> Int] /\ IsFiniteSet(Users)
    BY BankAssumption
  <1> QED
    BY <1>1, SumIsInteger

\* Every step keeps the sum of the balances equal to what the bank owes.
LEMMA StepConserves ==
    BankInv /\ MoneyConserved /\ [BankNext]_bankVars => MoneyConserved'
  <1> SUFFICES ASSUME BankInv, MoneyConserved, [BankNext]_bankVars
               PROVE  SumFunction(balance') = SumFunction(Opening) + cash'
    BY DEF MoneyConserved
  <1>1. balance \in [Users -> 0..MaxBalance] /\ cash \in Int
    BY DEF BankInv
  <1>2. SumFunction(Opening) \in Int
    BY OpeningSum
  <1>3. SumFunction(balance) = SumFunction(Opening) + cash
    BY DEF MoneyConserved
  <1>4. ASSUME NEW i \in Accounts, NEW p, Login(i, p) \/ Logout(i)
        PROVE  SumFunction(balance') = SumFunction(Opening) + cash'
    BY <1>3, <1>4 DEF Login, Logout
  <1>5. ASSUME NEW u \in Users, NEW a \in Amounts, Deposit(u, a)
        PROVE  SumFunction(balance') = SumFunction(Opening) + cash'
    <2>1. a \in Nat /\ a \in Int
      BY BankAssumption
    <2>2. balance[u] + a \in 0..MaxBalance
      BY <1>1, <1>5, <2>1, RoomIsExact DEF Deposit, CanDeposit
    <2>3. balance' = [balance EXCEPT ![u] = balance[u] + a]
      BY <1>1, <1>5, <2>1, <2>2, AddMoneyExact DEF Deposit
    <2>4. SumFunction(balance') = SumFunction(balance) + a
      BY <1>1, <2>1, <2>3, BalanceAdded
    <2>5. cash' = cash + a
      BY <1>5 DEF Deposit
    <2> QED
      BY <1>1, <1>2, <1>3, <2>1, <2>4, <2>5
  <1>6. ASSUME NEW i \in Accounts, NEW a \in Amounts, Withdraw(i, a)
        PROVE  SumFunction(balance') = SumFunction(Opening) + cash'
    <2> DEFINE u == AccountOf[i]
    <2>1. u \in Users /\ a \in Nat /\ a \in Int /\ -a \in Int
      BY BankAssumption
    <2>2. balance[u] - a \in 0..MaxBalance
      BY <1>1, <1>6, <2>1, BankAssumption DEF Withdraw, CanWithdraw
    <2>3. balance' = RemoveMoney(balance, u, a)
      BY <1>6 DEF Withdraw
    <2> HIDE DEF u
    <2>4. balance' = [balance EXCEPT ![u] = balance[u] - a]
      BY <1>1, <2>1, <2>2, <2>3, RemoveMoneyExact
    <2>5. balance[u] - a = balance[u] + (-a)
      BY <1>1, <2>1, BankAssumption
    <2>6. SumFunction(balance') = SumFunction(balance) + (-a)
      BY <1>1, <2>1, <2>4, <2>5, BalanceAdded
    <2>7. cash' = cash - a
      BY <1>6 DEF Withdraw
    <2> QED
      BY <1>1, <1>2, <1>3, <2>1, <2>6, <2>7
  <1>7. ASSUME NEW i \in Accounts, NEW v \in Users, NEW a \in Amounts, Transfer(i, v, a)
        PROVE  SumFunction(balance') = SumFunction(Opening) + cash'
    <2> DEFINE u == AccountOf[i]
               d == [balance EXCEPT ![u] = balance[u] - a]
    <2>1. a \in Int /\ -a \in Int
      BY BankAssumption
    <2>2. /\ u \in Users /\ d \in [Users -> 0..MaxBalance]
          /\ balance' = [d EXCEPT ![v] = d[v] + a]
      BY <1>7, TransferEffect
    <2>3. balance[u] - a = balance[u] + (-a)
      BY <1>1, <2>1, <2>2, BankAssumption
    <2>4. SumFunction(d) = SumFunction(balance) + (-a)
      <3> HIDE DEF u
      <3>1. d = [balance EXCEPT ![u] = balance[u] + (-a)]
        BY <2>3
      <3> QED
        BY <1>1, <2>1, <2>2, <3>1, BalanceAdded
    <2> HIDE DEF d
    <2>5. SumFunction(balance') = SumFunction(d) + a
      BY <2>1, <2>2, BalanceAdded
    <2>6. SumFunction(balance) \in Int
      BY <1>1, <1>2, <1>3
    <2>7. cash' = cash
      BY <1>7 DEF Transfer
    <2> QED
      BY <1>1, <1>2, <1>3, <2>1, <2>4, <2>5, <2>6, <2>7
  <1>8. CASE UNCHANGED bankVars
    BY <1>3, <1>8 DEF bankVars
  <1> QED
    BY <1>4, <1>5, <1>6, <1>7, <1>8 DEF BankNext

\* Whatever the users, their opening balances and the order of operations, transfers
\* neither make nor lose money: the balances add up to what they opened with plus the
\* cash taken in.
THEOREM MoneyIsConserved == BankSpec => []MoneyConserved
  <1>1. BankInit => MoneyConserved
    <2> SUFFICES ASSUME BankInit PROVE MoneyConserved
      OBVIOUS
    <2>1. SumFunction(Opening) \in Int
      BY OpeningSum
    <2> QED
      BY <2>1 DEF BankInit, MoneyConserved
  <1> QED
    BY <1>1, StepConserves, InvHolds, PTL DEF BankSpec

-----------------------------------------------------------------------------
(* The server's steps are the Bank's *)

LEMMA ProcessLogoutIsBankStep ==
    ASSUME NEW c \in Conns, ProcessLogout(c)
    PROVE  [BankNext]_bankVars
  <1>1. CASE UNCHANGED bankVars
    BY <1>1
  <1>2. CASE CanLogout(id[c]) /\ Logout(id[c])
    BY <1>2 DEF CanLogout, IsLoggedIn, BankNext
  <1> QED
    BY <1>1, <1>2 DEF ProcessLogout

LEMMA ServerStepIsBankStep == [ServerNext]_serverVars => [BankNext]_bankVars
  <1> SUFFICES ASSUME [ServerNext]_serverVars
               PROVE  [BankNext]_bankVars
    OBVIOUS
  <1>1. ASSUME NEW c \in Conns, AtmStep(c)
        PROVE  UNCHANGED bankVars
    BY <1>1 DEF AtmStep, Connect, Send, Disconnect, Reset, Vanish, Depart
  <1>2. ASSUME NEW c \in Conns, Accept(c) \/ HandshakeStep(c) \/ Crash(c)
        PROVE  UNCHANGED bankVars
    BY <1>2 DEF Accept, HandshakeStep, HandshakeDone, HandshakeFailed, Crash
  <1>3. ASSUME NEW c \in Conns, WriteStep(c) \/ ReadFailed(c)
        PROVE  UNCHANGED bankVars
    BY <1>3 DEF WriteStep, WriteDone, WriteFailed, ReadFailed
  <1>4. ASSUME NEW c \in Conns, NEW r \in Requests, ReadPin(c, r)
        PROVE  BankNext
    <2>1. Login(id[c], r.num) /\ id[c] \in Accounts /\ r.num = Pin[AccountOf[id[c]]]
      BY <1>4 DEF ReadPin, Login, CanLogin
    <2> QED
      BY <2>1 DEF BankNext
  <1>5. ASSUME NEW c \in Conns, NEW r \in Requests, ReadLogin(c, r) \/ ReadBalance(c, r)
        PROVE  UNCHANGED bankVars
    BY <1>5 DEF ReadLogin, ReadBalance
  <1>6. ASSUME NEW c \in Conns, NEW r \in Requests, ReadTransfer(c, r)
        PROVE  BankNext
    <2>1. /\ Transfer(id[c], r.to, r.amount)
          /\ id[c] \in Accounts /\ r.to \in Users /\ r.op = "transfer"
      BY <1>6 DEF ReadTransfer, AsksTransfer, CanTransfer, IsLoggedIn
    <2>2. r.amount \in Amounts
      BY <2>1, ServerAssumption
    <2> QED
      BY <2>1, <2>2 DEF BankNext
  <1>7. ASSUME NEW c \in Conns, NEW r \in Requests, ReadLogout(c, r)
        PROVE  BankNext
    BY <1>7 DEF ReadLogout, AsksLogout, CanLogout, IsLoggedIn, BankNext
  <1>8. ASSUME NEW c \in Conns, NEW r \in Requests, ReadRejected(c, r)
        PROVE  [BankNext]_bankVars
    BY <1>8, ProcessLogoutIsBankStep DEF ReadRejected
  <1>9. ASSUME NEW c \in Conns, ReadGarbled(c) \/ ReadEnd(c)
        PROVE  [BankNext]_bankVars
    BY <1>9, ProcessLogoutIsBankStep DEF ReadGarbled, ReadEnd
  <1>10. ASSUME AcceptError
         PROVE  UNCHANGED bankVars
    BY <1>10 DEF AcceptError
  <1>11. ASSUME CommandLine
         PROVE  BankNext
    BY <1>11 DEF CommandLine, BankNext
  <1>12. CASE UNCHANGED serverVars
    BY <1>12 DEF serverVars
  <1> QED
    BY <1>1, <1>2, <1>3, <1>4, <1>5, <1>6, <1>7, <1>8, <1>9, <1>10, <1>11, <1>12
       DEF ServerNext, ReadStep

\* The process changes its accounts by calls of bank_object.h alone: what holds of
\* every behaviour of the Bank holds of the process.
LEMMA ServerIsBank == ServerSpec => ImplementsBank
  <1>1. ServerInit => BankInit
    BY DEF ServerInit
  <1> QED
    BY <1>1, ServerStepIsBankStep, PTL DEF ServerSpec, BankSpec, ImplementsBank

-----------------------------------------------------------------------------
(* Sessions act on proven accounts *)

\* The two are inductive together: the pin step adds the id it proved, and needs
\* the types to know that the id is an account.
SessionInv == SessionTypeOK /\ ActsOnlyOnProvenAccounts

LEMMA SessionInit == ServerInit => SessionInv
  BY DEF ServerInit, SessionInv, SessionTypeOK, ActsOnlyOnProvenAccounts,
         ConnStates, PeerStates, StreamStates, Open

\* A connection whose slot is blank satisfies the invariant, whatever its state.
LEMMA BlankInv ==
    ASSUME SessionInv, NEW c \in Conns, Blank(c), NEW s \in ConnStates,
           conn' = Set(conn, c, s), peer' \in [Conns -> PeerStates], accepting' \in BOOLEAN
    PROVE  SessionInv'
  BY DEF SessionInv, SessionTypeOK, ActsOnlyOnProvenAccounts, Blank, Set, Open, StreamStates

LEMMA DestroyInv ==
    ASSUME SessionInv, NEW c \in Conns, Destroy(c)
    PROVE  SessionInv'
  <1>1. Blank(c) /\ conn' = Set(conn, c, "free") /\ "free" \in ConnStates
    BY DEF Destroy, ConnStates
  <1>2. peer' \in [Conns -> PeerStates] /\ accepting' \in BOOLEAN
    BY DEF Destroy, Set, SessionInv, SessionTypeOK, PeerStates
  <1> QED
    BY <1>1, <1>2, BlankInv

\* What decoding and answering a request leaves of the types.
LEMMA AnswerTypes ==
    ASSUME SessionTypeOK, NEW c \in Conns, NEW r, Decodes(c, r), Answer(c)
    PROVE  /\ conn[c] = "reading"
           /\ conn' = [conn EXCEPT ![c] = "writing"] /\ conn' \in [Conns -> ConnStates]
           /\ stream' \in [Conns -> StreamStates]
           /\ arrived' \in [Conns -> BOOLEAN]
           /\ accepting' \in BOOLEAN
           /\ peer' \in [Conns -> PeerStates]
  BY DEF SessionTypeOK, Decodes, Reads, Answer, Set, ConnStates, StreamStates

LEMMA SessionNext == SessionInv /\ [ServerNext]_serverVars => SessionInv'
  <1> SUFFICES ASSUME SessionInv, [ServerNext]_serverVars
               PROVE  SessionInv'
    OBVIOUS
  <1>t. SessionTypeOK /\ ActsOnlyOnProvenAccounts
    BY DEF SessionInv
  <1>1. ASSUME NEW c \in Conns, AtmStep(c)
        PROVE  SessionInv'
    BY <1>t, <1>1 DEF SessionInv, SessionTypeOK, ActsOnlyOnProvenAccounts, AtmStep, Connect, Send,
       Disconnect, Reset, Vanish, Depart, Set, Open, ConnStates, PeerStates, sessionVars
  <1>2. ASSUME NEW c \in Conns, Accept(c)
        PROVE  SessionInv'
    BY <1>t, <1>2 DEF SessionInv, SessionTypeOK, ActsOnlyOnProvenAccounts, Accept, Set, Open,
       ConnStates, sessionVars
  <1>3. ASSUME NEW c \in Conns, HandshakeDone(c)
        PROVE  SessionInv'
    <2>1. Blank(c) /\ conn' = Set(conn, c, "reading") /\ "reading" \in ConnStates
      BY <1>3 DEF HandshakeDone, ConnStates
    <2>2. peer' \in [Conns -> PeerStates] /\ accepting' \in BOOLEAN
      BY <1>t, <1>3 DEF HandshakeDone, SessionTypeOK
    <2> QED
      BY <2>1, <2>2, BlankInv
  <1>4. ASSUME NEW c \in Conns,
               HandshakeFailed(c) \/ ReadGarbled(c) \/ ReadEnd(c) \/ ReadFailed(c) \/ WriteFailed(c)
        PROVE  SessionInv'
    BY <1>4, DestroyInv DEF HandshakeFailed, ReadGarbled, ReadEnd, ReadFailed, WriteFailed
  <1>5. ASSUME NEW c \in Conns, NEW r \in Requests, ReadRejected(c, r)
        PROVE  SessionInv'
    BY <1>5, DestroyInv DEF ReadRejected
  <1>6. ASSUME NEW c \in Conns, NEW r \in Requests, ReadPin(c, r)
        PROVE  SessionInv'
    <2>1. /\ Decodes(c, r) /\ Answer(c)
          /\ id[c] \in Accounts
          /\ login' = [login EXCEPT ![c] = FALSE]
          /\ active' = [active EXCEPT ![c] = TRUE]
          /\ proved' = [proved EXCEPT ![c] = proved[c] \cup {id[c]}]
          /\ id' = id
      BY <1>6 DEF ReadPin, GivesPin, CanLogin, Set
    <2>2. SessionTypeOK'
      BY <1>t, <2>1, AnswerTypes DEF SessionTypeOK
    <2>3. ActsOnlyOnProvenAccounts'
      BY <1>t, <2>1, AnswerTypes DEF SessionTypeOK, ActsOnlyOnProvenAccounts, Open
    <2> QED
      BY <2>2, <2>3 DEF SessionInv
  <1>7. ASSUME NEW c \in Conns, NEW r \in Requests, ReadLogin(c, r)
        PROVE  SessionInv'
    <2>1. /\ Decodes(c, r) /\ Answer(c)
          /\ r.op \in {"login", "withdraw"}
          /\ id' = [id EXCEPT ![c] = r.num]
          /\ login' = [login EXCEPT ![c] = TRUE]
          /\ UNCHANGED <<active, proved>>
      BY <1>7 DEF ReadLogin, StartsLogin, StartsWithdraw, Set
    <2>2. r.num \in Nat
      BY <2>1, ServerAssumption
    <2>3. SessionTypeOK'
      BY <1>t, <2>1, <2>2, AnswerTypes DEF SessionTypeOK
    <2>4. ActsOnlyOnProvenAccounts'
      BY <1>t, <2>1, AnswerTypes DEF SessionTypeOK, ActsOnlyOnProvenAccounts, Open
    <2> QED
      BY <2>3, <2>4 DEF SessionInv
  <1>8. ASSUME NEW c \in Conns, NEW r \in Requests,
               ReadBalance(c, r) \/ ReadTransfer(c, r) \/ ReadLogout(c, r)
        PROVE  SessionInv'
    <2>1. /\ Decodes(c, r) /\ Answer(c)
          /\ active' = active \/ active' = [active EXCEPT ![c] = FALSE]
          /\ UNCHANGED <<id, login, proved>>
      BY <1>8 DEF ReadBalance, ReadTransfer, ReadLogout, Set
    <2>2. SessionTypeOK'
      BY <1>t, <2>1, AnswerTypes DEF SessionTypeOK
    <2>3. ActsOnlyOnProvenAccounts'
      BY <1>t, <2>1, AnswerTypes DEF SessionTypeOK, ActsOnlyOnProvenAccounts, Open
    <2> QED
      BY <2>2, <2>3 DEF SessionInv
  <1>9. ASSUME NEW c \in Conns, WriteDone(c)
        PROVE  SessionInv'
    BY <1>t, <1>9 DEF SessionInv, SessionTypeOK, ActsOnlyOnProvenAccounts, WriteDone, Set, Open,
       ConnStates, sessionVars
  <1>10. CASE AcceptError \/ CommandLine \/ UNCHANGED serverVars
    BY <1>t, <1>10 DEF SessionInv, SessionTypeOK, ActsOnlyOnProvenAccounts, AcceptError, CommandLine,
       serverVars, netVars, sessionVars, Open
  <1>11. ASSUME NEW c \in Conns, Crash(c)
         PROVE  SessionInv'
    BY <1>11 DEF SessionInv, SessionTypeOK, ActsOnlyOnProvenAccounts, Crash, Open, ConnStates,
       PeerStates, StreamStates
  <1> QED
    BY <1>1, <1>2, <1>3, <1>4, <1>5, <1>6, <1>7, <1>8, <1>9, <1>10, <1>11
       DEF ServerNext, ReadStep, WriteStep, HandshakeStep

\* Every behaviour of the bank process stays in the sessions' inductive invariant.
THEOREM SessionInvHolds == ServerSpec => []SessionInv
  BY SessionInit, SessionNext, PTL DEF ServerSpec

\* What is shown of every behaviour of the Bank holds of the bank process,
\* because its behaviours are behaviours of the Bank.
THEOREM BankInvHolds == ServerSpec => []BankInv
  BY ServerIsBank, InvHolds, PTL DEF ImplementsBank

\* Whatever its ATMs send, in whatever order, and whatever faults occur, the bank process
\* owes its users what they opened with plus the cash its command line took in.
THEOREM ServerConservesMoney == ServerSpec => []MoneyConserved
  BY ServerIsBank, MoneyIsConserved, PTL DEF ImplementsBank

\* The variables of the bank process keep their types.
THEOREM ServerTypeCorrect == ServerSpec => []ServerTypeOK
  <1>1. BankInv => BankTypeOK
    BY BankAssumption DEF BankInv, BankTypeOK, LongLong
  <1> QED
    BY <1>1, SessionInvHolds, BankInvHolds, PTL DEF ServerTypeOK, SessionInv

\* However many connections there are and whatever their ATMs send, a session out
\* of its login dialogue holds no id but one its own ATM gave the pin for.
THEOREM IdsAreProven == ServerSpec => []ActsOnlyOnProvenAccounts
  BY SessionInvHolds, PTL DEF SessionInv

-----------------------------------------------------------------------------
(* Debits are authenticated *)

DebitAuthenticated ==
    \A u \in Users : balance'[u] < balance[u] =>
        /\ loggedin[u]
        /\ \E c \in Conns : Handles(c) /\ ActsFor(c, u)

\* In the server a step that takes money from an account is a transfer asked for
\* by a session with that account: nothing in bank.cpp calls Bank::withdraw.
LEMMA DebitIsTransfer ==
    ASSUME BankInv, ServerNext, NEW u \in Users, balance'[u] < balance[u]
    PROVE  \E c \in Conns, r \in Requests : ReadTransfer(c, r) /\ AccountOf[id[c]] = u
  <1> SUFFICES ASSUME balance' # balance
               PROVE  \E c \in Conns, r \in Requests : ReadTransfer(c, r) /\ AccountOf[id[c]] = u
    BY DEF BankInv
  <1>1. ASSUME NEW c \in Conns, AtmStep(c) \/ Accept(c) \/ HandshakeStep(c) \/ Crash(c)
        PROVE  FALSE
    BY <1>1 DEF AtmStep, Connect, Send, Disconnect, Reset, Vanish, Depart, Accept, HandshakeStep,
       HandshakeDone, HandshakeFailed, Crash, bankVars
  <1>2. ASSUME NEW c \in Conns, ReadFailed(c) \/ WriteStep(c)
        PROVE  FALSE
    BY <1>2 DEF ReadFailed, WriteStep, WriteDone, WriteFailed, bankVars
  <1>3. ASSUME NEW c \in Conns, ReadGarbled(c) \/ ReadEnd(c)
        PROVE  FALSE
    BY <1>3 DEF ReadGarbled, ReadEnd, ProcessLogout, Logout, bankVars
  <1>4. ASSUME NEW c \in Conns, NEW r \in Requests,
               ReadPin(c, r) \/ ReadLogin(c, r) \/ ReadBalance(c, r) \/ ReadLogout(c, r)
                   \/ ReadRejected(c, r)
        PROVE  FALSE
    BY <1>4 DEF ReadPin, ReadLogin, ReadBalance, ReadLogout, ReadRejected, ProcessLogout, Login,
       Logout, bankVars
  <1>5. ASSUME NEW c \in Conns, NEW r \in Requests, ReadTransfer(c, r)
        PROVE  AccountOf[id[c]] = u
    <2> DEFINE w == AccountOf[id[c]]
               d == [balance EXCEPT ![w] = balance[w] - r.amount]
    <2>1. /\ Transfer(id[c], r.to, r.amount)
          /\ id[c] \in Accounts /\ r.to \in Users /\ r.op = "transfer"
      BY <1>5 DEF ReadTransfer, AsksTransfer, CanTransfer, IsLoggedIn
    <2>2. r.amount \in Amounts /\ r.amount \in Nat
      <3>1. r.amount \in Amounts
        BY <2>1, ServerAssumption
      <3>2. \A a \in Amounts : a \in Nat
        BY BankAssumption
      <3> QED
        BY <3>1, <3>2
    <2>3. /\ w \in Users
          /\ d[r.to] + r.amount \in 0..MaxBalance
          /\ balance' = [d EXCEPT ![r.to] = d[r.to] + r.amount]
      BY <2>1, <2>2, TransferEffect
    <2>4. balance \in [Users -> 0..MaxBalance] /\ balance'[u] < balance[u]
      BY DEF BankInv
    <2>5. ASSUME w # u
          PROVE  FALSE
      <3>1. d[u] = balance[u]
        BY <2>3, <2>4, <2>5
      <3> HIDE DEF d
      <3> QED
        BY <2>1, <2>2, <2>3, <2>4, <3>1
    <2> QED
      BY <2>5
  <1>6. ASSUME AcceptError
        PROVE  FALSE
    BY <1>6 DEF AcceptError, bankVars
  <1>7. ASSUME CommandLine
        PROVE  FALSE
    <2>1. PICK v \in Users, a \in Amounts : Deposit(v, a)
      BY <1>7 DEF CommandLine
    <2>2. a \in Nat
      BY BankAssumption
    <2>3. balance[v] + a \in 0..MaxBalance
      BY <2>1, <2>2, RoomIsExact DEF Deposit, CanDeposit, BankInv
    <2>4. balance' = [balance EXCEPT ![v] = balance[v] + a]
      BY <2>1, <2>2, <2>3, AddMoneyExact DEF Deposit, BankInv
    <2> QED
      BY <2>2, <2>4 DEF BankInv
  <1> QED
    BY <1>1, <1>2, <1>3, <1>4, <1>5, <1>6, <1>7 DEF ServerNext, ReadStep

\* A session that reads and answers a command acts for the user of its id.
LEMMA CommandActsFor ==
    ASSUME SessionInv, NEW c \in Conns, NEW r, Decodes(c, r), Answer(c), ~login[c], IsLoggedIn(id[c])
    PROVE  Handles(c) /\ ActsFor(c, AccountOf[id[c]])
  <1>1. conn[c] = "reading" /\ conn' = [conn EXCEPT ![c] = "writing"]
    BY AnswerTypes DEF SessionInv
  <1>2. Handles(c)
    BY <1>1 DEF Handles, SessionInv, SessionTypeOK
  <1>3. id[c] # 0
    BY BankAssumption DEF IsLoggedIn
  <1>4. id[c] \in proved[c]
    BY <1>1, <1>3 DEF SessionInv, ActsOnlyOnProvenAccounts, Open
  <1> QED
    BY <1>2, <1>4 DEF ActsFor

LEMMA StepAuthenticated ==
    SessionInv /\ BankInv /\ [ServerNext]_serverVars => [DebitAuthenticated]_serverVars
  <1> SUFFICES ASSUME SessionInv, BankInv, ServerNext, NEW u \in Users, balance'[u] < balance[u]
               PROVE  /\ loggedin[u]
                      /\ \E c \in Conns : Handles(c) /\ ActsFor(c, u)
    BY DEF DebitAuthenticated
  <1>1. PICK c \in Conns, r \in Requests : ReadTransfer(c, r) /\ AccountOf[id[c]] = u
    BY DebitIsTransfer
  <1>2. /\ Decodes(c, r) /\ Answer(c)
        /\ ~login[c] /\ IsLoggedIn(id[c]) /\ loggedin[u]
    BY <1>1 DEF ReadTransfer, AsksTransfer, CanTransfer, IsLoggedIn
  <1> QED
    BY <1>1, <1>2, CommandActsFor

\* In every behaviour of the bank process, an account loses money only to a request
\* of the connection whose own ATM gave the account's pin, and only while the bank
\* has the user logged in.
THEOREM DebitsAuthenticated == ServerSpec => DebitsAreAuthenticated
  BY StepAuthenticated, SessionInvHolds, BankInvHolds, PTL
     DEF ServerSpec, DebitsAreAuthenticated, DebitAuthenticated

-----------------------------------------------------------------------------
(* Who loses the session that logged him in *)

\* The step of LoginsKeepTheirSession, except of a crash, with which the process is over.
StaysBacked ==
    \A u \in Users : loggedin'[u] /\ ~(\E c \in Conns : Backs(c, u)') =>
        /\ loggedin[u]
        /\ \A c \in Conns : Backs(c, u) =>
              \/ peer[c] \in {"reset", "vanished"}
              \/ login'[c] /\ \E r \in Requests : r.op = "withdraw" /\ id'[c] = r.num

\* The end of a session with a logout takes nobody else's session.
LEMMA LogoutStaysBacked ==
    ASSUME SessionInv, BankInv, NEW c \in Conns, Destroy(c), ProcessLogout(c)
    PROVE  StaysBacked
  <1>t. SessionTypeOK /\ loggedin \in [Users -> BOOLEAN] /\ AccountOf \in [Accounts -> Users]
    BY BankAssumption DEF SessionInv, BankInv
  <1> SUFFICES ASSUME NEW u \in Users, loggedin'[u]
               PROVE  loggedin[u] /\ \A e \in Conns : Backs(e, u) => Backs(e, u)'
    BY DEF StaysBacked
  <1>1. loggedin[u]
    BY <1>t DEF ProcessLogout, CanLogout, IsLoggedIn, Logout, bankVars
  <1>2. ASSUME NEW e \in Conns, Backs(e, u)
        PROVE  Backs(e, u)'
    <2>1. e # c
      BY <1>t, <1>1, <1>2 DEF ProcessLogout, CanLogout, IsLoggedIn, Logout, Backs
    <2> QED
      BY <1>t, <1>2, <2>1 DEF Backs, Open, Destroy, Blank, Set, SessionTypeOK
  <1> QED
    BY <1>1, <1>2

LEMMA StepStaysBacked ==
    ASSUME SessionInv, BankInv, [ServerNext]_serverVars, \A c \in Conns : ~Crash(c)
    PROVE  StaysBacked
  <1>t. SessionTypeOK /\ loggedin \in [Users -> BOOLEAN] /\ AccountOf \in [Accounts -> Users]
    BY BankAssumption DEF SessionInv, BankInv
  <1>1. ASSUME NEW c \in Conns, AtmStep(c) \/ Accept(c) \/ WriteDone(c)
        PROVE  StaysBacked
    <2>1. /\ UNCHANGED <<bankVars, sessionVars>>
          /\ \A e \in Conns : e \in Open => e \in Open'
      BY <1>t, <1>1 DEF AtmStep, Connect, Send, Disconnect, Reset, Vanish, Depart, Accept, WriteDone,
         Set, Open, SessionTypeOK
    <2> QED
      BY <2>1 DEF StaysBacked, Backs, bankVars, sessionVars
  <1>2. ASSUME NEW c \in Conns, HandshakeStep(c)
        PROVE  StaysBacked
    <2>1. /\ conn[c] = "handshake" /\ Blank(c)
          /\ conn' = Set(conn, c, "reading") \/ conn' = Set(conn, c, "free")
          /\ loggedin' = loggedin
      BY <1>2 DEF HandshakeStep, HandshakeDone, HandshakeFailed, Destroy, bankVars
    <2>2. \A e \in Conns, u \in Users : Backs(e, u) => Backs(e, u)'
      BY <1>t, <2>1 DEF Backs, Open, Blank, Set, SessionTypeOK
    <2> QED
      BY <2>1, <2>2 DEF StaysBacked
  <1>3. ASSUME NEW c \in Conns, NEW r \in Requests, ReadRejected(c, r)
        PROVE  StaysBacked
    BY <1>3, LogoutStaysBacked DEF ReadRejected
  <1>4. ASSUME NEW c \in Conns, ReadGarbled(c) \/ ReadEnd(c)
        PROVE  StaysBacked
    BY <1>4, LogoutStaysBacked DEF ReadGarbled, ReadEnd
  <1>5. ASSUME NEW c \in Conns, ReadFailed(c) \/ WriteFailed(c)
        PROVE  StaysBacked
    <2>1. /\ peer[c] \in {"reset", "vanished"}
          /\ Destroy(c)
          /\ loggedin' = loggedin
      BY <1>5 DEF ReadFailed, WriteFailed, bankVars
    <2>2. \A e \in Conns \ {c}, u \in Users : Backs(e, u) => Backs(e, u)'
      BY <1>t, <2>1 DEF Backs, Open, Destroy, Blank, Set, SessionTypeOK
    <2> QED
      BY <2>1, <2>2 DEF StaysBacked
  <1>6. ASSUME NEW c \in Conns, NEW r \in Requests, ReadPin(c, r)
        PROVE  StaysBacked
    <2>1. /\ Decodes(c, r) /\ Answer(c) /\ login[c] /\ id[c] \in Accounts
          /\ loggedin' = [loggedin EXCEPT ![AccountOf[id[c]]] = TRUE]
          /\ login' = [login EXCEPT ![c] = FALSE]
          /\ active' = [active EXCEPT ![c] = TRUE]
          /\ id' = id
      BY <1>6 DEF ReadPin, GivesPin, CanLogin, Login, Set
    <2>2. conn[c] = "reading" /\ conn' = [conn EXCEPT ![c] = "writing"]
      BY <1>t, <2>1, AnswerTypes DEF Answer
    <2>3. ASSUME NEW u \in Users, u = AccountOf[id[c]]
          PROVE  Backs(c, u)'
      BY <1>t, <2>1, <2>2, <2>3 DEF Backs, Open, SessionTypeOK
    <2>4. ASSUME NEW u \in Users, NEW e \in Conns, Backs(e, u)
          PROVE  Backs(e, u)'
      <3>1. e # c
        BY <2>1, <2>4 DEF Backs
      <3> QED
        BY <1>t, <2>1, <2>2, <2>4, <3>1 DEF Backs, Open, SessionTypeOK
    <2>5. \A u \in Users : loggedin'[u] => loggedin[u] \/ u = AccountOf[id[c]]
      BY <1>t, <2>1
    <2>6. \A u \in Users : loggedin'[u] /\ ~(\E e \in Conns : Backs(e, u)') => loggedin[u]
      BY <2>3, <2>5
    <2> QED
      BY <2>4, <2>6 DEF StaysBacked
  <1>7. ASSUME NEW c \in Conns, NEW r \in Requests, ReadLogin(c, r)
        PROVE  StaysBacked
    <2>1. /\ Decodes(c, r) /\ Answer(c)
          /\ UNCHANGED <<loggedin, active>>
          /\ id' = [id EXCEPT ![c] = r.num] /\ login' = [login EXCEPT ![c] = TRUE]
          /\ ~active[c] \/ r.op = "withdraw"
      BY <1>7 DEF ReadLogin, StartsLogin, StartsWithdraw, bankVars, Set
    <2>2. conn[c] = "reading" /\ conn' = [conn EXCEPT ![c] = "writing"]
      BY <1>t, <2>1, AnswerTypes DEF Answer
    <2>3. \A e \in Conns \ {c}, u \in Users : Backs(e, u) => Backs(e, u)'
      BY <1>t, <2>1, <2>2 DEF Backs, Open, SessionTypeOK
    <2>4. \A u \in Users : Backs(c, u) => login'[c] /\ id'[c] = r.num /\ r.op = "withdraw"
      BY <1>t, <2>1 DEF Backs, SessionTypeOK
    <2> QED
      BY <2>1, <2>3, <2>4 DEF StaysBacked
  <1>8. ASSUME NEW c \in Conns, NEW r \in Requests, ReadBalance(c, r) \/ ReadTransfer(c, r)
        PROVE  StaysBacked
    <2>1. /\ Decodes(c, r) /\ Answer(c)
          /\ UNCHANGED <<loggedin, id, login, active>>
      BY <1>8 DEF ReadBalance, ReadTransfer, Transfer, bankVars
    <2>2. conn[c] = "reading" /\ conn' = [conn EXCEPT ![c] = "writing"]
      BY <1>t, <2>1, AnswerTypes DEF Answer
    <2>3. \A e \in Conns, u \in Users : Backs(e, u) => Backs(e, u)'
      BY <1>t, <2>1, <2>2 DEF Backs, Open, SessionTypeOK
    <2> QED
      BY <2>1, <2>3 DEF StaysBacked
  <1>9. ASSUME NEW c \in Conns, NEW r \in Requests, ReadLogout(c, r)
        PROVE  StaysBacked
    <2>1. /\ Decodes(c, r) /\ Answer(c) /\ id[c] \in Accounts
          /\ loggedin' = [loggedin EXCEPT ![AccountOf[id[c]]] = FALSE]
          /\ active' = [active EXCEPT ![c] = FALSE]
          /\ UNCHANGED <<id, login>>
      BY <1>9 DEF ReadLogout, AsksLogout, CanLogout, IsLoggedIn, Logout, Set
    <2>2. conn[c] = "reading" /\ conn' = [conn EXCEPT ![c] = "writing"]
      BY <1>t, <2>1, AnswerTypes DEF Answer
    <2>3. ASSUME NEW u \in Users, loggedin'[u]
          PROVE  loggedin[u] /\ \A e \in Conns : Backs(e, u) => Backs(e, u)'
      <3>1. loggedin[u] /\ u # AccountOf[id[c]]
        BY <1>t, <2>1, <2>3
      <3>2. \A e \in Conns : Backs(e, u) => e # c
        BY <3>1 DEF Backs
      <3> QED
        BY <1>t, <2>1, <2>2, <3>1, <3>2 DEF Backs, Open, SessionTypeOK
    <2> QED
      BY <2>3 DEF StaysBacked
  <1>10. CASE AcceptError \/ CommandLine \/ UNCHANGED serverVars
    <2>1. UNCHANGED <<loggedin, netVars, sessionVars>>
      BY <1>10 DEF AcceptError, CommandLine, Deposit, serverVars, bankVars
    <2> QED
      BY <2>1 DEF StaysBacked, Backs, Open, netVars, sessionVars
  <1> QED
    BY <1>1, <1>2, <1>3, <1>4, <1>5, <1>6, <1>7, <1>8, <1>9, <1>10
       DEF ServerNext, ReadStep, WriteStep

LEMMA CrashEnds ==
    ASSUME NEW c \in Conns, Crash(c)
    PROVE  ~Running'
  BY DEF Crash, Running

\* The same step, of a process that goes on.
StaysBackedRunning ==
    \A u \in Users : loggedin'[u] /\ Running' /\ ~(\E c \in Conns : Backs(c, u)') =>
        /\ loggedin[u]
        /\ \A c \in Conns : Backs(c, u) =>
              \/ peer[c] \in {"reset", "vanished"}
              \/ login'[c] /\ \E r \in Requests : r.op = "withdraw" /\ id'[c] = r.num

\* In every behaviour of the bank process, a user who is logged in loses the session
\* that will log the user out only to a reset, a timeout or a withdraw request.
THEOREM LoginsKept == ServerSpec => LoginsKeepTheirSession
  <1>1. ASSUME SessionInv, BankInv, [ServerNext]_serverVars
        PROVE  StaysBackedRunning
    <2>1. CASE \E c \in Conns : Crash(c)
      BY <2>1, CrashEnds DEF StaysBackedRunning
    <2>2. CASE \A c \in Conns : ~Crash(c)
      BY <1>1, <2>2, StepStaysBacked DEF StaysBackedRunning, StaysBacked
    <2> QED
      BY <2>1, <2>2
  <1>2. SessionInv /\ BankInv /\ [ServerNext]_serverVars => [StaysBackedRunning]_serverVars
    BY <1>1
  <1> QED
    BY <1>2, SessionInvHolds, BankInvHolds, PTL
       DEF ServerSpec, LoginsKeepTheirSession, StaysBackedRunning

-----------------------------------------------------------------------------
(* Who is in charge of a user *)

\* The step of InChargeUnlessStale, for one user.
StaysInCharge(u) ==
    \/ InCharge(u)'
    \/ \E c \in Conns : Handles(c) /\ ActsFor(c, u) /\ ~active[c]

\* A step that makes no session back the user that did not, and logs the user out
\* only together with the last session that does, keeps whoever is in charge.
LEMMA FewerStayInCharge ==
    ASSUME NEW u \in Users, InCharge(u),
           \A e \in Conns : Backs(e, u)' => Backs(e, u),
           loggedin'[u] = loggedin[u] \/ \A e \in Conns : ~Backs(e, u)'
    PROVE  StaysInCharge(u)
  <1>1. InCharge(u)'
    <2> SUFFICES ASSUME NEW c \in Conns, NEW d \in Conns, Backs(c, u)', Backs(d, u)'
                 PROVE  c = d /\ loggedin'[u]
      BY DEF InCharge
    <2>1. Backs(c, u) /\ Backs(d, u)
      OBVIOUS
    <2>2. c = d /\ loggedin[u]
      BY <2>1 DEF InCharge
    <2> QED
      BY <2>2
  <1> QED
    BY <1>1 DEF StaysInCharge

\* A session out of its login dialogue that logs u out is the one in charge, or has
\* a stale id.
LEMMA LogsOutItsUser ==
    ASSUME SessionInv, BankInv, NEW u \in Users, InCharge(u), NEW c \in Conns,
           conn[c] = "reading", ~login[c], CanLogout(id[c]), AccountOf[id[c]] = u
    PROVE  \/ \A e \in Conns : Backs(e, u) => e = c
           \/ ActsFor(c, u) /\ ~active[c]
  <1>1. c \in Open /\ id[c] \in Accounts /\ id[c] # 0
    BY BankAssumption DEF Open, CanLogout, IsLoggedIn
  <1>2. id[c] \in proved[c]
    BY <1>1 DEF SessionInv, ActsOnlyOnProvenAccounts
  <1>3. CASE ~active[c]
    BY <1>2, <1>3 DEF ActsFor
  <1>4. CASE active[c]
    <2>1. Backs(c, u)
      BY <1>1, <1>4 DEF Backs
    <2> QED
      BY <2>1 DEF InCharge
  <1>5. active[c] \in BOOLEAN
    BY DEF SessionInv, SessionTypeOK
  <1> QED
    BY <1>3, <1>4, <1>5

\* The end of a session with a logout.
LEMMA LogoutStaysInCharge ==
    ASSUME SessionInv, BankInv, NEW u \in Users, InCharge(u),
           NEW c \in Conns, conn[c] = "reading", Destroy(c), ProcessLogout(c)
    PROVE  StaysInCharge(u)
  <1>t. SessionTypeOK /\ loggedin \in [Users -> BOOLEAN] /\ AccountOf \in [Accounts -> Users]
    BY BankAssumption DEF SessionInv, BankInv
  <1>1. /\ Handles(c) /\ c \notin Open'
        /\ \A e \in Conns : Backs(e, u)' => Backs(e, u)
    BY <1>t DEF Handles, Destroy, Blank, Set, Open, Backs, SessionTypeOK
  <1>2. CASE ~login[c] /\ CanLogout(id[c]) /\ AccountOf[id[c]] = u
    <2>1. CASE ActsFor(c, u) /\ ~active[c]
      BY <1>1, <2>1 DEF StaysInCharge
    <2>2. CASE \A e \in Conns : Backs(e, u) => e = c
      <3>1. \A e \in Conns : ~Backs(e, u)'
        BY <1>1, <2>2 DEF Backs
      <3> QED
        BY <1>1, <3>1, FewerStayInCharge
    <2> QED
      BY <1>2, <2>1, <2>2, LogsOutItsUser
  <1>3. CASE ~(~login[c] /\ CanLogout(id[c]) /\ AccountOf[id[c]] = u)
    <2>1. loggedin'[u] = loggedin[u]
      BY <1>t, <1>3 DEF ProcessLogout, Logout, CanLogout, IsLoggedIn, bankVars
    <2> QED
      BY <1>1, <2>1, FewerStayInCharge
  <1> QED
    BY <1>2, <1>3

LEMMA StepStaysInCharge ==
    ASSUME SessionInv, BankInv, [ServerNext]_serverVars, NEW u \in Users, InCharge(u)
    PROVE  StaysInCharge(u)
  <1>t. SessionTypeOK /\ loggedin \in [Users -> BOOLEAN] /\ AccountOf \in [Accounts -> Users]
    BY BankAssumption DEF SessionInv, BankInv
  <1>1. ASSUME NEW c \in Conns, AtmStep(c) \/ Accept(c) \/ WriteDone(c)
        PROVE  StaysInCharge(u)
    <2>1. /\ UNCHANGED <<bankVars, sessionVars>>
          /\ \A e \in Conns : e \in Open' => e \in Open
      BY <1>t, <1>1 DEF AtmStep, Connect, Send, Disconnect, Reset, Vanish, Depart, Accept, WriteDone,
         Set, Open, SessionTypeOK
    <2>2. \A e \in Conns : Backs(e, u)' => Backs(e, u)
      BY <2>1 DEF Backs, sessionVars
    <2> QED
      BY <2>1, <2>2, FewerStayInCharge DEF bankVars
  <1>2. ASSUME NEW c \in Conns,
               HandshakeStep(c) \/ Crash(c) \/ ReadFailed(c) \/ WriteFailed(c)
        PROVE  StaysInCharge(u)
    <2>1. loggedin' = loggedin
      BY <1>2 DEF HandshakeStep, HandshakeDone, HandshakeFailed, Crash, ReadFailed, WriteFailed,
         bankVars
    <2>2. \/ Blank(c) /\ \E s : conn' = Set(conn, c, s)
          \/ active' = [d \in Conns |-> FALSE]
      BY <1>2 DEF HandshakeStep, HandshakeDone, HandshakeFailed, Crash, ReadFailed, WriteFailed,
         Destroy
    <2>3. \A e \in Conns : Backs(e, u)' => Backs(e, u)
      BY <1>t, <2>2 DEF Backs, Open, Blank, Set, SessionTypeOK
    <2> QED
      BY <2>1, <2>3, FewerStayInCharge
  <1>3. ASSUME NEW c \in Conns, NEW r \in Requests, ReadRejected(c, r)
        PROVE  StaysInCharge(u)
    BY <1>3, LogoutStaysInCharge DEF ReadRejected, Reads
  <1>4. ASSUME NEW c \in Conns, ReadGarbled(c) \/ ReadEnd(c)
        PROVE  StaysInCharge(u)
    BY <1>4, LogoutStaysInCharge DEF ReadGarbled, ReadEnd, Reads
  <1>5. ASSUME NEW c \in Conns, NEW r \in Requests, ReadPin(c, r)
        PROVE  StaysInCharge(u)
    <2>1. /\ Decodes(c, r) /\ Answer(c) /\ id[c] \in Accounts
          /\ ~loggedin[AccountOf[id[c]]]
          /\ loggedin' = [loggedin EXCEPT ![AccountOf[id[c]]] = TRUE]
          /\ login' = [login EXCEPT ![c] = FALSE]
          /\ active' = [active EXCEPT ![c] = TRUE]
          /\ id' = id
      BY <1>5 DEF ReadPin, GivesPin, CanLogin, Login, Set
    <2>2. conn[c] = "reading" /\ conn' = [conn EXCEPT ![c] = "writing"]
      BY <1>t, <2>1, AnswerTypes DEF Answer
    <2>3. \A e \in Conns : Backs(e, u)' => Backs(e, u) \/ e = c
      BY <1>t, <2>1, <2>2 DEF Backs, Open, SessionTypeOK
    <2>4. CASE AccountOf[id[c]] = u
      <3>1. \A e \in Conns : ~Backs(e, u)
        BY <2>1, <2>4 DEF InCharge
      <3>2. loggedin'[u] /\ \A e \in Conns : Backs(e, u)' => e = c
        BY <1>t, <2>1, <2>3, <2>4, <3>1
      <3>3. InCharge(u)'
        BY <3>2 DEF InCharge
      <3> QED
        BY <3>3 DEF StaysInCharge
    <2>5. CASE AccountOf[id[c]] # u
      <3>1. loggedin'[u] = loggedin[u]
        BY <1>t, <2>1, <2>5
      <3>2. ~Backs(c, u)'
        BY <2>1, <2>5 DEF Backs
      <3> QED
        BY <2>3, <3>1, <3>2, FewerStayInCharge
    <2> QED
      BY <2>4, <2>5
  <1>6. ASSUME NEW c \in Conns, NEW r \in Requests,
               ReadLogin(c, r) \/ ReadBalance(c, r) \/ ReadTransfer(c, r)
        PROVE  StaysInCharge(u)
    <2>1. /\ Decodes(c, r) /\ Answer(c)
          /\ UNCHANGED <<loggedin, active>>
          /\ \/ UNCHANGED <<id, login>>
             \/ \E n : id' = [id EXCEPT ![c] = n] /\ login' = [login EXCEPT ![c] = TRUE]
      BY <1>6 DEF ReadLogin, ReadBalance, ReadTransfer, Transfer, bankVars, Set
    <2>2. conn[c] = "reading" /\ conn' = [conn EXCEPT ![c] = "writing"]
      BY <1>t, <2>1, AnswerTypes DEF Answer
    <2>3. \A e \in Conns : Backs(e, u)' => Backs(e, u)
      BY <1>t, <2>1, <2>2 DEF Backs, Open, SessionTypeOK
    <2> QED
      BY <2>1, <2>3, FewerStayInCharge
  <1>7. ASSUME NEW c \in Conns, NEW r \in Requests, ReadLogout(c, r)
        PROVE  StaysInCharge(u)
    <2>1. /\ Decodes(c, r) /\ Answer(c) /\ ~login[c] /\ CanLogout(id[c])
          /\ IsLoggedIn(id[c]) /\ id[c] \in Accounts
          /\ loggedin' = [loggedin EXCEPT ![AccountOf[id[c]]] = FALSE]
          /\ active' = [active EXCEPT ![c] = FALSE]
          /\ UNCHANGED <<id, login>>
      BY <1>7 DEF ReadLogout, AsksLogout, CanLogout, IsLoggedIn, Logout, Set
    <2>2. conn[c] = "reading" /\ conn' = [conn EXCEPT ![c] = "writing"]
      BY <1>t, <2>1, AnswerTypes DEF Answer
    <2>3. \A e \in Conns : Backs(e, u)' => Backs(e, u) /\ e # c
      BY <1>t, <2>1, <2>2 DEF Backs, Open, SessionTypeOK
    <2>4. CASE AccountOf[id[c]] # u
      <3>1. loggedin'[u] = loggedin[u]
        BY <1>t, <2>1, <2>4
      <3> QED
        BY <2>3, <3>1, FewerStayInCharge
    <2>5. CASE AccountOf[id[c]] = u
      <3>1. CASE \A e \in Conns : Backs(e, u) => e = c
        BY <2>3, <3>1, FewerStayInCharge
      <3>2. CASE ActsFor(c, u) /\ ~active[c]
        <4>1. Handles(c)
          BY <2>1, CommandActsFor
        <4> QED
          BY <3>2, <4>1 DEF StaysInCharge
      <3> QED
        BY <2>1, <2>2, <2>5, <3>1, <3>2, LogsOutItsUser
    <2> QED
      BY <2>4, <2>5
  <1>8. CASE AcceptError \/ CommandLine \/ UNCHANGED serverVars
    <2>1. UNCHANGED <<loggedin, netVars, sessionVars>>
      BY <1>8 DEF AcceptError, CommandLine, Deposit, serverVars, bankVars
    <2>2. \A e \in Conns : Backs(e, u)' => Backs(e, u)
      BY <2>1 DEF Backs, Open, netVars, sessionVars
    <2> QED
      BY <2>1, <2>2, FewerStayInCharge
  <1> QED
    BY <1>1, <1>2, <1>3, <1>4, <1>5, <1>6, <1>7, <1>8
       DEF ServerNext, ReadStep, WriteStep

KeepsInCharge == \A u \in Users : InCharge(u) => StaysInCharge(u)

\* In every behaviour of the bank process, with any number of connections and every
\* fault, the session that logged a user in stays the only one in charge and the user
\* logged in until it ends, or until the stale id of a session that has logged itself
\* out is logged out again.
THEOREM InChargeTillStale == ServerSpec => InChargeUnlessStale
  <1>1. SessionInv /\ BankInv /\ [ServerNext]_serverVars => [KeepsInCharge]_serverVars
    BY StepStaysInCharge DEF KeepsInCharge
  <1> QED
    BY <1>1, SessionInvHolds, BankInvHolds, PTL
       DEF ServerSpec, InChargeUnlessStale, KeepsInCharge, StaysInCharge

-----------------------------------------------------------------------------
(* Logins are backed by sessions, as long as ... *)

\* ... no ATM withdraws, connections end by an orderly close, and the process does
\* not crash.
Orderly ==
    /\ \A r \in Requests : r.op # "withdraw"
    /\ "reset" \notin Faults /\ "timeout" \notin Faults /\ "cut" \notin Faults

BackedInv ==
    /\ LoginBackedBySession
    /\ \A c \in Conns : peer[c] \in {"up", "closed"}

LEMMA PeersNext ==
    ASSUME Orderly, SessionInv, BackedInv, [ServerNext]_serverVars
    PROVE  \A c \in Conns : peer'[c] \in {"up", "closed"}
  <1>t. SessionTypeOK /\ \A c \in Conns : peer[c] \in {"up", "closed"}
    BY DEF SessionInv, BackedInv
  <1>1. \/ peer' = peer
        \/ \E c \in Conns : peer' = Set(peer, c, "up") \/ peer' = Set(peer, c, "closed")
    BY DEF Orderly, ServerNext, serverVars, netVars, AtmStep, Connect, Send, Disconnect, Reset,
       Vanish, Depart, Accept, HandshakeStep, HandshakeDone, HandshakeFailed, Crash, ReadStep, ReadPin,
       ReadLogin, ReadBalance, ReadTransfer, ReadLogout, ReadRejected, ReadGarbled, ReadEnd,
       Answer, Destroy, ReadFailed, WriteStep, WriteDone, WriteFailed, AcceptError, CommandLine
  <1> QED
    BY <1>t, <1>1 DEF Set, SessionTypeOK

LEMMA BackedNext ==
    ASSUME Orderly, SessionInv, BankInv, BackedInv, [ServerNext]_serverVars
    PROVE  BackedInv'
  <1>1. StaysBacked
    BY StepStaysBacked DEF Orderly, Crash
  <1>2. /\ \A r \in Requests : r.op # "withdraw"
        /\ \A c \in Conns : peer[c] \notin {"reset", "vanished"}
    BY DEF Orderly, BackedInv
  <1>3. \A u \in Users : loggedin'[u] => \E c \in Conns : Backs(c, u)'
    BY <1>1, <1>2 DEF StaysBacked, BackedInv, LoginBackedBySession
  <1> QED
    BY <1>3, PeersNext DEF BackedInv, LoginBackedBySession

\* Without withdrawals, resets, timeouts and crashes, and however many ATMs connect, close
\* and log each other out, a user who is logged in is so by a session that still
\* exists: nobody is locked out of the bank.
THEOREM OrderlyLogins ==
    ASSUME Orderly
    PROVE  ServerSpec => []LoginBackedBySession
  <1>1. ServerInit => BackedInv
    BY DEF ServerInit, BankInit, BackedInv, LoginBackedBySession
  <1>2. SessionInv /\ BankInv /\ BackedInv /\ [ServerNext]_serverVars => BackedInv'
    BY BackedNext
  <1>3. BackedInv => LoginBackedBySession
    BY DEF BackedInv
  <1> QED
    BY <1>1, <1>2, <1>3, SessionInvHolds, BankInvHolds, PTL DEF ServerSpec
=============================================================================
