-------------------------------- MODULE Bank --------------------------------
(***************************************************************************)
(* The Bank object (bank_object.h) over its User records (user.h): the     *)
(* balances and the logged-in flags every session and the bank's command   *)
(* line share.  Every operation runs under data_m, so each one is a single *)
(* step here; BankMutex opens the critical sections and shows that this is *)
(* sound.                                                                  *)
(*                                                                         *)
(* A call the code refuses (it unlocks and returns false) changes nothing, *)
(* so an operation has a predicate Can... for "returns true" and an action *)
(* for the update.  The name, pin and id of a User never change and are    *)
(* constants.  The copies of the users kept under ids are only asked for   *)
(* name and pin; balances are only ever read through users, so there is    *)
(* one balance per user.                                                   *)
(***************************************************************************)
EXTENDS Integers, FiniteSets, Functions

CONSTANTS
    Users,       \* user names: the keys of users and loggedin
    AccountOf,   \* ids: account number -> the user it belongs to
    Pin,         \* user -> pin
    Opening,     \* user -> balance when the bank starts
    MaxBalance,  \* LLONG_MAX
    Amounts      \* the amounts that commands carry

Accounts == DOMAIN AccountOf

\* Amounts are written with \d{1,18} (validate.h), so they are natural numbers
\* that a long long holds; account numbers are never 0.  users is a map in memory.
ASSUME BankAssumption ==
    /\ IsFiniteSet(Users)
    /\ MaxBalance \in Nat
    /\ AccountOf \in [Accounts -> Users]
    /\ Accounts \subseteq Nat \ {0}
    /\ Opening \in [Users -> 0..MaxBalance]
    /\ Amounts \subseteq 0..MaxBalance

VARIABLES
    balance,   \* user -> current balance
    loggedin,  \* user -> logged in at the bank?
    cash       \* history: money deposited minus money withdrawn so far

bankVars == <<balance, loggedin, cash>>

-----------------------------------------------------------------------------
(* long long arithmetic and the User record *)

LongLong == -(MaxBalance + 1) .. MaxBalance

\* The value a long long takes when the exact result of one sum or difference is n.
LLong(n) ==
    IF n > MaxBalance THEN n - 2 * (MaxBalance + 1)
    ELSE IF n < -(MaxBalance + 1) THEN n + 2 * (MaxBalance + 1)
    ELSE n

AddMoney(b, u, a)    == [b EXCEPT ![u] = LLong(@ + a)]
RemoveMoney(b, u, a) == [b EXCEPT ![u] = LLong(@ - a)]

-----------------------------------------------------------------------------
(* When an operation succeeds *)

CanLogin(i, p) ==
    /\ i \in Accounts
    /\ ~loggedin[AccountOf[i]]
    /\ Pin[AccountOf[i]] = p

\* Mutant: the id is looked up and the login flag is not.
KnowsId(i) == i \in Accounts

IsLoggedIn(i) == i \in Accounts /\ loggedin[AccountOf[i]]

CanBalance(i) == IsLoggedIn(i)
CanLogout(i)  == IsLoggedIn(i)

\* Mutant: the amount is compared with LLONG_MAX alone.
HasRoomAlone(u, a) == a <= MaxBalance

\* The room check of deposit and transfer: amount > LLONG_MAX - balance refuses.
HasRoom(u, a) == a <= LLong(MaxBalance - balance[u])

CanDeposit(u, a) == u \in Users /\ HasRoom(u, a)

CanWithdraw(i, a) ==
    /\ IsLoggedIn(i)
    /\ a > 0
    /\ balance[AccountOf[i]] >= a

CanTransfer(i, to, a) ==
    /\ IsLoggedIn(i)
    /\ balance[AccountOf[i]] >= a
    /\ a > 0
    /\ to \in Users
    /\ HasRoom(to, a)

-----------------------------------------------------------------------------
(* The operations *)

\* Mutant: the constructor enters the flags under ids.
BankInitById ==
    /\ balance = Opening
    /\ loggedin = [i \in Accounts |-> FALSE]
    /\ cash = 0

BankInit ==
    /\ balance = Opening
    /\ loggedin = [u \in Users |-> FALSE]
    /\ cash = 0

Login(i, p) ==
    /\ CanLogin(i, p)
    /\ loggedin' = [loggedin EXCEPT ![AccountOf[i]] = TRUE]
    /\ UNCHANGED <<balance, cash>>

Logout(i) ==
    /\ CanLogout(i)
    /\ loggedin' = [loggedin EXCEPT ![AccountOf[i]] = FALSE]
    /\ UNCHANGED <<balance, cash>>

Deposit(u, a) ==
    /\ CanDeposit(u, a)
    /\ balance' = AddMoney(balance, u, a)
    /\ cash' = cash + a
    /\ UNCHANGED loggedin

Withdraw(i, a) ==
    /\ CanWithdraw(i, a)
    /\ balance' = RemoveMoney(balance, AccountOf[i], a)
    /\ cash' = cash - a
    /\ UNCHANGED loggedin

\* Mutant: the receiver gets user2Bal + amount, from before the payer is charged.
TransferStale(i, to, a) ==
    /\ CanTransfer(i, to, a)
    /\ balance' = [RemoveMoney(balance, AccountOf[i], a) EXCEPT ![to] = LLong(balance[to] + a)]
    /\ UNCHANGED <<loggedin, cash>>

Transfer(i, to, a) ==
    /\ CanTransfer(i, to, a)
    /\ balance' = AddMoney(RemoveMoney(balance, AccountOf[i], a), to, a)
    /\ UNCHANGED <<loggedin, cash>>

BankNext ==
    \/ \E i \in Accounts : Login(i, Pin[AccountOf[i]]) \/ Logout(i)
    \/ \E u \in Users, a \in Amounts : Deposit(u, a)
    \/ \E i \in Accounts, a \in Amounts : Withdraw(i, a)
    \/ \E i \in Accounts, u \in Users, a \in Amounts : Transfer(i, u, a)

BankSpec == BankInit /\ [][BankNext]_bankVars

-----------------------------------------------------------------------------
(* Properties *)

\* The variables hold long longs and booleans, one per user.
BankTypeOK ==
    /\ balance \in [Users -> LongLong]
    /\ loggedin \in [Users -> BOOLEAN]
    /\ cash \in Int

\* No balance is ever negative: no sequence of deposits, withdrawals and
\* transfers overdraws an account or overflows one (a sum beyond LLONG_MAX
\* would come out negative), the two hazards the checks of deposit, withdraw
\* and transfer in bank_object.h are there for.
BalancesNonNegative == \A u \in Users : balance[u] >= 0

\* The bank owes its users exactly what it opened with plus the cash it took in:
\* transfer (bank_object.h) neither makes nor loses money, not even when it goes
\* back to the payer or meets an account that is nearly full.
MoneyConserved == SumFunction(balance) = SumFunction(Opening) + cash

\* An account loses money only while its user is logged in at the bank, and what
\* a step takes from it in excess of cash paid out arrives at one other account
\* (withdraw and transfer in bank_object.h).
DebitsNeedLogin ==
    [][\A u \in Users : balance'[u] < balance[u] =>
          /\ loggedin[u]
          /\ cash' = cash => \E v \in Users \ {u} :
                 balance'[u] + balance'[v] = balance[u] + balance[v]]_bankVars
=============================================================================
