----------------------------- MODULE MCBankMutex -----------------------------
(* Two users, LLONG_MAX = 2; the io_service thread makes the sessions' calls   *)
(* and the command line thread the bank's own.                                 *)
EXTENDS BankMutex, TLC

CONSTANTS alice, bob, io, cli

MCUsers     == {alice, bob}
MCAccountOf == 11 :> alice @@ 12 :> bob
MCPin       == alice :> 1 @@ bob :> 2
MCOpening   == alice :> 1 @@ bob :> 0
MCThreads   == {io, cli}

\* withdraw has no caller in bank.cpp; it is called here so that its critical
\* section is checked with the others.
IoCalls ==
    {LoginCall(11, 1), LoginCall(11, 2), LoginCall(12, 2), LogoutCall(11), LogoutCall(12),
     BalanceCall(11), BalanceCall(0), WithdrawCall(12, 1)}
    \cup {TransferCall(i, u, a) : i \in {11, 12}, u \in MCUsers, a \in Amounts}

CliCalls ==
    {AdminBalanceCall(u) : u \in MCUsers} \cup {DepositCall(u, a) : u \in MCUsers, a \in Amounts}

MCCalls == io :> IoCalls @@ cli :> CliCalls
=============================================================================
