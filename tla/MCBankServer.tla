---------------------------- MODULE MCBankServer ----------------------------
(* Two ATMs' connections, two users, LLONG_MAX = 1.  Every request an ATM    *)
(* program can send occurs; for each kind of number (account, pin, amount)   *)
(* there is a right one and a wrong one.                                     *)
EXTENDS BankServer, TLC

CONSTANTS alice, bob, c1, c2

MCUsers     == {alice, bob}
MCAccountOf == 11 :> alice @@ 12 :> bob
MCPin       == alice :> 1 @@ bob :> 2
MCOpening   == alice :> 1 @@ bob :> 0
MCConns     == {c1, c2}
MCSymmetry  == Permutations(MCConns)

OrderlyRequests ==
    {[op |-> "login", num |-> 11], [op |-> "login", num |-> 12], [op |-> "loginName"],
     [op |-> "pin", num |-> 1], [op |-> "pin", num |-> 2],
     [op |-> "balance"], [op |-> "logout"],
     [op |-> "transfer", to |-> bob, amount |-> 1]}

\* The amount of a withdrawal becomes the session's id: the interesting one is
\* somebody's account number.  It is the way to bob's pin here, in place of login.
AllRequests ==
    (OrderlyRequests \ {[op |-> "login", num |-> 12]}) \cup {[op |-> "withdraw", num |-> 12]}

\* One user's requests, for the liveness runs: the other runs show what each
\* request does, and how many there are does not change who waits for whom.
FewRequests == {[op |-> "login", num |-> 11], [op |-> "pin", num |-> 1]}

\* The same with a withdrawal of 1: for the run that shows where the code and its
\* comments part.
WithdrawRequests == FewRequests \cup {[op |-> "withdraw", num |-> 1]}
=============================================================================
