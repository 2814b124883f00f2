------------------------------- MODULE MCBank -------------------------------
(* Three users as in bank.cpp, with small balances and LLONG_MAX = 4.        *)
EXTENDS Bank, TLC

CONSTANTS alice, bob, eve

MCUsers     == {alice, bob, eve}
MCAccountOf == 11 :> alice @@ 12 :> bob @@ 13 :> eve
MCPin       == alice :> 1 @@ bob :> 2 @@ eve :> 3
MCOpening   == alice :> 2 @@ bob :> 1 @@ eve :> 0
=============================================================================
