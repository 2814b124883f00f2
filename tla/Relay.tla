-------------------------------- MODULE Relay --------------------------------
(***************************************************************************)
(* What a proxy promises the programs at its two ends: each link is a      *)
(* stream of its own that delivers, in order and unchanged, a prefix of    *)
(* what was sent on it.  How much of it, and in which portions, is open.   *)
(***************************************************************************)
EXTENDS Naturals, Sequences

CONSTANTS
    Links,   \* the streams: one per connection and direction
    Bytes    \* what is sent

VARIABLES
    sent,  \* link -> all that was sent on it
    got    \* link -> all that was delivered from it

relayVars == <<sent, got>>

RelayInit ==
    /\ sent = [l \in Links |-> <<>>]
    /\ got = [l \in Links |-> <<>>]

RelaySend(l) == \E x \in Bytes :
    /\ sent' = [sent EXCEPT ![l] = Append(@, x)]
    /\ UNCHANGED got

RelayDeliver(l) == \E n \in Len(got[l]) + 1 .. Len(sent[l]) :
    /\ got' = [got EXCEPT ![l] = SubSeq(sent[l], 1, n)]
    /\ UNCHANGED sent

RelayNext == \E l \in Links : RelaySend(l) \/ RelayDeliver(l)

RelaySpec == RelayInit /\ [][RelayNext]_relayVars
=============================================================================
