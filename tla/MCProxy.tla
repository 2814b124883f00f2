------------------------------- MODULE MCProxy -------------------------------
(***************************************************************************)
(* Instances of Proxy for TLC: how many bytes each link may carry.         *)
(***************************************************************************)
EXTENDS Proxy

\* More bytes one way than the buffer and the window hold.
MoreUp == [l \in Links |-> IF l[2] = "up" THEN 3 ELSE 2]

\* Two ATMs that each send one byte, with no answer.
OneUp == [l \in Links |-> IF l[2] = "up" THEN 1 ELSE 0]
=============================================================================
