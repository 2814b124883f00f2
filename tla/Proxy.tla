-------------------------------- MODULE Proxy --------------------------------
(***************************************************************************)
(* The proxy (proxy.cpp).  A bridge joins the connection of one ATM        *)
(* (downstream) to a connection of its own to the bank (upstream) and runs *)
(* two loops, one per direction: read some bytes into that direction's     *)
(* buffer, write them all to the other socket, read again.  Any error in   *)
(* either loop closes both sockets.  All handlers run on the one thread in *)
(* ios.run(); a completed operation waits for its handler to be called     *)
(* (the steps "read", "written" and "failed"), and the other loop may act  *)
(* in between.                                                             *)
(*                                                                         *)
(* A link is one direction of one bridge.  Each bridge serves one          *)
(* connection and is not used again.                                       *)
(***************************************************************************)
EXTENDS Naturals, Sequences

CONSTANTS
    Bridges,  \* the bridges that can come to be
    MaxData,  \* max_data_length
    Window,   \* how many bytes TCP takes for an end that does not read them
    MaxSent,  \* link -> bound on the bytes sent on it
    Faults    \* "reset", "accept", "refuse": the errors that occur

Dirs  == {"up", "down"}     \* up: ATM to bank; down: bank to ATM
Links == Bridges \X Dirs
Rev(l) == <<l[1], IF l[2] = "up" THEN "down" ELSE "up">>

ASSUME ProxyAssumption ==
    /\ MaxData \in Nat \ {0}
    /\ Window \in Nat \ {0}
    /\ MaxSent \in [Links -> Nat]

VARIABLES
    accepting,  \* is an async_accept outstanding?
    stage,      \* bridge -> none, backlog, connecting, relaying or over
    open,       \* bridge -> are its sockets open?
    sender,     \* link -> the end that sends on it: up, closed or reset
    sent,       \* history: link -> all that its sender wrote
    inbox,      \* link -> sent, not yet read by the proxy
    loop,       \* link -> where the loop of that direction is: see LoopSteps
    buffer,     \* link -> read, not yet written: downstream_data_, upstream_data_
    got,        \* link -> written to the end it leads to
    unread      \* link -> how much of that the end has not taken yet

bridgeVars == <<accepting, stage, open>>
streamVars == <<sent, inbox, loop, buffer, got, unread>>
proxyVars  == <<bridgeVars, sender, streamVars>>

\* off: not started.  reading, writing: the operation is outstanding.  read,
\* written, failed: it has completed, its handler has not run.  ended: the handler
\* started no further operation.
LoopSteps == {"off", "reading", "read", "writing", "written", "failed", "ended"}

Upto(s, n)  == SubSeq(s, 1, n)
After(s, n) == SubSeq(s, n + 1, Len(s))

\* The end that link l leads to sends on the reverse link.
Receiver(l) == sender[Rev(l)]

\* Is there a connection on which the sender of l can send?
Connected(l) ==
    /\ open[l[1]]
    /\ IF l[2] = "up" THEN stage[l[1]] \in {"backlog", "connecting", "relaying"}
                      ELSE stage[l[1]] = "relaying"

\* With nothing outstanding, ios.run() returns and the proxy ends.
Running == accepting \/ \E b \in Bridges : stage[b] \in {"connecting", "relaying"}

-----------------------------------------------------------------------------
(* The ends: an ATM and the bank *)

Connect(b) ==
    /\ Running
    /\ stage[b] = "none"
    /\ stage' = [stage EXCEPT ![b] = "backlog"]
    /\ open' = [open EXCEPT ![b] = TRUE]
    /\ UNCHANGED <<accepting, sender, streamVars>>

\* Every byte is unlike any other, so that a mix-up would show.
Send(l) ==
    /\ Connected(l)
    /\ sender[l] = "up"
    /\ Len(sent[l]) < MaxSent[l]
    /\ sent' = [sent EXCEPT ![l] = Append(@, <<l, Len(@) + 1>>)]
    /\ inbox' = [inbox EXCEPT ![l] = Append(@, <<l, Len(sent[l]) + 1>>)]
    /\ UNCHANGED <<bridgeVars, sender, loop, buffer, got, unread>>

Take(l) ==
    /\ unread[l] > 0
    /\ Receiver(l) = "up"
    /\ unread' = [unread EXCEPT ![l] = 0]
    /\ UNCHANGED <<bridgeVars, sender, sent, inbox, loop, buffer, got>>

Leave(l) ==
    /\ Connected(l)
    /\ sender[l] = "up"
    /\ \E how \in {"closed"} \cup (Faults \cap {"reset"}) :
          sender' = [sender EXCEPT ![l] = how]
    /\ UNCHANGED <<bridgeVars, streamVars>>

-----------------------------------------------------------------------------
(* acceptor *)

\* Mutant: accept again only when the bridge is over.
AcceptOneAtATime(b) ==
    /\ accepting
    /\ \A d \in Bridges : stage[d] \in {"none", "backlog", "over"}
    /\ stage[b] = "backlog"
    /\ stage' = [stage EXCEPT ![b] = "connecting"]
    /\ UNCHANGED <<accepting, open, sender, streamVars>>

\* handle_accept: start the bridge, make the next one and accept for it.
Accept(b) ==
    /\ accepting
    /\ stage[b] = "backlog"
    /\ stage' = [stage EXCEPT ![b] = "connecting"]
    /\ UNCHANGED <<accepting, open, sender, streamVars>>

\* handle_accept with an error: the acceptor is not armed again.
AcceptError ==
    /\ "accept" \in Faults
    /\ accepting
    /\ accepting' = FALSE
    /\ UNCHANGED <<stage, open, sender, streamVars>>

-----------------------------------------------------------------------------
(* bridge *)

\* Mutant: only the answers are read.
StartOneWay(b) ==
    /\ stage[b] = "connecting"
    /\ stage' = [stage EXCEPT ![b] = "relaying"]
    /\ loop' = [loop EXCEPT ![<<b, "down">>] = "reading"]
    /\ UNCHANGED <<accepting, open, sender, sent, inbox, buffer, got, unread>>

\* handle_upstream_connect: both loops begin with a read.
Start(b) ==
    /\ stage[b] = "connecting"
    /\ stage' = [stage EXCEPT ![b] = "relaying"]
    /\ loop' = [l \in Links |-> IF l[1] = b THEN "reading" ELSE loop[l]]
    /\ UNCHANGED <<accepting, open, sender, sent, inbox, buffer, got, unread>>

\* ... or with an error: close.
Refused(b) ==
    /\ "refuse" \in Faults
    /\ stage[b] = "connecting"
    /\ stage' = [stage EXCEPT ![b] = "over"]
    /\ open' = [open EXCEPT ![b] = FALSE]
    /\ UNCHANGED <<accepting, sender, streamVars>>

\* async_read_some completes with what is there, at most a buffer of it.
ReadSome(l) ==
    /\ loop[l] = "reading"
    /\ inbox[l] # <<>>
    /\ LET n == IF Len(inbox[l]) < MaxData THEN Len(inbox[l]) ELSE MaxData
       IN  /\ buffer' = [buffer EXCEPT ![l] = Upto(inbox[l], n)]
           /\ inbox' = [inbox EXCEPT ![l] = After(@, n)]
    /\ loop' = [loop EXCEPT ![l] = "read"]
    /\ UNCHANGED <<bridgeVars, sender, sent, got, unread>>

\* ... or with an error: eof once everything is read, or a reset.
ReadError(l) ==
    /\ loop[l] = "reading"
    /\ \/ sender[l] = "closed" /\ inbox[l] = <<>>
       \/ sender[l] = "reset"
    /\ loop' = [loop EXCEPT ![l] = "failed"]
    /\ UNCHANGED <<bridgeVars, sender, sent, inbox, buffer, got, unread>>

\* Mutant: handle_downstream_read and handle_upstream_read take the other's buffer.
HandleReadCrossed(l) ==
    /\ loop[l] = "read"
    /\ loop' = [loop EXCEPT ![l] = IF open[l[1]] THEN "writing" ELSE "failed"]
    /\ buffer' = [buffer EXCEPT ![l] = @ \o buffer[Rev(l)]]
    /\ UNCHANGED <<bridgeVars, sender, sent, inbox, got, unread>>

\* Mutant: a short read counts as an error.
HandleReadShort(l) ==
    /\ loop[l] = "read"
    /\ loop' = [loop EXCEPT ![l] = IF open[l[1]] /\ Len(buffer[l]) = MaxData
                                    THEN "writing" ELSE "failed"]
    /\ UNCHANGED <<bridgeVars, sender, sent, inbox, buffer, got, unread>>

\* handle_downstream_read, handle_upstream_read: write what was read.  On a socket
\* closed meanwhile the write fails at once.
HandleRead(l) ==
    /\ loop[l] = "read"
    /\ loop' = [loop EXCEPT ![l] = IF open[l[1]] THEN "writing" ELSE "failed"]
    /\ UNCHANGED <<bridgeVars, sender, sent, inbox, buffer, got, unread>>

\* Mutant: a write_some in the place of async_write.
WriteOnce(l) ==
    /\ loop[l] = "writing"
    /\ Receiver(l) = "up"
    /\ unread[l] < Window
    /\ \E n \in 1..Len(buffer[l]) :
          /\ n <= Window - unread[l]
          /\ got' = [got EXCEPT ![l] = @ \o Upto(buffer[l], n)]
          /\ unread' = [unread EXCEPT ![l] = @ + n]
    /\ buffer' = [buffer EXCEPT ![l] = <<>>]
    /\ loop' = [loop EXCEPT ![l] = "written"]
    /\ UNCHANGED <<bridgeVars, sender, sent, inbox>>

\* Part of async_write: TCP takes some of the bytes, and the operation completes
\* when it has taken all.
WriteSome(l) ==
    /\ loop[l] = "writing"
    /\ Receiver(l) = "up"
    /\ \E n \in 1..Len(buffer[l]) :
          /\ n <= Window - unread[l]
          /\ got' = [got EXCEPT ![l] = @ \o Upto(buffer[l], n)]
          /\ unread' = [unread EXCEPT ![l] = @ + n]
          /\ buffer' = [buffer EXCEPT ![l] = After(@, n)]
          /\ loop' = [loop EXCEPT ![l] = IF n = Len(buffer[l]) THEN "written" ELSE "writing"]
    /\ UNCHANGED <<bridgeVars, sender, sent, inbox>>

\* The end has gone: TCP may not know yet, and take the bytes for nothing.
WriteInVain(l) ==
    /\ loop[l] = "writing"
    /\ Receiver(l) # "up"
    /\ buffer' = [buffer EXCEPT ![l] = <<>>]
    /\ loop' = [loop EXCEPT ![l] = "written"]
    /\ UNCHANGED <<bridgeVars, sender, sent, inbox, got, unread>>

WriteError(l) ==
    /\ loop[l] = "writing"
    /\ Receiver(l) # "up"
    /\ loop' = [loop EXCEPT ![l] = "failed"]
    /\ UNCHANGED <<bridgeVars, sender, sent, inbox, buffer, got, unread>>

\* handle_downstream_write, handle_upstream_write: read again.
HandleWritten(l) ==
    /\ loop[l] = "written"
    /\ loop' = [loop EXCEPT ![l] = IF open[l[1]] THEN "reading" ELSE "failed"]
    /\ UNCHANGED <<bridgeVars, sender, sent, inbox, buffer, got, unread>>

\* Mutant: close is not followed by the end of the bridge's other operation.
HandleErrorLeak(l) ==
    /\ loop[l] = "failed"
    /\ loop' = [loop EXCEPT ![l] = "ended"]
    /\ open' = [open EXCEPT ![l[1]] = FALSE]
    /\ UNCHANGED <<accepting, stage, sender, sent, inbox, buffer, got, unread>>

\* Any handler with an error: close both sockets.  What the other loop has
\* outstanding is aborted; what it has completed still gets its handler.  When
\* both loops have ended nothing refers to the bridge, and it is destroyed.
HandleError(l) ==
    /\ loop[l] = "failed"
    /\ open' = [open EXCEPT ![l[1]] = FALSE]
    /\ loop' = [loop EXCEPT ![l] = "ended",
                            ![Rev(l)] = IF @ \in {"reading", "writing"} THEN "failed" ELSE @]
    /\ stage' = [stage EXCEPT ![l[1]] = IF loop[Rev(l)] = "ended" THEN "over" ELSE @]
    /\ UNCHANGED <<accepting, sender, sent, inbox, buffer, got, unread>>

-----------------------------------------------------------------------------

ProxyInit ==
    /\ accepting = TRUE
    /\ stage = [b \in Bridges |-> "none"]
    /\ open = [b \in Bridges |-> FALSE]
    /\ sender = [l \in Links |-> "up"]
    /\ sent = [l \in Links |-> <<>>]
    /\ inbox = [l \in Links |-> <<>>]
    /\ loop = [l \in Links |-> "off"]
    /\ buffer = [l \in Links |-> <<>>]
    /\ got = [l \in Links |-> <<>>]
    /\ unread = [l \in Links |-> 0]

LinkStep(l) ==
    \/ ReadSome(l)
    \/ ReadError(l)
    \/ HandleRead(l)
    \/ WriteSome(l)
    \/ WriteInVain(l)
    \/ WriteError(l)
    \/ HandleWritten(l)
    \/ HandleError(l)

BridgeStep(b) == Accept(b) \/ Start(b) \/ Refused(b)

ProxyNext ==
    \/ \E b \in Bridges : Connect(b) \/ BridgeStep(b)
    \/ \E l \in Links : Send(l) \/ Take(l) \/ Leave(l) \/ LinkStep(l)
    \/ AcceptError

ProxySpec == ProxyInit /\ [][ProxyNext]_proxyVars

\* Operations complete and handlers are called.
HandlersRun ==
    /\ \A l \in Links : WF_proxyVars(LinkStep(l))
    /\ \A b \in Bridges : WF_proxyVars(BridgeStep(b))

\* The ATM and the bank take what they are sent: either program reads when it is
\* not busy with what it read before.
EndsRead == \A l \in Links : WF_proxyVars(Take(l))

ProxyFairSpec == ProxySpec /\ HandlersRun /\ EndsRead

-----------------------------------------------------------------------------
(* Properties *)

ProxyTypeOK ==
    /\ accepting \in BOOLEAN
    /\ stage \in [Bridges -> {"none", "backlog", "connecting", "relaying", "over"}]
    /\ open \in [Bridges -> BOOLEAN]
    /\ sender \in [Links -> {"up", "closed", "reset"}]
    /\ sent \in [Links -> Seq(Links \X Nat)]
    /\ inbox \in [Links -> Seq(Links \X Nat)]
    /\ loop \in [Links -> LoopSteps]
    /\ buffer \in [Links -> Seq(Links \X Nat)]
    /\ \A l \in Links : Len(buffer[l]) <= MaxData
    /\ got \in [Links -> Seq(Links \X Nat)]
    /\ unread \in [Links -> 0..Window]

\* Whatever was sent to an end that is still there is, as long as the bridge is
\* open, delivered, in the direction's buffer, or waiting to be read, in this
\* order: the two loops and their partial writes lose, repeat and mix up nothing.
NothingLostWhileOpen ==
    \A l \in Links : open[l[1]] /\ Receiver(l) = "up" =>
        sent[l] = got[l] \o buffer[l] \o inbox[l]

\* A bridge is closed only after one of its ends has left, or the bank could not
\* be reached.
ClosesForCause ==
    [][\A b \in Bridges : open[b] /\ ~open'[b] =>
          \/ stage[b] = "connecting"
          \/ \E l \in Links : l[1] = b /\ sender[l] # "up"]_proxyVars

\* The last words of an end that closes its connection are delivered before the
\* bridge closes on the other end, if that end is there and has had everything it
\* said itself delivered.  (An ATM leaves when it has its answer.)
LastWordsDelivered ==
    [][\A l \in Links :
          /\ stage[l[1]] = "relaying"
          /\ open[l[1]] /\ ~open'[l[1]]
          /\ sender[l] = "closed" /\ Receiver(l) = "up"
          /\ got[Rev(l)] = sent[Rev(l)]
          => got[l] = sent[l]]_proxyVars

\* A link delivers a prefix of what was sent on it, and of nothing else.
AllBytes == UNION {{l} \X (1..MaxSent[l]) : l \in Links}
Abs == INSTANCE Relay WITH Bytes <- AllBytes
ImplementsRelay == Abs!RelaySpec

\* What is sent on an accepted connection arrives, unless the bridge is closed.
SentArrives ==
    \A l \in Links : \A n \in 1..MaxSent[l] :
        Len(sent[l]) >= n /\ stage[l[1]] # "backlog"
            ~> Len(got[l]) >= n \/ ~open[l[1]] \/ Receiver(l) # "up"

\* When one end of a bridge has left, the other is told: the sockets are closed and
\* the bridge is destroyed.
EndsTogether ==
    \A b \in Bridges :
        stage[b] # "backlog" /\ (\E l \in Links : l[1] = b /\ sender[l] # "up") ~> stage[b] = "over"

\* An ATM that has connected gets its bridge, whatever happens to the other
\* bridges, as long as accepting itself does not fail.
BacklogAccepted ==
    \A b \in Bridges : stage[b] = "backlog" ~> stage[b] # "backlog" \/ ~accepting
=============================================================================
