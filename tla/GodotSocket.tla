---------------------------- MODULE GodotSocket ----------------------------
(***************************************************************************)
(* DkGodotWebSocketProvider (adapters/godot/src/dk_providers.cpp): one     *)
(* provider serves every flow of a wallet plugin, a login and a transact   *)
(* may overlap, and each call holds the mutex from its first line to its   *)
(* return, its polling included.  So a call first waits for the other's,   *)
(* its own deadline counted only from then on.  The WebSocketPeer sees the *)
(* network only when it is polled.  A packet is its number on its          *)
(* connection; Packets gives the sizes, in units of the limit.             *)
(***************************************************************************)
EXTENDS Naturals, Sequences

CONSTANTS
    Callers,       \* the workers
    Nobody,        \* the mutex is free
    MaxPacket,     \* maxMessageBytes
    Packets,       \* the sizes of what the server sends on a connection, in order
    MaxLinks,      \* bound: connections
    MaxGodotCalls  \* bound: calls, all workers together

ASSUME GodotAssumption ==
    /\ Nobody \notin Callers /\ MaxPacket \in Nat /\ Packets \in Seq(Nat)
    /\ MaxLinks \in Nat /\ MaxGodotCalls \in Nat

VARIABLES
    mutex,      \* who holds mutex_
    gcall,      \* each worker's call: what it calls and where it is
    wspeer,     \* peer_: no connection, or its ready state and packets as of the last poll
    wire,       \* the connection itself: its state, packets sent and packets not yet polled
    late,       \* the workers whose deadline has passed
    tokenOff,   \* the kit's token is cancelled
    asked,      \* calls begun
    handed      \* history: the packets receive returned, of each connection

godotVars == <<mutex, gcall, wspeer, wire, late, tokenOff, asked, handed>>

NoPeer == [link |-> 0, state |-> "null", queue |-> <<>>]
Out == [op |-> "none", at |-> "out"]

GodotInit ==
    /\ mutex = Nobody
    /\ gcall = [c \in Callers |-> Out]
    /\ wspeer = NoPeer
    /\ wire = [link |-> 0, state |-> "closed", sent |-> 0, packets |-> <<>>]
    /\ late = {} /\ tokenOff = FALSE /\ asked = 0
    /\ handed = [n \in 1..MaxLinks |-> <<>>]

----------------------------------------------------------------------------
BeginCall(c, op) ==
    /\ gcall[c].at = "out" /\ asked < MaxGodotCalls
    /\ op = "connect" => wire.link < MaxLinks
    /\ asked' = asked + 1
    /\ gcall' = [gcall EXCEPT ![c] = [op |-> op, at |-> "lock"]]
    /\ UNCHANGED <<mutex, wspeer, wire, late, tokenOff, handed>>

Unlock(c) == mutex' = Nobody /\ gcall' = [gcall EXCEPT ![c] = Out] /\ late' = late \ {c}
Polls(c) == mutex' = c /\ gcall' = [gcall EXCEPT ![c].at = "poll"] /\ UNCHANGED late

closeLocked == wspeer' = NoPeer /\ wire' = [wire EXCEPT !.state = "closed", !.packets = <<>>]

Takes(c, op) == mutex = Nobody /\ gcall[c] = [op |-> op, at |-> "lock"]

\* connect() closes what there was and asks for a connection, which may fail at once.
ConnectStarts(c) ==
    /\ Takes(c, "connect") /\ wire.link < MaxLinks
    /\ wire' = [link |-> wire.link + 1, state |-> "connecting", sent |-> 0, packets |-> <<>>]
    /\ wspeer' = [link |-> wire.link + 1, state |-> "connecting", queue |-> <<>>]
    /\ Polls(c)
    /\ UNCHANGED <<tokenOff, asked, handed>>
ConnectRefused(c) ==
    /\ Takes(c, "connect")
    /\ wire' = [wire EXCEPT !.state = "closed", !.packets = <<>>]
    /\ wspeer' = [link |-> wire.link, state |-> "closed", queue |-> <<>>]
    /\ Unlock(c)
    /\ UNCHANGED <<tokenOff, asked, handed>>

ReceiveStarts(c) ==
    /\ Takes(c, "receive")
    /\ IF wspeer.state = "null" THEN Unlock(c) ELSE Polls(c)
    /\ UNCHANGED <<wspeer, wire, tokenOff, asked, handed>>

\* What poll() makes of the peer.
Polled == [wspeer EXCEPT !.state = wire.state, !.queue = @ \o wire.packets]

\* send() looks at the state of the last poll, and polls once after it.
Send(c) ==
    /\ Takes(c, "send")
    /\ IF wspeer.state = "open"
       THEN wspeer' = Polled /\ wire' = [wire EXCEPT !.packets = <<>>]
       ELSE UNCHANGED <<wspeer, wire>>
    /\ Unlock(c)
    /\ UNCHANGED <<tokenOff, asked, handed>>

GodotClose(c) == Takes(c, "close") /\ closeLocked /\ Unlock(c) /\ UNCHANGED <<tokenOff, asked, handed>>

\* A turn of connect's loop: it ends when the connection is up or down, else when the
\* time is up or the token is cancelled.
PollConnect(c) ==
    /\ mutex = c /\ gcall[c] = [op |-> "connect", at |-> "poll"]
    /\ \/ wire.state \in {"open", "closed"} /\ wspeer' = Polled /\ wire' = [wire EXCEPT !.packets = <<>>]
       \/ wire.state = "connecting" /\ (c \in late \/ tokenOff) /\ closeLocked
    /\ Unlock(c)
    /\ UNCHANGED <<tokenOff, asked, handed>>

\* A turn of receive's loop: a packet first, whatever the state; then the connection,
\* the token, the time.  A packet that is too large is gone.
PollReceive(c) ==
    LET p == Polled
    IN  /\ mutex = c /\ gcall[c] = [op |-> "receive", at |-> "poll"]
        /\ wire' = [wire EXCEPT !.packets = <<>>]
        /\ \/ /\ p.queue # <<>>
              /\ wspeer' = [p EXCEPT !.queue = Tail(@)]
              /\ handed' = IF Packets[Head(p.queue)] > MaxPacket THEN handed
                           ELSE [handed EXCEPT ![p.link] = Append(@, Head(p.queue))]
           \/ /\ p.queue = <<>> /\ (p.state # "open" \/ tokenOff \/ c \in late)
              /\ wspeer' = p /\ UNCHANGED handed
        /\ Unlock(c)
        /\ UNCHANGED <<tokenOff, asked>>

----------------------------------------------------------------------------
(* Time, the kit and the network *)

DeadlinePasses(c) ==
    /\ gcall[c].at = "poll" /\ c \notin late
    /\ late' = late \cup {c}
    /\ UNCHANGED <<mutex, gcall, wspeer, wire, tokenOff, asked, handed>>
CancelToken == ~tokenOff /\ tokenOff' = TRUE /\ UNCHANGED <<mutex, gcall, wspeer, wire, late, asked, handed>>

Wire(w) == wire' = w /\ UNCHANGED <<mutex, gcall, wspeer, late, tokenOff, asked, handed>>
LinkOpens == wire.state = "connecting" /\ Wire([wire EXCEPT !.state = "open"])
LinkCloses == wire.state \in {"connecting", "open"} /\ Wire([wire EXCEPT !.state = "closed"])
PacketArrives ==
    /\ wire.state = "open" /\ wire.sent < Len(Packets)
    /\ Wire([wire EXCEPT !.sent = @ + 1, !.packets = Append(@, wire.sent + 1)])

CallSteps(c) == ConnectStarts(c) \/ ConnectRefused(c) \/ ReceiveStarts(c) \/ Send(c) \/ GodotClose(c)
GodotNext ==
    \/ \E c \in Callers : \/ \E op \in {"connect", "receive", "send", "close"} : BeginCall(c, op)
                          \/ CallSteps(c) \/ PollConnect(c) \/ PollReceive(c) \/ DeadlinePasses(c)
    \/ CancelToken \/ LinkOpens \/ LinkCloses \/ PacketArrives

GodotSpec == GodotInit /\ [][GodotNext]_godotVars

\* The operating system gives a free mutex to somebody and runs who has it, and time
\* passes; nothing is asked of the network.
GodotFairness ==
    \A c \in Callers : /\ WF_godotVars(CallSteps(c)) /\ WF_godotVars(DeadlinePasses(c))
                       /\ WF_godotVars(PollConnect(c) \/ PollReceive(c))

----------------------------------------------------------------------------
(* Properties *)

\* Packets that were taken one after the other, only those too large missing.
TakenInOrder(took) ==
    /\ \A i, j \in DOMAIN took : i < j => took[i] < took[j]
    /\ \A i \in DOMAIN took : \A p \in 1..took[i] :
          Packets[p] <= MaxPacket <=> \E j \in 1..i : took[j] = p

\* What receive returns of one connection are the packets the server sent on it, from
\* the first, in order, only the too large ones missing, whichever workers take them and
\* however their calls interleave with a reconnect or a close: nothing of an earlier
\* connection is left in the peer.
GodotWhole == \A n \in 1..MaxLinks : TakenInOrder(handed[n])

\* Every call returns, one that waits for the mutex of another's wait too: each wait has
\* a deadline, so a close() or a second flow is held up and never locked out.
GodotCallsReturn == \A c \in Callers : (gcall[c].at # "out") ~> (gcall[c].at = "out")
=============================================================================
