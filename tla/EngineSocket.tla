---------------------------- MODULE EngineSocket ----------------------------
(***************************************************************************)
(* FDkUnrealWebSocketProvider (Private/DkUnrealProviders.cpp): a blocking  *)
(* WebSocketProvider over a socket that lives on the game thread.  connect *)
(* makes a new FState, has the game thread create the socket and waits for *)
(* both with a bound; the delegates put the frames together into messages; *)
(* receive takes them; close lets go of the state and leaves the socket to *)
(* the game thread.  The game thread may run a posted task at any time     *)
(* later, also after the worker gave up waiting for it.                    *)
(* A message is <<number, units it has>>, a frame <<number, units left     *)
(* after it>>; sizes are counted in units of the limits.                   *)
(***************************************************************************)
EXTENDS Naturals, Sequences, SequencesExt

CONSTANTS
    MaxMessage,    \* MaxMessageBytes
    MaxQueued,     \* MaxQueuedBytes
    Sizes,         \* the sizes of the messages the peer sends, in order
    MaxConns       \* bound: connects

ASSUME SocketAssumption ==
    /\ MaxMessage \in Nat \ {0} /\ MaxQueued \in Nat
    /\ Sizes \in Seq(Nat \ {0})
    /\ MaxConns \in Nat

VARIABLES
    state,         \* the number of the FState the provider holds
    fstate,        \* every FState made so far
    caller,        \* where the worker is in connect or receive
    tasks,         \* what the game thread was asked to run
    socket,        \* the engine's socket of each FState and its delegates
    peer,          \* what the peer has sent on the connection: message, units left
    got            \* history: what receive returned

socketVars == <<state, fstate, caller, tasks, socket, peer, got>>

NoState == 0
NewState == [hasSocket |-> FALSE, connected |-> FALSE, errored |-> FALSE,
             closed |-> FALSE, messages |-> <<>>, partial |-> <<>>]
Conns == 1..Len(fstate)

SocketInit ==
    /\ state = NoState
    /\ fstate = <<>>
    /\ caller = "out"
    /\ tasks = {}
    /\ socket = <<>>
    /\ peer = <<>>
    /\ got = <<>>

----------------------------------------------------------------------------
(* The worker *)

\* (bug) the socket is dropped with the last reference to it.
ReleaseOnly(n) ==
    /\ state' = NoState
    /\ fstate' = [fstate EXCEPT ![n].closed = TRUE, ![n].hasSocket = FALSE]
    /\ tasks' = tasks

\* close() of a state that is held: the game thread is asked to close the socket.
Release(n) ==
    /\ state' = NoState
    /\ fstate' = [fstate EXCEPT ![n].closed = TRUE, ![n].hasSocket = FALSE]
    /\ tasks' = IF fstate[n].hasSocket THEN tasks \cup {<<"close", n>>} ELSE tasks

Close ==
    /\ caller = "out" /\ state # NoState
    /\ Release(state)
    /\ UNCHANGED <<caller, socket, peer, got>>

\* connect() after the close() it begins with.
Connect ==
    /\ caller = "out" /\ state = NoState
    /\ Len(fstate) < MaxConns
    /\ fstate' = Append(fstate, NewState)
    /\ socket' = Append(socket, "none")
    /\ peer' = Append(peer, <<0, 0>>)
    /\ got' = Append(got, <<>>)
    /\ state' = Len(fstate')
    /\ tasks' = tasks \cup {<<"create", Len(fstate')>>}
    /\ caller' = "creating"

\* RunOnGameThreadAndWait returns: the task ran, or its bound or the token came.
CreateOver ==
    /\ caller = "creating"
    /\ IF <<"create", state>> \in tasks
         THEN caller' = "out" /\ state' = NoState
         ELSE caller' = "connecting" /\ UNCHANGED state
    /\ UNCHANGED <<fstate, tasks, socket, peer, got>>

\* The wait for ConnectEvent is over; without a connection the state is closed.
ConnectOver ==
    /\ caller = "connecting"
    /\ caller' = "out"
    /\ IF fstate[state].connected
         THEN UNCHANGED <<state, fstate, tasks>>
         ELSE Release(state)
    /\ UNCHANGED <<socket, peer, got>>

\* receive() takes a queued message before it looks at errored or closed; without
\* one it fails, is cancelled or times out, and changes nothing.
Receive ==
    /\ caller = "out" /\ state # NoState
    /\ fstate[state].messages # <<>>
    /\ got' = [got EXCEPT ![state] = Append(@, Head(fstate[state].messages))]
    /\ fstate' = [fstate EXCEPT ![state].messages = Tail(@)]
    /\ UNCHANGED <<state, caller, tasks, socket, peer>>

----------------------------------------------------------------------------
(* The game thread and the network *)

RunCreate(n) ==
    /\ <<"create", n>> \in tasks
    /\ tasks' = tasks \ {<<"create", n>>}
    /\ socket' = [socket EXCEPT ![n] = "connecting"]
    /\ fstate' = [fstate EXCEPT ![n].hasSocket = TRUE]
    /\ UNCHANGED <<state, caller, peer, got>>

\* The delegates are unbound and an open socket is closed.
RunClose(n) ==
    /\ <<"close", n>> \in tasks
    /\ tasks' = tasks \ {<<"close", n>>}
    /\ socket' = [socket EXCEPT ![n] = "gone"]
    /\ UNCHANGED <<state, fstate, caller, peer, got>>

OnConnected(n) ==
    /\ socket[n] = "connecting"
    /\ socket' = [socket EXCEPT ![n] = "open"]
    /\ fstate' = [fstate EXCEPT ![n].connected = TRUE]
    /\ UNCHANGED <<state, caller, tasks, peer, got>>

OnConnectionError(n) ==
    /\ socket[n] = "connecting"
    /\ socket' = [socket EXCEPT ![n] = "down"]
    /\ fstate' = [fstate EXCEPT ![n].errored = TRUE]
    /\ UNCHANGED <<state, caller, tasks, peer, got>>

OnClosed(n) ==
    /\ socket[n] = "open"
    /\ socket' = [socket EXCEPT ![n] = "down"]
    /\ fstate' = [fstate EXCEPT ![n].closed = TRUE]
    /\ UNCHANGED <<state, caller, tasks, peer, got>>

\* The next frame the peer sends: the number of its message, its units, the rest.
NextFrames(n) ==
    LET m == peer[n][1]  left == peer[n][2]
    IN  IF left > 0 THEN {<<m, u, left - u>> : u \in 1..left}
        ELSE IF m < Len(Sizes) THEN {<<m + 1, u, Sizes[m + 1] - u>> : u \in 1..Sizes[m + 1]}
        ELSE {}

QueuedUnits(f) == FoldLeft(LAMBDA n, msg : n + Len(msg), 0, f.messages)

Units(m, k) == [i \in 1..k |-> m]

TooMuch(f, units, rest) ==
    Len(f.partial) + units + rest > MaxMessage \/ QueuedUnits(f) > MaxQueued

\* (bug) the text delegate queues the message as well.
OnRawMessageTwice(n) ==
    /\ socket[n] = "open"
    /\ \E fr \in NextFrames(n) :
        LET f == fstate[n]
            whole == f.partial \o Units(fr[1], fr[2])
        IN  /\ peer' = [peer EXCEPT ![n] = <<fr[1], fr[3]>>]
            /\ fstate' = [fstate EXCEPT ![n] =
                   IF TooMuch(f, fr[2], fr[3]) THEN [f EXCEPT !.errored = TRUE]
                   ELSE IF fr[3] > 0 THEN [f EXCEPT !.partial = whole]
                   ELSE [f EXCEPT !.partial = <<>>, !.messages = @ \o <<whole, whole>>]]
    /\ UNCHANGED <<state, caller, tasks, socket, got>>

\* OnRawMessage: one frame of a message.  One that is too large is skipped with
\* errored set; the frames that follow it are looked at again.
OnRawMessage(n) ==
    /\ socket[n] = "open"
    /\ \E fr \in NextFrames(n) :
        LET f == fstate[n]
            whole == f.partial \o Units(fr[1], fr[2])
        IN  /\ peer' = [peer EXCEPT ![n] = <<fr[1], fr[3]>>]
            /\ fstate' = [fstate EXCEPT ![n] =
                   IF TooMuch(f, fr[2], fr[3]) THEN [f EXCEPT !.errored = TRUE]
                   ELSE IF fr[3] > 0 THEN [f EXCEPT !.partial = whole]
                   ELSE [f EXCEPT !.partial = <<>>, !.messages = Append(@, whole)]]
    /\ UNCHANGED <<state, caller, tasks, socket, got>>

----------------------------------------------------------------------------
SocketNext ==
    \/ Close \/ Connect \/ CreateOver \/ ConnectOver \/ Receive
    \/ \E n \in Conns : \/ RunCreate(n) \/ RunClose(n)
                        \/ OnConnected(n) \/ OnConnectionError(n) \/ OnClosed(n)
                        \/ OnRawMessage(n)

SocketSpec == SocketInit /\ [][SocketNext]_socketVars

----------------------------------------------------------------------------
(* Properties *)

Sent(n) == [m \in 1..Len(Sizes) |-> Units(m, Sizes[m])]

\* On a connection that met no error, receive returns the messages of the peer,
\* whole, in order and without a gap, however the engine cut them into frames; what
\* was queued when the peer closed is still returned.  (After a message that was
\* too large the tail of it may come out of receive as a message.)
WholeInOrder ==
    \A n \in Conns : ~fstate[n].errored =>
        IsPrefix(got[n] \o fstate[n].messages, Sent(n))

\* A socket that is connecting or open belongs to the state the provider holds or
\* is about to be closed, unless the game thread created it after connect had given
\* up on it: that one nobody closes any more.
SocketsOwned ==
    \A n \in Conns : socket[n] \in {"connecting", "open"} =>
        n = state \/ <<"close", n>> \in tasks \/ (fstate[n].hasSocket /\ ~fstate[n].closed)
=============================================================================
