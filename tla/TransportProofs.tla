--------------------------- MODULE TransportProofs ---------------------------
(***************************************************************************)
(* What the transports of the engines hand to the kit, for every limit,    *)
(* message size and number of calls: the socket behind                     *)
(* FDkUnrealWebSocketProvider and who closes it, the messages its receive  *)
(* returns, and the answer of an HTTP call whichever provider made it.     *)
(***************************************************************************)
EXTENDS Transports, SequenceTheorems, TLAPS

-----------------------------------------------------------------------------
(* The Unreal socket: types *)

Message == Seq(Nat)
FState == [hasSocket: BOOLEAN, connected: BOOLEAN, errored: BOOLEAN, closed: BOOLEAN,
           messages: Seq(Message), partial: Message]
Places == {"none", "connecting", "open", "down", "gone"}
Live == {"connecting", "open"}

\* How far the peer is: a message it has begun, and the units left of it.
Progress == [1..2 -> Nat]

\* Every connection made so far has its state, its socket, its peer and its history.
StatesOK == fstate \in Seq(FState) /\ state \in 0..Len(fstate)
HistoryOK ==
    /\ socket \in Seq(Places) /\ peer \in Seq(Progress) /\ got \in Seq(Seq(Message))
    /\ Len(socket) = Len(fstate) /\ Len(peer) = Len(fstate) /\ Len(got) = Len(fstate)
WorkOK ==
    /\ caller \in {"out", "creating", "connecting"}
    /\ caller # "out" => state # NoState
    /\ tasks \subseteq {"create", "close"} \X Conns

SocketTypes == StatesOK /\ HistoryOK /\ WorkOK

\* A state whose socket the game thread has not created yet is untouched, and the
\* worker that holds it still waits for the task; only a closed one is to be closed.
TasksFit ==
    \A n \in Conns :
        /\ <<"create", n>> \in tasks =>
              /\ socket[n] = "none" /\ ~fstate[n].closed
              /\ n = state => caller = "creating"
        /\ <<"close", n>> \in tasks => fstate[n].closed

\* The state that is held knows of its socket.
HeldKnown == state # NoState /\ socket[state] \in Live => fstate[state].hasSocket

OwnInv == SocketTypes /\ TasksFit /\ HeldKnown /\ SocketsOwned

-----------------------------------------------------------------------------
\* One state changes, none is added.
LEMMA StateChanges ==
    ASSUME StatesOK, NEW n \in Conns, NEW f \in FState, fstate' = [fstate EXCEPT ![n] = f],
           state' \in 0..Len(fstate)
    PROVE  /\ StatesOK' /\ Len(fstate') = Len(fstate) /\ Conns' = Conns
           /\ fstate'[n] = f /\ \A k \in Conns \ {n} : fstate'[k] = fstate[k]
BY DEF StatesOK, Conns

\* The socket of one state changes.
LEMMA PlaceChanges ==
    ASSUME SocketTypes, NEW n \in Conns, NEW p \in Places, socket' = [socket EXCEPT ![n] = p]
    PROVE  /\ socket' \in Seq(Places) /\ Len(socket') = Len(socket)
           /\ socket'[n] = p /\ \A k \in Conns \ {n} : socket'[k] = socket[k]
BY DEF SocketTypes, HistoryOK, Conns

\* Before Connect() there is no socket and nobody holds one.
LEMMA OwnStarts == SocketInit => OwnInv
<1> SUFFICES ASSUME SocketInit PROVE OwnInv
  OBVIOUS
<1> USE DEF SocketInit
<1>1. Len(fstate) = 0 /\ Conns = {}
  BY DEF Conns
<1>2. SocketTypes
  BY <1>1 DEF SocketTypes, StatesOK, HistoryOK, WorkOK, NoState
<1> QED BY <1>1, <1>2 DEF OwnInv, TasksFit, HeldKnown, SocketsOwned

\* close() of the state that is held.
LEMMA ReleaseOwns ==
    ASSUME OwnInv, state # NoState, caller # "creating", Release(state),
           caller' = "out", UNCHANGED <<socket, peer, got>>
    PROVE  OwnInv'
<1> DEFINE n == state
           f == [fstate[n] EXCEPT !.closed = TRUE, !.hasSocket = FALSE]
<1>1. SocketTypes /\ n \in Conns /\ fstate[n] \in FState
  BY DEF OwnInv, SocketTypes, StatesOK, Conns, NoState
<1>2. f \in FState /\ f.closed /\ ~f.hasSocket
  BY <1>1 DEF FState
<1>3. fstate' = [fstate EXCEPT ![n] = f] /\ state' = NoState
  BY DEF Release
<1> HIDE DEF f
<1>4. /\ StatesOK' /\ Len(fstate') = Len(fstate) /\ Conns' = Conns
      /\ fstate'[n] = f /\ \A k \in Conns \ {n} : fstate'[k] = fstate[k]
  <2>1. StatesOK /\ state' \in 0..Len(fstate)
    BY <1>1, <1>3 DEF SocketTypes, StatesOK, NoState
  <2>2. ASSUME NEW m \in Conns, m = n
        PROVE  /\ StatesOK' /\ Len(fstate') = Len(fstate) /\ Conns' = Conns
               /\ fstate'[m] = f /\ \A k \in Conns \ {m} : fstate'[k] = fstate[k]
    BY <1>2, <1>3, <2>1, <2>2, StateChanges
  <2> QED BY <1>1, <2>2
<1>5. /\ tasks \subseteq tasks'
      /\ fstate[n].hasSocket => <<"close", n>> \in tasks'
      /\ \A t \in tasks' : t \in tasks \/ t = <<"close", n>>
  BY DEF Release
<1>6. SocketTypes'
  BY <1>1, <1>4, <1>5 DEF SocketTypes, HistoryOK, WorkOK
<1>7. TasksFit'
  <2>1. ASSUME NEW k \in Conns, <<"create", k>> \in tasks'
        PROVE  socket[k] = "none" /\ ~fstate'[k].closed /\ k # n
    BY <1>4, <1>5, <2>1 DEF OwnInv, TasksFit
  <2>2. ASSUME NEW k \in Conns, <<"close", k>> \in tasks' PROVE fstate'[k].closed
    BY <1>2, <1>4, <1>5, <2>2 DEF OwnInv, TasksFit
  <2>3. \A k \in Conns : k # state'
    BY <1>3 DEF Conns, NoState
  <2> QED BY <1>4, <2>1, <2>2, <2>3 DEF TasksFit
<1>8. SocketsOwned'
  <2> SUFFICES ASSUME NEW k \in Conns, socket[k] \in Live
               PROVE  <<"close", k>> \in tasks' \/ (fstate'[k].hasSocket /\ ~fstate'[k].closed)
    BY <1>4 DEF SocketsOwned, Live
  <2>1. CASE k = n
    BY <1>1, <1>5, <2>1 DEF OwnInv, HeldKnown
  <2>2. CASE k # n
    <3>1. \/ <<"close", k>> \in tasks
          \/ fstate[k].hasSocket /\ ~fstate[k].closed
      BY <2>2 DEF OwnInv, SocketsOwned, Live
    <3> QED BY <1>4, <1>5, <2>2, <3>1
  <2> QED BY <2>1, <2>2
<1> QED BY <1>3, <1>6, <1>7, <1>8 DEF OwnInv, HeldKnown

\* The worker's connect, up to its first wait.
LEMMA ConnectOwns ==
    ASSUME OwnInv, Connect PROVE OwnInv'
<1> DEFINE n == Len(fstate) + 1
<1>1. /\ caller' = "creating" /\ state = NoState /\ SocketTypes
      /\ fstate' = Append(fstate, NewState) /\ socket' = Append(socket, "none")
      /\ peer' = Append(peer, <<0, 0>>) /\ got' = Append(got, <<>>)
      /\ state' = Len(fstate') /\ tasks' = tasks \cup {<<"create", Len(fstate')>>}
  BY DEF Connect, OwnInv
<1>2. NewState \in FState /\ <<0, 0>> \in Progress /\ "none" \in Places /\ <<>> \in Seq(Message)
      /\ ~NewState.closed
  BY DEF NewState, FState, Message, Progress, Places
<1>3. /\ fstate' \in Seq(FState) /\ Len(fstate') = n /\ fstate'[n] = NewState
      /\ \A k \in Conns : fstate'[k] = fstate[k]
  BY <1>1, <1>2 DEF SocketTypes, StatesOK, Conns
<1>4. /\ socket' \in Seq(Places) /\ Len(socket') = n /\ socket'[n] = "none"
      /\ \A k \in Conns : socket'[k] = socket[k]
  BY <1>1, <1>2 DEF SocketTypes, StatesOK, HistoryOK, Conns
<1>5. /\ peer' \in Seq(Progress) /\ Len(peer') = n /\ got' \in Seq(Seq(Message)) /\ Len(got') = n
  BY <1>1, <1>2 DEF SocketTypes, StatesOK, HistoryOK
<1>6. Conns' = Conns \cup {n} /\ n \notin Conns /\ n \in Nat \ {0} /\ state' = n
  BY <1>1, <1>3 DEF SocketTypes, StatesOK, Conns
<1> HIDE DEF n
<1>7. SocketTypes'
  BY <1>1, <1>3, <1>4, <1>5, <1>6 DEF SocketTypes, StatesOK, HistoryOK, WorkOK, NoState
<1>8. tasks' = tasks \cup {<<"create", n>>} /\ \A t \in tasks : t[2] \in Conns
  BY <1>1, <1>3 DEF SocketTypes, WorkOK
<1>9. TasksFit'
  BY <1>1, <1>2, <1>3, <1>4, <1>6, <1>8 DEF TasksFit, OwnInv, Conns, NoState
<1>10. SocketsOwned'
  BY <1>1, <1>3, <1>4, <1>6, <1>8 DEF SocketsOwned, OwnInv, Conns, NoState
<1>11. HeldKnown'
  BY <1>4, <1>6 DEF HeldKnown, Live
<1> QED BY <1>7, <1>9, <1>10, <1>11 DEF OwnInv

\* A step that leaves the worker and the tasks alone, and neither opens a socket nor
\* closes the state of an open one.
LEMMA OwnersStay ==
    ASSUME OwnInv, SocketTypes', UNCHANGED <<state, caller, tasks>>, Conns' = Conns,
           \A k \in Conns :
              /\ fstate'[k].hasSocket = fstate[k].hasSocket
              /\ fstate[k].closed => fstate'[k].closed
              /\ fstate'[k].closed => fstate[k].closed \/ socket'[k] \notin Live \cup {"none"}
              /\ socket'[k] \in Live => socket[k] \in Live
              /\ socket[k] = "none" => socket'[k] = "none"
    PROVE  OwnInv'
<1>1. TasksFit'
  BY DEF TasksFit, OwnInv
<1>2. HeldKnown'
  BY DEF HeldKnown, OwnInv, SocketTypes, StatesOK, Conns, NoState
<1>3. SocketsOwned'
  BY DEF SocketsOwned, OwnInv, Live
<1> QED BY <1>1, <1>2, <1>3 DEF OwnInv

\* The game thread's create task is over, or connect gave up on it.
LEMMA CreateOverOwns ==
    ASSUME OwnInv, CreateOver PROVE OwnInv'
<1>1. /\ caller = "creating" /\ UNCHANGED <<fstate, tasks, socket, peer, got>>
      /\ \/ <<"create", state>> \in tasks /\ caller' = "out" /\ state' = NoState
         \/ <<"create", state>> \notin tasks /\ caller' = "connecting" /\ UNCHANGED state
  BY DEF CreateOver
<1>2. SocketTypes /\ state \in Conns
  BY <1>1 DEF OwnInv, SocketTypes, StatesOK, WorkOK, Conns, NoState
<1>3. SocketTypes'
  BY <1>1, <1>2 DEF SocketTypes, StatesOK, HistoryOK, WorkOK, Conns, NoState
<1>4. TasksFit'
  <2>1. ASSUME NEW k \in Conns, <<"create", k>> \in tasks
        PROVE  /\ socket[k] = "none" /\ ~fstate[k].closed
               /\ k = state' => caller' = "creating"
    <3>1. socket[k] = "none" /\ ~fstate[k].closed
      BY <2>1 DEF OwnInv, TasksFit
    <3>2. k # NoState
      BY DEF Conns, NoState
    <3>3. k # state'
      BY <1>1, <2>1, <3>2
    <3> QED BY <3>1, <3>3
  <2>2. ASSUME NEW k \in Conns, <<"close", k>> \in tasks PROVE fstate[k].closed
    BY <2>2 DEF OwnInv, TasksFit
  <2> QED BY <1>1, <2>1, <2>2 DEF TasksFit, Conns
<1>5. HeldKnown'
  BY <1>1 DEF OwnInv, HeldKnown
<1>6. SocketsOwned'
  BY <1>1, <1>2 DEF OwnInv, SocketsOwned, TasksFit, Conns
<1> QED BY <1>3, <1>4, <1>5, <1>6 DEF OwnInv

\* The bounded wait for the connection is over.
LEMMA ConnectOverOwns ==
    ASSUME OwnInv, ConnectOver PROVE OwnInv'
<1>1. caller = "connecting" /\ caller' = "out" /\ UNCHANGED <<socket, peer, got>> /\ SocketTypes
  BY DEF ConnectOver, OwnInv
<1>2. state # NoState
  BY <1>1 DEF SocketTypes, WorkOK
<1>3. CASE Release(state)
  BY <1>1, <1>2, <1>3, ReleaseOwns
<1>4. CASE UNCHANGED <<state, fstate, tasks>>
  <2>1. SocketTypes'
    BY <1>1, <1>4 DEF SocketTypes, StatesOK, HistoryOK, WorkOK, Conns
  <2>2. TasksFit'
    BY <1>1, <1>4 DEF OwnInv, TasksFit, Conns
  <2> QED BY <1>1, <1>4, <2>1, <2>2 DEF OwnInv, HeldKnown, SocketsOwned, Conns
<1> QED BY <1>3, <1>4 DEF ConnectOver

\* receive() takes the first message.
LEMMA ReceiveOwns ==
    ASSUME OwnInv, Receive PROVE OwnInv'
<1> DEFINE n == state
           f == [fstate[n] EXCEPT !.messages = Tail(@)]
<1>1. /\ SocketTypes /\ n \in Conns /\ fstate[n] \in FState /\ fstate[n].messages # <<>>
      /\ UNCHANGED <<state, caller, tasks, socket, peer>>
  BY DEF Receive, OwnInv, SocketTypes, StatesOK, Conns, NoState
<1>2. fstate[n].messages \in Seq(Message) /\ got[n] \in Seq(Message)
  BY <1>1 DEF FState, SocketTypes, HistoryOK, Conns
<1>3. Tail(fstate[n].messages) \in Seq(Message) /\ Head(fstate[n].messages) \in Message
  BY <1>1, <1>2
<1>4. f \in FState /\ f.hasSocket = fstate[n].hasSocket /\ f.closed = fstate[n].closed
  BY <1>1, <1>3 DEF FState
<1>5. fstate' = [fstate EXCEPT ![n] = f]
  BY DEF Receive
<1>6. Append(got[n], Head(fstate[n].messages)) \in Seq(Message)
  BY <1>2, <1>3
<1>7. got' = [got EXCEPT ![n] = Append(got[n], Head(fstate[n].messages))]
  BY DEF Receive
<1> HIDE DEF f
<1>8. StatesOK' /\ Len(fstate') = Len(fstate) /\ Conns' = Conns
      /\ fstate'[n] = f /\ \A k \in Conns \ {n} : fstate'[k] = fstate[k]
  BY <1>1, <1>4, <1>5 DEF SocketTypes, StatesOK, Conns
<1>9. got' \in Seq(Seq(Message)) /\ Len(got') = Len(got)
  BY <1>1, <1>6, <1>7 DEF SocketTypes, HistoryOK, Conns
<1>10. SocketTypes'
  BY <1>1, <1>8, <1>9 DEF SocketTypes, HistoryOK, WorkOK
<1> QED BY <1>1, <1>4, <1>8, <1>10, OwnersStay

\* The game thread creates the socket: of a state that is held, or of one connect
\* gave up on.
LEMMA RunCreateOwns ==
    ASSUME OwnInv, NEW n \in Conns, RunCreate(n) PROVE OwnInv'
<1> DEFINE f == [fstate[n] EXCEPT !.hasSocket = TRUE]
<1>1. /\ SocketTypes /\ fstate[n] \in FState /\ <<"create", n>> \in tasks
      /\ UNCHANGED <<state, caller, peer, got>> /\ fstate' = [fstate EXCEPT ![n] = f]
      /\ tasks' = tasks \ {<<"create", n>>} /\ socket' = [socket EXCEPT ![n] = "connecting"]
  BY DEF RunCreate, OwnInv, SocketTypes, StatesOK, Conns
<1>2. f \in FState /\ f.hasSocket /\ ~f.closed
  BY <1>1 DEF FState, OwnInv, TasksFit
<1> HIDE DEF f
<1>3. /\ StatesOK' /\ Len(fstate') = Len(fstate) /\ Conns' = Conns
      /\ fstate'[n] = f /\ \A k \in Conns \ {n} : fstate'[k] = fstate[k]
  BY <1>1, <1>2, StateChanges DEF SocketTypes, StatesOK
<1>4. /\ socket' \in Seq(Places) /\ Len(socket') = Len(socket)
      /\ \A k \in Conns \ {n} : socket'[k] = socket[k]
  BY <1>1, PlaceChanges DEF Places
<1>5. SocketTypes'
  BY <1>1, <1>3, <1>4 DEF SocketTypes, HistoryOK, WorkOK
<1>6. TasksFit'
  BY <1>1, <1>3, <1>4 DEF OwnInv, TasksFit
<1>7. HeldKnown'
  BY <1>1, <1>2, <1>3, <1>4 DEF OwnInv, HeldKnown, SocketTypes, StatesOK, Conns, NoState
<1>8. SocketsOwned'
  BY <1>1, <1>2, <1>3, <1>4 DEF OwnInv, SocketsOwned
<1> QED BY <1>5, <1>6, <1>7, <1>8 DEF OwnInv

\* The game thread unbinds the delegates and closes the socket.
LEMMA RunCloseOwns ==
    ASSUME OwnInv, NEW n \in Conns, RunClose(n) PROVE OwnInv'
<1>1. /\ SocketTypes /\ <<"close", n>> \in tasks /\ UNCHANGED <<state, fstate, caller, peer, got>>
      /\ tasks' = tasks \ {<<"close", n>>} /\ socket' = [socket EXCEPT ![n] = "gone"]
  BY DEF RunClose, OwnInv
<1>2. /\ socket' \in Seq(Places) /\ Len(socket') = Len(socket)
      /\ socket'[n] = "gone" /\ \A k \in Conns \ {n} : socket'[k] = socket[k]
  BY <1>1, PlaceChanges DEF Places
<1>3. SocketTypes'
  BY <1>1, <1>2 DEF SocketTypes, StatesOK, HistoryOK, WorkOK, Conns
<1>4. TasksFit'
  BY <1>1, <1>2 DEF OwnInv, TasksFit, Conns
<1>5. HeldKnown'
  BY <1>1, <1>2 DEF OwnInv, HeldKnown, Live, SocketTypes, StatesOK, Conns, NoState
<1>6. SocketsOwned'
  BY <1>1, <1>2 DEF OwnInv, SocketsOwned, Conns
<1> QED BY <1>3, <1>4, <1>5, <1>6 DEF OwnInv

\* The engine tells the delegates that the socket is connected, failed, or was closed.
LEMMA DelegatesOwn ==
    ASSUME OwnInv, NEW n \in Conns, OnConnected(n) \/ OnConnectionError(n) \/ OnClosed(n)
    PROVE  OwnInv'
<1>1. /\ SocketTypes /\ fstate[n] \in FState /\ UNCHANGED <<state, caller, tasks, peer, got>>
      /\ socket[n] \in Live
  BY DEF OnConnected, OnConnectionError, OnClosed, OwnInv, SocketTypes, StatesOK, Conns, Live
<1>2. PICK f \in FState, p \in {"open", "down"} :
         /\ fstate' = [fstate EXCEPT ![n] = f] /\ socket' = [socket EXCEPT ![n] = p]
         /\ f.hasSocket = fstate[n].hasSocket
         /\ fstate[n].closed => f.closed
         /\ f.closed => fstate[n].closed \/ p = "down"
  <2>1. CASE OnConnected(n)
    <3> DEFINE f == [fstate[n] EXCEPT !.connected = TRUE]
    <3>1. /\ f \in FState /\ f.hasSocket = fstate[n].hasSocket /\ f.closed = fstate[n].closed
          /\ fstate' = [fstate EXCEPT ![n] = f] /\ socket' = [socket EXCEPT ![n] = "open"]
      BY <1>1, <2>1 DEF OnConnected, FState
    <3> QED BY <3>1
  <2>2. CASE OnConnectionError(n)
    <3> DEFINE f == [fstate[n] EXCEPT !.errored = TRUE]
    <3>1. /\ f \in FState /\ f.hasSocket = fstate[n].hasSocket /\ f.closed = fstate[n].closed
          /\ fstate' = [fstate EXCEPT ![n] = f] /\ socket' = [socket EXCEPT ![n] = "down"]
      BY <1>1, <2>2 DEF OnConnectionError, FState
    <3> QED BY <3>1
  <2>3. CASE OnClosed(n)
    <3> DEFINE f == [fstate[n] EXCEPT !.closed = TRUE]
    <3>1. /\ f \in FState /\ f.hasSocket = fstate[n].hasSocket /\ f.closed
          /\ fstate' = [fstate EXCEPT ![n] = f] /\ socket' = [socket EXCEPT ![n] = "down"]
      BY <1>1, <2>3 DEF OnClosed, FState
    <3> QED BY <3>1
  <2> QED BY <2>1, <2>2, <2>3
<1>3. /\ StatesOK' /\ Len(fstate') = Len(fstate) /\ Conns' = Conns
      /\ fstate'[n] = f /\ \A k \in Conns \ {n} : fstate'[k] = fstate[k]
  BY <1>1, <1>2, StateChanges DEF SocketTypes, StatesOK
<1>4. /\ socket' \in Seq(Places) /\ Len(socket') = Len(socket) /\ socket'[n] = p
      /\ \A k \in Conns \ {n} : socket'[k] = socket[k]
  BY <1>1, <1>2, PlaceChanges DEF Places
<1>5. SocketTypes'
  BY <1>1, <1>3, <1>4 DEF SocketTypes, HistoryOK, WorkOK
<1> QED BY <1>1, <1>2, <1>3, <1>4, <1>5, OwnersStay DEF Live

-----------------------------------------------------------------------------
(* The Unreal socket: frames *)

\* The units of a message, one more part of it, and nothing of it yet.
LEMMA UnitsJoin ==
    ASSUME NEW m \in Nat, NEW a \in Nat, NEW b \in Nat
    PROVE  /\ Units(m, a) \in Message /\ Len(Units(m, a)) = a
           /\ Units(m, a) \o Units(m, b) = Units(m, a + b)
           /\ Units(m, 0) = <<>>
<1>1. ASSUME NEW k \in Nat
      PROVE  /\ Units(m, k) \in Seq(Nat) /\ Len(Units(m, k)) = k
             /\ \A i \in 1..k : Units(m, k)[i] = m
  BY <1>1 DEF Units
<1>2. a + b \in Nat /\ 0 \in Nat
  OBVIOUS
<1> DEFINE s == Units(m, a) \o Units(m, b)
           t == Units(m, a + b)
<1>3. s \in Seq(Nat) /\ Len(s) = a + b /\ \A i \in 1..a + b : s[i] = m
  <2> DEFINE p == Units(m, a)
             q == Units(m, b)
  <2>1. /\ p \in Seq(Nat) /\ q \in Seq(Nat) /\ Len(p) = a /\ Len(q) = b
        /\ \A i \in 1..a : p[i] = m
        /\ \A i \in 1..b : q[i] = m
    BY <1>1
  <2>2. s = p \o q
    OBVIOUS
  <2> HIDE DEF p, q, s
  <2>3. /\ s \in Seq(Nat) /\ Len(s) = a + b
        /\ \A i \in 1..a + b : s[i] = IF i <= a THEN p[i] ELSE q[i - a]
    BY <2>1, <2>2, ConcatProperties
  <2>4. ASSUME NEW i \in 1..a + b PROVE s[i] = m
    <3>1. CASE i <= a
      BY <2>1, <2>3, <3>1
    <3>2. CASE i > a
      BY <2>1, <2>3, <3>2
    <3> QED BY <3>1, <3>2
  <2> QED BY <2>3, <2>4
<1>4. t \in Seq(Nat) /\ Len(t) = a + b /\ \A i \in 1..a + b : t[i] = m
  BY <1>1, <1>2
<1>5. s = t
  <2> HIDE DEF s, t
  <2> QED BY <1>3, <1>4, SeqEqual
<1>6. Units(m, 0) = <<>>
  BY <1>1, <1>2
<1> QED BY <1>1, <1>5, <1>6 DEF Message

\* What a frame does to the state of its connection.
Framed(f, m, u, left) ==
    IF TooMuch(f, u, left) THEN [f EXCEPT !.errored = TRUE]
    ELSE IF left > 0 THEN [f EXCEPT !.partial = f.partial \o Units(m, u)]
    ELSE [f EXCEPT !.partial = <<>>, !.messages = Append(@, f.partial \o Units(m, u))]

\* A frame is a part of the message the peer is at, or the first part of the next.
LEMMA FrameTaken ==
    ASSUME SocketTypes, NEW n \in Conns, OnRawMessage(n)
    PROVE  \E m \in Nat, u \in Nat \ {0}, left \in Nat :
              /\ \/ /\ m = peer[n][1] /\ peer[n][2] > 0
                    /\ left = peer[n][2] - u
                 \/ /\ m = peer[n][1] + 1 /\ peer[n][2] = 0 /\ m \in 1..Len(Sizes)
                    /\ left = Sizes[m] - u
              /\ peer' = [peer EXCEPT ![n] = <<m, left>>]
              /\ fstate' = [fstate EXCEPT ![n] = Framed(fstate[n], m, u, left)]
<1>1. peer[n] \in Progress /\ peer[n][1] \in Nat /\ peer[n][2] \in Nat
  BY DEF SocketTypes, HistoryOK, Conns, Progress
<1>2. PICK fr \in NextFrames(n) :
         /\ peer' = [peer EXCEPT ![n] = <<fr[1], fr[3]>>]
         /\ fstate' = [fstate EXCEPT ![n] = Framed(fstate[n], fr[1], fr[2], fr[3])]
  BY DEF OnRawMessage, Framed
<1>3. CASE peer[n][2] > 0
  <2>1. PICK u \in 1..peer[n][2] : fr = <<peer[n][1], u, peer[n][2] - u>>
    BY <1>2, <1>3 DEF NextFrames
  <2>2. u \in Nat \ {0} /\ peer[n][2] - u \in Nat
    BY <1>1, <2>1
  <2> QED BY <1>1, <1>2, <1>3, <2>1, <2>2
<1>4. CASE ~(peer[n][2] > 0)
  <2> DEFINE m == peer[n][1] + 1
  <2>1. m \in 1..Len(Sizes) /\ Sizes[m] \in Nat \ {0} /\ peer[n][1] < Len(Sizes)
    BY <1>1, <1>2, <1>4, SocketAssumption, SMTT(30) DEF NextFrames
  <2>2. PICK u \in 1..Sizes[m] : fr = <<m, u, Sizes[m] - u>>
    BY <1>2, <1>4, <2>1 DEF NextFrames
  <2>3. u \in Nat \ {0} /\ Sizes[m] - u \in Nat
    BY <2>1, <2>2
  <2>4. m \in Nat /\ m = peer[n][1] + 1 /\ peer[n][2] = 0
    BY <1>1, <1>4
  <2>5. fr[1] = m /\ fr[2] = u /\ fr[3] = Sizes[m] - u
    BY <2>2
  <2> HIDE DEF m
  <2> QED BY <1>2, <2>1, <2>3, <2>4, <2>5
<1> QED BY <1>3, <1>4

\* A frame changes the messages of its state and whether it failed, no more.
LEMMA FramedIsState ==
    ASSUME NEW f \in FState, NEW m \in Nat, NEW u \in Nat \ {0}, NEW left \in Nat
    PROVE  LET g == Framed(f, m, u, left) IN
           /\ g \in FState
           /\ g.hasSocket = f.hasSocket /\ g.closed = f.closed
<1>1. Units(m, u) \in Message
  BY UnitsJoin
<1>2. f.partial \in Message /\ f.messages \in Seq(Message)
  BY DEF FState
<1>3. f.partial \o Units(m, u) \in Message
  BY <1>1, <1>2 DEF Message
<1>4. Append(f.messages, f.partial \o Units(m, u)) \in Seq(Message)
  BY <1>2, <1>3
<1>5. <<>> \in Message
  BY DEF Message
<1> DEFINE whole == f.partial \o Units(m, u)
<1>6. Framed(f, m, u, left) \in {[f EXCEPT !.errored = TRUE], [f EXCEPT !.partial = whole],
                                  [f EXCEPT !.partial = <<>>, !.messages = Append(@, whole)]}
  BY DEF Framed
<1> HIDE DEF whole
<1> QED BY <1>3, <1>4, <1>5, <1>6 DEF FState, whole

\* The message delegate keeps the types and the owners.
LEMMA FrameOwns ==
    ASSUME OwnInv, NEW n \in Conns, OnRawMessage(n) PROVE OwnInv'
<1>1. /\ SocketTypes /\ fstate[n] \in FState /\ UNCHANGED <<state, caller, tasks, socket, got>>
  BY DEF OnRawMessage, OwnInv, SocketTypes, StatesOK, Conns
<1>2. PICK m \in Nat, u \in Nat \ {0}, left \in Nat :
         /\ peer' = [peer EXCEPT ![n] = <<m, left>>]
         /\ fstate' = [fstate EXCEPT ![n] = Framed(fstate[n], m, u, left)]
  BY <1>1, FrameTaken
<1> DEFINE f == Framed(fstate[n], m, u, left)
<1>3. f \in FState /\ f.hasSocket = fstate[n].hasSocket /\ f.closed = fstate[n].closed
  BY <1>1, FramedIsState
<1>4. fstate' = [fstate EXCEPT ![n] = f]
  BY <1>2
<1> HIDE DEF f
<1>5. /\ StatesOK' /\ Len(fstate') = Len(fstate) /\ Conns' = Conns
      /\ fstate'[n] = f /\ \A k \in Conns \ {n} : fstate'[k] = fstate[k]
  BY <1>1, <1>3, <1>4, StateChanges DEF SocketTypes, StatesOK
<1>6. <<m, left>> \in Progress
  BY DEF Progress
<1>7. peer' \in Seq(Progress) /\ Len(peer') = Len(peer)
  BY <1>1, <1>2, <1>6 DEF SocketTypes, HistoryOK, Conns
<1>8. SocketTypes'
  BY <1>1, <1>5, <1>7 DEF SocketTypes, HistoryOK, WorkOK
<1> QED BY <1>1, <1>3, <1>5, <1>8, OwnersStay

\* Every step of the worker, the game thread and the network.
LEMMA OwnSteps == OwnInv /\ [SocketNext]_socketVars => OwnInv'
<1> SUFFICES ASSUME OwnInv, [SocketNext]_socketVars PROVE OwnInv'
  OBVIOUS
<1>1. CASE Close
  BY <1>1, ReleaseOwns DEF Close
<1>2. CASE \E n \in Conns : \/ RunCreate(n) \/ RunClose(n)
                            \/ OnConnected(n) \/ OnConnectionError(n) \/ OnClosed(n)
                            \/ OnRawMessage(n)
  BY <1>2, RunCreateOwns, RunCloseOwns, DelegatesOwn, FrameOwns
<1>3. CASE UNCHANGED socketVars
  BY <1>3 DEF socketVars, OwnInv, SocketTypes, StatesOK, HistoryOK, WorkOK, Conns,
              TasksFit, HeldKnown, SocketsOwned
<1> QED BY <1>1, <1>2, <1>3, ConnectOwns, CreateOverOwns, ConnectOverOwns, ReceiveOwns
        DEF SocketNext

\* FDkUnrealWebSocketProvider, connect and close: however late the game thread runs what
\* it was asked, a socket that is connecting or open is held, is about to be closed, or
\* was created for a connect that had given up.
THEOREM SocketsOwnedAlways == SocketSpec => []SocketsOwned
<1>1. OwnInv => SocketsOwned
  BY DEF OwnInv
<1> QED BY <1>1, OwnStarts, OwnSteps, PTL DEF SocketSpec

-----------------------------------------------------------------------------
(* The Unreal socket: messages *)

Whole(m) == Units(m, Sizes[m])

\* What receive returned and what is queued are the first messages of the peer, whole
\* and in order; of the message the peer is at, the partial one holds what came.
Streamed(g, f, p) ==
    /\ p[2] > 0 => /\ p[1] \in 1..Len(Sizes) /\ p[2] < Sizes[p[1]]
                   /\ Len(g) + Len(f.messages) = p[1] - 1
                   /\ f.partial = Units(p[1], Sizes[p[1]] - p[2])
    /\ p[2] = 0 => /\ p[1] \in 0..Len(Sizes)
                   /\ Len(g) + Len(f.messages) = p[1] /\ f.partial = <<>>
    /\ \A i \in 1..Len(g) : g[i] = Whole(i)
    /\ \A i \in 1..Len(f.messages) : f.messages[i] = Whole(Len(g) + i)

StreamsOK == \A n \in Conns : ~fstate[n].errored => Streamed(got[n], fstate[n], peer[n])

StreamInv == OwnInv /\ StreamsOK

\* A message is what came of it, the frame, and what is left.
LEMMA Parts ==
    ASSUME NEW size \in Nat, NEW u \in Nat, NEW left \in Nat
    PROVE  /\ left + u < size => /\ size - (left + u) \in Nat
                                 /\ (size - (left + u)) + u + left = size
           /\ left = size - u => 0 + u + left = size
OBVIOUS

\* A frame that fits continues the stream.
LEMMA FrameStreams ==
    ASSUME NEW g \in Seq(Message), NEW f \in FState, NEW p \in Progress, Streamed(g, f, p),
           NEW m \in Nat, NEW u \in Nat \ {0}, NEW left \in Nat, ~TooMuch(f, u, left),
           \/ m = p[1] /\ p[2] > 0 /\ left = p[2] - u
           \/ m = p[1] + 1 /\ p[2] = 0 /\ m \in 1..Len(Sizes) /\ left = Sizes[m] - u
    PROVE  Streamed(g, Framed(f, m, u, left), <<m, left>>)
<1> DEFINE whole == f.partial \o Units(m, u)
<1>1. /\ p[1] \in Nat /\ p[2] \in Nat /\ Len(Sizes) \in Nat /\ Sizes \in Seq(Nat \ {0})
      /\ Len(g) \in Nat /\ f.messages \in Seq(Message) /\ Len(f.messages) \in Nat
  BY SocketAssumption DEF Progress, FState
<1>2. PICK a \in Nat : /\ m \in 1..Len(Sizes) /\ Len(g) + Len(f.messages) = m - 1
                       /\ f.partial = Units(m, a) /\ a + u + left = Sizes[m]
  <2>1. CASE p[2] > 0
    <3>0. m = p[1] /\ left = p[2] - u
      BY <1>1, <2>1
    <3>1. m = p[1] /\ p[2] = left + u
      BY <1>1, <3>0
    <3>2. /\ m \in 1..Len(Sizes) /\ left + u < Sizes[m] /\ Len(g) + Len(f.messages) = m - 1
          /\ f.partial = Units(m, Sizes[m] - (left + u))
      BY <2>1, <3>1 DEF Streamed
    <3>3. Sizes[m] \in Nat
      BY <1>1, <3>2
    <3>4. /\ Sizes[m] - (left + u) \in Nat
          /\ (Sizes[m] - (left + u)) + u + left = Sizes[m]
      BY <3>2, <3>3, Parts
    <3> QED BY <3>2, <3>4
  <2>2. CASE p[2] = 0
    <3>1. m = p[1] + 1 /\ m \in 1..Len(Sizes) /\ left = Sizes[m] - u
      BY <1>1, <2>2
    <3>2. f.partial = Units(m, 0) /\ Len(g) + Len(f.messages) = p[1]
      BY <2>2, UnitsJoin DEF Streamed
    <3>3. Sizes[m] \in Nat
      BY <1>1, <3>1
    <3>4. 0 + u + left = Sizes[m]
      BY <3>1, <3>3, Parts
    <3>5. 0 \in Nat /\ p[1] = m - 1
      BY <1>1, <3>1
    <3> QED BY <3>1, <3>2, <3>4, <3>5
  <2> QED BY <1>1, <2>1, <2>2
<1>3. whole = Units(m, a + u) /\ whole \in Message
  <2>1. a + u \in Nat /\ u \in Nat
    OBVIOUS
  <2>2. Units(m, a) \o Units(m, u) = Units(m, a + u) /\ Units(m, a + u) \in Message
    BY <2>1, UnitsJoin
  <2> QED BY <1>2, <2>2
<1> HIDE DEF whole
<1> DEFINE here == <<m, left>>
<1>4. here[1] = m /\ here[2] = left
  OBVIOUS
<1> HIDE DEF here
<1>5. /\ \A i \in 1..Len(g) : g[i] = Whole(i)
      /\ \A i \in 1..Len(f.messages) : f.messages[i] = Whole(Len(g) + i)
  BY DEF Streamed
<1>6. CASE left > 0
  <2> DEFINE h == [f EXCEPT !.partial = whole]
  <2>1. Framed(f, m, u, left) = h
    BY <1>6 DEF Framed, whole
  <2>2. h.messages = f.messages /\ h.partial = whole
    BY <1>3 DEF FState
  <2> HIDE DEF h
  <2>3. a + u = Sizes[m] - left /\ left < Sizes[m]
    BY <1>1, <1>2
  <2>4. Streamed(g, h, here)
    BY <1>2, <1>3, <1>4, <1>5, <1>6, <2>2, <2>3 DEF Streamed
  <2> QED BY <2>1, <2>4 DEF here
<1>7. CASE left = 0
  <2> DEFINE h == [f EXCEPT !.partial = <<>>, !.messages = Append(@, whole)]
  <2>1. Framed(f, m, u, left) = h
    BY <1>7 DEF Framed, whole
  <2>2. h.messages = Append(f.messages, whole) /\ h.partial = <<>>
    BY <1>3 DEF FState
  <2> HIDE DEF h
  <2>3. whole = Whole(m) /\ m = Len(g) + Len(f.messages) + 1
    <3>1. a + u = Sizes[m]
      BY <1>1, <1>2, <1>7
    <3> QED BY <1>1, <1>2, <1>3, <3>1 DEF Whole
  <2>4. /\ Len(h.messages) = Len(f.messages) + 1
        /\ \A i \in 1..Len(f.messages) : h.messages[i] = f.messages[i]
        /\ h.messages[Len(f.messages) + 1] = whole
    BY <1>1, <1>3, <2>2, AppendProperties
  <2>5. \A i \in 1..Len(h.messages) : h.messages[i] = Whole(Len(g) + i)
    <3> SUFFICES ASSUME NEW i \in 1..Len(h.messages) PROVE h.messages[i] = Whole(Len(g) + i)
      OBVIOUS
    <3>1. CASE i \in 1..Len(f.messages)
      BY <1>5, <2>4, <3>1
    <3>2. CASE i = Len(f.messages) + 1
      <4>1. Len(g) + i = m
        BY <1>1, <2>3, <3>2
      <4> QED BY <2>3, <2>4, <3>2, <4>1
    <3> QED BY <1>1, <2>4, <3>1, <3>2
  <2>6. Len(g) + Len(h.messages) = m /\ m \in 0..Len(Sizes)
    BY <1>1, <1>2, <2>3, <2>4
  <2>7. Streamed(g, h, here)
    BY <1>4, <1>5, <1>7, <2>2, <2>5, <2>6 DEF Streamed
  <2> QED BY <2>1, <2>7 DEF here
<1> QED BY <1>6, <1>7

\* receive() moves the first queued message to its caller.
LEMMA TakeStreams ==
    ASSUME NEW g \in Seq(Message), NEW f \in FState, NEW p \in Progress, Streamed(g, f, p),
           f.messages # <<>>
    PROVE  Streamed(Append(g, Head(f.messages)), [f EXCEPT !.messages = Tail(@)], p)
<1> DEFINE q == f.messages
           h == [f EXCEPT !.messages = Tail(@)]
           r == Append(g, Head(q))
<1>1. q \in Seq(Message) /\ Len(q) \in Nat \ {0} /\ Len(g) \in Nat /\ q # <<>>
  BY DEF FState
<1>2. /\ Head(q) = q[1] /\ q[1] \in Message
      /\ Len(Tail(q)) = Len(q) - 1 /\ \A i \in 1..Len(Tail(q)) : Tail(q)[i] = q[i + 1]
  BY <1>1, HeadTailProperties
<1>3. h.messages = Tail(q) /\ h.partial = f.partial
  BY DEF FState
<1>4. /\ Len(r) = Len(g) + 1 /\ \A i \in 1..Len(g) : r[i] = g[i]
      /\ r[Len(g) + 1] = q[1]
  BY <1>2, AppendProperties
<1>5. /\ \A i \in 1..Len(g) : g[i] = Whole(i)
      /\ \A i \in 1..Len(q) : q[i] = Whole(Len(g) + i)
  BY DEF Streamed
<1> HIDE DEF h, r
<1>6. Len(r) + Len(h.messages) = Len(g) + Len(q)
  <2>1. Len(h.messages) = Len(q) - 1
    BY <1>2, <1>3
  <2> HIDE DEF q
  <2> QED BY <1>1, <1>4, <2>1
<1>7. \A i \in 1..Len(r) : r[i] = Whole(i)
  <2> SUFFICES ASSUME NEW i \in 1..Len(r) PROVE r[i] = Whole(i)
    OBVIOUS
  <2>1. CASE i \in 1..Len(g)
    BY <1>4, <1>5, <2>1
  <2>2. CASE i = Len(g) + 1
    BY <1>1, <1>4, <1>5, <2>2
  <2> QED BY <1>1, <1>4, <2>1, <2>2
<1>8. \A i \in 1..Len(h.messages) : h.messages[i] = Whole(Len(r) + i)
  <2> SUFFICES ASSUME NEW i \in 1..Len(h.messages) PROVE h.messages[i] = Whole(Len(r) + i)
    OBVIOUS
  <2>1. i + 1 \in 1..Len(q) /\ Len(g) + (i + 1) = Len(r) + i
    BY <1>1, <1>2, <1>3, <1>4
  <2>2. h.messages[i] = q[i + 1]
    BY <1>2, <1>3
  <2> QED BY <1>5, <2>1, <2>2
<1>9. Streamed(r, h, p)
  BY <1>3, <1>6, <1>7, <1>8 DEF Streamed
<1> QED BY <1>9 DEF r, h

\* A step that moves no message.
LEMMA StreamsStay ==
    ASSUME StreamsOK, Conns' = Conns, UNCHANGED <<got, peer>>,
           \A k \in Conns : /\ fstate'[k].messages = fstate[k].messages
                            /\ fstate'[k].partial = fstate[k].partial
                            /\ fstate[k].errored => fstate'[k].errored
    PROVE  StreamsOK'
<1> SUFFICES ASSUME NEW k \in Conns, ~fstate'[k].errored
             PROVE  Streamed(got[k], fstate'[k], peer[k])
  BY DEF StreamsOK
<1>1. Streamed(got[k], fstate[k], peer[k])
  BY DEF StreamsOK
<1> QED BY <1>1 DEF Streamed

\* connect() starts a stream with nothing in it.
LEMMA ConnectStreams ==
    ASSUME StreamInv, Connect PROVE StreamsOK'
<1> DEFINE n == Len(fstate) + 1
<1>1. /\ SocketTypes /\ fstate' = Append(fstate, NewState)
      /\ peer' = Append(peer, <<0, 0>>) /\ got' = Append(got, <<>>)
  BY DEF Connect, StreamInv, OwnInv
<1>2. NewState \in FState /\ <<0, 0>> \in Progress /\ <<>> \in Seq(Message)
  BY DEF NewState, FState, Message, Progress
<1>3. /\ Len(fstate') = n /\ fstate'[n] = NewState /\ peer'[n] = <<0, 0>> /\ got'[n] = <<>>
      /\ \A k \in Conns : /\ fstate'[k] = fstate[k] /\ peer'[k] = peer[k] /\ got'[k] = got[k]
  BY <1>1, <1>2 DEF SocketTypes, StatesOK, HistoryOK, Conns
<1>4. \A k \in Conns' : k \in Conns \/ k = n
  BY <1>1, <1>3 DEF SocketTypes, StatesOK, Conns
<1>5. Streamed(<<>>, NewState, <<0, 0>>)
  BY SocketAssumption DEF Streamed, NewState
<1> QED BY <1>3, <1>4, <1>5 DEF StreamInv, StreamsOK

\* A frame arrives: its connection's stream goes on, or has failed.
LEMMA FrameArrives ==
    ASSUME StreamInv, NEW n \in Conns, OnRawMessage(n) PROVE StreamsOK'
<1>1. /\ SocketTypes /\ fstate[n] \in FState /\ peer[n] \in Progress /\ got[n] \in Seq(Message)
      /\ UNCHANGED got
  BY DEF OnRawMessage, StreamInv, OwnInv, SocketTypes, StatesOK, HistoryOK, Conns
<1>2. PICK m \in Nat, u \in Nat \ {0}, left \in Nat :
         /\ \/ /\ m = peer[n][1] /\ peer[n][2] > 0
               /\ left = peer[n][2] - u
            \/ /\ m = peer[n][1] + 1 /\ peer[n][2] = 0 /\ m \in 1..Len(Sizes)
               /\ left = Sizes[m] - u
         /\ peer' = [peer EXCEPT ![n] = <<m, left>>]
         /\ fstate' = [fstate EXCEPT ![n] = Framed(fstate[n], m, u, left)]
  BY <1>1, FrameTaken
<1> DEFINE f == Framed(fstate[n], m, u, left)
<1>3. f \in FState
  BY <1>1, FramedIsState
<1>4. fstate' = [fstate EXCEPT ![n] = f]
  BY <1>2
<1>5. ASSUME ~f.errored PROVE Streamed(got[n], f, <<m, left>>)
  <2>1. ~TooMuch(fstate[n], u, left)
    BY <1>1, <1>5 DEF Framed, FState
  <2>2. f \in {[fstate[n] EXCEPT !.partial = fstate[n].partial \o Units(m, u)],
               [fstate[n] EXCEPT !.partial = <<>>,
                                 !.messages = Append(@, fstate[n].partial \o Units(m, u))]}
    BY <2>1 DEF Framed
  <2>3. ~fstate[n].errored
    <3> DEFINE whole == fstate[n].partial \o Units(m, u)
    <3> HIDE DEF whole, f
    <3> QED BY <1>1, <1>5, <2>2 DEF FState, whole
  <2>4. Streamed(got[n], fstate[n], peer[n])
    BY <2>3 DEF StreamInv, StreamsOK
  <2> QED BY <1>1, <1>2, <2>1, <2>4, FrameStreams
<1> HIDE DEF f
<1>6. /\ Conns' = Conns /\ fstate'[n] = f /\ \A k \in Conns \ {n} : fstate'[k] = fstate[k]
  BY <1>1, <1>4 DEF SocketTypes, StatesOK, Conns
<1>7. peer'[n] = <<m, left>> /\ \A k \in Conns \ {n} : peer'[k] = peer[k]
  BY <1>1, <1>2 DEF SocketTypes, HistoryOK, Conns
<1> QED BY <1>1, <1>5, <1>6, <1>7 DEF StreamInv, StreamsOK

\* receive() takes a message.
LEMMA MessageTaken ==
    ASSUME StreamInv, Receive PROVE StreamsOK'
<1> DEFINE n == state
           f == [fstate[n] EXCEPT !.messages = Tail(@)]
           g == Append(got[n], Head(fstate[n].messages))
<1>1. /\ SocketTypes /\ n \in Conns /\ fstate[n] \in FState /\ fstate[n].messages # <<>>
      /\ UNCHANGED peer /\ peer[n] \in Progress /\ got[n] \in Seq(Message)
      /\ fstate' = [fstate EXCEPT ![n] = f] /\ got' = [got EXCEPT ![n] = g]
  BY DEF Receive, StreamInv, OwnInv, SocketTypes, StatesOK, HistoryOK, Conns, NoState
<1>2. f.errored = fstate[n].errored
  BY <1>1 DEF FState
<1>3. ~f.errored => Streamed(g, f, peer[n])
  BY <1>1, <1>2, TakeStreams DEF StreamInv, StreamsOK
<1> HIDE DEF f, g
<1>4. /\ Conns' = Conns /\ fstate'[n] = f /\ \A k \in Conns \ {n} : fstate'[k] = fstate[k]
      /\ got'[n] = g /\ \A k \in Conns \ {n} : got'[k] = got[k]
  BY <1>1 DEF SocketTypes, StatesOK, HistoryOK, Conns
<1> QED BY <1>1, <1>3, <1>4 DEF StreamInv, StreamsOK

\* Every step of the worker, the game thread and the network.
LEMMA StreamSteps == StreamInv /\ [SocketNext]_socketVars => StreamInv'
<1> SUFFICES ASSUME StreamInv, [SocketNext]_socketVars PROVE StreamsOK'
  BY OwnSteps DEF StreamInv
<1>1. OwnInv /\ StreamsOK
  BY DEF StreamInv
<1>2. SocketTypes /\ \A n \in Conns : fstate[n] \in FState
  BY <1>1 DEF OwnInv, SocketTypes, StatesOK, Conns
<1>3. ASSUME NEW n \in Conns, NEW f \in FState, fstate' = [fstate EXCEPT ![n] = f],
             f.messages = fstate[n].messages, f.partial = fstate[n].partial,
             fstate[n].errored => f.errored, UNCHANGED <<got, peer>>
      PROVE  StreamsOK'
  <2>1. /\ Conns' = Conns /\ fstate'[n] = f /\ \A k \in Conns \ {n} : fstate'[k] = fstate[k]
    BY <1>2, <1>3 DEF SocketTypes, StatesOK, Conns
  <2> QED BY <1>1, <1>3, <2>1, StreamsStay
<1>4. ASSUME state # NoState, Release(state), UNCHANGED <<got, peer>> PROVE StreamsOK'
  <2> DEFINE f == [fstate[state] EXCEPT !.closed = TRUE, !.hasSocket = FALSE]
  <2>1. state \in Conns
    BY <1>2, <1>4 DEF SocketTypes, StatesOK, Conns, NoState
  <2>2. /\ f \in FState /\ f.messages = fstate[state].messages
        /\ f.partial = fstate[state].partial /\ f.errored = fstate[state].errored
        /\ fstate' = [fstate EXCEPT ![state] = f]
    BY <1>2, <1>4, <2>1 DEF Release, FState
  <2> HIDE DEF f
  <2> QED BY <1>3, <1>4, <2>1, <2>2
<1>5. ASSUME UNCHANGED <<fstate, got, peer>> PROVE StreamsOK'
  BY <1>1, <1>5 DEF StreamsOK, Conns
<1>6. CASE Close
  BY <1>4, <1>6 DEF Close
<1>7. CASE CreateOver
  BY <1>5, <1>7 DEF CreateOver
<1>8. CASE ConnectOver
  <2>1. state # NoState
    BY <1>2, <1>8 DEF ConnectOver, SocketTypes, WorkOK
  <2> QED BY <1>4, <1>5, <1>8, <2>1 DEF ConnectOver
<1>9. ASSUME NEW n \in Conns,
             RunCreate(n) \/ OnConnected(n) \/ OnConnectionError(n) \/ OnClosed(n)
      PROVE  StreamsOK'
  <2>1. PICK f \in {[fstate[n] EXCEPT !.hasSocket = TRUE], [fstate[n] EXCEPT !.connected = TRUE],
                    [fstate[n] EXCEPT !.errored = TRUE], [fstate[n] EXCEPT !.closed = TRUE]} :
             fstate' = [fstate EXCEPT ![n] = f] /\ UNCHANGED <<got, peer>>
    BY <1>9 DEF RunCreate, OnConnected, OnConnectionError, OnClosed
  <2>2. /\ f \in FState /\ f.messages = fstate[n].messages /\ f.partial = fstate[n].partial
        /\ fstate[n].errored => f.errored
    BY <1>2, <2>1 DEF FState
  <2> QED BY <1>3, <2>1, <2>2
<1>10. ASSUME NEW n \in Conns, RunClose(n) PROVE StreamsOK'
  BY <1>5, <1>10 DEF RunClose
<1>11. CASE UNCHANGED socketVars
  BY <1>5, <1>11 DEF socketVars
<1> QED BY <1>6, <1>7, <1>8, <1>9, <1>10, <1>11, ConnectStreams, MessageTaken, FrameArrives
        DEF SocketNext

\* A stream without a gap is a prefix of what the peer sends.
LEMMA StreamedIsPrefix ==
    ASSUME NEW g \in Seq(Message), NEW f \in FState, NEW p \in Progress, Streamed(g, f, p)
    PROVE  IsPrefix(g \o f.messages, [m \in 1..Len(Sizes) |-> Whole(m)])
<1> DEFINE q == f.messages
           s == g \o q
           t == [m \in 1..Len(Sizes) |-> Whole(m)]
           k == Len(g) + Len(q)
<1>1. /\ q \in Seq(Message) /\ Len(q) \in Nat /\ Len(g) \in Nat /\ p[1] \in Nat /\ p[2] \in Nat
      /\ Len(Sizes) \in Nat /\ Sizes \in Seq(Nat \ {0})
  BY SocketAssumption DEF FState, Progress
<1>2. k <= Len(Sizes) /\ k \in Nat
  BY <1>1 DEF Streamed
<1>3. \A m \in 1..Len(Sizes) : Whole(m) \in Message
  <2> TAKE m \in 1..Len(Sizes)
  <2>1. Sizes[m] \in Nat /\ m \in Nat
    BY <1>1
  <2> QED BY <2>1, UnitsJoin DEF Whole
<1>4. t \in Seq(Message) /\ Len(t) = Len(Sizes) /\ \A i \in 1..Len(Sizes) : t[i] = Whole(i)
  BY <1>1, <1>3
<1>5. /\ s \in Seq(Message) /\ Len(s) = k
      /\ \A i \in 1..k : s[i] = IF i <= Len(g) THEN g[i] ELSE q[i - Len(g)]
  BY <1>1, ConcatProperties
<1>6. \A i \in 1..k : s[i] = Whole(i)
  <2> SUFFICES ASSUME NEW i \in 1..k PROVE s[i] = Whole(i)
    OBVIOUS
  <2>1. CASE i <= Len(g)
    <3>1. i \in 1..Len(g)
      BY <1>1, <2>1
    <3> QED BY <1>5, <2>1, <3>1 DEF Streamed
  <2>2. CASE i > Len(g)
    <3>1. i - Len(g) \in 1..Len(q) /\ Len(g) + (i - Len(g)) = i /\ ~(i <= Len(g))
      BY <1>1, <2>2
    <3> QED BY <1>5, <3>1 DEF Streamed
  <2> QED BY <1>1, <2>1, <2>2
<1> HIDE DEF s, t
<1>7. /\ SubSeq(s, 1, k) \in Seq(Message) /\ SubSeq(t, 1, k) \in Seq(Message)
      /\ Len(SubSeq(s, 1, k)) = k /\ Len(SubSeq(t, 1, k)) = k
      /\ \A i \in 1..k : SubSeq(s, 1, k)[i] = s[i]
      /\ \A i \in 1..k : SubSeq(t, 1, k)[i] = t[i]
  BY <1>1, <1>2, <1>4, <1>5
<1>8. SubSeq(s, 1, k) = SubSeq(t, 1, k)
  BY <1>1, <1>2, <1>4, <1>6, <1>7, SeqEqual
<1>9. IsPrefix(s, t)
  BY <1>2, <1>4, <1>5, <1>8 DEF IsPrefix
<1> QED BY <1>9 DEF s, t

\* OnRawMessage and receive: on a connection that met no error the messages come out
\* whole, in order and without a gap, whatever frames the engine cut them into and
\* whatever the worker and the game thread do meanwhile.
THEOREM WholeInOrderAlways == SocketSpec => []WholeInOrder
<1>1. SocketInit => StreamInv
  <2>1. SocketInit => Conns = {}
    BY DEF SocketInit, Conns
  <2> QED BY <2>1, OwnStarts DEF StreamInv, StreamsOK
<1>2. ASSUME StreamInv, NEW n \in Conns, ~fstate[n].errored
      PROVE  IsPrefix(got[n] \o fstate[n].messages, Sent(n))
  <2>1. /\ got[n] \in Seq(Message) /\ fstate[n] \in FState /\ peer[n] \in Progress
        /\ Streamed(got[n], fstate[n], peer[n])
    BY <1>2 DEF StreamInv, StreamsOK, OwnInv, SocketTypes, StatesOK, HistoryOK, Conns
  <2>2. Sent(n) = [m \in 1..Len(Sizes) |-> Whole(m)]
    BY DEF Sent, Whole
  <2> QED BY <2>1, <2>2, StreamedIsPrefix
<1>3. StreamInv => WholeInOrder
  BY <1>2 DEF WholeInOrder
<1> QED BY <1>1, <1>3, StreamSteps, PTL DEF SocketSpec

-----------------------------------------------------------------------------
(* HTTP calls *)

Providers == {"godot", "unreal", "curl"}
Going == {"connecting", "requesting", "body", "returned"}
Results == {"none", "ok", "network", "timeout", "cancelled", "apiError", "value", "text"}

FetchTypes ==
    /\ fetch \in [provider: Providers \cup {"none"}, at: Going \cup {"idle"}, body: Nat,
                  result: Results]
    /\ answer \in Answers
    /\ http \in [done: BOOLEAN, succeeded: BOOLEAN, tooLarge: BOOLEAN]
    /\ due \in BOOLEAN /\ halted \in BOOLEAN /\ broken \in BOOLEAN

\* A body that is being read fits what was sent and the limit, and one that was returned
\* is whole, unless the connection broke under Godot's loop.
BodyFits ==
    /\ fetch.at \in Going => fetch.body <= answer.size /\ fetch.body <= MaxResponse
    /\ fetch.at = "returned" /\ fetch.result = "ok" => broken \/ fetch.body = answer.size
    /\ fetch.at \in Going => fetch.result \notin {"value", "text", "apiError"}
    /\ http.done /\ http.succeeded => answer.size <= MaxResponse

\* Why a call was given up.
GivenUp ==
    /\ fetch.result = "cancelled" => halted /\ fetch.provider # "curl"
    /\ fetch.result = "timeout" => due

\* What a call that is over has given its caller.
AnswerGiven ==
    fetch.result \in {"value", "text"} =>
        /\ answer.ok /\ fetch.body <= MaxResponse
        /\ broken \/ (fetch.body = answer.size /\ fetch.result = answer.holds)

FetchInv == FetchTypes /\ BodyFits /\ GivenUp /\ AnswerGiven

FetchSpec == FetchInit /\ [][FetchNext]_fetchVars

\* No call was made.
LEMMA FetchStarts == FetchInit => FetchInv
<1> SUFFICES ASSUME FetchInit PROVE FetchInv
  OBVIOUS
<1>1. /\ fetch = NoFetch /\ http = NoHttp /\ answer \in Answers
      /\ due = FALSE /\ halted = FALSE /\ broken = FALSE
  BY DEF FetchInit
<1>2. FetchTypes
  BY <1>1 DEF FetchTypes, NoFetch, NoHttp, Results
<1>3. fetch.at = "idle" /\ fetch.result = "none" /\ ~http.done
  BY <1>1 DEF NoFetch, NoHttp
<1> QED BY <1>2, <1>3 DEF FetchInv, BodyFits, GivenUp, AnswerGiven, Going

\* A call moves to another place, or returns without an answer.
LEMMA FetchMoves ==
    ASSUME FetchInv, fetch.at \in Going, UNCHANGED <<answer, http, due, halted, broken>>,
           \/ \E place \in Going \ {"returned"} :
                 fetch' = [fetch EXCEPT !.at = place] /\ fetch.at # "returned"
           \/ \E r \in {"network", "timeout", "cancelled"} :
                 /\ Returns(r)
                 /\ r = "timeout" => due
                 /\ r = "cancelled" => halted /\ fetch.provider # "curl"
    PROVE  FetchInv'
<1>1. FetchTypes
  BY DEF FetchInv
<1>2. CASE \E place \in Going \ {"returned"} :
              fetch' = [fetch EXCEPT !.at = place] /\ fetch.at # "returned"
  <2>1. PICK place \in Going \ {"returned"} : fetch' = [fetch EXCEPT !.at = place]
    BY <1>2
  <2>2. /\ fetch' \in [provider: Providers \cup {"none"}, at: Going \cup {"idle"}, body: Nat,
                       result: Results]
        /\ fetch'.at = place /\ fetch'.body = fetch.body /\ fetch'.result = fetch.result
        /\ fetch'.provider = fetch.provider
    BY <1>1, <2>1 DEF FetchTypes
  <2> QED BY <2>2 DEF FetchInv, FetchTypes, BodyFits, GivenUp, AnswerGiven
<1>3. CASE \E r \in {"network", "timeout", "cancelled"} :
                 /\ Returns(r)
                 /\ r = "timeout" => due
                 /\ r = "cancelled" => halted /\ fetch.provider # "curl"
  <2>1. PICK r \in {"network", "timeout", "cancelled"} :
                 /\ Returns(r)
                 /\ r = "timeout" => due
                 /\ r = "cancelled" => halted /\ fetch.provider # "curl"
    BY <1>3
  <2>2. /\ fetch' \in [provider: Providers \cup {"none"}, at: Going \cup {"idle"}, body: Nat,
                       result: Results]
        /\ fetch'.at = "returned" /\ fetch'.body = fetch.body /\ fetch'.result = r
        /\ fetch'.provider = fetch.provider
    BY <1>1, <2>1 DEF FetchTypes, Returns, Going, Results
  <2> QED BY <2>1, <2>2 DEF FetchInv, FetchTypes, BodyFits, GivenUp, AnswerGiven
<1> QED BY <1>2, <1>3

\* A chunk of the body is read, or the whole of it has been.
LEMMA BodyReads ==
    ASSUME FetchInv, BodyChunk \/ GodotBodyEnds PROVE FetchInv'
<1>1. FetchTypes /\ fetch.at \in Going /\ fetch.at # "returned" /\ fetch.body <= answer.size
      /\ fetch.body \in Nat /\ answer.size \in Nat /\ MaxResponse \in Nat
  BY FetchAssumption DEF FetchInv, FetchTypes, BodyFits, Going, BodyChunk, GodotBodyEnds, At, Answers
<1>2. CASE BodyChunk /\ Returns("network")
  BY <1>1, <1>2, FetchMoves DEF BodyChunk
<1>3. CASE BodyChunk /\ fetch.body + 1 <= MaxResponse /\ fetch' = [fetch EXCEPT !.body = @ + 1]
  <2>1. fetch.body + 1 \in Nat /\ fetch.body + 1 <= answer.size
        /\ UNCHANGED <<answer, http, due, halted, broken>>
    BY <1>1, <1>3 DEF BodyChunk
  <2>2. /\ fetch' \in [provider: Providers \cup {"none"}, at: Going \cup {"idle"}, body: Nat,
                       result: Results]
        /\ fetch'.at = fetch.at /\ fetch'.body = fetch.body + 1 /\ fetch'.result = fetch.result
        /\ fetch'.provider = fetch.provider
    BY <1>1, <1>3, <2>1 DEF FetchTypes
  <2> QED BY <1>1, <1>3, <2>1, <2>2 DEF FetchInv, FetchTypes, BodyFits, GivenUp, AnswerGiven
<1>4. CASE GodotBodyEnds
  <2>1. /\ broken' = (fetch.body < answer.size) /\ UNCHANGED <<answer, http, due, halted>>
        /\ fetch' = [fetch EXCEPT !.at = "returned", !.result = "ok"]
    BY <1>4 DEF GodotBodyEnds, Returns
  <2>2. /\ fetch' \in [provider: Providers \cup {"none"}, at: Going \cup {"idle"}, body: Nat,
                       result: Results]
        /\ fetch'.at = "returned" /\ fetch'.body = fetch.body /\ fetch'.result = "ok"
        /\ fetch'.provider = fetch.provider
    BY <1>1, <2>1 DEF FetchTypes, Going, Results
  <2>3. broken' \in BOOLEAN /\ (broken' \/ fetch.body = answer.size)
    <3>1. CASE fetch.body < answer.size
      BY <2>1, <3>1
    <3>2. CASE ~(fetch.body < answer.size)
      BY <1>1, <2>1, <3>2
    <3> QED BY <3>1, <3>2
  <2> QED BY <1>1, <2>1, <2>2, <2>3 DEF FetchInv, FetchTypes, BodyFits, GivenUp, AnswerGiven
<1>5. BodyChunk => \/ Returns("network")
                   \/ fetch.body + 1 <= MaxResponse /\ fetch' = [fetch EXCEPT !.body = @ + 1]
  BY <1>1 DEF BodyChunk
<1> QED BY <1>2, <1>3, <1>4, <1>5

\* The completion delegate of Unreal, however late, and the end of its wait.
LEMMA UnrealKeeps ==
    ASSUME FetchInv, UnrealComplete \/ UnrealWaitOver PROVE FetchInv'
<1>1. FetchTypes /\ answer.size \in Nat /\ MaxResponse \in Nat
  BY FetchAssumption DEF FetchInv, FetchTypes, Answers
<1>2. CASE UnrealComplete
  <2>1. PICK connected \in BOOLEAN :
           http' = [done |-> TRUE, succeeded |-> connected /\ answer.size <= MaxResponse,
                    tooLarge |-> connected /\ answer.size > MaxResponse]
    BY <1>2 DEF UnrealComplete
  <2>2. /\ http' \in [done: BOOLEAN, succeeded: BOOLEAN, tooLarge: BOOLEAN]
        /\ http'.succeeded => answer.size <= MaxResponse
    BY <2>1
  <2> QED BY <1>1, <1>2, <2>2
          DEF UnrealComplete, FetchInv, FetchTypes, BodyFits, GivenUp, AnswerGiven
<1>3. CASE UnrealWaitOver
  <2>1. /\ fetch.at = "connecting" /\ fetch.provider = "unreal"
        /\ UNCHANGED <<answer, http, due, halted, broken>>
    BY <1>3 DEF UnrealWaitOver, At
  <2>2. CASE /\ http.done /\ http.succeeded
             /\ fetch' = [fetch EXCEPT !.at = "returned", !.result = "ok", !.body = answer.size]
    <3>1. /\ fetch' \in [provider: Providers \cup {"none"}, at: Going \cup {"idle"},
                         body: Nat, result: Results]
          /\ fetch'.at = "returned" /\ fetch'.body = answer.size /\ fetch'.result = "ok"
          /\ fetch'.provider = fetch.provider
      BY <1>1, <2>2 DEF FetchTypes, Going, Results
    <3>2. answer.size <= MaxResponse
      BY <2>2 DEF FetchInv, BodyFits
    <3> QED BY <1>1, <2>1, <3>1, <3>2 DEF FetchInv, FetchTypes, BodyFits, GivenUp, AnswerGiven
  <2>3. CASE fetch' = [fetch EXCEPT !.at = "returned", !.result = "network", !.body = 0]
    <3>1. /\ fetch' \in [provider: Providers \cup {"none"}, at: Going \cup {"idle"},
                         body: Nat, result: Results]
          /\ fetch'.at = "returned" /\ fetch'.body = 0 /\ fetch'.result = "network"
          /\ fetch'.provider = fetch.provider
      BY <1>1, <2>3 DEF FetchTypes, Going, Results
    <3> QED BY <1>1, <2>1, <3>1 DEF FetchInv, FetchTypes, BodyFits, GivenUp, AnswerGiven
  <2>4. CASE /\ due \/ halted
             /\ Returns(IF halted THEN "cancelled" ELSE "timeout")
    BY <1>1, <2>1, <2>4, FetchMoves DEF Going
  <2> QED BY <1>3, <2>2, <2>3, <2>4 DEF UnrealWaitOver
<1> QED BY <1>2, <1>3

\* curl's transfer is over.
LEMMA CurlKeeps ==
    ASSUME FetchInv, CurlOver PROVE FetchInv'
<1>1. /\ FetchTypes /\ fetch.at = "connecting" /\ UNCHANGED <<answer, http, due, halted, broken>>
  BY DEF CurlOver, At, FetchInv
<1>2. CASE fetch.body = answer.size /\ Returns("ok")
  <2>1. /\ fetch' \in [provider: Providers \cup {"none"}, at: Going \cup {"idle"},
                       body: Nat, result: Results]
        /\ fetch'.at = "returned" /\ fetch'.body = fetch.body /\ fetch'.result = "ok"
        /\ fetch'.provider = fetch.provider
    BY <1>1, <1>2 DEF FetchTypes, Going, Results, Returns
  <2> QED BY <1>1, <1>2, <2>1
          DEF FetchInv, FetchTypes, BodyFits, GivenUp, AnswerGiven, Going
<1>3. CASE Returns("network") \/ (due /\ Returns("timeout"))
  BY <1>1, <1>3, FetchMoves DEF Going
<1> QED BY <1>2, <1>3 DEF CurlOver

\* The body is parsed and the caller has its value or its error.
LEMMA ApiKeeps ==
    ASSUME FetchInv, ApiReturns PROVE FetchInv'
<1> DEFINE r == IF fetch.result # "ok" THEN fetch.result
                ELSE IF ~answer.ok \/ Parsed = "error" THEN "apiError" ELSE Parsed
<1>1. /\ FetchTypes /\ fetch.at = "returned" /\ UNCHANGED <<answer, http, due, halted, broken>>
      /\ fetch' = [fetch EXCEPT !.at = "idle", !.result = r]
  BY DEF ApiReturns, FetchInv
<1>2. fetch.body \in Nat /\ answer.size \in Nat /\ fetch.body <= MaxResponse
      /\ answer.ok \in BOOLEAN /\ answer.holds \in {"value", "error", "text"}
      /\ fetch.result \notin {"value", "text", "apiError"}
  BY <1>1, FetchAssumption DEF FetchInv, FetchTypes, BodyFits, Answers, Going
<1>3. Parsed \in {"value", "error", "text"} /\ (fetch.body = answer.size => Parsed = answer.holds)
  BY <1>2 DEF Parsed
<1>4. /\ r \in Results
      /\ r \in {"cancelled", "timeout"} => r = fetch.result
      /\ r \in {"value", "text"} => answer.ok /\ fetch.result = "ok" /\ r = Parsed
  BY <1>1, <1>2, <1>3 DEF FetchTypes, Results
<1> HIDE DEF r
<1>5. /\ fetch' \in [provider: Providers \cup {"none"}, at: Going \cup {"idle"},
                     body: Nat, result: Results]
      /\ fetch'.at = "idle" /\ fetch'.body = fetch.body /\ fetch'.result = r
      /\ fetch'.provider = fetch.provider
  BY <1>1, <1>4 DEF FetchTypes
<1>6. FetchTypes'
  BY <1>1, <1>5 DEF FetchTypes
<1>7. BodyFits'
  BY <1>1, <1>5 DEF FetchInv, BodyFits, Going
<1>8. GivenUp'
  BY <1>1, <1>4, <1>5 DEF FetchInv, GivenUp
<1>9. AnswerGiven'
  <2> SUFFICES ASSUME r \in {"value", "text"}
               PROVE  /\ answer.ok /\ fetch.body <= MaxResponse
                      /\ broken \/ (fetch.body = answer.size /\ r = answer.holds)
    BY <1>1, <1>5 DEF AnswerGiven
  <2>1. broken \/ fetch.body = answer.size
    BY <1>1, <1>4 DEF FetchInv, BodyFits
  <2> QED BY <1>2, <1>3, <1>4, <2>1
<1> QED BY <1>6, <1>7, <1>8, <1>9 DEF FetchInv

\* A new call begins with nothing of the one before it.
LEMMA StartKeepsFetch ==
    ASSUME FetchInv, StartFetch PROVE FetchInv'
<1>1. PICK p \in Providers : fetch' = [NoFetch EXCEPT !.provider = p, !.at = "connecting"]
  BY DEF StartFetch, Providers
<1>2. /\ fetch' \in [provider: Providers \cup {"none"}, at: Going \cup {"idle"},
                     body: Nat, result: Results]
      /\ fetch'.at = "connecting" /\ fetch'.body = 0 /\ fetch'.result = "none"
  BY <1>1 DEF NoFetch, Going, Results
<1>3. /\ answer' \in Answers /\ http' = NoHttp /\ due' = FALSE /\ broken' = FALSE
      /\ UNCHANGED halted /\ halted \in BOOLEAN
  BY DEF StartFetch, FetchInv, FetchTypes
<1>4. http' \in [done: BOOLEAN, succeeded: BOOLEAN, tooLarge: BOOLEAN] /\ ~http'.done
  BY <1>3 DEF NoHttp
<1>5. 0 <= answer'.size /\ 0 <= MaxResponse
  <2>1. answer'.size \in BodySizes /\ BodySizes \subseteq Nat /\ MaxResponse \in Nat
    BY <1>3, FetchAssumption DEF Answers
  <2>2. answer'.size \in Nat
    BY <2>1
  <2> QED BY <2>1, <2>2
<1> QED BY <1>2, <1>3, <1>4, <1>5
        DEF FetchInv, FetchTypes, BodyFits, GivenUp, AnswerGiven

\* Every step of a call, of the clock and of the token.
LEMMA FetchSteps == FetchInv /\ [FetchNext]_fetchVars => FetchInv'
<1> SUFFICES ASSUME FetchInv, [FetchNext]_fetchVars PROVE FetchInv'
  OBVIOUS
<1>1. FetchTypes
  BY DEF FetchInv
<1>2. CASE TimePasses \/ HaltKit
  BY <1>2 DEF TimePasses, HaltKit, FetchInv, FetchTypes, BodyFits, GivenUp, AnswerGiven
<1>3. CASE GodotRequest \/ GodotHeaders
  <2>1. /\ UNCHANGED <<answer, http, due, halted, broken>> /\ fetch.at \in Going
        /\ \E place \in Going \ {"returned"} :
              fetch' = [fetch EXCEPT !.at = place] /\ fetch.at # "returned"
    BY <1>3 DEF GodotRequest, GodotHeaders, At, Going
  <2> QED BY <2>1, FetchMoves
<1>4. CASE GodotFails \/ GodotPoll
  <2>1. /\ UNCHANGED <<answer, http, due, halted, broken>> /\ fetch.at \in Going
        /\ fetch.provider = "godot"
        /\ \/ Returns("network")
           \/ due /\ Returns("timeout")
           \/ halted /\ Returns("cancelled")
    BY <1>4 DEF GodotFails, GodotPoll, Going
  <2> QED BY <2>1, FetchMoves
<1>5. CASE UNCHANGED fetchVars
  BY <1>5 DEF fetchVars, FetchInv, FetchTypes, BodyFits, GivenUp, AnswerGiven
<1> QED BY <1>2, <1>3, <1>4, <1>5, StartKeepsFetch, BodyReads, UnrealKeeps, CurlKeeps, ApiKeeps
        DEF FetchNext

\* dk_providers.cpp, DkUnrealProviders.cpp, curl_fetch_provider.cpp and APIClient::call:
\* a call that succeeds gave the whole body of a good answer within the limit, unless
\* the connection broke under Godot's loop; it is cancelled or times out only when the
\* token or the clock said so.
THEOREM WholeAnswerAlways == FetchSpec => []WholeAnswer
<1>1. FetchInv => WholeAnswer
  BY DEF FetchInv, GivenUp, AnswerGiven, WholeAnswer
<1> QED BY <1>1, FetchStarts, FetchSteps, PTL DEF FetchSpec

-----------------------------------------------------------------------------
(* Godot's socket *)

Packet == Nat \ {0}
Peers == [link : Nat, state : {"null", "connecting", "open", "closed"}, queue : Seq(Packet)]
Wires == [link : 0..MaxLinks, state : {"connecting", "open", "closed"},
          sent : 0..Len(Packets), packets : Seq(Packet)]
GodotTypes ==
    /\ wspeer \in Peers
    /\ wire \in Wires
    /\ handed \in [1..MaxLinks -> Seq(Packet)]

\* The packets nobody has taken, and how many of the connection were taken.
Pending == wspeer.queue \o wire.packets
Read == wire.sent - Len(Pending)

\* All that were read and fit have been returned.
Took(s, k) ==
    /\ \A i \in DOMAIN s : s[i] <= k
    /\ \A p \in 1..k : Packets[p] <= MaxPacket => \E j \in DOMAIN s : s[j] = p

\* The untaken packets are the next ones of the connection the peer is of.
Upcoming ==
    LET live == wire.state # "closed" \/ Pending # <<>>
    IN  /\ live => wspeer.link = wire.link /\ wire.link # 0 /\ Took(handed[wire.link], Read)
        /\ Read \in Nat
        /\ \A i \in 1..Len(Pending) : Pending[i] = Read + i
        /\ \A n \in 1..MaxLinks : n > wire.link => handed[n] = <<>>

GodotInv == GodotTypes /\ Upcoming /\ GodotWhole

\* A wire and a peer, field by field, and a wire with a state and packets put in.
LEMMA WireFields ==
    ASSUME NEW w \in Wires, NEW p \in Peers
    PROVE  /\ w.link \in 0..MaxLinks /\ w.state \in {"connecting", "open", "closed"}
           /\ w.sent \in 0..Len(Packets) /\ w.packets \in Seq(Packet)
           /\ p.link \in Nat /\ p.state \in {"null", "connecting", "open", "closed"}
           /\ p.queue \in Seq(Packet)
BY DEF Wires, Peers

LEMMA WireChanges ==
    ASSUME NEW w \in Wires, NEW packets \in Seq(Packet), NEW st \in {"connecting", "open", "closed"}
    PROVE  /\ [w EXCEPT !.packets = packets] =
                [link |-> w.link, state |-> w.state, sent |-> w.sent, packets |-> packets]
           /\ [w EXCEPT !.state = st, !.packets = packets] =
                [link |-> w.link, state |-> st, sent |-> w.sent, packets |-> packets]
           /\ [w EXCEPT !.state = st] =
                [link |-> w.link, state |-> st, sent |-> w.sent, packets |-> w.packets]
           /\ [w EXCEPT !.packets = packets] \in Wires
           /\ [w EXCEPT !.state = st, !.packets = packets] \in Wires
           /\ [w EXCEPT !.state = st] \in Wires
<1>1. /\ w.link \in 0..MaxLinks /\ w.state \in {"connecting", "open", "closed"}
      /\ w.sent \in 0..Len(Packets) /\ w.packets \in Seq(Packet)
  BY DEF Wires
<1>2. w = [link |-> w.link, state |-> w.state, sent |-> w.sent, packets |-> w.packets]
  BY DEF Wires
<1>3. [w EXCEPT !.packets = packets] =
        [link |-> w.link, state |-> w.state, sent |-> w.sent, packets |-> packets]
  BY <1>2
<1>4. [w EXCEPT !.state = st] =
        [link |-> w.link, state |-> st, sent |-> w.sent, packets |-> w.packets]
  BY <1>2
<1>5. [w EXCEPT !.state = st, !.packets = packets] =
        [link |-> w.link, state |-> st, sent |-> w.sent, packets |-> packets]
  <2> DEFINE e == [w EXCEPT !.state = st, !.packets = packets]
  <2>1. e \in Wires
    BY DEF Wires
  <2>2. e.link = w.link /\ e.state = st /\ e.sent = w.sent /\ e.packets = packets
    BY DEF Wires
  <2> HIDE DEF e
  <2>3. e = [link |-> e.link, state |-> e.state, sent |-> e.sent, packets |-> e.packets]
    BY <2>1 DEF Wires
  <2>4. e = [link |-> w.link, state |-> st, sent |-> w.sent, packets |-> packets]
    BY <2>2, <2>3
  <2> QED BY <2>4 DEF e
<1>6. \A b \in {"connecting", "open", "closed"}, d \in Seq(Packet) :
          [link |-> w.link, state |-> b, sent |-> w.sent, packets |-> d] \in Wires
  BY <1>1 DEF Wires
<1> QED BY <1>1, <1>3, <1>4, <1>5, <1>6

\* What a peer becomes when it is polled, and when its first packet is taken.
LEMMA PeerChanges ==
    ASSUME NEW p \in Peers, NEW q \in Seq(Packet), NEW st \in {"connecting", "open", "closed"}
    PROVE  /\ [p EXCEPT !.state = st, !.queue = q] = [link |-> p.link, state |-> st, queue |-> q]
           /\ [link |-> p.link, state |-> st, queue |-> q] \in Peers
<1>1. p = [link |-> p.link, state |-> p.state, queue |-> p.queue] /\ p.link \in Nat
  BY DEF Peers
<1>2. [p EXCEPT !.state = st, !.queue = q] = [link |-> p.link, state |-> st, queue |-> q]
  <2> DEFINE e == [p EXCEPT !.state = st, !.queue = q]
  <2>1. e \in Peers
    BY DEF Peers
  <2>2. e.link = p.link /\ e.state = st /\ e.queue = q
    BY DEF Peers
  <2> HIDE DEF e
  <2>3. e = [link |-> e.link, state |-> e.state, queue |-> e.queue]
    BY <2>1 DEF Peers
  <2>4. e = [link |-> p.link, state |-> st, queue |-> q]
    BY <2>2, <2>3
  <2> QED BY <2>4 DEF e
<1> QED BY <1>1, <1>2 DEF Peers

\* The packets nobody has taken are packets.
LEMMA PendingIs ==
    ASSUME GodotTypes
    PROVE  /\ Pending \in Seq(Packet) /\ Len(Pending) = Len(wspeer.queue) + Len(wire.packets)
           /\ Len(Pending) \in Nat /\ (Pending = <<>> <=> Len(Pending) = 0)
           /\ wire.sent \in Nat /\ wire.packets \in Seq(Packet) /\ wspeer.queue \in Seq(Packet)
<1>1. wspeer.queue \in Seq(Packet) /\ wire.packets \in Seq(Packet) /\ wire.sent \in Nat
  BY WireFields DEF GodotTypes
<1>2. Pending \in Seq(Packet) /\ Len(Pending) = Len(wspeer.queue) + Len(wire.packets)
  BY <1>1, ConcatProperties DEF Pending
<1> QED BY <1>1, <1>2, EmptySeq, LenProperties

\* One packet more is taken.
LEMMA TakenOneMore ==
    ASSUME NEW s \in Seq(Packet), NEW k \in Nat, TakenInOrder(s), Took(s, k)
    PROVE  /\ Packets[k + 1] <= MaxPacket =>
                /\ TakenInOrder(Append(s, k + 1)) /\ Took(Append(s, k + 1), k + 1)
                /\ Append(s, k + 1) \in Seq(Packet)
           /\ ~(Packets[k + 1] <= MaxPacket) => Took(s, k + 1)
<1> DEFINE t == Append(s, k + 1)
<1>1. /\ DOMAIN s = 1..Len(s) /\ Len(s) \in Nat /\ \A i \in 1..Len(s) : s[i] \in Packet
      /\ t \in Seq(Packet) /\ DOMAIN t = 1..(Len(s) + 1)
      /\ t[Len(s) + 1] = k + 1 /\ \A i \in 1..Len(s) : t[i] = s[i]
  <2>1. k + 1 \in Packet
    BY DEF Packet
  <2>2. t \in Seq(Packet) /\ Len(t) = Len(s) + 1 /\ t[Len(s) + 1] = k + 1
        /\ \A i \in 1..Len(s) : t[i] = s[i]
    BY <2>1, AppendProperties
  <2>3. Len(s) \in Nat /\ DOMAIN s = 1..Len(s) /\ \A i \in 1..Len(s) : s[i] \in Packet
    BY ElementOfSeq, LenProperties
  <2> HIDE DEF t
  <2>4. DOMAIN t = 1..(Len(s) + 1)
    BY <2>2, LenProperties
  <2> QED BY <2>2, <2>3, <2>4
<1> HIDE DEF t
<1>2. ASSUME ~(Packets[k + 1] <= MaxPacket)
      PROVE  Took(s, k + 1)
  BY <1>1, <1>2 DEF Took, Packet
<1>3. ASSUME Packets[k + 1] <= MaxPacket
      PROVE  TakenInOrder(t) /\ Took(t, k + 1)
  <2>1. Took(t, k + 1)
    <3>1. ASSUME NEW i \in DOMAIN t
          PROVE  t[i] <= k + 1
      <4>1. CASE i \in 1..Len(s)
        <5>1. s[i] <= k /\ s[i] \in Nat /\ t[i] = s[i]
          BY <1>1, <4>1 DEF Took, Packet
        <5> QED BY <5>1
      <4>2. CASE i = Len(s) + 1
        BY <1>1, <4>2
      <4> QED BY <1>1, <4>1, <4>2
    <3>2. ASSUME NEW p \in 1..(k + 1), Packets[p] <= MaxPacket
          PROVE  \E j \in DOMAIN t : t[j] = p
      <4>1. CASE p = k + 1
        <5>1. Len(s) + 1 \in DOMAIN t
          BY <1>1
        <5> QED BY <1>1, <4>1, <5>1
      <4>2. CASE p \in 1..k
        <5>1. PICK j \in DOMAIN s : s[j] = p
          BY <3>2, <4>2 DEF Took
        <5> QED BY <1>1, <5>1
      <4> QED BY <4>1, <4>2
    <3> QED BY <3>1, <3>2 DEF Took
  <2>2. ASSUME NEW i \in DOMAIN t, NEW j \in DOMAIN t, i < j
        PROVE  t[i] < t[j]
    <3>1. i \in DOMAIN s /\ s[i] <= k /\ s[i] \in Packet /\ t[i] = s[i]
      BY <1>1, <2>2 DEF Took
    <3>2. CASE j = Len(s) + 1
      BY <1>1, <3>1, <3>2 DEF Packet
    <3>3. CASE j \in 1..Len(s)
      <4>1. s[i] < s[j] /\ t[j] = s[j]
        BY <1>1, <2>2, <3>1, <3>3 DEF TakenInOrder
      <4> QED BY <3>1, <4>1
    <3> QED BY <1>1, <3>2, <3>3
  <2>3. ASSUME NEW i \in DOMAIN t, NEW p \in 1..t[i]
        PROVE  Packets[p] <= MaxPacket <=> \E j \in 1..i : t[j] = p
    <3>1. CASE i \in 1..Len(s)
      <4>1. i \in DOMAIN s /\ p \in 1..s[i]
        BY <1>1, <2>3, <3>1
      <4>2. Packets[p] <= MaxPacket <=> \E j \in 1..i : s[j] = p
        BY <4>1 DEF TakenInOrder
      <4>3. \A j \in 1..i : t[j] = s[j]
        BY <1>1, <3>1
      <4> QED BY <4>2, <4>3
    <3>2. CASE i = Len(s) + 1
      <4>1. p \in 1..(k + 1) /\ 1..i = DOMAIN t
        BY <1>1, <2>3, <3>2
      <4>2. Packets[p] <= MaxPacket => \E j \in 1..i : t[j] = p
        BY <2>1, <4>1 DEF Took
      <4>3. ASSUME NEW j \in 1..i, t[j] = p
            PROVE  Packets[p] <= MaxPacket
        <5>1. CASE j = i
          BY <1>1, <1>3, <3>2, <4>3, <5>1
        <5>2. CASE j \in 1..Len(s)
          <6>1. s[j] = p /\ j \in DOMAIN s /\ p \in 1..s[j]
            BY <1>1, <4>3, <5>2 DEF Packet
          <6>2. j \in 1..j
            BY <5>2
          <6> QED BY <6>1, <6>2 DEF TakenInOrder
        <5> QED BY <1>1, <3>2, <5>1, <5>2
      <4> QED BY <4>2, <4>3
    <3> QED BY <1>1, <3>1, <3>2
  <2> QED BY <2>1, <2>2, <2>3 DEF TakenInOrder
<1> QED BY <1>1, <1>2, <1>3 DEF t

\* Nothing was taken of any connection.
LEMMA GodotStarts == GodotInit => GodotInv
<1> SUFFICES ASSUME GodotInit PROVE GodotInv
  OBVIOUS
<1>1. GodotTypes
  BY GodotAssumption DEF GodotInit, GodotTypes, NoPeer, Peers, Wires
<1>2. Pending = <<>> /\ Len(Pending) = 0 /\ wire.state = "closed" /\ wire.sent = 0
  BY DEF Pending, GodotInit, NoPeer
<1>3. Upcoming
  BY <1>2 DEF Upcoming, Read, GodotInit
<1>4. GodotWhole
  BY DEF GodotWhole, GodotInit, TakenInOrder
<1> QED BY <1>1, <1>3, <1>4 DEF GodotInv

\* No packet is left: the connection was closed, refused or asked for anew.
LEMMA NothingPending ==
    ASSUME GodotInv, GodotTypes', handed' = handed, Pending' = <<>>,
           \/ wire'.state = "closed" /\ wire'.link = wire.link
           \/ wire'.link = wire.link + 1 /\ wspeer'.link = wire'.link /\ wire'.sent = 0
    PROVE  GodotInv'
<1>1. Len(Pending') = 0 /\ Read' = wire'.sent /\ Read' \in Nat
  <2>1. wire'.sent \in 0..Len(Packets) /\ Len(Packets) \in Nat
    BY GodotAssumption, LenProperties DEF GodotTypes, Wires
  <2>2. Len(Pending') = 0
    BY EmptySeq
  <2> QED BY <2>1, <2>2 DEF Read
<1>2. wire.link \in 0..MaxLinks /\ wire'.link \in 0..MaxLinks
  BY DEF GodotInv, GodotTypes, Wires
<1>3. ASSUME wire'.state # "closed"
      PROVE  wspeer'.link = wire'.link /\ wire'.link # 0 /\ Took(handed'[wire'.link], Read')
  <2>1. wire'.link = wire.link + 1 /\ handed'[wire'.link] = <<>> /\ Read' = 0
    BY <1>1, <1>2, <1>3, GodotAssumption DEF GodotInv, Upcoming
  <2> QED BY <1>2, <1>3, <2>1 DEF Took
<1>4. \A n \in 1..MaxLinks : n > wire'.link => handed'[n] = <<>>
  BY <1>2, GodotAssumption DEF GodotInv, Upcoming
<1>5. GodotWhole'
  BY DEF GodotInv, GodotWhole, TakenInOrder
<1> QED BY <1>1, <1>3, <1>4, <1>5 DEF GodotInv, Upcoming

\* The packets stay, in the peer or on the wire, and perhaps the connection goes.
LEMMA PendingStays ==
    ASSUME GodotInv, GodotTypes', handed' = handed, Pending' = Pending,
           wire'.link = wire.link, wire'.sent = wire.sent, wspeer'.link = wspeer.link,
           wire.state = "closed" => wire'.state = "closed"
    PROVE  GodotInv'
<1>1. Read' = Read
  BY DEF Read
<1>2. GodotWhole'
  BY DEF GodotInv, GodotWhole, TakenInOrder
<1>3. Upcoming'
  BY <1>1 DEF GodotInv, Upcoming, Took
<1> QED BY <1>2, <1>3 DEF GodotInv

\* What poll() brings into the peer.
LEMMA PolledIs ==
    ASSUME GodotTypes
    PROVE  /\ Polled = [link |-> wspeer.link, state |-> wire.state, queue |-> Pending]
           /\ Polled \in Peers
           /\ \A s \in Seq(Packet) : s \o <<>> = s
<1>1. /\ Polled = [link |-> wspeer.link, state |-> wire.state, queue |-> Pending]
      /\ Polled \in Peers
  <2>1. Polled = [wspeer EXCEPT !.state = wire.state, !.queue = Pending]
    BY DEF Polled, Pending
  <2>2. wspeer \in Peers /\ Pending \in Seq(Packet) /\ wire.state \in {"connecting", "open", "closed"}
    BY WireFields, PendingIs DEF GodotTypes
  <2>3. /\ [wspeer EXCEPT !.state = wire.state, !.queue = Pending] =
              [link |-> wspeer.link, state |-> wire.state, queue |-> Pending]
        /\ [link |-> wspeer.link, state |-> wire.state, queue |-> Pending] \in Peers
    BY <2>2, PeerChanges, Zenon
  <2> QED BY <2>1, <2>3
<1>2. \A s \in Seq(Packet) : s \o <<>> = s
  BY ConcatEmptySeq
<1> QED BY <1>1, <1>2

\* The next packet of the connection arrives.
LEMMA PacketJoins ==
    ASSUME GodotInv, PacketArrives
    PROVE  GodotInv'
<1> USE DEF GodotInv
<1>1. /\ wire' = [wire EXCEPT !.sent = @ + 1, !.packets = Append(@, wire.sent + 1)]
      /\ wspeer' = wspeer /\ handed' = handed /\ wire.state = "open" /\ wire.sent < Len(Packets)
  BY DEF PacketArrives, Wire
<1>2. wire.sent + 1 \in Packet /\ wire.sent + 1 \in 0..Len(Packets) /\ Len(Packets) \in Nat
  BY <1>1, PendingIs, GodotAssumption, LenProperties DEF Packet
<1>3. wire'.packets = Append(wire.packets, wire.sent + 1) /\ wire'.sent = wire.sent + 1
      /\ wire'.link = wire.link /\ wire'.state = "open"
  BY <1>1 DEF GodotTypes, Wires
<1>4. GodotTypes'
  <2>1. wire'.packets \in Seq(Packet)
    BY <1>2, <1>3, PendingIs, AppendProperties
  <2>2. wire' = [link |-> wire.link, state |-> "open", sent |-> wire.sent + 1,
                 packets |-> wire'.packets]
    BY <1>1, <1>3 DEF GodotTypes, Wires
  <2>3. wire' \in Wires
    BY <1>2, <2>1, <2>2, WireFields DEF GodotTypes, Wires
  <2> QED BY <1>1, <2>3 DEF GodotTypes
<1>5. Pending' = wspeer.queue \o Append(wire.packets, wire.sent + 1)
  BY <1>1, <1>3 DEF Pending
<1>6. /\ Len(Pending') = Len(Pending) + 1 /\ Pending'[Len(Pending) + 1] = wire.sent + 1
      /\ \A i \in 1..Len(Pending) : Pending'[i] = Pending[i]
  <2> DEFINE q == wspeer.queue
             p == wire.packets
             x == wire.sent + 1
  <2>1. q \in Seq(Packet) /\ p \in Seq(Packet) /\ x \in Packet /\ Len(q) \in Nat /\ Len(p) \in Nat
    BY <1>2, PendingIs, LenProperties
  <2>2. Pending = q \o p /\ Pending' = q \o Append(p, x)
    BY <1>5 DEF Pending
  <2> HIDE DEF q, p, x
  <2>3. /\ Append(p, x) \in Seq(Packet) /\ Len(Append(p, x)) = Len(p) + 1
        /\ Append(p, x)[Len(p) + 1] = x /\ \A i \in 1..Len(p) : Append(p, x)[i] = p[i]
    BY <2>1, AppendProperties
  <2>4. /\ Len(q \o p) = Len(q) + Len(p)
        /\ \A i \in 1..(Len(q) + Len(p)) : (q \o p)[i] = IF i <= Len(q) THEN q[i] ELSE p[i - Len(q)]
    BY <2>1, ConcatProperties
  <2>5. /\ Len(q \o Append(p, x)) = Len(q) + Len(Append(p, x))
        /\ \A i \in 1..(Len(q) + Len(Append(p, x))) :
              (q \o Append(p, x))[i] = IF i <= Len(q) THEN q[i] ELSE Append(p, x)[i - Len(q)]
    BY <2>1, <2>3, ConcatProperties
  <2>6. Pending'[Len(q) + Len(p) + 1] = x
    <3>1. ~(Len(q) + Len(p) + 1 <= Len(q)) /\ Len(q) + Len(p) + 1 - Len(q) = Len(p) + 1
          /\ Len(q) + Len(p) + 1 \in 1..(Len(q) + Len(Append(p, x)))
      BY <2>1, <2>3
    <3> QED BY <2>2, <2>3, <2>5, <3>1
  <2>7. ASSUME NEW i \in 1..(Len(q) + Len(p))
        PROVE  Pending'[i] = Pending[i]
    <3>1. i \in 1..(Len(q) + Len(Append(p, x)))
      BY <2>1, <2>3
    <3>2. CASE i <= Len(q)
      BY <2>2, <2>4, <2>5, <3>1, <3>2
    <3>3. CASE ~(i <= Len(q))
      <4>1. i - Len(q) \in 1..Len(p)
        BY <2>1, <3>3
      <4> QED BY <2>2, <2>3, <2>4, <2>5, <3>1, <3>3, <4>1
    <3> QED BY <3>2, <3>3
  <2> QED BY <2>1, <2>2, <2>3, <2>4, <2>5, <2>6, <2>7 DEF x
<1>7. Read' = Read /\ Read \in Nat /\ wire.sent = Read + Len(Pending)
  BY <1>3, <1>6, PendingIs DEF Read, Upcoming
<1>8. Upcoming'
  <2>1. wspeer'.link = wire'.link /\ wire'.link # 0 /\ Took(handed'[wire'.link], Read')
    BY <1>1, <1>3, <1>7 DEF Upcoming, Took
  <2>2. \A i \in 1..Len(Pending') : Pending'[i] = Read' + i
    <3>1. ASSUME NEW i \in 1..Len(Pending')
          PROVE  Pending'[i] = Read' + i
      <4>1. CASE i \in 1..Len(Pending)
        BY <1>6, <1>7, <4>1 DEF Upcoming
      <4>2. CASE i = Len(Pending) + 1
        BY <1>6, <1>7, <4>2, PendingIs
      <4> QED BY <1>6, <4>1, <4>2, PendingIs
    <3> QED BY <3>1
  <2>3. \A n \in 1..MaxLinks : n > wire'.link => handed'[n] = <<>>
    BY <1>1, <1>3 DEF Upcoming
  <2> QED BY <1>7, <2>1, <2>2, <2>3 DEF Upcoming
<1>9. GodotWhole'
  BY <1>1 DEF GodotWhole, TakenInOrder
<1> QED BY <1>4, <1>8, <1>9

\* receive takes the first packet, or drops it, or ends without one.
LEMMA ReceiveTakes ==
    ASSUME GodotInv, NEW c, PollReceive(c)
    PROVE  GodotInv'
<1> USE DEF GodotInv
<1>1. wire' = [wire EXCEPT !.packets = <<>>]
  BY DEF PollReceive
<1>2. wire'.packets = <<>> /\ wire'.sent = wire.sent /\ wire'.link = wire.link
      /\ wire'.state = wire.state /\ Polled.queue = Pending /\ Polled.link = wspeer.link
      /\ wire' \in Wires
  <2>1. /\ wire' = [link |-> wire.link, state |-> wire.state, sent |-> wire.sent, packets |-> <<>>]
        /\ wire' \in Wires
    BY <1>1, WireChanges, WireFields, EmptySeq DEF GodotTypes
  <2> QED BY <2>1, PolledIs
<1>3. CASE Pending = <<>>
  <2>1. wspeer' = Polled /\ handed' = handed
    BY <1>2, <1>3 DEF PollReceive
  <2>2. GodotTypes' /\ Pending' = Pending /\ wspeer'.link = wspeer.link
    BY <1>2, <2>1, PolledIs, PendingIs DEF GodotTypes, Pending
  <2> QED BY <1>2, <2>1, <2>2, PendingStays
<1>4. CASE Pending # <<>>
  <2> DEFINE n == wire.link
             h == Head(Pending)
  <2>1. /\ wspeer' = [Polled EXCEPT !.queue = Tail(@)]
        /\ handed' = IF Packets[h] > MaxPacket THEN handed
                     ELSE [handed EXCEPT ![wspeer.link] = Append(@, h)]
    BY <1>2, <1>4 DEF PollReceive
  <2>2. /\ n \in 1..MaxLinks /\ wspeer.link = n /\ Took(handed[n], Read) /\ Read \in Nat
        /\ handed[n] \in Seq(Packet) /\ TakenInOrder(handed[n])
        /\ Len(Pending) \in Nat \ {0} /\ Pending \in Seq(Packet)
    <3>1. wspeer.link = n /\ n # 0 /\ Took(handed[n], Read) /\ Read \in Nat
      BY <1>4 DEF Upcoming
    <3>2. n \in 1..MaxLinks
      BY <3>1, WireFields, GodotAssumption DEF GodotTypes
    <3> QED BY <1>4, <3>1, <3>2, PendingIs DEF GodotTypes, GodotWhole
  <2>3. h = Read + 1 /\ h \in Packet
    BY <1>4, <2>2, HeadTailProperties DEF Upcoming
  <2>4. h = Read + 1 /\ Packets[h] \in Nat /\ MaxPacket \in Nat
    <3>1. h \in 1..Len(Packets) /\ Len(Packets) \in Nat
      <4>1. wire.sent \in 0..Len(Packets) /\ Len(Packets) \in Nat
        BY WireFields, GodotAssumption, LenProperties DEF GodotTypes
      <4> QED BY <2>2, <2>3, <4>1 DEF Read
    <3> QED BY <2>3, <3>1, GodotAssumption
  <2>5. /\ Tail(Pending) \in Seq(Packet) /\ Len(Tail(Pending)) = Len(Pending) - 1
        /\ \A i \in 1..Len(Tail(Pending)) : Tail(Pending)[i] = Pending[i + 1]
    BY <1>4, <2>2, HeadTailProperties
  <2>6. wspeer' = [link |-> n, state |-> wire.state, queue |-> Tail(Pending)]
    <3>1. Polled = [link |-> n, state |-> wire.state, queue |-> Pending]
      BY <2>2, PolledIs
    <3> QED BY <2>1, <3>1
  <2>7. Pending' = Tail(Pending)
    BY <1>2, <2>5, <2>6, PolledIs DEF Pending
  <2>8. Read' = Read + 1
    BY <1>2, <2>2, <2>5, <2>7, PendingIs DEF Read
  <2>9. /\ handed' \in [1..MaxLinks -> Seq(Packet)]
        /\ TakenInOrder(handed'[n]) /\ Took(handed'[n], Read + 1)
        /\ \A m \in 1..MaxLinks : m # n => handed'[m] = handed[m]
    <3>1. CASE Packets[Read + 1] <= MaxPacket
      <4>1. ~(Packets[h] > MaxPacket)
        BY <2>4, <3>1
      <4>2. handed' = [handed EXCEPT ![n] = Append(handed[n], Read + 1)]
        BY <2>1, <2>2, <2>3, <4>1
      <4> QED BY <2>2, <3>1, <4>2, TakenOneMore DEF GodotTypes
    <3>2. CASE ~(Packets[Read + 1] <= MaxPacket)
      <4>1. handed' = handed
        BY <2>1, <2>4, <3>2
      <4> QED BY <2>2, <3>2, <4>1, TakenOneMore DEF GodotTypes
    <3> QED BY <3>1, <3>2
  <2>10. GodotTypes'
    BY <1>2, <2>2, <2>5, <2>6, <2>9, WireFields DEF GodotTypes, Peers
  <2>11. Upcoming'
    <3>1. \A i \in 1..Len(Pending') : Pending'[i] = Read' + i
      BY <2>2, <2>5, <2>7, <2>8 DEF Upcoming
    <3>2. \A m \in 1..MaxLinks : m > wire'.link => handed'[m] = <<>>
      BY <1>2, <2>2, <2>9 DEF Upcoming
    <3> QED BY <1>2, <2>2, <2>6, <2>8, <2>9, <3>1, <3>2 DEF Upcoming
  <2>12. GodotWhole'
    BY <2>9 DEF GodotWhole
  <2> QED BY <2>10, <2>11, <2>12
<1> QED BY <1>3, <1>4
\* A call of Godot's socket, the clock, the kit or the network.
LEMMA GodotSteps == GodotInv /\ [GodotNext]_godotVars => GodotInv'
<1> SUFFICES ASSUME GodotInv, [GodotNext]_godotVars PROVE GodotInv'
  OBVIOUS
<1> USE DEF GodotInv
<1>1. ASSUME UNCHANGED <<wspeer, wire, handed>>
      PROVE  GodotInv'
  <2>1. GodotTypes' /\ Pending' = Pending
    BY <1>1 DEF GodotTypes, Pending
  <2> QED BY <1>1, <2>1, PendingStays
<1>2. ASSUME closeLocked, handed' = handed
      PROVE  GodotInv'
  <2>1. wspeer' = NoPeer /\ wire'.state = "closed" /\ wire'.link = wire.link
        /\ wire'.packets = <<>> /\ wire' \in Wires
    <3>1. /\ wire' = [link |-> wire.link, state |-> "closed", sent |-> wire.sent, packets |-> <<>>]
          /\ wire' \in Wires /\ wspeer' = NoPeer
      BY <1>2, WireChanges, EmptySeq DEF closeLocked, GodotTypes
    <3> QED BY <3>1
  <2>2. GodotTypes' /\ Pending' = <<>>
    BY <1>2, <2>1 DEF GodotTypes, NoPeer, Pending, Peers
  <2> QED BY <1>2, <2>1, <2>2, NothingPending
<1>3. ASSUME wspeer' = Polled, wire' = [wire EXCEPT !.packets = <<>>], handed' = handed
      PROVE  GodotInv'
  <2>1. /\ wire'.packets = <<>> /\ wire'.sent = wire.sent /\ wire'.link = wire.link
        /\ wire'.state = wire.state
        /\ wire' \in Wires
    <3>1. /\ wire' = [link |-> wire.link, state |-> wire.state, sent |-> wire.sent, packets |-> <<>>]
          /\ wire' \in Wires
      BY <1>3, WireChanges, WireFields, EmptySeq DEF GodotTypes
    <3> QED BY <3>1
  <2>2. /\ wspeer' = [link |-> wspeer.link, state |-> wire.state, queue |-> Pending]
        /\ wspeer' \in Peers /\ Pending \o <<>> = Pending
    BY <1>3, PolledIs, PendingIs
  <2>3. wspeer'.queue = Pending /\ wspeer'.link = wspeer.link
    BY <2>2
  <2>4. GodotTypes' /\ Pending' = Pending
    BY <1>3, <2>1, <2>2, <2>3 DEF GodotTypes, Pending
  <2> QED BY <1>3, <2>1, <2>3, <2>4, PendingStays
<1>4. ASSUME NEW c \in Callers, ConnectStarts(c)
      PROVE  GodotInv'
  <2>1. /\ wire' = [link |-> wire.link + 1, state |-> "connecting", sent |-> 0, packets |-> <<>>]
        /\ wspeer' = [link |-> wire.link + 1, state |-> "connecting", queue |-> <<>>]
        /\ handed' = handed /\ wire.link < MaxLinks
    BY <1>4 DEF ConnectStarts
  <2>2. GodotTypes' /\ Pending' = <<>>
    BY <2>1, GodotAssumption, LenProperties, WireFields DEF GodotTypes, Pending, Peers, Wires
  <2> QED BY <2>1, <2>2, NothingPending
<1>5. ASSUME NEW c \in Callers, ConnectRefused(c)
      PROVE  GodotInv'
  <2>1. /\ wire'.state = "closed" /\ wire'.link = wire.link /\ wire'.packets = <<>>
        /\ wspeer' = [link |-> wire.link, state |-> "closed", queue |-> <<>>]
        /\ handed' = handed
        /\ wire' \in Wires
    <3>1. /\ wire' = [link |-> wire.link, state |-> "closed", sent |-> wire.sent, packets |-> <<>>]
          /\ wire' \in Wires
      BY <1>5, WireChanges, EmptySeq DEF ConnectRefused, GodotTypes
    <3> QED BY <1>5, <3>1 DEF ConnectRefused
  <2>2. GodotTypes' /\ Pending' = <<>>
    BY <2>1, WireFields DEF GodotTypes, Pending, Peers
  <2> QED BY <2>1, <2>2, NothingPending
<1>6. ASSUME NEW c \in Callers, Send(c)
      PROVE  GodotInv'
  BY <1>1, <1>3, <1>6 DEF Send
<1>7. ASSUME NEW c \in Callers, PollConnect(c)
      PROVE  GodotInv'
  <2>1. CASE wspeer' = Polled /\ wire' = [wire EXCEPT !.packets = <<>>]
    BY <1>3, <1>7, <2>1 DEF PollConnect
  <2>2. CASE closeLocked
    BY <1>2, <1>7, <2>2 DEF PollConnect
  <2> QED BY <1>7, <2>1, <2>2 DEF PollConnect
<1>8. ASSUME NEW c \in Callers, GodotClose(c)
      PROVE  GodotInv'
  BY <1>2, <1>8 DEF GodotClose
<1>9. ASSUME NEW c \in Callers,
             \/ ReceiveStarts(c) \/ DeadlinePasses(c)
             \/ \E op \in {"connect", "receive", "send", "close"} : BeginCall(c, op)
      PROVE  GodotInv'
  <2>1. UNCHANGED <<wspeer, wire, handed>>
    BY <1>9 DEF ReceiveStarts, DeadlinePasses, BeginCall
  <2> QED BY <1>1, <2>1
<1>10. ASSUME CancelToken \/ UNCHANGED godotVars
       PROVE  GodotInv'
  <2>1. UNCHANGED <<wspeer, wire, handed>>
    BY <1>10 DEF CancelToken, godotVars
  <2> QED BY <1>1, <2>1
<1>11. ASSUME LinkOpens \/ LinkCloses
       PROVE  GodotInv'
  <2>1. /\ wspeer' = wspeer /\ handed' = handed /\ wire.state # "closed"
        /\ wire'.packets = wire.packets /\ wire'.sent = wire.sent /\ wire'.link = wire.link
        /\ wire' \in Wires
    <3>1. PICK st \in {"open", "closed"} : wire' = [wire EXCEPT !.state = st]
      BY <1>11 DEF LinkOpens, LinkCloses, Wire
    <3>2. /\ wire' = [link |-> wire.link, state |-> st, sent |-> wire.sent, packets |-> wire.packets]
          /\ wire' \in Wires
      BY <3>1, WireChanges, WireFields DEF GodotTypes
    <3> QED BY <1>11, <3>2 DEF LinkOpens, LinkCloses, Wire
  <2>2. GodotTypes' /\ Pending' = Pending
    BY <2>1 DEF GodotTypes, Pending
  <2> QED BY <2>1, <2>2, PendingStays
<1> QED BY <1>4, <1>5, <1>6, <1>7, <1>8, <1>9, <1>10, <1>11, PacketJoins, ReceiveTakes
        DEF GodotNext, CallSteps

\* Whichever workers call, and however their calls interleave with reconnects and closes,
\* receive() of Godot's socket returns of each connection what the server sent on it, in
\* order, only the packets that are too large missing.
THEOREM GodotWholeAlways == GodotSpec => []GodotWhole
<1>1. GodotInv => GodotWhole
  BY DEF GodotInv
<1> QED BY <1>1, GodotStarts, GodotSteps, PTL DEF GodotSpec

\* What the engines' transports hand to the kit is whole, for all three of them at once.
THEOREM TransportsAlwaysWhole ==
    SocketSpec /\ FetchSpec /\ GodotSpec => []TransportsWhole
<1>1. WholeInOrder /\ WholeAnswer /\ GodotWhole => TransportsWhole
  BY DEF TransportsWhole
<1> QED BY <1>1, WholeInOrderAlways, WholeAnswerAlways, GodotWholeAlways, PTL
=============================================================================
