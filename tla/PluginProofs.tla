---------------------------- MODULE PluginProofs ----------------------------
(***************************************************************************)
(* What holds of the plugins for any number of waits, calls, channels,     *)
(* messages, hooks and transactions: whose answer a wait on the shared     *)
(* socket of the buoy listener returns, with which keys Anchor seals a     *)
(* request, what a transaction the Cloud Wallet changed still is, which    *)
(* plugin, wallet, chain and permission an account creation and a login    *)
(* are asked for, and what a transact with cosigners signs.                *)
(***************************************************************************)
EXTENDS Buoy, Anchor, CloudWallet, LoginFlow, Cosign, FiniteSetTheorems, SequenceTheorems,
        WellFoundedInduction, TLAPS

-----------------------------------------------------------------------------
(* Buoy: the waits over one socket *)

Kinds == {"framed", "plain", "control"}
Frames == [kind: Kinds, of: Waits, seq: Nat]
Over == {"idle", "done", "failed", "canceled", "expired"}
Places == {"loop", "receive", "ack", "backoff", "expire"}
WaitRecord == [pc: Over \cup Places, connected: BOOLEAN, late: BOOLEAN, got: Frames \cup {None}]

\* What the service keeps for a channel.
BoxOf(w) == {f \in Frames : f.of = w /\ f.kind # "control"}

BoxesOK ==
    /\ box \in [Waits -> SUBSET Frames]
    /\ \A w \in Waits : box[w] \subseteq BoxOf(w) /\ IsFiniteSet(box[w])

\* The socket brings what was sent to its channel.
WireIsOfChannel == \A i \in 1..Len(wire) : wire[i].of = chan

SocketOK ==
    /\ chan \in Waits \cup {None}
    /\ wire \in Seq(Frames) /\ WireIsOfChannel
    /\ BoxesOK
    /\ sent \in [Waits -> Nat] /\ controls \in Nat

WaitsOK == wait \in [Waits -> WaitRecord] /\ shared \subseteq Waits

\* What one wait holds: to receive it needs a connection, and the frame it is to
\* acknowledge or has returned is a message of its channel unless it ran beside
\* another.
Held(w, r) ==
    /\ r.pc \in {"receive", "ack"} => r.connected
    /\ r.pc = "ack" => r.got \in Frames /\ r.got.kind # "plain" /\ (r.got.of = w \/ w \in shared)
    /\ r.pc = "done" => r.got \in Frames /\ r.got.kind # "control" /\ (r.got.of = w \/ w \in shared)

WaitsHold == \A w \in Waits : Held(w, wait[w])

\* A wait nobody ran beside is the only one, and its connection is the socket.
Alone ==
    \A w \in Waits \ shared : Active(w) =>
        /\ \A v \in Waits \ {w} : ~Active(v)
        /\ wait[w].connected => chan \in {w, None}

BuoyInv == SocketOK /\ WaitsOK /\ WaitsHold /\ Alone

-----------------------------------------------------------------------------
\* The first frame is taken off the socket.
LEMMA ReadSocket ==
    ASSUME SocketOK, wire # <<>>, wire' = Tail(wire), UNCHANGED <<chan, box, sent, controls>>
    PROVE  SocketOK' /\ Head(wire) \in Frames /\ Head(wire).of = chan
<1>1. wire \in Seq(Frames) /\ Len(wire) \in Nat \ {0}
  BY DEF SocketOK
<1>2. Head(wire) = wire[1] /\ wire[1] \in Frames
  BY <1>1
<1>3. wire' \in Seq(Frames) /\ Len(wire') = Len(wire) - 1
      /\ \A i \in 1..Len(wire') : wire'[i] = wire[i + 1]
  BY <1>1
<1>4. WireIsOfChannel'
  BY <1>1, <1>3 DEF SocketOK, WireIsOfChannel
<1>5. Head(wire).of = chan
  BY <1>1, <1>2 DEF SocketOK, WireIsOfChannel
<1> QED BY <1>2, <1>3, <1>4, <1>5 DEF SocketOK, BoxesOK

\* A step that leaves the socket and what was sent alone leaves them in order.
LEMMA SameSocket ==
    ASSUME SocketOK, UNCHANGED <<chan, wire, box, sent, controls>> PROVE SocketOK'
BY DEF SocketOK, WireIsOfChannel, BoxesOK

\* A wait that runs takes a step: the others, if there are any, all run beside it.
LEMMA WaitMoves ==
    ASSUME BuoyInv, NEW w \in Waits, Active(w), NEW r \in WaitRecord,
           wait' = [wait EXCEPT ![w] = r], UNCHANGED shared,
           Held(w, r),
           w \notin shared /\ r.pc \notin Over /\ r.connected => chan' \in {w, None},
           SocketOK'
    PROVE  BuoyInv'
<1>1. \A v \in Waits : wait'[v] = IF v = w THEN r ELSE wait[v]
  BY DEF BuoyInv, WaitsOK
<1>2. WaitsOK'
  BY DEF BuoyInv, WaitsOK
<1>3. WaitsHold'
  BY <1>1 DEF BuoyInv, WaitsHold, Held
<1>4. Alone'
  <2> SUFFICES ASSUME NEW u \in Waits \ shared, (Active(u))'
               PROVE  /\ \A v \in Waits \ {u} : ~(Active(v))'
                      /\ wait'[u].connected => chan' \in {u, None}
    BY DEF Alone
  <2>1. u = w
    BY <1>1 DEF BuoyInv, Alone, Active
  <2>2. \A v \in Waits \ {u} : ~Active(v)
    BY <2>1 DEF BuoyInv, Alone
  <2>3. wait'[u] = r
    BY <1>1, <2>1
  <2> QED BY <1>1, <2>1, <2>2, <2>3 DEF Active, Over
<1> QED BY <1>2, <1>3, <1>4 DEF BuoyInv

\* connect(): the socket is the wait's own, or there is none.
LEMMA ConnectKeeps ==
    ASSUME SocketOK, NEW w \in Waits, Connect(w) \/ ConnectFails, UNCHANGED <<sent, controls>>
    PROVE  SocketOK' /\ chan' \in {w, None}
<1>1. CASE Connect(w)
  <2>1. box[w] \subseteq BoxOf(w) /\ IsFiniteSet(box[w]) /\ Cardinality(box[w]) \in Nat
    BY FS_CardinalityType DEF SocketOK, BoxesOK
  <2>2. wire' \in [1..Cardinality(box[w]) -> box[w]]
    BY <1>1 DEF Connect, InOrder
  <2>3. wire' \in Seq(Frames) /\ \A i \in 1..Len(wire') : wire'[i] \in box[w]
    BY <2>1, <2>2 DEF BoxOf
  <2>4. WireIsOfChannel'
    BY <1>1, <2>1, <2>3 DEF Connect, WireIsOfChannel, BoxOf
  <2> DEFINE left == {f \in box[w] : f.kind = "framed"}
  <2>5. box' = [box EXCEPT ![w] = left] /\ chan' = w
    BY <1>1 DEF Connect
  <2>6. left \subseteq BoxOf(w) /\ IsFiniteSet(left) /\ left \subseteq Frames
    BY <2>1, FS_Subset DEF BoxOf
  <2> HIDE DEF left
  <2>7. \A v \in Waits : box'[v] = IF v = w THEN left ELSE box[v]
    BY <2>5 DEF SocketOK, BoxesOK
  <2>8. BoxesOK'
    BY <2>5, <2>6, <2>7 DEF SocketOK, BoxesOK
  <2> QED BY <2>3, <2>4, <2>5, <2>8 DEF SocketOK
<1>2. CASE ConnectFails
  <2>1. wire' = <<>> /\ chan' = None /\ UNCHANGED box
    BY <1>2 DEF ConnectFails
  <2>2. wire' \in Seq(Frames) /\ WireIsOfChannel'
    BY <2>1 DEF WireIsOfChannel
  <2> QED BY <2>1, <2>2 DEF SocketOK, BoxesOK
<1> QED BY <1>1, <1>2

\* disconnect() and the end of the wait.
LEMMA LeaveKeeps ==
    ASSUME BuoyInv, NEW w \in Waits, Active(w), NEW p \in Over, NEW m \in Frames \cup {None},
           Leave(w, p, m), UNCHANGED <<shared, sent, controls>>, BoxesOK',
           p = "done" => m \in Frames /\ m.kind # "control" /\ (m.of = w \/ w \in shared)
    PROVE  BuoyInv'
<1> DEFINE r == [wait[w] EXCEPT !.pc = p, !.connected = FALSE, !.got = m]
<1>1. wait[w] \in WaitRecord
  BY DEF BuoyInv, WaitsOK
<1>2. r \in WaitRecord /\ r.pc = p /\ r.got = m /\ r.connected = FALSE
  BY <1>1 DEF WaitRecord
<1>3. wait' = [wait EXCEPT ![w] = r]
  BY DEF Leave
<1> HIDE DEF r
<1>4. Held(w, r)
  BY <1>2 DEF Held, Over
<1>5. \/ chan' = None /\ wire' = <<>>
      \/ UNCHANGED <<chan, wire>>
  BY DEF Leave
<1>6. SocketOK'
  <2>1. chan' \in Waits \cup {None} /\ sent' \in [Waits -> Nat] /\ controls' \in Nat
    BY <1>5 DEF BuoyInv, SocketOK
  <2>2. wire' \in Seq(Frames) /\ WireIsOfChannel'
    <3>1. CASE wire' = <<>>
      BY <3>1 DEF WireIsOfChannel
    <3>2. CASE UNCHANGED <<chan, wire>>
      BY <3>2 DEF BuoyInv, SocketOK, WireIsOfChannel
    <3> QED BY <1>5, <3>1, <3>2
  <2> QED BY <2>1, <2>2 DEF SocketOK
<1> QED BY <1>2, <1>3, <1>4, <1>6, WaitMoves

\* A running wait goes to another place, and holds what it must hold there.
LEMMA GoesTo ==
    ASSUME BuoyInv, NEW w \in Waits, Active(w),
           wait' \in [Waits -> WaitRecord], \A v \in Waits \ {w} : wait'[v] = wait[v],
           UNCHANGED shared, SocketOK', Held(w, wait'[w]),
           w \notin shared /\ wait'[w].pc \notin Over /\ wait'[w].connected => chan' \in {w, None}
    PROVE  BuoyInv'
<1>1. wait' = [wait EXCEPT ![w] = wait'[w]]
  BY DEF BuoyInv, WaitsOK
<1> QED BY <1>1, WaitMoves

\* The socket of a wait nobody ran beside.
LEMMA OwnSocket ==
    ASSUME BuoyInv, NEW w \in Waits, Active(w)
    PROVE  /\ wait \in [Waits -> WaitRecord] /\ wait[w] \in WaitRecord /\ Held(w, wait[w])
           /\ w \notin shared /\ wait[w].connected => chan \in {w, None}
           /\ SocketOK
BY DEF BuoyInv, WaitsOK, WaitsHold, Alone

\* The head of the loop keeps the invariant: cancelled, connected, refused, or on to
\* receive (buoy.cpp).
\* The head of the loop keeps the invariant: cancelled, connected, refused, or on to
\* receive (buoy.cpp).
LEMMA BuoyLoop ==
    ASSUME BuoyInv, NEW w \in Waits, Loop(w) PROVE BuoyInv'
<1>1. Active(w) /\ wait[w].pc = "loop" /\ UNCHANGED <<sent, controls, shared>>
  BY DEF Loop, Active
<1>2. wait \in [Waits -> WaitRecord] /\ wait[w] \in WaitRecord /\ SocketOK
  BY <1>1, OwnSocket
<1>3. CASE cancelled /\ Leave(w, "canceled", None) /\ UNCHANGED <<box, faults>>
  <2>1. BoxesOK'
    BY <1>2, <1>3 DEF SocketOK, BoxesOK
  <2> QED BY <1>1, <1>3, <2>1, LeaveKeeps DEF Over
<1>4. CASE /\ ~wait[w].connected /\ Connect(w)
           /\ wait' = [wait EXCEPT ![w].connected = TRUE,
                                   ![w].pc = IF wait[w].late THEN "expire" ELSE "receive"]
  <2>1. /\ wait' \in [Waits -> WaitRecord] /\ wait'[w].connected
        /\ wait'[w].pc \in {"expire", "receive"} /\ \A v \in Waits \ {w} : wait'[v] = wait[v]
    BY <1>2, <1>4 DEF WaitRecord, Places
  <2>2. SocketOK' /\ chan' \in {w, None}
    BY <1>1, <1>2, <1>4, ConnectKeeps
  <2> QED BY <1>1, <2>1, <2>2, GoesTo DEF Held
<1>5. CASE /\ ~wait[w].connected /\ ConnectFails
           /\ At(w, IF wait[w].late THEN "expire" ELSE "backoff")
  <2>1. /\ wait' \in [Waits -> WaitRecord]
        /\ wait'[w].pc \in {"expire", "backoff"} /\ \A v \in Waits \ {w} : wait'[v] = wait[v]
    BY <1>2, <1>5 DEF WaitRecord, Places, At
  <2>2. SocketOK' /\ chan' \in {w, None}
    BY <1>1, <1>2, <1>5, ConnectKeeps
  <2> QED BY <1>1, <2>1, <2>2, GoesTo DEF Held
<1>6. CASE /\ wait[w].connected /\ UNCHANGED <<chan, wire, box, faults>>
           /\ At(w, IF wait[w].late THEN "expire" ELSE "receive")
  <2>1. /\ wait' \in [Waits -> WaitRecord] /\ wait'[w].connected
        /\ wait'[w].pc \in {"expire", "receive"} /\ \A v \in Waits \ {w} : wait'[v] = wait[v]
    BY <1>2, <1>6 DEF WaitRecord, Places, At
  <2>2. SocketOK' /\ (w \notin shared => chan' \in {w, None})
    BY <1>1, <1>2, <1>6, SameSocket, OwnSocket
  <2> QED BY <1>1, <2>1, <2>2, GoesTo DEF Held
<1> QED BY <1>3, <1>4, <1>5, <1>6 DEF Loop

\* A failed receive leaves the wait without a connection.
LEMMA FailedKeeps ==
    ASSUME BuoyInv, NEW w \in Waits, Active(w), SocketFailed(w), SocketOK', UNCHANGED shared
    PROVE  BuoyInv'
<1>1. /\ wait' \in [Waits -> WaitRecord] /\ ~wait'[w].connected
      /\ wait'[w].pc \in {"expire", "backoff"} /\ \A v \in Waits \ {w} : wait'[v] = wait[v]
  BY OwnSocket DEF WaitRecord, Places, SocketFailed
<1> QED BY <1>1, GoesTo DEF Held

\* A frame read from the socket is of the channel the socket was opened for.
\* A frame read from the socket is of the wait's channel: only its service sends on it.
LEMMA BuoyReceive ==
    ASSUME BuoyInv, NEW w \in Waits, Receive(w) PROVE BuoyInv'
<1>1. Active(w) /\ wait[w].pc = "receive" /\ UNCHANGED <<box, sent, controls, shared>>
  BY DEF Receive, Active
<1>2. /\ wait \in [Waits -> WaitRecord] /\ wait[w] \in WaitRecord /\ SocketOK
      /\ wait[w].connected /\ (w \notin shared => chan \in {w, None})
  BY <1>1, OwnSocket DEF Held
<1>3. BoxesOK'
  BY <1>1, <1>2 DEF SocketOK, BoxesOK
<1>4. CASE Leave(w, "canceled", None)
  BY <1>1, <1>3, <1>4, LeaveKeeps DEF Over
<1>5. CASE SocketFailed(w) /\ UNCHANGED <<chan, wire>>
  <2>1. SocketOK'
    BY <1>1, <1>2, <1>5, SameSocket
  <2> QED BY <1>1, <1>5, <2>1, FailedKeeps
<1>6. CASE SocketFailed(w) /\ chan' = None /\ wire' = <<>>
  <2>1. wire' \in Seq(Frames) /\ WireIsOfChannel'
    BY <1>6 DEF WireIsOfChannel
  <2>2. SocketOK'
    BY <1>1, <1>2, <1>3, <1>6, <2>1 DEF SocketOK
  <2> QED BY <1>1, <1>6, <2>2, FailedKeeps
<1>7. CASE At(w, "loop") /\ UNCHANGED <<chan, wire>>
  <2>1. /\ wait' \in [Waits -> WaitRecord]
        /\ wait'[w].pc = "loop" /\ \A v \in Waits \ {w} : wait'[v] = wait[v]
    BY <1>2, <1>7 DEF WaitRecord, Places, At
  <2>2. SocketOK' /\ (w \notin shared => chan' \in {w, None})
    BY <1>1, <1>2, <1>7, SameSocket
  <2> QED BY <1>1, <2>1, <2>2, GoesTo DEF Held
<1>8. ASSUME chan # None, wire # <<>>
      PROVE  /\ Head(wire) \in Frames /\ Head(wire).of = chan
             /\ w \notin shared => Head(wire).of = w
  <2>1. wire \in Seq(Frames) /\ Len(wire) \in Nat \ {0}
    BY <1>2, <1>8 DEF SocketOK
  <2>2. Head(wire) = wire[1] /\ wire[1] \in Frames
    BY <2>1
  <2>3. wire[1].of = chan
    BY <1>2, <2>1 DEF SocketOK, WireIsOfChannel
  <2> QED BY <1>2, <1>8, <2>2, <2>3
<1>9. CASE chan # None /\ wire # <<>> /\ Head(wire).kind = "plain" /\ Leave(w, "done", Head(wire))
  BY <1>1, <1>3, <1>8, <1>9, LeaveKeeps DEF Over
<1>10. CASE /\ chan # None /\ wire # <<>> /\ Head(wire).kind # "plain"
            /\ wait' = [wait EXCEPT ![w].pc = "ack", ![w].got = Head(wire)]
            /\ wire' = Tail(wire) /\ UNCHANGED <<chan, faults>>
  <2>1. /\ wait' \in [Waits -> WaitRecord] /\ wait'[w].connected = wait[w].connected
        /\ wait'[w].pc = "ack" /\ wait'[w].got = Head(wire)
        /\ \A v \in Waits \ {w} : wait'[v] = wait[v]
    BY <1>2, <1>8, <1>10 DEF WaitRecord, Places
  <2>2. SocketOK' /\ (w \notin shared => chan' \in {w, None})
    BY <1>1, <1>2, <1>10, ReadSocket
  <2>3. Held(w, wait'[w])
    BY <1>2, <1>8, <1>10, <2>1 DEF Held
  <2> QED BY <1>1, <2>1, <2>2, <2>3, GoesTo
<1> QED BY <1>4, <1>5, <1>6, <1>7, <1>9, <1>10 DEF Receive

\* A wait returns the very frame it acknowledges, or goes on after one without a message.
\* A wait that acknowledges its answer returns that very frame, or retries.
LEMMA BuoyAck ==
    ASSUME BuoyInv, NEW w \in Waits, Ack(w) PROVE BuoyInv'
<1>1. Active(w) /\ wait[w].pc = "ack" /\ UNCHANGED <<sent, controls, shared>>
  BY DEF Ack, Active
<1> DEFINE f == wait[w].got
<1>2. /\ wait \in [Waits -> WaitRecord] /\ wait[w] \in WaitRecord /\ SocketOK
      /\ wait[w].connected /\ (w \notin shared => chan \in {w, None})
      /\ f \in Frames /\ f.kind # "plain" /\ (f.of = w \/ w \in shared)
  BY <1>1, OwnSocket DEF Held
<1>3. box' = [box EXCEPT ![f.of] = @ \ {f}] \/ UNCHANGED box
  BY DEF Ack
<1>4. BoxesOK'
  <2>1. CASE UNCHANGED box
    BY <1>2, <2>1 DEF SocketOK, BoxesOK
  <2>2. CASE box' = [box EXCEPT ![f.of] = @ \ {f}]
    <3>1. f.of \in Waits /\ box \in [Waits -> SUBSET Frames]
      BY <1>2 DEF Frames, SocketOK, BoxesOK
    <3>2. \A v \in Waits : box'[v] \in SUBSET box[v]
      BY <2>2, <3>1
    <3>3. \A v \in Waits : IsFiniteSet(box'[v])
      BY <1>2, <3>2, FS_Subset DEF SocketOK, BoxesOK
    <3>4. box' \in [Waits -> SUBSET Frames]
      BY <2>2, <3>1
    <3> QED BY <1>2, <3>2, <3>3, <3>4 DEF SocketOK, BoxesOK
  <2> QED BY <1>3, <2>1, <2>2
<1>5. CASE /\ f.kind = "control" /\ wait' = [wait EXCEPT ![w].pc = "loop", ![w].got = None]
           /\ UNCHANGED <<chan, wire>>
  <2>1. /\ wait' \in [Waits -> WaitRecord]
        /\ wait'[w].pc = "loop" /\ \A v \in Waits \ {w} : wait'[v] = wait[v]
    BY <1>2, <1>5 DEF WaitRecord, Places
  <2>2. SocketOK' /\ (w \notin shared => chan' \in {w, None})
    BY <1>1, <1>2, <1>4, <1>5 DEF SocketOK, WireIsOfChannel
  <2> QED BY <1>1, <2>1, <2>2, GoesTo DEF Held
<1>6. CASE f.kind = "framed" /\ Leave(w, "done", f)
  BY <1>1, <1>2, <1>4, <1>6, LeaveKeeps DEF Over
<1> QED BY <1>5, <1>6 DEF Ack

\* Sleeping before a retry, and giving up when the time is over, keep the invariant.
\* Sleeping before a retry, and the timer that ends it, keep the invariant.
LEMMA BuoyBackoff ==
    ASSUME BuoyInv, NEW w \in Waits, Backoff(w) \/ Expire(w) PROVE BuoyInv'
<1>1. Active(w) /\ wait[w].pc \in {"backoff", "expire"} /\ UNCHANGED <<box, sent, controls, shared>>
  BY DEF Backoff, Expire, Active
<1>2. /\ wait \in [Waits -> WaitRecord] /\ wait[w] \in WaitRecord /\ SocketOK
      /\ (w \notin shared /\ wait[w].connected => chan \in {w, None})
  BY <1>1, OwnSocket
<1>3. BoxesOK'
  BY <1>1, <1>2 DEF SocketOK, BoxesOK
<1>4. CASE \E p \in {"canceled", "expired"} : Leave(w, p, None)
  BY <1>1, <1>3, <1>4, LeaveKeeps DEF Over
<1>5. CASE At(w, "loop") /\ UNCHANGED <<chan, wire>>
  <2>1. /\ wait' \in [Waits -> WaitRecord] /\ wait'[w].connected = wait[w].connected
        /\ wait'[w].pc = "loop" /\ \A v \in Waits \ {w} : wait'[v] = wait[v]
    BY <1>2, <1>5 DEF WaitRecord, Places, At
  <2>2. SocketOK'
    BY <1>1, <1>2, <1>5, SameSocket
  <2> QED BY <1>1, <1>2, <1>5, <2>1, <2>2, GoesTo DEF Held
<1> QED BY <1>4, <1>5 DEF Backoff, Expire

\* A wait begins: with the socket for itself, or beside the others, which it then
\* marks together with itself.
LEMMA BuoyBegin ==
    ASSUME BuoyInv, NEW w \in Waits, Begin(w) PROVE BuoyInv'
<1> DEFINE beside == IF \E v \in Waits \ {w} : Active(v)
                     THEN {w} \cup {v \in Waits : Active(v)} ELSE {}
<1>1. wait[w].pc = "idle" /\ shared' = shared \cup beside /\ UNCHANGED <<sent, controls>>
  BY DEF Begin
<1>2. /\ wait \in [Waits -> WaitRecord] /\ wait[w] \in WaitRecord /\ SocketOK
      /\ shared \subseteq Waits /\ WaitsHold /\ Alone
  BY DEF BuoyInv, WaitsOK
<1>3. \/ wait' = [wait EXCEPT ![w].pc = "loop", ![w].connected = TRUE]
      \/ wait' = [wait EXCEPT ![w].pc = "failed"]
  BY DEF Begin, At
<1>4. SocketOK' /\ chan' \in {w, None}
  BY <1>1, <1>2, ConnectKeeps DEF Begin
<1>5. /\ wait' \in [Waits -> WaitRecord] /\ wait'[w].pc \in {"loop", "failed"}
      /\ \A v \in Waits \ {w} : wait'[v] = wait[v]
  BY <1>2, <1>3 DEF WaitRecord, Over, Places
<1>6. shared \subseteq shared' /\ shared' \subseteq Waits
  BY <1>1, <1>2
<1>7. WaitsHold'
  BY <1>2, <1>5, <1>6 DEF WaitsHold, Held
<1>8. Alone'
  <2> SUFFICES ASSUME NEW u \in Waits \ shared', (Active(u))'
               PROVE  /\ \A v \in Waits \ {u} : ~(Active(v))'
                      /\ wait'[u].connected => chan' \in {u, None}
    BY DEF Alone
  <2>1. CASE \E v \in Waits \ {w} : Active(v)
    <3>1. w \in shared' /\ \A v \in Waits : Active(v) => v \in shared'
      BY <1>1, <2>1
    <3>2. u # w /\ Active(u)
      BY <1>5, <3>1 DEF Active
    <3> QED BY <3>1, <3>2
  <2>2. CASE \A v \in Waits \ {w} : ~Active(v)
    <3>1. \A v \in Waits \ {w} : ~(Active(v))'
      BY <1>5, <2>2 DEF Active
    <3> QED BY <1>4, <3>1
  <2> QED BY <2>1, <2>2
<1> QED BY <1>4, <1>5, <1>6, <1>7, <1>8 DEF BuoyInv, WaitsOK

\* A deadline passes while a wait runs.
LEMMA BuoyDeadline ==
    ASSUME BuoyInv, NEW w \in Waits, DeadlinePasses(w) PROVE BuoyInv'
<1>1. /\ Active(w) /\ UNCHANGED <<chan, wire, box, sent, controls, shared>>
      /\ wait' = [wait EXCEPT ![w].late = TRUE]
  BY DEF DeadlinePasses
<1>2. /\ wait \in [Waits -> WaitRecord] /\ wait[w] \in WaitRecord /\ SocketOK /\ Held(w, wait[w])
      /\ (w \notin shared /\ wait[w].connected => chan \in {w, None})
  BY <1>1, OwnSocket
<1>3. /\ wait' \in [Waits -> WaitRecord] /\ wait'[w].connected = wait[w].connected
      /\ wait'[w].pc = wait[w].pc /\ wait'[w].got = wait[w].got
      /\ \A v \in Waits \ {w} : wait'[v] = wait[v]
  BY <1>1, <1>2 DEF WaitRecord
<1>4. SocketOK'
  BY <1>1, <1>2, SameSocket
<1>5. Held(w, wait'[w])
  BY <1>2, <1>3 DEF Held
<1> QED BY <1>1, <1>2, <1>3, <1>4, <1>5, GoesTo

\* What the waits hold does not depend on what the wallets and the service send.
LEMMA WaitsUntouched ==
    ASSUME BuoyInv, UNCHANGED <<wait, chan, shared>>, SocketOK' PROVE BuoyInv'
BY DEF BuoyInv, WaitsOK, WaitsHold, Held, Alone, Active

\* A wallet answers on a channel; the service sends a control frame.
LEMMA BuoyAnswer ==
    ASSUME BuoyInv, NEW w \in Waits, NEW k \in {"framed", "plain"}, Answer(w, k) PROVE BuoyInv'
<1> DEFINE f == Frame(k, w, sent[w])
<1>1. /\ UNCHANGED <<wait, chan, controls, shared>> /\ sent' = [sent EXCEPT ![w] = @ + 1]
      /\ wire' = IF chan = w THEN Append(wire, f) ELSE wire
      /\ box' = box \/ box' = [box EXCEPT ![w] = @ \cup {f}]
  BY DEF Answer
<1>2. SocketOK
  BY DEF BuoyInv
<1>3. f \in Frames /\ f.of = w /\ f.kind = k
  BY <1>2 DEF SocketOK, Frame, Frames, Kinds
<1> HIDE DEF f
<1>4. sent' \in [Waits -> Nat]
  BY <1>1, <1>2 DEF SocketOK
<1>5. wire' \in Seq(Frames) /\ WireIsOfChannel'
  BY <1>1, <1>2, <1>3 DEF SocketOK, WireIsOfChannel
<1>6. BoxesOK'
  <2>1. CASE box' = box
    BY <1>2, <2>1 DEF SocketOK, BoxesOK
  <2>2. CASE box' = [box EXCEPT ![w] = @ \cup {f}]
    <3>1. \A v \in Waits : box'[v] = IF v = w THEN box[v] \cup {f} ELSE box[v]
      BY <1>2, <2>2 DEF SocketOK, BoxesOK
    <3>2. f \in BoxOf(w)
      BY <1>3 DEF BoxOf
    <3>3. box' \in [Waits -> SUBSET Frames]
      BY <1>2, <1>3, <2>2 DEF SocketOK, BoxesOK
    <3>4. \A v \in Waits : box'[v] \subseteq BoxOf(v)
      BY <1>2, <3>1, <3>2 DEF SocketOK, BoxesOK
    <3>5. ASSUME NEW v \in Waits PROVE IsFiniteSet(box'[v])
      <4>1. IsFiniteSet(box[v])
        BY <1>2 DEF SocketOK, BoxesOK
      <4>2. IsFiniteSet(box[v] \cup {f})
        BY <4>1, FS_AddElement
      <4> QED BY <3>1, <4>1, <4>2
    <3> QED BY <3>3, <3>4, <3>5 DEF BoxesOK
  <2> QED BY <1>1, <2>1, <2>2
<1>7. SocketOK'
  BY <1>1, <1>2, <1>4, <1>5, <1>6 DEF SocketOK
<1> QED BY <1>1, <1>7, WaitsUntouched

\* The service's control frames say of which channel they are, too.
LEMMA BuoyControl ==
    ASSUME BuoyInv, ServiceControl PROVE BuoyInv'
<1> DEFINE f == Frame("control", chan, controls)
<1>1. /\ UNCHANGED <<wait, chan, box, sent, shared>> /\ chan # None
      /\ controls' = controls + 1 /\ wire' = Append(wire, f)
  BY DEF ServiceControl
<1>2. SocketOK
  BY DEF BuoyInv
<1>3. f \in Frames /\ f.of = chan
  BY <1>1, <1>2 DEF SocketOK, Frame, Frames, Kinds
<1> HIDE DEF f
<1>4. wire' \in Seq(Frames) /\ WireIsOfChannel'
  BY <1>1, <1>2, <1>3 DEF SocketOK, WireIsOfChannel
<1>5. SocketOK'
  BY <1>1, <1>2, <1>4 DEF SocketOK, BoxesOK
<1> QED BY <1>1, <1>5, WaitsUntouched

\* No wait has begun and no socket is open.
LEMMA BuoyStarts == BuoyInit => BuoyInv
<1> SUFFICES ASSUME BuoyInit PROVE BuoyInv
  OBVIOUS
<1> USE DEF BuoyInit
<1>1. WaitsOK
  BY DEF WaitsOK, WaitRecord, Over, Idle
<1>2. \A w \in Waits : wait[w] = Idle /\ ~Active(w)
  BY DEF Active, Idle
<1>3. WaitsHold /\ Alone
  BY <1>2 DEF WaitsHold, Held, Alone, Idle
<1>4. wire \in Seq(Frames) /\ WireIsOfChannel
  BY DEF WireIsOfChannel
<1>5. BoxesOK
  BY FS_EmptySet DEF BoxesOK
<1> QED BY <1>1, <1>3, <1>4, <1>5 DEF BuoyInv, SocketOK

\* Every step of the waits, the wallets, the service and the application.
LEMMA BuoySteps == BuoyInv /\ [BuoyNext]_buoyVars => BuoyInv'
<1> SUFFICES ASSUME BuoyInv, [BuoyNext]_buoyVars PROVE BuoyInv'
  OBVIOUS
<1>1. CASE \E w \in Waits : Begin(w) \/ Step(w) \/ DeadlinePasses(w)
  <2>1. PICK w \in Waits : Begin(w) \/ Step(w) \/ DeadlinePasses(w)
    BY <1>1
  <2> QED BY <2>1, BuoyBegin, BuoyLoop, BuoyReceive, BuoyAck, BuoyBackoff, BuoyDeadline DEF Step
<1>2. CASE \E w \in Waits, k \in {"framed", "plain"} : Answer(w, k)
  BY <1>2, BuoyAnswer
<1>3. CASE ServiceControl
  BY <1>3, BuoyControl
<1>4. CASE CancelToken \/ UNCHANGED buoyVars
  <2>1. UNCHANGED <<wait, chan, wire, box, sent, controls, shared>>
    BY <1>4 DEF CancelToken, buoyVars
  <2>2. SocketOK'
    BY <2>1, SameSocket DEF BuoyInv
  <2> QED BY <2>1, <2>2, WaitsUntouched
<1> QED BY <1>1, <1>2, <1>3, <1>4 DEF BuoyNext

\* buoy.cpp, receive: whatever connects, sockets and acknowledgements fail and however
\* the waits interleave, a wait returns a message of its own channel, and never an
\* empty control frame, unless another wait ran beside it on the provider's socket.
THEOREM OwnAnswerAlways == BuoySpec => []OwnAnswer
<1>1. BuoyInv => OwnAnswer
  BY DEF BuoyInv, WaitsHold, Held, OwnAnswer
<1> QED BY <1>1, BuoyStarts, BuoySteps, PTL DEF BuoySpec

-----------------------------------------------------------------------------
(* Anchor: the keys of the logins *)

Keys == Nat \cup {NoKey}
Pending == [id: Nat, kind: {"login", "sign"}, chain: Chains, via: Modes, pc: {"prompt", "wait"}]

\* What the plugin keeps of its logins, and the calls under way.
AnchorTypes ==
    /\ data \in [mode: Modes \cup {Unset}, privateKey: Keys, signerKey: Keys,
                 channelUrl: [login: Keys, path: BOOLEAN],
                 encryptionKey: Keys, messageKey: Keys]
    /\ pending \in SUBSET Pending /\ calls \in Nat
    /\ override \in Modes \cup {Unset} /\ torn \subseteq {"app", "web"}

\* The keys of a route come from one login, unless a login left them torn.
RoutesOneLogin ==
    /\ "app" \notin torn => data.privateKey = data.signerKey
                            /\ data.signerKey = data.channelUrl.login
    /\ "web" \notin torn => data.encryptionKey = data.messageKey

AnchorInv == AnchorTypes /\ RoutesOneLogin /\ SealedForLink

\* Nothing is stored yet.
LEMMA AnchorStarts == AnchorInit => AnchorInv
BY DEF AnchorInit, AnchorInv, AnchorTypes, RoutesOneLogin, SealedForLink, Keys, NoLink, Unset

\* A call that is refused, or goes on to its prompt or its wait.
LEMMA StartKeeps ==
    ASSUME AnchorTypes, NEW kind \in {"login", "sign"}, NEW chain \in Chains, NEW via \in Modes,
           NEW pc, Start(kind, chain, via, pc)
    PROVE  pending' \in SUBSET Pending /\ calls' \in Nat
<1> DEFINE c == [id |-> createIdentityRequest, kind |-> kind, chain |-> chain,
                 via |-> via, pc |-> pc]
<1>1. calls \in Nat /\ calls' = calls + 1
  BY DEF AnchorTypes, Start
<1>2. pc \in {"prompt", "wait"} => c \in Pending
  BY <1>1 DEF Pending, createIdentityRequest
<1>3. pending' = IF pc \in {"prompt", "wait"} THEN pending \cup {c} ELSE pending
  BY DEF Start
<1> QED BY <1>1, <1>2, <1>3 DEF AnchorTypes

\* The call of an app or web login ends: its keys are written together, or the route
\* is torn.
LEMMA LoginEndsKeeps ==
    ASSUME AnchorInv, NEW c \in pending, NEW p \in LoginPayloads,
           AppLoginEnds(c, p) \/ WebLoginEnds(c, p)
    PROVE  AnchorInv'
<1>1. c.id \in Nat /\ AnchorTypes /\ RoutesOneLogin /\ SealedForLink
  BY DEF AnchorInv, AnchorTypes, Pending
<1>2. pending' \in SUBSET Pending /\ calls' \in Nat /\ UNCHANGED <<override, sealed>>
  BY <1>1 DEF AppLoginEnds, WebLoginEnds, Finish, AnchorTypes
<1>3. SealedForLink'
  BY <1>1, <1>2 DEF SealedForLink
<1>4. CASE UNCHANGED <<data, torn>>
  BY <1>1, <1>2, <1>3, <1>4 DEF AnchorInv, AnchorTypes, RoutesOneLogin
<1>5. CASE /\ data' = NativeData(c.id, p)
           /\ torn' = CASE p.link = "badScheme" -> torn \cup {"app"}
                        [] p.link = "none" -> torn
                        [] OTHER -> torn \ {"app"}
  <2>1. CASE p.link = "none"
    BY <1>1, <1>2, <1>3, <1>5, <2>1 DEF AnchorInv, AnchorTypes, RoutesOneLogin, NativeData
  <2>2. CASE p.link = "badScheme"
    <3>1. data' = [data EXCEPT !.privateKey = c.id] /\ torn' = torn \cup {"app"}
      BY <1>5, <2>2 DEF NativeData
    <3> QED BY <1>1, <1>2, <1>3, <3>1 DEF AnchorInv, AnchorTypes, RoutesOneLogin, Keys
  <2>3. CASE p.link \notin {"none", "badScheme"}
    <3>1. /\ data' = [data EXCEPT !.privateKey = c.id, !.signerKey = c.id,
                      !.channelUrl = [login |-> c.id, path |-> p.link = "path"]]
          /\ torn' = torn \ {"app"}
      BY <1>5, <2>3 DEF NativeData
    <3> QED BY <1>1, <1>2, <1>3, <3>1 DEF AnchorInv, AnchorTypes, RoutesOneLogin, Keys
  <2> QED BY <2>1, <2>2, <2>3
<1>6. CASE /\ data' = [data EXCEPT !.encryptionKey = c.id,
                            !.messageKey = IF p.link = "none" THEN @ ELSE c.id]
           /\ torn' = IF p.link = "none" THEN torn \cup {"web"} ELSE torn \ {"web"}
  BY <1>1, <1>2, <1>3, <1>6 DEF AnchorInv, AnchorTypes, RoutesOneLogin, Keys
<1> QED BY <1>4, <1>5, <1>6 DEF AppLoginEnds, WebLoginEnds

\* A signature begins; a web request is sealed with the keys of the web route.
LEMMA SignKeeps ==
    ASSUME AnchorInv, NEW chain \in Chains, Sign(chain) PROVE AnchorInv'
<1>1. /\ UNCHANGED <<data, override, torn>> /\ AnchorTypes /\ RoutesOneLogin /\ SealedForLink
  BY DEF AnchorInv, Sign
<1>2. \E via \in Modes, pc \in {"prompt", "wait", "Invalid"} : Start("sign", chain, via, pc)
  BY DEF Sign, WebSign, Modes
<1>3. pending' \in SUBSET Pending /\ calls' \in Nat
  BY <1>1, <1>2, StartKeeps
<1>4. \/ UNCHANGED sealed
      \/ sealed' = sealMessage(data.encryptionKey, data.messageKey, data.messageKey, "web")
  BY DEF Sign, WebSign
<1>5. SealedForLink'
  <2>1. CASE UNCHANGED sealed
    BY <1>1, <2>1 DEF SealedForLink
  <2>2. CASE sealed' = sealMessage(data.encryptionKey, data.messageKey, data.messageKey, "web")
    <3>1. /\ sealed'.from = data.encryptionKey /\ sealed'.to = data.messageKey
          /\ sealed'.over = data.messageKey /\ sealed'.torn = ("web" \in torn)
      BY <2>2 DEF sealMessage
    <3> QED BY <1>1, <3>1 DEF SealedForLink, RoutesOneLogin
  <2> QED BY <1>4, <2>1, <2>2
<1> QED BY <1>1, <1>3, <1>5 DEF AnchorInv, AnchorTypes, RoutesOneLogin

\* A signature over the app is sealed with the keys of the app route and posted to
\* its channel, as they are once the prompt is shown.
LEMMA SignSendKeeps ==
    ASSUME AnchorInv, NEW c \in pending, SignSend(c) PROVE AnchorInv'
<1>1. /\ UNCHANGED <<data, override, calls, torn>> /\ AnchorTypes /\ RoutesOneLogin /\ SealedForLink
      /\ pending' = (pending \ {c}) \cup {[c EXCEPT !.pc = "wait"]}
  BY DEF AnchorInv, SignSend
<1>2. c \in Pending
  BY <1>1 DEF AnchorTypes
<1>3. [c EXCEPT !.pc = "wait"] \in Pending
  BY <1>2 DEF Pending
<1>4. pending' \in SUBSET Pending
  BY <1>1, <1>3 DEF AnchorTypes
<1>5. \/ UNCHANGED sealed
      \/ sealed' = sealMessage(data.privateKey, data.signerKey, data.channelUrl.login, "app")
  BY DEF SignSend
<1>6. SealedForLink'
  <2>1. CASE UNCHANGED sealed
    BY <1>1, <2>1 DEF SealedForLink
  <2>2. CASE sealed' = sealMessage(data.privateKey, data.signerKey, data.channelUrl.login, "app")
    <3>1. /\ sealed'.from = data.privateKey /\ sealed'.to = data.signerKey
          /\ sealed'.over = data.channelUrl.login /\ sealed'.torn = ("app" \in torn)
      BY <2>2 DEF sealMessage
    <3> QED BY <1>1, <3>1 DEF SealedForLink, RoutesOneLogin
  <2> QED BY <1>5, <2>1, <2>2
<1> QED BY <1>1, <1>4, <1>6 DEF AnchorInv, AnchorTypes, RoutesOneLogin

\* Every call, prompt, answer and change of the mode.
LEMMA AnchorSteps == AnchorInv /\ [AnchorNext]_anchorVars => AnchorInv'
<1> SUFFICES ASSUME AnchorInv, [AnchorNext]_anchorVars PROVE AnchorInv'
  OBVIOUS
<1>0. AnchorTypes /\ RoutesOneLogin /\ SealedForLink
  BY DEF AnchorInv
<1>1. ASSUME NEW m \in Modes \cup {Unset}, setMode(m) PROVE AnchorInv'
  BY <1>0, <1>1 DEF setMode, AnchorInv, AnchorTypes, RoutesOneLogin, SealedForLink
<1>2. ASSUME NEW c \in Chains, NEW m \in Modes \cup {Unset}, Login(c, m) PROVE AnchorInv'
  <2> DEFINE mode == IF c = "appOnly" THEN "app"
                     ELSE IF m # Unset THEN m
                     ELSE IF override # Unset THEN override ELSE "app"
  <2>1. mode \in Modes
    BY <1>0 DEF AnchorTypes, Modes
  <2>2. /\ Start("login", c, mode, "wait") /\ UNCHANGED <<override, sealed, torn>>
        /\ data' = data \/ data' = [data EXCEPT !.mode = mode]
    BY <1>2 DEF Login
  <2> HIDE DEF mode
  <2>3. pending' \in SUBSET Pending /\ calls' \in Nat
    BY <1>0, <2>1, <2>2, StartKeeps
  <2> QED BY <1>0, <2>1, <2>2, <2>3 DEF AnchorInv, AnchorTypes, RoutesOneLogin, SealedForLink
<1>3. CASE LoginRefused
  <2>1. Start("login", "both", "app", "Invalid") /\ UNCHANGED <<data, override, sealed, torn>>
    BY <1>3 DEF LoginRefused
  <2>2. pending' \in SUBSET Pending /\ calls' \in Nat
    BY <1>0, <2>1, StartKeeps DEF Chains, Modes
  <2> QED BY <1>0, <2>1, <2>2 DEF AnchorInv, AnchorTypes, RoutesOneLogin, SealedForLink
<1>4. ASSUME NEW c \in pending, NEW r, Finish(c, r), UNCHANGED <<data, override, sealed, torn>>
      PROVE  AnchorInv'
  BY <1>0, <1>4 DEF Finish, AnchorInv, AnchorTypes, RoutesOneLogin, SealedForLink
<1>5. ASSUME NEW c \in pending, NEW why, WaitFails(c, why) PROVE AnchorInv'
  BY <1>4, <1>5 DEF WaitFails
<1>6. ASSUME NEW c \in pending, NEW p \in SignPayloads, SignEnds(c, p) PROVE AnchorInv'
  BY <1>4, <1>6 DEF SignEnds
<1>7. CASE UNCHANGED anchorVars
  BY <1>0, <1>7 DEF anchorVars, AnchorInv, AnchorTypes, RoutesOneLogin, SealedForLink
<1> QED BY <1>1, <1>2, <1>3, <1>5, <1>6, <1>7, LoginEndsKeeps, SignKeeps, SignSendKeeps DEF AnchorNext

\* anchor_transports.cpp: however logins and signatures overlap and end, a sealed
\* request carries the keys of one login and goes over the channel of that login,
\* unless a login that half failed left the route with the keys of two.
THEOREM SealedForLinkAlways == AnchorSpec => []SealedForLink
<1>1. AnchorInv => SealedForLink
  BY DEF AnchorInv
<1> QED BY <1>1, AnchorStarts, AnchorSteps, PTL DEF AnchorSpec

-----------------------------------------------------------------------------
(* Cloud Wallet: what the page may change *)

Asking == {"login", "ready", "sign"}

JobOK ==
    job \in [pc: Asking \cup {"idle", "done", "Canceled", "Transport", "Invalid"},
             request: Requests \cup {NoTx},
             signed: Responses \cup {NoTx}, resolved: Responses \cup {NoTx}]

\* While the page is asked, nothing is signed; after it, what is signed fits.
JobHolds ==
    /\ job.pc \in Asking => job.resolved = NoTx
    /\ job.pc \in {"ready", "sign"} => job.request # NoTx
    /\ job.pc = "login" => job.request = NoTx

CloudInv == JobOK /\ JobHolds /\ CloudAnswerFits

CloudSpec == CloudInit /\ [][CloudNext]_cloudVars

\* validateModifications: what was asked is still there, and what was added uses the
\* first actor's authority for nothing but the fee and its own RAM.
LEMMA ModificationsFit ==
    ASSUME NEW original \in Transactions, NEW modified \in Transactions,
           validateModifications(original, modified)
    PROVE  /\ \A i \in DOMAIN original : \E j \in DOMAIN modified : modified[j] = original[i]
           /\ \A j \in DOMAIN modified :
                 LET a == modified[j] actor == OriginalActor(original) IN
                 \/ \E i \in DOMAIN original : original[i] = a
                 \/ \A k \in DOMAIN a.auth : a.auth[k] # actor
                 \/ <<a.name, a.to>> \in {<<"transfer", "fee">>, <<"buyrambytes", actor>>}
<1>1. \A i \in DOMAIN original : original[i] \in Range(modified)
  BY DEF validateModifications, Range
<1>2. ASSUME NEW j \in DOMAIN modified, NEW actor, Allowed(modified[j], actor)
      PROVE  LET a == modified[j] IN
             \/ \A k \in DOMAIN a.auth : a.auth[k] # actor
             \/ <<a.name, a.to>> \in {<<"transfer", "fee">>, <<"buyrambytes", actor>>}
  <2> DEFINE a == modified[j]
  <2>1. a.auth \in Seq(STRING)
    <3> DEFINE actions == [name: STRING, auth: Seq(STRING), to: STRING]
    <3>1. modified \in Seq(actions)
      BY DEF Transactions
    <3> HIDE DEF actions
    <3>2. a \in actions
      BY <3>1
    <3> QED BY <3>2 DEF actions
  <2>2. ASSUME ~Contains(a.auth, actor) PROVE \A k \in DOMAIN a.auth : a.auth[k] # actor
    BY <2>1, <2>2 DEF Contains
  <2> QED BY <1>2, <2>2 DEF Allowed
<1> QED BY <1>1, <1>2 DEF validateModifications, Range

\* No page is open.
LEMMA CloudStarts == CloudInit => CloudInv
<1> SUFFICES ASSUME CloudInit PROVE CloudInv
  OBVIOUS
<1>1. JobOK
  BY DEF CloudInit, JobOK, Resting
<1>2. job.pc = "idle"
  BY DEF CloudInit, Resting
<1> QED BY <1>1, <1>2 DEF CloudInv, JobHolds, CloudAnswerFits, Asking

\* A job that has not signed a transaction fits.
LEMMA JobMoves ==
    ASSUME JobOK', JobHolds', job'.pc = "done" => job'.request = NoTx
    PROVE  CloudInv'
BY DEF CloudInv, CloudAnswerFits

\* The page answers a signature: the job ends with the session's own transaction, with
\* the changed one that was looked at, or with nothing.
LEMMA AnswerFits ==
    ASSUME CloudInv, NEW tx \in Responses, SignAnswered(tx) PROVE CloudInv'
<1>1. JobOK /\ job.pc = "sign" /\ page' = FALSE
  BY DEF SignAnswered, CloudInv
<1>2. job.resolved = NoTx /\ job.request \in Requests /\ job.request # NoTx
  BY <1>1 DEF CloudInv, JobOK, JobHolds, Asking
<1>3. job.request \in Transactions /\ tx \in Transactions /\ tx # NoTx
  BY <1>2, CloudAssumption
<1>4. CASE tx = job.request /\ job' = [job EXCEPT !.pc = "done", !.signed = tx]
  <2>1. /\ job'.pc = "done" /\ job'.signed = tx /\ job'.request = job.request
        /\ job'.resolved = NoTx /\ JobOK'
    BY <1>1, <1>2, <1>4 DEF JobOK
  <2>2. Effective' = job.request
    BY <2>1 DEF Effective
  <2>3. CloudAnswerFits'
    BY <1>1, <1>4, <2>1, <2>2 DEF CloudAnswerFits
  <2>4. JobHolds'
    BY <2>1 DEF JobHolds, Asking
  <2> QED BY <2>1, <2>3, <2>4 DEF CloudInv
<1>5. CASE /\ validateModifications(job.request, tx)
           /\ job' = [job EXCEPT !.pc = "done", !.signed = tx, !.resolved = tx]
  <2>1. /\ job'.pc = "done" /\ job'.signed = tx /\ job'.request = job.request
        /\ job'.resolved = tx /\ JobOK'
    BY <1>1, <1>2, <1>5 DEF JobOK
  <2>2. Effective' = tx
    BY <1>3, <2>1 DEF Effective
  <2>3. CloudAnswerFits'
    BY <1>1, <1>3, <1>5, <2>1, <2>2, ModificationsFit DEF CloudAnswerFits
  <2>4. JobHolds'
    BY <2>1 DEF JobHolds, Asking
  <2> QED BY <2>1, <2>3, <2>4 DEF CloudInv
<1>6. CASE job' = [job EXCEPT !.pc = "Invalid"]
  <2>1. job'.pc = "Invalid" /\ JobOK'
    BY <1>1, <1>6 DEF JobOK
  <2> QED BY <2>1, JobMoves DEF JobHolds, Asking
<1> QED BY <1>4, <1>5, <1>6 DEF SignAnswered

\* Every call, message and failure of the page.
LEMMA CloudSteps == CloudInv /\ [CloudNext]_cloudVars => CloudInv'
<1> SUFFICES ASSUME CloudInv, [CloudNext]_cloudVars PROVE CloudInv'
  OBVIOUS
<1>0. JobOK /\ JobHolds
  BY DEF CloudInv
<1>1. ASSUME NEW call \in {"login", "ready"}, NEW tx \in Requests \cup {NoTx}, Open(call, tx),
             (call = "login") <=> (tx = NoTx)
      PROVE  CloudInv'
  <2>1. CASE job' = [Resting EXCEPT !.pc = call, !.request = tx]
    <3>1. job'.pc = call /\ job'.request = tx /\ job'.resolved = NoTx /\ JobOK'
      BY <2>1 DEF Resting, JobOK, Asking
    <3> QED BY <1>1, <3>1, JobMoves DEF JobHolds
  <2>2. CASE job' = [Resting EXCEPT !.pc = "Invalid"]
    <3>1. job'.pc = "Invalid" /\ JobOK'
      BY <2>2 DEF Resting, JobOK, Asking
    <3> QED BY <3>1, JobMoves DEF JobHolds, Asking
  <2> QED BY <1>1, <2>1, <2>2 DEF Open
<1>2. ASSUME NEW r \in {"sign", "done", "Canceled", "Transport", "Invalid"}, Ends(r),
             job.pc \in Asking, r = "sign" => job.pc = "ready", r = "done" => job.pc = "login"
      PROVE  CloudInv'
  <2>1. /\ job'.pc = r /\ job'.request = job.request /\ job'.resolved = job.resolved
        /\ JobOK'
    BY <1>0, <1>2 DEF Ends, JobOK, Asking
  <2>2. JobHolds' /\ (r = "done" => job.request = NoTx)
    BY <1>0, <1>2, <2>1 DEF JobHolds, Asking
  <2> QED BY <2>1, <2>2, JobMoves
<1>3. CASE AwaitFails
  BY <1>2, <1>3 DEF AwaitFails, mapBridgeError, Asking
<1>4. ASSUME NEW m \in PageMessages, LoginAnswered(m) \/ SignUnusable(m) PROVE CloudInv'
  <2>1. /\ job.pc \in {"login", "sign"}
        /\ \/ Ends("Invalid") \/ Ends("Canceled")
           \/ Ends("done") /\ job.pc = "login"
    BY <1>4 DEF LoginAnswered, SignUnusable, loginResponseFrom
  <2> QED BY <1>2, <2>1 DEF Asking
<1>5. CASE PageReady
  <2>1. job.pc = "ready" /\ (Ends("sign") \/ Ends("Transport"))
    BY <1>5 DEF PageReady
  <2> QED BY <1>2, <2>1 DEF Asking
<1>6. CASE UNCHANGED cloudVars
  BY <1>6 DEF cloudVars, CloudInv, JobOK, JobHolds, CloudAnswerFits, Effective
<1>7. ASSUME NEW tx \in Requests, Open("ready", tx) PROVE CloudInv'
  BY <1>1, <1>7, CloudAssumption
<1>8. CASE Open("login", NoTx)
  BY <1>1, <1>8
<1> QED BY <1>3, <1>4, <1>5, <1>6, <1>7, <1>8, AnswerFits DEF CloudNext

\* cloudwallet.cpp, waxSign and validateModifications: the signatures returned are those
\* of the transaction the session goes on with; it contains every action that was asked,
\* and what the page added spends the user's authority on the fee and on the user's RAM
\* alone, if the user is the first authoriser of what was asked.
THEOREM CloudAnswerFitsAlways == CloudSpec => []CloudAnswerFits
<1>1. CloudInv => CloudAnswerFits
  BY DEF CloudInv
<1> QED BY <1>1, CloudStarts, CloudSteps, PTL DEF CloudSpec

-----------------------------------------------------------------------------
(* Account creation: plugin and chain *)

CreationSpec == CreationInit /\ [][CreationNext]_creationVars

UiCalls == {"onLogin", "onLoginComplete", "onAccountCreateComplete", "onError"}
SomeChain == KitChains \cup {NoChoice} \cup UNION {Creators[p].chains : p \in Ids}
Creating == [at: {"ui", "create", "done", "failed"}, given: KitChains \cup {NoChoice},
             plugin: Ids \cup {NoChoice}, asked: BOOLEAN, chain: SomeChain,
             chains: SUBSET KitChains]

\* The chain while the UI is asked, and those it may choose from.
ChainSoFar ==
    creation.at = "ui" =>
        \/ creation.chain = creation.given
        \/ creation.plugin # NoChoice /\ creation.chain \in Creators[creation.plugin].chains
Offered ==
    creation.at = "ui" =>
        /\ creation.chains = Available(creation.plugin)
        /\ creation.asked = (creation.plugin = NoChoice)

CreationInv ==
    /\ creation.at # "idle" => creation \in Creating \/ creation = [at |-> "failed"]
    /\ creation.at \in {"ui", "create"} => creation \in Creating
    /\ heard \in Seq(UiCalls)
    /\ ChainSoFar /\ Offered /\ CreationChainFits

\* A plugin's one chain is one of its chains.
LEMMA DefaultChainIs ==
    ASSUME NEW p \in Ids, NEW c
    PROVE  /\ DefaultChain(p, c) = c \/ DefaultChain(p, c) \in Creators[p].chains
           /\ Creators[p].select => DefaultChain(p, c) = c
<1>1. Cardinality(Creators[p].chains) = 1 => Creators[p].chains # {}
  BY FS_EmptySet
<1> QED BY <1>1 DEF DefaultChain

\* What was heard, with one call more.
LEMMA EndsWith ==
    ASSUME NEW S, NEW s \in Seq(S), NEW e \in S
    PROVE  /\ Append(s, e) \in Seq(S) /\ Append(s, e) # <<>>
           /\ Append(s, e)[Len(Append(s, e))] = e
BY AppendProperties

\* A creation that fails has told the UI.
LEMMA CreationFailed ==
    ASSUME CreationInv, NEW told \in Seq(UiCalls), creation.at \in {"ui", "create"},
           creation' = [creation EXCEPT !.at = "failed"], heard' = Append(heard \o told, "onError")
    PROVE  CreationInv'
<1>1. creation \in Creating /\ heard \o told \in Seq(UiCalls)
  BY DEF CreationInv
<1>2. creation' \in Creating /\ creation'.at = "failed"
  BY <1>1 DEF Creating
<1>3. heard' \in Seq(UiCalls) /\ heard' # <<>> /\ heard'[Len(heard')] = "onError"
  BY <1>1, EndsWith DEF UiCalls
<1> QED BY <1>2, <1>3 DEF CreationInv, ChainSoFar, Offered, CreationChainFits

\* No account is being created.
LEMMA CreationStarts == CreationInit => CreationInv
BY DEF CreationInit, CreationInv, ChainSoFar, Offered, CreationChainFits

\* The caller's options.
LEMMA CreationBegins ==
    ASSUME CreationInv, NEW c \in KitChains \cup {NoChoice}, NEW p \in Ids \cup {NoChoice},
           BeginCreation(c, p)
    PROVE  CreationInv'
<1>1. Available(p) \in SUBSET KitChains
  BY DEF Available
<1>2. CASE p = NoChoice
  <2>1. creation' = [at |-> "ui", given |-> c, plugin |-> p, asked |-> TRUE, chain |-> c,
                     chains |-> Available(p)]
    BY <1>2 DEF BeginCreation
  <2>2. creation' \in Creating
    BY <1>1, <2>1 DEF Creating, SomeChain
  <2> QED BY <1>2, <2>1, <2>2 DEF CreationInv, ChainSoFar, Offered, CreationChainFits, BeginCreation
<1>3. CASE p # NoChoice
  <2> DEFINE d == DefaultChain(p, c)
             at == IF Creators[p].select THEN "ui" ELSE "create"
  <2>1. creation' = [at |-> at, given |-> c, plugin |-> p, asked |-> FALSE, chain |-> d,
                     chains |-> Available(p)]
    BY <1>3 DEF BeginCreation
  <2>2. d = c \/ d \in Creators[p].chains
    BY <1>3, DefaultChainIs
  <2>3. d \in SomeChain /\ at \in {"ui", "create"} /\ p \in Ids
    BY <1>3, <2>2 DEF SomeChain
  <2> HIDE DEF d
  <2>4. creation' \in Creating
    BY <1>1, <2>1, <2>3 DEF Creating
  <2>5. ChainSoFar' /\ Offered'
    BY <1>3, <2>1, <2>2, <2>3 DEF ChainSoFar, Offered
  <2>6. CreationChainFits'
    BY <2>1, <2>2, <2>3 DEF CreationChainFits
  <2>7. heard' = heard
    BY DEF BeginCreation
  <2> QED BY <2>1, <2>3, <2>4, <2>5, <2>6, <2>7 DEF CreationInv
<1> QED BY <1>2, <1>3

\* The answer of the UI.
LEMMA UiHasChosen ==
    ASSUME CreationInv, NEW c \in KitChains \cup {NoChoice}, NEW p \in Ids \cup {NoChoice},
           UiChooses(p, c)
    PROVE  CreationInv'
<1> DEFINE q == IF creation.plugin # NoChoice THEN creation.plugin ELSE p
           d == DefaultChain(q, creation.chain)
           chosen == IF c # NoChoice THEN c ELSE d
<1>1. creation.at = "ui" /\ creation \in Creating /\ heard \in Seq(UiCalls)
  BY DEF UiChooses, CreationInv
<1>2. CASE FailCreation
  <2>1. heard' = Append(heard \o <<>>, "onError") /\ <<>> \in Seq(UiCalls)
    BY <1>1, <1>2 DEF FailCreation
  <2> QED BY <1>1, <1>2, <2>1, CreationFailed DEF FailCreation
<1>3. CASE ~FailCreation
  <2>1. /\ q # NoChoice
        /\ c # NoChoice => c \in creation.chains
        /\ Creators[q].select => c # NoChoice \/ creation.chain # NoChoice
        /\ creation' = [creation EXCEPT !.at = "create", !.plugin = q, !.chain = chosen]
        /\ UNCHANGED heard
    BY <1>3 DEF UiChooses
  <2>2. q \in Ids
    BY <1>1, <2>1 DEF Creating
  <2>3. /\ d = creation.chain \/ d \in Creators[q].chains
        /\ Creators[q].select => d = creation.chain
    BY <2>2, DefaultChainIs
  <2>4. /\ creation'.at = "create" /\ creation'.plugin = q /\ creation'.chain = chosen
        /\ creation'.given = creation.given /\ creation'.asked = creation.asked
    BY <1>1, <2>1 DEF Creating
  <2>5. /\ creation.chain \in SomeChain /\ creation.chains \subseteq KitChains
        /\ creation.chains = Available(creation.plugin)
        /\ creation.asked = (creation.plugin = NoChoice)
        /\ \/ creation.chain = creation.given
           \/ creation.plugin # NoChoice /\ creation.chain \in Creators[creation.plugin].chains
    BY <1>1 DEF Creating, CreationInv, ChainSoFar, Offered
  <2> HIDE DEF d
  <2>6. chosen \in SomeChain
    BY <2>2, <2>3, <2>5 DEF SomeChain
  <2>7. creation' \in Creating
    BY <1>1, <2>1, <2>2, <2>6 DEF Creating
  <2>8. Creators[q].select => chosen # NoChoice
    BY <2>1, <2>3
  <2>9. \/ chosen = NoChoice \/ Creators[q].chains = {} \/ chosen \in Creators[q].chains
        \/ chosen = creation.given \/ creation.asked
    <3>1. CASE creation.plugin = NoChoice
      BY <2>5, <3>1
    <3>2. CASE creation.plugin # NoChoice
      <4>1. q = creation.plugin
        BY <3>2
      <4>2. c # NoChoice => c \in Available(q)
        BY <2>1, <2>5, <4>1
      <4> QED BY <2>1, <2>3, <2>5, <4>1, <4>2 DEF Available
    <3> QED BY <3>1, <3>2
  <2>10. CASE creation.asked
    BY <2>1, <2>4, <2>7, <2>8, <2>10, <1>1
       DEF CreationInv, ChainSoFar, Offered, CreationChainFits
  <2>11. CASE ~creation.asked
    BY <2>1, <2>4, <2>7, <2>8, <2>9, <2>11, <1>1
       DEF CreationInv, ChainSoFar, Offered, CreationChainFits
  <2> QED BY <2>10, <2>11
<1> QED BY <1>2, <1>3

\* Every step of a creation keeps its invariant.
LEMMA CreationSteps == CreationInv /\ [CreationNext]_creationVars => CreationInv'
<1> SUFFICES ASSUME CreationInv, [CreationNext]_creationVars
             PROVE  CreationInv'
  OBVIOUS
<1>1. CASE \E c \in KitChains \cup {NoChoice}, p \in Ids \cup {NoChoice} :
              BeginCreation(c, p) \/ UiChooses(p, c)
  BY <1>1, CreationBegins, UiHasChosen
<1>2. CASE BeginUnknown
  <2>1. heard' \in Seq(UiCalls) /\ heard' # <<>> /\ heard'[Len(heard')] = "onError"
    BY <1>2 DEF BeginUnknown, UiCalls
  <2> QED BY <1>2, <2>1 DEF BeginUnknown, CreationInv, ChainSoFar, Offered, CreationChainFits
<1>3. CASE UiFails
  <2>1. heard' = Append(heard \o <<>>, "onError") /\ <<>> \in Seq(UiCalls)
    BY <1>3 DEF UiFails, FailCreation, CreationInv
  <2> QED BY <1>3, <2>1, CreationFailed DEF UiFails, FailCreation
<1>4. CASE PluginCreates
  <2>1. creation' \in Creating /\ creation'.at = "done"
    BY <1>4 DEF PluginCreates, CreationInv, Creating
  <2>2. heard' \in Seq(UiCalls)
    BY <1>4, EndsWith DEF PluginCreates, CreationInv, UiCalls
  <2> QED BY <2>1, <2>2 DEF CreationInv, ChainSoFar, Offered, CreationChainFits
<1>5. CASE PluginFails \/ CompletionFails
  <2>1. PICK told \in {<<>>, <<"onError">>, <<"onAccountCreateComplete">>} :
          heard' = Append(heard \o told, "onError")
    <3>1. heard \in Seq(UiCalls)
      BY DEF CreationInv
    <3>2. /\ heard \o <<"onError">> = Append(heard \o <<>>, "onError")
          /\ heard \o <<"onError", "onError">> = Append(heard \o <<"onError">>, "onError")
          /\ heard \o <<"onAccountCreateComplete", "onError">>
               = Append(heard \o <<"onAccountCreateComplete">>, "onError")
      BY <3>1
    <3> QED BY <1>5, <3>2 DEF PluginFails, CompletionFails
  <2>2. told \in Seq(UiCalls)
    <3>1. <<>> \in Seq(UiCalls) /\ <<"onError">> \in Seq(UiCalls)
          /\ <<"onAccountCreateComplete">> \in Seq(UiCalls)
      BY DEF UiCalls
    <3> QED BY <2>1, <3>1
  <2> QED BY <1>5, <2>1, <2>2, CreationFailed DEF PluginFails, CompletionFails
<1>6. CASE UNCHANGED creationVars
  BY <1>6 DEF creationVars, CreationInv, ChainSoFar, Offered, CreationChainFits
<1> QED BY <1>1, <1>2, <1>3, <1>4, <1>5, <1>6 DEF CreationNext

-----------------------------------------------------------------------------
(* Logins: wallet, chain and permission *)

LoginSpec == LoginInit /\ [][LoginNext]_loginVars

Logins == [at: {"ui", "wallet", "asked", "done"}, o: LoginOptions, wallets: WalletLists,
           ui: Interfaces, wallet: Nat,
           needs: [wallet: BOOLEAN, chain: BOOLEAN, permSelect: BOOLEAN, permEntry: BOOLEAN],
           chain: KitChains \cup {Foreign, NoChoice}, perm: Permissions \cup {NoChoice}]

\* What the UI is asked for: what the caller's options and the wallets leave open.
AsksForTheRest(l) ==
    LET w == Predetermined(l.wallets, l.o.wallet)
    IN  /\ l.wallet = w /\ l.chain = ContextChain(l.o) /\ l.perm = l.o.perm
        /\ l.needs = uiRequirements(l.o, l.wallets, w)

\* A wallet was chosen, and the chain and the permission it is asked for.
Chosen(l) ==
    LET o == l.o
        wallet == l.wallets[l.wallet]
    IN  /\ l.wallet \in DOMAIN l.wallets
        /\ l.chain = NoChoice => l.ui \in {"engine", "custom"}
        /\ l.chain # NoChoice => l.chain \in o.chains \/ (o.chain # NoChoice /\ o.chain.is = l.chain)
        /\ o.chain # NoChoice /\ l.ui # "custom" => l.chain = o.chain.is
        /\ Len(l.wallets) > 1 /\ (\E v \in Range(l.wallets) : v.id = o.wallet)
             /\ l.ui \in {"null", "console"} => wallet.id = o.wallet
        /\ o.perm # NoChoice /\ l.ui # "custom" =>
             l.perm = o.perm \/ (l.ui = "console" /\ l.needs.permEntry)
        /\ l.perm = NoChoice /\ l.ui \in {"null", "console"} => ~wallet.permSelect

LoginInv ==
    /\ loginHeard \in Seq(UiCalls)
    /\ login.at \in {"ui", "wallet", "asked", "done"} => login \in Logins
    /\ login.at = "ui" => AsksForTheRest(login)
    /\ login.at \in {"wallet", "asked"} => Chosen(login)
    /\ login.at = "asked" => Supports(login)
    /\ login.at = "failed" => loginHeard # <<>> /\ loginHeard[Len(loginHeard)] = "onError"

\* The property is what the invariant says of a wallet that is asked.
LEMMA LoginFits == LoginInv => LoginChoiceFits
BY DEF LoginInv, Chosen, Supports, LoginChoiceFits

\* The wallet the options decide on, if they do: the only one, or the one named.
LEMMA PredeterminedIs ==
    ASSUME NEW wallets \in Seq(LoginWallets), NEW id
    PROVE  LET w == Predetermined(wallets, id)
           IN  /\ w # 0 => w \in DOMAIN wallets
               /\ w \in Nat
               /\ Len(wallets) > 1 /\ (\E v \in Range(wallets) : v.id = id) =>
                    w # 0 /\ wallets[w].id = id
<1> DEFINE named == {i \in DOMAIN wallets : wallets[i].id = id}
<1>1. DOMAIN wallets = 1..Len(wallets) /\ Len(wallets) \in Nat
  OBVIOUS
<1>2. CASE Len(wallets) = 1
  BY <1>1, <1>2 DEF Predetermined
<1>3. CASE Len(wallets) # 1 /\ named # {}
  <2>1. named \in SUBSET Nat
    BY <1>1
  <2>2. PICK i \in named : \A j \in named : ~ (<<j, i>> \in OpToRel(<, Nat))
    BY <1>3, <2>1, NatLessThanWellFounded, WFMin
  <2>3. i \in DOMAIN wallets /\ wallets[i].id = id /\ i \in Nat
    BY <2>1
  <2>4. \A j \in 1..(i - 1) : wallets[j].id # id
    <3> SUFFICES ASSUME NEW j \in 1..(i - 1), wallets[j].id = id
                 PROVE  FALSE
      OBVIOUS
    <3>1. j \in named /\ j \in Nat /\ j < i
      BY <1>1, <2>3
    <3> QED BY <2>2, <2>3, <3>1 DEF OpToRel
  <2>5. Predetermined(wallets, id) =
          CHOOSE k \in DOMAIN wallets : wallets[k].id = id /\ \A j \in 1..(k - 1) : wallets[j].id # id
    BY <1>3, <2>3 DEF Predetermined
  <2>6. Predetermined(wallets, id) \in DOMAIN wallets
        /\ wallets[Predetermined(wallets, id)].id = id
    BY <2>3, <2>4, <2>5
  <2> QED BY <1>1, <2>6
<1>4. CASE Len(wallets) # 1 /\ named = {}
  <2>1. Predetermined(wallets, id) = 0
    BY <1>4 DEF Predetermined
  <2> QED BY <1>4, <2>1 DEF Range
<1> QED BY <1>2, <1>3, <1>4

\* The chain the options decide on, if they do.
LEMMA ContextChainIs ==
    ASSUME NEW o \in LoginOptions
    PROVE  /\ ContextChain(o) \in KitChains \cup {Foreign, NoChoice}
           /\ ContextChain(o) = NoChoice <=> o.chain = NoChoice /\ Cardinality(o.chains) # 1
           /\ o.chain # NoChoice => ContextChain(o) = o.chain.is
           /\ o.chain = NoChoice /\ Cardinality(o.chains) = 1 => ContextChain(o) \in o.chains
<1>1. o.chains \subseteq KitChains \cup {Foreign} /\ o.chains # {}
  BY DEF LoginOptions
<1>2. Cardinality(o.chains) = 1 => (CHOOSE c \in o.chains : TRUE) \in o.chains
  BY <1>1
<1>3. o.chain = NoChoice \/ o.chain.is \in KitChains \cup {Foreign}
  BY DEF LoginOptions
<1>4. NoChoice \notin KitChains \cup {Foreign}
  BY LoginAssumption
<1> QED BY <1>1, <1>2, <1>3, <1>4 DEF ContextChain

\* What the UI has to find out, one by one.
LEMMA NeedsAre ==
    ASSUME NEW o \in LoginOptions, NEW wallets \in Seq(LoginWallets)
    PROVE  LET w == Predetermined(wallets, o.wallet)
               needs == uiRequirements(o, wallets, w)
           IN  /\ needs \in [wallet: BOOLEAN, chain: BOOLEAN, permSelect: BOOLEAN, permEntry: BOOLEAN]
               /\ ~needs.wallet => w \in DOMAIN wallets
               /\ ~needs.chain => ContextChain(o) # NoChoice
               /\ needs.chain <=> o.chain = NoChoice /\ Cardinality(o.chains) # 1
               /\ ~needs.permSelect => o.perm # NoChoice \/ ~wallets[w].permSelect
               /\ TRUE \notin Range(needs) =>
                     ~needs.wallet /\ ~needs.chain /\ ~needs.permSelect /\ ~needs.permEntry
<1> DEFINE w == Predetermined(wallets, o.wallet)
           needs == uiRequirements(o, wallets, w)
<1>1. w \in Nat /\ (w # 0 => w \in DOMAIN wallets)
  BY PredeterminedIs
<1>2. w # 0 => wallets[w] \in LoginWallets
  BY <1>1
<1>3. w # 0 => wallets[w].permSelect \in BOOLEAN /\ wallets[w].permEntry \in BOOLEAN
  BY <1>2 DEF LoginWallets
<1> HIDE DEF w
<1> DEFINE a == w = 0
           b == o.chain = NoChoice /\ Cardinality(o.chains) # 1
           c == o.perm = NoChoice /\ (w = 0 \/ wallets[w].permSelect)
           d == w # 0 /\ wallets[w].permEntry
<1>4. needs = [wallet |-> a, chain |-> b, permSelect |-> c, permEntry |-> d]
  BY DEF uiRequirements
<1>5. a \in BOOLEAN /\ b \in BOOLEAN /\ c \in BOOLEAN /\ d \in BOOLEAN
  BY Zenon
<1>6. c => w = 0 \/ wallets[w].permSelect
  OBVIOUS
<1>7. ~c => o.perm # NoChoice \/ ~wallets[w].permSelect
  OBVIOUS
<1>8. ~a => w \in DOMAIN wallets
  BY <1>1
<1>9. ~b => ContextChain(o) # NoChoice
  BY ContextChainIs
<1>10. b <=> o.chain = NoChoice /\ Cardinality(o.chains) # 1
  OBVIOUS
<1> HIDE DEF a, b, c, d, needs
<1>11. needs \in [wallet: BOOLEAN, chain: BOOLEAN, permSelect: BOOLEAN, permEntry: BOOLEAN]
  BY <1>4, <1>5
<1>12. needs.wallet = a /\ needs.chain = b /\ needs.permSelect = c /\ needs.permEntry = d
  BY <1>4
<1>13. Range(needs) = {a, b, c, d}
  <2>1. DOMAIN needs = {"wallet", "chain", "permSelect", "permEntry"}
    BY <1>4
  <2>2. /\ needs["wallet"] = a /\ needs["chain"] = b
        /\ needs["permSelect"] = c /\ needs["permEntry"] = d
    BY <1>4
  <2> HIDE <1>4
  <2> QED BY <2>1, <2>2 DEF Range
<1>14. TRUE \notin Range(needs) => ~a /\ ~b /\ ~c /\ ~d
  BY <1>5, <1>13
<1>15. /\ ~needs.wallet => w \in DOMAIN wallets
       /\ ~needs.chain => ContextChain(o) # NoChoice
       /\ needs.chain <=> o.chain = NoChoice /\ Cardinality(o.chains) # 1
       /\ ~needs.permSelect => o.perm # NoChoice \/ ~wallets[w].permSelect
       /\ TRUE \notin Range(needs) =>
             ~needs.wallet /\ ~needs.chain /\ ~needs.permSelect /\ ~needs.permEntry
  BY <1>7, <1>8, <1>9, <1>10, <1>12, <1>14, Zenon
<1> QED BY <1>11, <1>15, Zenon DEF needs, w

\* No login is under way.
LEMMA LoginStarts == LoginInit => LoginInv
BY DEF LoginInit, LoginInv

\* A login that fails has told the UI.
LEMMA LoginFailed ==
    ASSUME LoginInv, NEW l, "at" \in DOMAIN l, FailLogin(l), NEW told \in Seq(UiCalls),
           loginHeard' = Append(loginHeard \o told, "onError")
    PROVE  LoginInv'
<1>1. loginHeard \o told \in Seq(UiCalls)
  BY DEF LoginInv
<1>2. loginHeard' \in Seq(UiCalls) /\ loginHeard' # <<>> /\ loginHeard'[Len(loginHeard')] = "onError"
  BY <1>1, EndsWith DEF UiCalls
<1>3. login'.at = "failed"
  BY DEF FailLogin
<1> QED BY <1>2, <1>3 DEF LoginInv

\* The lists the UI hears end with the failure.
LEMMA LastCall ==
    ASSUME LoginInv
    PROVE  /\ loginHeard \o <<"onError">> = Append(loginHeard \o <<>>, "onError")
           /\ loginHeard \o <<"onLogin", "onError">> = Append(loginHeard \o <<"onLogin">>, "onError")
           /\ loginHeard \o <<"onLoginComplete", "onError">>
                = Append(loginHeard \o <<"onLoginComplete">>, "onError")
           /\ <<>> \in Seq(UiCalls) /\ <<"onLogin">> \in Seq(UiCalls)
           /\ <<"onLoginComplete">> \in Seq(UiCalls)
<1>1. loginHeard \in Seq(UiCalls)
  BY DEF LoginInv
<1> QED BY <1>1 DEF UiCalls

\* The login begins: the wallet is asked at once, or the UI first.
LEMMA LoginBegins ==
    ASSUME LoginInv, NEW o \in LoginOptions, NEW wallets \in WalletLists, NEW ui \in Interfaces,
           BeginLogin(o, wallets, ui)
    PROVE  LoginInv'
<1> DEFINE w == Predetermined(wallets, o.wallet)
           needs == uiRequirements(o, wallets, w)
           next == [at |-> IF TRUE \in Range(needs) THEN "ui" ELSE "wallet", o |-> o, wallets |-> wallets,
                    ui |-> ui, wallet |-> w, needs |-> needs, chain |-> ContextChain(o), perm |-> o.perm]
<1>1. CASE FailLogin(next)
  <2>1. loginHeard' = loginHeard \o <<"onError">> \/ loginHeard' = loginHeard \o <<"onLogin", "onError">>
    <3>1. \/ LoginTells(<<"onError">>) \/ LoginTells(<<"onLogin", "onError">>)
          \/ login' = next
      BY DEF BeginLogin
    <3>2. next.at # "failed" /\ login'.at = "failed"
      BY <1>1 DEF FailLogin
    <3> QED BY <3>1, <3>2 DEF LoginTells
  <2>2. "at" \in DOMAIN next
    OBVIOUS
  <2> HIDE DEF next
  <2> QED BY <1>1, <2>1, <2>2, LoginFailed, LastCall
<1>2. CASE login' = next /\ LoginTells(<<"onLogin">>)
  <2>1. wallets \in Seq(LoginWallets)
    BY LoginAssumption
  <2>2. /\ w \in Nat /\ (w # 0 => w \in DOMAIN wallets)
        /\ Len(wallets) > 1 /\ (\E v \in Range(wallets) : v.id = o.wallet) =>
             w # 0 /\ wallets[w].id = o.wallet
    BY <2>1, PredeterminedIs
  <2>3. /\ needs \in [wallet: BOOLEAN, chain: BOOLEAN, permSelect: BOOLEAN, permEntry: BOOLEAN]
        /\ ~needs.wallet => w \in DOMAIN wallets
        /\ ~needs.chain => ContextChain(o) # NoChoice
        /\ ~needs.permSelect => o.perm # NoChoice \/ ~wallets[w].permSelect
        /\ TRUE \notin Range(needs) =>
              ~needs.wallet /\ ~needs.chain /\ ~needs.permSelect /\ ~needs.permEntry
    BY <2>1, NeedsAre, Zenon
  <2>4. /\ ContextChain(o) \in KitChains \cup {Foreign, NoChoice}
        /\ ContextChain(o) # NoChoice => ContextChain(o) \in o.chains
                                           \/ (o.chain # NoChoice /\ o.chain.is = ContextChain(o))
        /\ o.chain # NoChoice => ContextChain(o) = o.chain.is
    BY ContextChainIs
  <2>5. o.perm \in Permissions \cup {NoChoice}
    BY DEF LoginOptions
  <2>6. loginHeard' \in Seq(UiCalls)
    BY <1>2 DEF LoginTells, LoginInv, UiCalls
  <2> DEFINE c == ContextChain(o)
  <2> HIDE DEF w, needs, c
  <2>7. /\ login' = [at |-> login'.at, o |-> o, wallets |-> wallets, ui |-> ui, wallet |-> w,
                     needs |-> needs, chain |-> c, perm |-> o.perm]
        /\ login'.at = IF TRUE \in Range(needs) THEN "ui" ELSE "wallet"
    BY <1>2 DEF w, needs, c
  <2>8. login' \in Logins
    <3>1. /\ login'.at \in {"ui", "wallet", "asked", "done"} /\ w \in Nat
          /\ needs \in [wallet: BOOLEAN, chain: BOOLEAN, permSelect: BOOLEAN, permEntry: BOOLEAN]
          /\ c \in KitChains \cup {Foreign, NoChoice} /\ o.perm \in Permissions \cup {NoChoice}
      BY <2>2, <2>3, <2>4, <2>5, <2>7 DEF c
    <3>2. \A at \in {"ui", "wallet", "asked", "done"}, d \in KitChains \cup {Foreign, NoChoice},
             p \in Permissions \cup {NoChoice} :
              [at |-> at, o |-> o, wallets |-> wallets, ui |-> ui, wallet |-> w,
               needs |-> needs, chain |-> d, perm |-> p] \in Logins
      BY <3>1 DEF Logins
    <3> HIDE DEF next
    <3>3. [at |-> login'.at, o |-> o, wallets |-> wallets, ui |-> ui, wallet |-> w,
           needs |-> needs, chain |-> c, perm |-> o.perm] \in Logins
      BY <3>1, <3>2, Zenon
    <3> QED BY <2>7, <3>3, Zenon
  <2>9. /\ login'.o = o /\ login'.wallets = wallets /\ login'.ui = ui /\ login'.wallet = w
        /\ login'.needs = needs /\ login'.chain = c /\ login'.perm = o.perm
    BY <2>7
  <2>10. CASE login'.at = "ui"
    <3>1. AsksForTheRest(login')
      BY <2>9 DEF AsksForTheRest, w, needs, c
    <3> QED BY <2>6, <2>8, <2>10, <3>1 DEF LoginInv
  <2>11. CASE login'.at = "wallet"
    <3>1. ~needs.wallet /\ ~needs.chain /\ ~needs.permSelect /\ ~needs.permEntry
      BY <2>3, <2>7, <2>11
    <3>2. Chosen(login')
      BY <2>2, <2>3, <2>4, <2>9, <3>1 DEF Chosen, c
    <3> QED BY <2>6, <2>8, <2>11, <3>2 DEF LoginInv
  <2> QED BY <2>7, <2>10, <2>11
<1> QED BY <1>1, <1>2 DEF BeginLogin

\* An answer of the UI that is taken: it is the wallet that is asked, and what the answer
\* names goes before the rest.
LEMMA AnswerTaken ==
    ASSUME LoginInv, login.at = "ui", NEW a \in LoginAnswers(login),
           a.wallet \in DOMAIN login.wallets, a.chain = NoChoice \/ a.chain \in login.o.chains,
           login' = [login EXCEPT !.at = "wallet", !.wallet = a.wallet,
                        !.chain = IF a.chain # NoChoice THEN a.chain ELSE @,
                        !.perm = IF a.perm # NoChoice THEN a.perm ELSE @],
           UNCHANGED loginHeard
    PROVE  LoginInv'
<1> DEFINE o == login.o
           wallets == login.wallets
           ui == login.ui
           needs == login.needs
           w == Predetermined(wallets, o.wallet)
<1>1. /\ login \in Logins /\ AsksForTheRest(login) /\ loginHeard \in Seq(UiCalls)
  BY DEF LoginInv
<1>2. /\ o \in LoginOptions /\ wallets \in WalletLists /\ ui \in Interfaces
      /\ login.chain \in KitChains \cup {Foreign, NoChoice} /\ login.perm \in Permissions \cup {NoChoice}
  BY <1>1 DEF Logins
<1>3. wallets \in Seq(LoginWallets)
  BY <1>2, LoginAssumption
<1>4. /\ login.wallet = w /\ login.chain = ContextChain(o) /\ login.perm = o.perm
      /\ needs = uiRequirements(o, wallets, w)
  BY <1>1 DEF AsksForTheRest
<1>5. /\ ~needs.wallet => w \in DOMAIN wallets
      /\ ~needs.chain => ContextChain(o) # NoChoice
      /\ needs.chain <=> o.chain = NoChoice /\ Cardinality(o.chains) # 1
      /\ ~needs.permSelect => o.perm # NoChoice \/ ~wallets[w].permSelect
  BY <1>2, <1>3, <1>4, NeedsAre, Zenon
<1>6. /\ w \in Nat
      /\ Len(wallets) > 1 /\ (\E v \in Range(wallets) : v.id = o.wallet) =>
           w # 0 /\ wallets[w].id = o.wallet
  BY <1>3, PredeterminedIs
<1>7. /\ ContextChain(o) # NoChoice => ContextChain(o) \in o.chains
                                         \/ (o.chain # NoChoice /\ o.chain.is = ContextChain(o))
      /\ o.chain # NoChoice => ContextChain(o) = o.chain.is
  BY <1>2, ContextChainIs
<1>8. /\ ui = "console" \/ ui = "engine" \/ ui = "custom"
      /\ ui = "console" =>
            /\ a.wallet \in IF needs.wallet THEN DOMAIN wallets ELSE {login.wallet}
            /\ a.chain \in IF needs.chain THEN o.chains ELSE {NoChoice}
            /\ a.perm \in IF needs.permSelect \/ needs.permEntry THEN Permissions ELSE {NoChoice}
      /\ ui = "engine" => a = [wallet |-> 1, chain |-> login.chain, perm |-> login.perm]
      /\ ui = "custom" => a.perm \in Permissions \cup {NoChoice}
  <2>1. ui \in {"null", "console", "engine", "custom"}
    BY <1>2, LoginAssumption
  <2> QED BY <2>1 DEF LoginAnswers
<1>9. /\ NoChoice \notin KitChains \cup {Foreign} /\ NoChoice \notin Permissions
      /\ o.chains \subseteq KitChains \cup {Foreign}
      /\ o.perm \in Permissions \cup {NoChoice}
  BY <1>2, LoginAssumption DEF LoginOptions
<1> HIDE DEF w, o, wallets, ui, needs
<1> DEFINE c == IF a.chain # NoChoice THEN a.chain ELSE login.chain
           p == IF a.perm # NoChoice THEN a.perm ELSE login.perm
<1>10. /\ login'.at = "wallet" /\ login'.wallet = a.wallet /\ login'.chain = c /\ login'.perm = p
       /\ login'.o = o /\ login'.wallets = wallets /\ login'.ui = ui /\ login'.needs = needs
  BY <1>1 DEF Logins, o, wallets, ui, needs
<1>11. a.wallet \in Nat
  BY <1>3 DEF wallets
<1>12. /\ a.wallet \in DOMAIN wallets
       /\ a.chain = NoChoice \/ a.chain \in o.chains
  BY DEF wallets, o
<1>13. c \in KitChains \cup {Foreign, NoChoice} /\ p \in Permissions \cup {NoChoice}
  BY <1>2, <1>8, <1>9, <1>12
<1>14. login' \in Logins
  BY <1>1, <1>11, <1>13 DEF Logins
<1>15. c = NoChoice => ui \in {"engine", "custom"}
  BY <1>4, <1>5, <1>8, <1>9
<1>16. c # NoChoice => c \in o.chains \/ (o.chain # NoChoice /\ o.chain.is = c)
  BY <1>4, <1>7, <1>12
<1>17. o.chain # NoChoice /\ ui # "custom" => c = o.chain.is
  BY <1>4, <1>5, <1>7, <1>8
<1>18. Len(wallets) > 1 /\ (\E v \in Range(wallets) : v.id = o.wallet)
         /\ ui \in {"null", "console"} => wallets[a.wallet].id = o.wallet
  <2>1. needs.wallet <=> w = 0
    BY <1>4 DEF uiRequirements
  <2> QED BY <1>4, <1>6, <1>8, <2>1
<1>19. o.perm # NoChoice /\ ui # "custom" => p = o.perm \/ (ui = "console" /\ needs.permEntry)
  <2>1. needs.permSelect => o.perm = NoChoice
    BY <1>4 DEF uiRequirements
  <2> QED BY <1>4, <1>8, <2>1
<1>20. p = NoChoice /\ ui \in {"null", "console"} => ~wallets[a.wallet].permSelect
  <2> SUFFICES ASSUME p = NoChoice, ui = "console"
               PROVE  ~wallets[a.wallet].permSelect
    BY <1>8
  <2>1. ~(needs.permSelect \/ needs.permEntry) /\ o.perm = NoChoice
    BY <1>4, <1>8, <1>9
  <2>2. w # 0 /\ ~wallets[w].permSelect
    BY <1>4, <2>1 DEF uiRequirements
  <2>3. ~needs.wallet
    BY <1>4, <2>2 DEF uiRequirements
  <2> QED BY <1>4, <1>8, <2>2, <2>3
<1>21. Chosen(login')
  BY <1>10, <1>12, <1>15, <1>16, <1>17, <1>18, <1>19, <1>20 DEF Chosen
<1> QED BY <1>1, <1>10, <1>14, <1>21 DEF LoginInv

\* Every step of a login keeps its invariant.
LEMMA LoginSteps == LoginInv /\ [LoginNext]_loginVars => LoginInv'
<1> SUFFICES ASSUME LoginInv, [LoginNext]_loginVars
             PROVE  LoginInv'
  OBVIOUS
<1>1. CASE \E o \in LoginOptions, w \in WalletLists, ui \in Interfaces : BeginLogin(o, w, ui)
  BY <1>1, LoginBegins
<1>2. CASE UiAnswers
  <2>1. PICK a \in LoginAnswers(login) :
          IF a.wallet \notin DOMAIN login.wallets \/ (a.chain # NoChoice /\ a.chain \notin login.o.chains)
          THEN FailLogin(login) /\ LoginTells(<<"onError">>)
          ELSE /\ login' = [login EXCEPT !.at = "wallet", !.wallet = a.wallet,
                               !.chain = IF a.chain # NoChoice THEN a.chain ELSE @,
                               !.perm = IF a.perm # NoChoice THEN a.perm ELSE @]
               /\ UNCHANGED loginHeard
    BY <1>2 DEF UiAnswers
  <2>2. login.at = "ui" /\ login \in Logins
    BY <1>2 DEF UiAnswers, LoginInv
  <2>3. CASE a.wallet \notin DOMAIN login.wallets \/ (a.chain # NoChoice /\ a.chain \notin login.o.chains)
    <3>1. FailLogin(login) /\ loginHeard' = loginHeard \o <<"onError">> /\ "at" \in DOMAIN login
      BY <2>1, <2>2, <2>3 DEF LoginTells, Logins
    <3> QED BY <3>1, LoginFailed, LastCall
  <2>4. CASE ~(a.wallet \notin DOMAIN login.wallets \/ (a.chain # NoChoice /\ a.chain \notin login.o.chains))
    BY <2>1, <2>2, <2>4, AnswerTaken
  <2> QED BY <2>3, <2>4
<1>3. CASE UiGivesUp \/ Unsupported \/ HookFails \/ LoginFails
  <2>1. FailLogin(login) /\ login \in Logins
    BY <1>3 DEF UiGivesUp, Unsupported, HookFails, LoginFails, LoginInv
  <2>2. \/ loginHeard' = loginHeard \o <<"onError">>
        \/ loginHeard' = loginHeard \o <<"onLoginComplete", "onError">>
    BY <1>3 DEF UiGivesUp, Unsupported, HookFails, LoginFails, LoginTells
  <2>3. "at" \in DOMAIN login
    BY <2>1 DEF Logins
  <2> QED BY <2>1, <2>2, <2>3, LoginFailed, LastCall
<1>4. CASE AskWallet
  <2>1. login \in Logins /\ Chosen(login) /\ Supports(login) /\ loginHeard' \in Seq(UiCalls)
    BY <1>4 DEF AskWallet, LoginInv
  <2>2. login' = [login EXCEPT !.at = "asked"]
    BY <1>4 DEF AskWallet
  <2>3. login' \in Logins /\ login'.at = "asked"
    BY <2>1, <2>2 DEF Logins
  <2>4. Chosen(login') /\ Supports(login')
    BY <2>1, <2>2 DEF Logins, Chosen, Supports
  <2> QED BY <2>1, <2>3, <2>4 DEF LoginInv
<1>5. CASE LoginDone
  <2>1. login' \in Logins /\ login'.at = "done"
    BY <1>5 DEF LoginDone, LoginInv, Logins
  <2>2. loginHeard' \in Seq(UiCalls)
    BY <1>5 DEF LoginDone, LoginTells, LoginInv, UiCalls
  <2> QED BY <2>1, <2>2 DEF LoginInv
<1>6. CASE UNCHANGED loginVars
  BY <1>6 DEF loginVars, LoginInv, AsksForTheRest, Chosen, Supports
<1> QED BY <1>1, <1>2, <1>3, <1>4, <1>5, <1>6 DEF LoginNext

\* The wallet is asked for the chain and the permission the caller and the user chose, and
\* a failed login ends with onError (kit.cpp:198-352); a plugin never creates an account
\* on a chain it does not support, but for those the caller or the UI chose with it.
THEOREM ChoicesAlwaysFit == CreationSpec /\ LoginSpec => []ChoicesFit
<1>1. CreationInv /\ LoginInv => ChoicesFit
  BY LoginFits DEF CreationInv, ChoicesFit
<1> QED BY <1>1, CreationStarts, CreationSteps, LoginStarts, LoginSteps, PTL DEF CreationSpec, LoginSpec

-----------------------------------------------------------------------------
(* Cosigners: what is signed *)

CosignSpec == CosignInit /\ [][CosignNext]_cosignVars

CosignStages == {"idle", "hooks", "sign", "signed", "done", "failed"}
TxOf == [header: Headers \cup {NoTapos}, actions: Seq(ActionNames)]
RequestOf == [kind: {"action", "actions", "transaction", "identity"}, actions: Seq(ActionNames),
              header: Headers \cup {NoTapos}, chain: STRING]
Signatures == [by: {"cosigner", "user"}, tx: TxOf, chain: STRING]
Signers == {"", "privatekey", "cleos"}
Tacts == [pc: CosignStages, args: Args \cup {<<>>}, request: RequestOf \cup {<<>>},
          hooks: Seq({"append", "cosigner"}), allow: BOOLEAN, modify: BOOLEAN, expire: Nat,
          wallet: Signers, ui: BOOLEAN, info: Nat, sigs: Seq(Signatures),
          tx: TxOf \cup {<<>>}, afterSign: Seq(TxOf), shown: Seq(TxOf)]

CosignTypes ==
    /\ tact \in Tacts /\ chainHead \in Nat
    /\ tact.pc # "idle" => tact.args \in Args
    /\ tact.pc \in {"hooks", "sign", "signed"} => tact.request \in RequestOf
    /\ tact.pc \in {"idle", "hooks"} => tact.afterSign = <<>> /\ tact.shown = <<>>
    /\ tact.pc = "idle" => tact.request = <<>> /\ tact.sigs = <<>>

\* What was asked, between n actions of cosigners and m of other hooks.
Added(n, actions, m) == [i \in 1..n |-> Noop] \o actions \o [i \in 1..m |-> Fee]
AsAsked(args, actions) ==
    \E n, m \in 0..Len(actions) : actions = Added(n, args.actions, m)

OwnChain(args) == args.given = "args" \/ args.chain = SessionChain
ByCosigners(t) == \A i \in DOMAIN t.sigs : t.sigs[i].by = "cosigner"

\* While hooks run: a signature of one closes the request it was given for, and a
\* request nobody signed, or nobody may change, keeps its header.
Hooking ==
    LET t == tact
        r == t.request
    IN  t.pc = "hooks" =>
        /\ AsAsked(t.args, r.actions) /\ ByCosigners(t)
        /\ OwnChain(t.args) => r.chain = SessionChain
        /\ t.args.kind # "identity" => r.kind # "identity"
        /\ t.args.header # NoTapos => r.header = t.args.header
        /\ t.sigs = <<>> => t.allow = t.modify
        /\ t.allow => t.modify
        /\ t.sigs = <<>> \/ ~t.modify => r.header = t.args.header
        /\ t.sigs # <<>> /\ t.modify =>
              /\ ~t.allow
              /\ OwnChain(t.args) =>
                    /\ t.sigs[1].tx = [header |-> r.header, actions |-> r.actions]
                    /\ t.sigs[1].chain = SessionChain
                    /\ r.header # NoTapos /\ r.actions[1] = Noop

\* What is resolved is what is signed, shown and reported.
Resolved(t) ==
    /\ AsAsked(t.args, t.tx.actions)
    /\ t.sigs # <<>> /\ t.sigs[1].by = "cosigner" /\ t.modify /\ OwnChain(t.args) =>
          /\ t.sigs[1].tx = t.tx /\ t.sigs[1].chain = SessionChain /\ t.tx.actions[1] = Noop
    /\ t.args.header # NoTapos => t.tx.header = t.args.header
    /\ t.request # <<>> /\ t.args.header = NoTapos /\ t.args.kind # "identity"
          /\ ~(t.sigs # <<>> /\ t.sigs[1].by = "cosigner" /\ t.modify) => t.tx.header.expire = t.expire

Signing ==
    tact.pc \in {"sign", "signed", "done"} =>
        /\ tact.tx \in TxOf /\ Resolved(tact)
        /\ tact.pc = "sign" => ByCosigners(tact)
        /\ \A i \in DOMAIN tact.sigs : tact.sigs[i].by = "user" => i = Len(tact.sigs) /\ tact.sigs[i].tx = tact.tx
        /\ \A i \in DOMAIN tact.afterSign : tact.afterSign[i] = tact.tx
        /\ \A i \in DOMAIN tact.shown : tact.shown[i] = tact.tx

CosignInv == CosignTypes /\ Hooking /\ Signing

-----------------------------------------------------------------------------
\* The names of the actions that are added.
LEMMA HooksCall == Noop \in ActionNames /\ Fee \in ActionNames
BY DEF ActionNames

\* The wallets a call names, and the one before there is a call.
LEMMA SignersAre == "" \in Signers /\ "privatekey" \in Signers /\ "cleos" \in Signers
BY Zenon DEF Signers

\* The actions asked for and the added ones, one by one.
LEMMA AddedTypes ==
    ASSUME NEW n \in Nat, NEW m \in Nat, NEW s \in Seq(ActionNames)
    PROVE  Added(n, s, m) \in Seq(ActionNames) /\ Len(Added(n, s, m)) = n + Len(s) + m
<1> DEFINE a == [i \in 1..n |-> Noop]
           b == [i \in 1..m |-> Fee]
           c == a \o s
<1>1. a \in Seq(ActionNames) /\ Len(a) = n /\ b \in Seq(ActionNames) /\ Len(b) = m
  BY HooksCall
<1>2. Added(n, s, m) = c \o b
  BY DEF Added
<1> HIDE DEF a, b
<1>3. c \in Seq(ActionNames) /\ Len(c) = n + Len(s) /\ Len(s) \in Nat
  BY <1>1
<1> HIDE DEF c
<1>4. c \o b \in Seq(ActionNames) /\ Len(c \o b) = Len(c) + Len(b)
  BY <1>1, <1>3, ConcatProperties
<1> QED BY <1>1, <1>2, <1>3, <1>4

\* Which one is where.
LEMMA AddedAt ==
    ASSUME NEW n \in Nat, NEW m \in Nat, NEW s \in Seq(ActionNames), NEW i \in 1..(n + Len(s) + m)
    PROVE  Added(n, s, m)[i] = IF i <= n THEN Noop ELSE IF i <= n + Len(s) THEN s[i - n] ELSE Fee
<1> DEFINE a == [j \in 1..n |-> Noop]
           b == [j \in 1..m |-> Fee]
           c == a \o s
<1>1. /\ a \in Seq(ActionNames) /\ Len(a) = n /\ b \in Seq(ActionNames) /\ Len(b) = m
      /\ \A j \in 1..n : a[j] = Noop
      /\ \A j \in 1..m : b[j] = Fee
  BY HooksCall
<1>2. Added(n, s, m) = c \o b
  BY DEF Added
<1> HIDE DEF a, b
<1>3. /\ c \in Seq(ActionNames) /\ Len(c) = n + Len(s) /\ Len(s) \in Nat
      /\ \A j \in 1..(n + Len(s)) : c[j] = IF j <= n THEN a[j] ELSE s[j - n]
  <2>1. c \in Seq(ActionNames) /\ Len(c) = Len(a) + Len(s) /\ Len(s) \in Nat
    BY <1>1
  <2>2. \A j \in 1..(Len(a) + Len(s)) : c[j] = IF j <= Len(a) THEN a[j] ELSE s[j - Len(a)]
    BY <1>1, ConcatProperties
  <2> QED BY <1>1, <2>1, <2>2
<1> HIDE DEF c
<1>4. (c \o b)[i] = IF i <= n + Len(s) THEN c[i] ELSE b[i - (n + Len(s))]
  BY <1>1, <1>3, ConcatProperties
<1>5. CASE i <= n
  BY <1>1, <1>2, <1>3, <1>4, <1>5
<1>6. CASE n < i /\ i <= n + Len(s)
  BY <1>2, <1>3, <1>4, <1>6
<1>7. CASE n + Len(s) < i
  <2>1. i - (n + Len(s)) \in 1..m
    BY <1>3, <1>7
  <2> QED BY <1>1, <1>2, <1>3, <1>4, <1>7, <2>1
<1> QED BY <1>3, <1>5, <1>6, <1>7

\* A cosigner's action more.
LEMMA AddedFirst ==
    ASSUME NEW n \in Nat, NEW m \in Nat, NEW s \in Seq(ActionNames)
    PROVE  <<Noop>> \o Added(n, s, m) = Added(n + 1, s, m)
<1> DEFINE a == Added(n, s, m)
           b == <<Noop>> \o a
           c == Added(n + 1, s, m)
<1>1. a \in Seq(ActionNames) /\ Len(a) = n + Len(s) + m
  BY AddedTypes
<1>2. c \in Seq(ActionNames) /\ Len(c) = n + 1 + Len(s) + m
  BY n + 1 \in Nat, AddedTypes
<1>3. Len(s) \in Nat /\ <<Noop>> \in Seq(ActionNames)
  BY HooksCall
<1> HIDE DEF a, c
<1>4. b \in Seq(ActionNames) /\ Len(b) = 1 + Len(a)
  BY <1>1, <1>3
<1>5. \A i \in 1..(1 + Len(a)) : b[i] = IF i <= 1 THEN Noop ELSE a[i - 1]
  BY <1>1, <1>3, ConcatProperties
<1> HIDE DEF b
<1>6. ASSUME NEW i \in 1..Len(b) PROVE b[i] = c[i]
  <2>1. c[i] = IF i <= n + 1 THEN Noop ELSE IF i <= (n + 1) + Len(s) THEN s[i - (n + 1)] ELSE Fee
    <3>1. n + 1 \in Nat /\ i \in 1..((n + 1) + Len(s) + m)
      BY <1>1, <1>3, <1>4
    <3> QED BY <3>1, AddedAt DEF c
  <2>2. CASE i = 1
    BY <1>1, <1>3, <1>5, <2>1, <2>2
  <2>3. CASE i > 1
    <3>1. i - 1 \in 1..(n + Len(s) + m) /\ i \in Nat
      BY <1>1, <1>3, <1>4, <2>3
    <3>2. a[i - 1] = IF i - 1 <= n THEN Noop ELSE IF i - 1 <= n + Len(s) THEN s[(i - 1) - n] ELSE Fee
      BY <3>1, AddedAt DEF a
    <3>3. (i - 1) - n = i - (n + 1) /\ b[i] = a[i - 1]
      BY <1>1, <1>3, <1>4, <1>5, <2>3, <3>1
    <3> QED BY <1>3, <2>1, <2>3, <3>1, <3>2, <3>3
  <2> QED BY <1>4, <1>1, <1>3, <2>2, <2>3
<1>7. Len(b) = Len(c)
  BY <1>1, <1>2, <1>3, <1>4
<1>8. b = c
  BY <1>2, <1>4, <1>6, <1>7, SeqEqual
<1> QED BY <1>8 DEF a, b, c

\* An action of another hook more.
LEMMA AddedLast ==
    ASSUME NEW n \in Nat, NEW m \in Nat, NEW s \in Seq(ActionNames)
    PROVE  Append(Added(n, s, m), Fee) = Added(n, s, m + 1)
<1> DEFINE a == Added(n, s, m)
           b == Append(a, Fee)
           c == Added(n, s, m + 1)
<1>1. a \in Seq(ActionNames) /\ Len(a) = n + Len(s) + m
  BY AddedTypes
<1>2. c \in Seq(ActionNames) /\ Len(c) = n + Len(s) + (m + 1)
  BY m + 1 \in Nat, AddedTypes
<1>3. Len(s) \in Nat /\ Fee \in ActionNames
  BY HooksCall
<1> HIDE DEF a, c
<1>4. b \in Seq(ActionNames) /\ Len(b) = Len(a) + 1 /\ b[Len(a) + 1] = Fee
      /\ \A i \in 1..Len(a) : b[i] = a[i]
  BY <1>1, <1>3, AppendProperties
<1> HIDE DEF b
<1>5. ASSUME NEW i \in 1..Len(b) PROVE b[i] = c[i]
  <2>1. c[i] = IF i <= n THEN Noop ELSE IF i <= n + Len(s) THEN s[i - n] ELSE Fee
    <3>1. m + 1 \in Nat /\ i \in 1..(n + Len(s) + (m + 1))
      BY <1>1, <1>3, <1>4
    <3> QED BY <3>1, AddedAt DEF c
  <2>2. CASE i = Len(a) + 1
    BY <1>1, <1>3, <1>4, <2>1, <2>2
  <2>3. CASE i \in 1..(n + Len(s) + m)
    <3>1. a[i] = IF i <= n THEN Noop ELSE IF i <= n + Len(s) THEN s[i - n] ELSE Fee
      BY <2>3, AddedAt DEF a
    <3> QED BY <1>1, <1>4, <2>1, <2>3, <3>1
  <2> QED BY <1>1, <1>3, <1>4, <2>2, <2>3
<1>6. Len(b) = Len(c)
  BY <1>1, <1>2, <1>3, <1>4
<1>7. b = c
  BY <1>2, <1>4, <1>5, <1>6, SeqEqual
<1> QED BY <1>7 DEF a, b, c

\* Nothing is added yet; a cosigner's action; another hook's.
LEMMA AsAskedKept ==
    ASSUME NEW args, args.actions \in Seq(ActionNames), NEW actions \in Seq(ActionNames)
    PROVE  /\ AsAsked(args, args.actions)
           /\ AsAsked(args, actions) => /\ AsAsked(args, <<Noop>> \o actions)
                                        /\ AsAsked(args, Append(actions, Fee))
<1> DEFINE s == args.actions
<1>1. AsAsked(args, s)
  <2> HIDE DEF s
  <2>0. s \in Seq(ActionNames) /\ Len(s) \in Nat
    BY DEF s
  <2>1. Added(0, s, 0) \in Seq(ActionNames) /\ Len(Added(0, s, 0)) = Len(s)
    BY <2>0, AddedTypes
  <2>2. \A i \in 1..Len(s) : Added(0, s, 0)[i] = s[i]
    BY <2>0, AddedAt
  <2>3. Added(0, s, 0) = s
    BY <2>0, <2>1, <2>2, SeqEqual
  <2>4. 0 \in 0..Len(s)
    BY <2>0
  <2> QED BY <2>3, <2>4 DEF AsAsked, s
<1>2. ASSUME AsAsked(args, actions)
      PROVE  AsAsked(args, <<Noop>> \o actions) /\ AsAsked(args, Append(actions, Fee))
  <2>1. PICK n \in 0..Len(actions), m \in 0..Len(actions) : actions = Added(n, s, m)
    BY <1>2 DEF AsAsked
  <2>2. n \in Nat /\ m \in Nat /\ Len(actions) \in Nat
    OBVIOUS
  <2>3. /\ <<Noop>> \o actions = Added(n + 1, s, m)
        /\ Append(actions, Fee) = Added(n, s, m + 1)
    BY <2>1, <2>2, AddedFirst, AddedLast
  <2>4. /\ Len(<<Noop>> \o actions) = Len(actions) + 1
        /\ Len(Append(actions, Fee)) = Len(actions) + 1
    BY HooksCall
  <2>5. /\ n + 1 \in 0..(Len(actions) + 1) /\ m \in 0..(Len(actions) + 1)
        /\ n \in 0..(Len(actions) + 1) /\ m + 1 \in 0..(Len(actions) + 1)
    BY <2>2
  <2> QED BY <2>3, <2>4, <2>5 DEF AsAsked
<1> QED BY <1>1, <1>2

\* The call as it is, field by field.
LEMMA TactFields ==
    ASSUME CosignInv
    PROVE  /\ tact \in Tacts
           /\ tact.pc # "idle" => tact.args \in Args /\ tact.args \in CallArgs
           /\ tact.sigs \in Seq(Signatures) /\ tact.info \in Nat /\ chainHead \in Nat
           /\ tact.allow \in BOOLEAN /\ tact.modify \in BOOLEAN /\ tact.expire \in Nat
  BY CosignAssumption DEF CosignInv, CosignTypes, Tacts

\* No transact is under way.
LEMMA CosignStarts == CosignInit => CosignInv
<1> SUFFICES ASSUME CosignInit PROVE CosignInv
  OBVIOUS
<1>1. tact \in Tacts
  <2>1. /\ <<>> \in Seq({"append", "cosigner"}) /\ <<>> \in Seq(Signatures) /\ <<>> \in Seq(TxOf)
        /\ "idle" \in CosignStages
    BY DEF CosignStages
  <2>2. \A hooks \in Seq({"append", "cosigner"}), wallet \in Signers, sigs \in Seq(Signatures),
           txs \in Seq(TxOf) :
          [pc |-> "idle", args |-> <<>>, request |-> <<>>, hooks |-> hooks, allow |-> TRUE,
           modify |-> TRUE, expire |-> 0, wallet |-> wallet, ui |-> FALSE, info |-> 0,
           sigs |-> sigs, tx |-> <<>>, afterSign |-> txs, shown |-> txs] \in Tacts
    BY <2>1 DEF Tacts
  <2> QED BY <2>1, <2>2, SignersAre, Zenon DEF CosignInit
<1> QED BY <1>1 DEF CosignInit, CosignInv, CosignTypes, Hooking, Signing

\* A call that fails holds what it held.
LEMMA CosignFails ==
    ASSUME CosignInv, tact.pc # "idle", tact' = Failed, UNCHANGED chainHead
    PROVE  CosignInv'
<1>1. tact \in Tacts
  BY TactFields
<1>2. tact' \in Tacts /\ tact'.pc = "failed" /\ tact'.args = tact.args
  BY <1>1 DEF Failed, Tacts, CosignStages
<1> QED BY <1>2 DEF CosignInv, CosignTypes, Hooking, Signing

\* A transact begins with the request that was given or made.
LEMMA TransactStarts ==
    ASSUME CosignInv, NEW a \in Args, NEW hs \in HookLists, NEW m \in BOOLEAN, NEW e \in Expires,
           NEW w \in {"privatekey", "cleos"}, NEW ui \in BOOLEAN, StartTransact(a, hs, m, e, w, ui)
    PROVE  CosignInv'
<1> DEFINE r == createRequest(a)
<1>1. tact \in Tacts /\ tact.pc = "idle" /\ tact.sigs = <<>> /\ tact.afterSign = <<>> /\ tact.shown = <<>>
  BY TactFields DEF StartTransact, CosignInv, CosignTypes
<1>2. a \in CallArgs /\ hs \in Seq({"append", "cosigner"}) /\ e \in Nat
  BY CosignAssumption
<1>3. /\ a.given \in {"args", "request"} /\ a.kind \in {"action", "actions", "transaction", "identity"}
      /\ a.actions \in Seq(ActionNames) /\ a.header \in Headers \cup {NoTapos} /\ a.chain \in STRING
  BY <1>2 DEF CallArgs
<1>4. /\ r.actions = a.actions /\ r.header = a.header
      /\ r.kind \in {"action", "actions", "transaction", "identity"}
      /\ a.kind # "identity" => r.kind # "identity"
      /\ r.chain \in STRING /\ (OwnChain(a) => r.chain = SessionChain)
      /\ r = [kind |-> r.kind, actions |-> r.actions, header |-> r.header, chain |-> r.chain]
  <2>1. CASE a.given = "request"
    BY <1>3, <2>1 DEF createRequest, OwnChain
  <2>2. CASE a.given = "args"
    <3>1. /\ upgradeTransaction(a).actions = a.actions /\ upgradeTransaction(a).header = a.header
          /\ upgradeTransaction(a).kind \in {a.kind, "transaction"}
      BY <1>2 DEF upgradeTransaction, CallArgs
    <3>2. SessionChain \in STRING
      BY CosignAssumption
    <3> QED BY <1>3, <2>2, <3>1, <3>2 DEF createRequest, OwnChain
  <2> QED BY <1>3, <2>1, <2>2
<1> HIDE DEF r
<1>5. r \in RequestOf
  BY <1>3, <1>4 DEF RequestOf
<1>6. tact' = [tact EXCEPT !.pc = "hooks", !.args = a, !.request = r, !.hooks = hs, !.allow = m,
                           !.modify = m, !.expire = e, !.wallet = w, !.ui = ui]
  BY DEF StartTransact, r
<1>7. tact' \in Tacts
  BY <1>1, <1>2, <1>5, <1>6, SignersAre DEF Tacts, CosignStages
<1>8. /\ tact'.pc = "hooks" /\ tact'.args = a /\ tact'.request = r /\ tact'.allow = m /\ tact'.modify = m
      /\ tact'.sigs = <<>> /\ tact'.afterSign = <<>> /\ tact'.shown = <<>>
  BY <1>1, <1>6 DEF Tacts
<1>9. CosignTypes'
  BY <1>5, <1>7, <1>8 DEF CosignTypes, StartTransact, CosignInv
<1>10. AsAsked(a, r.actions)
  BY <1>3, <1>4, AsAskedKept
<1>11. Hooking'
  BY <1>4, <1>8, <1>10 DEF Hooking, ByCosigners
<1> QED BY <1>8, <1>9, <1>11 DEF CosignInv, Signing

\* signTransaction: the wallet signs what it was given.
LEMMA TransactionSigned ==
    ASSUME CosignInv, NEW a \in Args, NEW w \in {"privatekey", "cleos"}, SignTransaction(a, w)
    PROVE  CosignInv'
<1> DEFINE tx == [header |-> a.header, actions |-> a.actions]
           sigs == IF w = "cleos" THEN <<>> ELSE <<[by |-> "user", tx |-> tx, chain |-> SessionChain]>>
           pc == IF w = "cleos" THEN "failed" ELSE "done"
<1>1. tact \in Tacts /\ tact.pc = "idle" /\ tact.request = <<>> /\ tact.afterSign = <<>> /\ tact.shown = <<>>
  BY TactFields DEF SignTransaction, CosignInv, CosignTypes
<1>2. a.actions \in Seq(ActionNames) /\ a.header \in Headers \cup {NoTapos}
  BY CosignAssumption DEF CallArgs
<1>3. tx \in TxOf /\ tx.actions = a.actions /\ tx.header = a.header
  BY <1>2 DEF TxOf
<1> HIDE DEF tx
<1>4. [by |-> "user", tx |-> tx, chain |-> SessionChain] \in Signatures
  BY <1>3, CosignAssumption DEF Signatures
<1>5. sigs \in Seq(Signatures) /\ (w # "cleos" => Len(sigs) = 1 /\ sigs[1].by = "user" /\ sigs[1].tx = tx)
  BY <1>4
<1>6. tact' = [tact EXCEPT !.args = a, !.wallet = w, !.tx = tx, !.pc = pc, !.sigs = sigs]
  BY DEF SignTransaction, tx
<1> HIDE DEF sigs
<1>7. tact' \in Tacts
  BY <1>1, <1>3, <1>5, <1>6, SignersAre DEF Tacts, CosignStages
<1>8. /\ tact'.pc = pc /\ tact'.args = a /\ tact'.tx = tx /\ tact'.sigs = sigs /\ tact'.request = <<>>
      /\ tact'.afterSign = <<>> /\ tact'.shown = <<>>
  BY <1>1, <1>6 DEF Tacts
<1>9. AsAsked(a, tx.actions)
  BY <1>2, <1>3, AsAskedKept
<1>10. CosignTypes'
  BY <1>7, <1>8 DEF CosignTypes, SignTransaction, CosignInv
<1>11. Signing'
  <2>1. CASE w = "cleos"
    BY <1>8, <2>1 DEF Signing
  <2>2. CASE w # "cleos"
    <3>1. Resolved(tact')
      BY <1>3, <1>5, <1>8, <1>9, <2>2 DEF Resolved
    <3> QED BY <1>3, <1>5, <1>8, <2>2, <3>1 DEF Signing
  <2> QED BY <2>1, <2>2
<1> QED BY <1>8, <1>10, <1>11 DEF CosignInv, Hooking

\* The request with an action more.
LEMMA Inserted ==
    ASSUME NEW r \in RequestOf, CanInsert(r), NEW act, NEW placement \in {"append", "prepend"}
    PROVE  LET q == insertAction(r, act, placement)
           IN  /\ q.actions = IF placement = "append" THEN Append(r.actions, act) ELSE <<act>> \o r.actions
               /\ q.header = r.header /\ q.chain = r.chain /\ q.kind # "identity"
               /\ q.kind \in {"action", "actions", "transaction", "identity"}
               /\ q = [kind |-> q.kind, actions |-> q.actions, header |-> q.header, chain |-> q.chain]
<1> DEFINE kind == IF r.kind = "action" THEN "actions" ELSE r.kind
           actions == IF placement = "append" THEN Append(r.actions, act) ELSE <<act>> \o r.actions
<1>1. r = [kind |-> r.kind, actions |-> r.actions, header |-> r.header, chain |-> r.chain]
  BY DEF RequestOf
<1>2. kind \in {"action", "actions", "transaction", "identity"} /\ kind # "identity"
  BY DEF RequestOf, CanInsert
<1>3. insertAction(r, act, placement) = [r EXCEPT !.kind = kind, !.actions = actions]
  BY DEF insertAction
<1> HIDE DEF kind, actions
<1>4. insertAction(r, act, placement) = [kind |-> kind, actions |-> actions, header |-> r.header, chain |-> r.chain]
  BY <1>1, <1>3
<1> QED BY <1>2, <1>4 DEF actions

\* What is left of the hooks.
LEMMA TailOf ==
    ASSUME NEW S, NEW s \in Seq(S), s # <<>>
    PROVE  Tail(s) \in Seq(S)
OBVIOUS

\* A hook that appends an action, to a request that may still be changed.
LEMMA ActionAppended ==
    ASSUME CosignInv, AppendingHook
    PROVE  CosignInv'
<1> DEFINE t == tact
           r == appendAction(t.request, Fee)
<1>1. /\ tact \in Tacts /\ t.pc = "hooks" /\ t.hooks # <<>> /\ t.args \in CallArgs /\ t.args \in Args
      /\ t.request \in RequestOf /\ t.afterSign = <<>> /\ t.shown = <<>> /\ t.sigs \in Seq(Signatures)
  BY TactFields DEF AppendingHook, CosignInv, CosignTypes
<1>2. CASE ~CanInsert(t.request)
  BY <1>1, <1>2, CosignFails DEF AppendingHook
<1>3. CASE CanInsert(t.request)
  <2>1. /\ r.actions = Append(t.request.actions, Fee) /\ r.header = t.request.header
        /\ r.chain = t.request.chain /\ r.kind # "identity"
        /\ r.kind \in {"action", "actions", "transaction", "identity"}
        /\ r = [kind |-> r.kind, actions |-> r.actions, header |-> r.header, chain |-> r.chain]
    BY <1>1, <1>3, Inserted DEF appendAction
  <2>2. t.request.actions \in Seq(ActionNames) /\ t.args.actions \in Seq(ActionNames)
    BY <1>1 DEF RequestOf, CallArgs
  <2> HIDE DEF r
  <2>3. r.actions \in Seq(ActionNames)
    BY <2>1, <2>2, HooksCall
  <2>4. r \in RequestOf
    BY <1>1, <2>1, <2>3 DEF RequestOf
  <2> DEFINE q == IF t.allow THEN r ELSE t.request
  <2>5. tact' = [tact EXCEPT !.hooks = Tail(t.hooks), !.info = t.info, !.request = q,
                             !.sigs = t.sigs \o <<>>, !.allow = t.allow /\ <<>> = <<>>]
    BY <1>3 DEF AppendingHook, HookAnswers, r
  <2>6. /\ t.sigs \o <<>> = t.sigs /\ (t.allow /\ <<>> = <<>>) = t.allow
        /\ Tail(t.hooks) \in Seq({"append", "cosigner"})
    <3>1. t.sigs \o <<>> = t.sigs
      BY <1>1, ConcatEmptySeq
    <3>2. t.allow \in BOOLEAN /\ t.hooks \in Seq({"append", "cosigner"})
      BY <1>1 DEF Tacts
    <3>3. (t.allow /\ <<>> = <<>>) = t.allow
      BY <3>2
    <3>4. Tail(t.hooks) \in Seq({"append", "cosigner"})
      BY <1>1, <3>2, TailOf
    <3> QED BY <3>1, <3>3, <3>4
  <2>7. q \in RequestOf
    BY <1>1, <2>4
  <2>8. tact' = [tact EXCEPT !.hooks = Tail(t.hooks), !.info = t.info, !.request = q,
                             !.sigs = t.sigs, !.allow = t.allow]
    BY <2>5, <2>6
  <2> HIDE DEF q
  <2>9. tact' \in Tacts
    BY <1>1, <2>6, <2>7, <2>8 DEF Tacts
  <2>10. /\ tact'.pc = "hooks" /\ tact'.args = t.args /\ tact'.request = q /\ tact'.sigs = t.sigs
         /\ tact'.allow = t.allow /\ tact'.modify = t.modify
         /\ tact'.afterSign = t.afterSign /\ tact'.shown = t.shown
    BY <1>1, <2>8 DEF Tacts
  <2>11. CosignTypes'
    BY <1>1, <2>7, <2>9, <2>10 DEF CosignTypes, AppendingHook, CosignInv
  <2>12. AsAsked(t.args, q.actions) /\ q.header = t.request.header /\ q.chain = t.request.chain
         /\ (t.args.kind # "identity" => q.kind # "identity")
         /\ (~t.allow => q = t.request)
    <3>1. AsAsked(t.args, t.request.actions) /\ (t.args.kind # "identity" => t.request.kind # "identity")
      BY <1>1 DEF CosignInv, Hooking
    <3>2. AsAsked(t.args, r.actions)
      BY <2>1, <2>2, <3>1, AsAskedKept
    <3> QED BY <2>1, <3>1, <3>2 DEF q
  <2>13. Hooking'
    BY <1>1, <2>10, <2>12 DEF CosignInv, Hooking, ByCosigners
  <2> QED BY <2>10, <2>11, <2>13 DEF CosignInv, Signing
<1> QED BY <1>2, <1>3

\* A cosigner: what it signs is what the request becomes, if that may be changed.
LEMMA Cosigned ==
    ASSUME CosignInv, NEW reached \in BOOLEAN, CosignerHook(reached)
    PROVE  CosignInv'
<1> DEFINE t == tact
           r == prependAction(t.request, Noop)
           info == InfoAfter(r)
           resolved == resolveWith(r, info, DefaultExpire)
           sig == [by |-> "cosigner", tx |-> resolved, chain |-> t.request.chain]
<1>1. /\ tact \in Tacts /\ t.pc = "hooks" /\ t.hooks # <<>> /\ t.args \in CallArgs /\ t.args \in Args
      /\ t.request \in RequestOf /\ t.afterSign = <<>> /\ t.shown = <<>> /\ t.sigs \in Seq(Signatures)
  BY TactFields DEF CosignerHook, CosignInv, CosignTypes
<1>2. CASE tact' = Failed
  BY <1>1, <1>2, CosignFails DEF CosignerHook
<1>3. CASE tact' # Failed
  <2>1. /\ CanInsert(t.request)
        /\ HookAnswers(Fixed(resolved, r), <<sig>>, info)
    BY <1>3 DEF CosignerHook
  <2>2. /\ r.actions = <<Noop>> \o t.request.actions /\ r.header = t.request.header /\ r.kind # "identity"
    BY <1>1, <2>1, Inserted DEF prependAction
  <2>3. t.request.actions \in Seq(ActionNames) /\ t.args.actions \in Seq(ActionNames)
        /\ t.request.header \in Headers \cup {NoTapos} /\ t.request.chain \in STRING
    BY <1>1 DEF RequestOf, CallArgs
  <2> HIDE DEF r
  <2>4. r.actions \in Seq(ActionNames) /\ r.actions[1] = Noop
    BY <2>2, <2>3, HooksCall
  <2>5. info \in Nat
    BY TactFields DEF InfoAfter, getInfo
  <2> HIDE DEF info
  <2>6. [ref |-> info, expire |-> DefaultExpire] \in Headers
    BY <2>5, CosignAssumption DEF Headers
  <2>7. /\ resolved.actions = r.actions /\ resolved.header \in Headers
        /\ t.request.header # NoTapos => resolved.header = t.request.header
        /\ resolved = [header |-> resolved.header, actions |-> r.actions]
    BY <2>2, <2>3, <2>6 DEF resolveWith, requiresTapos
  <2> HIDE DEF resolved
  <2>8. resolved \in TxOf /\ resolved.header # NoTapos
    BY <2>4, <2>7, CosignAssumption DEF TxOf
  <2> DEFINE f == Fixed(resolved, r)
  <2>9. /\ f.kind = "transaction" /\ f.actions = r.actions /\ f.header = resolved.header /\ f.chain = SessionChain
        /\ f \in RequestOf
    BY <2>4, <2>7, CosignAssumption DEF Fixed, RequestOf
  <2>10. sig \in Signatures /\ sig.by = "cosigner" /\ sig.tx = resolved /\ sig.chain = t.request.chain
    BY <2>3, <2>8 DEF Signatures
  <2> HIDE DEF sig, f
  <2> DEFINE q == IF t.allow THEN f ELSE t.request
             sigs == t.sigs \o <<sig>>
  <2>11. tact' = [tact EXCEPT !.hooks = Tail(t.hooks), !.info = info, !.request = q, !.sigs = sigs,
                              !.allow = FALSE]
    <3>1. (t.allow /\ <<sig>> = <<>>) = FALSE
      OBVIOUS
    <3> QED BY <2>1, <3>1 DEF HookAnswers, f
  <2>12. q \in RequestOf /\ Tail(t.hooks) \in Seq({"append", "cosigner"})
    <3>1. t.hooks \in Seq({"append", "cosigner"})
      BY <1>1 DEF Tacts
    <3>2. q \in RequestOf
      BY <1>1, <2>9
    <3> QED BY <1>1, <3>1, <3>2, TailOf
  <2>13. /\ sigs \in Seq(Signatures) /\ sigs # <<>>
         /\ sigs[1] = IF t.sigs = <<>> THEN sig ELSE t.sigs[1]
         /\ Len(sigs) = Len(t.sigs) + 1
         /\ \A i \in 1..Len(sigs) : sigs[i] = IF i <= Len(t.sigs) THEN t.sigs[i] ELSE sig
    BY <1>1, <2>10
  <2> HIDE DEF q, sigs
  <2>14. tact' \in Tacts
    BY <1>1, <2>5, <2>11, <2>12, <2>13 DEF Tacts
  <2>15. /\ tact'.pc = "hooks" /\ tact'.args = t.args /\ tact'.request = q /\ tact'.sigs = sigs
         /\ tact'.allow = FALSE /\ tact'.modify = t.modify
         /\ tact'.afterSign = t.afterSign /\ tact'.shown = t.shown
    BY <1>1, <2>11 DEF Tacts
  <2>16. CosignTypes'
    BY <1>1, <2>12, <2>14, <2>15 DEF CosignTypes, CosignerHook, CosignInv
  <2>17. /\ AsAsked(t.args, t.request.actions) /\ ByCosigners(t)
         /\ OwnChain(t.args) => t.request.chain = SessionChain
         /\ t.args.kind # "identity" => t.request.kind # "identity"
         /\ t.args.header # NoTapos => t.request.header = t.args.header
         /\ t.sigs = <<>> => t.allow = t.modify
         /\ t.allow => t.modify
         /\ t.sigs = <<>> \/ ~t.modify => t.request.header = t.args.header
         /\ t.sigs # <<>> /\ t.modify =>
               /\ ~t.allow
               /\ OwnChain(t.args) =>
                    /\ t.sigs[1].tx = [header |-> t.request.header, actions |-> t.request.actions]
                    /\ t.sigs[1].chain = SessionChain
                    /\ t.request.header # NoTapos /\ t.request.actions[1] = Noop
    BY <1>1 DEF CosignInv, Hooking
  <2>18. AsAsked(t.args, f.actions)
    BY <2>2, <2>3, <2>9, <2>17, AsAskedKept
  <2>19. \A i \in DOMAIN sigs : sigs[i].by = "cosigner"
    BY <1>1, <2>10, <2>13, <2>17 DEF ByCosigners
  <2>20. CASE t.allow
    <3>1. q = f /\ t.modify /\ t.sigs = <<>>
      BY <2>17, <2>20 DEF q
    <3>2. sigs[1] = sig /\ resolved = [header |-> f.header, actions |-> f.actions]
      BY <2>7, <2>9, <2>13, <3>1
    <3>3. sigs[1].tx = [header |-> q.header, actions |-> q.actions]
          /\ (OwnChain(t.args) => sigs[1].chain = SessionChain)
      BY <2>10, <2>17, <3>1, <3>2
    <3>4. /\ q.chain = SessionChain /\ q.kind # "identity" /\ q.header # NoTapos /\ q.actions[1] = Noop
          /\ t.args.header # NoTapos => q.header = t.args.header
          /\ AsAsked(t.args, q.actions)
      BY <2>4, <2>7, <2>8, <2>9, <2>17, <2>18, <3>1
    <3>5. Hooking'
      BY <2>13, <2>15, <2>19, <3>1, <3>3, <3>4 DEF Hooking, ByCosigners
    <3> QED BY <2>15, <2>16, <3>5 DEF CosignInv, Signing
  <2>21. CASE ~t.allow
    <3>1. q = t.request
      BY <2>21 DEF q
    <3>2. Hooking'
      BY <2>13, <2>15, <2>17, <2>19, <2>21, <3>1 DEF Hooking, ByCosigners
    <3> QED BY <2>15, <2>16, <3>2 DEF CosignInv, Signing
  <2> QED BY <2>20, <2>21
<1> QED BY <1>2, <1>3

\* The hooks are done: the request as they left it gets its header.
LEMMA TransactionResolved ==
    ASSUME CosignInv, NEW reached \in BOOLEAN, ResolveFinal(reached)
    PROVE  CosignInv'
<1> DEFINE t == tact
           r == t.request
           info == InfoAfter(r)
           tx == resolveWith(r, info, t.expire)
<1>1. /\ tact \in Tacts /\ t.pc = "hooks" /\ t.args \in CallArgs /\ t.args \in Args
      /\ r \in RequestOf /\ t.afterSign = <<>> /\ t.shown = <<>> /\ t.sigs \in Seq(Signatures)
  BY TactFields DEF ResolveFinal, CosignInv, CosignTypes
<1>2. CASE tact' = Failed
  BY <1>1, <1>2, CosignFails DEF ResolveFinal
<1>3. CASE tact' # Failed
  <2>1. tact' = [tact EXCEPT !.pc = "sign", !.info = info, !.tx = tx]
    BY <1>3 DEF ResolveFinal
  <2>2. info \in Nat /\ t.expire \in Nat
    BY TactFields DEF InfoAfter, getInfo
  <2>3. /\ r.actions \in Seq(ActionNames) /\ r.header \in Headers \cup {NoTapos}
        /\ t.args.header \in Headers \cup {NoTapos}
    BY <1>1 DEF RequestOf, CallArgs
  <2> HIDE DEF info
  <2>4. [ref |-> info, expire |-> t.expire] \in Headers
    BY <2>2 DEF Headers
  <2>5. /\ tx.actions = r.actions
        /\ tx.header = IF requiresTapos(r) THEN [ref |-> info, expire |-> t.expire] ELSE r.header
        /\ tx = [header |-> tx.header, actions |-> tx.actions]
    BY DEF resolveWith
  <2> HIDE DEF tx
  <2>6. tx \in TxOf
    BY <2>3, <2>4, <2>5 DEF TxOf
  <2>7. tact' \in Tacts
    BY <1>1, <2>1, <2>2, <2>6 DEF Tacts, CosignStages
  <2>8. /\ tact'.pc = "sign" /\ tact'.args = t.args /\ tact'.request = r /\ tact'.sigs = t.sigs
        /\ tact'.modify = t.modify /\ tact'.expire = t.expire /\ tact'.tx = tx
        /\ tact'.afterSign = <<>> /\ tact'.shown = <<>>
    BY <1>1, <2>1 DEF Tacts
  <2>9. CosignTypes'
    BY <1>1, <2>7, <2>8 DEF CosignTypes, ResolveFinal, CosignInv
  <2>10. /\ AsAsked(t.args, r.actions) /\ ByCosigners(t)
         /\ t.args.kind # "identity" => r.kind # "identity"
         /\ t.args.header # NoTapos => r.header = t.args.header
         /\ t.sigs = <<>> \/ ~t.modify => r.header = t.args.header
         /\ t.sigs # <<>> /\ t.modify /\ OwnChain(t.args) =>
              /\ t.sigs[1].tx = [header |-> r.header, actions |-> r.actions]
              /\ t.sigs[1].chain = SessionChain
              /\ r.header # NoTapos /\ r.actions[1] = Noop
    BY <1>1 DEF CosignInv, Hooking
  <2>11. t.sigs # <<>> /\ t.modify /\ OwnChain(t.args) =>
             t.sigs[1].tx = tx /\ t.sigs[1].chain = SessionChain /\ tx.actions[1] = Noop
    BY <2>5, <2>10 DEF requiresTapos
  <2>12. t.args.header # NoTapos => tx.header = t.args.header
    BY <2>5, <2>10 DEF requiresTapos
  <2>13. t.sigs # <<>> => t.sigs[1].by = "cosigner"
    BY <1>1, <2>10 DEF ByCosigners
  <2>14. t.args.header = NoTapos /\ t.args.kind # "identity" /\ ~(t.sigs # <<>> /\ t.modify) =>
             tx.header.expire = t.expire
    BY <2>5, <2>10 DEF requiresTapos
  <2>15. Resolved(tact')
    BY <2>5, <2>8, <2>10, <2>11, <2>12, <2>13, <2>14 DEF Resolved
  <2>16. Signing'
    BY <2>6, <2>8, <2>10, <2>15 DEF Signing, ByCosigners
  <2> QED BY <2>8, <2>9, <2>16 DEF CosignInv, Hooking
<1> QED BY <1>2, <1>3

\* The private key signs what was resolved, after the cosigners.
LEMMA KeySigned ==
    ASSUME CosignInv, PrivateKeySigns
    PROVE  CosignInv'
<1> DEFINE t == tact
           sig == [by |-> "user", tx |-> t.tx, chain |-> SessionChain]
           sigs == Append(t.sigs, sig)
<1>1. /\ tact \in Tacts /\ t.pc = "sign" /\ t.request \in RequestOf /\ t.sigs \in Seq(Signatures)
      /\ t.args \in Args
  BY TactFields DEF PrivateKeySigns, CosignInv, CosignTypes
<1>2. /\ t.tx \in TxOf /\ Resolved(t) /\ ByCosigners(t)
      /\ \A i \in DOMAIN t.afterSign : t.afterSign[i] = t.tx
      /\ \A i \in DOMAIN t.shown : t.shown[i] = t.tx
  BY <1>1 DEF CosignInv, Signing
<1>3. sig \in Signatures /\ sig.by = "user" /\ sig.tx = t.tx
  BY <1>2, CosignAssumption DEF Signatures
<1> HIDE DEF sig
<1>4. /\ sigs \in Seq(Signatures) /\ Len(sigs) = Len(t.sigs) + 1 /\ Len(t.sigs) \in Nat
      /\ sigs[Len(t.sigs) + 1] = sig /\ \A i \in 1..Len(t.sigs) : sigs[i] = t.sigs[i]
  BY <1>1, <1>3, AppendProperties
<1> HIDE DEF sigs
<1>5. tact' = [tact EXCEPT !.pc = "signed", !.sigs = sigs]
  BY DEF PrivateKeySigns, sigs, sig
<1>6. tact' \in Tacts
  BY <1>1, <1>4, <1>5 DEF Tacts, CosignStages
<1>7. /\ tact'.pc = "signed" /\ tact'.args = t.args /\ tact'.request = t.request /\ tact'.sigs = sigs
      /\ tact'.modify = t.modify /\ tact'.expire = t.expire /\ tact'.tx = t.tx
      /\ tact'.afterSign = t.afterSign /\ tact'.shown = t.shown
  BY <1>1, <1>5 DEF Tacts
<1>8. CosignTypes'
  BY <1>1, <1>6, <1>7 DEF CosignTypes, PrivateKeySigns, CosignInv
<1>9. sigs # <<>> /\ (sigs[1].by = "cosigner" => t.sigs # <<>> /\ t.sigs[1] = sigs[1])
      /\ (t.sigs # <<>> => sigs[1] = t.sigs[1])
  BY <1>1, <1>3, <1>4
<1>10. Resolved(tact')
  BY <1>2, <1>7, <1>9 DEF Resolved
<1>11. \A i \in DOMAIN sigs : sigs[i].by = "user" => i = Len(sigs) /\ sigs[i].tx = t.tx
  BY <1>1, <1>2, <1>3, <1>4 DEF ByCosigners
<1>12. Signing'
  BY <1>2, <1>7, <1>10, <1>11 DEF Signing
<1> QED BY <1>7, <1>8, <1>12 DEF CosignInv, Hooking

\* cleos will show the transaction.
LEMMA CleosSigned ==
    ASSUME CosignInv, CleosSigns
    PROVE  CosignInv'
<1> DEFINE t == tact
           shows == Append(t.afterSign, t.tx)
<1>1. /\ tact \in Tacts /\ t.pc = "sign" /\ t.request \in RequestOf /\ t.args \in Args
      /\ t.afterSign \in Seq(TxOf)
  BY TactFields DEF CleosSigns, CosignInv, CosignTypes, Tacts
<1>2. CASE tact' = Failed
  BY <1>1, <1>2, CosignFails DEF CleosSigns
<1>3. CASE tact' # Failed
  <2>1. /\ t.tx \in TxOf /\ Resolved(t)
        /\ \A i \in DOMAIN t.sigs : t.sigs[i].by = "user" => i = Len(t.sigs) /\ t.sigs[i].tx = t.tx
        /\ \A i \in DOMAIN t.afterSign : t.afterSign[i] = t.tx
        /\ \A i \in DOMAIN t.shown : t.shown[i] = t.tx
    BY <1>1 DEF CosignInv, Signing
  <2>2. shows \in Seq(TxOf) /\ \A i \in DOMAIN shows : shows[i] = t.tx
    BY <1>1, <2>1
  <2> HIDE DEF shows
  <2>3. tact' = [tact EXCEPT !.pc = "signed", !.afterSign = shows]
    BY <1>3 DEF CleosSigns, shows
  <2>4. tact' \in Tacts
    BY <1>1, <2>2, <2>3 DEF Tacts, CosignStages
  <2>5. /\ tact'.pc = "signed" /\ tact'.args = t.args /\ tact'.request = t.request
        /\ tact'.sigs = t.sigs /\ tact'.modify = t.modify /\ tact'.expire = t.expire
        /\ tact'.tx = t.tx /\ tact'.afterSign = shows /\ tact'.shown = t.shown
    BY <1>1, <2>3 DEF Tacts
  <2>6. CosignTypes'
    BY <1>1, <2>4, <2>5 DEF CosignTypes, CleosSigns, CosignInv
  <2>7. Resolved(tact')
    BY <2>1, <2>5 DEF Resolved
  <2>8. Signing'
    BY <2>1, <2>2, <2>5, <2>7 DEF Signing
  <2> QED BY <2>5, <2>6, <2>8 DEF CosignInv, Hooking
<1> QED BY <1>2, <1>3

\* The commands registered are shown.
LEMMA AfterSignRun ==
    ASSUME CosignInv, RunAfterSign
    PROVE  CosignInv'
<1> DEFINE t == tact
<1>1. /\ tact \in Tacts /\ t.pc = "signed" /\ t.args \in Args /\ t.afterSign \in Seq(TxOf)
      /\ t.request \in RequestOf
  BY TactFields DEF RunAfterSign, CosignInv, CosignTypes, Tacts
<1>2. CASE tact' = Failed
  BY <1>1, <1>2, CosignFails DEF RunAfterSign
<1>3. CASE tact' # Failed
  <2>1. /\ t.tx \in TxOf /\ Resolved(t)
        /\ \A i \in DOMAIN t.sigs : t.sigs[i].by = "user" => i = Len(t.sigs) /\ t.sigs[i].tx = t.tx
        /\ \A i \in DOMAIN t.afterSign : t.afterSign[i] = t.tx
    BY <1>1 DEF CosignInv, Signing
  <2>2. tact' = [tact EXCEPT !.pc = "done", !.shown = t.afterSign]
    BY <1>3 DEF RunAfterSign
  <2>3. tact' \in Tacts
    BY <1>1, <2>2 DEF Tacts, CosignStages
  <2>4. /\ tact'.pc = "done" /\ tact'.args = t.args /\ tact'.request = t.request
        /\ tact'.sigs = t.sigs /\ tact'.modify = t.modify /\ tact'.expire = t.expire
        /\ tact'.tx = t.tx /\ tact'.afterSign = t.afterSign /\ tact'.shown = t.afterSign
    BY <1>1, <2>2 DEF Tacts
  <2>5. CosignTypes'
    BY <1>1, <2>3, <2>4 DEF CosignTypes, RunAfterSign, CosignInv
  <2>6. Resolved(tact')
    BY <2>1, <2>4 DEF Resolved
  <2>7. Signing'
    BY <2>1, <2>4, <2>6 DEF Signing
  <2> QED BY <2>4, <2>5, <2>7 DEF CosignInv, Hooking
<1> QED BY <1>2, <1>3

\* Every step of a transact keeps the invariant; the head that moves is only read later.
LEMMA CosignSteps == CosignInv /\ [CosignNext]_cosignVars => CosignInv'
<1> SUFFICES ASSUME CosignInv, [CosignNext]_cosignVars
             PROVE  CosignInv'
  OBVIOUS
<1>1. CASE \E a \in Args, w \in {"privatekey", "cleos"} :
              \/ SignTransaction(a, w)
              \/ \E hs \in HookLists, m \in BOOLEAN, e \in Expires, ui \in BOOLEAN :
                    StartTransact(a, hs, m, e, w, ui)
  BY <1>1, TransactionSigned, TransactStarts
<1>2. CASE AppendingHook
  BY <1>2, ActionAppended
<1>3. CASE \E reached \in BOOLEAN : CosignerHook(reached) \/ ResolveFinal(reached)
  BY <1>3, Cosigned, TransactionResolved
<1>4. CASE PrivateKeySigns \/ CleosSigns \/ RunAfterSign
  BY <1>4, KeySigned, CleosSigned, AfterSignRun
<1>5. CASE HeadMoves
  <2>1. tact' = tact /\ chainHead' = chainHead + 1
    BY <1>5 DEF HeadMoves
  <2>2. chainHead' \in Nat
    BY <2>1, TactFields
  <2> QED BY <2>1, <2>2 DEF CosignInv, CosignTypes, Hooking, Signing
<1>6. CASE UNCHANGED cosignVars
  BY <1>6 DEF cosignVars, CosignInv, CosignTypes, Hooking, Signing
<1> QED BY <1>1, <1>2, <1>3, <1>4, <1>5, <1>6 DEF CosignNext

\* The property is what the invariant says once the call is done: only the last
\* signature is the user's, so the first cosigner's is the first of all.
LEMMA CosignFits == CosignInv => CosignedFits
<1> SUFFICES ASSUME CosignInv, tact.pc = "done"
             PROVE  CosignedFits
  BY DEF CosignedFits
<1> DEFINE t == tact
           ByCosigner(i) == i \in DOMAIN t.sigs /\ t.sigs[i].by = "cosigner"
<1>1. t.sigs \in Seq(Signatures)
  BY TactFields
<1>2. /\ Resolved(t)
      /\ \A i \in DOMAIN t.sigs : t.sigs[i].by = "user" => i = Len(t.sigs) /\ t.sigs[i].tx = t.tx
      /\ \A i \in DOMAIN t.shown : t.shown[i] = t.tx
  BY DEF CosignInv, Signing
<1>3. ASSUME NEW i, ByCosigner(i)
      PROVE  t.sigs # <<>> /\ t.sigs[1].by = "cosigner"
  <2>1. i \in 1..Len(t.sigs) /\ 1 \in DOMAIN t.sigs
    BY <1>1, <1>3
  <2>2. t.sigs[1].by \in {"cosigner", "user"}
    <3>1. t.sigs[1] \in Signatures
      BY <1>1, <2>1
    <3> QED BY <3>1 DEF Signatures
  <2>3. CASE t.sigs[1].by = "user"
    <3>1. Len(t.sigs) = 1
      BY <1>2, <2>1, <2>3
    <3>2. i = 1
      BY <2>1, <3>1
    <3> QED BY <1>3, <2>3, <3>2
  <2> QED BY <1>1, <2>1, <2>2, <2>3
<1>4. ASSUME NEW i \in DOMAIN t.sigs, ByCosigner(i), \A j \in 1..(i - 1) : ~ByCosigner(j)
      PROVE  i = 1
  <2>1. i \in 1..Len(t.sigs) /\ ByCosigner(1)
    BY <1>1, <1>3, <1>4
  <2> QED BY <1>4, <2>1
<1>5. \E n, m \in 0..Len(t.tx.actions) :
        t.tx.actions = [i \in 1..n |-> Noop] \o t.args.actions \o [i \in 1..m |-> Fee]
  BY <1>2 DEF Resolved, AsAsked, Added
<1>6. t.modify /\ (t.args.given = "args" \/ t.args.chain = SessionChain) =>
        \A i \in DOMAIN t.sigs : ByCosigner(i) /\ (\A j \in 1..(i - 1) : ~ByCosigner(j)) =>
            t.sigs[i].tx = t.tx /\ t.sigs[i].chain = SessionChain /\ t.tx.actions[1] = Noop
  BY <1>2, <1>3, <1>4 DEF Resolved, OwnChain
<1>7. /\ t.args.header # NoTapos => t.tx.header = t.args.header
      /\ t.request # <<>> /\ t.args.header = NoTapos /\ t.args.kind # "identity"
           /\ ~((\E i \in DOMAIN t.sigs : ByCosigner(i)) /\ t.modify) => t.tx.header.expire = t.expire
  <2>1. t.sigs # <<>> /\ t.sigs[1].by = "cosigner" => ByCosigner(1) /\ 1 \in DOMAIN t.sigs
    BY <1>1
  <2> QED BY <1>2, <2>1 DEF Resolved
<1> QED BY <1>2, <1>5, <1>6, <1>7, Zenon DEF CosignedFits

\* Whatever hooks a transact runs, in whatever order, and however the head moves
\* meanwhile: what is signed, shown and reported is what was asked between what the hooks
\* added (session.cpp:217-412, cosigner.cpp:15-59, privatekey.cpp, cleos.cpp).
THEOREM CosignedAlwaysFits == CosignSpec => []CosignedFits
BY CosignStarts, CosignSteps, CosignFits, PTL DEF CosignSpec
=============================================================================
