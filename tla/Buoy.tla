-------------------------------- MODULE Buoy --------------------------------
(***************************************************************************)
(* The buoy listener: waits for one answer of a wallet each on a channel of *)
(* its own, all over the ONE WebSocketProvider the wallet plugin owns.      *)
(*                                                                         *)
(* src/protocol_esr/buoy.cpp     Listener, receiveMessage, receive          *)
(* src/transport/curl_websocket_provider.cpp   connect, receive, send, close*)
(*                                                                         *)
(* A wait is named by the channel it listens on (a fresh uuid per call).    *)
(* The calls of the provider are atomic, the steps between them interleave. *)
(* The buoy service is external: it keeps a message of a channel until it   *)
(* is acknowledged and repeats the unacknowledged ones to each new socket.  *)
(***************************************************************************)
EXTENDS Naturals, Sequences, FiniteSets

CONSTANTS Waits,        \* the calls of buoy::receive, named by their channel
          Timed,        \* those with a timeout (a signature, not a login)
          MaxAnswers,   \* bound: messages sent to one channel
          MaxFaults,    \* bound: refused connects and broken sockets
          MaxControls,  \* bound: 4 byte frames of the service
          None

ASSUME BuoyAssumption ==
    /\ Timed \subseteq Waits /\ None \notin Waits
    /\ MaxAnswers \in Nat /\ MaxFaults \in Nat /\ MaxControls \in Nat

VARIABLES wait,      \* a wait: where it is, Listener::connected_, past its deadline, result
          chan,      \* the channel of the provider's open socket (curl_), or None
          wire,      \* frames that reached the socket and are not read yet
          box,       \* per channel: the messages the service keeps
          sent,      \* per channel: how many messages the wallet sent
          cancelled, \* the plugin's CancelToken
          faults, controls,
          shared     \* the waits that another wait ran beside

buoyVars == <<wait, chan, wire, box, sent, cancelled, faults, controls, shared>>

Frame(k, c, n) == [kind |-> k, of |-> c, seq |-> n]
Idle == [pc |-> "idle", connected |-> FALSE, late |-> FALSE, got |-> None]
Active(w) == wait[w].pc \notin {"idle", "done", "failed", "canceled", "expired"}

BuoyInit ==
    /\ wait = [w \in Waits |-> Idle]
    /\ chan = None /\ wire = <<>>
    /\ box = [w \in Waits |-> {}] /\ sent = [w \in Waits |-> 0]
    /\ cancelled = FALSE /\ faults = 0 /\ controls = 0
    /\ shared = {}

At(w, pc) == wait' = [wait EXCEPT ![w].pc = pc]

---------------------------------------------------------------------------
(* The provider.                                                            *)

\* Messages of one channel in the order they were sent.
InOrder(fs) == {q \in [1..Cardinality(fs) -> fs] :
                   \A i, j \in 1..Cardinality(fs) : i < j => q[i].seq < q[j].seq}

\* CurlWebSocketProvider::connect: whatever socket is open is closed first.
\* The service then repeats what it keeps; unframed messages it forgets.
Connect(w) ==
    /\ chan' = w
    /\ wire' \in InOrder(box[w])
    /\ box' = [box EXCEPT ![w] = {f \in @ : f.kind = "framed"}]
    /\ UNCHANGED faults

ConnectFails ==
    /\ faults < MaxFaults
    /\ faults' = faults + 1
    /\ chan' = None /\ wire' = <<>>
    /\ UNCHANGED box

\* Listener::disconnect closes the provider's socket, whoever opened it, and
\* the wait ends as r with the message m.
Leave(w, r, m) ==
    /\ wait' = [wait EXCEPT ![w] = [@ EXCEPT !.pc = r, !.connected = FALSE, !.got = m]]
    /\ chan' = IF wait[w].connected THEN None ELSE chan
    /\ wire' = IF wait[w].connected THEN <<>> ELSE wire

---------------------------------------------------------------------------
(* buoy::receive and Listener::receiveMessage.                              *)

\* receive() up to its first connect, whose failure it returns at once.
Begin(w) ==
    /\ wait[w].pc = "idle"
    /\ shared' = shared \cup (IF \E v \in Waits \ {w} : Active(v)
                              THEN {w} \cup {v \in Waits : Active(v)} ELSE {})
    /\ \/ Connect(w) /\ wait' = [wait EXCEPT ![w].pc = "loop", ![w].connected = TRUE]
       \/ ConnectFails /\ At(w, "failed")
    /\ UNCHANGED <<sent, cancelled, controls>>

\* The top of the loop: cancelled, reconnect, expired, or receive a slice.
Loop(w) ==
    /\ wait[w].pc = "loop"
    /\ \/ cancelled /\ Leave(w, "canceled", None) /\ UNCHANGED <<box, faults>>
       \/ /\ ~cancelled /\ ~wait[w].connected
          /\ \/ /\ Connect(w)
                /\ wait' = [wait EXCEPT ![w].connected = TRUE,
                                        ![w].pc = IF wait[w].late THEN "expire" ELSE "receive"]
             \/ ConnectFails /\ At(w, IF wait[w].late THEN "expire" ELSE "backoff")
       \/ /\ ~cancelled /\ wait[w].connected
          /\ At(w, IF wait[w].late THEN "expire" ELSE "receive")
          /\ UNCHANGED <<chan, wire, box, faults>>
    /\ UNCHANGED <<sent, cancelled, controls, shared>>

\* A mutant: the listener still believes it is connected after a failure.
SocketFailedUnnoticed(w) ==
    wait' = [wait EXCEPT ![w].pc = IF wait[w].late THEN "expire" ELSE "backoff"]

\* A failed receive: the listener reconnects after the backoff, or expires.
SocketFailed(w) ==
    wait' = [wait EXCEPT ![w].connected = FALSE,
                         ![w].pc = IF wait[w].late THEN "expire" ELSE "backoff"]

\* One call of WebSocketProvider::receive and what receiveMessage makes of it.
Receive(w) ==
    /\ wait[w].pc = "receive"
    /\ \/ cancelled /\ Leave(w, "canceled", None) /\ UNCHANGED faults
       \/ ~cancelled /\ chan = None /\ SocketFailed(w) /\ UNCHANGED <<chan, wire, faults>>
       \/ /\ ~cancelled /\ chan # None /\ faults < MaxFaults
          /\ SocketFailed(w) /\ chan' = None /\ wire' = <<>> /\ faults' = faults + 1
       \/ /\ ~cancelled /\ chan # None /\ wire = <<>>
          /\ At(w, "loop") /\ UNCHANGED <<chan, wire, faults>>
       \/ /\ ~cancelled /\ chan # None /\ wire # <<>> /\ Head(wire).kind = "plain"
          /\ Leave(w, "done", Head(wire)) /\ UNCHANGED faults
       \/ /\ ~cancelled /\ chan # None /\ wire # <<>> /\ Head(wire).kind # "plain"
          /\ wait' = [wait EXCEPT ![w].pc = "ack", ![w].got = Head(wire)]
          /\ wire' = Tail(wire) /\ UNCHANGED <<chan, faults>>
    /\ UNCHANGED <<box, sent, cancelled, controls, shared>>

\* A mutant: the 4 byte frame is returned as an (empty) message.
AckReturnsControl(w) ==
    /\ wait[w].pc = "ack"
    /\ Leave(w, "done", wait[w].got)
    /\ UNCHANGED <<box, sent, cancelled, faults, controls, shared>>

\* The ack goes out over whatever socket is open now; a failed send is
\* ignored. A 4 byte frame holds no message: the loop goes on.
Ack(w) ==
    /\ wait[w].pc = "ack"
    /\ LET f == wait[w].got IN
       /\ box' = IF chan = f.of THEN [box EXCEPT ![f.of] = @ \ {f}]
                                ELSE box
       /\ \/ f.kind = "control" /\ wait' = [wait EXCEPT ![w].pc = "loop", ![w].got = None]
             /\ UNCHANGED <<chan, wire>>
          \/ f.kind = "framed" /\ Leave(w, "done", f)
    /\ UNCHANGED <<sent, cancelled, faults, controls, shared>>

Backoff(w) ==
    /\ wait[w].pc = "backoff"
    /\ IF cancelled THEN Leave(w, "canceled", None)
                    ELSE At(w, "loop") /\ UNCHANGED <<chan, wire>>
    /\ UNCHANGED <<box, sent, cancelled, faults, controls, shared>>

Expire(w) ==
    /\ wait[w].pc = "expire"
    /\ Leave(w, "expired", None)
    /\ UNCHANGED <<box, sent, cancelled, faults, controls, shared>>

---------------------------------------------------------------------------
(* Around the waits: the wallet, the service, the clock, the application.   *)

Answer(w, k) ==
    /\ wait[w].pc # "idle" /\ sent[w] < MaxAnswers
    /\ sent' = [sent EXCEPT ![w] = @ + 1]
    /\ LET f == Frame(k, w, sent[w]) IN
       /\ wire' = IF chan = w THEN Append(wire, f) ELSE wire
       /\ box' = IF chan = w /\ k = "plain" THEN box ELSE [box EXCEPT ![w] = @ \cup {f}]
    /\ UNCHANGED <<wait, chan, cancelled, faults, controls, shared>>

ServiceControl ==
    /\ chan # None /\ controls < MaxControls
    /\ controls' = controls + 1
    /\ wire' = Append(wire, Frame("control", chan, controls))
    /\ UNCHANGED <<wait, chan, box, sent, cancelled, faults, shared>>

DeadlinePasses(w) ==
    /\ w \in Timed /\ Active(w) /\ ~wait[w].late
    /\ wait' = [wait EXCEPT ![w].late = TRUE]
    /\ UNCHANGED <<chan, wire, box, sent, cancelled, faults, controls, shared>>

CancelToken ==
    /\ ~cancelled /\ cancelled' = TRUE
    /\ UNCHANGED <<wait, chan, wire, box, sent, faults, controls, shared>>

Step(w) == Loop(w) \/ Receive(w) \/ Ack(w) \/ Backoff(w) \/ Expire(w)

BuoyNext ==
    \/ \E w \in Waits : Begin(w) \/ Step(w) \/ DeadlinePasses(w)
    \/ \E w \in Waits, k \in {"framed", "plain"} : Answer(w, k)
    \/ ServiceControl
    \/ CancelToken

\* A thread inside a wait keeps running and a deadline passes; nothing makes a
\* wallet answer, a call begin or the application cancel.
BuoyFairness == \A w \in Waits : WF_buoyVars(Step(w)) /\ WF_buoyVars(DeadlinePasses(w))

BuoySpec == BuoyInit /\ [][BuoyNext]_buoyVars /\ BuoyFairness

---------------------------------------------------------------------------
(* Properties.                                                              *)

\* A wait never returns what was sent to another channel, although all waits
\* read from one provider - unless another wait ran beside it (buoy.cpp:172):
\* connect() of the other replaces the socket under a listener that still
\* believes it is connected. And no wait returns a frame without a message.
OwnAnswer ==
    \A w \in Waits : wait[w].pc = "done" =>
        /\ wait[w].got.kind # "control"
        /\ wait[w].got.of = w \/ w \in shared

\* A wait that runs alone and is not cancelled returns the framed answer of
\* its wallet or expires, whatever connects and sockets failed meanwhile: the
\* loop reconnects and the service repeats (buoy.cpp:142-203).
AnswerArrives ==
    \A w \in Waits :
        (Active(w) /\ \E f \in box[w] : f.kind = "framed")
            ~> (wait[w].pc \in {"done", "expired"} \/ cancelled \/ w \in shared)
=============================================================================
