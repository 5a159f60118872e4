---------------------------- MODULE ActionStream ----------------------------
(***************************************************************************)
(* The blocking client of an action stream (src/actionstream/client.cpp):  *)
(* next() and nextWithTimeout() dial, subscribe, read frames, notice gaps  *)
(* by the sub_seq counter, reconnect with backoff and resume from the last *)
(* accepted global sequence.  The stream server and the network are the    *)
(* environment: they may skip an action towards a slow reader, drop the    *)
(* connection, and number the actions of a subscription or not.            *)
(* The application runs one call at a time; its callbacks may call close().*)
(* headSeq, libSeq, catchupComplete and the decoded fields of an action    *)
(* are left out.  Without startAtHead or startSeq the server decides where *)
(* a subscription starts; that case is not modelled.                       *)
(***************************************************************************)
EXTENDS Integers, Sequences, SequencesExt

CONSTANTS
    Stream,        \* the global sequence numbers the filter matches
    StartSeq,      \* options.startSeq
    AckInterval,   \* options.ackInterval
    Numberings,    \* whether servers send sub_seq: a subset of BOOLEAN
    NoTrx,         \* the actions the server sends without a good trx_id
    MaxDelay,      \* reconnectMaxDelay, in units of reconnectDelay
    MaxFrames,     \* bound: frames in flight
    MaxFaults      \* bound: connection failures, skips and torn reads

ASSUME StreamAssumption ==
    /\ Stream \subseteq Nat \ {0}
    /\ StartSeq \in Nat \ {0}
    /\ AckInterval \in Int
    /\ Numberings \subseteq BOOLEAN
    /\ NoTrx \subseteq Stream
    /\ MaxDelay \in Nat \ {0}
    /\ MaxFrames \in Nat
    /\ MaxFaults \in Nat

VARIABLES
    startAtHead,   \* options.startAtHead
    pc,            \* "out" of a call, in "pump"Once, or in its "backoff" wait
    client,        \* the members of ActionStreamClient
    head,          \* the chain has produced the actions up to this number
    conn,          \* the server's end of the socket
    frames,        \* what was sent and not yet read
    faults,        \* how often the environment has misbehaved
    delivered,     \* (history) what next() returned, in order
    reported,      \* (history) actions given to onError or returned as an error
    unnoticed      \* (history) actions lost on a socket without sub_seq

env == <<head, conn, frames, faults>>
story == <<delivered, reported, unnoticed>>
vars == <<startAtHead, pc, client, env, story>>

None == 0                       \* expectedSubSeq_ = nullopt
Down == [up |-> FALSE, next |-> 0, sub |-> 0, numbered |-> FALSE, caughtUp |-> FALSE]

Frame == [type : {"action"}, seq : Stream, sub : Nat]
         \cup [type : {"catchup", "other"}]
Client == [socketLive : BOOLEAN, connected : BOOLEAN, closed : BOOLEAN,
           currentSeq : Nat, lastAcked : Nat, hasAcked : BOOLEAN,
           catchupCompleteAt : BOOLEAN, expectedSubSeq : Nat,
           currentBackoff : 1..MaxDelay]
Conn == [up : BOOLEAN, next : Nat, sub : Nat, numbered : BOOLEAN, caughtUp : BOOLEAN]

Init ==
    /\ startAtHead \in BOOLEAN
    /\ pc = "out"
    /\ client = [socketLive |-> FALSE, connected |-> FALSE, closed |-> FALSE,
                 currentSeq |-> IF startAtHead THEN 0 ELSE StartSeq,
                 lastAcked |-> 0, hasAcked |-> FALSE,
                 catchupCompleteAt |-> FALSE, expectedSubSeq |-> 1,
                 currentBackoff |-> 1]
    /\ head = 0
    /\ conn = Down
    /\ frames = <<>>
    /\ faults = 0
    /\ delivered = <<>>
    /\ reported = {}
    /\ unnoticed = {}

----------------------------------------------------------------------------
(* The server and the network *)

Fault == faults < MaxFaults /\ faults' = faults + 1

\* What the subscription still owes the client.
Owed == {s \in Stream : conn.next <= s /\ s <= head}

\* The stream goes on: an instance with finitely many actions never loses the
\* last one, since it is the next action that makes a loss noticeable.
FollowedBy(seq) == \E t \in Stream : seq < t

\* A new action that matches the filter reaches the chain.
Publish ==
    /\ \E s \in Stream : /\ head < s
                         /\ \A t \in Stream : head < t => s <= t
                         /\ head' = s
    /\ UNCHANGED <<startAtHead, pc, client, conn, frames, faults, story>>

\* The next action goes out; its number counts the actions of the subscription.
SendAction ==
    /\ conn.up /\ Len(frames) < MaxFrames
    /\ \E s \in Owed :
        /\ \A t \in Owed : s <= t
        /\ conn' = [conn EXCEPT !.next = s + 1, !.sub = @ + 1]
        /\ frames' = Append(frames,
               [type |-> "action", seq |-> s,
                sub |-> IF conn.numbered THEN conn.sub + 1 ELSE None])
    /\ UNCHANGED <<startAtHead, pc, client, head, faults, story>>

\* The server gives up on one action for a reader that is too slow.
SkipAction ==
    /\ conn.up /\ Fault
    /\ \E s \in Owed :
        /\ \A t \in Owed : s <= t
        /\ FollowedBy(s)
        /\ conn' = [conn EXCEPT !.next = s + 1, !.sub = @ + 1]
        /\ unnoticed' = IF conn.numbered THEN unnoticed ELSE unnoticed \cup {s}
    /\ UNCHANGED <<startAtHead, pc, client, head, frames, delivered, reported>>

SendCatchup ==
    /\ conn.up /\ ~conn.caughtUp /\ Owed = {} /\ Len(frames) < MaxFrames
    /\ conn' = [conn EXCEPT !.caughtUp = TRUE]
    /\ frames' = Append(frames, [type |-> "catchup"])
    /\ UNCHANGED <<startAtHead, pc, client, head, faults, story>>

\* Heartbeats, server errors and frames that do not parse.
SendOther ==
    /\ conn.up /\ Len(frames) < MaxFrames /\ Fault
    /\ frames' = Append(frames, [type |-> "other"])
    /\ UNCHANGED <<startAtHead, pc, client, head, conn, story>>

\* The connection breaks; a prefix of what was sent can still be read.
Break ==
    /\ conn.up /\ Fault
    /\ conn' = Down
    /\ \E n \in 0..Len(frames) : frames' = SubSeq(frames, 1, n)
    /\ UNCHANGED <<startAtHead, pc, client, head, story>>

----------------------------------------------------------------------------
(* The client *)

\* (bug) the socket goes and connected_ stays.
TornDownHalf(c) == [c EXCEPT !.socketLive = FALSE]

TornDown(c) == [c EXCEPT !.socketLive = FALSE, !.connected = FALSE]

\* teardownSocket(), with the close() of the transport.
Teardown == conn' = Down /\ frames' = <<>>

\* What a callback leaves behind: it may have called close().
AfterCallback(c) == {c, [TornDown(c) EXCEPT !.closed = TRUE]}

\* (bug) a client that began at the head subscribes at the head again.
SubscribeFromHead(c) == IF startAtHead THEN head + 1 ELSE c.currentSeq

\* The start_seq of the subscribe message, as the server reads it.
SubscribeFrom(c) == IF c.currentSeq > 0 THEN c.currentSeq ELSE head + 1

Reset(c) == [c EXCEPT !.catchupCompleteAt = FALSE, !.expectedSubSeq = 1]

\* dial(): the socket opens, sendSubscribe() goes out and onConnect runs.
DialOpens ==
    /\ \E c \in AfterCallback([Reset(client) EXCEPT !.socketLive = TRUE,
                                                    !.connected = TRUE]) :
        /\ client' = c
        /\ \E numbered \in Numberings :
             conn' = IF c.closed THEN Down
                     ELSE [up |-> TRUE, next |-> SubscribeFrom(client), sub |-> 0,
                           numbered |-> numbered, caughtUp |-> FALSE]
    /\ frames' = <<>>

\* dial(): the transport fails, having closed the socket it had.
DialFails ==
    /\ client' = Reset(client)
    /\ Teardown

\* connect(); a second one replaces the socket.
Connect ==
    /\ pc = "out" /\ ~client.closed
    /\ \/ DialOpens /\ (IF client.socketLive THEN Fault ELSE UNCHANGED faults)
       \/ DialFails /\ Fault
    /\ UNCHANGED <<startAtHead, pc, head, story>>

\* close()
Close ==
    /\ pc = "out" /\ ~client.closed
    /\ client' = [TornDown(client) EXCEPT !.closed = TRUE]
    /\ Teardown
    /\ UNCHANGED <<startAtHead, pc, head, faults, story>>

\* next() or nextWithTimeout() is called.
Next_ ==
    /\ pc = "out" /\ ~client.closed
    /\ pc' = "pump"
    /\ UNCHANGED <<startAtHead, client, env, story>>

\* Either loop finds the client closed and returns.
NextCanceled ==
    /\ pc = "pump" /\ client.closed
    /\ pc' = "out"
    /\ UNCHANGED <<startAtHead, client, env, story>>

\* pumpOnce() without a socket dials first; the call fails with it.
PumpDials ==
    /\ pc = "pump" /\ ~client.closed /\ ~client.socketLive
    /\ IF client.connected
         THEN pc' = "out" /\ UNCHANGED <<client, conn, frames, faults>>
         ELSE \/ DialOpens /\ UNCHANGED faults
                 /\ pc' = IF client'.socketLive THEN "pump" ELSE "out"
              \/ DialFails /\ Fault /\ pc' = "out"
    /\ UNCHANGED <<startAtHead, head, story>>

Receiving == pc = "pump" /\ ~client.closed /\ client.socketLive

\* The deadline passes or the token is cancelled and the call returns.  (When
\* its own 60 s slice passes, next() keeps waiting: nothing changes.)
ReceiveTimesOut ==
    /\ Receiving
    /\ pc' = "out"
    /\ UNCHANGED <<startAtHead, client, env, story>>

\* receive() gives up, on its deadline or the token, with half a message read:
\* the half is dropped and the rest comes later as a frame that does not parse.
ReceiveTorn ==
    /\ Receiving /\ frames # <<>> /\ Fault
    /\ Head(frames).type = "action" => FollowedBy(Head(frames).seq)
    /\ pc' \in {"pump", "out"}
    /\ frames' = [frames EXCEPT ![1] = [type |-> "other"]]
    /\ unnoticed' = IF Head(frames).type = "action" /\ Head(frames).sub = None
                      THEN unnoticed \cup {Head(frames).seq} ELSE unnoticed
    /\ UNCHANGED <<startAtHead, client, head, conn, delivered, reported>>

\* (bug) the doubled delay is not capped.
BackoffUncapped(c, healthy) ==
    [c EXCEPT !.currentBackoff = IF healthy THEN 2 ELSE 2 * @]

Backoff(c, healthy) ==
    LET delay == IF healthy THEN 1 ELSE c.currentBackoff
    IN  [c EXCEPT !.currentBackoff = IF 2 * delay < MaxDelay THEN 2 * delay ELSE MaxDelay]

\* (bug) closed_ is not looked at again after onDisconnect.
ReceiveFailsOn ==
    /\ Receiving /\ frames = <<>> /\ ~conn.up
    /\ client' \in AfterCallback(TornDown(client))
    /\ pc' = "backoff"
    /\ Teardown
    /\ UNCHANGED <<startAtHead, head, faults, story>>

\* receive() reports a socket failure: onDisconnect, then the backoff wait.
ReceiveFails ==
    /\ Receiving /\ frames = <<>> /\ ~conn.up
    /\ \E c \in AfterCallback(TornDown(client)), healthy \in BOOLEAN :
        /\ healthy => client.catchupCompleteAt
        /\ client' = IF c.closed THEN c ELSE Backoff(c, healthy)
        /\ pc' = IF c.closed THEN "out" ELSE "backoff"
    /\ Teardown
    /\ UNCHANGED <<startAtHead, head, faults, story>>

\* The wait ends and the pump dials again.
BackoffEnds ==
    /\ pc = "backoff"
    /\ \/ DialOpens /\ UNCHANGED faults /\ pc' = "pump"
       \/ DialFails /\ Fault /\ pc' = "out"
    /\ UNCHANGED <<startAtHead, head, story>>

\* The token cuts the wait short and the call returns.
BackoffCanceled ==
    /\ pc = "backoff"
    /\ pc' = "out"
    /\ UNCHANGED <<startAtHead, client, env, story>>

----------------------------------------------------------------------------
(* handleMessage() *)

Reading(type) == Receiving /\ frames # <<>> /\ Head(frames).type = type

\* If a callback closed the client, the transport is closed too.
Read == IF client'.closed THEN Teardown ELSE frames' = Tail(frames) /\ UNCHANGED conn

ReadCatchup ==
    /\ Reading("catchup")
    /\ client' \in AfterCallback([client EXCEPT !.catchupCompleteAt = TRUE])
    /\ Read
    /\ UNCHANGED <<startAtHead, pc, head, faults, story>>

ReadOther ==
    /\ Reading("other")
    /\ client' \in AfterCallback(client)
    /\ Read
    /\ UNCHANGED <<startAtHead, pc, head, faults, story>>

\* (bug) only a number that comes again is a gap.
GapBackwards(c, sub) == sub # None /\ c.expectedSubSeq # None /\ sub < c.expectedSubSeq

Gap(c, sub) == sub # None /\ c.expectedSubSeq # None /\ sub # c.expectedSubSeq

Expect(c, sub) ==
    [c EXCEPT !.expectedSubSeq = IF sub = None \/ @ = None THEN None ELSE sub + 1]

\* A number is missing: onGap, the socket is dropped, onDisconnect.
ReadGap ==
    /\ Reading("action") /\ Gap(client, Head(frames).sub)
    /\ client' \in AfterCallback(TornDown(client))
    /\ Teardown
    /\ UNCHANGED <<startAtHead, pc, head, faults, story>>

\* No trx_id: onError and on to the next frame; a malformed one: next() fails.
ReadNoTrx ==
    /\ Reading("action") /\ ~Gap(client, Head(frames).sub)
    /\ Head(frames).seq \in NoTrx
    /\ \/ client' \in AfterCallback(Expect(client, Head(frames).sub)) /\ UNCHANGED pc
       \/ client' = Expect(client, Head(frames).sub) /\ pc' = "out"
    /\ Read
    /\ reported' = reported \cup {Head(frames).seq}
    /\ UNCHANGED <<startAtHead, head, faults, delivered, unnoticed>>

\* (bug) the resume position is the accepted action itself.
AcceptSeqItself(c, seq) == [c EXCEPT !.currentSeq = IF seq < @ THEN @ ELSE seq]

AcceptSeq(c, seq) == [c EXCEPT !.currentSeq = IF seq < @ THEN @ ELSE seq + 1]

AckDue(c, seq) ==
    /\ AckInterval > 0
    /\ ~(c.hasAcked /\ seq <= c.lastAcked)
    /\ seq - c.lastAcked >= AckInterval

AckSeq(c, seq) ==
    IF AckDue(c, seq) THEN [c EXCEPT !.lastAcked = seq, !.hasAcked = TRUE] ELSE c

\* The action is accepted, perhaps acknowledged, and returned.
Deliver ==
    /\ Reading("action") /\ ~Gap(client, Head(frames).sub)
    /\ Head(frames).seq \notin NoTrx
    /\ LET f == Head(frames) IN
        /\ client' = AckSeq(AcceptSeq(Expect(client, f.sub), f.seq), f.seq)
        /\ delivered' = Append(delivered, f.seq)
    /\ pc' = "out"
    /\ Read
    /\ UNCHANGED <<startAtHead, head, faults, reported, unnoticed>>

----------------------------------------------------------------------------
Server == Publish \/ SendAction \/ SkipAction \/ SendCatchup \/ SendOther \/ Break

Receive == ReadCatchup \/ ReadOther \/ ReadGap \/ ReadNoTrx \/ Deliver \/ ReceiveFails

Pump == NextCanceled \/ PumpDials \/ ReceiveTimesOut \/ ReceiveTorn
        \/ BackoffEnds \/ BackoffCanceled \/ Receive

Next == Server \/ Connect \/ Close \/ Next_ \/ Pump

Spec == Init /\ [][Next]_vars

\* The chain and the server make progress, a dropped connection is noticed, and
\* the application keeps calling next() and often enough waits for a frame: the
\* calls it cancels or lets time out do not starve the others.
FairSpec ==
    /\ Spec
    /\ WF_vars(Publish) /\ WF_vars(SendAction)
    /\ WF_vars(Next_) /\ WF_vars(PumpDials) /\ WF_vars(BackoffEnds \/ BackoffCanceled)
    /\ SF_vars(Receive)

----------------------------------------------------------------------------
(* Properties *)

Log == INSTANCE StreamLog
         WITH given <- delivered, excused <- reported \cup unnoticed,
              closed <- client.closed

\* The client with its sockets, gaps and retries implements the plain stream of
\* actions: each next() returns what the stream owes next, although a subscription
\* only knows the resume position it was given.
ImplementsLog == Log!Spec

\* Every variable has its type; the backoff never passes reconnectMaxDelay.
TypeOK ==
    /\ startAtHead \in BOOLEAN
    /\ pc \in {"out", "pump", "backoff"}
    /\ client \in Client
    /\ head \in Nat
    /\ conn \in Conn
    /\ frames \in Seq(Frame)
    /\ faults \in 0..MaxFaults
    /\ delivered \in Seq(Stream)
    /\ reported \subseteq Stream
    /\ unnoticed \subseteq Stream

\* next() returns the actions in the order of the chain and each one once,
\* whatever was dropped, skipped, resubscribed or dialled twice on the way.
InOrderOnce == \A i, j \in DOMAIN delivered : i < j => delivered[i] < delivered[j]

\* What a client that starts at the head begins with is its first delivery.
Begun(seq) == IF startAtHead THEN delivered # <<>> /\ delivered[1] <= seq
                             ELSE StartSeq <= seq

\* handleMessage() moves the resume position past an action only when it gave the
\* action to the application, as a result or as an error: gap detection catches
\* every other loss on a socket whose actions are numbered.
NothingPassedOver ==
    \A s \in Stream :
        Begun(s) /\ s < client.currentSeq =>
            s \in ToSet(delivered) \cup reported \cup unnoticed

\* close() is final: no later step of a running next(), of its backoff wait or of
\* a callback leaves a socket open behind a closed client.
ClosedStaysDown == client.closed => ~client.socketLive /\ ~conn.up

\* Every action from startSeq on reaches the application, through reconnects,
\* gaps and torn reads, unless the application closes the client.
AllArrive ==
    \A s \in Stream :
        ~startAtHead /\ StartSeq <= s ~>
            s \in ToSet(delivered) \cup reported \cup unnoticed \/ client.closed

\* types.hpp: "Send an ack every this many delivered actions".
AcksByCount ==
    [][client'.lastAcked # client.lastAcked =>
         Len(SelectSeq(delivered', LAMBDA s : s > client.lastAcked)) = AckInterval]_vars
=============================================================================
