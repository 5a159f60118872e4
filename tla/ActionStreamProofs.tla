------------------------- MODULE ActionStreamProofs -------------------------
(***************************************************************************)
(* Proofs about ActionStream, for any stream, any numbering of the servers *)
(* and any number of faults: its types, that the actions come in order and *)
(* once, that none is passed over, that a closed client stays down, and    *)
(* that the client implements StreamLog step by step.                      *)
(***************************************************************************)
EXTENDS ActionStream, SequenceTheorems, TLAPS

\* The places in frames that hold an action, the actions in flight, and those
\* nobody waits for any more.
Acts == {i \in 1..Len(frames) : frames[i].type = "action"}
Sent == {frames[i] : i \in Acts}
InFlight(s) == \E f \in Sent : f.seq = s
Excused == reported \cup unnoticed

\* A stream that starts at the head owes nothing before its first delivery.
NotBegun == startAtHead /\ delivered = <<>>

\* A closed client has no socket, also where it waits before it dials again.
DownWhenClosed ==
    /\ ClosedStaysDown
    /\ pc = "backoff" => ~client.closed

\* The client resumes where the log goes on, past all it delivered.
Resumes ==
    /\ client.currentSeq = Log!Position
    /\ InOrderOnce

\* Frames come in the order of the chain.
SentInOrder == \A i, j \in Acts : i < j => frames[i].seq < frames[j].seq

\* What is in flight lies between the resume position and where the server goes on.
Ahead ==
    /\ \A f \in Sent : client.currentSeq <= f.seq /\ f.seq <= head
    /\ conn.up => /\ client.currentSeq <= conn.next
                  /\ \A f \in Sent : f.seq < conn.next

\* Of one subscription all actions have numbers or none has, and the client
\* expects one only of a server that numbers them; nobody is ahead of the server.
Numbered ==
    /\ \A f, g \in Sent : f.sub = None => g.sub = None
    /\ client.expectedSubSeq = None => \A f \in Sent : f.sub = None
    /\ conn.up =>
        /\ \A f \in Sent : (f.sub = None) = ~conn.numbered
        /\ client.expectedSubSeq = None => ~conn.numbered
        /\ conn.numbered => /\ client.expectedSubSeq <= conn.sub + 1
                            /\ \A f \in Sent : f.sub <= conn.sub

\* Between two actions in flight nothing is missing: unnumbered it is in flight
\* too or known to be lost, numbered the second one is not the next of the first.
UnbrokenFrames ==
    \A f, g \in Sent, s \in Stream :
        f.seq < s /\ s < g.seq =>
            IF f.sub = None THEN s \in Excused \/ InFlight(s) ELSE g.sub # f.sub + 1

\* Nor between the resume position and an action that is not taken for a gap.
UnbrokenStart ==
    \A f \in Sent, s \in Stream :
        client.currentSeq <= s /\ s < f.seq =>
            \/ NotBegun \/ s \in Excused
            \/ IF f.sub = None THEN InFlight(s) ELSE f.sub # client.expectedSubSeq

\* The same for the action the server sends next.
UnbrokenEnd ==
    conn.up =>
        /\ \A f \in Sent, s \in Stream :
            f.seq < s /\ s < conn.next =>
                IF f.sub = None THEN s \in Excused \/ InFlight(s) ELSE f.sub # conn.sub
        /\ \A s \in Stream :
            client.currentSeq <= s /\ s < conn.next =>
                \/ NotBegun \/ s \in Excused
                \/ IF conn.numbered THEN client.expectedSubSeq # conn.sub + 1 ELSE InFlight(s)

\* What the client and the server know of the actions on their way.
OnTheWay ==
    /\ SentInOrder
    /\ Ahead
    /\ Numbered
    /\ UnbrokenFrames
    /\ UnbrokenStart
    /\ UnbrokenEnd

IInv ==
    /\ TypeOK
    /\ DownWhenClosed
    /\ Resumes
    /\ NothingPassedOver
    /\ OnTheWay

-----------------------------------------------------------------------------
(* Types                                                                   *)

\* The assumption on the constants, in the parts the proofs use.
LEMMA Constants_ ==
  /\ Stream \subseteq Nat /\ StartSeq \in Nat /\ StartSeq > 0
  /\ MaxDelay \in Nat /\ MaxDelay >= 1 /\ MaxFaults \in Nat
  /\ Numberings \subseteq BOOLEAN /\ NoTrx \subseteq Stream
  BY StreamAssumption

\* What handleMessage() and its helpers leave is a client.
LEMMA ClientTypes ==
  ASSUME NEW c \in Client
  PROVE  /\ TornDown(c) \in Client /\ Reset(c) \in Client
         /\ \A d \in AfterCallback(c) : d \in Client
         /\ \A sub \in Nat : Expect(c, sub) \in Client
         /\ \A seq \in Nat : AcceptSeq(c, seq) \in Client /\ AckSeq(c, seq) \in Client
         /\ \A healthy \in BOOLEAN : Backoff(c, healthy) \in Client
<1> USE Constants_
<1>1. TornDown(c) \in Client /\ Reset(c) \in Client
  BY DEF TornDown, Reset, Client
<1>2. \A d \in AfterCallback(c) : d \in Client
  BY DEF TornDown, AfterCallback, Client
<1>3. \A sub \in Nat : Expect(c, sub) \in Client
  BY DEF Expect, Client, None
<1>4. \A seq \in Nat : AcceptSeq(c, seq) \in Client
  BY DEF AcceptSeq, Client
<1>5. \A seq \in Nat : AckSeq(c, seq) \in Client
  BY DEF AckSeq, Client
<1>6. \A healthy \in BOOLEAN : Backoff(c, healthy) \in Client
  BY DEF Backoff, Client
<1> QED
  BY <1>1, <1>2, <1>3, <1>4, <1>5, <1>6

\* Down is a connection and the empty sequence has no frames.
LEMMA DownTypes == Down \in Conn /\ <<>> \in Seq(Frame)
  BY DEF Down, Conn

\* An action has the fields of an action.
LEMMA FrameTypes ==
  ASSUME NEW f \in Frame, f.type = "action"
  PROVE  f.seq \in Stream /\ f.seq \in Nat /\ f.sub \in Nat
  BY Constants_ DEF Frame

\* dial() leaves a client and a connection, whatever becomes of it.
LEMMA DialTypes ==
  ASSUME TypeOK, DialOpens \/ DialFails
  PROVE  client' \in Client /\ conn' \in Conn /\ frames' \in Seq(Frame)
<1>1. client \in Client /\ Reset(client) \in Client
  BY ClientTypes DEF TypeOK
<1>2. CASE DialFails
  BY <1>1, <1>2, DownTypes DEF DialFails, Teardown
<1>3. CASE DialOpens
  <2>1. [Reset(client) EXCEPT !.socketLive = TRUE, !.connected = TRUE] \in Client
    BY <1>1 DEF Client
  <2>2. client' \in Client
    BY <1>3, <2>1, ClientTypes DEF DialOpens
  <2>3. SubscribeFrom(client) \in Nat
    BY <1>1 DEF SubscribeFrom, Client, TypeOK
  <2>4. conn' \in Conn
    BY <1>3, <2>3, DownTypes, Constants_ DEF DialOpens, Conn
  <2> QED
    BY <1>3, <2>2, <2>4, DownTypes DEF DialOpens
<1> QED
  BY <1>2, <1>3

\* Every server step, and every step of the client, leaves well-typed variables.
LEMMA TypeServer ==
  ASSUME TypeOK, Server
  PROVE  TypeOK'
<1> USE Constants_, DownTypes
<1>1. CASE Publish
  BY <1>1 DEF Publish, TypeOK, story
<1>2. CASE SendAction
  <2>1. PICK s \in Owed :
          /\ conn' = [conn EXCEPT !.next = s + 1, !.sub = @ + 1]
          /\ frames' = Append(frames, [type |-> "action", seq |-> s,
                                       sub |-> IF conn.numbered THEN conn.sub + 1 ELSE None])
    BY <1>2 DEF SendAction
  <2>2. s \in Stream /\ s + 1 \in Nat /\ conn.sub + 1 \in Nat
    BY DEF Owed, TypeOK, Conn
  <2>3. [type |-> "action", seq |-> s, sub |-> IF conn.numbered THEN conn.sub + 1 ELSE None] \in Frame
    BY <2>2 DEF Frame, None
  <2>4. frames' \in Seq(Frame)
    BY <2>1, <2>3 DEF TypeOK
  <2>5. conn' \in Conn
    BY <2>1, <2>2 DEF TypeOK, Conn
  <2> QED
    BY <1>2, <2>4, <2>5 DEF SendAction, TypeOK, story
<1>3. CASE SkipAction
  <2>1. PICK s \in Owed :
          /\ conn' = [conn EXCEPT !.next = s + 1, !.sub = @ + 1]
          /\ unnoticed' = IF conn.numbered THEN unnoticed ELSE unnoticed \cup {s}
    BY <1>3 DEF SkipAction
  <2>2. s \in Stream /\ s + 1 \in Nat /\ conn.sub + 1 \in Nat
    BY DEF Owed, TypeOK, Conn
  <2>3. conn' \in Conn /\ unnoticed' \subseteq Stream
    BY <2>1, <2>2 DEF TypeOK, Conn
  <2> QED
    BY <1>3, <2>3 DEF SkipAction, Fault, TypeOK
<1>4. CASE SendCatchup
  <2>1. [type |-> "catchup"] \in Frame
    BY DEF Frame
  <2>2. frames' \in Seq(Frame)
    BY <1>4, <2>1 DEF SendCatchup, TypeOK
  <2>3. conn' \in Conn
    BY <1>4 DEF SendCatchup, TypeOK, Conn
  <2> QED
    BY <1>4, <2>2, <2>3 DEF SendCatchup, TypeOK, story
<1>5. CASE SendOther
  <2>1. [type |-> "other"] \in Frame
    BY DEF Frame
  <2>2. frames' \in Seq(Frame)
    BY <1>5, <2>1 DEF SendOther, TypeOK
  <2> QED
    BY <1>5, <2>2 DEF SendOther, Fault, TypeOK, story
<1>6. CASE Break
  <2>1. PICK n \in 0..Len(frames) : frames' = SubSeq(frames, 1, n)
    BY <1>6 DEF Break
  <2>2. frames' \in Seq(Frame)
    BY <2>1, SubSeqProperties DEF TypeOK
  <2> QED
    BY <1>6, <2>2 DEF Break, Fault, TypeOK, story
<1> QED
  BY <1>1, <1>2, <1>3, <1>4, <1>5, <1>6 DEF Server

\* What reading a frame does to the connection and the frames.
LEMMA ReadTypes ==
  ASSUME TypeOK, Read, frames # <<>>
  PROVE  conn' \in Conn /\ frames' \in Seq(Frame)
<1>1. Tail(frames) \in Seq(Frame)
  BY HeadTailProperties DEF TypeOK
<1> QED
  BY <1>1, DownTypes DEF Read, Teardown, TypeOK

\* What pump() reads as an action is one of the stream.
LEMMA HeadTypes ==
  ASSUME TypeOK, Reading("action")
  PROVE  /\ frames # <<>> /\ Head(frames) \in Frame /\ Head(frames).type = "action"
         /\ Head(frames).seq \in Stream /\ Head(frames).seq \in Nat /\ Head(frames).sub \in Nat
<1>1. frames # <<>> /\ Head(frames) \in Frame /\ Head(frames).type = "action"
  BY HeadTailProperties DEF TypeOK, Reading
<1> QED
  BY <1>1, FrameTypes

\* Every message handleMessage() takes keeps the types.
LEMMA TypeReceive ==
  ASSUME TypeOK, Receive
  PROVE  TypeOK'
<1> USE Constants_, DownTypes
<1>0. client \in Client
  BY DEF TypeOK
<1>1. CASE ReadCatchup
  <2>1. [client EXCEPT !.catchupCompleteAt = TRUE] \in Client
    BY <1>0 DEF Client
  <2>2. client' \in Client
    BY <1>1, <2>1, ClientTypes DEF ReadCatchup
  <2>3. conn' \in Conn /\ frames' \in Seq(Frame)
    BY <1>1, ReadTypes DEF ReadCatchup, Reading
  <2> QED
    BY <1>1, <2>2, <2>3 DEF ReadCatchup, TypeOK, story
<1>2. CASE ReadOther
  <2>1. client' \in Client
    BY <1>0, <1>2, ClientTypes DEF ReadOther
  <2>2. conn' \in Conn /\ frames' \in Seq(Frame)
    BY <1>2, ReadTypes DEF ReadOther, Reading
  <2> QED
    BY <1>2, <2>1, <2>2 DEF ReadOther, TypeOK, story
<1>3. CASE ReadGap
  <2>1. client' \in Client
    BY <1>0, <1>3, ClientTypes DEF ReadGap
  <2> QED
    BY <1>3, <2>1 DEF ReadGap, Teardown, TypeOK, story
<1>4. CASE ReadNoTrx
  <2>1. Reading("action") /\ frames # <<>> /\ Head(frames).sub \in Nat /\ Head(frames).seq \in Stream
    BY <1>4, HeadTypes DEF ReadNoTrx
  <2>2. Expect(client, Head(frames).sub) \in Client
    BY <1>0, <2>1, ClientTypes
  <2>3. client' \in Client
    BY <1>4, <2>2, ClientTypes DEF ReadNoTrx
  <2>4. conn' \in Conn /\ frames' \in Seq(Frame)
    BY <1>4, <2>1, ReadTypes DEF ReadNoTrx
  <2> QED
    BY <1>4, <2>1, <2>3, <2>4 DEF ReadNoTrx, TypeOK
<1>5. CASE Deliver
  <2>1. Reading("action") /\ frames # <<>> /\ Head(frames).sub \in Nat
          /\ Head(frames).seq \in Stream /\ Head(frames).seq \in Nat
    BY <1>5, HeadTypes DEF Deliver
  <2>2. client' \in Client
    BY <1>0, <1>5, <2>1, ClientTypes DEF Deliver
  <2>3. conn' \in Conn /\ frames' \in Seq(Frame)
    BY <1>5, <2>1, ReadTypes DEF Deliver
  <2>4. delivered' \in Seq(Stream)
    BY <1>5, <2>1 DEF Deliver, TypeOK
  <2> QED
    BY <1>5, <2>2, <2>3, <2>4 DEF Deliver, TypeOK
<1>6. CASE ReceiveFails
  <2>1. PICK c \in AfterCallback(TornDown(client)), healthy \in BOOLEAN :
          /\ client' = IF c.closed THEN c ELSE Backoff(c, healthy)
          /\ pc' = IF c.closed THEN "out" ELSE "backoff"
    BY <1>6 DEF ReceiveFails
  <2>2. c \in Client
    BY <1>0, ClientTypes
  <2>3. client' \in Client
    BY <2>1, <2>2, ClientTypes
  <2> QED
    BY <1>6, <2>1, <2>3 DEF ReceiveFails, Teardown, TypeOK, story
<1> QED
  BY <1>1, <1>2, <1>3, <1>4, <1>5, <1>6 DEF Receive

\* connect, close, next and pump keep the types.
LEMMA TypeClient ==
  ASSUME TypeOK, Connect \/ Close \/ Next_ \/ Pump
  PROVE  TypeOK'
<1> USE Constants_, DownTypes
<1>1. CASE Connect
  BY <1>1, DialTypes DEF Connect, Fault, TypeOK, story
<1>2. CASE Close
  <2>1. [TornDown(client) EXCEPT !.closed = TRUE] \in Client
    BY DEF TypeOK, Client, TornDown
  <2> QED
    BY <1>2, <2>1 DEF Close, Teardown, TypeOK, story
<1>3. CASE Next_ \/ NextCanceled \/ ReceiveTimesOut \/ BackoffCanceled
  BY <1>3 DEF Next_, NextCanceled, ReceiveTimesOut, BackoffCanceled, TypeOK, story, env
<1>4. CASE PumpDials
  <2>1. CASE client.connected
    BY <1>4, <2>1 DEF PumpDials, TypeOK, story
  <2>2. CASE ~client.connected
    <3>1. client' \in Client /\ conn' \in Conn /\ frames' \in Seq(Frame)
      BY <1>4, <2>2, DialTypes DEF PumpDials
    <3> QED
      BY <1>4, <2>2, <3>1 DEF PumpDials, Fault, TypeOK, story
  <2> QED
    BY <2>1, <2>2
<1>5. CASE ReceiveTorn
  <2>1. frames # <<>> /\ frames \in Seq(Frame) /\ 1 \in 1..Len(frames)
    BY <1>5 DEF ReceiveTorn, TypeOK
  <2>2. [type |-> "other"] \in Frame
    BY DEF Frame
  <2>3. frames' \in Seq(Frame)
    BY <1>5, <2>1, <2>2, ExceptSeq DEF ReceiveTorn
  <2>4. Head(frames).type = "action" => Head(frames).seq \in Stream
    BY <2>1, HeadTailProperties, FrameTypes
  <2>5. unnoticed' = unnoticed \/ (Head(frames).type = "action" /\ unnoticed' = unnoticed \cup {Head(frames).seq})
    BY <1>5 DEF ReceiveTorn
  <2>6. unnoticed' \subseteq Stream
    BY <2>4, <2>5 DEF TypeOK
  <2>7. faults' \in 0..MaxFaults
    BY <1>5 DEF ReceiveTorn, Fault, TypeOK
  <2> QED
    BY <1>5, <2>3, <2>6, <2>7 DEF ReceiveTorn, TypeOK
<1>6. CASE BackoffEnds
  <2>1. client' \in Client /\ conn' \in Conn /\ frames' \in Seq(Frame)
    BY <1>6, DialTypes DEF BackoffEnds
  <2> QED
    BY <1>6, <2>1 DEF BackoffEnds, Fault, TypeOK, story
<1>7. CASE Receive
  BY <1>7, TypeReceive
<1> QED
  BY <1>1, <1>2, <1>3, <1>4, <1>5, <1>6, <1>7 DEF Pump

\* Every step keeps the types.
LEMMA TypeNext == TypeOK /\ [Next]_vars => TypeOK'
<1> SUFFICES ASSUME TypeOK, [Next]_vars PROVE TypeOK'
  OBVIOUS
<1>1. CASE UNCHANGED vars
  BY <1>1 DEF vars, env, story, TypeOK
<1>2. CASE Next
  BY <1>2, TypeServer, TypeClient DEF Next
<1> QED
  BY <1>1, <1>2

\* A client that was constructed, before connect().
LEMMA TypeInit == Init => TypeOK
  BY Constants_, DownTypes DEF Init, TypeOK, Client

\* Every variable has its type; the backoff stays within reconnectMaxDelay
\* (client.cpp:131).
THEOREM TypeCorrect == Spec => []TypeOK
  BY TypeInit, TypeNext, PTL DEF Spec

-----------------------------------------------------------------------------
(* What is in flight when the frames change                                *)

\* What an action in flight is.
LEMMA SentTypes ==
  ASSUME TypeOK
  PROVE  \A f \in Sent : /\ f \in Frame /\ f.type = "action"
                         /\ f.seq \in Stream /\ f.seq \in Nat /\ f.sub \in Nat
<1> SUFFICES ASSUME NEW f \in Sent
             PROVE  /\ f \in Frame /\ f.type = "action"
                    /\ f.seq \in Stream /\ f.seq \in Nat /\ f.sub \in Nat
  OBVIOUS
<1>1. f \in Frame /\ f.type = "action"
  BY ElementOfSeq DEF Sent, Acts, TypeOK
<1> QED
  BY <1>1, FrameTypes

\* No frames, no actions.
LEMMA SentEmpty == frames = <<>> => Acts = {} /\ Sent = {}
  BY EmptySeq DEF Acts, Sent

\* One frame more.
LEMMA SentAppend ==
  ASSUME TypeOK, SentInOrder, NEW f \in Frame, frames' = Append(frames, f),
         f.type = "action" => \A g \in Sent : g.seq < f.seq
  PROVE  /\ \A g \in Sent : g \in Sent'
         /\ \A g \in Sent' : g \in Sent \/ (g = f /\ f.type = "action")
         /\ f.type = "action" => f \in Sent'
         /\ SentInOrder'
<1>1. frames \in Seq(Frame) /\ Len(frames) \in Nat
  BY LenProperties DEF TypeOK
<1>2. /\ Len(frames') = Len(frames) + 1
      /\ \A i \in 1..Len(frames) : frames'[i] = frames[i]
      /\ frames'[Len(frames) + 1] = f
  BY <1>1, AppendProperties
<1> DEFINE n == Len(frames)
<1>3. \A i : i \in Acts' <=> (i \in Acts \/ (i = n + 1 /\ f.type = "action"))
  BY <1>1, <1>2 DEF Acts
<1>4. \A i \in Acts : i \in 1..n /\ frames'[i] = frames[i] /\ frames[i] \in Sent
  BY <1>2 DEF Acts, Sent
<1>5. ASSUME NEW i \in Acts', NEW j \in Acts', i < j
      PROVE  frames'[i].seq < frames'[j].seq
  <2>1. i \in Acts
    BY <1>1, <1>3, <1>4, <1>5
  <2>2. CASE j \in Acts
    BY <1>4, <1>5, <2>1, <2>2 DEF SentInOrder
  <2>3. CASE j = n + 1 /\ f.type = "action"
    BY <1>2, <1>4, <2>1, <2>3
  <2> QED
    BY <1>3, <2>2, <2>3
<1>6. SentInOrder'
  BY <1>5 DEF SentInOrder
<1>7. \A g \in Sent : g \in Sent'
  BY <1>3, <1>4 DEF Sent
<1>8. \A g \in Sent' : g \in Sent \/ (g = f /\ f.type = "action")
  BY <1>2, <1>3, <1>4 DEF Sent
<1>9. f.type = "action" => f \in Sent'
  BY <1>2, <1>3 DEF Sent
<1> QED
  BY <1>6, <1>7, <1>8, <1>9

\* The first frame is read or torn: of the actions at most it is gone, and it is
\* the first of them.
HeadGone ==
    /\ \A g \in Sent' : g \in Sent
    /\ \A g \in Sent : g \in Sent' \/ (g = Head(frames) /\ Head(frames).type = "action")
    /\ Head(frames).type = "action" =>
        /\ Head(frames) \in Sent
        /\ \A g \in Sent' : Head(frames).seq < g.seq
    /\ SentInOrder'

\* Reading the first frame leaves the others in flight, in their order.
LEMMA SentTail ==
  ASSUME TypeOK, SentInOrder, frames # <<>>, frames' = Tail(frames)
  PROVE  HeadGone
<1>1. /\ frames \in Seq(Frame) /\ Len(frames) \in Nat /\ Len(frames) >= 1
      /\ Head(frames) = frames[1]
  BY LenProperties, EmptySeq DEF TypeOK
<1>2. /\ Len(frames') = Len(frames) - 1
      /\ \A i \in 1..Len(frames') : frames'[i] = frames[i + 1]
  BY <1>1, HeadTailProperties
<1>3. \A i \in Acts' : i \in Nat /\ i >= 1 /\ i + 1 \in Acts /\ frames'[i] = frames[i + 1]
  BY <1>1, <1>2 DEF Acts
<1>4. \A i \in Acts : i = 1 \/ (i - 1 \in Acts' /\ frames'[i - 1] = frames[i])
  <2> SUFFICES ASSUME NEW i \in Acts, i # 1 PROVE i - 1 \in Acts' /\ frames'[i - 1] = frames[i]
    OBVIOUS
  <2>1. i - 1 \in 1..Len(frames') /\ (i - 1) + 1 = i
    BY <1>1, <1>2 DEF Acts
  <2> QED
    BY <1>2, <2>1 DEF Acts
<1>5. ASSUME NEW i \in Acts', NEW j \in Acts', i < j
      PROVE  frames'[i].seq < frames'[j].seq
  <2>1. i + 1 \in Acts /\ j + 1 \in Acts /\ i + 1 < j + 1
    BY <1>3, <1>5
  <2>2. frames[i + 1].seq < frames[j + 1].seq
    BY <2>1 DEF SentInOrder
  <2> QED
    BY <1>3, <2>2
<1>6. \A g \in Sent' : g \in Sent
  BY <1>3 DEF Sent
<1>7. \A g \in Sent : g \in Sent' \/ (g = Head(frames) /\ Head(frames).type = "action")
  BY <1>1, <1>4 DEF Sent, Acts
<1>8. Head(frames).type = "action" => 1 \in Acts /\ Head(frames) \in Sent
  BY <1>1 DEF Acts, Sent
<1>9. ASSUME Head(frames).type = "action", NEW g \in Sent'
      PROVE  Head(frames).seq < g.seq
  <2>1. PICK i \in Acts' : g = frames'[i]
    BY DEF Sent
  <2>2. i \in Nat /\ i >= 1 /\ i + 1 \in Acts /\ frames'[i] = frames[i + 1]
    BY <1>3
  <2>3. 1 < i + 1
    BY <2>2
  <2>4. frames[1].seq < frames[i + 1].seq
    BY <1>8, <1>9, <2>2, <2>3 DEF SentInOrder
  <2> QED
    BY <1>1, <2>1, <2>2, <2>4
<1>10. SentInOrder'
  BY <1>5 DEF SentInOrder
<1> QED
  BY <1>6, <1>7, <1>8, <1>9, <1>10 DEF HeadGone

\* An action half read by a receive() that gave up is no action any more; the others stay.
\* A frame that arrives torn is no action any more; the others stay.
LEMMA SentTorn ==
  ASSUME TypeOK, SentInOrder, frames # <<>>, frames' = [frames EXCEPT ![1] = [type |-> "other"]]
  PROVE  HeadGone
<1>1. /\ frames \in Seq(Frame) /\ Len(frames) \in Nat /\ Len(frames) >= 1
      /\ Head(frames) = frames[1] /\ [type |-> "other"] \in Frame
  BY LenProperties, EmptySeq DEF TypeOK, Frame
<1>2. /\ Len(frames') = Len(frames)
      /\ \A i \in 1..Len(frames) : frames'[i] = IF i = 1 THEN [type |-> "other"] ELSE frames[i]
  BY <1>1, ExceptSeq
<1>3. \A i \in Acts' : i # 1 /\ i \in Acts /\ frames'[i] = frames[i]
  BY <1>1, <1>2 DEF Acts
<1>4. \A i \in Acts : i = 1 \/ (i \in Acts' /\ frames'[i] = frames[i])
  BY <1>1, <1>2 DEF Acts
<1>5. SentInOrder'
  BY <1>3 DEF SentInOrder
<1>6. \A g \in Sent' : g \in Sent
  BY <1>3 DEF Sent
<1>7. \A g \in Sent : g \in Sent' \/ (g = Head(frames) /\ Head(frames).type = "action")
  BY <1>1, <1>4 DEF Sent, Acts
<1>8. Head(frames).type = "action" => 1 \in Acts /\ Head(frames) \in Sent
  BY <1>1 DEF Acts, Sent
<1>9. ASSUME Head(frames).type = "action", NEW g \in Sent'
      PROVE  Head(frames).seq < g.seq
  <2>1. PICK i \in Acts' : g = frames'[i]
    BY DEF Sent
  <2>2. i \in Acts /\ 1 < i /\ g = frames[i]
    BY <1>3, <2>1 DEF Acts
  <2> QED
    BY <1>1, <1>8, <1>9, <2>2 DEF SentInOrder
<1> QED
  BY <1>5, <1>6, <1>7, <1>8, <1>9 DEF HeadGone

\* A prefix of the frames: what is before an action that is left is left too.
LEMMA SentPrefix ==
  ASSUME TypeOK, SentInOrder, NEW n \in 0..Len(frames), frames' = SubSeq(frames, 1, n)
  PROVE  /\ \A g \in Sent' : g \in Sent
         /\ \A f \in Sent', g \in Sent : g.seq < f.seq => g \in Sent'
         /\ SentInOrder'
<1>1. frames \in Seq(Frame) /\ Len(frames) \in Nat /\ n \in Nat
  BY LenProperties DEF TypeOK
<1>2. /\ Len(frames') = n
      /\ \A i \in 1..n : frames'[i] = frames[i]
  BY <1>1, SubSeqProperties, ElementOfSeq
<1>3. \A i : i \in Acts' <=> i \in Acts /\ i <= n
  BY <1>1, <1>2 DEF Acts
<1>4. \A i \in Acts' : frames'[i] = frames[i]
  BY <1>2 DEF Acts
<1>5. SentInOrder'
  BY <1>3, <1>4 DEF SentInOrder
<1>6. \A g \in Sent' : g \in Sent
  BY <1>3, <1>4 DEF Sent
<1>7. ASSUME NEW f \in Sent', NEW g \in Sent, g.seq < f.seq
      PROVE  g \in Sent'
  <2>1. PICK i \in Acts' : f = frames'[i]
    BY DEF Sent
  <2>2. PICK j \in Acts : g = frames[j]
    BY DEF Sent
  <2>3. i \in Acts /\ i <= n /\ f = frames[i] /\ f \in Sent
    BY <1>3, <1>4, <2>1 DEF Sent
  <2>4. i \in Nat /\ j \in Nat /\ f.seq \in Nat /\ g.seq \in Nat
    BY <2>2, <2>3, SentTypes DEF Acts
  <2>5. j <= n
    <3> SUFFICES ASSUME ~(j <= n) PROVE FALSE
      OBVIOUS
    <3>1. i < j
      BY <1>1, <2>3, <2>4
    <3>2. frames[i].seq < frames[j].seq
      BY <2>2, <2>3, <3>1 DEF SentInOrder
    <3> QED
      BY <1>7, <2>2, <2>3, <2>4, <3>2
  <2>6. j \in Acts' /\ g = frames'[j]
    BY <1>3, <1>4, <2>2, <2>5
  <2> QED
    BY <2>6 DEF Sent
<1> QED
  BY <1>5, <1>6, <1>7

-----------------------------------------------------------------------------
(* The actions on their way, one kind of step after the other              *)

\* What the server and the client count.
LEMMA CountTypes ==
  ASSUME TypeOK
  PROVE  /\ client.currentSeq \in Nat /\ client.expectedSubSeq \in Nat
         /\ conn.next \in Nat /\ conn.sub \in Nat /\ conn.numbered \in BOOLEAN
         /\ conn.up \in BOOLEAN /\ head \in Nat
  BY DEF TypeOK, Client, Conn

\* The same frames hold the same actions.
LEMMA SentSame == frames' = frames => Sent' = Sent /\ (SentInOrder' <=> SentInOrder)
  BY DEF Sent, Acts, SentInOrder

\* Nothing that matters to the actions on their way changes, but the chain and
\* what is excused may have grown.
LEMMA WayStays ==
  ASSUME TypeOK, OnTheWay, SentInOrder', Sent' = Sent,
         client'.currentSeq = client.currentSeq,
         client'.expectedSubSeq = client.expectedSubSeq,
         conn'.up = conn.up, conn'.next = conn.next, conn'.sub = conn.sub,
         conn'.numbered = conn.numbered,
         head' \in Nat, head <= head', Excused \subseteq Excused', NotBegun' = NotBegun
  PROVE  OnTheWay'
<1>1. Ahead'
  BY SentTypes, CountTypes DEF OnTheWay, Ahead
<1>2. Numbered'
  BY DEF OnTheWay, Numbered
<1>3. UnbrokenFrames'
  BY DEF OnTheWay, UnbrokenFrames, InFlight
<1>4. UnbrokenStart'
  BY DEF OnTheWay, UnbrokenStart, InFlight
<1>5. UnbrokenEnd'
  BY DEF OnTheWay, UnbrokenEnd, InFlight
<1> QED
  BY <1>1, <1>2, <1>3, <1>4, <1>5 DEF OnTheWay

\* After a teardown nothing is on its way.
LEMMA WayEmpty ==
  ASSUME frames' = <<>>, ~conn'.up
  PROVE  OnTheWay'
<1>1. Acts' = {} /\ Sent' = {}
  BY EmptySeq DEF Acts, Sent
<1> QED
  BY <1>1 DEF OnTheWay, SentInOrder, Ahead, Numbered, UnbrokenFrames, UnbrokenStart, UnbrokenEnd

\* The connection breaks (SentPrefix says what is left).
LEMMA WayBreaks ==
  ASSUME TypeOK, OnTheWay, Break
  PROVE  OnTheWay'
<1>1. PICK n \in 0..Len(frames) : frames' = SubSeq(frames, 1, n)
  BY DEF Break
<1>2. /\ \A g \in Sent' : g \in Sent
      /\ \A f \in Sent', g \in Sent : g.seq < f.seq => g \in Sent'
      /\ SentInOrder'
  BY <1>1, SentPrefix DEF OnTheWay
<1>3. client' = client /\ head' = head /\ ~conn'.up /\ Excused' = Excused /\ NotBegun' = NotBegun
  BY DEF Break, Down, story, Excused, NotBegun
<1>4. Ahead'
  BY <1>2, <1>3 DEF OnTheWay, Ahead
<1>5. Numbered'
  BY <1>2, <1>3 DEF OnTheWay, Numbered
<1>6. UnbrokenFrames'
  BY <1>2, <1>3 DEF OnTheWay, UnbrokenFrames, InFlight
<1>7. UnbrokenStart'
  BY <1>2, <1>3 DEF OnTheWay, UnbrokenStart, InFlight
<1>8. UnbrokenEnd'
  BY <1>3 DEF UnbrokenEnd
<1> QED
  BY <1>2, <1>4, <1>5, <1>6, <1>7, <1>8 DEF OnTheWay

\* A client that resumes at 0 has not begun: it asks for what comes at the head.
LEMMA ZeroNotBegun ==
  ASSUME TypeOK, Resumes, client.currentSeq = 0
  PROVE  NotBegun
<1>1. CASE delivered # <<>>
  <2>1. delivered \in Seq(Stream) /\ Len(delivered) \in Nat /\ Len(delivered) # 0
    BY <1>1, EmptySeq, LenProperties DEF TypeOK
  <2>2. delivered[Len(delivered)] \in Nat
    <3>1. delivered[Len(delivered)] \in Stream
      BY <2>1, ElementOfSeq
    <3> QED
      BY <3>1, Constants_
  <2>3. client.currentSeq = delivered[Len(delivered)] + 1
    BY <1>1 DEF Resumes, Log!Position
  <2> QED
    BY <2>2, <2>3
<1>2. CASE delivered = <<>>
  BY <1>2, Constants_ DEF Resumes, Log!Position, NotBegun, TypeOK
<1> QED
  BY <1>1, <1>2

\* dial() opens a socket: the subscription goes on at the resume position.
LEMMA WayOpens ==
  ASSUME TypeOK, Resumes, DialOpens, UNCHANGED <<head, startAtHead, delivered>>
  PROVE  OnTheWay'
<1>1. Acts' = {} /\ Sent' = {}
  BY EmptySeq DEF DialOpens, Acts, Sent
<1>2. client'.currentSeq = client.currentSeq /\ client'.expectedSubSeq = 1
  BY DEF DialOpens, AfterCallback, TornDown, Reset, TypeOK, Client
<1>3. CASE ~conn'.up
  BY <1>3, WayEmpty DEF DialOpens
<1>4. CASE conn'.up
  <2>1. conn'.next = SubscribeFrom(client) /\ conn'.sub = 0
    BY <1>4 DEF DialOpens, Down
  <2>2. client.currentSeq <= conn'.next
    BY <2>1, CountTypes DEF SubscribeFrom
  <2>3. \A s \in Stream : ~(client.currentSeq <= s /\ s < conn'.next) \/ NotBegun'
    <3>1. client.currentSeq > 0 => conn'.next = client.currentSeq
      BY <2>1 DEF SubscribeFrom
    <3>2. client.currentSeq = 0 => NotBegun'
      BY ZeroNotBegun DEF NotBegun
    <3> QED
      BY <3>1, <3>2, CountTypes, Constants_
  <2>4. Ahead'
    BY <1>1, <1>2, <2>2 DEF Ahead
  <2>5. Numbered'
    BY <1>1, <1>2, <2>1 DEF Numbered, None
  <2>6. UnbrokenEnd'
    BY <1>1, <1>2, <2>3 DEF UnbrokenEnd
  <2> QED
    BY <1>1, <2>4, <2>5, <2>6 DEF OnTheWay, SentInOrder, UnbrokenFrames, UnbrokenStart
<1> QED
  BY <1>3, <1>4

\* The next action goes out, with the next number.
LEMMA WaySends ==
  ASSUME TypeOK, OnTheWay, SendAction
  PROVE  OnTheWay'
<1>1. PICK s \in Owed :
        /\ \A t \in Owed : s <= t
        /\ conn' = [conn EXCEPT !.next = s + 1, !.sub = @ + 1]
        /\ frames' = Append(frames, [type |-> "action", seq |-> s,
                                     sub |-> IF conn.numbered THEN conn.sub + 1 ELSE None])
  BY DEF SendAction
<1> DEFINE f == [type |-> "action", seq |-> s,
                 sub |-> IF conn.numbered THEN conn.sub + 1 ELSE None]
<1>2. /\ conn.up /\ conn'.up /\ conn'.next = s + 1 /\ conn'.sub = conn.sub + 1
      /\ conn'.numbered = conn.numbered
      /\ client' = client /\ head' = head /\ Excused' = Excused /\ NotBegun' = NotBegun
  BY <1>1 DEF SendAction, TypeOK, Conn, story, Excused, NotBegun
<1>3. s \in Stream /\ s \in Nat /\ conn.next <= s /\ s <= head
  BY <1>1, Constants_ DEF Owed
<1>4. f \in Frame /\ f.type = "action" /\ f.seq = s
  BY <1>3, CountTypes DEF Frame, None
<1>5. f.sub = IF conn.numbered THEN conn.sub + 1 ELSE 0
  BY DEF None
<1>6. \A g \in Sent : g.seq < s /\ g.seq \in Nat /\ g.sub \in Nat
  BY <1>2, <1>3, SentTypes, CountTypes DEF OnTheWay, Ahead
<1>7. /\ \A g \in Sent : g \in Sent'
      /\ \A g \in Sent' : g \in Sent \/ g = f
      /\ f \in Sent'
      /\ SentInOrder'
  BY <1>1, <1>4, <1>6, SentAppend DEF OnTheWay
<1>8. \A t \in Stream : t < s => t < conn.next
  <2> SUFFICES ASSUME NEW t \in Stream, t < s PROVE t < conn.next
    OBVIOUS
  <2>1. t \in Nat /\ conn.next \in Nat /\ head \in Nat
    BY Constants_, CountTypes
  <2>2. t \notin Owed
    BY <1>1, <1>3, <2>1
  <2>3. ~(conn.next <= t /\ t <= head)
    BY <2>2 DEF Owed
  <2> QED
    BY <1>3, <2>1, <2>3
<1>9. \A t : InFlight(t) => InFlight(t)'
  BY <1>7 DEF InFlight
<1>10. InFlight(s)'
  BY <1>4, <1>7 DEF InFlight
<1> HIDE DEF f
<1> USE CountTypes, Constants_
<1>11. Ahead'
  <2>1. client.currentSeq <= s
    BY <1>2, <1>3 DEF OnTheWay, Ahead
  <2> QED
    BY <1>2, <1>3, <1>4, <1>6, <1>7, <2>1 DEF OnTheWay, Ahead
<1>12. Numbered'
  <2>1. \A g \in Sent' : (g.sub = None) = ~conn.numbered
    BY <1>2, <1>5, <1>7 DEF OnTheWay, Numbered, None
  <2>2. conn.numbered => \A g \in Sent' : g.sub <= conn.sub + 1
    BY <1>2, <1>5, <1>6, <1>7 DEF OnTheWay, Numbered
  <2> QED
    BY <1>2, <2>1, <2>2 DEF OnTheWay, Numbered
<1>13. UnbrokenFrames'
  <2> SUFFICES ASSUME NEW a \in Sent', NEW b \in Sent', NEW t \in Stream, a.seq < t, t < b.seq
               PROVE  IF a.sub = None THEN t \in Excused \/ InFlight(t)' ELSE b.sub # a.sub + 1
    BY <1>2 DEF UnbrokenFrames
  <2>1. CASE a \in Sent /\ b \in Sent
    BY <1>9, <2>1 DEF OnTheWay, UnbrokenFrames
  <2>2. CASE a \in Sent /\ b = f
    <3>1. t < conn.next
      BY <1>4, <1>8, <2>2
    <3>2. IF a.sub = None THEN t \in Excused \/ InFlight(t) ELSE a.sub # conn.sub
      BY <1>2, <2>2, <3>1 DEF OnTheWay, UnbrokenEnd
    <3>3. a.sub # None => conn.numbered
      BY <1>2, <2>2 DEF OnTheWay, Numbered
    <3>4. a.sub # None => b.sub = conn.sub + 1
      BY <1>5, <2>2, <3>3
    <3> QED
      BY <1>6, <1>9, <2>2, <3>2, <3>4
  <2>3. CASE a = f
    BY <1>4, <1>6, <1>7, <2>3, <1>3
  <2> QED
    BY <1>7, <2>1, <2>2, <2>3
<1>14. UnbrokenStart'
  <2> SUFFICES ASSUME NEW b \in Sent', NEW t \in Stream, client.currentSeq <= t, t < b.seq
               PROVE  \/ NotBegun \/ t \in Excused
                      \/ IF b.sub = None THEN InFlight(t)' ELSE b.sub # client.expectedSubSeq
    BY <1>2 DEF UnbrokenStart
  <2>1. CASE b \in Sent
    BY <1>9, <2>1 DEF OnTheWay, UnbrokenStart
  <2>2. CASE b = f
    <3>1. t < conn.next
      BY <1>4, <1>8, <2>2
    <3>2. \/ NotBegun \/ t \in Excused
          \/ IF conn.numbered THEN client.expectedSubSeq # conn.sub + 1 ELSE InFlight(t)
      BY <1>2, <3>1 DEF OnTheWay, UnbrokenEnd
    <3> QED
      BY <1>5, <1>9, <2>2, <3>2 DEF None
  <2> QED
    BY <1>7, <2>1, <2>2
<1>15. UnbrokenEnd'
  <2>1. ASSUME NEW a \in Sent', NEW t \in Stream, a.seq < t, t < s + 1
        PROVE  IF a.sub = None THEN t \in Excused \/ InFlight(t)' ELSE a.sub # conn.sub + 1
    <3>1. a \in Sent
      BY <1>3, <1>4, <1>7, <2>1
    <3>2. a.sub # None => a.sub <= conn.sub
      BY <1>2, <3>1 DEF OnTheWay, Numbered
    <3>3. CASE t = s
      BY <1>6, <1>10, <3>1, <3>2, <3>3
    <3>4. CASE t < s
      <4>1. t < conn.next
        BY <1>8, <3>4
      <4>2. a.sub = None => t \in Excused \/ InFlight(t)
        BY <1>2, <2>1, <3>1, <4>1 DEF OnTheWay, UnbrokenEnd
      <4> QED
        BY <1>6, <1>9, <3>1, <3>2, <4>2
    <3> QED
      BY <1>3, <2>1, <3>3, <3>4
  <2>2. ASSUME NEW t \in Stream, client.currentSeq <= t, t < s + 1
        PROVE  \/ NotBegun \/ t \in Excused
               \/ IF conn.numbered THEN client.expectedSubSeq # (conn.sub + 1) + 1 ELSE InFlight(t)'
    <3>1. conn.numbered => client.expectedSubSeq <= conn.sub + 1
      BY <1>2 DEF OnTheWay, Numbered
    <3>2. CASE t = s
      BY <1>10, <3>1, <3>2
    <3>3. CASE t < s
      <4>1. t < conn.next
        BY <1>8, <3>3
      <4>2. \/ NotBegun \/ t \in Excused
            \/ IF conn.numbered THEN client.expectedSubSeq # conn.sub + 1 ELSE InFlight(t)
        BY <1>2, <2>2, <4>1 DEF OnTheWay, UnbrokenEnd
      <4> QED
        BY <1>9, <3>1, <4>2
    <3> QED
      BY <1>3, <2>2, <3>2, <3>3
  <2> QED
    BY <1>2, <2>1, <2>2 DEF UnbrokenEnd
<1> QED
  BY <1>7, <1>11, <1>12, <1>13, <1>14, <1>15 DEF OnTheWay

\* The server gives one action up: with numbers it leaves a hole, without them
\* nobody can notice.
LEMMA WaySkips ==
  ASSUME TypeOK, OnTheWay, SkipAction
  PROVE  OnTheWay'
<1>1. PICK s \in Owed :
        /\ \A t \in Owed : s <= t
        /\ conn' = [conn EXCEPT !.next = s + 1, !.sub = @ + 1]
        /\ unnoticed' = IF conn.numbered THEN unnoticed ELSE unnoticed \cup {s}
  BY DEF SkipAction
<1>2. /\ conn.up /\ conn'.up /\ conn'.next = s + 1 /\ conn'.sub = conn.sub + 1
      /\ conn'.numbered = conn.numbered
      /\ client' = client /\ head' = head /\ NotBegun' = NotBegun
  BY <1>1 DEF SkipAction, TypeOK, Conn, NotBegun
<1>3. s \in Stream /\ s \in Nat /\ conn.next <= s /\ s <= head
  BY <1>1, Constants_ DEF Owed
<1>4. Excused \subseteq Excused' /\ (~conn.numbered => s \in Excused')
  BY <1>1 DEF SkipAction, Excused
<1>5. Sent' = Sent /\ SentInOrder'
  BY SentSame DEF SkipAction, OnTheWay
<1>6. \A t \in Stream : t < s => t < conn.next
  <2> SUFFICES ASSUME NEW t \in Stream, t < s PROVE t < conn.next
    OBVIOUS
  <2>1. t \in Nat /\ conn.next \in Nat /\ head \in Nat
    BY Constants_, CountTypes
  <2>2. t \notin Owed
    BY <1>1, <1>3, <2>1
  <2>3. ~(conn.next <= t /\ t <= head)
    BY <2>2 DEF Owed
  <2> QED
    BY <1>3, <2>1, <2>3
<1>7. \A t : InFlight(t) <=> InFlight(t)'
  BY <1>5 DEF InFlight
<1> USE CountTypes, Constants_, SentTypes
<1>8. Ahead'
  BY <1>2, <1>3, <1>5 DEF OnTheWay, Ahead
<1>9. Numbered'
  BY <1>2, <1>5 DEF OnTheWay, Numbered
<1>10. UnbrokenFrames'
  BY <1>4, <1>5, <1>7 DEF OnTheWay, UnbrokenFrames
<1>11. UnbrokenStart'
  BY <1>2, <1>4, <1>5, <1>7 DEF OnTheWay, UnbrokenStart
<1>12. UnbrokenEnd'
  <2>1. ASSUME NEW a \in Sent, NEW t \in Stream, a.seq < t, t < s + 1
        PROVE  IF a.sub = None THEN t \in Excused' \/ InFlight(t) ELSE a.sub # conn.sub + 1
    <3>1. (a.sub = None) = ~conn.numbered /\ (a.sub # None => a.sub <= conn.sub)
      BY <1>2 DEF OnTheWay, Numbered
    <3>2. t < s /\ a.sub = None => t \in Excused \/ InFlight(t)
      BY <1>2, <1>6, <2>1 DEF OnTheWay, UnbrokenEnd
    <3>3. t = s \/ t < s
      BY <1>3, <2>1
    <3> QED
      BY <1>4, <3>1, <3>2, <3>3
  <2>2. ASSUME NEW t \in Stream, client.currentSeq <= t, t < s + 1
        PROVE  \/ NotBegun \/ t \in Excused'
               \/ IF conn.numbered THEN client.expectedSubSeq # (conn.sub + 1) + 1 ELSE InFlight(t)
    <3>1. conn.numbered => client.expectedSubSeq <= conn.sub + 1
      BY <1>2 DEF OnTheWay, Numbered
    <3>2. t < s => \/ NotBegun \/ t \in Excused
                   \/ IF conn.numbered THEN client.expectedSubSeq # conn.sub + 1 ELSE InFlight(t)
      BY <1>2, <1>6, <2>2 DEF OnTheWay, UnbrokenEnd
    <3>3. t = s \/ t < s
      BY <1>3, <2>2
    <3> QED
      BY <1>4, <3>1, <3>2, <3>3
  <2> QED
    BY <1>2, <1>5, <1>7, <2>1, <2>2 DEF UnbrokenEnd
<1> QED
  BY <1>5, <1>8, <1>9, <1>10, <1>11, <1>12 DEF OnTheWay

\* The client accepts the action at the head of the frames (no gap): all before it
\* was given or excused, for its number, or none at all, says that nothing is missing.
LEMMA HeadFits ==
  ASSUME TypeOK, OnTheWay, Head(frames) \in Sent, HeadGone, Head(frames).type = "action",
         ~Gap(client, Head(frames).sub)
  PROVE  \A s \in Stream : client.currentSeq <= s /\ s < Head(frames).seq =>
            NotBegun \/ s \in Excused
<1> DEFINE h == Head(frames)
<1> SUFFICES ASSUME NEW s \in Stream, client.currentSeq <= s, s < h.seq
             PROVE  NotBegun \/ s \in Excused
  OBVIOUS
<1>1. \/ NotBegun \/ s \in Excused
      \/ IF h.sub = None THEN InFlight(s) ELSE h.sub # client.expectedSubSeq
  BY DEF OnTheWay, UnbrokenStart
<1>2. h.sub # None => h.sub = client.expectedSubSeq
  BY DEF Gap, OnTheWay, Numbered
<1>3. ASSUME InFlight(s) PROVE FALSE
  <2>1. PICK k \in Sent : k.seq = s
    BY <1>3 DEF InFlight
  <2>2. k = h \/ h.seq < k.seq
    BY <2>1 DEF HeadGone
  <2> QED
    BY <2>1, <2>2, SentTypes, Constants_
<1> QED
  BY <1>1, <1>2, <1>3

\* What is left in flight after the head is past the head.
LEMMA StillInFlight ==
  ASSUME TypeOK, HeadGone, Head(frames).type = "action"
  PROVE  \A s \in Stream : InFlight(s) => InFlight(s)' \/ s = Head(frames).seq
  BY DEF HeadGone, InFlight

\* An action is torn: its number is missing from now on, and without numbers it is
\* lost unnoticed.
LEMMA WayTorn ==
  ASSUME TypeOK, OnTheWay, HeadGone, Head(frames).type = "action",
         UNCHANGED <<client, conn, head>>, NotBegun' = NotBegun, Excused \subseteq Excused',
         Head(frames).sub = None => Head(frames).seq \in Excused'
  PROVE  OnTheWay'
<1> DEFINE h == Head(frames)
<1> USE SentTypes, CountTypes, Constants_
<1>1. /\ \A g \in Sent' : g \in Sent /\ h.seq < g.seq
      /\ h \in Sent /\ SentInOrder'
  BY DEF HeadGone
<1>2. \A s \in Stream : InFlight(s) => InFlight(s)' \/ s = h.seq
  BY StillInFlight
<1> HIDE DEF h
<1>3. Ahead'
  BY <1>1 DEF OnTheWay, Ahead
<1>4. Numbered'
  BY <1>1 DEF OnTheWay, Numbered
<1>5. UnbrokenFrames'
  <2> SUFFICES ASSUME NEW f \in Sent', NEW g \in Sent', NEW s \in Stream, f.seq < s, s < g.seq
               PROVE  IF f.sub = None THEN s \in Excused' \/ InFlight(s)' ELSE g.sub # f.sub + 1
    BY DEF UnbrokenFrames
  <2>1. IF f.sub = None THEN s \in Excused \/ InFlight(s) ELSE g.sub # f.sub + 1
    BY <1>1 DEF OnTheWay, UnbrokenFrames
  <2>2. s # h.seq
    BY <1>1
  <2> QED
    BY <1>2, <2>1, <2>2
<1>6. UnbrokenStart'
  <2> SUFFICES ASSUME NEW f \in Sent', NEW s \in Stream, client.currentSeq <= s, s < f.seq
               PROVE  \/ NotBegun \/ s \in Excused'
                      \/ IF f.sub = None THEN InFlight(s)' ELSE f.sub # client.expectedSubSeq
    BY DEF UnbrokenStart
  <2>1. \/ NotBegun \/ s \in Excused
        \/ IF f.sub = None THEN InFlight(s) ELSE f.sub # client.expectedSubSeq
    BY <1>1 DEF OnTheWay, UnbrokenStart
  <2>2. f.sub = None /\ s = h.seq => s \in Excused'
    BY <1>1 DEF OnTheWay, Numbered, h
  <2> QED
    BY <1>2, <2>1, <2>2
<1>7. UnbrokenEnd'
  <2>1. ASSUME NEW f \in Sent', NEW s \in Stream, conn.up, f.seq < s, s < conn.next
        PROVE  IF f.sub = None THEN s \in Excused' \/ InFlight(s)' ELSE f.sub # conn.sub
    <3>1. IF f.sub = None THEN s \in Excused \/ InFlight(s) ELSE f.sub # conn.sub
      BY <1>1, <2>1 DEF OnTheWay, UnbrokenEnd
    <3>2. s # h.seq
      BY <1>1, <2>1
    <3> QED
      BY <1>2, <3>1, <3>2
  <2>2. ASSUME NEW s \in Stream, conn.up, client.currentSeq <= s, s < conn.next
        PROVE  \/ NotBegun \/ s \in Excused'
               \/ IF conn.numbered THEN client.expectedSubSeq # conn.sub + 1 ELSE InFlight(s)'
    <3>1. \/ NotBegun \/ s \in Excused
          \/ IF conn.numbered THEN client.expectedSubSeq # conn.sub + 1 ELSE InFlight(s)
      BY <2>2 DEF OnTheWay, UnbrokenEnd
    <3>2. ~conn.numbered /\ s = h.seq => s \in Excused'
      BY <1>1, <2>2 DEF OnTheWay, Numbered, h
    <3> QED
      BY <1>2, <3>1, <3>2
  <2> QED
    BY <2>1, <2>2 DEF UnbrokenEnd
<1> QED
  BY <1>1, <1>3, <1>4, <1>5, <1>6, <1>7 DEF OnTheWay

\* An action is read without a gap.  Either it is given and the client resumes
\* behind it, or it is reported and the client resumes where it did; its number is
\* the last one counted.
LEMMA WayReads ==
  ASSUME TypeOK, OnTheWay, HeadGone, Head(frames).type = "action",
         ~Gap(client, Head(frames).sub),
         UNCHANGED <<conn, head>>, Excused \subseteq Excused',
         client'.expectedSubSeq =
            IF Head(frames).sub = None \/ client.expectedSubSeq = None
              THEN None ELSE Head(frames).sub + 1,
         \/ client'.currentSeq = Head(frames).seq + 1
         \/ /\ client'.currentSeq = client.currentSeq
            /\ Head(frames).seq \in Excused' /\ NotBegun' = NotBegun
  PROVE  OnTheWay'
<1> DEFINE h == Head(frames)
<1> USE SentTypes, CountTypes, Constants_
<1>1. /\ \A g \in Sent' : g \in Sent /\ h.seq < g.seq
      /\ h \in Sent /\ SentInOrder'
  BY DEF HeadGone
<1>2. \A s \in Stream : InFlight(s) => InFlight(s)' \/ s = h.seq
  BY StillInFlight
<1>3. \A s \in Stream : client.currentSeq <= s /\ s < h.seq => NotBegun \/ s \in Excused
  BY <1>1, HeadFits
\* Of an action behind the resume position the head was before it, or it is excused.
<1>4. ASSUME NEW s \in Stream, client'.currentSeq <= s
      PROVE  NotBegun' \/ s \in Excused' \/ h.seq < s
  <2>1. CASE client'.currentSeq = h.seq + 1
    BY <1>1, <1>4, <2>1
  <2>2. CASE client'.currentSeq = client.currentSeq /\ h.seq \in Excused' /\ NotBegun' = NotBegun
    BY <1>1, <1>3, <1>4, <2>2
  <2> QED
    BY <2>1, <2>2
<1>5. client'.currentSeq \in Nat /\ client'.currentSeq <= h.seq + 1
  BY <1>1 DEF OnTheWay, Ahead
<1>6. h.sub = None => client'.expectedSubSeq = None
  OBVIOUS
<1>7. h.sub # None => client'.expectedSubSeq = h.sub + 1 /\ client'.expectedSubSeq # None
  BY <1>1 DEF OnTheWay, Numbered, None
<1> HIDE DEF h
<1>8. Ahead'
  BY <1>1, <1>5 DEF OnTheWay, Ahead
<1>9. Numbered'
  BY <1>1, <1>6, <1>7 DEF OnTheWay, Numbered
<1>10. UnbrokenFrames'
  <2> SUFFICES ASSUME NEW f \in Sent', NEW g \in Sent', NEW s \in Stream, f.seq < s, s < g.seq
               PROVE  IF f.sub = None THEN s \in Excused' \/ InFlight(s)' ELSE g.sub # f.sub + 1
    BY DEF UnbrokenFrames
  <2>1. IF f.sub = None THEN s \in Excused \/ InFlight(s) ELSE g.sub # f.sub + 1
    BY <1>1 DEF OnTheWay, UnbrokenFrames
  <2>2. s # h.seq
    BY <1>1
  <2> QED
    BY <1>2, <2>1, <2>2
<1>11. UnbrokenStart'
  <2> SUFFICES ASSUME NEW f \in Sent', NEW s \in Stream, client'.currentSeq <= s, s < f.seq
               PROVE  \/ NotBegun' \/ s \in Excused'
                      \/ IF f.sub = None THEN InFlight(s)' ELSE f.sub # client'.expectedSubSeq
    BY DEF UnbrokenStart
  <2> SUFFICES ASSUME h.seq < s
               PROVE  s \in Excused' \/ IF f.sub = None THEN InFlight(s)' ELSE f.sub # client'.expectedSubSeq
    BY <1>4
  <2>1. IF h.sub = None THEN s \in Excused \/ InFlight(s) ELSE f.sub # h.sub + 1
    BY <1>1 DEF OnTheWay, UnbrokenFrames
  <2>2. (f.sub = None) = (h.sub = None)
    BY <1>1 DEF OnTheWay, Numbered
  <2>3. s # h.seq
    BY <1>1
  <2> QED
    BY <1>2, <1>7, <2>1, <2>2, <2>3
<1>12. UnbrokenEnd'
  <2>1. ASSUME NEW f \in Sent', NEW s \in Stream, conn.up, f.seq < s, s < conn.next
        PROVE  IF f.sub = None THEN s \in Excused' \/ InFlight(s)' ELSE f.sub # conn.sub
    <3>1. IF f.sub = None THEN s \in Excused \/ InFlight(s) ELSE f.sub # conn.sub
      BY <1>1, <2>1 DEF OnTheWay, UnbrokenEnd
    <3>2. s # h.seq
      BY <1>1, <2>1
    <3> QED
      BY <1>2, <3>1, <3>2
  <2>2. ASSUME NEW s \in Stream, conn.up, client'.currentSeq <= s, s < conn.next, h.seq < s
        PROVE  \/ s \in Excused'
               \/ IF conn.numbered THEN client'.expectedSubSeq # conn.sub + 1 ELSE InFlight(s)'
    <3>1. IF h.sub = None THEN s \in Excused \/ InFlight(s) ELSE h.sub # conn.sub
      BY <1>1, <2>2 DEF OnTheWay, UnbrokenEnd
    <3>2. (h.sub = None) = ~conn.numbered
      BY <1>1, <2>2 DEF OnTheWay, Numbered
    <3>3. s # h.seq
      BY <1>1, <2>2
    <3> QED
      BY <1>1, <1>2, <1>7, <3>1, <3>2, <3>3
  <2> QED
    BY <1>4, <2>1, <2>2 DEF UnbrokenEnd
<1> QED
  BY <1>1, <1>8, <1>9, <1>10, <1>11, <1>12 DEF OnTheWay

-----------------------------------------------------------------------------
(* Every step                                                              *)

\* A callback moves nothing but the socket, and that only to close the client.
LEMMA CallbackKeeps ==
  ASSUME NEW c \in Client, NEW d \in AfterCallback(c)
  PROVE  /\ d.currentSeq = c.currentSeq /\ d.expectedSubSeq = c.expectedSubSeq
         /\ d = c \/ (d.closed /\ ~d.socketLive)
  BY DEF AfterCallback, TornDown, Client

\* dial() leaves the resume position, and a closed client without a connection.
LEMMA DialKeeps ==
  ASSUME TypeOK, DialOpens \/ DialFails
  PROVE  /\ client'.currentSeq = client.currentSeq
         /\ DialFails => /\ frames' = <<>> /\ ~conn'.up
                         /\ client'.closed = client.closed
                         /\ client'.socketLive = client.socketLive
         /\ DialOpens => (client'.closed => client.closed \/ ~client'.socketLive)
                         /\ (client'.closed => ~conn'.up)
<1>1. Reset(client) \in Client /\ Reset(client).currentSeq = client.currentSeq
        /\ Reset(client).closed = client.closed /\ Reset(client).socketLive = client.socketLive
  BY DEF Reset, TypeOK, Client
<1>2. CASE DialFails
  BY <1>1, <1>2 DEF DialFails, DialOpens, Teardown, Down
<1>3. CASE DialOpens
  <2> DEFINE o == [Reset(client) EXCEPT !.socketLive = TRUE, !.connected = TRUE]
  <2>1. o \in Client /\ o.currentSeq = client.currentSeq /\ o.closed = client.closed
    BY <1>1 DEF Client
  <2>2. client' \in AfterCallback(o)
    BY <1>3 DEF DialOpens
  <2>3. client'.closed => ~conn'.up
    BY <1>3 DEF DialOpens, Down
  <2> HIDE DEF o
  <2>4. /\ client'.currentSeq = client.currentSeq
        /\ client'.closed => client.closed \/ ~client'.socketLive
    BY <2>1, <2>2, CallbackKeeps
  <2>5. DialFails => /\ frames' = <<>> /\ ~conn'.up /\ client'.closed = client.closed
                     /\ client'.socketLive = client.socketLive
    BY <1>1 DEF DialFails, Teardown, Down
  <2> QED
    BY <2>3, <2>4, <2>5
<1> QED
  BY <1>2, <1>3

\* Every step but a delivery keeps what was given and the resume position.
Keeps ==
    /\ client'.currentSeq = client.currentSeq
    /\ delivered' = delivered
    /\ Excused \subseteq Excused'

\* Every step but a delivery keeps what the client has of the stream.
LEMMA KeepsSteps ==
  ASSUME TypeOK, Next, ~Deliver
  PROVE  Keeps /\ startAtHead' = startAtHead
<1>1. CASE Server
  BY <1>1 DEF Keeps, Excused, Server, Publish, SendAction, SkipAction, SendCatchup,
              SendOther, Break, story
<1>2. CASE Connect \/ Close
  <2>1. Close => client'.currentSeq = client.currentSeq
    BY DEF Close, TornDown, TypeOK, Client
  <2> QED
    BY <1>2, <2>1, DialKeeps DEF Connect, Close, Keeps, Excused, story
<1>3. CASE Next_ \/ NextCanceled \/ ReceiveTimesOut \/ BackoffCanceled
  BY <1>3 DEF Keeps, Excused, Next_, NextCanceled, ReceiveTimesOut, BackoffCanceled, story
<1>4. CASE PumpDials
  <2>1. client' = client \/ DialOpens \/ DialFails
    BY <1>4 DEF PumpDials
  <2> QED
    BY <1>4, <2>1, DialKeeps DEF PumpDials, Keeps, Excused, story
<1>5. CASE ReceiveTorn
  BY <1>5 DEF ReceiveTorn, Keeps, Excused
<1>6. CASE BackoffEnds
  BY <1>6, DialKeeps DEF BackoffEnds, Keeps, Excused, story
<1>7. CASE Receive
  <2>1. CASE ReadCatchup
    <3> DEFINE c == [client EXCEPT !.catchupCompleteAt = TRUE]
    <3>1. c \in Client /\ c.currentSeq = client.currentSeq
      BY DEF TypeOK, Client
    <3>2. client' \in AfterCallback(c)
      BY <2>1 DEF ReadCatchup
    <3> QED
      BY <2>1, <3>1, <3>2, CallbackKeeps DEF ReadCatchup, Keeps, Excused, story
  <2>2. CASE ReadOther
    BY <2>2, CallbackKeeps DEF ReadOther, Keeps, Excused, story, TypeOK
  <2>3. TornDown(client) \in Client /\ TornDown(client).currentSeq = client.currentSeq
    BY DEF TornDown, TypeOK, Client
  <2>4. CASE ReadGap
    BY <2>3, <2>4, CallbackKeeps DEF ReadGap, Keeps, Excused, story
  <2>5. CASE ReadNoTrx
    <3>1. /\ Expect(client, Head(frames).sub) \in Client
          /\ Expect(client, Head(frames).sub).currentSeq = client.currentSeq
      BY <2>5, HeadTypes, ClientTypes DEF ReadNoTrx, Expect, TypeOK, Client
    <3> QED
      BY <2>5, <3>1, CallbackKeeps DEF ReadNoTrx, Keeps, Excused
  <2>6. CASE ReceiveFails
    <3>1. PICK c \in AfterCallback(TornDown(client)), healthy \in BOOLEAN :
            client' = IF c.closed THEN c ELSE Backoff(c, healthy)
      BY <2>6 DEF ReceiveFails
    <3>2. c \in Client /\ c.currentSeq = client.currentSeq
      BY <2>3, CallbackKeeps, ClientTypes
    <3>3. client'.currentSeq = client.currentSeq
      BY <3>1, <3>2 DEF Backoff, Client
    <3> QED
      BY <2>6, <3>3 DEF ReceiveFails, Keeps, Excused, story
  <2> QED
    BY <1>7, <2>1, <2>2, <2>4, <2>5, <2>6 DEF Receive
<1> QED
  BY <1>1, <1>2, <1>3, <1>4, <1>5, <1>6, <1>7 DEF Next, Pump

\* What a delivery does: the head is accepted, given, and the client resumes behind it.
LEMMA DeliverFacts ==
  ASSUME TypeOK, OnTheWay, Deliver
  PROVE  /\ Head(frames).type = "action" /\ Head(frames).seq \in Stream
         /\ HeadGone /\ ~Gap(client, Head(frames).sub) /\ conn' = conn
         /\ client'.currentSeq = Head(frames).seq + 1
         /\ client.currentSeq <= Head(frames).seq /\ Head(frames).seq <= head
         /\ client'.expectedSubSeq =
                IF Head(frames).sub = None \/ client.expectedSubSeq = None
                  THEN None ELSE Head(frames).sub + 1
         /\ ~client.closed /\ ~client'.closed
         /\ delivered' = Append(delivered, Head(frames).seq)
         /\ Excused' = Excused /\ startAtHead' = startAtHead /\ head' = head
<1> DEFINE h == Head(frames)
<1>1. /\ frames # <<>> /\ h.type = "action" /\ h.seq \in Stream /\ h.seq \in Nat
      /\ h.sub \in Nat
  BY HeadTypes DEF Deliver
<1>2. Expect(client, h.sub) \in Client /\ client \in Client
  BY <1>1, ClientTypes DEF TypeOK
<1>3. h \in Sent /\ SentInOrder
  <2>1. 1 \in Acts /\ h = frames[1]
    BY <1>1, EmptySeq, LenProperties DEF Acts, TypeOK
  <2> QED
    BY <2>1 DEF Sent, OnTheWay
<1>4. client.currentSeq <= h.seq /\ h.seq <= head
  BY <1>3 DEF OnTheWay, Ahead
<1> DEFINE e == Expect(client, h.sub)
           a == AcceptSeq(e, h.seq)
<1>5. /\ e.currentSeq = client.currentSeq /\ e.closed = client.closed
      /\ e.expectedSubSeq = IF h.sub = None \/ client.expectedSubSeq = None
                              THEN None ELSE h.sub + 1
  BY <1>2 DEF Expect, Client
<1>6. /\ a \in Client /\ a.currentSeq = h.seq + 1 /\ a.closed = client.closed
      /\ a.expectedSubSeq = e.expectedSubSeq
  <2> HIDE DEF e
  <2>1. ~(h.seq < e.currentSeq)
    BY <1>1, <1>2, <1>4, <1>5, CountTypes
  <2>2. a = [e EXCEPT !.currentSeq = h.seq + 1]
    BY <2>1 DEF AcceptSeq
  <2>3. e \in Client
    BY <1>2 DEF e
  <2> QED
    BY <1>1, <1>5, <2>2, <2>3 DEF Client
<1>7. client' = AckSeq(a, h.seq)
  BY DEF Deliver
<1> HIDE DEF a, e
<1>8. /\ client'.currentSeq = a.currentSeq /\ client'.closed = a.closed
      /\ client'.expectedSubSeq = a.expectedSubSeq
  BY <1>6, <1>7 DEF AckSeq, Client
<1>9. ~client.closed
  BY DEF Deliver, Reading, Receiving
<1>10. frames' = Tail(frames) /\ conn' = conn
  BY <1>6, <1>8, <1>9 DEF Deliver, Read
<1>11. HeadGone
  BY <1>1, <1>3, <1>10, SentTail
<1> QED
  BY <1>1, <1>4, <1>5, <1>6, <1>8, <1>9, <1>10, <1>11 DEF Deliver, Excused

\* A read frame that is no action, or after which a callback closed the client.
LEMMA WayReadsOther ==
  ASSUME TypeOK, OnTheWay, frames # <<>>, Head(frames).type # "action", Read,
         client'.currentSeq = client.currentSeq,
         client'.expectedSubSeq = client.expectedSubSeq,
         head' = head, NotBegun' = NotBegun, Excused \subseteq Excused'
  PROVE  OnTheWay'
<1>1. CASE client'.closed
  BY <1>1, WayEmpty DEF Read, Teardown, Down
<1>2. CASE ~client'.closed
  <2>1. conn' = conn /\ HeadGone
    BY <1>2, SentTail DEF Read, OnTheWay
  <2>2. Sent' = Sent /\ SentInOrder'
    BY <2>1 DEF HeadGone
  <2> QED
    BY <2>1, <2>2, WayStays, CountTypes
<1> QED
  BY <1>1, <1>2

\* The actions on their way after every step of the client that reads.
LEMMA WayReceive ==
  ASSUME TypeOK, Resumes, OnTheWay, Receive
  PROVE  OnTheWay'
<1>1. CASE ReadCatchup
  <2> DEFINE c == [client EXCEPT !.catchupCompleteAt = TRUE]
  <2>1. c \in Client /\ c.currentSeq = client.currentSeq /\ c.expectedSubSeq = client.expectedSubSeq
    BY DEF TypeOK, Client
  <2>2. client' \in AfterCallback(c)
    BY <1>1 DEF ReadCatchup
  <2>3. frames # <<>> /\ Head(frames).type # "action" /\ Read
    BY <1>1 DEF ReadCatchup, Reading
  <2> QED
    BY <1>1, <2>1, <2>2, <2>3, CallbackKeeps, WayReadsOther
    DEF ReadCatchup, NotBegun, Excused, story
<1>2. CASE ReadOther
  <2>1. frames # <<>> /\ Head(frames).type # "action" /\ Read
    BY <1>2 DEF ReadOther, Reading
  <2> QED
    BY <1>2, <2>1, CallbackKeeps, WayReadsOther DEF ReadOther, NotBegun, Excused, story, TypeOK
<1>3. CASE ReadGap
  BY <1>3, WayEmpty DEF ReadGap, Teardown, Down
<1>4. CASE ReadNoTrx
  <2> DEFINE h == Head(frames)
  <2>1. /\ frames # <<>> /\ h.type = "action" /\ h.seq \in Stream /\ h.sub \in Nat
        /\ ~Gap(client, h.sub) /\ Read
    BY <1>4, HeadTypes DEF ReadNoTrx
  <2>2. /\ Expect(client, h.sub) \in Client
        /\ Expect(client, h.sub).currentSeq = client.currentSeq
        /\ Expect(client, h.sub).expectedSubSeq =
              IF h.sub = None \/ client.expectedSubSeq = None THEN None ELSE h.sub + 1
    BY <2>1, ClientTypes DEF Expect, TypeOK, Client
  <2>3. /\ client'.currentSeq = client.currentSeq
        /\ client'.expectedSubSeq =
              IF h.sub = None \/ client.expectedSubSeq = None THEN None ELSE h.sub + 1
    BY <1>4, <2>2, CallbackKeeps DEF ReadNoTrx
  <2>4. /\ head' = head /\ NotBegun' = NotBegun
        /\ Excused \subseteq Excused' /\ h.seq \in Excused'
    BY <1>4 DEF ReadNoTrx, NotBegun, Excused
  <2>5. CASE client'.closed
    BY <2>1, <2>5, WayEmpty DEF Read, Teardown, Down
  <2>6. CASE ~client'.closed
    <3>1. conn' = conn /\ HeadGone
      BY <2>1, <2>6, SentTail DEF Read, OnTheWay
    <3> QED
      BY <2>1, <2>3, <2>4, <3>1, WayReads
  <2> QED
    BY <2>5, <2>6
<1>5. CASE Deliver
  BY <1>5, DeliverFacts, WayReads
<1>6. CASE ReceiveFails
  BY <1>6, WayEmpty DEF ReceiveFails, Teardown, Down
<1> QED
  BY <1>1, <1>2, <1>3, <1>4, <1>5, <1>6 DEF Receive

\* The actions on their way after every step.
LEMMA WayNext ==
  ASSUME TypeOK, Resumes, OnTheWay, Next
  PROVE  OnTheWay'
<1> USE CountTypes
<1>1. CASE Publish
  <2>1. head' \in Nat /\ head <= head'
    BY <1>1, Constants_ DEF Publish
  <2> QED
    BY <1>1, <2>1, SentSame, WayStays DEF Publish, OnTheWay, Excused, NotBegun, story
<1>2. CASE SendAction
  BY <1>2, WaySends
<1>3. CASE SkipAction
  BY <1>3, WaySkips
<1>4. CASE SendCatchup \/ SendOther
  <2>1. PICK f \in Frame : f.type # "action" /\ frames' = Append(frames, f)
    BY <1>4 DEF SendCatchup, SendOther, Frame
  <2>2. Sent' = Sent /\ SentInOrder'
    BY <2>1, SentAppend DEF OnTheWay
  <2>3. /\ conn'.up = conn.up /\ conn'.next = conn.next /\ conn'.sub = conn.sub
        /\ conn'.numbered = conn.numbered
    BY <1>4 DEF SendCatchup, SendOther, TypeOK, Conn
  <2> QED
    BY <1>4, <2>2, <2>3, WayStays DEF SendCatchup, SendOther, Excused, NotBegun, story
<1>5. CASE Break
  BY <1>5, WayBreaks
<1>6. ASSUME DialOpens, UNCHANGED <<head, startAtHead, delivered>> PROVE OnTheWay'
  BY <1>6, WayOpens
<1>7. ASSUME DialFails PROVE OnTheWay'
  BY <1>7, DialKeeps, WayEmpty
<1>8. ASSUME UNCHANGED <<client, conn, frames, head, story, startAtHead>> PROVE OnTheWay'
  BY <1>8, SentSame, WayStays DEF OnTheWay, Excused, NotBegun, story
<1>9. CASE Connect
  BY <1>6, <1>7, <1>9 DEF Connect, story
<1>10. CASE Close
  BY <1>10, WayEmpty DEF Close, Teardown, Down
<1>11. CASE Next_ \/ NextCanceled \/ ReceiveTimesOut \/ BackoffCanceled
  BY <1>8, <1>11 DEF Next_, NextCanceled, ReceiveTimesOut, BackoffCanceled, env
<1>12. CASE PumpDials
  BY <1>6, <1>7, <1>8, <1>12 DEF PumpDials, story
<1>13. CASE BackoffEnds
  BY <1>6, <1>7, <1>13 DEF BackoffEnds, story
<1>14. CASE ReceiveTorn
  <2>1. HeadGone
    BY <1>14, SentTorn DEF ReceiveTorn, OnTheWay
  <2>2. /\ UNCHANGED <<client, conn, head>> /\ NotBegun' = NotBegun /\ Excused \subseteq Excused'
        /\ Head(frames).type = "action" /\ Head(frames).sub = None => Head(frames).seq \in Excused'
    BY <1>14 DEF ReceiveTorn, NotBegun, Excused
  <2>3. CASE Head(frames).type = "action"
    BY <2>1, <2>2, <2>3, WayTorn
  <2>4. CASE Head(frames).type # "action"
    <3>1. Sent' = Sent /\ SentInOrder'
      BY <2>1, <2>4 DEF HeadGone
    <3> QED
      BY <2>2, <3>1, WayStays
  <2> QED
    BY <2>3, <2>4
<1>15. CASE Receive
  BY <1>15, WayReceive
<1> QED
  BY <1>1, <1>2, <1>3, <1>4, <1>5, <1>9, <1>10, <1>11, <1>12, <1>13, <1>14, <1>15
  DEF Next, Server, Pump

\* close() is final after every step.
LEMMA DownNext ==
  ASSUME TypeOK, DownWhenClosed, Next
  PROVE  DownWhenClosed'
<1>1. CASE Server
  <2>1. client' = client /\ pc' = pc /\ (conn'.up => conn.up)
    BY <1>1 DEF Server, Publish, SendAction, SkipAction, SendCatchup, SendOther, Break,
                Down, TypeOK, Conn
  <2> QED
    BY <2>1 DEF DownWhenClosed, ClosedStaysDown
<1>2. CASE Connect
  BY <1>2, DialKeeps DEF Connect, DownWhenClosed, ClosedStaysDown
<1>3. CASE Close
  BY <1>3 DEF Close, TornDown, Teardown, Down, DownWhenClosed, ClosedStaysDown, TypeOK, Client
<1>4. CASE Next_ \/ NextCanceled \/ ReceiveTimesOut \/ BackoffCanceled
  BY <1>4 DEF Next_, NextCanceled, ReceiveTimesOut, BackoffCanceled, env,
              DownWhenClosed, ClosedStaysDown
<1>5. CASE PumpDials
  <2>1. pc' # "backoff"
    BY <1>5 DEF PumpDials
  <2>2. (client' = client /\ conn' = conn) \/ DialOpens \/ DialFails
    BY <1>5 DEF PumpDials
  <2> QED
    BY <1>5, <2>1, <2>2, DialKeeps DEF PumpDials, DownWhenClosed, ClosedStaysDown
<1>6. CASE BackoffEnds
  BY <1>6, DialKeeps DEF BackoffEnds, DownWhenClosed, ClosedStaysDown
<1>7. CASE ReceiveTorn
  BY <1>7 DEF ReceiveTorn, Receiving, DownWhenClosed, ClosedStaysDown
<1>8. CASE ReceiveFails
  <2>1. PICK c \in AfterCallback(TornDown(client)), healthy \in BOOLEAN :
          /\ client' = IF c.closed THEN c ELSE Backoff(c, healthy)
          /\ pc' = IF c.closed THEN "out" ELSE "backoff"
    BY <1>8 DEF ReceiveFails
  <2>2. c \in Client /\ ~c.socketLive
    BY DEF AfterCallback, TornDown, TypeOK, Client
  <2>3. ~client'.socketLive /\ client'.closed = c.closed
    BY <2>1, <2>2 DEF Backoff, Client
  <2> QED
    BY <1>8, <2>1, <2>3 DEF ReceiveFails, Teardown, Down, DownWhenClosed, ClosedStaysDown
<1>9. CASE ReadCatchup \/ ReadOther \/ ReadGap \/ ReadNoTrx \/ Deliver
  <2>1. ~client.closed /\ pc = "pump" /\ pc' # "backoff"
    BY <1>9 DEF ReadCatchup, ReadOther, ReadGap, ReadNoTrx, Deliver, Reading, Receiving
  <2>2. client'.closed => ~conn'.up
    BY <1>9 DEF ReadCatchup, ReadOther, ReadGap, ReadNoTrx, Deliver, Read, Teardown, Down
  <2>3. ASSUME NEW c \in Client, ~c.closed, client' \in AfterCallback(c)
        PROVE  client'.closed => ~client'.socketLive
    BY <2>3, CallbackKeeps
  <2>4. client'.closed => ~client'.socketLive
    <3>1. /\ client \in Client /\ TornDown(client) \in Client /\ ~TornDown(client).closed
          /\ [client EXCEPT !.catchupCompleteAt = TRUE] \in Client
          /\ ~[client EXCEPT !.catchupCompleteAt = TRUE].closed
      BY <2>1 DEF TypeOK, Client, TornDown
    <3>2. CASE ReadCatchup \/ ReadOther \/ ReadGap
      BY <2>3, <3>1, <3>2, <2>1 DEF ReadCatchup, ReadOther, ReadGap
    <3>3. CASE ReadNoTrx
      <4>1. Head(frames).sub \in Nat
        BY <3>3, HeadTypes DEF ReadNoTrx
      <4>2. Expect(client, Head(frames).sub) \in Client
        BY <3>1, <4>1, ClientTypes
      <4>3. ~Expect(client, Head(frames).sub).closed
        BY <2>1, <3>1 DEF Expect, Client
      <4>4. \/ client' \in AfterCallback(Expect(client, Head(frames).sub))
            \/ client' = Expect(client, Head(frames).sub)
        BY <3>3 DEF ReadNoTrx
      <4> QED
        BY <2>3, <4>2, <4>3, <4>4
    <3>4. CASE Deliver
      <4>1. Head(frames).sub \in Nat /\ Head(frames).seq \in Nat
        BY <3>4, HeadTypes DEF Deliver
      <4>2. client'.closed = client.closed
        BY <3>1, <3>4, <4>1 DEF Deliver, AckSeq, AcceptSeq, Expect, Client
      <4> QED
        BY <2>1, <4>2
    <3> QED
      BY <1>9, <3>2, <3>3, <3>4
  <2> QED
    BY <2>1, <2>2, <2>4 DEF DownWhenClosed, ClosedStaysDown
<1> QED
  BY <1>1, <1>2, <1>3, <1>4, <1>5, <1>6, <1>7, <1>8, <1>9 DEF Next, Pump, Receive

-----------------------------------------------------------------------------
(* What the application gets                                               *)

\* The resume position is where the log goes on, and what came before is in order.
LEMMA ResumesNext ==
  ASSUME TypeOK, Resumes, OnTheWay, Next
  PROVE  Resumes'
<1>1. CASE ~Deliver
  BY <1>1, KeepsSteps DEF Keeps, Resumes, InOrderOnce, Log!Position
<1>2. CASE Deliver
  <2> DEFINE s == Head(frames).seq
             n == Len(delivered)
  <2>1. /\ s \in Stream /\ delivered' = Append(delivered, s)
        /\ client.currentSeq <= s /\ client'.currentSeq = s + 1
    BY <1>2, DeliverFacts
  <2>2. /\ delivered \in Seq(Stream) /\ n \in Nat /\ DOMAIN delivered = 1..n
    BY LenProperties DEF TypeOK
  <2> HIDE DEF s, n
  <2>3. /\ delivered' \in Seq(Stream) /\ Len(delivered') = n + 1 /\ DOMAIN delivered' = 1..(n + 1)
        /\ \A i \in 1..n : delivered'[i] = delivered[i]
        /\ delivered'[n + 1] = s
    BY <2>1, <2>2, AppendProperties, LenProperties DEF n
  <2>4. \A i \in 1..(n + 1) : delivered'[i] \in Nat
    BY <2>3, ElementOfSeq, Constants_
  <2>5. \A i \in 1..n : delivered[i] < s
    <3> SUFFICES ASSUME NEW i \in 1..n PROVE delivered[i] < s
      OBVIOUS
    <3>1. n \in 1..n /\ delivered # <<>>
      BY <2>2, EmptySeq DEF n
    <3>2. client.currentSeq = delivered[n] + 1
      BY <3>1 DEF Resumes, Log!Position, n
    <3>3. i = n \/ delivered[i] < delivered[n]
      BY <2>2, <3>1 DEF Resumes, InOrderOnce
    <3>4. delivered[i] \in Stream /\ delivered[n] \in Stream
      BY <2>2, <3>1, ElementOfSeq DEF n
    <3>5. delivered[i] \in Nat /\ delivered[n] \in Nat /\ s \in Nat
      BY <2>1, <3>4, Constants_
    <3> QED
      BY <2>1, <3>2, <3>3, <3>5
  <2>6. ASSUME NEW i \in DOMAIN delivered', NEW j \in DOMAIN delivered', i < j
        PROVE  delivered'[i] < delivered'[j]
    <3>1. i \in 1..n /\ delivered'[i] = delivered[i]
      BY <2>2, <2>3, <2>6
    <3>2. CASE j \in 1..n
      BY <2>2, <2>3, <2>6, <3>1, <3>2 DEF Resumes, InOrderOnce
    <3>3. CASE j = n + 1
      BY <2>3, <2>5, <3>1, <3>3
    <3> QED
      BY <2>2, <2>3, <3>2, <3>3
  <2>7. (client.currentSeq = Log!Position)'
    <3>1. delivered' # <<>>
      BY <2>1, <2>2, AppendProperties
    <3> QED
      BY <2>1, <2>3, <3>1 DEF Log!Position
  <2> QED
    BY <2>6, <2>7 DEF Resumes, InOrderOnce
<1> QED
  BY <1>1, <1>2

\* What a delivery owes: nothing between the resume position and the action is missing.
LEMMA DeliverOwes ==
  ASSUME TypeOK, OnTheWay, Deliver
  PROVE  \A s \in Stream : client.currentSeq <= s /\ s < Head(frames).seq =>
            NotBegun \/ s \in Excused
<1>1. /\ HeadGone /\ Head(frames).type = "action" /\ ~Gap(client, Head(frames).sub)
  BY DeliverFacts
<1>2. Head(frames) \in Sent
  BY <1>1 DEF HeadGone
<1> QED
  BY <1>1, <1>2, HeadFits

\* What was delivered stays delivered, and one more comes.
LEMMA DeliveredGrows ==
  ASSUME TypeOK, NEW s \in Stream, delivered' = Append(delivered, s)
  PROVE  /\ ToSet(delivered') = ToSet(delivered) \cup {s}
         /\ delivered # <<>> => delivered'[1] = delivered[1]
         /\ delivered = <<>> => delivered'[1] = s
         /\ delivered' # <<>>
<1> DEFINE n == Len(delivered)
<1>1. delivered \in Seq(Stream) /\ n \in Nat /\ DOMAIN delivered = 1..n
  BY LenProperties DEF TypeOK
<1>2. /\ delivered' \in Seq(Stream) /\ Len(delivered') = n + 1 /\ DOMAIN delivered' = 1..(n + 1)
      /\ \A i \in 1..n : delivered'[i] = delivered[i]
      /\ delivered'[n + 1] = s
  BY <1>1, AppendProperties, LenProperties
<1>3. ToSet(delivered') = ToSet(delivered) \cup {s}
  <2>1. \A i \in 1..(n + 1) : i \in 1..n \/ i = n + 1
    BY <1>1
  <2>2. \A i \in 1..n : i \in 1..(n + 1)
    BY <1>1
  <2>3. n + 1 \in 1..(n + 1)
    BY <1>1
  <2> QED
    BY <1>1, <1>2, <2>1, <2>2, <2>3 DEF ToSet
<1>4. delivered # <<>> => 1 \in 1..n
  BY <1>1, EmptySeq
<1>5. delivered = <<>> => n + 1 = 1
  BY <1>1, EmptySeq
<1> QED
  BY <1>1, <1>2, <1>3, <1>4, <1>5, EmptySeq

\* Nothing is passed over by any step.
LEMMA PassedNext ==
  ASSUME TypeOK, OnTheWay, NothingPassedOver, Next
  PROVE  NothingPassedOver'
<1>1. CASE ~Deliver
  BY <1>1, KeepsSteps DEF Keeps, NothingPassedOver, Begun, Excused
<1>2. CASE Deliver
  <2> DEFINE h == Head(frames).seq
  <2>1. /\ h \in Stream /\ delivered' = Append(delivered, h)
        /\ client'.currentSeq = h + 1 /\ client.currentSeq <= h
        /\ Excused' = Excused /\ startAtHead' = startAtHead
    BY <1>2, DeliverFacts
  <2>2. \A s \in Stream : client.currentSeq <= s /\ s < h => NotBegun \/ s \in Excused
    BY <1>2, DeliverOwes
  <2> HIDE DEF h
  <2>3. /\ ToSet(delivered') = ToSet(delivered) \cup {h}
        /\ delivered # <<>> => delivered'[1] = delivered[1]
        /\ delivered = <<>> => delivered'[1] = h
    BY <2>1, DeliveredGrows
  <2> SUFFICES ASSUME NEW s \in Stream, Begun(s)', s < h + 1
               PROVE  s \in ToSet(delivered') \/ s \in Excused
    BY <2>1 DEF NothingPassedOver, Excused
  <2>4. s \in Nat /\ h \in Nat /\ client.currentSeq \in Nat
    BY <2>1, Constants_, CountTypes
  <2>5. CASE s = h
    BY <2>3, <2>5
  <2>6. CASE s < h
    <3>1. ~NotBegun /\ Begun(s)
      BY <2>1, <2>3, <2>4, <2>6 DEF Begun, NotBegun
    <3>2. CASE s < client.currentSeq
      BY <2>3, <3>1, <3>2 DEF NothingPassedOver, Excused
    <3>3. CASE client.currentSeq <= s
      BY <2>2, <2>6, <3>1, <3>3
    <3> QED
      BY <2>4, <3>2, <3>3
  <2> QED
    BY <2>4, <2>5, <2>6
<1> QED
  BY <1>1, <1>2

\* Nothing is sent, received or queued before connect().
LEMMA IInvInit == Init => IInv
<1> SUFFICES ASSUME Init PROVE IInv
  OBVIOUS
<1>1. TypeOK
  BY TypeInit
<1>2. Resumes /\ DownWhenClosed
  BY EmptySeq DEF Init, Resumes, InOrderOnce, Log!Position, DownWhenClosed, ClosedStaysDown
<1>3. NothingPassedOver
  BY Constants_ DEF Init, NothingPassedOver, Begun
<1>4. Acts = {} /\ Sent = {}
  BY SentEmpty DEF Init
<1>5. OnTheWay
  BY <1>4 DEF Init, Down, OnTheWay, SentInOrder, Ahead, Numbered, UnbrokenFrames,
              UnbrokenStart, UnbrokenEnd
<1> QED
  BY <1>1, <1>2, <1>3, <1>5 DEF IInv

\* Every step keeps the inductive invariant.
LEMMA IInvNext == IInv /\ [Next]_vars => IInv'
<1> SUFFICES ASSUME IInv, [Next]_vars PROVE IInv'
  OBVIOUS
<1>1. TypeOK'
  BY TypeNext DEF IInv
<1>2. CASE Next
  BY <1>1, <1>2, DownNext, ResumesNext, PassedNext, WayNext DEF IInv
<1>3. CASE UNCHANGED vars
  <2>1. UNCHANGED <<client, conn, frames, head, startAtHead, pc, delivered, reported, unnoticed>>
    BY <1>3 DEF vars, env, story
  <2>2. SentInOrder' /\ Sent' = Sent /\ Excused' = Excused /\ NotBegun' = NotBegun
    BY <2>1, SentSame DEF IInv, OnTheWay, Excused, NotBegun
  <2>3. OnTheWay'
    BY <2>1, <2>2, WayStays, CountTypes DEF IInv
  <2>4. DownWhenClosed' /\ Resumes' /\ NothingPassedOver'
    BY <2>1 DEF IInv, DownWhenClosed, ClosedStaysDown, Resumes, InOrderOnce, Log!Position,
                NothingPassedOver, Begun
  <2> QED
    BY <1>1, <2>3, <2>4 DEF IInv
<1> QED
  BY <1>2, <1>3

\* The inductive invariant holds in every reachable state.
LEMMA IInvAlways == Spec => []IInv
  BY IInvInit, IInvNext, PTL DEF Spec

\* next() returns the actions in the order of the chain and each one once, through
\* every reconnect, gap and second connect() (client.cpp:262-330).
THEOREM InOrder == Spec => []InOrderOnce
<1>1. IInv => InOrderOnce
  BY DEF IInv, Resumes
<1> QED
  BY <1>1, IInvAlways, PTL

\* The resume position never passes an action that was neither given nor reported,
\* but for what no client of an unnumbered subscription can notice.
THEOREM NonePassedOver == Spec => []NothingPassedOver
<1>1. IInv => NothingPassedOver
  BY DEF IInv
<1> QED
  BY <1>1, IInvAlways, PTL

\* After close() no step of a running next(), of its backoff or of a callback leaves
\* a socket open.
THEOREM ClosedIsFinal == Spec => []ClosedStaysDown
<1>1. IInv => ClosedStaysDown
  BY DEF IInv, DownWhenClosed
<1> QED
  BY <1>1, IInvAlways, PTL

-----------------------------------------------------------------------------
(* The client implements the plain stream of actions                       *)

\* A closed client is not touched any more.
LEMMA ClosedStaysClosed ==
  ASSUME TypeOK, DownWhenClosed, Next
  PROVE  client'.closed \in {client.closed, TRUE}
<1>1. CASE ~client.closed
  <2>1. client'.closed \in BOOLEAN /\ client.closed \in BOOLEAN
    BY TypeNext DEF TypeOK, Client
  <2> QED
    BY <1>1, <2>1
<1>2. CASE client.closed
  <2>1. client' = client
    BY <1>2 DEF Next, Server, Publish, SendAction, SkipAction, SendCatchup, SendOther, Break,
                Connect, Close, Next_, Pump, NextCanceled, PumpDials, ReceiveTimesOut,
                ReceiveTorn, Receiving, BackoffEnds, BackoffCanceled, Receive, ReadCatchup,
                ReadOther, ReadGap, ReadNoTrx, Deliver, ReceiveFails, Reading, DownWhenClosed
  <2> QED
    BY <2>1
<1> QED
  BY <1>1, <1>2

\* The action at the head of the frames was produced by the chain.
LEMMA HeadProduced ==
  ASSUME TypeOK, OnTheWay, frames # <<>>, Head(frames).type = "action"
  PROVE  Head(frames).seq \in Stream /\ Head(frames).seq <= head
<1>1. 1 \in Acts /\ Head(frames) = frames[1]
  BY EmptySeq, LenProperties DEF Acts, TypeOK
<1>2. Head(frames) \in Sent
  BY <1>1 DEF Sent
<1> QED
  BY <1>2, SentTypes DEF OnTheWay, Ahead

\* A client that was constructed has read nothing of the log.
LEMMA LogInit == Init => Log!Init
  BY DEF Init, Log!Init

\* What the log says is excused.
LEMMA LogExcuses ==
  ASSUME NEW s \in Stream, s <= head, client'.closed \in {client.closed, TRUE},
         Excused' = Excused \cup {s}, UNCHANGED <<startAtHead, head, delivered>>
  PROVE  Log!Next
  BY DEF Log!Next, Log!Excuse, Excused

\* A step that neither produces, gives nor excuses an action at most closes the client.
LEMMA LogQuiet ==
  ASSUME client'.closed \in {client.closed, TRUE}, Excused' = Excused,
         UNCHANGED <<startAtHead, head, delivered>>
  PROVE  [Log!Next]_(Log!logVars)
  BY DEF Log!Next, Log!Close, Log!logVars, Excused

\* The actions that stutter in the log, but for close().
LEMMA QuietSteps ==
  ASSUME Next, ~Publish, ~SkipAction, ~ReceiveTorn, ~ReadNoTrx, ~Deliver
  PROVE  UNCHANGED <<startAtHead, head, delivered>> /\ Excused' = Excused
  BY DEF Next, Server, SendAction, SendCatchup, SendOther, Break, Connect, Close, Next_, Pump,
         NextCanceled, PumpDials, ReceiveTimesOut, BackoffEnds, BackoffCanceled, Receive,
         ReadCatchup, ReadOther, ReadGap, ReceiveFails, env, story, Excused

\* Every step is one of the abstract log or leaves it alone: a delivery reads the next
\* action, every other step changes nothing the log speaks of.
\* Every step is one of the abstract log or leaves it alone: a delivery reads the next
\* action, every other step changes nothing the log speaks of.
LEMMA LogNext == IInv /\ [Next]_vars => [Log!Next]_(Log!logVars)
<1> SUFFICES ASSUME IInv, [Next]_vars PROVE [Log!Next]_(Log!logVars)
  OBVIOUS
<1>1. TypeOK /\ DownWhenClosed /\ Resumes /\ OnTheWay
  BY DEF IInv
<1>2. CASE UNCHANGED vars
  BY <1>2 DEF vars, env, story, Log!logVars
<1>3. Next => client'.closed \in {client.closed, TRUE}
  BY <1>1, ClosedStaysClosed
<1>4. CASE Publish
  BY <1>4 DEF Publish, story, Log!Next, Log!Produce
<1>5. CASE SkipAction
  <2>1. PICK s \in Owed : unnoticed' = IF conn.numbered THEN unnoticed ELSE unnoticed \cup {s}
    BY <1>5 DEF SkipAction
  <2>2. s \in Stream /\ s <= head
    BY DEF Owed
  <2>3. UNCHANGED <<startAtHead, head, delivered, client, reported>>
    BY <1>5 DEF SkipAction
  <2>4. Excused' = Excused \/ Excused' = Excused \cup {s}
    BY <2>1, <2>3 DEF Excused
  <2> QED
    BY <2>2, <2>3, <2>4, LogExcuses, LogQuiet
<1>6. CASE ReceiveTorn
  <2>1. UNCHANGED <<startAtHead, head, delivered, client, reported>> /\ frames # <<>>
    BY <1>6 DEF ReceiveTorn
  <2>2. \/ Excused' = Excused
        \/ Head(frames).type = "action" /\ Excused' = Excused \cup {Head(frames).seq}
    BY <1>6, <2>1 DEF ReceiveTorn, Excused
  <2> QED
    BY <1>1, <2>1, <2>2, HeadProduced, LogExcuses, LogQuiet
<1>7. CASE ReadNoTrx
  <2>1. frames # <<>> /\ Head(frames).type = "action"
    BY <1>7 DEF ReadNoTrx, Reading
  <2>2. UNCHANGED <<startAtHead, head, delivered>> /\ Excused' = Excused \cup {Head(frames).seq}
    BY <1>7 DEF ReadNoTrx, Excused
  <2> QED
    BY <1>1, <1>3, <1>7, <2>1, <2>2, HeadProduced, LogExcuses DEF Next, Pump, Receive
<1>8. CASE Deliver
  <2> DEFINE s == Head(frames).seq
  <2>1. /\ s \in Stream /\ client.currentSeq <= s /\ s <= head
        /\ delivered' = Append(delivered, s) /\ ~client.closed /\ ~client'.closed
        /\ Excused' = Excused /\ startAtHead' = startAtHead /\ head' = head
    BY <1>1, <1>8, DeliverFacts
  <2>2. \A t \in Stream : client.currentSeq <= t /\ t < s => NotBegun \/ t \in Excused
    BY <1>1, <1>8, DeliverOwes
  <2> HIDE DEF s
  <2>3. client.currentSeq = Log!Position
    BY <1>1 DEF Resumes
  <2>4. \A t \in Stream : Log!Position <= t /\ t < s => Log!MaySkip(t)
    BY <2>2, <2>3 DEF Log!MaySkip, NotBegun, Excused
  <2>5. client'.closed = client.closed
    <3>1. client'.closed \in BOOLEAN /\ client.closed \in BOOLEAN
      BY TypeNext DEF IInv, TypeOK, Client
    <3> QED
      BY <2>1, <3>1
  <2> QED
    BY <2>1, <2>3, <2>4, <2>5 DEF Log!Next, Log!Give, Excused
<1>9. CASE Next /\ ~Publish /\ ~SkipAction /\ ~ReceiveTorn /\ ~ReadNoTrx /\ ~Deliver
  BY <1>3, <1>9, QuietSteps, LogQuiet
<1> QED
  BY <1>2, <1>4, <1>5, <1>6, <1>7, <1>8, <1>9

\* With its sockets, gaps, torn reads and reconnects the client implements the plain
\* stream of actions: each next() returns what the stream owes next.
THEOREM ImplementsTheLog == Spec => ImplementsLog
  BY LogInit, LogNext, IInvAlways, PTL DEF Spec, ImplementsLog, Log!Spec
=============================================================================
