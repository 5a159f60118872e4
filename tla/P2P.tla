---------------------------------- MODULE P2P ----------------------------------
(* src/antelope/p2p/p2p.cpp: the length-prefixed envelope over a byte stream  *)
(* that arrives in arbitrary pieces, the client's listeners, and the          *)
(* heartbeat timer the embedder runs. The word of the length is scaled down:  *)
(* two little-endian bytes of base Base instead of four of base 256.          *)
(* Handlers run synchronously and may call back into the client, so a         *)
(* dispatch is one step per handler with the user's calls in between.         *)
EXTENDS Integers, Sequences, SequencesExt

CONSTANTS
    Base,            \* number of values of a byte
    MaxReadLength,   \* maxReadLength
    Streams,         \* the sequences of payloads the peer sends, or stops within
    Chunks,          \* the sizes of the pieces the transport hands over
    MaxListeners,    \* bound: listeners ever added
    MaxBeats         \* bound: heartbeats ever sent

HeaderSize == 2

(* A length fits into its word; the first two listeners are there from the start. *)
ASSUME P2PAssumption ==
    /\ Base \in Nat \ {0} /\ MaxReadLength \in Nat /\ Chunks \subseteq Nat
    /\ Streams \subseteq Seq(Seq(0..(Base - 1)))
    /\ \A s \in Streams : \A i \in 1..Len(s) : Len(s[i]) < Base * Base
    /\ MaxListeners \in Nat /\ MaxListeners >= 2 /\ MaxBeats \in Nat

VARIABLES
    sent,            \* payloads the peer has sent, in order
    wire,            \* bytes of them not yet handed over
    remainingData,   \* remainingData_ of the envelope
    reading,         \* inside the envelope's handleData
    delivered,       \* payloads given to emitData, oldest first
    tooLong,         \* the envelope has reported "Incoming Message too long"
    errors,          \* the client's error listeners have been called
    listeners,       \* messageListeners_: [id, once], in the order of their numbers
    nextListenerId,
    calls,           \* the copy of listeners a dispatch still has to call
    heard,           \* id -> number of messages that listener was called with
    heartbeat,       \* heartbeatTimoutMs_ is set
    timers,          \* handlers pending in setTimeoutImpl
    writes,          \* heartbeats written whose done() has not been called
    beats,
    client,          \* "up", "ended" (end or destroy), "gone" (destructor)
    firedOnGone      \* a timer handler ran on a destroyed client

envelopeVars == <<sent, wire, remainingData, reading, delivered, tooLong>>
listenerVars == <<listeners, nextListenerId, calls, heard>>
beatVars == <<heartbeat, timers, writes, beats, firedOnGone>>
p2pVars == <<envelopeVars, errors, listenerVars, beatVars, client>>

(* SimpleEnvelopeP2PProvider::write: the length, then the payload. *)
Envelope(data) == <<Len(data) % Base, Len(data) \div Base>> \o data
messageLength(buffer) == buffer[1] + Base * buffer[2]

(* NetMessage: a payload decodes when its first byte names an alternative. *)
Decodes(m) == m # <<>> /\ m[1] = 1

Up == client = "up"

(* The peer writes its next message. *)
PeerSends ==
    \E s \in Streams :
        /\ Up /\ Len(sent) < Len(s) /\ IsPrefix(sent, s)
        /\ sent' = Append(sent, s[Len(sent) + 1])
        /\ wire' = wire \o Envelope(s[Len(sent) + 1])
        /\ UNCHANGED <<remainingData, reading, delivered, tooLong, errors, listenerVars, beatVars, client>>

(* The transport hands over the next piece of the stream. *)
Arrive ==
    \E n \in Chunks :
        /\ Up /\ ~reading /\ calls = {} /\ n <= Len(wire)
        /\ wire' = SubSeq(wire, n + 1, Len(wire))
        /\ remainingData' = remainingData \o SubSeq(wire, 1, n)
        /\ reading' = TRUE
        /\ UNCHANGED <<sent, delivered, tooLong, errors, listenerVars, beatVars, client>>

WholeFrame(buffer) == Len(buffer) >= HeaderSize + messageLength(buffer)

(* One turn of the while loop of SimpleEnvelopeP2PProvider::handleData. *)
TooShort ==
    /\ ~ /\ Len(remainingData) >= HeaderSize
         /\ messageLength(remainingData) > MaxReadLength \/ WholeFrame(remainingData)
    /\ reading' = FALSE
    /\ UNCHANGED <<sent, wire, remainingData, delivered, tooLong, errors, listenerVars>>
Oversized ==
    /\ Len(remainingData) >= HeaderSize /\ messageLength(remainingData) > MaxReadLength
    /\ remainingData' = <<>> /\ reading' = FALSE
    /\ tooLong' = TRUE /\ errors' = TRUE
    /\ UNCHANGED <<sent, wire, delivered, listenerVars>>
(* emitData calls P2PClient::handleData: the listeners are copied, and those  *)
(* to be called once are forgotten before the first handler runs.             *)
Frame(m) ==
    /\ delivered' = Append(delivered, m)
    /\ IF Decodes(m)
       THEN /\ calls' = listeners
            /\ listeners' = {l \in listeners : ~l.once}
            /\ UNCHANGED errors
       ELSE errors' = TRUE /\ UNCHANGED <<calls, listeners>>
    /\ UNCHANGED <<sent, wire, reading, tooLong, nextListenerId, heard>>
(* A mutant: what follows the first whole message of a piece is thrown away. *)
CompleteDropsRest ==
    /\ Len(remainingData) >= HeaderSize /\ messageLength(remainingData) <= MaxReadLength
    /\ WholeFrame(remainingData)
    /\ Frame(SubSeq(remainingData, HeaderSize + 1, HeaderSize + messageLength(remainingData)))
    /\ remainingData' = <<>>
Complete ==
    /\ Len(remainingData) >= HeaderSize /\ messageLength(remainingData) <= MaxReadLength
    /\ WholeFrame(remainingData)
    /\ LET n == HeaderSize + messageLength(remainingData)
       IN  /\ Frame(SubSeq(remainingData, HeaderSize + 1, n))
           /\ remainingData' = SubSeq(remainingData, n + 1, Len(remainingData))
HandleData ==
    /\ reading /\ calls = {} /\ client # "gone"
    /\ TooShort \/ Oversized \/ Complete
    /\ UNCHANGED <<beatVars, client>>

(* The loop of P2PClient::handleData over its copy. *)
CallListener ==
    /\ \E l \in calls : /\ \A other \in calls : l.id <= other.id
                       /\ heard' = [heard EXCEPT ![l.id] = @ + 1]
                       /\ calls' = calls \ {l}
    /\ UNCHANGED <<envelopeVars, errors, listeners, nextListenerId, beatVars, client>>

(* addMessage and removeListener, from outside or from inside a handler. *)
AddMessage ==
    \E once \in BOOLEAN :
        /\ client # "gone" /\ nextListenerId <= MaxListeners
        /\ listeners' = listeners \cup {[id |-> nextListenerId, once |-> once]}
        /\ nextListenerId' = nextListenerId + 1
        /\ UNCHANGED <<envelopeVars, errors, calls, heard, beatVars, client>>
RemoveListener ==
    \E i \in 1..(nextListenerId - 1) :
        /\ client # "gone"
        /\ listeners' = {l \in listeners : l.id # i}
        /\ UNCHANGED <<envelopeVars, errors, nextListenerId, calls, heard, beatVars, client>>

(* handleHeartbeat, from the timer: the next one is armed by the write's done(). *)
HeartbeatFires ==
    /\ timers > 0
    /\ timers' = timers - 1
    /\ firedOnGone' = (firedOnGone \/ client = "gone")
    /\ IF client = "gone" THEN UNCHANGED <<writes, beats>>
       ELSE beats < MaxBeats /\ beats' = beats + 1 /\ writes' = writes + 1
    /\ UNCHANGED <<envelopeVars, errors, listenerVars, heartbeat, client>>
resetHeartbeat == timers' = IF heartbeat THEN timers + 1 ELSE timers
Written ==
    /\ writes > 0 /\ client # "gone"
    /\ writes' = writes - 1
    /\ resetHeartbeat
    /\ UNCHANGED <<envelopeVars, errors, listenerVars, heartbeat, beats, client, firedOnGone>>
(* The transport never calls done(): no more heartbeats, and nobody hears of it. *)
WriteLost ==
    /\ writes > 0
    /\ writes' = writes - 1
    /\ UNCHANGED <<envelopeVars, errors, listenerVars, heartbeat, timers, beats, client, firedOnGone>>

(* end() and destroy(); then the destructor. Only heartbeatTimoutMs_ is reset.  *)
(* The transport delivers nothing after end(); the owner destroys the client   *)
(* outside its handlers and once the transport has dropped its writes.         *)
EndClient ==
    /\ Up
    /\ heartbeat' = FALSE /\ client' = "ended"
    /\ UNCHANGED <<envelopeVars, errors, listenerVars, timers, writes, beats, firedOnGone>>
Destructor ==
    /\ client = "ended" /\ calls = {} /\ ~reading /\ writes = 0
    /\ heartbeat' = FALSE /\ client' = "gone"
    /\ UNCHANGED <<envelopeVars, errors, listenerVars, timers, writes, beats, firedOnGone>>

(* The constructor arms the first timer when a heartbeat is asked for. *)
P2PInit ==
    /\ sent = <<>> /\ wire = <<>>
    /\ remainingData = <<>> /\ reading = FALSE /\ delivered = <<>>
    /\ tooLong = FALSE /\ errors = FALSE
    /\ listeners = {[id |-> 1, once |-> TRUE], [id |-> 2, once |-> FALSE]}
    /\ nextListenerId = 3 /\ calls = {} /\ heard = [i \in 1..MaxListeners |-> 0]
    /\ heartbeat \in BOOLEAN /\ timers = (IF heartbeat THEN 1 ELSE 0)
    /\ writes = 0 /\ beats = 0 /\ client = "up" /\ firedOnGone = FALSE
P2PNext ==
    \/ PeerSends \/ Arrive \/ HandleData \/ CallListener \/ AddMessage \/ RemoveListener
    \/ HeartbeatFires \/ Written \/ WriteLost \/ EndClient \/ Destructor
P2PSpec == P2PInit /\ [][P2PNext]_p2pVars

(* However the stream is cut, the envelope delivers the payloads the peer sent, *)
(* whole, in order and none twice, and between two packets it holds back only   *)
(* a proper prefix of the next frame; the one exception is a stream in which    *)
(* the length of a payload was too large, and the client was told. The message  *)
(* that a listener added with onceMessage hears is its last, and a heartbeat is *)
(* pending at most once (p2p.cpp:25, 164, 186).                                 *)
StreamWhole ==
    /\ tooLong \/ /\ IsPrefix(delivered, sent)
                  /\ ~reading => \/ remainingData = <<>>
                                 \/ /\ Len(delivered) < Len(sent)
                                    /\ IsStrictPrefix(remainingData, Envelope(sent[Len(delivered) + 1]))
    /\ tooLong => errors /\ \E i \in 1..Len(sent) : Len(sent[i]) > MaxReadLength
    /\ heard[1] <= 1 /\ timers + writes <= 1

(* p2p.cpp:120 "leaving it armed past teardown fires the callback on a         *)
(* destroyed client": no heartbeat handler runs after the destructor.          *)
NoTimerPastTeardown == ~firedOnGone
=============================================================================
