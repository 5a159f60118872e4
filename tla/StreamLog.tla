----------------------------- MODULE StreamLog ------------------------------
(***************************************************************************)
(* What an action stream promises the application that reads it, without   *)
(* sockets, subscriptions, numbers of frames or retries: the matching      *)
(* actions are given in the order of the chain, none is passed over unless *)
(* the client has said so or the server could not, and nothing is given    *)
(* after close().  ActionStream implements this module.                    *)
(***************************************************************************)
EXTENDS Naturals, Sequences

CONSTANTS
    Stream,        \* the global sequence numbers the filter matches
    StartSeq       \* the first one asked for

VARIABLES
    startAtHead,   \* the stream begins with whatever comes first
    head,          \* what the chain has produced
    given,         \* what the application got, in order
    excused,       \* what it was told about, or nobody could know of
    closed         \* the application is done

logVars == <<startAtHead, head, given, excused, closed>>

\* The first action that is still owed, if there is one.
Position ==
    IF given # <<>> THEN given[Len(given)] + 1 ELSE IF startAtHead THEN 0 ELSE StartSeq

\* Before its first action a stream that starts at the head owes none.
MaySkip(s) == s \in excused \/ (startAtHead /\ given = <<>>)

Init ==
    /\ startAtHead \in BOOLEAN
    /\ head = 0
    /\ given = <<>>
    /\ excused = {}
    /\ closed = FALSE

Produce ==
    /\ head' \in {s \in Stream : head < s}
    /\ UNCHANGED <<startAtHead, given, excused, closed>>

Give ==
    /\ ~closed
    /\ \E s \in Stream :
        /\ Position <= s /\ s <= head
        /\ \A t \in Stream : Position <= t /\ t < s => MaySkip(t)
        /\ given' = Append(given, s)
    /\ UNCHANGED <<startAtHead, head, excused, closed>>

\* The callback that is told may close the stream.
Excuse ==
    /\ \E s \in Stream : s <= head /\ excused' = excused \cup {s}
    /\ closed' \in {closed, TRUE}
    /\ UNCHANGED <<startAtHead, head, given>>

Close ==
    /\ closed' = TRUE
    /\ UNCHANGED <<startAtHead, head, given, excused>>

Next == Produce \/ Give \/ Excuse \/ Close

Spec == Init /\ [][Next]_logVars
=============================================================================
