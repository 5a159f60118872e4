------------------------------ MODULE Finality ------------------------------
(***************************************************************************)
(* The afterBroadcast hooks that wait for finality: the checker with its    *)
(* prompts and the callback. They run inside Session::transact, which       *)
(* returns only after them; the token they wait with nobody can cancel.     *)
(*                                                                         *)
(* src/plugins/transact/finality.cpp     waitForFinality and both plugins   *)
(* src/plugins/transact/explorerlink.cpp the link shown after a broadcast   *)
(***************************************************************************)
EXTENDS Naturals, Sequences

CONSTANT MaxRetries   \* how often waitForFinality asks again after a 404

ASSUME FinalityAssumption == MaxRetries \in Nat

VARIABLES hook,     \* the plugin under way: "checker", "callback", "explorer"
          at,       \* "begin", "ask", "pause", "done", "failed"
          retries,  \* 404s so far
          answer,   \* the node's last answer
          told      \* what the user or the callback was told

finalityVars == <<hook, at, retries, answer, told>>

Answers == {"irreversible", "reversible", "404", "500", "error"}

FinalityInit ==
    /\ hook \in {"checker", "callback", "explorer"}
    /\ at = "begin" /\ retries = 0 /\ answer = "none" /\ told = <<>>

Tell(m) == told' = Append(told, m)

\* The checker needs a UI and a resolved transaction, and tells the user that
\* it waits.
CheckerBegins ==
    /\ hook = "checker" /\ at = "begin"
    /\ \/ at' = "failed" /\ UNCHANGED told
       \/ at' = "ask" /\ Tell("reversible")
    /\ UNCHANGED <<hook, retries, answer>>

\* The callback needs the resolved transaction only, and says nothing yet.
CallbackBegins ==
    /\ hook = "callback" /\ at = "begin"
    /\ at' \in {"failed", "ask"}
    /\ UNCHANGED <<hook, retries, answer, told>>

\* The link after a broadcast: nothing without a UI; without an explorer or a
\* resolved transaction, and when the prompt fails, the hook does.
ExplorerLink ==
    /\ hook = "explorer" /\ at = "begin"
    /\ \/ at' = "done" /\ UNCHANGED told
       \/ at' = "failed" /\ UNCHANGED told
       \/ at' \in {"done", "failed"} /\ Tell("link")
    /\ UNCHANGED <<hook, retries, answer>>

\* A mutant: a 404 is not counted.
NextRetryUncounted(n) == n

NextRetry(n) == n + 1

\* One get_transaction_status. Not final: again after the interval. A 404 may
\* be a node that is behind: again a few times. Everything else ends the hook,
\* which logs the error and lets transact go on.
Ask(a) ==
    /\ at = "ask"
    /\ answer' = a
    /\ \/ a = "irreversible" /\ at' = "done" /\ Tell("final") /\ UNCHANGED retries
       \/ a = "reversible" /\ at' = "pause" /\ UNCHANGED <<retries, told>>
       \/ a = "404" /\ retries < MaxRetries /\ at' = "pause" /\ retries' = NextRetry(retries)
          /\ UNCHANGED told
       \/ (a \in {"500", "error"} \/ (a = "404" /\ retries >= MaxRetries))
          /\ at' = "done" /\ UNCHANGED <<retries, told>>
    /\ UNCHANGED hook

Pause ==
    /\ at = "pause" /\ at' = "ask"
    /\ UNCHANGED <<hook, retries, answer, told>>

FinalityNext == \/ CheckerBegins \/ CallbackBegins \/ ExplorerLink
                \/ (\E a \in Answers : Ask(a)) \/ Pause

\* A hook that was called keeps running; every request is answered or fails.
FinalityFairness == WF_finalityVars(FinalityNext)

---------------------------------------------------------------------------
\* A hook gives transact back unless the node says "reversible" again and again
\* - which it does for ever of a transaction that failed or was forked out, as
\* only IRREVERSIBLE ends the loop (finality.cpp:17-25) - and nobody is told that
\* a transaction is final before the node said so (finality.hpp:15-17).
FinalityEnds ==
    /\ [](Len(told) > 0 /\ told[Len(told)] = "final" => answer = "irreversible")
    /\ at = "ask" ~> (at = "done" \/ answer = "reversible")
=============================================================================
