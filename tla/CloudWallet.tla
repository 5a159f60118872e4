----------------------------- MODULE CloudWallet -----------------------------
(***************************************************************************)
(* The Cloud Wallet plugin: a login and a signature through the page in a   *)
(* WebViewBridge, and the check of what the wallet changed.                 *)
(*                                                                         *)
(* src/plugins/wallet/cloudwallet.cpp        popupLogin, popupTransact,     *)
(*                                           waxLogin, waxSign              *)
(* src/plugins/wallet/cloudwallet_utils.cpp  validateModifications          *)
(* src/plugins/wallet/cloudwallet_types.cpp  the messages of the page       *)
(*                                                                         *)
(* An action is its name, the actors that authorise it (in order) and the   *)
(* account its data names; the page is external and may answer anything.    *)
(***************************************************************************)
EXTENDS Naturals, Sequences, SequencesExt

CONSTANTS Requests,    \* transactions a session may ask to be signed
          Responses,   \* transactions a page may answer with
          User,        \* the actor of the session
          NoTx

\* A transaction is its actions, in order.
Transactions == Seq([name: STRING, auth: Seq(STRING), to: STRING])

ASSUME CloudAssumption ==
    Requests \cup Responses \subseteq Transactions /\ NoTx \notin Requests \cup Responses

VARIABLES page,   \* is the page of the bridge open
          job     \* the running or last call: where it is and what it holds

cloudVars == <<page, job>>

Resting == [pc |-> "idle", request |-> NoTx, signed |-> NoTx, resolved |-> NoTx]
CloudInit == page = FALSE /\ job = Resting

Ends(r) == job' = [job EXCEPT !.pc = r]

---------------------------------------------------------------------------
(* cloudwallet_utils.cpp                                                    *)

\* The actor whose authority is checked: the first of the first action.
OriginalActor(tx) == IF tx = <<>> \/ tx[1].auth = <<>> THEN "" ELSE tx[1].auth[1]

\* A mutant: an action is let through by its name alone.
AllowedByName(a, actor) ==
    ~Contains(a.auth, actor) \/ a.name \in {"transfer", "buyrambytes"}

Allowed(a, actor) ==
    \/ ~Contains(a.auth, actor)
    \/ a.name = "transfer" /\ a.to = "fee"
    \/ a.name = "buyrambytes" /\ a.to = actor

validateModifications(original, modified) ==
    /\ Range(original) \subseteq Range(modified)
    /\ \A i \in DOMAIN modified :
          modified[i] \in Range(original) \/ Allowed(modified[i], OriginalActor(original))

---------------------------------------------------------------------------
(* popupLogin and waxLogin, popupTransact and waxSign.                      *)

\* A message of the page, as far as the plugin tells messages apart; "part" is
\* the proof of a login or the serialized transaction of a signature.
PageMessages == [object : BOOLEAN, verified : BOOLEAN, part : {"fine", "malformed", "absent"}]

\* Any object is a login response: its proof is kept unread.
loginResponseFrom(m) == m.object

\* A hex string, a list of numbers, or an object of index keys, each key below
\* the number of keys; the bytes are cut to eight bits without a word.
parseSerializedTransaction(m) == m.part # "malformed"

signingResponseFrom(m) == m.object /\ parseSerializedTransaction(m)

\* bridge.open; without a chain, a UI or a bridge the call fails before it.
Open(call, tx) ==
    /\ job.pc \notin {"login", "ready", "sign"} /\ ~page
    /\ \/ page' = TRUE /\ job' = [Resting EXCEPT !.pc = call, !.request = tx]
       \/ page' = FALSE /\ job' = [Resting EXCEPT !.pc = "Invalid"]

\* A timeout and a closed page both become Canceled, other errors stay.
mapBridgeError(e) == IF e = "Transport" THEN "Transport" ELSE "Canceled"

\* awaitMessage fails; the page is closed in any case.
AwaitFails ==
    /\ job.pc \in {"login", "ready", "sign"}
    /\ page' = FALSE
    /\ \E e \in {"E_TIMEOUT", "Canceled", "Transport"} : Ends(mapBridgeError(e))

\* The page's answer to a login: popupLogin closes the page and parses the
\* message, then waxLogin wants it verified and its proof, if any, readable.
LoginAnswered(m) ==
    /\ job.pc = "login" /\ page' = FALSE
    /\ Ends(CASE ~loginResponseFrom(m) -> "Invalid"
             [] loginResponseFrom(m) /\ ~m.verified -> "Canceled"
             [] loginResponseFrom(m) /\ m.verified ->
                   IF m.part = "malformed" THEN "Invalid" ELSE "done")

\* The page is ready: the transaction is posted to it.
PageReady ==
    /\ job.pc = "ready"
    /\ \/ Ends("sign") /\ UNCHANGED page
       \/ Ends("Transport") /\ page' = FALSE

\* An answer to a signature that cannot be used: no object, malformed (this
\* comes before the question who vouches for it), unverified, no transaction.
SignUnusable(m) ==
    /\ job.pc = "sign" /\ page' = FALSE
    /\ ~(signingResponseFrom(m) /\ m.verified /\ m.part = "fine")
    /\ Ends(IF signingResponseFrom(m) /\ ~m.verified THEN "Canceled" ELSE "Invalid")

\* A usable answer: tx is what the wallet signed and returned.
SignAnswered(tx) ==
    /\ job.pc = "sign" /\ page' = FALSE
    /\ job' = IF tx = job.request THEN [job EXCEPT !.pc = "done", !.signed = tx]
              ELSE IF validateModifications(job.request, tx)
              THEN [job EXCEPT !.pc = "done", !.signed = tx, !.resolved = tx]
              ELSE [job EXCEPT !.pc = "Invalid"]

CloudNext ==
    \/ Open("login", NoTx)
    \/ \E tx \in Requests : Open("ready", tx)
    \/ AwaitFails \/ PageReady
    \/ \E m \in PageMessages : LoginAnswered(m) \/ SignUnusable(m)
    \/ \E tx \in Responses : SignAnswered(tx)

---------------------------------------------------------------------------
(* Properties.                                                              *)

\* What the session goes on with: the returned request, else its own.
Effective == IF job.resolved = NoTx THEN job.request ELSE job.resolved

\* The signatures that come back belong to the transaction the session goes
\* on to send; it still does everything that was asked for, and beyond that it
\* uses the user's authority only for the wallet's fee and for RAM of the user
\* - provided the user is the first authoriser of what was asked: only that
\* actor is looked at (cloudwallet_utils.cpp:33-37), so behind a cosigner's
\* action the user's additions pass unexamined. The page is closed by then.
CloudAnswerFits ==
    job.pc = "done" /\ job.request # NoTx =>
        /\ ~page
        /\ job.signed = Effective
        /\ \A i \in DOMAIN job.request : \E j \in DOMAIN Effective : Effective[j] = job.request[i]
        /\ OriginalActor(job.request) = User =>
              \A j \in DOMAIN Effective :
                 LET a == Effective[j] IN
                 \/ \E i \in DOMAIN job.request : job.request[i] = a
                 \/ \A k \in DOMAIN a.auth : a.auth[k] # User
                 \/ <<a.name, a.to>> \in {<<"transfer", "fee">>, <<"buyrambytes", User>>}
=============================================================================
