------------------------------ MODULE Transact ------------------------------
(***************************************************************************)
(* One call of Session::transact (src/session/session.cpp): the            *)
(* pipeline from the request to the broadcast, with the hooks of the       *)
(* transact plugins, the wallet plugin, the user interface and the chain   *)
(* API answering as they please, failures included.                        *)
(*                                                                         *)
(* A request is abstracted to the version of the transaction it stands     *)
(* for: 0 as the caller gave it, i as the i-th beforeSign hook changed it, *)
(* Hooks + 1 as the wallet changed it.  A signature is a pair of who made  *)
(* it and the version it signs.                                            *)
(***************************************************************************)
EXTENDS Naturals, Sequences, FiniteSets

CONSTANTS
    Hooks,          \* number of beforeSign hooks the plugins registered
    LaterHooks      \* number of afterSign and of afterBroadcast hooks

ASSUME TransactAssumption == Hooks \in Nat /\ LaterHooks \in Nat

Wallet == Hooks + 1
Versions == 0 .. Wallet
Sigs == [by: 1 .. Wallet, tx: Versions]
Nothing == Wallet + 1       \* no transaction yet

\* Errors: of the chain API with a detail message, without one, or any other.
Errors == {"api", "apiBare", "other"}

VARIABLES
    pc,             \* the next stage of the pipeline
    opts,           \* ui: a UI is set; broadcast: willBroadcast
    hook,           \* hooks of the current stage that have run
    modifyAllowed,  \* whether the request may still change
    request,        \* the current request
    revisions,      \* result.revisions
    resolved,       \* result.resolved, Nothing before it is set
    signatures,     \* result.signatures
    executed,       \* the version the chain has executed, Nothing if none
    log,            \* the calls the UI received
    outcome,        \* "none" while running, then "ok" or an error
    dropped         \* history: hook signatures of changes not taken over

result == <<request, revisions, resolved, signatures>>
vars == <<pc, opts, hook, modifyAllowed, result, executed, log, outcome, dropped>>

Revision == [tx: Versions, allow: BOOLEAN, modified: BOOLEAN]

-----------------------------------------------------------------------------
\* (bug) A revision counts as allowed whatever the caller said.
WithAllowedRevision(tx, allow) ==
    Append(revisions, [tx |-> tx, allow |-> TRUE,
                       modified |-> tx # revisions[Len(revisions)].tx])

\* TransactRevisions::addRevision: modified is against the last revision.
WithRevision(tx, allow) ==
    Append(revisions, [tx |-> tx, allow |-> allow,
                       modified |-> tx # revisions[Len(revisions)].tx])

\* (bug) Only API errors reach the UI.
FailApiOnly(e) ==
    /\ pc' = "done"
    /\ outcome' = e
    /\ log' = IF opts.ui /\ e = "api" THEN Append(log, "onError") ELSE log

\* The error path: the UI hears of every error but one of the API that carries
\* no detail message.
Fail(e) ==
    /\ pc' = "done"
    /\ outcome' = e
    /\ log' = IF opts.ui /\ e # "apiBare" THEN Append(log, "onError") ELSE log

\* DK_CHECK(context.ui->call()): the call fails, or the pipeline goes on.
Ui(at, call, next) ==
    /\ pc = at
    /\ hook' = 0
    /\ UNCHANGED <<opts, modifyAllowed, result, executed, dropped>>
    /\ \/ /\ pc' = next
          /\ log' = IF opts.ui THEN Append(log, call) ELSE log
          /\ UNCHANGED outcome
       \/ /\ opts.ui
          /\ pc' = "done"
          /\ outcome' = "other"
          /\ log' = log \o <<call, "onError">>

Init ==
    /\ pc = "merge"
    /\ opts \in [ui: BOOLEAN, broadcast: BOOLEAN]
    /\ hook = 0
    /\ modifyAllowed \in BOOLEAN
    /\ request = 0
    /\ revisions = <<[tx |-> 0, allow |-> TRUE, modified |-> FALSE]>>
    /\ resolved = Nothing
    /\ signatures = {}
    /\ executed = Nothing
    /\ log = <<>>
    /\ outcome = "none"
    /\ dropped = {}

\* getMergedAbiCache: an inline ABI that does not parse ends the call before
\* its first stage is announced.
MergeAbis ==
    /\ pc = "merge"
    /\ \/ pc' = "onTransact" /\ UNCHANGED <<log, outcome>>
       \/ Fail("other")
    /\ UNCHANGED <<opts, hook, modifyAllowed, result, executed, dropped>>

OnTransact == Ui("onTransact", "onTransact", "create")

\* createRequest of the arguments; it may need an ABI and fail to fetch it.
Create ==
    /\ pc = "create"
    /\ \/ pc' = "beforeSign" /\ UNCHANGED <<log, outcome>>
       \/ \E e \in Errors : Fail(e)
    /\ UNCHANGED <<opts, hook, modifyAllowed, result, executed, dropped>>

-----------------------------------------------------------------------------
(* beforeSign                                                              *)

\* (bug) A signature does not close the request to later hooks.
AnswerKeepsOpen(tx, sigs) ==
    /\ pc = "beforeSign" /\ hook < Hooks
    /\ hook' = hook + 1
    /\ revisions' = WithRevision(tx, modifyAllowed)
    /\ request' = IF modifyAllowed THEN tx ELSE request
    /\ signatures' = signatures \cup sigs
    /\ UNCHANGED <<pc, opts, modifyAllowed, resolved, executed, log, outcome, dropped>>

\* The hook answers with a request, changed or not, and perhaps a signature of
\* what it answers with.
Answer(tx, sigs) ==
    /\ pc = "beforeSign" /\ hook < Hooks
    /\ hook' = hook + 1
    /\ revisions' = WithRevision(tx, modifyAllowed)
    /\ request' = IF modifyAllowed THEN tx ELSE request
    /\ signatures' = signatures \cup sigs
    /\ modifyAllowed' = (modifyAllowed /\ sigs = {})
    /\ dropped' = IF ~modifyAllowed /\ tx # request THEN dropped \cup sigs ELSE dropped
    /\ UNCHANGED <<pc, opts, resolved, executed, log, outcome>>

BeforeSignHook ==
    \E tx \in {request, hook + 1} :
        \E sigs \in {{}, {[by |-> hook + 1, tx |-> tx]}} : Answer(tx, sigs)

\* The hook has no answer (cleos, a plugin that only shows something).
BeforeSignSilent ==
    /\ pc = "beforeSign" /\ hook < Hooks
    /\ hook' = hook + 1
    /\ UNCHANGED <<pc, opts, modifyAllowed, result, executed, log, outcome, dropped>>

BeforeSignFails ==
    /\ pc = "beforeSign" /\ hook < Hooks
    /\ \E e \in Errors : Fail(e)
    /\ UNCHANGED <<opts, hook, modifyAllowed, result, executed, dropped>>

\* All hooks have run: the request is resolved (get_info and the ABIs).
Resolve ==
    /\ pc = "beforeSign" /\ hook = Hooks
    /\ pc' = "onSign"
    /\ resolved' = request
    /\ UNCHANGED <<opts, hook, modifyAllowed, request, revisions, signatures,
                   executed, log, outcome, dropped>>

ResolveFails ==
    /\ pc = "beforeSign" /\ hook = Hooks
    /\ \E e \in Errors : Fail(e)
    /\ UNCHANGED <<opts, hook, modifyAllowed, result, executed, dropped>>

-----------------------------------------------------------------------------
(* The wallet, afterSign                                                   *)

OnSign == Ui("onSign", "onSign", "sign")

\* The wallet signs the transaction it was given, or returns no signature and
\* leaves it to an afterSign hook it adds (cleos).
WalletSigns ==
    /\ pc = "sign"
    /\ signatures' \in {signatures, signatures \cup {[by |-> Wallet, tx |-> resolved]}}
    /\ pc' = "afterSign"
    /\ UNCHANGED <<opts, hook, modifyAllowed, request, revisions, resolved,
                   executed, log, outcome, dropped>>

\* (bug) The wallet's transaction is taken over without asking.
WalletModifiesFreely ==
    /\ pc = "sign"
    /\ signatures' = signatures \cup {[by |-> Wallet, tx |-> Wallet]}
    /\ request' = Wallet
    /\ resolved' = Wallet
    /\ pc' = "afterSign"
    /\ UNCHANGED <<opts, hook, modifyAllowed, revisions, executed, log, outcome, dropped>>

\* The wallet returns another transaction and its signature of that one.
WalletModifies ==
    /\ pc = "sign"
    /\ signatures' = signatures \cup {[by |-> Wallet, tx |-> Wallet]}
    /\ IF modifyAllowed
       THEN /\ request' = Wallet
            /\ resolved' = Wallet
            /\ pc' = "afterSign"
            /\ UNCHANGED <<log, outcome>>
       ELSE /\ Fail("other")
            /\ UNCHANGED <<request, resolved>>
    /\ UNCHANGED <<opts, hook, modifyAllowed, revisions, executed, dropped>>

\* A wallet's transport errors carry no API kind; a node it asks may.
WalletFails ==
    /\ pc = "sign"
    /\ \E e \in Errors : Fail(e)
    /\ UNCHANGED <<opts, hook, modifyAllowed, result, executed, dropped>>

\* One more hook of a stage passes or fails; after the last the next stage.
LaterHook(at, next) ==
    /\ pc = at
    /\ \/ /\ hook < LaterHooks
          /\ hook' = hook + 1
          /\ UNCHANGED <<pc, log, outcome>>
       \/ /\ hook < LaterHooks
          /\ \E e \in Errors : Fail(e)
          /\ UNCHANGED hook
       \/ /\ hook = LaterHooks
          /\ pc' = next
          /\ UNCHANGED <<hook, log, outcome>>
    /\ UNCHANGED <<opts, modifyAllowed, result, executed, dropped>>

AfterSign == LaterHook("afterSign", "onSignComplete")

\* (bug) The broadcast option is not looked at.
OnSignCompleteThenSend == Ui("onSignComplete", "onSignComplete", "onBroadcast")

OnSignComplete ==
    Ui("onSignComplete", "onSignComplete",
       IF opts.broadcast THEN "onBroadcast" ELSE "onTransactComplete")

-----------------------------------------------------------------------------
(* The broadcast                                                           *)

OnBroadcast == Ui("onBroadcast", "onBroadcast", "send")

\* The node executes a transaction only when every signature is of it.
Acceptable == signatures # {} /\ \A s \in signatures : s.tx = resolved

Send ==
    /\ pc = "send"
    /\ Acceptable
    /\ executed' = resolved
    /\ pc' = "returns"
    /\ UNCHANGED <<opts, hook, modifyAllowed, result, log, outcome, dropped>>

\* The node refuses, or its answer is lost after it executed or before.
SendFails ==
    /\ pc = "send"
    /\ \E e \in Errors : Fail(e)
    /\ executed' \in {executed} \cup (IF Acceptable THEN {resolved} ELSE {})
    /\ UNCHANGED <<opts, hook, modifyAllowed, result, dropped>>

\* processReturnValues may need an ABI and fail to fetch it or decode with it.
ReturnValues ==
    /\ pc = "returns"
    /\ \/ pc' = "afterBroadcast" /\ UNCHANGED <<log, outcome>>
       \/ \E e \in Errors : Fail(e)
    /\ UNCHANGED <<opts, hook, modifyAllowed, result, executed, dropped>>

AfterBroadcast == LaterHook("afterBroadcast", "onBroadcastComplete")

OnBroadcastComplete ==
    Ui("onBroadcastComplete", "onBroadcastComplete", "onTransactComplete")

OnTransactComplete ==
    /\ pc = "onTransactComplete"
    /\ pc' = "done"
    /\ \/ /\ outcome' = "ok"
          /\ log' = IF opts.ui THEN Append(log, "onTransactComplete") ELSE log
       \/ /\ opts.ui
          /\ outcome' = "other"
          /\ log' = log \o <<"onTransactComplete", "onError">>
    /\ UNCHANGED <<opts, hook, modifyAllowed, result, executed, dropped>>

\* transact has returned.
Returned == pc = "done" /\ UNCHANGED vars

Next ==
    \/ MergeAbis \/ OnTransact \/ Create
    \/ BeforeSignHook \/ BeforeSignSilent \/ BeforeSignFails
    \/ Resolve \/ ResolveFails
    \/ OnSign \/ WalletSigns \/ WalletModifies \/ WalletFails
    \/ AfterSign \/ OnSignComplete
    \/ OnBroadcast \/ Send \/ SendFails \/ ReturnValues
    \/ AfterBroadcast \/ OnBroadcastComplete
    \/ OnTransactComplete \/ Returned

Spec == Init /\ [][Next]_vars

-----------------------------------------------------------------------------
(* Properties                                                              *)

Stages == {"merge", "onTransact", "create", "beforeSign", "onSign", "sign",
           "afterSign", "onSignComplete", "onBroadcast", "send", "returns",
           "afterBroadcast", "onBroadcastComplete", "onTransactComplete", "done"}

UiCalls == {"onTransact", "onSign", "onSignComplete", "onBroadcast",
            "onBroadcastComplete", "onTransactComplete", "onError"}

\* The pipeline's state has values of its types.
TypeOK ==
    /\ pc \in Stages
    /\ opts \in [ui: BOOLEAN, broadcast: BOOLEAN]
    /\ hook \in Nat
    /\ modifyAllowed \in BOOLEAN
    /\ request \in Versions
    /\ revisions \in Seq(Revision) /\ revisions # <<>>
    /\ resolved \in Versions \cup {Nothing}
    /\ signatures \subseteq Sigs
    /\ executed \in Versions \cup {Nothing}
    /\ log \in Seq(UiCalls)
    /\ outcome \in {"none", "ok"} \cup Errors
    /\ dropped \subseteq Sigs

\* The transaction under way: the resolved one once there is one.
Final == IF resolved = Nothing THEN request ELSE resolved

\* Every signature collected is of the transaction the call goes on with,
\* whoever made it and whatever changed in between, except those a hook made
\* of a change that was not taken over.
SignaturesCover ==
    pc # "done" => \A s \in signatures \ dropped : s.tx = Final

\* "Disable further modifications once the request is signed": from the first
\* signature of a hook on, neither a hook nor the wallet changes the request.
FrozenOnceSigned == [][signatures # {} => request' = request]_vars

\* What the chain executed is the transaction the result reports, the caller
\* asked for the broadcast, and a call that says ok has had it executed.
ExecutedAsReported ==
    /\ executed # Nothing => executed = resolved /\ opts.broadcast
    /\ outcome = "ok" => (executed = resolved) = opts.broadcast

\* The revisions tell where the request came from: it is the answer of the last
\* revision that was allowed, unless the wallet changed it later.
RevisionsExplain ==
    request = Wallet \/
    LET allowed == {i \in 1 .. Len(revisions) : revisions[i].allow}
    IN  \E i \in allowed : /\ revisions[i].tx = request
                           /\ \A j \in allowed : j <= i

\* The calls of a transact that goes well.
Story == <<"onTransact", "onSign", "onSignComplete">>
         \o (IF opts.broadcast THEN <<"onBroadcast", "onBroadcastComplete">> ELSE <<>>)
         \o <<"onTransactComplete">>

\* The UI hears the stages in their order, each at most once; a call that ends
\* badly ends the story with one onError, unless the API error was bare, and
\* onBroadcastComplete is never heard of a transaction the chain has not.
UiStory ==
    \E n \in 0 .. Len(Story) :
        LET told == SubSeq(Story, 1, n)
        IN  /\ log \in {told, Append(told, "onError")}
            /\ opts.ui => (log # told) = (outcome \in {"api", "other"})
            /\ opts.ui /\ outcome = "ok" => n = Len(Story)
            /\ (\E i \in 1 .. n : Story[i] = "onBroadcastComplete") => executed # Nothing

-----------------------------------------------------------------------------
(* The call as its caller sees it                                          *)

StageNow ==
    CASE outcome = "ok" -> "ok"
      [] outcome \in Errors -> "failed"
      [] outcome = "none" /\ resolved = Nothing -> "open"
      [] outcome = "none" /\ resolved # Nothing /\ pc \in {"onSign", "sign"} -> "settled"
      [] OTHER -> IF executed = Nothing THEN "signed" ELSE "executed"
SignersOf(sigs) == {s.by : s \in sigs}
OfFinal == {s \in signatures : s.tx = Final}

Call == INSTANCE TransactCall WITH
    stage <- StageNow, tx <- Final,
    signers <- SignersOf(OfFinal), strays <- SignersOf(signatures \ OfFinal),
    fixed <- ~modifyAllowed, broadcast <- opts.broadcast,
    onChain <- executed # Nothing

\* Whatever the hooks, the wallet, the UI and the node do, and wherever the call ends:
\* it takes one transaction from party to party, nobody changes it once it is fixed by
\* a signature, and the chain executes that one or nothing, once, and as reported.
ImplementsCall == Call!Spec

\* TransactResult says of its signatures "The transaction signatures.", beside
\* "The resulting transaction.": each should be of that transaction.
SignaturesAreTheTransactions ==
    outcome = "ok" => \A s \in signatures : s.tx = resolved
=============================================================================
