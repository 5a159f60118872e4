------------------------------- MODULE Cosign -------------------------------
(***************************************************************************)
(* What a transact signs when hooks add actions to its request: a request   *)
(* is made of the arguments, hooks that append an action and cosigners that *)
(* prepend one and sign rewrite it, it is resolved against the head the     *)
(* context cached, and the wallet signs the outcome. Transact keeps the     *)
(* control of the pipeline; here a request is its actions, its header and   *)
(* its chain.                                                               *)
(*                                                                         *)
(* src/session/session.cpp           createRequest, transact,               *)
(*                                   signTransaction                        *)
(* src/session/transact.cpp          TransactContext                        *)
(* src/session/utils.cpp             appendAction, prependAction            *)
(* src/plugins/transact/cosigner.cpp, src/plugins/wallet/privatekey.cpp,    *)
(* src/plugins/wallet/cleos.cpp                                             *)
(***************************************************************************)
EXTENDS Naturals, Sequences, SequencesExt

CONSTANTS Args,          \* what transact is called with
          HookLists,     \* the beforeSign hooks of the registered plugins, in order
          SessionChain,  \* the chain of the session
          NoTapos,       \* a header without expiration and reference block
          DefaultExpire, \* 120 s, the default of TransactContext::resolve
          Expires,       \* what a caller asks for
          MaxHead        \* bound: heads of the chain during one transact

Noop == "noop"   \* the cosigner's action
Fee == "fee"     \* the action another plugin appends
ActionNames == STRING \cup {Noop, Fee}

Headers == [ref : Nat, expire : Nat]
CallArgs == [given : {"args", "request"}, kind : {"action", "actions", "transaction", "identity"},
             actions : Seq(ActionNames), header : Headers \cup {NoTapos}, chain : STRING,
             contextFree : BOOLEAN]
ASSUME CosignAssumption ==
    /\ Args \subseteq CallArgs /\ HookLists \subseteq Seq({"append", "cosigner"})
    /\ Expires \cup {DefaultExpire, MaxHead} \subseteq Nat
    /\ SessionChain \in STRING /\ NoTapos \notin Headers

VARIABLES tact,      \* the transact or signTransaction under way
          chainHead  \* what get_info answers

cosignVars == <<tact, chainHead>>

\* A request is its kind, its actions, its header and its chain, "any" for several.
Failed == [tact EXCEPT !.pc = "failed"]

CosignInit ==
    /\ chainHead = 1
    /\ tact = [pc |-> "idle", args |-> <<>>, request |-> <<>>, hooks |-> <<>>, allow |-> TRUE,
               modify |-> TRUE, expire |-> 0, wallet |-> "", ui |-> FALSE, info |-> 0,
               sigs |-> <<>>, tx |-> <<>>, afterSign |-> <<>>, shown |-> <<>>]

---------------------------------------------------------------------------
(* Requests.                                                                *)

\* With context free actions or data the arguments become a transaction; its
\* header is empty unless a transaction was given.
upgradeTransaction(a) == IF a.contextFree THEN [a EXCEPT !.kind = "transaction"] ELSE a

\* A request that is handed in keeps its chain, whichever that is; otherwise
\* SigningRequest::create makes one for the session's chain, of a single action
\* when the list has one.
createRequest(a) ==
    IF a.given = "request"
    THEN [kind |-> a.kind, actions |-> a.actions, header |-> a.header, chain |-> a.chain]
    ELSE LET u == upgradeTransaction(a)
         IN  [kind |-> IF u.kind = "actions" /\ Len(u.actions) = 1 THEN "action" ELSE u.kind,
              actions |-> u.actions, header |-> u.header, chain |-> SessionChain]

CanInsert(r) == r.kind # "identity"
insertAction(r, act, placement) ==
    [r EXCEPT !.kind = IF @ = "action" THEN "actions" ELSE @,
              !.actions = IF placement = "append" THEN Append(@, act) ELSE <<act>> \o @]
appendAction(r, act) == insertAction(r, act, "append")
prependAction(r, act) == insertAction(r, act, "prepend")

requiresTapos(r) == r.kind # "identity" /\ r.header = NoTapos

\* getInfo: the head is asked for once in a transact.
getInfo == IF tact.info # 0 THEN tact.info ELSE chainHead

\* TransactContext::resolve.
resolveWith(r, info, expire) ==
    [header |-> IF requiresTapos(r) THEN [ref |-> info, expire |-> expire] ELSE r.header,
     actions |-> r.actions]
InfoAfter(r) == IF requiresTapos(r) THEN getInfo ELSE tact.info

---------------------------------------------------------------------------
(* transact, up to the afterSign hooks.                                     *)

StartTransact(a, hooks, modify, expire, wallet, ui) ==
    /\ tact.pc = "idle"
    /\ tact' = [tact EXCEPT !.pc = "hooks", !.args = a, !.request = createRequest(a),
                            !.hooks = hooks, !.allow = modify, !.modify = modify,
                            !.expire = expire, !.wallet = wallet, !.ui = ui]
    /\ UNCHANGED chainHead

\* What transact does with the answer of a beforeSign hook.
HookAnswers(r, sigs, info) ==
    tact' = [tact EXCEPT !.hooks = Tail(@), !.info = info,
                         !.request = IF tact.allow THEN r ELSE @,
                         !.sigs = @ \o sigs, !.allow = @ /\ sigs = <<>>]

AppendingHook ==
    /\ tact.pc = "hooks" /\ tact.hooks # <<>> /\ Head(tact.hooks) = "append"
    /\ IF CanInsert(tact.request) THEN HookAnswers(appendAction(tact.request, Fee), <<>>, tact.info)
       ELSE tact' = Failed
    /\ UNCHANGED chainHead

\* (bug) the request goes on as it was, its header still open.
FixedAsActions(resolved, r) == r

\* The cosigner's new request: the resolved transaction, on the session's chain.
Fixed(resolved, r) ==
    [kind |-> "transaction", actions |-> resolved.actions, header |-> resolved.header,
     chain |-> SessionChain]

\* The cosigner resolves with the default expiration, and signs for the chain of
\* the request; one for many chains has none.
CosignerHook(reached) ==
    LET r == prependAction(tact.request, Noop)
        info == InfoAfter(r)
        resolved == resolveWith(r, info, DefaultExpire)
    IN  /\ tact.pc = "hooks" /\ tact.hooks # <<>> /\ Head(tact.hooks) = "cosigner"
        /\ IF CanInsert(tact.request) /\ tact.request.chain # "any"
              /\ (reached \/ info = tact.info)
           THEN HookAnswers(Fixed(resolved, r),
                            <<[by |-> "cosigner", tx |-> resolved, chain |-> tact.request.chain]>>, info)
           ELSE tact' = Failed
        /\ UNCHANGED chainHead

ResolveFinal(reached) ==
    /\ tact.pc = "hooks" /\ tact.hooks = <<>>
    /\ LET info == InfoAfter(tact.request)
       IN  tact' = IF ~reached /\ info # tact.info THEN Failed
                   ELSE [tact EXCEPT !.pc = "sign", !.info = info,
                            !.tx = resolveWith(tact.request, info, tact.expire)]
    /\ UNCHANGED chainHead

\* The private key signs for the session's chain.
PrivateKeySigns ==
    /\ tact.pc = "sign" /\ tact.wallet = "privatekey"
    /\ tact' = [tact EXCEPT !.pc = "signed",
                    !.sigs = Append(@, [by |-> "user", tx |-> tact.tx, chain |-> SessionChain])]
    /\ UNCHANGED chainHead

\* cleos signs nothing; it registers a hook that will show a command.
CleosSigns ==
    /\ tact.pc = "sign" /\ tact.wallet = "cleos"
    /\ tact' = IF tact.ui THEN [tact EXCEPT !.pc = "signed", !.afterSign = Append(@, tact.tx)]
               ELSE Failed
    /\ UNCHANGED chainHead

RunAfterSign ==
    /\ tact.pc = "signed"
    /\ \/ tact' = [tact EXCEPT !.pc = "done", !.shown = tact.afterSign]
       \/ tact.afterSign # <<>> /\ tact' = Failed
    /\ UNCHANGED chainHead

\* signTransaction has no hooks and no UI, and asks the wallet at once.
SignTransaction(a, wallet) ==
    /\ tact.pc = "idle" /\ a.kind = "transaction"
    /\ LET tx == [header |-> a.header, actions |-> a.actions]
       IN  tact' = [tact EXCEPT !.args = a, !.wallet = wallet, !.tx = tx,
                       !.pc = IF wallet = "cleos" THEN "failed" ELSE "done",
                       !.sigs = IF wallet = "cleos" THEN <<>>
                                ELSE <<[by |-> "user", tx |-> tx, chain |-> SessionChain]>>]
    /\ UNCHANGED chainHead

HeadMoves ==
    /\ tact.pc = "hooks" /\ chainHead < MaxHead
    /\ chainHead' = chainHead + 1
    /\ UNCHANGED tact

CosignNext ==
    \/ \E a \in Args, w \in {"privatekey", "cleos"} :
          \/ SignTransaction(a, w)
          \/ \E hs \in HookLists, m \in BOOLEAN, e \in Expires, ui \in BOOLEAN :
                StartTransact(a, hs, m, e, w, ui)
    \/ AppendingHook \/ (\E reached \in BOOLEAN : CosignerHook(reached) \/ ResolveFinal(reached))
    \/ PrivateKeySigns \/ CleosSigns \/ RunAfterSign \/ HeadMoves

---------------------------------------------------------------------------
(* Properties.                                                              *)

\* What is reported is what was asked, in that order, between the cosigners' actions
\* and those other hooks append; the user's signature and the command cleos shows are for exactly
\* that transaction; where modifications are allowed and the request is the
\* session's own, so is the signature of the first cosigner, whose action comes
\* first - a request for another chain makes it sign for that chain although the
\* session goes on with its own (cosigner.cpp:23), and what later cosigners sign
\* is never used. A header that was given is kept; else the transaction expires
\* as the caller asked, unless a cosigner took the default (cosigner.cpp:22).
CosignedFits ==
    LET t == tact
        Among(n, act) == [i \in 1..n |-> act]
        ByCosigner(i) == i \in DOMAIN t.sigs /\ t.sigs[i].by = "cosigner"
        cosigned == \E i \in DOMAIN t.sigs : ByCosigner(i)
    IN  t.pc = "done" =>
        /\ \E n, m \in 0..Len(t.tx.actions) :
              t.tx.actions = Among(n, Noop) \o t.args.actions \o Among(m, Fee)
        /\ \A i \in DOMAIN t.sigs : t.sigs[i].by = "user" => t.sigs[i].tx = t.tx
        /\ \A i \in DOMAIN t.shown : t.shown[i] = t.tx
        /\ t.modify /\ (t.args.given = "args" \/ t.args.chain = SessionChain) =>
              \A i \in DOMAIN t.sigs : ByCosigner(i) /\ (\A j \in 1..(i - 1) : ~ByCosigner(j)) =>
                  /\ t.sigs[i].tx = t.tx /\ t.sigs[i].chain = SessionChain
                  /\ t.tx.actions[1] = Noop
        /\ t.args.header # NoTapos => t.tx.header = t.args.header
        /\ t.request # <<>> /\ t.args.header = NoTapos /\ t.args.kind # "identity"
              /\ ~(cosigned /\ t.modify) => t.tx.header.expire = t.expire
=============================================================================
