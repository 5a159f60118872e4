--------------------------- MODULE TransactProofs ---------------------------
(***************************************************************************)
(* Proofs about Transact, for any number of hooks: its types, and that a   *)
(* transaction, its signatures and what the chain executed stay together   *)
(* from the first hook to the end of the call; that the revisions explain  *)
(* the request; and what the user interface hears of it. And about         *)
(* FeePlugins: that what the hooks that buy resources make a transaction   *)
(* cost was agreed to.                                                     *)
(***************************************************************************)
EXTENDS Transact, FeePlugins, FiniteSetTheorems, FunctionTheorems, SequenceTheorems, TLAPS

\* The stages before the request is resolved, and those after the wallet.
Open == {"merge", "onTransact", "create", "beforeSign"}
Signed == {"afterSign", "onSignComplete", "onBroadcast", "send", "returns",
           "afterBroadcast", "onBroadcastComplete", "onTransactComplete"}

\* Up to the wallet's answer nothing has signed a request that may change.
UnsignedWhileOpen ==
    pc \in Open \cup {"onSign", "sign"} => (modifyAllowed => signatures = {})

\* The transaction is resolved between the hooks and the wallet, as the request
\* the hooks ended with.
ResolvedInTime ==
    /\ pc \in Open => resolved = Nothing
    /\ pc \in Signed \cup {"onSign", "sign"} => resolved \in Versions
    /\ pc \in {"onSign", "sign"} => resolved = request

\* The chain has the transaction exactly from the broadcast on.
ExecutedInTime ==
    /\ pc \in Open \cup {"onSign", "sign", "afterSign", "onSignComplete",
                         "onBroadcast", "send"} => executed = Nothing
    /\ pc \in {"onBroadcast", "send", "returns", "afterBroadcast",
               "onBroadcastComplete"} => opts.broadcast
    /\ pc \in {"returns", "afterBroadcast", "onBroadcastComplete"} =>
        executed = resolved
    /\ pc = "onTransactComplete" => (executed = resolved) = opts.broadcast
    /\ pc # "done" => outcome = "none"

IInv ==
    /\ TypeOK
    /\ UnsignedWhileOpen
    /\ ResolvedInTime
    /\ ExecutedInTime
    /\ SignaturesCover
    /\ ExecutedAsReported

-----------------------------------------------------------------------------
(* Facts about the helpers                                                 *)

\* Versions are numbers up to the wallet's, and no transaction is none of them.
LEMMA Numbers == /\ Hooks \in Nat
                 /\ LaterHooks \in Nat
                 /\ Wallet \in Versions
                 /\ 0 \in Versions
                 /\ Nothing \notin Versions
                 /\ Wallet \in 1 .. Wallet
                 /\ \A i \in Nat : i < Hooks => i + 1 \in Versions /\ i + 1 \in 1 .. Wallet
  BY TransactAssumption DEF Wallet, Versions, Nothing

\* A revision put at the end leaves the revisions well formed.
LEMMA RevisionTypes ==
  ASSUME TypeOK, NEW version \in Versions
  PROVE  /\ WithRevision(version, modifyAllowed) \in Seq(Revision)
         /\ WithRevision(version, modifyAllowed) # <<>>
<1> DEFINE r == [tx |-> version, allow |-> modifyAllowed,
                 modified |-> version # revisions[Len(revisions)].tx]
<1>1. r \in Revision
  BY DEF TypeOK, Revision
<1>2. revisions \in Seq(Revision)
  BY DEF TypeOK
<1> HIDE DEF r
<1>3. Append(revisions, r) \in Seq(Revision)
  BY <1>1, <1>2
<1>4. Len(Append(revisions, r)) = Len(revisions) + 1 /\ Len(revisions) \in Nat
  BY <1>1, <1>2
<1>5. Append(revisions, r) # <<>>
  BY <1>4
<1> QED
  BY <1>3, <1>5 DEF WithRevision, r

\* The error path ends the call with the error and a log of UI calls.
LEMMA FailTypes ==
  ASSUME TypeOK, NEW e \in Errors, Fail(e)
  PROVE  /\ pc' = "done"
         /\ outcome' \in Errors /\ outcome' # "ok"
         /\ log' \in Seq(UiCalls)
<1>1. "onError" \in UiCalls /\ log \in Seq(UiCalls)
  BY DEF UiCalls, TypeOK
<1>2. Append(log, "onError") \in Seq(UiCalls)
  BY <1>1
<1> QED
  BY <1>1, <1>2 DEF Fail, Errors

\* A call to the UI moves on to the next stage or ends the call.
LEMMA UiTypes ==
  ASSUME TypeOK, NEW at, NEW call \in UiCalls, NEW next, Ui(at, call, next)
  PROVE  /\ pc = at
         /\ log' \in Seq(UiCalls)
         /\ hook' = 0
         /\ UNCHANGED <<opts, modifyAllowed, result, executed, dropped>>
         /\ \/ pc' = next /\ UNCHANGED outcome
            \/ pc' = "done" /\ outcome' = "other"
<1>1. "onError" \in UiCalls /\ log \in Seq(UiCalls)
  BY DEF UiCalls, TypeOK
<1>2. Append(log, call) \in Seq(UiCalls)
  BY <1>1
<1>3. log \o <<call, "onError">> \in Seq(UiCalls)
  BY <1>1
<1> QED
  BY <1>1, <1>2, <1>3 DEF Ui
-----------------------------------------------------------------------------
(* Every step keeps the invariant                                          *)

\* Nothing is signed, resolved or executed when transact() begins.
LEMMA InvInit == Init => IInv
<1> SUFFICES ASSUME Init PROVE IInv
  OBVIOUS
<1>1. <<[tx |-> 0, allow |-> TRUE, modified |-> FALSE]>> \in Seq(Revision)
  BY Numbers DEF Revision
<1>2. revisions \in Seq(Revision) /\ revisions # <<>>
  BY <1>1 DEF Init
<1>3. TypeOK
  BY <1>2, Numbers DEF Init, TypeOK, Stages
<1> QED
  BY <1>3, Numbers DEF Init, IInv, UnsignedWhileOpen, ResolvedInTime, ExecutedInTime,
       SignaturesCover, ExecutedAsReported, Open, Signed

\* A step that ends the call badly, with at most what the chain executed changed.
LEMMA InvEnds ==
  ASSUME IInv,
         pc' = "done", outcome' \in Errors, log' \in Seq(UiCalls), hook' \in Nat,
         UNCHANGED <<opts, modifyAllowed, request, revisions, resolved, dropped>>,
         signatures' \subseteq Sigs,
         executed' = executed \/ (pc = "send" /\ executed' = resolved)
  PROVE  IInv'
<1>1. TypeOK'
  BY DEF IInv, TypeOK, Stages
<1>2. outcome' # "ok"
  BY DEF Errors
<1>3. ExecutedAsReported'
  BY <1>2 DEF IInv, ExecutedAsReported, ExecutedInTime
<1> QED
  BY <1>1, <1>2, <1>3 DEF IInv, UnsignedWhileOpen, ResolvedInTime, ExecutedInTime,
       SignaturesCover, Open, Signed

\* A step to another stage with what the call holds unchanged: the stages must
\* agree on whether the request is resolved, signed and executed.
LEMMA InvMoves ==
  ASSUME IInv,
         hook' \in Nat, log' \in Seq(UiCalls),
         UNCHANGED <<opts, modifyAllowed, result, executed, outcome, dropped>>,
         \/ pc' = pc /\ pc # "done"
         \/ pc \in Open /\ pc' \in Open
         \/ pc = "onSign" /\ pc' = "sign"
         \/ pc = "afterSign" /\ pc' = "onSignComplete"
         \/ pc = "onSignComplete" /\ opts.broadcast /\ pc' = "onBroadcast"
         \/ pc = "onSignComplete" /\ ~opts.broadcast /\ pc' = "onTransactComplete"
         \/ pc = "onBroadcast" /\ pc' = "send"
         \/ pc = "returns" /\ pc' = "afterBroadcast"
         \/ pc = "afterBroadcast" /\ pc' = "onBroadcastComplete"
         \/ pc = "onBroadcastComplete" /\ pc' = "onTransactComplete"
  PROVE  IInv'
<1>1. TypeOK'
  BY DEF IInv, TypeOK, Stages, Open, result
<1>2. UnsignedWhileOpen'
  BY DEF IInv, UnsignedWhileOpen, Open, result
<1>3. ResolvedInTime'
  BY DEF IInv, ResolvedInTime, Open, Signed, result
<1>4. ExecutedInTime'
  <2>1. opts.broadcast \in BOOLEAN
    BY DEF IInv, TypeOK
  <2>2. CASE pc = "onSignComplete" /\ ~opts.broadcast /\ pc' = "onTransactComplete"
    <3>1. executed # resolved /\ opts.broadcast = FALSE
      BY <2>1, <2>2, Numbers DEF IInv, ExecutedInTime, ResolvedInTime, Open, Signed
    <3> QED
      BY <2>2, <3>1 DEF IInv, ExecutedInTime, Open, result
  <2>3. CASE pc = "onBroadcastComplete" /\ pc' = "onTransactComplete"
    <3>1. executed = resolved /\ opts.broadcast = TRUE
      BY <2>1, <2>3 DEF IInv, ExecutedInTime
    <3> QED
      BY <2>3, <3>1 DEF IInv, ExecutedInTime, Open, result
  <2>4. CASE pc' # "onTransactComplete"
    BY <2>4 DEF IInv, ExecutedInTime, Open, result
  <2>5. CASE pc' = "onTransactComplete" /\ pc = "onTransactComplete"
    BY <2>5 DEF IInv, ExecutedInTime, Open, result
  <2> QED
    BY <2>2, <2>3, <2>4, <2>5 DEF Open
<1>5. SignaturesCover' /\ ExecutedAsReported'
  BY DEF IInv, SignaturesCover, Final, ExecutedAsReported, ExecutedInTime, Open, result
<1> QED
  BY <1>1, <1>2, <1>3, <1>4, <1>5 DEF IInv

\* A call to the UI that moves on as its stage says, or ends the call.
LEMMA InvUi ==
  ASSUME IInv, NEW at, NEW call \in UiCalls, NEW next, Ui(at, call, next),
         \/ at = "onTransact" /\ next = "create"
         \/ at = "onSign" /\ next = "sign"
         \/ at = "onSignComplete" /\ next = IF opts.broadcast THEN "onBroadcast"
                                           ELSE "onTransactComplete"
         \/ at = "onBroadcast" /\ next = "send"
         \/ at = "onBroadcastComplete" /\ next = "onTransactComplete"
  PROVE  IInv'
<1>1. /\ pc = at
      /\ log' \in Seq(UiCalls)
      /\ hook' = 0
      /\ UNCHANGED <<opts, modifyAllowed, result, executed, dropped>>
      /\ \/ pc' = next /\ UNCHANGED outcome
         \/ pc' = "done" /\ outcome' = "other"
  BY UiTypes DEF IInv
<1>2. hook' \in Nat
  BY <1>1
<1>3. CASE pc' = next /\ UNCHANGED outcome
  BY <1>1, <1>2, <1>3, InvMoves DEF Open
<1>4. CASE pc' = "done" /\ outcome' = "other"
  <2>1. outcome' \in Errors
    BY <1>4 DEF Errors
  <2>2. signatures' \subseteq Sigs
    BY <1>1 DEF IInv, TypeOK, result
  <2> QED
    BY <1>1, <1>2, <1>4, <2>1, <2>2, InvEnds DEF result
<1> QED
  BY <1>1, <1>3, <1>4

\* A step that fails and changes nothing else.
LEMMA InvFails ==
  ASSUME IInv, NEW e \in Errors, Fail(e),
         UNCHANGED <<opts, hook, modifyAllowed, result, executed, dropped>>
  PROVE  IInv'
<1>1. TypeOK
  BY DEF IInv
<1>2. pc' = "done" /\ outcome' \in Errors /\ log' \in Seq(UiCalls)
  BY <1>1, FailTypes
<1>3. hook' \in Nat /\ signatures' \subseteq Sigs
  BY <1>1 DEF TypeOK, result
<1> QED
  BY <1>2, <1>3, InvEnds DEF result

\* A step that only moves on, or fails.
LEMMA InvMovesOrFails ==
  ASSUME IInv,
         UNCHANGED <<opts, hook, modifyAllowed, result, executed, dropped>>,
         \/ /\ \/ pc = "merge" /\ pc' = "onTransact"
               \/ pc = "create" /\ pc' = "beforeSign"
               \/ pc = "returns" /\ pc' = "afterBroadcast"
            /\ UNCHANGED <<log, outcome>>
         \/ \E e \in Errors : Fail(e)
  PROVE  IInv'
<1>1. CASE \E e \in Errors : Fail(e)
  BY <1>1, InvFails
<1>2. CASE UNCHANGED <<log, outcome>> /\ ~\E e \in Errors : Fail(e)
  <2>1. hook' \in Nat /\ log' \in Seq(UiCalls)
    BY <1>2 DEF IInv, TypeOK
  <2> QED
    BY <1>2, <2>1, InvMoves DEF Open
<1> QED
  BY <1>1, <1>2

\* A beforeSign hook that answers: with its signature the request is closed, and
\* one of a change that came too late is set apart.
LEMMA InvAnswer ==
  ASSUME IInv, NEW version \in {request, hook + 1},
         NEW sigs \in {{}, {[by |-> hook + 1, tx |-> version]}}, Answer(version, sigs)
  PROVE  IInv'
<1>1. TypeOK /\ hook \in Nat /\ hook < Hooks /\ pc = "beforeSign"
  BY DEF IInv, TypeOK, Answer
<1>2. version \in Versions /\ hook + 1 \in 1 .. Wallet
  BY <1>1, Numbers DEF TypeOK
<1>3. sigs \subseteq Sigs /\ \A s \in sigs : s.tx = version
  BY <1>2 DEF Sigs
<1>4. /\ revisions' \in Seq(Revision) /\ revisions' # <<>>
      /\ request' \in Versions /\ hook' \in Nat /\ modifyAllowed' \in BOOLEAN
      /\ signatures' \subseteq Sigs /\ dropped' \subseteq Sigs
  <2>1. revisions' \in Seq(Revision) /\ revisions' # <<>>
    BY <1>1, <1>2, RevisionTypes DEF Answer
  <2>2. request' \in Versions /\ hook' \in Nat /\ modifyAllowed' \in BOOLEAN
    BY <1>1, <1>2 DEF TypeOK, Answer
  <2>3. signatures' \subseteq Sigs /\ dropped' \subseteq Sigs
    BY <1>1, <1>3 DEF TypeOK, Answer
  <2> QED
    BY <2>1, <2>2, <2>3
<1>5. TypeOK'
  BY <1>1, <1>4 DEF TypeOK, Answer
<1>6. UnsignedWhileOpen'
  <2>1. modifyAllowed => signatures = {}
    BY <1>1 DEF IInv, UnsignedWhileOpen, Open
  <2>2. modifyAllowed' => modifyAllowed /\ sigs = {} /\ signatures' = signatures \cup sigs
    BY DEF Answer
  <2> QED
    BY <2>1, <2>2 DEF UnsignedWhileOpen
<1>7. SignaturesCover'
  <2>1. resolved = Nothing /\ resolved' = Nothing /\ request' = Final'
    BY <1>1 DEF IInv, ResolvedInTime, Open, Answer, Final
  <2>2. \A s \in signatures \ dropped : s.tx = request
    BY <1>1, <2>1 DEF IInv, SignaturesCover, Final
  <2>3. CASE modifyAllowed
    <3>1. signatures = {} /\ request' = version /\ signatures' = signatures \cup sigs
      BY <1>1, <2>3 DEF IInv, UnsignedWhileOpen, Open, Answer
    <3> QED
      BY <1>3, <2>1, <3>1 DEF SignaturesCover
  <2>4. CASE ~modifyAllowed
    <3>1. /\ request' = request /\ signatures' = signatures \cup sigs
          /\ dropped \subseteq dropped'
          /\ version # request => sigs \subseteq dropped'
      BY <2>4 DEF Answer
    <3> QED
      BY <1>3, <2>1, <2>2, <3>1 DEF SignaturesCover
  <2> QED
    BY <2>3, <2>4
<1>8. ResolvedInTime' /\ ExecutedInTime' /\ ExecutedAsReported'
  BY <1>1 DEF IInv, ResolvedInTime, ExecutedInTime, ExecutedAsReported, Answer, Open, Signed
<1> QED
  BY <1>5, <1>6, <1>7, <1>8 DEF IInv

\* The request the hooks ended with is resolved, for the wallet to sign.
LEMMA InvResolve ==
  ASSUME IInv, Resolve
  PROVE  IInv'
<1>1. pc = "beforeSign" /\ request \in Versions /\ resolved = Nothing
  BY DEF IInv, TypeOK, Resolve, ResolvedInTime, Open
<1>2. TypeOK'
  BY <1>1 DEF IInv, TypeOK, Resolve, Stages
<1>3. Final = request /\ Final' = request
  BY <1>1, Numbers DEF Resolve, Final
<1>4. SignaturesCover'
  BY <1>1, <1>3 DEF IInv, SignaturesCover, Resolve
<1>5. UnsignedWhileOpen' /\ ResolvedInTime'
  BY <1>1 DEF IInv, UnsignedWhileOpen, ResolvedInTime, Resolve, Open, Signed
<1>6. ExecutedInTime' /\ ExecutedAsReported'
  BY <1>1 DEF IInv, ExecutedInTime, ExecutedAsReported, Resolve, Open
<1> QED
  BY <1>2, <1>4, <1>5, <1>6 DEF IInv

\* The wallet signs what was resolved, or leaves it to a later hook.
LEMMA InvWalletSigns ==
  ASSUME IInv, WalletSigns
  PROVE  IInv'
<1>1. pc = "sign" /\ resolved \in Versions /\ resolved # Nothing
  BY Numbers DEF IInv, WalletSigns, ResolvedInTime
<1> DEFINE s0 == [by |-> Wallet, tx |-> resolved]
<1>2. s0 \in Sigs /\ s0.tx = resolved
  BY <1>1, Numbers DEF Sigs
<1>3. TypeOK'
  BY <1>2 DEF IInv, TypeOK, WalletSigns, Stages
<1>4. Final = resolved /\ Final' = resolved
  BY <1>1 DEF WalletSigns, Final
<1>5. signatures' \subseteq signatures \cup {s0} /\ dropped' = dropped
  BY DEF WalletSigns
<1>6. SignaturesCover'
  BY <1>1, <1>2, <1>4, <1>5 DEF IInv, SignaturesCover
<1>7. UnsignedWhileOpen' /\ ResolvedInTime'
  BY <1>1 DEF IInv, UnsignedWhileOpen, ResolvedInTime, WalletSigns, Open, Signed
<1>8. ExecutedInTime' /\ ExecutedAsReported'
  BY <1>1 DEF IInv, ExecutedInTime, ExecutedAsReported, WalletSigns, Open
<1> QED
  BY <1>3, <1>6, <1>7, <1>8 DEF IInv

\* The wallet's own transaction is taken over only when nothing else signed.
LEMMA InvWalletModifies ==
  ASSUME IInv, WalletModifies
  PROVE  IInv'
<1> DEFINE s0 == [by |-> Wallet, tx |-> Wallet]
<1>1. pc = "sign" /\ (modifyAllowed => signatures = {})
  BY DEF IInv, WalletModifies, UnsignedWhileOpen
<1>2. s0 \in Sigs /\ s0.tx = Wallet /\ Wallet \in Versions /\ Wallet # Nothing
  BY Numbers DEF Sigs
<1>3. signatures' = signatures \cup {s0} /\ signatures' \subseteq Sigs
  BY <1>2 DEF IInv, TypeOK, WalletModifies
<1>4. CASE modifyAllowed
  <2>1. TypeOK'
    BY <1>2, <1>3, <1>4 DEF IInv, TypeOK, WalletModifies, Stages
  <2>2. signatures' = {s0} /\ Final' = Wallet
    BY <1>1, <1>2, <1>3, <1>4 DEF WalletModifies, Final
  <2>3. SignaturesCover'
    BY <1>2, <2>2 DEF SignaturesCover
  <2>4. UnsignedWhileOpen' /\ ResolvedInTime'
    BY <1>2, <1>4 DEF UnsignedWhileOpen, ResolvedInTime, WalletModifies, Open, Signed
  <2>5. ExecutedInTime' /\ ExecutedAsReported'
    BY <1>1, <1>4 DEF IInv, ExecutedInTime, ExecutedAsReported, WalletModifies, Open
  <2> QED
    BY <2>1, <2>3, <2>4, <2>5 DEF IInv
<1>5. CASE ~modifyAllowed
  <2>1. Fail("other") /\ "other" \in Errors
    BY <1>5 DEF WalletModifies, Errors
  <2>2. pc' = "done" /\ outcome' \in Errors /\ log' \in Seq(UiCalls)
    BY <2>1, FailTypes DEF IInv
  <2>3. hook' \in Nat
    BY DEF IInv, TypeOK, WalletModifies
  <2> QED
    BY <1>3, <1>5, <2>2, <2>3, InvEnds DEF WalletModifies
<1> QED
  BY <1>4, <1>5

\* afterSign and afterBroadcast hooks run, fail or are through.
LEMMA InvLaterHook ==
  ASSUME IInv, AfterSign \/ AfterBroadcast
  PROVE  IInv'
<1>1. PICK at \in {"afterSign", "afterBroadcast"}, next \in Stages :
        /\ LaterHook(at, next)
        /\ next = IF at = "afterSign" THEN "onSignComplete" ELSE "onBroadcastComplete"
  BY DEF AfterSign, AfterBroadcast, Stages
<1>2. hook \in Nat /\ log \in Seq(UiCalls) /\ signatures \subseteq Sigs /\ TypeOK
  BY DEF IInv, TypeOK
<1>3. /\ pc = at
      /\ UNCHANGED <<opts, modifyAllowed, result, executed, dropped>>
  BY <1>1 DEF LaterHook
<1>4. CASE hook' = hook + 1 /\ UNCHANGED <<pc, log, outcome>>
  <2>1. hook' \in Nat /\ log' \in Seq(UiCalls)
    BY <1>2, <1>4
  <2>2. pc # "done"
    BY <1>3
  <2> QED
    BY <1>3, <1>4, <2>1, <2>2, InvMoves
<1>5. CASE hook' = hook /\ \E e \in Errors : Fail(e)
  <2>1. PICK e \in Errors : Fail(e)
    BY <1>5
  <2>2. UNCHANGED <<opts, hook, modifyAllowed, result, executed, dropped>>
    BY <1>3, <1>5
  <2> QED
    BY <2>1, <2>2, InvFails
<1>6. CASE pc' = next /\ UNCHANGED <<hook, log, outcome>>
  <2>1. hook' \in Nat /\ log' \in Seq(UiCalls)
    BY <1>2, <1>6
  <2>2. \/ pc = "afterSign" /\ pc' = "onSignComplete"
        \/ pc = "afterBroadcast" /\ pc' = "onBroadcastComplete"
    BY <1>1, <1>3, <1>6
  <2> QED
    BY <1>3, <1>6, <2>1, <2>2, InvMoves
<1> QED
  BY <1>1, <1>4, <1>5, <1>6 DEF LaterHook

\* The node executes what the signatures are of: the resolved transaction.
LEMMA InvSend ==
  ASSUME IInv, Send
  PROVE  IInv'
<1>1. pc = "send" /\ opts.broadcast /\ resolved \in Versions
  BY DEF IInv, Send, ExecutedInTime, ResolvedInTime, Signed
<1>2. TypeOK'
  BY <1>1 DEF IInv, TypeOK, Send, Stages, result
<1>3. UnsignedWhileOpen' /\ ResolvedInTime' /\ ExecutedInTime'
  BY <1>1 DEF IInv, UnsignedWhileOpen, ResolvedInTime, ExecutedInTime, Send, Open, Signed,
       result
<1>4. SignaturesCover'
  BY <1>1 DEF IInv, SignaturesCover, Final, Send, result
<1>5. ExecutedAsReported'
  BY <1>1 DEF IInv, ExecutedAsReported, ExecutedInTime, Send, result
<1> QED
  BY <1>2, <1>3, <1>4, <1>5 DEF IInv

\* The answer of the broadcast is lost or bad, whether or not it executed.
LEMMA InvSendFails ==
  ASSUME IInv, SendFails
  PROVE  IInv'
<1>1. PICK e \in Errors : Fail(e)
  BY DEF SendFails
<1>2. pc' = "done" /\ outcome' \in Errors /\ log' \in Seq(UiCalls)
  BY <1>1, FailTypes DEF IInv
<1>3. hook' \in Nat /\ signatures' \subseteq Sigs
  BY DEF IInv, TypeOK, SendFails, result
<1>4. executed' = executed \/ (pc = "send" /\ executed' = resolved)
  BY DEF SendFails
<1> QED
  BY <1>2, <1>3, <1>4, InvEnds DEF SendFails, result

\* The last UI call ends transact(), well or with its error.
LEMMA InvComplete ==
  ASSUME IInv, OnTransactComplete
  PROVE  IInv'
<1>1. "onTransactComplete" \in UiCalls /\ "onError" \in UiCalls /\ log \in Seq(UiCalls)
  BY DEF IInv, TypeOK, UiCalls
<1>2. /\ Append(log, "onTransactComplete") \in Seq(UiCalls)
      /\ log \o <<"onTransactComplete", "onError">> \in Seq(UiCalls)
  BY <1>1
<1>3. log' \in Seq(UiCalls) /\ outcome' \in {"ok", "other"}
  BY <1>1, <1>2 DEF OnTransactComplete
<1>4. TypeOK'
  BY <1>3 DEF IInv, TypeOK, OnTransactComplete, Stages, Errors, result
<1>5. ExecutedAsReported'
  BY DEF IInv, ExecutedAsReported, ExecutedInTime, OnTransactComplete, result
<1>6. UnsignedWhileOpen' /\ ResolvedInTime' /\ ExecutedInTime' /\ SignaturesCover'
  BY DEF UnsignedWhileOpen, ResolvedInTime, ExecutedInTime, SignaturesCover,
       OnTransactComplete, Open, Signed
<1> QED
  BY <1>4, <1>5, <1>6 DEF IInv

\* A call that has returned stays as it is.
LEMMA InvStutter == ASSUME IInv, UNCHANGED vars PROVE IInv'
  BY DEF vars, result, IInv, TypeOK, UnsignedWhileOpen, ResolvedInTime, ExecutedInTime,
       SignaturesCover, Final, ExecutedAsReported

\* Every step keeps the invariant.
LEMMA InvNext == IInv /\ [Next]_vars => IInv'
<1> SUFFICES ASSUME IInv, [Next]_vars PROVE IInv'
  OBVIOUS
<1>1. CASE UNCHANGED vars \/ Returned
  BY <1>1, InvStutter DEF Returned
<1>2. CASE MergeAbis
  <2>1. "other" \in Errors
    BY DEF Errors
  <2> QED
    BY <1>2, <2>1, InvMovesOrFails DEF MergeAbis
<1>3. CASE Create
  BY <1>3, InvMovesOrFails DEF Create
<1>4. CASE ReturnValues
  BY <1>4, InvMovesOrFails DEF ReturnValues
<1>5. CASE OnTransact \/ OnSign \/ OnSignComplete \/ OnBroadcast \/ OnBroadcastComplete
  <2>1. {"onTransact", "onSign", "onSignComplete", "onBroadcast", "onBroadcastComplete"}
          \subseteq UiCalls
    BY DEF UiCalls
  <2>2. CASE OnTransact
    BY <2>1, <2>2, InvUi DEF OnTransact
  <2>3. CASE OnSign
    BY <2>1, <2>3, InvUi DEF OnSign
  <2>4. CASE OnSignComplete
    BY <2>1, <2>4, InvUi DEF OnSignComplete
  <2>5. CASE OnBroadcast
    BY <2>1, <2>5, InvUi DEF OnBroadcast
  <2>6. CASE OnBroadcastComplete
    BY <2>1, <2>6, InvUi DEF OnBroadcastComplete
  <2> QED
    BY <1>5, <2>2, <2>3, <2>4, <2>5, <2>6
<1>6. CASE BeforeSignHook
  BY <1>6, InvAnswer DEF BeforeSignHook
<1>7. CASE BeforeSignSilent
  <2>1. hook' \in Nat /\ log' \in Seq(UiCalls) /\ pc # "done"
    BY <1>7 DEF IInv, TypeOK, BeforeSignSilent
  <2> QED
    BY <1>7, <2>1, InvMoves DEF BeforeSignSilent
<1>8. CASE BeforeSignFails \/ ResolveFails \/ WalletFails
  <2>1. /\ \E e \in Errors : Fail(e)
        /\ UNCHANGED <<opts, hook, modifyAllowed, result, executed, dropped>>
    BY <1>8 DEF BeforeSignFails, ResolveFails, WalletFails
  <2> QED
    BY <2>1, InvFails
<1>9. CASE Resolve
  BY <1>9, InvResolve
<1>10. CASE WalletSigns \/ WalletModifies
  BY <1>10, InvWalletSigns, InvWalletModifies
<1>11. CASE AfterSign \/ AfterBroadcast
  BY <1>11, InvLaterHook
<1>12. CASE Send \/ SendFails \/ OnTransactComplete
  BY <1>12, InvSend, InvSendFails, InvComplete
<1> QED
  BY <1>1, <1>2, <1>3, <1>4, <1>5, <1>6, <1>7, <1>8, <1>9, <1>10, <1>11, <1>12 DEF Next

\* The invariant holds in every reachable state.
LEMMA InvAlways == Spec => []IInv
  BY InvInit, InvNext, PTL DEF Spec

-----------------------------------------------------------------------------
(* Theorems                                                                *)

\* The request, the revisions, the signatures and the log of a call of transact
\* (session.cpp) have their types, whatever the hooks answer.
THEOREM TypeCorrect == Spec => []TypeOK
<1>1. IInv => TypeOK
  BY DEF IInv
<1> QED
  BY <1>1, InvAlways, PTL

\* Every signature transact holds is of the transaction it goes on with, but for
\* those of a change a hook made too late.
THEOREM SignaturesAlwaysCover == Spec => []SignaturesCover
<1>1. IInv => SignaturesCover
  BY DEF IInv
<1> QED
  BY <1>1, InvAlways, PTL

\* The chain executes what transact reports, only when asked to broadcast, and a
\* broadcast that is reported to have gone well has been executed.
THEOREM AlwaysExecutedAsReported == Spec => []ExecutedAsReported
<1>1. IInv => ExecutedAsReported
  BY DEF IInv
<1> QED
  BY <1>1, InvAlways, PTL

\* From the first signature of a hook on nothing changes the request: a hook's
\* answer is kept as a revision only, the wallet's ends the call.
THEOREM RequestFrozenOnceSigned == Spec => FrozenOnceSigned
<1>1. IInv /\ [Next]_vars => (signatures # {} => request' = request) \/ UNCHANGED vars
  <2> SUFFICES ASSUME IInv, Next, signatures # {} PROVE request' = request
    BY DEF vars, result
  <2>1. CASE BeforeSignHook
    <3>1. PICK version \in {request, hook + 1}, sigs \in SUBSET [by : {hook + 1}, tx : {request, hook + 1}] :
            Answer(version, sigs)
      BY <2>1 DEF BeforeSignHook
    <3>2. ~modifyAllowed
      BY <3>1 DEF IInv, UnsignedWhileOpen, Open, Answer
    <3> QED
      BY <3>1, <3>2 DEF Answer
  <2>2. CASE WalletModifies
    <3>1. ~modifyAllowed
      BY <2>2 DEF IInv, UnsignedWhileOpen, Open, WalletModifies
    <3> QED
      BY <2>2, <3>1 DEF WalletModifies
  <2>3. CASE ~BeforeSignHook /\ ~WalletModifies
    BY <2>3 DEF Next, MergeAbis, OnTransact, Create, BeforeSignSilent, BeforeSignFails,
         Resolve, ResolveFails, OnSign, WalletSigns, WalletFails, AfterSign,
         OnSignComplete, OnBroadcast, Send, SendFails, ReturnValues, AfterBroadcast,
         OnBroadcastComplete, OnTransactComplete, Returned, Ui, LaterHook, result, vars
  <2> QED
    BY <2>1, <2>2, <2>3
<1>2. IInv /\ [Next]_vars => [signatures # {} => request' = request]_vars
  BY <1>1
<1> QED
  BY <1>2, InvAlways, PTL DEF Spec, FrozenOnceSigned

-----------------------------------------------------------------------------
(* What the caller sees of it *)

\* No hook answers as the wallet does.
BeforeWallet == pc \in Open \cup {"onSign", "sign"} => request # Wallet

\* The stages the caller tells apart.
LEMMA StagesAre ==
    /\ outcome = "ok" => StageNow = "ok"
    /\ outcome \in Errors => StageNow = "failed"
    /\ outcome = "none" /\ resolved = Nothing => StageNow = "open"
    /\ outcome = "none" /\ resolved # Nothing /\ pc \in {"onSign", "sign"} => StageNow = "settled"
    /\ outcome = "none" /\ resolved # Nothing /\ pc \notin {"onSign", "sign"} =>
         StageNow = IF executed = Nothing THEN "signed" ELSE "executed"
    /\ outcome' = "ok" => StageNow' = "ok"
    /\ outcome' \in Errors => StageNow' = "failed"
    /\ outcome' = "none" /\ resolved' = Nothing => StageNow' = "open"
    /\ outcome' = "none" /\ resolved' # Nothing /\ pc' \in {"onSign", "sign"}
         => StageNow' = "settled"
    /\ outcome' = "none" /\ resolved' # Nothing /\ pc' \notin {"onSign", "sign"} =>
         StageNow' = IF executed' = Nothing THEN "signed" ELSE "executed"
<1>1. "ok" \notin Errors /\ "none" \notin Errors
  BY DEF Errors
<1>2. outcome = "ok" => StageNow = "ok"
  BY DEF StageNow, Errors
<1>3. outcome' = "ok" => StageNow' = "ok"
  BY DEF StageNow, Errors
<1>4. outcome \in Errors => StageNow = "failed"
  BY <1>1 DEF StageNow
<1>5. outcome' \in Errors => StageNow' = "failed"
  BY <1>1 DEF StageNow
<1>6. ASSUME outcome = "none"
      PROVE  /\ resolved = Nothing => StageNow = "open"
             /\ resolved # Nothing /\ pc \in {"onSign", "sign"} => StageNow = "settled"
             /\ resolved # Nothing /\ pc \notin {"onSign", "sign"} =>
                  StageNow = IF executed = Nothing THEN "signed" ELSE "executed"
  <2>1. outcome # "ok" /\ outcome \notin Errors
    BY <1>1, <1>6
  <2>2. resolved = Nothing => StageNow = "open"
    BY <1>6, <2>1 DEF StageNow
  <2>3. resolved # Nothing /\ pc \in {"onSign", "sign"} => StageNow = "settled"
    BY <1>6, <2>1 DEF StageNow
  <2>4. resolved # Nothing /\ pc \notin {"onSign", "sign"} =>
          StageNow = IF executed = Nothing THEN "signed" ELSE "executed"
    BY <1>6, <2>1 DEF StageNow
  <2> QED
    BY <2>2, <2>3, <2>4
<1>7. ASSUME outcome' = "none"
      PROVE  /\ resolved' = Nothing => StageNow' = "open"
             /\ resolved' # Nothing /\ pc' \in {"onSign", "sign"} => StageNow' = "settled"
             /\ resolved' # Nothing /\ pc' \notin {"onSign", "sign"} =>
                  StageNow' = IF executed' = Nothing THEN "signed" ELSE "executed"
  <2>1. outcome' # "ok" /\ outcome' \notin Errors
    BY <1>1, <1>7
  <2>2. resolved' = Nothing => StageNow' = "open"
    BY <1>7, <2>1 DEF StageNow
  <2>3. resolved' # Nothing /\ pc' \in {"onSign", "sign"} => StageNow' = "settled"
    BY <1>7, <2>1 DEF StageNow
  <2>4. resolved' # Nothing /\ pc' \notin {"onSign", "sign"} =>
          StageNow' = IF executed' = Nothing THEN "signed" ELSE "executed"
    BY <1>7, <2>1 DEF StageNow
  <2> QED
    BY <2>2, <2>3, <2>4
<1> QED
  BY <1>2, <1>3, <1>4, <1>5, <1>6, <1>7

\* The stage a call is at says where the pipeline is.
LEMMA StageInTime ==
  ASSUME IInv, pc # "done"
  PROVE  /\ outcome = "none"
         /\ pc \in Open => StageNow = "open" /\ Final = request
         /\ pc \in {"onSign", "sign"} => StageNow = "settled" /\ Final = resolved
                                         /\ resolved = request
         /\ pc \in Signed => /\ Final = resolved
                             /\ StageNow = IF executed = Nothing THEN "signed" ELSE "executed"
         /\ StageNow \notin {"ok", "failed"}
<1>1. outcome = "none" /\ pc \in Open \cup {"onSign", "sign"} \cup Signed
  BY DEF IInv, TypeOK, ExecutedInTime, Stages, Open, Signed
<1>2. /\ pc \in Open => resolved = Nothing
      /\ pc \in Signed \cup {"onSign", "sign"} => resolved # Nothing
      /\ pc \in {"onSign", "sign"} => resolved = request
  BY Numbers DEF IInv, ResolvedInTime
<1>3. "onSign" \notin Signed /\ "sign" \notin Signed
  BY DEF Signed
<1> QED
  BY <1>1, <1>2, <1>3, StagesAre DEF Final

\* What a step leaves to the caller's eyes when it leaves the transaction.
LEMMA SightKept ==
  ASSUME UNCHANGED <<request, resolved, signatures>>
  PROVE  /\ Final' = Final
         /\ SignersOf(OfFinal)' = SignersOf(OfFinal)
         /\ SignersOf(signatures \ OfFinal)' = SignersOf(signatures \ OfFinal)
  BY DEF Final, SignersOf, OfFinal

\* Whose signatures they are.
LEMMA SignersAre ==
  /\ SignersOf({}) = {}
  /\ \A a, b : SignersOf(a \cup b) = SignersOf(a) \cup SignersOf(b)
  /\ \A a, p : a # {} /\ (\A x \in a : x.by = p) => SignersOf(a) = {p}
  BY DEF SignersOf

\* A step that fails is the caller's failure, and nothing else changes.
LEMMA CallFails ==
  ASSUME IInv, pc # "done", outcome' \in Errors,
         UNCHANGED <<opts, modifyAllowed, request, resolved, signatures>>,
         executed' = executed
  PROVE  Call!Next
<1>1. StageNow \notin {"ok", "failed"} /\ StageNow' = "failed"
  BY StageInTime, StagesAre
<1>2. Call!Fail
  BY <1>1, SightKept DEF Call!Fail
<1> QED
  BY <1>2 DEF Call!Next

\* A step within a stage is nothing the caller sees.
LEMMA CallStays ==
  ASSUME IInv, pc # "done", outcome' = outcome,
         UNCHANGED <<opts, modifyAllowed, request, resolved, signatures, executed>>,
         \/ pc' = pc
         \/ pc \in Open /\ pc' \in Open
         \/ pc = "onSign" /\ pc' = "sign"
         \/ pc \in Signed /\ pc' \in Signed
  PROVE  UNCHANGED Call!callVars
<1>1. "onSign" \notin Signed /\ "sign" \notin Signed /\ "onSign" \notin Open /\ "sign" \notin Open
  BY DEF Signed, Open
<1>2. StageNow' = StageNow
  <2>1. outcome = "none" /\ (pc \in Open => resolved = Nothing)
    BY StageInTime DEF IInv, ResolvedInTime
  <2> QED
    BY <1>1, <2>1, StagesAre
<1> QED
  BY <1>2, SightKept DEF Call!callVars

\* A call to the UI is not seen, or ends the call.
LEMMA CallUi ==
  ASSUME IInv, NEW at, NEW call \in UiCalls, NEW next, Ui(at, call, next), at # "done",
         \/ at \in Open /\ next \in Open
         \/ at = "onSign" /\ next = "sign"
         \/ at \in Signed /\ next \in Signed
  PROVE  [Call!Next]_(Call!callVars)
<1>1. /\ pc = at
      /\ UNCHANGED <<opts, modifyAllowed, result, executed, dropped>>
      /\ \/ pc' = next /\ UNCHANGED outcome
         \/ pc' = "done" /\ outcome' = "other"
  BY UiTypes DEF IInv
<1>2. CASE pc' = next /\ UNCHANGED outcome
  BY <1>1, <1>2, CallStays DEF result
<1>3. CASE outcome' = "other"
  BY <1>1, <1>3, CallFails DEF result, Errors
<1> QED
  BY <1>1, <1>2, <1>3

\* A step that fails, or moves on within its stage.
LEMMA CallMovesOrFails ==
  ASSUME IInv, pc # "done",
         UNCHANGED <<opts, modifyAllowed, result, executed, dropped>>,
         \/ \E e \in Errors : Fail(e)
         \/ /\ outcome' = outcome
            /\ pc' = pc \/ (pc \in Open /\ pc' \in Open) \/ (pc \in Signed /\ pc' \in Signed)
  PROVE  [Call!Next]_(Call!callVars)
<1>1. CASE \E e \in Errors : Fail(e)
  <2>1. outcome' \in Errors
    BY <1>1 DEF Fail
  <2> QED
    BY <2>1, CallFails DEF result
<1>2. CASE outcome' = outcome /\ ~\E e \in Errors : Fail(e)
  BY <1>2, CallStays DEF result
<1> QED
  BY <1>1, <1>2

\* A hook's answer is taken while the request is open; later only a signature of
\* it counts, one of anything else is kept beside it.
LEMMA CallAnswer ==
  ASSUME IInv, BeforeWallet, NEW version \in {request, hook + 1},
         NEW sigs \in {{}, {[by |-> hook + 1, tx |-> version]}}, Answer(version, sigs)
  PROVE  BeforeWallet' /\ [Call!Next]_(Call!callVars)
<1> DEFINE p == hook + 1
<1>1. /\ hook \in Nat /\ hook < Hooks /\ pc = "beforeSign" /\ modifyAllowed \in BOOLEAN
      /\ pc' = pc /\ resolved' = resolved /\ outcome' = outcome /\ executed' = executed
      /\ opts' = opts
      /\ signatures' = signatures \cup sigs
      /\ request' = IF modifyAllowed THEN version ELSE request
      /\ modifyAllowed' = (modifyAllowed /\ sigs = {})
  BY DEF IInv, TypeOK, Answer
<1>2. /\ p \in 1 .. Hooks /\ p # Wallet /\ request # Wallet
  BY <1>1, TransactAssumption DEF BeforeWallet, Open, Wallet
<1>3. BeforeWallet'
  BY <1>1, <1>2 DEF BeforeWallet
<1>4. /\ resolved = Nothing /\ resolved' = Nothing
      /\ Final = request /\ Final' = request'
      /\ StageNow = "open" /\ StageNow' = "open"
  <2>1. resolved = Nothing /\ outcome = "none"
    BY <1>1 DEF IInv, ResolvedInTime, ExecutedInTime, Open
  <2> QED
    BY <1>1, <2>1, StagesAre DEF Final
<1>5. (\A x \in sigs : x.by = p /\ x.tx = version) /\ (version # request => version = p)
  OBVIOUS
<1> HIDE DEF p
<1>6. sigs # {} => SignersOf(sigs) = {p}
  BY <1>5, SignersAre
<1>7. CASE modifyAllowed
  <2>1. signatures = {} /\ Final' = version
    BY <1>1, <1>4, <1>7 DEF IInv, UnsignedWhileOpen, Open
  <2>2. OfFinal = {} /\ OfFinal' = sigs /\ signatures' \ OfFinal' = {}
    BY <1>1, <1>5, <2>1 DEF OfFinal
  <2>3. /\ SignersOf(OfFinal) = {} /\ SignersOf(OfFinal)' = SignersOf(sigs)
        /\ SignersOf(signatures \ OfFinal) = {} /\ SignersOf(signatures \ OfFinal)' = {}
    BY <2>1, <2>2, SignersAre DEF SignersOf
  <2>4. CASE sigs = {} /\ version = request
    <3>1. UNCHANGED Call!callVars
      BY <1>1, <1>4, <1>7, <2>1, <2>3, <2>4, SignersAre DEF Call!callVars
    <3> QED
      BY <1>3, <3>1
  <2>5. CASE sigs # {} /\ version = request
    <3>1. Call!Hook(p, FALSE, TRUE)
      BY <1>1, <1>4, <1>6, <1>7, <2>1, <2>3, <2>5 DEF Call!Hook, Call!Answers
    <3> QED
      BY <1>2, <1>3, <3>1 DEF Call!Next
  <2>6. CASE sigs = {} /\ version # request
    <3>1. Call!Hook(p, TRUE, FALSE)
      BY <1>1, <1>4, <1>5, <1>7, <2>1, <2>3, <2>6, SignersAre DEF Call!Hook, Call!Answers
    <3> QED
      BY <1>2, <1>3, <3>1 DEF Call!Next
  <2>7. CASE sigs # {} /\ version # request
    <3>1. Call!Hook(p, TRUE, TRUE)
      BY <1>1, <1>4, <1>5, <1>6, <1>7, <2>1, <2>3, <2>7 DEF Call!Hook, Call!Answers
    <3> QED
      BY <1>2, <1>3, <3>1 DEF Call!Next
  <2> QED
    BY <1>3, <2>4, <2>5, <2>6, <2>7
<1>8. CASE ~modifyAllowed
  <2>1. Final' = Final /\ ~modifyAllowed'
    BY <1>1, <1>4, <1>8
  <2>2. CASE sigs = {}
    <3>1. signatures' = signatures /\ request' = request
      BY <1>1, <1>8, <2>2
    <3> QED
      BY <1>1, <1>3, <1>4, <1>8, <2>1, <3>1, SightKept DEF Call!callVars
  <2>3. CASE sigs # {} /\ version = request
    <3>1. OfFinal' = OfFinal \cup sigs /\ signatures' \ OfFinal' = signatures \ OfFinal
      BY <1>1, <1>4, <1>5, <2>1, <2>3 DEF OfFinal
    <3>2. /\ SignersOf(OfFinal)' = SignersOf(OfFinal) \cup {p}
          /\ SignersOf(signatures \ OfFinal)' = SignersOf(signatures \ OfFinal)
      BY <1>6, <2>3, <3>1, SignersAre DEF SignersOf
    <3>3. Call!Hook(p, FALSE, TRUE)
      BY <1>1, <1>4, <1>8, <2>1, <3>2 DEF Call!Hook, Call!Answers
    <3> QED
      BY <1>2, <1>3, <3>3 DEF Call!Next
  <2>4. CASE sigs # {} /\ version # request
    <3>1. OfFinal' = OfFinal /\ signatures' \ OfFinal' = (signatures \ OfFinal) \cup sigs
      BY <1>1, <1>4, <1>5, <2>1, <2>4 DEF OfFinal
    <3>2. /\ SignersOf(OfFinal)' = SignersOf(OfFinal)
          /\ SignersOf(signatures \ OfFinal)' = SignersOf(signatures \ OfFinal) \cup {p}
      BY <1>6, <2>4, <3>1, SignersAre DEF SignersOf
    <3>3. Call!HookTooLate(p)
      BY <1>1, <1>4, <1>8, <2>1, <3>2 DEF Call!HookTooLate
    <3> QED
      BY <1>2, <1>3, <3>3 DEF Call!Next
  <2> QED
    BY <2>2, <2>3, <2>4
<1> QED
  BY <1>1, <1>3, <1>7, <1>8

\* The hooks are through: the transaction is settled for the wallet.
LEMMA CallResolves ==
  ASSUME IInv, Resolve
  PROVE  Call!Next
<1>1. /\ pc = "beforeSign" /\ pc' = "onSign" /\ resolved' = request /\ request \in Versions
      /\ UNCHANGED <<opts, modifyAllowed, request, signatures, executed, outcome>>
  BY DEF Resolve, IInv, TypeOK
<1>2. StageNow = "open" /\ Final = request /\ outcome = "none"
  BY <1>1, StageInTime DEF Open
<1>3. Final' = Final /\ StageNow' = "settled"
  BY <1>1, <1>2, Numbers, StagesAre DEF Final
<1>4. OfFinal' = OfFinal /\ signatures' = signatures
  BY <1>1, <1>3 DEF OfFinal
<1>5. Call!Settle
  BY <1>1, <1>2, <1>3, <1>4 DEF Call!Settle, SignersOf
<1> QED
  BY <1>5 DEF Call!Next

\* The wallet signs the transaction it was given, or nothing.
LEMMA CallWalletSigns ==
  ASSUME IInv, WalletSigns
  PROVE  Call!Next
<1> DEFINE s0 == [by |-> Wallet, tx |-> resolved]
<1>1. /\ pc = "sign" /\ pc' = "afterSign" /\ signatures' \in {signatures, signatures \cup {s0}}
      /\ UNCHANGED <<opts, modifyAllowed, request, resolved, executed, outcome>>
  BY DEF WalletSigns
<1>2. /\ StageNow = "settled" /\ Final = resolved /\ outcome = "none"
      /\ resolved # Nothing /\ executed = Nothing
  BY <1>1, StageInTime, Numbers DEF IInv, ExecutedInTime, ResolvedInTime
<1>3. Final' = Final /\ StageNow' = "signed"
  BY <1>1, <1>2, StagesAre DEF Final
<1>4. s0.tx = resolved /\ s0.by = Call!Last
  BY DEF Call!Last, Wallet
<1> HIDE DEF s0
<1>5. CASE signatures' = signatures
  <2>1. Call!Wallet(FALSE, FALSE)
    BY <1>1, <1>2, <1>3, <1>5, SightKept DEF Call!Wallet, Call!Answers
  <2> QED
    BY <2>1 DEF Call!Next
<1>6. CASE signatures' = signatures \cup {s0}
  <2>1. OfFinal' = OfFinal \cup {s0} /\ signatures' \ OfFinal' = signatures \ OfFinal
    BY <1>2, <1>3, <1>4, <1>6 DEF OfFinal
  <2>2. SignersOf({s0}) = {Call!Last}
    BY <1>4 DEF SignersOf
  <2>3. /\ SignersOf(OfFinal)' = SignersOf(OfFinal) \cup {Call!Last}
        /\ SignersOf(signatures \ OfFinal)' = SignersOf(signatures \ OfFinal)
    BY <2>1, <2>2, SignersAre DEF SignersOf
  <2>4. Call!Wallet(FALSE, TRUE)
    BY <1>1, <1>2, <1>3, <2>3 DEF Call!Wallet, Call!Answers
  <2> QED
    BY <2>4 DEF Call!Next
<1> QED
  BY <1>1, <1>5, <1>6

\* The wallet's own transaction takes the place of the request while nobody has
\* signed that one, and is the end of the call afterwards.
LEMMA CallWalletModifies ==
  ASSUME IInv, BeforeWallet, WalletModifies
  PROVE  Call!Next
<1> DEFINE s0 == [by |-> Wallet, tx |-> Wallet]
<1>1. /\ pc = "sign" /\ signatures' = signatures \cup {s0}
      /\ UNCHANGED <<opts, modifyAllowed, executed>>
      /\ Wallet \in Versions /\ Wallet # Nothing /\ Wallet = Call!Last
  BY Numbers DEF WalletModifies, Call!Last, Wallet
<1>2. /\ StageNow = "settled" /\ Final = resolved /\ resolved = request /\ request # Wallet
      /\ outcome = "none" /\ executed = Nothing
  BY <1>1, StageInTime DEF IInv, ExecutedInTime, BeforeWallet
<1>3. s0.tx = Wallet /\ s0.by = Wallet
  OBVIOUS
<1> HIDE DEF s0
<1>4. SignersOf({s0}) = {Wallet}
  BY <1>3 DEF SignersOf
<1>5. CASE modifyAllowed
  <2>1. /\ signatures = {} /\ request' = Wallet /\ resolved' = Wallet /\ pc' = "afterSign"
        /\ outcome' = outcome
    BY <1>1, <1>5 DEF IInv, UnsignedWhileOpen, WalletModifies
  <2>2. Final' = Wallet /\ StageNow' = "signed"
    BY <1>1, <1>2, <2>1, StagesAre DEF Final
  <2>3. OfFinal = {} /\ OfFinal' = {s0} /\ signatures' \ OfFinal' = {}
    BY <1>1, <1>3, <2>1, <2>2 DEF OfFinal
  <2>4. /\ SignersOf(OfFinal) = {} /\ SignersOf(OfFinal)' = {Wallet}
        /\ SignersOf(signatures \ OfFinal) = {} /\ SignersOf(signatures \ OfFinal)' = {}
    BY <1>4, <2>1, <2>3, SignersAre DEF SignersOf
  <2>5. Call!Wallet(TRUE, TRUE)
    BY <1>1, <1>2, <1>5, <2>2, <2>4 DEF Call!Wallet, Call!Answers
  <2> QED
    BY <2>5 DEF Call!Next
<1>6. CASE ~modifyAllowed
  <2>1. request' = request /\ resolved' = resolved /\ outcome' = "other"
    BY <1>6 DEF WalletModifies, Fail
  <2>2. Final' = Final /\ StageNow' = "failed"
    BY <2>1, StagesAre DEF Final, Errors
  <2>3. OfFinal' = OfFinal /\ signatures' \ OfFinal' = (signatures \ OfFinal) \cup {s0}
    BY <1>1, <1>2, <1>3, <2>2 DEF OfFinal
  <2>4. /\ SignersOf(OfFinal)' = SignersOf(OfFinal)
        /\ SignersOf(signatures \ OfFinal)' = SignersOf(signatures \ OfFinal) \cup {Wallet}
    BY <1>4, <2>3, SignersAre DEF SignersOf
  <2>5. Call!WalletTooLate
    BY <1>1, <1>2, <1>6, <2>2, <2>4 DEF Call!WalletTooLate
  <2> QED
    BY <2>5 DEF Call!Next
<1> QED
  BY <1>5, <1>6

\* The node takes a transaction that all its signatures are of.
LEMMA AcceptableIs ==
  ASSUME IInv, pc = "send"
  PROVE  /\ StageNow = "signed" /\ Final = resolved /\ executed = Nothing /\ outcome = "none"
         /\ resolved # Nothing
         /\ Acceptable => Call!Executable
<1>1. /\ StageNow = "signed" /\ Final = resolved /\ executed = Nothing /\ opts.broadcast
      /\ outcome = "none" /\ resolved # Nothing
  BY StageInTime, Numbers DEF IInv, ExecutedInTime, ResolvedInTime, Signed
<1>2. ASSUME Acceptable PROVE Call!Executable
  <2>1. OfFinal = signatures /\ signatures # {}
    BY <1>1, <1>2 DEF Acceptable, OfFinal
  <2>2. SignersOf(OfFinal) # {} /\ SignersOf(signatures \ OfFinal) = {}
    BY <2>1 DEF SignersOf
  <2> QED
    BY <1>1, <2>2 DEF Call!Executable
<1> QED
  BY <1>1, <1>2

\* The broadcast executes the transaction, or fails and may have executed it.
LEMMA CallSends ==
  ASSUME IInv, Send \/ SendFails
  PROVE  Call!Next
<1>1. pc = "send" /\ UNCHANGED <<opts, modifyAllowed, request, resolved, signatures>>
  BY DEF Send, SendFails, result
<1>2. /\ StageNow = "signed" /\ executed = Nothing /\ outcome = "none" /\ resolved # Nothing
      /\ Acceptable => Call!Executable
  BY <1>1, AcceptableIs
<1>3. CASE Send
  <2>1. executed' = resolved /\ outcome' = outcome /\ pc' = "returns" /\ Call!Executable
    BY <1>2, <1>3 DEF Send
  <2>2. StageNow' = "executed"
    BY <1>1, <1>2, <2>1, StagesAre
  <2>3. Call!Execute
    BY <1>1, <1>2, <2>1, <2>2, SightKept DEF Call!Execute
  <2> QED
    BY <2>3 DEF Call!Next
<1>4. CASE SendFails
  <2>1. outcome' \in Errors /\ (executed' = executed \/ (Acceptable /\ executed' = resolved))
    BY <1>4 DEF SendFails, Fail
  <2>2. StageNow' = "failed"
    BY <2>1, StagesAre
  <2>3. (executed' # Nothing) \in {executed # Nothing} \cup (IF Call!Executable THEN {TRUE} ELSE {})
    <3>1. CASE executed' = executed
      BY <3>1
    <3>2. CASE Acceptable /\ executed' = resolved
      BY <1>2, <3>2
    <3> QED
      BY <2>1, <3>1, <3>2
  <2>4. Call!Fail
    BY <1>1, <1>2, <2>2, <2>3, SightKept DEF Call!Fail
  <2> QED
    BY <2>4 DEF Call!Next
<1> QED
  BY <1>3, <1>4

\* The last UI call ends the call, well or badly.
LEMMA CallCompletes ==
  ASSUME IInv, OnTransactComplete
  PROVE  Call!Next
<1>1. /\ pc = "onTransactComplete" /\ pc # "done"
      /\ UNCHANGED <<opts, modifyAllowed, request, resolved, signatures, executed>>
  BY DEF OnTransactComplete, result
<1>2. CASE outcome' = "ok"
  <2>1. StageNow = IF executed = Nothing THEN "signed" ELSE "executed"
    BY <1>1, StageInTime DEF Signed
  <2>2. (executed # Nothing) = opts.broadcast
    BY <1>1, Numbers DEF IInv, TypeOK, ExecutedInTime, ExecutedAsReported, ResolvedInTime, Signed
  <2>3. StageNow' = "ok"
    BY <1>2, StagesAre
  <2>4. Call!Succeed
    BY <1>1, <2>1, <2>2, <2>3, SightKept DEF Call!Succeed
  <2> QED
    BY <2>4 DEF Call!Next
<1>3. CASE outcome' = "other"
  BY <1>1, <1>3, CallFails DEF Errors
<1> QED
  BY <1>2, <1>3 DEF OnTransactComplete

\* The call begins as the caller made it.
LEMMA CallInit == Init => BeforeWallet /\ Call!Init
<1> SUFFICES ASSUME Init PROVE BeforeWallet /\ Call!Init
  OBVIOUS
<1>1. /\ outcome = "none" /\ resolved = Nothing /\ request = 0 /\ signatures = {}
      /\ executed = Nothing /\ modifyAllowed \in BOOLEAN /\ opts.broadcast \in BOOLEAN
  BY DEF Init
<1>2. StageNow = "open" /\ Final = 0
  BY <1>1, StagesAre DEF Final
<1>3. SignersOf(OfFinal) = {} /\ SignersOf(signatures \ OfFinal) = {}
  BY <1>1 DEF SignersOf, OfFinal
<1>4. (~modifyAllowed) \in BOOLEAN
  BY <1>1
<1>5. Call!Init
  BY <1>1, <1>2, <1>3, <1>4 DEF Call!Init
<1>6. 0 # Wallet
  BY TransactAssumption DEF Wallet
<1> QED
  BY <1>1, <1>5, <1>6 DEF BeforeWallet

\* Every step of the pipeline is one the caller may see, or not seen.
LEMMA CallNext ==
  ASSUME IInv, BeforeWallet, [Next]_vars
  PROVE  BeforeWallet' /\ [Call!Next]_(Call!callVars)
<1>1. CASE BeforeSignHook
  BY <1>1, CallAnswer DEF BeforeSignHook
<1>2. CASE MergeAbis \/ Create \/ BeforeSignSilent \/ BeforeSignFails \/ ResolveFails
           \/ WalletFails \/ ReturnValues \/ AfterSign \/ AfterBroadcast
  <2>1. /\ pc # "done" /\ UNCHANGED <<opts, modifyAllowed, result, executed, dropped>>
        /\ \/ \E e \in Errors : Fail(e)
           \/ /\ outcome' = outcome
              /\ pc' = pc \/ (pc \in Open /\ pc' \in Open) \/ (pc \in Signed /\ pc' \in Signed)
    BY <1>2 DEF MergeAbis, Create, BeforeSignSilent, BeforeSignFails, ResolveFails, WalletFails,
         ReturnValues, AfterSign, AfterBroadcast, LaterHook, Open, Signed, Errors
  <2>2. request' = request /\ (pc' \in Open \cup {"onSign", "sign"} =>
                                 pc \in Open \cup {"onSign", "sign"})
    BY <2>1 DEF result, Fail, Open, Signed
  <2> QED
    BY <2>1, <2>2, CallMovesOrFails DEF BeforeWallet
<1>3. CASE OnTransact \/ OnSign \/ OnSignComplete \/ OnBroadcast \/ OnBroadcastComplete
  <2>1. PICK at \in Stages \ {"done"}, call \in UiCalls, next \in Stages :
          /\ Ui(at, call, next)
          /\ \/ at \in Open /\ next \in Open
             \/ at = "onSign" /\ next = "sign"
             \/ at \in Signed /\ next \in Signed
    BY <1>3 DEF OnTransact, OnSign, OnSignComplete, OnBroadcast, OnBroadcastComplete,
         Stages, UiCalls, Open, Signed
  <2>2. request' = request /\ pc = at /\ pc' \in {next, "done"}
    BY <2>1 DEF Ui, result
  <2>3. pc' \in Open \cup {"onSign", "sign"} => pc \in Open \cup {"onSign", "sign"}
    BY <2>1, <2>2 DEF Open, Signed
  <2> QED
    BY <2>1, <2>2, <2>3, CallUi DEF BeforeWallet
<1>4. CASE Resolve
  BY <1>4, CallResolves DEF Resolve, BeforeWallet, Open
<1>5. CASE WalletSigns
  BY <1>5, CallWalletSigns DEF WalletSigns, BeforeWallet, Open
<1>6. CASE WalletModifies
  BY <1>6, CallWalletModifies DEF WalletModifies, Fail, BeforeWallet, Open
<1>7. CASE Send \/ SendFails
  BY <1>7, CallSends DEF Send, SendFails, Fail, BeforeWallet, Open
<1>8. CASE OnTransactComplete
  BY <1>8, CallCompletes DEF OnTransactComplete, BeforeWallet, Open
<1>9. CASE UNCHANGED vars
  <2>1. UNCHANGED <<pc, opts, modifyAllowed, request, resolved, signatures, executed, outcome>>
    BY <1>9 DEF vars, result
  <2>2. StageNow' = StageNow
    BY <2>1 DEF StageNow
  <2> QED
    BY <2>1, <2>2, SightKept DEF BeforeWallet, Call!callVars
<1> QED
  BY <1>1, <1>2, <1>3, <1>4, <1>5, <1>6, <1>7, <1>8, <1>9 DEF Next, Returned

\* Session::transact (session.cpp:161-402) keeps its promise to the caller, whatever the
\* hooks, the wallet, the UI and the node do and however many hooks there are: one
\* transaction goes from party to party, nobody changes it once it is fixed, and the
\* chain executes it or nothing, only when asked, and never with a signature of
\* something else.
THEOREM CallImplemented == Spec => ImplementsCall
<1>1. Init => BeforeWallet /\ Call!Init
  BY CallInit
<1>2. IInv /\ BeforeWallet /\ [Next]_vars => BeforeWallet' /\ [Call!Next]_(Call!callVars)
  BY CallNext
<1> QED
  BY <1>1, <1>2, InvAlways, PTL DEF Spec, ImplementsCall, Call!Spec

-----------------------------------------------------------------------------
(* Where the request came from *)

\* A hook's answer becomes the last revision, and the request if it was allowed.
LEMMA AnswerExplains ==
  ASSUME TypeOK, RevisionsExplain, NEW version \in Versions, NEW sigs, Answer(version, sigs)
  PROVE  RevisionsExplain'
<1> DEFINE r == [tx |-> version, allow |-> modifyAllowed,
                 modified |-> version # revisions[Len(revisions)].tx]
           n == Len(revisions)
<1>1. revisions \in Seq(Revision) /\ n \in Nat /\ modifyAllowed \in BOOLEAN
  BY DEF TypeOK
<1>2. r \in Revision /\ r.tx = version /\ r.allow = modifyAllowed
  BY <1>1 DEF Revision
<1>3. revisions' = Append(revisions, r) /\ request' = IF modifyAllowed THEN version ELSE request
  BY DEF Answer, WithRevision
<1> HIDE DEF r
<1>4. /\ Len(revisions') = n + 1 /\ revisions'[n + 1] = r
      /\ \A i \in 1 .. n : revisions'[i] = revisions[i]
  BY <1>1, <1>2, <1>3
<1>5. CASE modifyAllowed
  <2>1. n + 1 \in {i \in 1 .. n + 1 : revisions'[i].allow}
    <3>1. revisions'[n + 1].allow
      BY <1>2, <1>4, <1>5
    <3>2. n + 1 \in 1 .. n + 1
      BY <1>1
    <3> QED BY <3>1, <3>2
  <2>2. \A j \in {i \in 1 .. n + 1 : revisions'[i].allow} : j <= n + 1
    BY <1>1
  <2> QED BY <1>2, <1>3, <1>4, <1>5, <2>1, <2>2 DEF RevisionsExplain
<1>6. CASE ~modifyAllowed /\ request # Wallet
  <2>1. {i \in 1 .. n + 1 : revisions'[i].allow} = {i \in 1 .. n : revisions[i].allow}
    <3>1. ASSUME NEW i \in 1 .. n + 1, revisions'[i].allow
          PROVE  i \in 1 .. n /\ revisions[i].allow
      BY <1>1, <1>2, <1>4, <1>6, <3>1
    <3>2. ASSUME NEW i \in 1 .. n, revisions[i].allow
          PROVE  i \in 1 .. n + 1 /\ revisions'[i].allow
      BY <1>1, <1>4, <3>2
    <3> QED BY <3>1, <3>2
  <2>2. PICK i \in {k \in 1 .. n : revisions[k].allow} :
           /\ revisions[i].tx = request
           /\ \A j \in {k \in 1 .. n : revisions[k].allow} : j <= i
    BY <1>6 DEF RevisionsExplain
  <2>3. revisions'[i].tx = request' /\ i \in {k \in 1 .. n + 1 : revisions'[k].allow}
    BY <1>3, <1>4, <1>6, <2>1, <2>2
  <2> QED BY <1>4, <2>1, <2>2, <2>3 DEF RevisionsExplain
<1>7. CASE ~modifyAllowed /\ request = Wallet
  BY <1>3, <1>7 DEF RevisionsExplain, Wallet
<1> QED BY <1>1, <1>5, <1>6, <1>7

\* The request a call goes on with is the answer of the last revision that was allowed, or
\* the wallet's, however many hooks answered and signed (session.cpp:280-303, 333).
THEOREM RevisionsAlwaysExplain == Spec => []RevisionsExplain
<1>1. Init => RevisionsExplain
  <2> SUFFICES ASSUME Init PROVE RevisionsExplain
    OBVIOUS
  <2>1. Len(revisions) = 1 /\ revisions[1].tx = 0 /\ revisions[1].allow /\ request = 0
    BY DEF Init
  <2>2. 1 \in {i \in 1 .. 1 : revisions[i].allow}
    BY <2>1
  <2> QED BY <2>1, <2>2 DEF RevisionsExplain
<1>2. IInv /\ RevisionsExplain /\ [Next]_vars => RevisionsExplain'
  <2> SUFFICES ASSUME IInv, RevisionsExplain, [Next]_vars PROVE RevisionsExplain'
    OBVIOUS
  <2>1. ASSUME UNCHANGED <<request, revisions>> PROVE RevisionsExplain'
    BY <2>1 DEF RevisionsExplain, Wallet
  <2>2. ASSUME request' = Wallet PROVE RevisionsExplain'
    BY <2>2 DEF RevisionsExplain, Wallet
  <2>3. CASE BeforeSignHook
    <3>1. PICK version \in {request, hook + 1} :
            \E sigs \in {{}, {[by |-> hook + 1, tx |-> version]}} : Answer(version, sigs)
      BY <2>3 DEF BeforeSignHook
    <3>2. PICK sigs \in {{}, {[by |-> hook + 1, tx |-> version]}} : Answer(version, sigs)
      BY <3>1
    <3>3. version \in Versions
      BY <3>1, <3>2, Numbers DEF Answer, IInv, TypeOK
    <3> QED BY <3>2, <3>3, AnswerExplains DEF IInv
  <2>4. CASE WalletModifies
    BY <2>1, <2>2, <2>4 DEF WalletModifies
  <2>5. CASE BeforeSignSilent \/ BeforeSignFails \/ Resolve \/ ResolveFails \/ WalletSigns
             \/ WalletFails
    BY <2>1, <2>5 DEF BeforeSignSilent, BeforeSignFails, Resolve, ResolveFails, WalletSigns,
       WalletFails, result
  <2>6. CASE MergeAbis \/ Create \/ AfterSign \/ AfterBroadcast \/ Send \/ SendFails
             \/ ReturnValues \/ OnTransactComplete
    BY <2>1, <2>6 DEF MergeAbis, Create, AfterSign, AfterBroadcast, LaterHook, Send, SendFails,
       ReturnValues, OnTransactComplete, result
  <2>7. CASE OnTransact \/ OnSign \/ OnSignComplete \/ OnBroadcast \/ OnBroadcastComplete
    BY <2>1, <2>7 DEF OnTransact, OnSign, OnSignComplete, OnBroadcast, OnBroadcastComplete, Ui,
       result
  <2>8. CASE Returned \/ UNCHANGED vars
    BY <2>1, <2>8 DEF Returned, vars, result
  <2> QED BY <2>3, <2>4, <2>5, <2>6, <2>7, <2>8 DEF Next
<1> QED BY <1>1, <1>2, InvAlways, PTL DEF Spec

-----------------------------------------------------------------------------
(* What the user interface hears *)

\* The calls to the UI that have been made when a stage begins, if there is a UI.
Heard(at, broadcast) ==
    IF at \in {"merge", "onTransact"} THEN 0
    ELSE IF at \in {"create", "beforeSign", "onSign"} THEN 1
    ELSE IF at \in {"sign", "afterSign", "onSignComplete"} THEN 2
    ELSE IF at = "onBroadcast" \/ (at = "onTransactComplete" /\ ~broadcast) THEN 3
    ELSE IF at = "onTransactComplete" THEN 5 ELSE 4

Told(n) == SubSeq(Story, 1, n)

\* While the call runs the log is the story as far as the stage; when it has
\* returned it is what UiStory says.
StoryInv ==
    /\ pc # "done" => log = IF opts.ui THEN Told(Heard(pc, opts.broadcast)) ELSE <<>>
    /\ pc = "done" => UiStory

\* The calls of the story, with the broadcast (session.cpp:256-387) and without.
LEMMA StoryCalls ==
  ASSUME TypeOK
  PROVE  /\ Story \in Seq(UiCalls)
         /\ Len(Story) = IF opts.broadcast THEN 6 ELSE 4
         /\ Story[1] = "onTransact" /\ Story[2] = "onSign" /\ Story[3] = "onSignComplete"
         /\ opts.broadcast => /\ Story[4] = "onBroadcast"
                              /\ Story[5] = "onBroadcastComplete"
                              /\ Story[6] = "onTransactComplete"
         /\ ~opts.broadcast => Story[4] = "onTransactComplete"
<1> DEFINE a == <<"onTransact", "onSign", "onSignComplete">>
           b == <<"onBroadcast", "onBroadcastComplete">>
           c == <<"onTransactComplete">>
<1>1. a \in Seq(UiCalls) /\ b \in Seq(UiCalls) /\ c \in Seq(UiCalls)
  BY DEF UiCalls
<1>2. Len(a) = 3 /\ Len(b) = 2 /\ Len(c) = 1
  OBVIOUS
<1>3. a[1] = "onTransact" /\ a[2] = "onSign" /\ a[3] = "onSignComplete"
  OBVIOUS
<1>4. b[1] = "onBroadcast" /\ b[2] = "onBroadcastComplete" /\ c[1] = "onTransactComplete"
  OBVIOUS
<1>5. Story = a \o (IF opts.broadcast THEN b ELSE <<>>) \o c
  BY DEF Story
<1> HIDE DEF a, b, c
<1>6. CASE opts.broadcast
  <2>1. /\ a \o b \in Seq(UiCalls) /\ Len(a \o b) = 5
        /\ \A i \in 1 .. 5 : (a \o b)[i] = IF i <= 3 THEN a[i] ELSE b[i - 3]
    <3>1. /\ a \o b \in Seq(UiCalls) /\ Len(a \o b) = Len(a) + Len(b)
          /\ \A i \in 1 .. Len(a) + Len(b) :
               (a \o b)[i] = IF i <= Len(a) THEN a[i] ELSE b[i - Len(a)]
      BY <1>1, ConcatProperties
    <3>2. Len(a) + Len(b) = 5
      BY <1>2
    <3> QED BY <1>2, <3>1, <3>2
  <2>2. /\ (a \o b) \o c \in Seq(UiCalls) /\ Len((a \o b) \o c) = 6
        /\ \A i \in 1 .. 6 : ((a \o b) \o c)[i] = IF i <= 5 THEN (a \o b)[i] ELSE c[i - 5]
    BY <1>1, <1>2, <2>1, ConcatProperties
  <2>3. Story = (a \o b) \o c
    BY <1>5, <1>6
  <2> QED BY <1>3, <1>4, <1>6, <2>1, <2>2, <2>3
<1>7. CASE ~opts.broadcast
  <2>1. a \o <<>> = a
    BY <1>1, ConcatEmptySeq
  <2>2. /\ a \o c \in Seq(UiCalls) /\ Len(a \o c) = 4
        /\ \A i \in 1 .. 4 : (a \o c)[i] = IF i <= 3 THEN a[i] ELSE c[i - 3]
    <3>1. /\ a \o c \in Seq(UiCalls) /\ Len(a \o c) = Len(a) + Len(c)
          /\ \A i \in 1 .. Len(a) + Len(c) :
               (a \o c)[i] = IF i <= Len(a) THEN a[i] ELSE c[i - Len(a)]
      BY <1>1, ConcatProperties
    <3>2. Len(a) + Len(c) = 4
      BY <1>2
    <3> QED BY <1>2, <3>1, <3>2
  <2>3. Story = a \o c
    BY <1>5, <1>7, <2>1
  <2> QED BY <1>3, <1>4, <1>7, <2>2, <2>3
<1> QED BY <1>6, <1>7

\* Telling goes on call by call.
LEMMA Telling ==
  ASSUME TypeOK
  PROVE  /\ Told(0) = <<>>
         /\ \A n \in 0 .. Len(Story) : Told(n) \in Seq(UiCalls) /\ Len(Told(n)) = n
         /\ \A n \in 0 .. Len(Story) - 1 : Told(n + 1) = Append(Told(n), Story[n + 1])
<1> DEFINE S == Story
<1>1. S \in Seq(UiCalls) /\ Len(S) \in Nat /\ \A i \in 1 .. Len(S) : S[i] \in UiCalls
  BY StoryCalls
<1> HIDE DEF S
<1>2. SubSeq(S, 1, 0) = <<>>
  BY SubSeqEmpty
<1>3. ASSUME NEW n \in 0 .. Len(S)
      PROVE  SubSeq(S, 1, n) \in Seq(UiCalls) /\ Len(SubSeq(S, 1, n)) = n
  <2>1. \A i \in 1 .. n : S[i] \in UiCalls
    BY <1>1
  <2> QED BY <1>1, <2>1, SubSeqProperties
<1>4. ASSUME NEW n \in 0 .. Len(S) - 1
      PROVE  SubSeq(S, 1, n + 1) = Append(SubSeq(S, 1, n), S[n + 1])
  <2>1. SubSeq(S, 1, n + 1) = SubSeq(S, 1, (n + 1) - 1) \o <<S[n + 1]>>
    <3>1. 1 \in 1 .. Len(S) /\ n + 1 \in 1 .. Len(S)
      BY <1>1
    <3> QED BY <1>1, <3>1, SubSeqRecursiveSecond
  <2>2. (n + 1) - 1 = n
    OBVIOUS
  <2>3. Append(SubSeq(S, 1, n), S[n + 1]) = SubSeq(S, 1, n) \o <<S[n + 1]>>
    BY <1>1, <1>3, AppendIsConcat
  <2> QED BY <2>1, <2>2, <2>3
<1> QED BY <1>2, <1>3, <1>4 DEF S, Told

\* A call that ends with the story told so far, and with one onError if it failed
\* and the error is one the UI hears of (session.cpp:392-406), ends as UiStory says.
LEMMA StoryEnds ==
  ASSUME TypeOK, UNCHANGED opts, pc' = "done",
         NEW n \in 0 .. Len(Story),
         \/ (log' = Told(n) /\ outcome' \notin {"api", "other"})
         \/ (log' = Append(Told(n), "onError") /\ outcome' \in {"api", "other"})
         \/ (log' = Told(n) /\ ~opts.ui),
         opts.ui \in BOOLEAN,
         opts.ui /\ outcome' = "ok" => n = Len(Story),
         n >= 5 => executed' # Nothing
  PROVE  StoryInv'
<1>1. /\ Story' = Story
      /\ Told(n) \in Seq(UiCalls) /\ Len(Told(n)) = n
      /\ Len(Story) \in Nat
  <2>1. Story' = Story
    BY DEF Story
  <2>2. Len(Story) \in Nat
    BY StoryCalls
  <2> QED BY <2>1, <2>2, Telling
<1>2. log' \in {Told(n), Append(Told(n), "onError")}
  OBVIOUS
<1>3. Append(Told(n), "onError") # Told(n)
  <2>1. "onError" \in UiCalls
    BY DEF UiCalls
  <2>2. Len(Append(Told(n), "onError")) = n + 1
    BY <1>1, <2>1, AppendProperties
  <2> QED BY <1>1, <2>2
<1>4. opts.ui => (log' # Told(n)) = (outcome' \in {"api", "other"})
  BY <1>3
<1>5. ASSUME NEW i \in 1 .. n, Story[i] = "onBroadcastComplete"
      PROVE  executed' # Nothing
  <2>1. i \in 1 .. Len(Story) /\ i <= n
    BY <1>1
  <2>2. i = 5
    BY <1>5, <2>1, StoryCalls
  <2> QED BY <2>1, <2>2
<1>6. UiStory'
  <2>1. /\ log' \in {Told(n), Append(Told(n), "onError")}
        /\ opts'.ui => (log' # Told(n)) = (outcome' \in {"api", "other"})
        /\ opts'.ui /\ outcome' = "ok" => n = Len(Story')
        /\ (\E i \in 1 .. n : Story'[i] = "onBroadcastComplete") => executed' # Nothing
    BY <1>1, <1>2, <1>4, <1>5
  <2>2. n \in 0 .. Len(Story') /\ Told(n) = SubSeq(Story', 1, n)
    BY <1>1 DEF Told
  <2> HIDE DEF Told
  <2> QED BY <2>1, <2>2 DEF UiStory
<1> QED BY <1>6 DEF StoryInv

\* What the story has come to is a part of it, and the broadcast's end is told of
\* only in the last stage.
LEMMA HeardBounds ==
  ASSUME IInv, pc # "done"
  PROVE  /\ Heard(pc, opts.broadcast) \in 0 .. Len(Story) - 1
         /\ Heard(pc, opts.broadcast) >= 5 => executed # Nothing
<1>1. /\ pc \in Stages \ {"done"} /\ opts.broadcast \in BOOLEAN
      /\ pc \in {"onBroadcast", "send", "returns", "afterBroadcast", "onBroadcastComplete"}
           => opts.broadcast
  BY DEF IInv, TypeOK, ExecutedInTime
<1>2. Len(Story) = IF opts.broadcast THEN 6 ELSE 4
  BY StoryCalls DEF IInv
<1>3. Heard(pc, opts.broadcast) \in 0 .. Len(Story) - 1
  <2>1. CASE opts.broadcast
    BY <1>1, <1>2, <2>1 DEF Heard
  <2>2. CASE ~opts.broadcast
    BY <1>1, <1>2, <2>2 DEF Heard, Stages
  <2> QED BY <2>1, <2>2
<1>4. ASSUME Heard(pc, opts.broadcast) >= 5 PROVE executed # Nothing
  <2>1. pc = "onTransactComplete" /\ opts.broadcast
    BY <1>1, <1>4 DEF Heard, Stages
  <2>2. executed = resolved /\ resolved \in Versions
    BY <2>1 DEF IInv, ExecutedInTime, ResolvedInTime, Signed
  <2> QED BY <2>2, Numbers
<1> QED BY <1>3, <1>4

\* A failure anywhere before the last call ends the story where it stands.
LEMMA StoryFails ==
  ASSUME IInv, StoryInv, NEW e \in Errors, Fail(e), pc # "done",
         pc # "onTransactComplete", UNCHANGED opts
  PROVE  StoryInv'
<1> DEFINE n == IF opts.ui THEN Heard(pc, opts.broadcast) ELSE 0
<1>1. Heard(pc, opts.broadcast) \in 0 .. Len(Story) - 1 /\ opts.ui \in BOOLEAN /\ TypeOK
  BY HeardBounds DEF IInv, TypeOK
<1>2. Len(Story) \in {4, 6}
  BY <1>1, StoryCalls
<1>3. n \in 0 .. Len(Story)
  BY <1>1, <1>2
<1>4. ~(n >= 5)
  BY DEF Heard
<1>5. log = Told(n)
  BY <1>1, Telling DEF StoryInv
<1>6. pc' = "done" /\ outcome' = e /\ e # "ok"
  BY DEF Fail, Errors
<1>7. \/ log' = Told(n) /\ outcome' \notin {"api", "other"}
      \/ log' = Append(Told(n), "onError") /\ outcome' \in {"api", "other"}
      \/ ~opts.ui /\ log' = Told(n)
  BY <1>5, <1>6 DEF Fail, Errors
<1> HIDE DEF n
<1> QED BY <1>1, <1>3, <1>4, <1>6, <1>7, StoryEnds

\* A step to a stage at which the UI has heard what the log says.
LEMMA StoryGoes ==
  ASSUME UNCHANGED opts, pc' # "done", NEW n, Heard(pc', opts.broadcast) = n,
         log' = IF opts.ui THEN Told(n) ELSE <<>>
  PROVE  StoryInv'
<1>1. Story' = Story
  BY DEF Story
<1>2. log' = IF opts'.ui THEN SubSeq(Story', 1, Heard(pc', opts'.broadcast)) ELSE <<>>
  BY <1>1 DEF Told
<1> QED BY <1>2 DEF StoryInv, Told

\* A step within a stage, or to one at which the UI has heard as much.
LEMMA StoryStays ==
  ASSUME StoryInv, pc # "done", pc' # "done", UNCHANGED <<opts, log>>,
         Heard(pc', opts.broadcast) = Heard(pc, opts.broadcast)
  PROVE  StoryInv'
<1>1. log' = IF opts.ui THEN Told(Heard(pc, opts.broadcast)) ELSE <<>>
  BY DEF StoryInv
<1> QED BY <1>1, StoryGoes

\* A call of the UI tells the next part of the story, or fails and ends it there.
LEMMA StoryUi ==
  ASSUME IInv, StoryInv, NEW at, NEW call, NEW next, Ui(at, call, next),
         at # "done", at # "onTransactComplete", next # "done",
         Heard(next, opts.broadcast) = Heard(at, opts.broadcast) + 1, Story[Heard(at, opts.broadcast) + 1] = call,
         call = "onBroadcastComplete" => executed # Nothing
  PROVE  StoryInv'
<1> DEFINE n == Heard(at, opts.broadcast)
<1>1. pc = at /\ opts' = opts /\ executed' = executed /\ TypeOK
  BY DEF Ui, IInv
<1>2. n \in 0 .. Len(Story) - 1 /\ Len(Story) \in {4, 6}
  BY <1>1, HeardBounds, StoryCalls
<1>3. /\ Told(n + 1) = Append(Told(n), call)
      /\ Told(n) \in Seq(UiCalls) /\ call \in UiCalls
      /\ n + 1 \in 0 .. Len(Story)
  <2>1. n + 1 \in 1 .. Len(Story) /\ n \in 0 .. Len(Story)
    BY <1>2
  <2>2. Story[n + 1] \in UiCalls
    BY <1>1, <2>1, StoryCalls
  <2> QED BY <1>1, <1>2, <2>1, <2>2, Telling
<1>4. log = IF opts.ui THEN Told(n) ELSE <<>>
  BY <1>1 DEF StoryInv
<1>5. CASE pc' = next /\ log' = IF opts.ui THEN Append(log, call) ELSE log
  <2>1. log' = IF opts.ui THEN Told(n + 1) ELSE <<>>
    BY <1>3, <1>4, <1>5
  <2>2. Heard(pc', opts.broadcast) = n + 1
    BY <1>5
  <2> HIDE DEF n
  <2> QED BY <1>1, <1>5, <2>1, <2>2, StoryGoes
<1>6. CASE opts.ui /\ pc' = "done" /\ outcome' = "other" /\ log' = log \o <<call, "onError">>
  <2>1. log' = Append(Told(n + 1), "onError")
    <3>1. "onError" \in UiCalls
      BY DEF UiCalls
    <3>2. Told(n) \o <<call, "onError">> = Append(Append(Told(n), call), "onError")
      BY <1>3, <3>1
    <3> QED BY <1>3, <1>4, <1>6, <3>2
  <2>2. n + 1 >= 5 => executed' # Nothing
    <3>1. ASSUME n + 1 >= 5 PROVE call = "onBroadcastComplete"
      <4>1. n = 4 /\ at # "onTransactComplete"
        BY <1>2, <3>1 DEF Heard
      <4>2. Len(Story) = 6 /\ opts.broadcast
        BY <1>1, <1>2, <4>1, StoryCalls
      <4> QED BY <1>1, <4>1, <4>2, StoryCalls
    <3> QED BY <1>1, <3>1
  <2> HIDE DEF n
  <2> QED BY <1>1, <1>3, <1>6, <2>1, <2>2, StoryEnds
<1> QED BY <1>1, <1>5, <1>6 DEF Ui

\* Every step tells the story on: the UI's calls in their stages, nothing between
\* them, and at most an error at the end.
LEMMA StoryNext == IInv /\ StoryInv /\ [Next]_vars => StoryInv'
<1> SUFFICES ASSUME IInv, StoryInv, [Next]_vars PROVE StoryInv'
  OBVIOUS
<1>1. TypeOK /\ opts.ui \in BOOLEAN /\ opts.broadcast \in BOOLEAN /\ "other" \in Errors
  BY DEF IInv, TypeOK, Errors
<1>2. ASSUME UNCHANGED <<opts, log>>, pc # "done", pc' # "done",
             Heard(pc', opts.broadcast) = Heard(pc, opts.broadcast)
      PROVE  StoryInv'
  BY <1>2, StoryStays
<1>3. ASSUME UNCHANGED <<pc, opts, log>>, pc # "done"
      PROVE  StoryInv'
  BY <1>3, StoryStays
<1>4. CASE MergeAbis
  BY <1>1, <1>2, <1>4, StoryFails DEF MergeAbis, Heard
<1>5. CASE Create
  BY <1>2, <1>5, StoryFails DEF Create, Heard
<1>6. CASE BeforeSignHook
  BY <1>3, <1>6 DEF BeforeSignHook, Answer
<1>7. CASE BeforeSignSilent
  BY <1>3, <1>7 DEF BeforeSignSilent
<1>8. CASE BeforeSignFails \/ ResolveFails \/ WalletFails \/ SendFails
  BY <1>8, StoryFails DEF BeforeSignFails, ResolveFails, WalletFails, SendFails
<1>9. CASE Resolve \/ WalletSigns \/ Send
  BY <1>2, <1>9 DEF Resolve, WalletSigns, Send, Heard
<1>10. CASE WalletModifies
  <2>1. CASE modifyAllowed
    BY <1>2, <1>10, <2>1 DEF WalletModifies, Heard
  <2>2. CASE ~modifyAllowed
    BY <1>1, <1>10, <2>2, StoryFails DEF WalletModifies
  <2> QED BY <2>1, <2>2
<1>11. CASE AfterSign
  BY <1>2, <1>3, <1>11, StoryFails DEF AfterSign, LaterHook, Heard
<1>12. CASE AfterBroadcast
  BY <1>2, <1>3, <1>12, StoryFails DEF AfterBroadcast, LaterHook, Heard
<1>13. CASE ReturnValues
  BY <1>2, <1>13, StoryFails DEF ReturnValues, Heard
<1>14. CASE OnTransact
  <2>1. Heard("onTransact", opts.broadcast) = 0 /\ Heard("create", opts.broadcast) = 1
    BY DEF Heard
  <2>2. Story[0 + 1] = "onTransact"
    BY <1>1, StoryCalls
  <2> QED BY <1>14, <2>1, <2>2, StoryUi DEF OnTransact
<1>15. CASE OnSign
  <2>1. Heard("onSign", opts.broadcast) = 1 /\ Heard("sign", opts.broadcast) = 2
    BY DEF Heard
  <2>2. Story[1 + 1] = "onSign"
    BY <1>1, StoryCalls
  <2> QED BY <1>15, <2>1, <2>2, StoryUi DEF OnSign
<1>16. CASE OnSignComplete
  <2> DEFINE next == IF opts.broadcast THEN "onBroadcast" ELSE "onTransactComplete"
  <2>1. Heard("onSignComplete", opts.broadcast) = 2 /\ Heard(next, opts.broadcast) = 3
    BY DEF Heard
  <2>2. Story[2 + 1] = "onSignComplete"
    BY <1>1, StoryCalls
  <2>3. Ui("onSignComplete", "onSignComplete", next) /\ next # "done"
    BY <1>16 DEF OnSignComplete
  <2> HIDE DEF next
  <2> QED BY <2>1, <2>2, <2>3, StoryUi
<1>17. CASE OnBroadcast
  <2>1. Heard("onBroadcast", opts.broadcast) = 3 /\ Heard("send", opts.broadcast) = 4
    BY DEF Heard
  <2>2. Story[3 + 1] = "onBroadcast"
    <3>1. opts.broadcast
      BY <1>17 DEF OnBroadcast, Ui, IInv, ExecutedInTime
    <3> QED BY <1>1, <3>1, StoryCalls
  <2> QED BY <1>17, <2>1, <2>2, StoryUi DEF OnBroadcast
<1>18. CASE OnBroadcastComplete
  <2>1. pc = "onBroadcastComplete" /\ opts.broadcast
    BY <1>18 DEF OnBroadcastComplete, Ui, IInv, ExecutedInTime
  <2>2. /\ Heard("onBroadcastComplete", opts.broadcast) = 4
        /\ Heard("onTransactComplete", opts.broadcast) = 5
    BY <2>1 DEF Heard
  <2>3. Story[4 + 1] = "onBroadcastComplete"
    BY <1>1, <2>1, StoryCalls
  <2>4. executed # Nothing
    BY <2>1, Numbers DEF IInv, ExecutedInTime, ResolvedInTime, Signed
  <2> QED BY <1>18, <2>2, <2>3, <2>4, StoryUi DEF OnBroadcastComplete
<1>19. CASE OnTransactComplete
  <2> DEFINE n == Heard(pc, opts.broadcast)
             m == IF opts.ui THEN n + 1 ELSE 0
  <2>1. /\ pc = "onTransactComplete" /\ pc' = "done"
        /\ opts' = opts /\ executed' = executed
    BY <1>19 DEF OnTransactComplete
  <2>2. n + 1 = Len(Story) /\ n \in 0 .. Len(Story) - 1
    <3>1. n = IF opts.broadcast THEN 5 ELSE 3
      BY <2>1 DEF Heard
    <3>2. Len(Story) = IF opts.broadcast THEN 6 ELSE 4
      BY <1>1, StoryCalls
    <3> QED BY <1>1, <3>1, <3>2
  <2>3. Story[n + 1] = "onTransactComplete"
    <3>1. CASE opts.broadcast
      BY <1>1, <2>1, <3>1, StoryCalls DEF Heard
    <3>2. CASE ~opts.broadcast
      BY <1>1, <2>1, <3>2, StoryCalls DEF Heard
    <3> QED BY <3>1, <3>2
  <2>4. m >= 5 => executed' # Nothing
    <3>1. ASSUME m >= 5 PROVE opts.broadcast
      BY <1>1, <2>1, <3>1 DEF Heard
    <3>2. opts.broadcast => executed = resolved /\ resolved \in Versions
      BY <1>1, <2>1 DEF IInv, ExecutedInTime, ResolvedInTime, Signed
    <3> QED BY <2>1, <3>1, <3>2, Numbers
  <2>5. log = IF opts.ui THEN Told(n) ELSE <<>>
    BY <2>1 DEF StoryInv
  <2> HIDE DEF n
  <2>6. /\ Told(0) = <<>> /\ Told(n) \in Seq(UiCalls)
        /\ Told(n + 1) = Append(Told(n), "onTransactComplete")
        /\ Len(Story) \in Nat
    BY <1>1, <2>2, <2>3, Telling, StoryCalls
  <2>7. Told(n) \o <<"onTransactComplete", "onError">> = Append(Told(n + 1), "onError")
    <3>1. "onTransactComplete" \in UiCalls /\ "onError" \in UiCalls
      BY DEF UiCalls
    <3> QED BY <2>6, <3>1
  <2>8. \/ log' = Told(m) /\ outcome' = "ok"
        \/ opts.ui /\ log' = Append(Told(m), "onError") /\ outcome' = "other"
    BY <1>19, <2>5, <2>6, <2>7 DEF OnTransactComplete
  <2>9. m \in 0 .. Len(Story) /\ (opts.ui => m = Len(Story))
    BY <2>2, <2>6
  <2> HIDE DEF m
  <2> QED BY <1>1, <2>1, <2>4, <2>8, <2>9, StoryEnds
<1>20. CASE Returned \/ UNCHANGED vars
  BY <1>20 DEF Returned, vars, result, StoryInv, UiStory, Told, Story
<1> QED
  BY <1>4, <1>5, <1>6, <1>7, <1>8, <1>9, <1>10, <1>11, <1>12, <1>13, <1>14, <1>15, <1>16,
     <1>17, <1>18, <1>19, <1>20 DEF Next

\* The UI hears the stages of a transact in their order, each once, and one onError at
\* the end of a call that failed, unless the API's error was bare (session.cpp:256-406).
THEOREM UiAlwaysHearsTheStory == Spec => []UiStory
<1>1. Init => StoryInv
  <2> SUFFICES ASSUME Init PROVE StoryInv
    OBVIOUS
  <2>1. IInv
    BY InvInit
  <2>2. Told(0) = <<>> /\ pc = "merge" /\ log = <<>>
    BY <2>1, Telling DEF IInv, Init
  <2> QED BY <2>2 DEF StoryInv, Heard
<1>2. IInv /\ StoryInv => UiStory
  <2> SUFFICES ASSUME IInv, StoryInv PROVE UiStory
    OBVIOUS
  <2>1. CASE pc = "done"
    BY <2>1 DEF StoryInv
  <2>2. CASE pc # "done"
    <3> DEFINE m == IF opts.ui THEN Heard(pc, opts.broadcast) ELSE 0
    <3>1. TypeOK /\ opts.ui \in BOOLEAN /\ outcome = "none"
      BY <2>2 DEF IInv, TypeOK, ExecutedInTime
    <3>2. Heard(pc, opts.broadcast) \in 0 .. Len(Story) - 1 /\ Len(Story) \in Nat
      BY <2>2, <3>1, HeardBounds, StoryCalls
    <3>3. m \in 0 .. Len(Story) /\ (m >= 5 => executed # Nothing)
      BY <2>2, <3>2, HeardBounds
    <3>4. log = Told(m)
      BY <2>2, <3>1, Telling DEF StoryInv
    <3> HIDE DEF m
    <3>5. (\E i \in 1 .. m : Story[i] = "onBroadcastComplete") => executed # Nothing
      <4> SUFFICES ASSUME NEW i \in 1 .. m, Story[i] = "onBroadcastComplete"
                   PROVE  executed # Nothing
        OBVIOUS
      <4>1. i \in 1 .. Len(Story) /\ i <= m
        BY <3>2, <3>3
      <4>2. i = 5
        BY <3>1, <4>1, StoryCalls
      <4> QED BY <3>3, <4>1, <4>2
    <3> QED BY <3>1, <3>3, <3>4, <3>5 DEF UiStory, Told
  <2> QED BY <2>1, <2>2
<1> QED BY <1>1, <1>2, StoryNext, InvAlways, PTL DEF Spec

-----------------------------------------------------------------------------
(* What the plugins that buy resources make a transaction cost *)

FeeSpec == FeeInit /\ [][FeeNext]_feeVars

PluginLists == {<<>>, <<"provider">>, <<"autocorrect">>,
                <<"provider", "autocorrect">>, <<"autocorrect", "provider">>}
ProviderIsLeft == \E i \in DOMAIN plugins : plugins[i] = "provider"
Whole(s) == \A i \in DOMAIN Requested : Contains(s, Requested[i])

FeeTypes ==
    /\ plugins \in PluginLists /\ ui \in BOOLEAN /\ modify \in BOOLEAN
    /\ tx \in Seq(Priced) /\ agreed \in Nat /\ recounted \in BOOLEAN
    /\ trial \in Seq(Priced) /\ price \in Nat
    /\ stage \in {"hook", "correct", "propose", "failed"}

\* What the request costs was agreed to; without a UI that is the provider's fee.
Paying ==
    /\ Whole(tx)
    /\ ~recounted => Cost(tx, DOMAIN tx) = agreed
    /\ ~ui => agreed <= MaxFee /\ (ProviderIsLeft => agreed = 0)

\* What a correction has added is in its price.
Trying ==
    stage \in {"correct", "propose"} =>
        /\ ui /\ plugins # <<>>
        /\ Whole(trial)
        /\ ~recounted => Cost(trial, DOMAIN trial) = agreed + price

FeeInv == FeeTypes /\ Paying /\ Trying

\* The places of a transaction, and what is at one.
LEMMA PlacesAre ==
    ASSUME NEW s \in Seq(Priced)
    PROVE  /\ DOMAIN s = 1..Len(s) /\ Len(s) \in Nat /\ IsFiniteSet(DOMAIN s)
           /\ \A i \in DOMAIN s : s[i] \in Priced /\ s[i].cost \in Nat
<1>1. DOMAIN s = 1..Len(s) /\ Len(s) \in Nat
  OBVIOUS
<1>2. ASSUME NEW i \in DOMAIN s
      PROVE  s[i] \in Priced /\ s[i].cost \in Nat
  <2>1. s[i] \in Priced
    OBVIOUS
  <2> QED BY <2>1 DEF Priced
<1>3. IsFiniteSet(1..Len(s))
  BY <1>1, FS_Interval
<1> QED BY <1>1, <1>2, <1>3

\* The units of some places.
LEMMA UnitsAre ==
    ASSUME NEW s, NEW places
    PROVE  /\ \A p \in Units(s, places) : p[1] \in places /\ p[2] \in 1..s[p[1]].cost /\ p = <<p[1], p[2]>>
           /\ \A i \in places : \A u \in 1..s[i].cost : <<i, u>> \in Units(s, places)
BY DEF Units

\* A cost is a number.
LEMMA CostIsNumber ==
    ASSUME NEW s \in Seq(Priced), NEW places \in SUBSET DOMAIN s
    PROVE  IsFiniteSet(Units(s, places)) /\ Cost(s, places) \in Nat
<1> DEFINE f == [i \in places |-> {i} \X (1..s[i].cost)]
           parts == {{i} \X (1..s[i].cost) : i \in places}
<1>1. IsFiniteSet(places)
  BY PlacesAre, FS_Subset
<1>2. f \in Surjection(places, parts)
  <2>1. f \in [places -> parts] /\ \A t \in parts : \E i \in places : f[i] = t
    OBVIOUS
  <2> QED BY <2>1, Fun_IsSurj
<1>3. IsFiniteSet(parts)
  BY <1>1, <1>2, FS_Surjection
<1>4. ASSUME NEW part \in parts PROVE IsFiniteSet(part)
  <2>1. PICK i \in places : part = {i} \X (1..s[i].cost)
    OBVIOUS
  <2>2. IsFiniteSet({i}) /\ IsFiniteSet(1..s[i].cost)
    <3>1. s[i].cost \in Int /\ 1 \in Int
      BY PlacesAre
    <3>2. IsFiniteSet({i})
      BY FS_Singleton
    <3>3. IsFiniteSet(1..s[i].cost)
      BY <3>1, FS_Interval
    <3> QED BY <3>2, <3>3
  <2> QED BY <2>1, <2>2, FS_Product
<1>5. IsFiniteSet(Units(s, places))
  BY <1>3, <1>4, FS_UNION DEF Units
<1> QED BY <1>5, FS_CardinalityType DEF Cost

\* Places that cost nothing.
LEMMA CostOfNone ==
    ASSUME NEW s \in Seq(Priced), NEW places \in SUBSET DOMAIN s, \A i \in places : s[i].cost = 0
    PROVE  Cost(s, places) = 0
<1>1. ASSUME NEW p \in Units(s, places) PROVE FALSE
  BY UnitsAre
<1>2. Units(s, places) = {}
  BY <1>1
<1> QED BY <1>2, FS_EmptySet DEF Cost

\* Two parts of a transaction cost what they cost each.
LEMMA CostOfBoth ==
    ASSUME NEW s \in Seq(Priced), NEW p \in SUBSET DOMAIN s, NEW q \in SUBSET DOMAIN s, p \cap q = {}
    PROVE  Cost(s, p \cup q) = Cost(s, p) + Cost(s, q)
<1>1. /\ IsFiniteSet(Units(s, p)) /\ IsFiniteSet(Units(s, q))
      /\ Cost(s, p) \in Nat /\ Cost(s, q) \in Nat
  BY CostIsNumber
<1>2. Units(s, p \cup q) = Units(s, p) \cup Units(s, q)
  BY DEF Units
<1>3. Units(s, p) \cap Units(s, q) = {}
  BY UnitsAre
<1>4. Cardinality({}) = 0
  BY FS_EmptySet
<1> DEFINE u == Units(s, p)
           v == Units(s, q)
<1> HIDE DEF u, v
<1>5. Cardinality(u \cup v) = Cardinality(u) + Cardinality(v) - Cardinality(u \cap v)
  BY <1>1, FS_Union DEF u, v
<1>6. u \cap v = {} /\ Cardinality(u) \in Nat /\ Cardinality(v) \in Nat
  BY <1>1, <1>3 DEF u, v, Cost
<1>7. Cardinality(u \cup v) = Cardinality(u) + Cardinality(v)
  <2>1. Cardinality(u \cap v) = 0
    BY <1>4, <1>6, Zenon
  <2> QED BY <1>5, <1>6, <2>1
<1> QED BY <1>2, <1>7 DEF Cost, u, v

\* Places that match, one by one, cost the same.
LEMMA CostMoved ==
    ASSUME NEW s \in Seq(Priced), NEW p \in SUBSET DOMAIN s,
           NEW t \in Seq(Priced), NEW q \in SUBSET DOMAIN t,
           NEW f \in Bijection(p, q), \A i \in p : t[f[i]].cost = s[i].cost
    PROVE  Cost(s, p) = Cost(t, q)
<1> DEFINE g == [x \in Units(s, p) |-> <<f[x[1]], x[2]>>]
<1>1. /\ f \in [p -> q] /\ (\A i, j \in p : f[i] = f[j] => i = j)
      /\ \A j \in q : \E i \in p : f[i] = j
  BY Fun_BijectionProperties
<1>2. g \in [Units(s, p) -> Units(t, q)]
  <2> SUFFICES ASSUME NEW x \in Units(s, p)
               PROVE  <<f[x[1]], x[2]>> \in Units(t, q)
    OBVIOUS
  <2>1. x[1] \in p /\ x[2] \in 1..s[x[1]].cost
    BY UnitsAre
  <2>2. f[x[1]] \in q /\ x[2] \in 1..t[f[x[1]]].cost
    BY <1>1, <2>1
  <2> QED BY <2>2, UnitsAre
<1>3. ASSUME NEW x \in Units(s, p), NEW y \in Units(s, p), g[x] = g[y]
      PROVE  x = y
  <2>1. /\ x[1] \in p /\ x = <<x[1], x[2]>>
        /\ y[1] \in p /\ y = <<y[1], y[2]>>
    BY UnitsAre
  <2>2. f[x[1]] = f[y[1]] /\ x[2] = y[2]
    BY <1>3
  <2> QED BY <1>1, <2>1, <2>2
<1>4. ASSUME NEW y \in Units(t, q)
      PROVE  \E x \in Units(s, p) : g[x] = y
  <2>1. y[1] \in q /\ y[2] \in 1..t[y[1]].cost /\ y = <<y[1], y[2]>>
    BY UnitsAre
  <2>2. PICK i \in p : f[i] = y[1]
    BY <1>1, <2>1
  <2>3. <<i, y[2]>> \in Units(s, p)
    BY <2>1, <2>2, UnitsAre
  <2>4. g[<<i, y[2]>>] = y
    BY <2>1, <2>2, <2>3
  <2> QED BY <2>3, <2>4
<1> HIDE DEF g
<1>5. g \in Bijection(Units(s, p), Units(t, q))
  BY <1>2, <1>3, <1>4, Fun_IsBij
<1>6. IsFiniteSet(Units(s, p))
  BY CostIsNumber
<1> QED BY <1>5, <1>6, FS_Bijection DEF Cost, ExistsBijection

\* A purchase put first costs what it costs more.
LEMMA CostWithFirst ==
    ASSUME NEW a \in Priced, NEW s \in Seq(Priced)
    PROVE  LET b == <<a>> \o s
           IN  /\ b \in Seq(Priced)
               /\ Cost(b, DOMAIN b) = a.cost + Cost(s, DOMAIN s)
               /\ \A x : Contains(s, x) => Contains(b, x)
<1> DEFINE b == <<a>> \o s
           later == 2..(Len(s) + 1)
           f == [i \in DOMAIN s |-> i + 1]
<1>1. DOMAIN s = 1..Len(s) /\ Len(s) \in Nat /\ a.cost \in Nat
  BY PlacesAre DEF Priced
<1>2. b \in Seq(Priced) /\ Len(b) = 1 + Len(s)
  OBVIOUS
<1>3. b[1] = a /\ \A i \in 1..Len(s) : b[i + 1] = s[i]
  OBVIOUS
<1> HIDE DEF b
<1>4. DOMAIN b = {1} \cup later /\ {1} \cap later = {} /\ DOMAIN b = 1..(1 + Len(s))
  BY <1>1, <1>2
<1>5. Cost(b, DOMAIN b) = Cost(b, {1}) + Cost(b, later)
  BY <1>2, <1>4, CostOfBoth
<1>6. Cost(b, {1}) = a.cost
  <2>1. Units(b, {1}) = {1} \X (1..a.cost)
    BY <1>3 DEF Units
  <2> DEFINE one == {1}
             costs == 1..a.cost
             n == a.cost
  <2>2. IsFiniteSet(one) /\ Cardinality(one) = 1
    BY FS_Singleton
  <2>3. IsFiniteSet(costs) /\ Cardinality(costs) = n
    <3>1. n \in Nat /\ n \in Int /\ 1 \in Int
      BY <1>1
    <3> HIDE DEF n
    <3>2. IsFiniteSet(1..n) /\ Cardinality(1..n) = IF 1 > n THEN 0 ELSE n - 1 + 1
      BY <3>1, FS_Interval
    <3>3. Cardinality(1..n) = n
      BY <3>1, <3>2
    <3> QED BY <3>2, <3>3 DEF n
  <2> HIDE DEF one, costs
  <2>4. Cardinality(one \X costs) = Cardinality(one) * Cardinality(costs)
    BY <2>2, <2>3, FS_Product
  <2>5. Cardinality(one \X costs) = n
    BY <1>1, <2>2, <2>3, <2>4
  <2> QED BY <2>1, <2>5 DEF Cost, one, costs
<1>7. Cost(s, DOMAIN s) = Cost(b, later)
  <2>1. f \in [DOMAIN s -> later]
    BY <1>1
  <2>2. \A i, j \in DOMAIN s : f[i] = f[j] => i = j
    BY <1>1
  <2>3. ASSUME NEW j \in later PROVE \E i \in DOMAIN s : f[i] = j
    <3>1. j - 1 \in DOMAIN s
      BY <1>1
    <3>2. f[j - 1] = j
      BY <3>1
    <3> QED BY <3>1, <3>2
  <2>4. \A i \in DOMAIN s : b[f[i]].cost = s[i].cost
    BY <1>1, <1>3
  <2> HIDE DEF f, later
  <2>5. f \in Bijection(DOMAIN s, later)
    BY <2>1, <2>2, <2>3, Fun_IsBij
  <2>6. later \in SUBSET DOMAIN b
    BY <1>4
  <2> QED BY <1>2, <2>4, <2>5, <2>6, CostMoved
<1>8. \A x : Contains(s, x) => Contains(b, x)
  <2> SUFFICES ASSUME NEW x, NEW i \in 1..Len(s), s[i] = x
               PROVE  \E j \in 1..Len(b) : b[j] = x
    BY DEF Contains
  <2>1. i + 1 \in 1..Len(b) /\ b[i + 1] = x
    BY <1>1, <1>2, <1>3
  <2> QED BY <2>1
<1> QED BY <1>2, <1>5, <1>6, <1>7, <1>8 DEF b

\* An offer with as many copies of each action as the request had costs what is new
\* in it and what the request cost.
LEMMA OfferCosts ==
    ASSUME NEW s \in Seq(Priced), NEW t \in Seq(Priced),
           \A i \in DOMAIN s : Times(s[i], t) = Times(s[i], s)
    PROVE  Cost(t, DOMAIN t) = Cost(s, DOMAIN s) + Cost(t, getNewActions(s, t))
<1> DEFINE new == getNewActions(s, t)
           old == DOMAIN t \ new
           In(a, r) == {i \in DOMAIN r : r[i] = a}
           g == [a \in {s[i] : i \in DOMAIN s} |-> CHOOSE h : h \in Bijection(In(a, s), In(a, t))]
           f == [i \in DOMAIN s |-> g[s[i]][i]]
<1>1. DOMAIN s = 1..Len(s) /\ DOMAIN t = 1..Len(t) /\ IsFiniteSet(DOMAIN s) /\ IsFiniteSet(DOMAIN t)
  BY PlacesAre
<1>2. old = {j \in DOMAIN t : \E i \in DOMAIN s : s[i] = t[j]} /\ new \in SUBSET DOMAIN t
  BY <1>1 DEF getNewActions, Contains
<1>3. ASSUME NEW i \in DOMAIN s
      PROVE  g[s[i]] \in Bijection(In(s[i], s), In(s[i], t))
  <2>1. IsFiniteSet(In(s[i], s)) /\ IsFiniteSet(In(s[i], t))
    BY <1>1, FS_Subset
  <2>2. Cardinality(In(s[i], s)) = Cardinality(In(s[i], t))
    BY DEF Times
  <2>3. ExistsBijection(In(s[i], s), In(s[i], t))
    BY <2>1, <2>2, FS_SameCardinalityBij
  <2> QED BY <2>3 DEF ExistsBijection
<1> HIDE DEF g
<1>4. ASSUME NEW i \in DOMAIN s
      PROVE  /\ g[s[i]] \in [In(s[i], s) -> In(s[i], t)]
             /\ \A j, k \in In(s[i], s) : g[s[i]][j] = g[s[i]][k] => j = k
             /\ \A k \in In(s[i], t) : \E j \in In(s[i], s) : g[s[i]][j] = k
  <2> DEFINE p == In(s[i], s)
             q == In(s[i], t)
             h == g[s[i]]
  <2>1. h \in Bijection(p, q)
    BY <1>3
  <2> HIDE DEF p, q, h
  <2>2. /\ h \in [p -> q]
        /\ \A j, k \in p : h[j] = h[k] => j = k
        /\ \A k \in q : \E j \in p : h[j] = k
    BY <2>1, Fun_BijectionProperties
  <2> QED BY <2>2 DEF p, q, h
<1>5. ASSUME NEW i \in DOMAIN s
      PROVE  f[i] \in old /\ t[f[i]] = s[i] /\ f[i] = g[s[i]][i]
  <2>1. f[i] \in In(s[i], t)
    BY <1>4
  <2> QED BY <1>2, <2>1
<1>6. f \in [DOMAIN s -> old]
  BY <1>5
<1>7. ASSUME NEW i \in DOMAIN s, NEW j \in DOMAIN s, f[i] = f[j]
      PROVE  i = j
  <2>1. s[i] = s[j] /\ g[s[i]][i] = g[s[i]][j]
    BY <1>5, <1>7
  <2>2. i \in In(s[i], s) /\ j \in In(s[i], s)
    BY <2>1
  <2> QED BY <1>4, <2>1, <2>2
<1>8. ASSUME NEW k \in old
      PROVE  \E j \in DOMAIN s : f[j] = k
  <2>1. PICK i \in DOMAIN s : s[i] = t[k] /\ k \in DOMAIN t
    BY <1>2
  <2>2. k \in In(s[i], t)
    BY <2>1
  <2>3. PICK j \in In(s[i], s) : g[s[i]][j] = k
    BY <1>4, <2>2
  <2>4. j \in DOMAIN s /\ s[j] = s[i]
    OBVIOUS
  <2>5. f[j] = g[s[j]][j]
    BY <1>5, <2>4
  <2> QED BY <2>3, <2>4, <2>5
<1> HIDE DEF f, new
<1>9. f \in Bijection(DOMAIN s, old)
  BY <1>6, <1>7, <1>8, Fun_IsBij
<1>10. Cost(s, DOMAIN s) = Cost(t, old)
  BY <1>5, <1>9, CostMoved
<1>11. Cost(t, old \cup new) = Cost(t, old) + Cost(t, new)
  BY <1>2, CostOfBoth
<1>12. DOMAIN t = old \cup new
  BY <1>2
<1> QED BY <1>10, <1>11, <1>12 DEF new

\* What the properties count: the actions nobody asked for, as the others cost nothing.
LEMMA PaidIsAll ==
    ASSUME NEW s \in Seq(Priced)
    PROVE  Cost(s, getNewActions(Requested, s)) = Cost(s, DOMAIN s)
<1> DEFINE new == getNewActions(Requested, s)
           old == DOMAIN s \ new
<1>1. DOMAIN Requested = 1..Len(Requested)
  BY FeeAssumption, PlacesAre
<1>2. new \in SUBSET DOMAIN s /\ \A i \in old : \E j \in DOMAIN Requested : Requested[j] = s[i]
  BY <1>1 DEF getNewActions, Contains
<1>3. \A i \in old : s[i].cost = 0
  BY <1>2, FeeAssumption
<1> HIDE DEF new
<1>4. Cost(s, old) = 0 /\ Cost(s, new) \in Nat
  BY <1>2, <1>3, CostOfNone, CostIsNumber
<1>5. Cost(s, new \cup old) = Cost(s, new) + Cost(s, old)
  BY <1>2, CostOfBoth
<1>6. DOMAIN s = new \cup old
  BY <1>2
<1> QED BY <1>4, <1>5, <1>6 DEF new

\* The fees of an offer that is allowed are what its new actions cost.
LEMMA FeesAre ==
    ASSUME NEW s \in Seq(Priced), NEW offer \in Offers, OfferAllowed(offer, getNewActions(s, offer))
    PROVE  addedFees(offer, getNewActions(s, offer)) = Cost(offer, getNewActions(s, offer))
<1> DEFINE new == getNewActions(s, offer)
           paid == {i \in new : offer[i].name \in {"transfer", "buyrambytes"}}
           free == new \ paid
<1>1. offer \in Seq(Priced) /\ new \in SUBSET DOMAIN offer
  BY FeeAssumption DEF getNewActions
<1>2. \A i \in free : offer[i].name = "noop"
  BY DEF OfferAllowed
<1>3. \A i \in free : offer[i].cost = 0
  BY <1>1, <1>2, FeeAssumption
<1>4. addedFees(offer, new) = Cost(offer, paid)
  BY DEF addedFees
<1>5. paid \in SUBSET new
  OBVIOUS
<1> HIDE DEF new, paid
<1>6. Cost(offer, free) = 0 /\ Cost(offer, paid) \in Nat
  BY <1>1, <1>3, <1>5, CostOfNone, CostIsNumber
<1>7. Cost(offer, paid \cup free) = Cost(offer, paid) + Cost(offer, free)
  BY <1>1, <1>5, CostOfBoth
<1>8. new = paid \cup free
  BY <1>5
<1>9. addedFees(offer, new) = Cost(offer, new)
  <2>1. Cost(offer, new) = Cost(offer, paid \cup free)
    BY <1>8, Zenon
  <2>2. Cost(offer, paid \cup free) = Cost(offer, paid)
    BY <1>6, <1>7
  <2> QED BY <1>4, <2>1, <2>2, Zenon
<1> QED BY <1>9 DEF new

\* A plugin runs once: when the provider's turn is over, it is not left.
LEMMA PluginsLeft ==
    ASSUME plugins \in PluginLists, plugins # <<>>
    PROVE  /\ Tail(plugins) \in PluginLists
           /\ (\E i \in DOMAIN Tail(plugins) : Tail(plugins)[i] = "provider") => ProviderIsLeft
           /\ Head(plugins) = "provider" =>
                ProviderIsLeft /\ ~\E i \in DOMAIN Tail(plugins) : Tail(plugins)[i] = "provider"
<1>1. CASE plugins = <<"provider">>
  <2>1. Tail(plugins) = <<>> /\ 1 \in DOMAIN plugins /\ plugins[1] = "provider"
    BY <1>1
  <2> QED BY <2>1 DEF PluginLists, ProviderIsLeft
<1>4. CASE plugins = <<"autocorrect">>
  <2>1. Tail(plugins) = <<>> /\ Head(plugins) = "autocorrect"
    BY <1>4
  <2> QED BY <2>1 DEF PluginLists, ProviderIsLeft
<1>2. CASE plugins = <<"provider", "autocorrect">>
  <2>1. Tail(plugins) = <<"autocorrect">> /\ 1 \in DOMAIN plugins /\ plugins[1] = "provider"
    BY <1>2
  <2> QED BY <2>1 DEF PluginLists, ProviderIsLeft
<1>3. CASE plugins = <<"autocorrect", "provider">>
  <2>1. Tail(plugins) = <<"provider">> /\ Head(plugins) = "autocorrect" /\ 2 \in DOMAIN plugins
        /\ plugins[2] = "provider"
    BY <1>3
  <2> QED BY <2>1 DEF PluginLists, ProviderIsLeft
<1> QED BY <1>1, <1>2, <1>3, <1>4 DEF PluginLists

\* Nothing was bought yet.
LEMMA FeeStarts == FeeInit => FeeInv
<1> SUFFICES ASSUME FeeInit PROVE FeeInv
  OBVIOUS
<1>1. Requested \in Seq(Priced) /\ MaxFee \in Nat /\ \A i \in DOMAIN Requested : Requested[i].cost = 0
  BY FeeAssumption
<1>2. Cost(Requested, DOMAIN Requested) = 0
  BY <1>1, CostOfNone
<1>3. Whole(Requested)
  BY <1>1, PlacesAre DEF Whole, Contains
<1>4. <<>> \in Seq(Priced)
  OBVIOUS
<1>5. FeeTypes
  BY <1>1, <1>4 DEF FeeInit, FeeTypes, PluginLists
<1> QED BY <1>1, <1>2, <1>3, <1>5 DEF FeeInit, FeeInv, Paying, Trying

\* A hook that fails leaves the request.
LEMMA FeeFails ==
    ASSUME FeeInv, FailHook, UNCHANGED recounted, trial' \in Seq(Priced), price' \in Nat
    PROVE  FeeInv'
<1>1. FeeTypes'
  BY DEF FeeInv, FeeTypes, FailHook
<1> QED BY <1>1 DEF FeeInv, Paying, Trying, FailHook, ProviderIsLeft

\* A plugin's answer is taken over while the request is open: what it costs must be
\* what was agreed so far and the fee, and without a UI the fee is the provider's.
LEMMA Responded ==
    ASSUME FeeInv, NEW answer \in Seq(Priced), NEW signed \in BOOLEAN, NEW fee \in Nat,
           plugins # <<>>, Respond(answer, signed, fee), UNCHANGED idleCorrect,
           recounted' \in BOOLEAN, ~recounted' => ~recounted,
           modify => Whole(answer) /\ (~recounted' => Cost(answer, DOMAIN answer) = agreed + fee),
           ~ui => fee = 0 \/ (Head(plugins) = "provider" /\ fee <= MaxFee)
    PROVE  FeeInv'
<1>1. /\ plugins \in PluginLists /\ ui \in BOOLEAN /\ modify \in BOOLEAN /\ tx \in Seq(Priced)
      /\ agreed \in Nat /\ trial \in Seq(Priced) /\ price \in Nat /\ MaxFee \in Nat
  BY FeeAssumption DEF FeeInv, FeeTypes
<1>2. /\ plugins' = Tail(plugins) /\ stage' = "hook" /\ ui' = ui
      /\ tx' = IF modify THEN answer ELSE tx
      /\ agreed' = IF modify THEN agreed + fee ELSE agreed
      /\ modify' = (modify /\ ~signed)
      /\ trial' = trial /\ price' = price
  BY DEF Respond, idleCorrect
<1>3. plugins' \in PluginLists /\ modify' \in BOOLEAN
  <2>1. plugins' \in PluginLists
    BY <1>1, <1>2, PluginsLeft
  <2>2. modify' \in BOOLEAN
    BY <1>2, Zenon
  <2> QED BY <2>1, <2>2
<1>4. tx' \in Seq(Priced) /\ agreed' \in Nat
  BY <1>1, <1>2
<1>5. FeeTypes'
  BY <1>1, <1>2, <1>3, <1>4 DEF FeeTypes
<1>6. /\ Whole(tx)
      /\ ~recounted => Cost(tx, DOMAIN tx) = agreed
      /\ ~ui => agreed <= MaxFee /\ (ProviderIsLeft => agreed = 0)
  BY DEF FeeInv, Paying
<1>7. Whole(tx') /\ (~recounted' => Cost(tx', DOMAIN tx') = agreed')
  BY <1>2, <1>6
<1>8. ~ui => agreed' <= MaxFee /\ (ProviderIsLeft' => agreed' = 0)
  <2> SUFFICES ASSUME ~ui PROVE agreed' <= MaxFee /\ (ProviderIsLeft' => agreed' = 0)
    OBVIOUS
  <2>1. /\ ProviderIsLeft' => ProviderIsLeft
        /\ Head(plugins) = "provider" => ProviderIsLeft /\ ~ProviderIsLeft'
    BY <1>1, <1>2, PluginsLeft DEF ProviderIsLeft
  <2>2. CASE fee = 0
    BY <1>1, <1>2, <1>6, <2>1, <2>2
  <2>3. CASE Head(plugins) = "provider" /\ fee <= MaxFee
    BY <1>1, <1>2, <1>6, <2>1, <2>3
  <2> QED BY <2>2, <2>3
<1>9. Paying'
  BY <1>2, <1>7, <1>8 DEF Paying, Whole
<1> QED BY <1>2, <1>5, <1>9 DEF FeeInv, Trying

\* The provider's offer.
LEMMA Offered ==
    ASSUME FeeInv, NEW offer \in Offers, NEW payment \in BOOLEAN, ProviderOffers(offer, payment)
    PROVE  FeeInv'
<1> DEFINE new == getNewActions(tx, offer)
           fee == addedFees(offer, new)
<1>1. /\ tx \in Seq(Priced) /\ modify \in BOOLEAN /\ recounted \in BOOLEAN /\ agreed \in Nat
      /\ trial \in Seq(Priced) /\ price \in Nat
      /\ Whole(tx) /\ (~recounted => Cost(tx, DOMAIN tx) = agreed)
      /\ offer \in Seq(Priced) /\ MaxFee \in Nat
  BY FeeAssumption DEF FeeInv, FeeTypes, Paying
<1>2. /\ plugins # <<>> /\ Head(plugins) = "provider" /\ UNCHANGED idleCorrect
      /\ recounted' = (recounted \/ (tx' # tx /\ \E i \in DOMAIN tx :
                                          Times(tx[i], offer) # Times(tx[i], tx)))
  BY DEF ProviderOffers, Turn
<1>3. recounted' \in BOOLEAN /\ (~recounted' => ~recounted)
  BY <1>1, <1>2, Zenon
<1>4. CASE Respond(tx, FALSE, 0)
  <2>1. modify => Whole(tx) /\ (~recounted' => Cost(tx, DOMAIN tx) = agreed + 0)
    BY <1>1, <1>3
  <2> QED BY <1>1, <1>2, <1>3, <1>4, <2>1, Responded
<1>5. CASE FailHook
  <2>1. tx' = tx
    BY <1>5 DEF FailHook
  <2>2. recounted' = recounted
    BY <1>1, <1>2, <2>1, Zenon
  <2>3. trial' = trial /\ price' = price
    BY <1>2 DEF idleCorrect
  <2> QED BY <1>1, <1>5, <2>2, <2>3, FeeFails
<1>6. CASE /\ Respond(offer, TRUE, fee) /\ hasOriginalActions(tx, offer)
           /\ OfferAllowed(offer, new) /\ ~(fee > MaxFee)
  <2>1. fee = Cost(offer, new) /\ fee \in Nat
    <3>1. new \in SUBSET DOMAIN offer
      BY DEF getNewActions
    <3>2. fee = Cost(offer, new)
      BY <1>1, <1>6, FeesAre
    <3> QED BY <1>1, <3>1, <3>2, CostIsNumber
  <2> HIDE DEF fee, new
  <2>2. fee <= MaxFee
    BY <1>1, <1>6, <2>1
  <2>3. Whole(offer)
    <3> SUFFICES ASSUME NEW i \in DOMAIN Requested
                 PROVE  Contains(offer, Requested[i])
      BY DEF Whole
    <3>1. PICK j \in 1..Len(tx) : tx[j] = Requested[i]
      BY <1>1 DEF Whole, Contains
    <3>2. Contains(offer, tx[j])
      BY <1>1, <1>6, PlacesAre DEF hasOriginalActions
    <3> QED BY <3>1, <3>2
  <2>4. ASSUME modify, ~recounted'
        PROVE  Cost(offer, DOMAIN offer) = agreed + fee
    <3>1. tx' = offer
      BY <1>6, <2>4 DEF Respond
    <3>2. \A i \in DOMAIN tx : Times(tx[i], offer) = Times(tx[i], tx)
      BY <1>2, <2>4, <3>1
    <3>3. Cost(offer, DOMAIN offer) = Cost(tx, DOMAIN tx) + Cost(offer, new)
      BY <1>1, <3>2, OfferCosts DEF new
    <3> QED BY <1>1, <1>3, <2>1, <2>4, <3>3
  <2> QED BY <1>1, <1>2, <1>3, <1>6, <2>1, <2>2, <2>3, <2>4, Responded
<1> QED BY <1>4, <1>5, <1>6 DEF ProviderOffers

\* The plugins' purchases.
LEMMA PurchasesAre ==
    /\ Bought("buyrambytes", RamPrice) \in Priced /\ Bought("buyrambytes", RamPrice).cost = RamPrice
    /\ Bought("powerup", PowerupPrice) \in Priced /\ Bought("powerup", PowerupPrice).cost = PowerupPrice
    /\ RamPrice \in Nat /\ PowerupPrice \in Nat
BY FeeAssumption DEF Bought, Priced

\* Autocorrect begins with the request as it is.
LEMMA CorrectionBegun ==
    ASSUME FeeInv, CorrectBegins
    PROVE  FeeInv'
<1>1. trial' = tx /\ price' = 0 /\ UNCHANGED recounted /\ plugins # <<>>
  BY DEF CorrectBegins, Turn
<1>2. /\ tx \in Seq(Priced) /\ agreed \in Nat /\ Whole(tx)
      /\ ~recounted => Cost(tx, DOMAIN tx) = agreed
  BY DEF FeeInv, FeeTypes, Paying
<1>3. CASE FailHook
  BY <1>1, <1>2, <1>3, FeeFails
<1>4. CASE ui /\ stage' = "correct" /\ UNCHANGED <<plugins, ui, tx, modify, agreed>>
  <2>1. FeeTypes'
    BY <1>1, <1>2, <1>4 DEF FeeInv, FeeTypes
  <2>2. Paying'
    BY <1>1, <1>4 DEF FeeInv, Paying, Whole, ProviderIsLeft
  <2>3. Trying'
    BY <1>1, <1>2, <1>4 DEF Trying, Whole
  <2> QED BY <2>1, <2>2, <2>3 DEF FeeInv
<1> QED BY <1>3, <1>4 DEF CorrectBegins

\* A correction puts purchases first and adds what they cost to the price.
LEMMA Corrected ==
    ASSUME FeeInv, stage = "correct", stage' \in {"correct", "propose"},
           UNCHANGED <<plugins, ui, tx, modify, agreed, recounted>>,
           trial' \in Seq(Priced), NEW more \in Nat, price' = price + more,
           Cost(trial', DOMAIN trial') = more + Cost(trial, DOMAIN trial),
           \A x : Contains(trial, x) => Contains(trial', x)
    PROVE  FeeInv'
<1>1. /\ trial \in Seq(Priced) /\ price \in Nat /\ agreed \in Nat
      /\ ui /\ plugins # <<>> /\ Whole(trial)
      /\ ~recounted => Cost(trial, DOMAIN trial) = agreed + price
  BY DEF FeeInv, FeeTypes, Trying
<1>2. FeeTypes'
  BY <1>1 DEF FeeInv, FeeTypes
<1>3. Paying'
  BY DEF FeeInv, Paying, Whole, ProviderIsLeft
<1>4. Trying'
  BY <1>1 DEF Trying, Whole
<1> QED BY <1>2, <1>3, <1>4 DEF FeeInv

\* The purchases autocorrect makes.
LEMMA CorrectionSteps ==
    ASSUME FeeInv, CorrectEnds \/ BuyRam \/ PowerUp
    PROVE  FeeInv'
<1> DEFINE ram == Bought("buyrambytes", RamPrice)
           up == Bought("powerup", PowerupPrice)
           powered == <<up>> \o trial
<1>1. trial \in Seq(Priced) /\ price \in Nat
  BY DEF FeeInv, FeeTypes
<1>2. /\ ram \in Priced /\ ram.cost = RamPrice /\ up \in Priced /\ up.cost = PowerupPrice
      /\ RamPrice \in Nat /\ PowerupPrice \in Nat
  BY PurchasesAre
<1>3. Cost(trial, DOMAIN trial) \in Nat
  BY <1>1, CostIsNumber
<1>4. CASE CorrectEnds
  <2>1. /\ stage = "correct" /\ stage' = "propose" /\ trial' = trial /\ price' = price + 0
        /\ UNCHANGED <<plugins, ui, tx, modify, agreed, recounted>>
    BY <1>1, <1>4 DEF CorrectEnds
  <2>2. Cost(trial', DOMAIN trial') = 0 + Cost(trial, DOMAIN trial)
    BY <1>3, <2>1
  <2> QED BY <1>1, <2>1, <2>2, Corrected
<1>5. CASE BuyRam
  <2>1. /\ stage = "correct" /\ stage' = "correct" /\ trial' = <<ram>> \o trial
        /\ price' = price + RamPrice
        /\ UNCHANGED <<plugins, ui, tx, modify, agreed, recounted>>
    BY <1>5 DEF BuyRam, AddPrice
  <2> HIDE DEF ram
  <2>2. /\ trial' \in Seq(Priced)
        /\ Cost(trial', DOMAIN trial') = RamPrice + Cost(trial, DOMAIN trial)
        /\ \A x : Contains(trial, x) => Contains(trial', x)
    BY <1>1, <1>2, <2>1, CostWithFirst
  <2> QED BY <1>2, <2>1, <2>2, Corrected
<1>6. CASE PowerUp
  <2>1. /\ stage = "correct" /\ stage' = "correct"
        /\ trial' = IF ramLow THEN <<ram>> \o powered ELSE powered
        /\ price' = price + (PowerupPrice + (IF ramLow THEN RamPrice ELSE 0))
        /\ UNCHANGED <<plugins, ui, tx, modify, agreed, recounted>>
    BY <1>6 DEF PowerUp, AddPrice
  <2> HIDE DEF ram, up
  <2>2. /\ powered \in Seq(Priced)
        /\ Cost(powered, DOMAIN powered) = PowerupPrice + Cost(trial, DOMAIN trial)
        /\ \A x : Contains(trial, x) => Contains(powered, x)
    BY <1>1, <1>2, CostWithFirst
  <2> HIDE DEF powered
  <2>3. CASE ramLow
    <3>1. /\ trial' \in Seq(Priced)
          /\ Cost(trial', DOMAIN trial') = RamPrice + Cost(powered, DOMAIN powered)
          /\ \A x : Contains(powered, x) => Contains(trial', x)
      BY <1>2, <2>1, <2>2, <2>3, CostWithFirst
    <3>2. /\ Cost(trial', DOMAIN trial') = (PowerupPrice + RamPrice) + Cost(trial, DOMAIN trial)
          /\ PowerupPrice + RamPrice \in Nat /\ price' = price + (PowerupPrice + RamPrice)
      BY <1>2, <1>3, <2>1, <2>2, <2>3, <3>1
    <3> QED BY <2>1, <2>2, <3>1, <3>2, Corrected
  <2>4. CASE ~ramLow
    <3>1. price' = price + PowerupPrice /\ trial' = powered
      BY <1>2, <2>1, <2>4
    <3> QED BY <1>2, <2>1, <2>2, <3>1, Corrected
  <2> QED BY <2>3, <2>4
<1> QED BY <1>4, <1>5, <1>6

\* What was corrected is proposed, for its whole price.
LEMMA Proposed ==
    ASSUME FeeInv, Propose
    PROVE  FeeInv'
<1>1. /\ tx \in Seq(Priced) /\ trial \in Seq(Priced) /\ price \in Nat /\ agreed \in Nat
      /\ recounted \in BOOLEAN /\ recounted' = recounted /\ UNCHANGED idleCorrect
      /\ ui /\ plugins # <<>> /\ Whole(trial) /\ Whole(tx)
      /\ ~recounted => Cost(trial, DOMAIN trial) = agreed + price
      /\ ~recounted => Cost(tx, DOMAIN tx) = agreed + 0
  BY DEF Propose, FeeInv, FeeTypes, Paying, Trying
<1>2. CASE Respond(tx, FALSE, 0)
  BY <1>1, <1>2, Responded
<1>3. CASE Respond(trial, FALSE, price)
  BY <1>1, <1>3, Responded
<1>4. CASE FailHook
  <2>1. trial' = trial /\ price' = price
    BY <1>1 DEF idleCorrect
  <2> QED BY <1>1, <1>4, <2>1, FeeFails
<1> QED BY <1>2, <1>3, <1>4 DEF Propose

\* Every step of the two plugins keeps the account of what they cost.
LEMMA FeeSteps == FeeInv /\ [FeeNext]_feeVars => FeeInv'
<1> SUFFICES ASSUME FeeInv, [FeeNext]_feeVars
             PROVE  FeeInv'
  OBVIOUS
<1>1. CASE ProviderDeclines
  <2>1. /\ plugins # <<>> /\ Respond(tx, FALSE, 0) /\ UNCHANGED idleCorrect /\ recounted' = recounted
    BY <1>1 DEF ProviderDeclines, Turn
  <2>2. /\ tx \in Seq(Priced) /\ recounted \in BOOLEAN /\ agreed \in Nat
        /\ Whole(tx) /\ (~recounted => Cost(tx, DOMAIN tx) = agreed + 0)
    BY DEF FeeInv, FeeTypes, Paying
  <2> QED BY <2>1, <2>2, Responded
<1>2. CASE ProviderFails \/ CorrectFails
  <2>1. FailHook /\ trial' = trial /\ price' = price /\ UNCHANGED recounted
    BY <1>2 DEF ProviderFails, CorrectFails, idleCorrect
  <2> QED BY <2>1, FeeFails DEF FeeInv, FeeTypes
<1>3. CASE \E o \in Offers, p \in BOOLEAN : ProviderOffers(o, p)
  BY <1>3, Offered
<1>4. CASE CorrectBegins
  BY <1>4, CorrectionBegun
<1>5. CASE CorrectEnds \/ BuyRam \/ PowerUp
  BY <1>5, CorrectionSteps
<1>6. CASE Propose
  BY <1>6, Proposed
<1>7. CASE UNCHANGED feeVars
  BY <1>7 DEF feeVars, idleCorrect, FeeInv, FeeTypes, Paying, Trying, Whole, ProviderIsLeft
<1> QED BY <1>1, <1>2, <1>3, <1>4, <1>5, <1>6, <1>7 DEF FeeNext

\* Whatever a provider offers and however often autocorrect corrects its own correction, in
\* either order: the purchases in the request cost what was agreed to, without a UI at most
\* maxFee, and nothing the caller asked for is lost (resource_provider.cpp:215-315,
\* autocorrect.cpp:91-392), unless an offer changed how often an action is in the request.
THEOREM PaidAlwaysAgreed == FeeSpec => []PaidIsAgreed
<1>1. FeeInv => PaidIsAgreed
  <2> SUFFICES ASSUME FeeInv PROVE PaidIsAgreed
    OBVIOUS
  <2>1. Cost(tx, getNewActions(Requested, tx)) = Cost(tx, DOMAIN tx)
    BY PaidIsAll DEF FeeInv, FeeTypes
  <2> QED BY <2>1 DEF FeeInv, Paying, Whole, PaidIsAgreed
<1> QED BY <1>1, FeeStarts, FeeSteps, PTL DEF FeeSpec
=============================================================================
