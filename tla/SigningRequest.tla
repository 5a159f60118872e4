----------------------------- MODULE SigningRequest -----------------------------
(* src/signing_request: a request travels from the dapp to a wallet as a URI,  *)
(* is resolved there for a signer, a chain and a block, signed, and comes back *)
(* as the payload of a callback from which the dapp rebuilds the transaction   *)
(* or an identity proof. Names are model strings, "P1" and "P2" the            *)
(* placeholders; the data of an action is the sequence of names in it.         *)
EXTENDS Integers, Sequences, SequencesExt, FiniteSets

CONSTANTS
    CreateArgs,      \* arguments of SigningRequest::create
    RequestChains,   \* every chain id
    NamedChains,     \* those with a ChainName
    AbiAccounts,     \* accounts with an ABI
    Signers,         \* permission levels of the wallet
    Contexts,        \* TransactionContexts the wallet resolves with
    RefWord,         \* values of ref_block_num (2^16)
    MaxEdits         \* bound: setters called after create

None == -1
NoPerm == [actor |-> "", permission |-> ""]
NoTapos == [expiration |-> 0, num |-> 0, prefix |-> 0]
NoSig == {}
Fail == [ok |-> FALSE]
Ok(x) == [ok |-> TRUE, is |-> x]
ExpireSeconds == 60
PlaceholderAuth == [actor |-> "P1", permission |-> "P2"]

(* What a caller may give: an account, a scope and a wallet's permission are no  *)
(* placeholders, and no chain is named as none is.                               *)
PlainNames == STRING \ {"P1", "P2"}
PermissionLevels == [actor : STRING, permission : STRING]
RefBlocks == 0..(RefWord - 1)
CallerActions == [account : STRING, auth : PermissionLevels, data : Seq(STRING), bytes : BOOLEAN]
CallerArgs ==
    [kinds : SUBSET {"action", "actions", "transaction", "identity"}, actions : Seq(CallerActions),
     tapos : [expiration : Nat, num : RefBlocks, prefix : Nat], perm : PermissionLevels,
     scope : PlainNames, anyChain : BOOLEAN, chainId : STRING, chainIds : SUBSET STRING,
     broadcast : {"unset", "yes", "no"},
     callback : STRING, info : Seq([key : STRING, chains : SUBSET STRING])]
CallerContexts ==
    [expiration : Nat \cup {None}, num : RefBlocks \cup {None}, prefix : Nat \cup {None},
     block : Nat \cup {None}, timestamp : Nat \cup {None}, chain : STRING]
ASSUME RequestAssumption ==
    /\ RefWord \in Nat \ {0} /\ "none" \notin NamedChains
    /\ CreateArgs \subseteq CallerArgs /\ Contexts \subseteq CallerContexts
    /\ Signers \subseteq [actor : PlainNames, permission : PlainNames]

VARIABLES
    request,     \* the dapp's SigningRequest
    args,        \* what it was created from
    edits,
    stale,       \* a setter has run since the request was signed
    uri,         \* what encode() wrote
    received,    \* the wallet's SigningRequest
    resolved,    \* the wallet's ResolvedSigningRequest
    payload,     \* the CallbackPayload
    dropped,     \* fields of it lost on the way
    rebuilt,     \* the dapp's ResolvedSigningRequest
    proof        \* an IdentityProof of the dapp or of the wallet

requestVars == <<request, args, edits, stale, uri, received, resolved, payload, dropped, rebuilt, proof>>
later == <<received, resolved, payload, dropped, rebuilt, proof>>

(* ChainId::chainVariant and variantChainId; alias 0 stands for any chain. *)
AnyChain == <<"alias", "none">>
chainVariant(c) == IF c \in NamedChains THEN <<"alias", c>> ELSE <<"id", c>>
variantChainId(v) == IF v = AnyChain THEN Fail ELSE Ok(v[2])

isMultiChain(r) == r.chain = AnyChain
isIdentity(r) == r.kind = "identity"
Signable(r) == [r EXCEPT !.sig = NoSig]
sign(r) == [r EXCEPT !.sig = {Signable(r)}]

(* getRawInfoKey: the place of the first pair of the key, 0 when there is none. *)
InfoAt(r, key) == SelectInSeq(r.info, LAMBDA p : p.key = key)
getChainIds(r) == IF InfoAt(r, "chain_ids") = 0 THEN RequestChains
                  ELSE r.info[InfoAt(r, "chain_ids")].chains
setRawInfoKey(r, key, chains) ==
    IF InfoAt(r, key) = 0 THEN [r EXCEPT !.info = Append(@, [key |-> key, chains |-> chains])]
    ELSE [r EXCEPT !.info[InfoAt(r, key)].chains = chains]

(* SigningRequest::create: the kind of request, its version, chain and flags.  *)
(* Actions whose data is not bytes need an ABI. With an identity the other     *)
(* arguments are ignored.                                                      *)
KindOf(a) ==
    IF "identity" \in a.kinds THEN "identity"
    ELSE IF Cardinality(a.kinds) # 1 THEN "invalid"
    ELSE IF a.kinds = {"actions"} /\ Len(a.actions) = 1 THEN "action"
    ELSE CHOOSE k \in a.kinds : TRUE
(* encodeActionJson: bytes are taken as they are, anything else needs an ABI. *)
Encodes(act) == act.bytes \/ act.account \in AbiAccounts
versionOf(a) == IF a.anyChain \/ ("identity" \in a.kinds /\ a.scope # "") THEN 3 ELSE 2
create(a, signs) ==
    LET kind == KindOf(a)
        ident == kind = "identity"
        version == versionOf(a)
        r == [version |-> version, kind |-> kind,
              chain |-> IF a.anyChain THEN AnyChain ELSE chainVariant(a.chainId),
              actions |-> IF ident THEN <<>> ELSE a.actions,
              tapos |-> IF kind = "transaction" THEN a.tapos ELSE NoTapos,
              perm |-> IF ident THEN a.perm ELSE NoPerm, scope |-> IF ident THEN a.scope ELSE "",
              broadcast |-> IF a.broadcast = "unset" THEN ~ident ELSE a.broadcast = "yes",
              callback |-> a.callback,
              info |-> a.info \o IF a.anyChain /\ a.chainIds # {}
                                 THEN <<[key |-> "chain_ids", chains |-> a.chainIds]>> ELSE <<>>,
              sig |-> NoSig]
        needsAbi == a.kinds # {"identity"} /\ \E i \in DOMAIN a.actions : ~Encodes(a.actions[i])
    IN  IF needsAbi \/ kind = "invalid" \/ (ident /\ version = 3 /\ a.scope = "") \/ (ident /\ r.broadcast)
        THEN Fail ELSE Ok(IF signs THEN sign(r) ELSE r)

(* SigningRequest::identity: never broadcast, and a permission that is all      *)
(* placeholders is left out.                                                    *)
identity(a) == [a EXCEPT !.kinds = {"identity"}, !.broadcast = "no",
                         !.perm = IF @ = PlaceholderAuth THEN NoPerm ELSE @]

(* encode() and from()/fromData(): every field and the signature, after a      *)
(* header byte with the version; an identity to be broadcast is refused.       *)
encode(r) == [header |-> r.version, body |-> r]
fromData(u) == IF isIdentity(u.body) /\ u.body.broadcast THEN Fail
               ELSE Ok([u.body EXCEPT !.version = u.header])

(* getRawActions: an identity becomes an action of no account. *)
identityPerm(r) == IF r.perm = NoPerm THEN PlaceholderAuth ELSE r.perm
IdentityAction(version, scope, perm) ==
    [account |-> "", auth |-> perm, bytes |-> TRUE,
     data |-> IF version = 2 THEN <<perm.actor, perm.permission>>
              ELSE <<scope, perm.actor, perm.permission>>]
getRawActions(r) == IF isIdentity(r) THEN <<IdentityAction(r.version, r.scope, identityPerm(r))>>
                    ELSE r.actions

(* resolveActions: placeholders in the data and in the authorizations. *)
resolveName(n, s) == IF n = "P1" THEN s.actor ELSE IF n = "P2" THEN s.permission ELSE n
resolveAuth(p, s) == [actor |-> IF p.actor = "P1" THEN s.actor ELSE p.actor,
                      permission |-> IF p.permission \in {"P1", "P2"} THEN s.permission ELSE p.permission]
resolveActions(r, s) ==
    LET raw == getRawActions(r)
    IN  [i \in DOMAIN raw |->
            [raw[i] EXCEPT !.auth = resolveAuth(@, s), !.bytes = TRUE,
                           !.data = [j \in DOMAIN @ |-> resolveName(@[j], s)]]]

(* resolveTransaction: the request's own TaPoS, else the context's explicit     *)
(* values, else its reference block; an identity has an expiration from         *)
(* version 3 on. now is the clock of whoever resolves.                          *)
hasTapos(tapos) == tapos # NoTapos
expirationTime(ctx, now) == (IF ctx.timestamp # None THEN ctx.timestamp ELSE now) + ExpireSeconds
taposOf(r, ctx, now) ==
    IF isIdentity(r)
    THEN Ok([NoTapos EXCEPT !.expiration = IF r.version = 2 THEN 0
                                           ELSE IF ctx.expiration # None THEN ctx.expiration
                                           ELSE expirationTime(ctx, now)])
    ELSE IF hasTapos(r.tapos) THEN Ok(r.tapos)
    ELSE IF ctx.expiration # None /\ ctx.num # None /\ ctx.prefix # None
    THEN Ok([expiration |-> ctx.expiration, num |-> ctx.num, prefix |-> ctx.prefix])
    ELSE IF ctx.block # None /\ ctx.prefix # None /\ ctx.timestamp # None
    THEN Ok([expiration |-> expirationTime(ctx, now), num |-> ctx.block % RefWord, prefix |-> ctx.prefix])
    ELSE Fail

(* A mutant: the chosen chain is not compared with the request's chain_ids. *)
chainOfAny(r, ctx) == IF isMultiChain(r) THEN (IF ctx.chain = "" THEN Fail ELSE Ok(ctx.chain))
                      ELSE variantChainId(r.chain)
chainOf(r, ctx) ==
    IF isMultiChain(r) THEN (IF ctx.chain \in getChainIds(r) THEN Ok(ctx.chain) ELSE Fail)
    ELSE variantChainId(r.chain)

(* fetchAbis and resolve. *)
hasAbis(r) == \A i \in DOMAIN r.actions : r.actions[i].account \in AbiAccounts
resolve(r, s, ctx, now) ==
    LET tapos == taposOf(r, ctx, now)
        chain == chainOf(r, ctx)
    IN  IF ~hasAbis(r) \/ ~tapos.ok \/ ~chain.ok THEN Fail
        ELSE Ok([request |-> r, signer |-> s, chain |-> chain.is,
                 tx |-> [tapos |-> tapos.is, actions |-> resolveActions(r, s)]])
SigningDigest(chain, tx) == <<chain, tx>>

(* A mutant: the payload names the identity asked for instead of the signer. *)
getCallbackAsked(r) == [req |-> encode(r.request), signer |-> identityPerm(r.request),
                        tapos |-> r.tx.tapos, chain |-> r.chain, sig |-> SigningDigest(r.chain, r.tx)]
getCallback(r) == [req |-> encode(r.request), signer |-> r.signer, tapos |-> r.tx.tapos,
                   chain |-> r.chain, sig |-> SigningDigest(r.chain, r.tx)]

(* ResolvedSigningRequest::fromPayload: "rbn" and "rid" may be missing, "ex"    *)
(* and "cid" too, the last then being the request's own chain.                  *)
fromPayload(p, lost, now) ==
    LET r == fromData(p.req)
        own == variantChainId(r.is.chain)
        Field(f, v) == IF f \in lost THEN None ELSE v
        ctx == [expiration |-> Field("ex", p.tapos.expiration), num |-> Field("rbn", p.tapos.num % RefWord),
                prefix |-> Field("rid", p.tapos.prefix), block |-> None, timestamp |-> None,
                chain |-> IF "cid" \in lost THEN own.is ELSE p.chain]
    IN  IF ~r.ok \/ (r.ok /\ "cid" \in lost /\ ~own.ok) THEN Fail
        ELSE resolve(r.is, p.signer, ctx, now)

(* getIdentityProof of the wallet, IdentityProof::fromPayload of the dapp, and  *)
(* the transaction a proof is verified against.                                 *)
getIdentityProof(r, sig) ==
    [chain |-> r.chain, scope |-> r.request.scope, expiration |-> r.tx.tapos.expiration,
     signer |-> r.signer, sig |-> sig]
proofFromPayload(p, lost) ==
    LET r == fromData(p.req)
        own == variantChainId(r.is.chain)
    IN  IF ~(r.ok /\ r.is.version >= 3 /\ isIdentity(r.is)) \/ "ex" \in lost THEN Fail
        ELSE IF "cid" \in lost /\ ~own.ok THEN Fail
        ELSE Ok([chain |-> IF "cid" \in lost THEN own.is ELSE p.chain, scope |-> r.is.scope,
                 expiration |-> p.tapos.expiration, signer |-> p.signer, sig |-> p.sig])
ProofTransaction(q) ==
    [tapos |-> [NoTapos EXCEPT !.expiration = q.expiration],
     actions |-> <<IdentityAction(3, q.scope, q.signer)>>]
Verifies(q) == q.sig = SigningDigest(q.chain, ProofTransaction(q))

(* -------------------------------- the exchange -------------------------------- *)
Create ==
    /\ ~request.ok /\ args = {}
    /\ \E a \in CreateArgs \cup {identity(b) : b \in {c \in CreateArgs : "identity" \in c.kinds}},
          signs \in BOOLEAN : request' = create(a, signs) /\ args' = {a}
    /\ UNCHANGED <<edits, stale, uri, later>>
(* fromTransaction: a serialized transaction, read back like any request. *)
FromTransaction ==
    \E a \in {b \in CreateArgs : b.kinds = {"transaction"} /\ ~b.anyChain} :
        /\ ~request.ok /\ args = {} /\ create(a, FALSE).ok
        /\ request' = fromData(encode([create(a, FALSE).is EXCEPT !.broadcast = TRUE,
                                        !.callback = "", !.info = <<>>]))
        /\ args' = {a}
        /\ UNCHANGED <<edits, stale, uri, later>>

(* setCallback, setBroadcast, setChainIds leave the signature as it is. *)
Setters(r) == {[r EXCEPT !.callback = "url2"], [r EXCEPT !.broadcast = ~@]}
              \cup {setRawInfoKey(r, "chain_ids", cs) : cs \in {{"eos"}, {"custom"}}}
Edit ==
    /\ request.ok /\ uri = {} /\ edits < MaxEdits
    /\ \E r \in Setters(request.is) : request' = Ok(r)
    /\ stale' = (request.is.sig # NoSig) /\ edits' = edits + 1
    /\ UNCHANGED <<args, uri, later>>
SignRequest ==
    /\ request.ok /\ uri = {} /\ edits < MaxEdits
    /\ request' = Ok(sign(request.is)) /\ stale' = FALSE /\ edits' = edits + 1
    /\ UNCHANGED <<args, uri, later>>
Send ==
    /\ request.ok /\ uri = {}
    /\ uri' = {encode(request.is)} /\ received' = fromData(encode(request.is))
    /\ UNCHANGED <<request, args, edits, stale, resolved, payload, dropped, rebuilt, proof>>

WalletResolves ==
    \E s \in Signers, ctx \in Contexts :
        /\ received.ok /\ ~resolved.ok
        /\ resolved' = resolve(received.is, s, ctx, 7)
        /\ UNCHANGED <<request, args, edits, stale, uri, received, payload, dropped, rebuilt, proof>>
WalletProves ==
    /\ resolved.ok /\ isIdentity(received.is) /\ ~proof.ok
    /\ proof' = Ok(getIdentityProof(resolved.is, SigningDigest(resolved.is.chain, resolved.is.tx)))
    /\ UNCHANGED <<request, args, edits, stale, uri, received, resolved, payload, dropped, rebuilt>>
WalletAnswers ==
    \E lost \in SUBSET {"ex", "rbn", "cid"} :
        /\ resolved.ok /\ received.is.callback # "" /\ payload = {}
        /\ payload' = {getCallback(resolved.is)} /\ dropped' = lost
        /\ UNCHANGED <<request, args, edits, stale, uri, received, resolved, rebuilt, proof>>
DappRebuilds ==
    /\ payload # {} /\ ~rebuilt.ok
    /\ \E p \in payload : rebuilt' = fromPayload(p, dropped, 9)
    /\ UNCHANGED <<request, args, edits, stale, uri, received, resolved, payload, dropped, proof>>
DappProves ==
    /\ payload # {} /\ ~proof.ok
    /\ \E p \in payload : proof' = proofFromPayload(p, dropped)
    /\ UNCHANGED <<request, args, edits, stale, uri, received, resolved, payload, dropped, rebuilt>>

RequestInit ==
    /\ request = Fail /\ args = {} /\ edits = 0 /\ stale = FALSE /\ uri = {} /\ received = Fail
    /\ resolved = Fail /\ payload = {} /\ dropped = {} /\ rebuilt = Fail /\ proof = Fail
RequestNext ==
    \/ Create \/ FromTransaction \/ Edit \/ SignRequest \/ Send
    \/ WalletResolves \/ WalletProves \/ WalletAnswers \/ DappRebuilds \/ DappProves

(* What the dapp rebuilds from the callback is the transaction, chain and       *)
(* signer the wallet resolved and signed, whatever fields were lost: the rest   *)
(* fails. The one exception is an identity whose expiration was lost, which     *)
(* gets the dapp's clock (signing_request.cpp:510). The wallet resolves only    *)
(* for a chain the dapp asked for: its chainIds, unless its own info or a later *)
(* setChainIds names others. A signature that arrives covers the request it     *)
(* arrives with, unless a setter ran after sign(); a request that encode()      *)
(* wrote is read back unless setBroadcast was called on an identity.            *)
AgreedTransaction ==
    /\ rebuilt.ok => \/ rebuilt.is = resolved.is
                     \/ isIdentity(received.is) /\ "ex" \in dropped
    /\ resolved.ok /\ edits = 0 => \A a \in args :
          /\ a.anyChain /\ a.chainIds # {} /\ a.info = <<>> => resolved.is.chain \in a.chainIds
          /\ ~a.anyChain => resolved.is.chain = a.chainId
    /\ received.ok /\ received.is.sig # NoSig => stale \/ received.is.sig = {Signable(received.is)}
    /\ uri # {} /\ ~received.ok => edits > 0 /\ isIdentity(request.is)

(* A proof verifies when the request is of version 3 and asked for no identity  *)
(* or for the signer's, and one that verifies was signed for that very signer,  *)
(* scope and chain: an identity the wallet resolved for somebody else, or a     *)
(* version 2 request, gives a proof that never verifies (identity_proof.cpp:52, *)
(* signing_request.cpp:941).                                                    *)
ProofMeansSigned ==
    proof.ok =>
        LET asked == received.is.perm
            q == proof.is
        IN  /\ received.is.version = 3 /\ (asked \in {NoPerm, PlaceholderAuth, q.signer})
                 => Verifies(q)
            /\ Verifies(q) => /\ resolved.is.tx.actions[1].auth = q.signer
                              /\ q.signer = resolved.is.signer /\ q.chain = resolved.is.chain
                              /\ q.scope = received.is.scope /\ received.is.version = 3
=============================================================================
