------------------------------- MODULE Anchor -------------------------------
(***************************************************************************)
(* The Anchor wallet plugin: logins and signatures over its app and its web *)
(* transport, and the plugin data that the logins write and the signatures  *)
(* use. The data outlives a login and a session: nothing ever clears it.    *)
(*                                                                         *)
(* src/plugins/wallet/anchor.cpp             handleLogin, handleSign        *)
(* src/plugins/wallet/anchor_transports.cpp  NativeTransport, WebTransport  *)
(* src/plugins/wallet/anchor_mode.cpp, anchor_chains.cpp                    *)
(* src/protocol_esr/esr.cpp, callback.cpp, sealed_messages.cpp              *)
(*                                                                         *)
(* Calls are numbered. A key is named by the login that made it: call i     *)
(* brings the request key i, and the wallet that answers it the link key i  *)
(* and the channel i. A wait for the callback ends as module Buoy says.     *)
(***************************************************************************)
EXTENDS Naturals, Sequences, SequencesExt

CONSTANTS MaxPluginCalls,  \* bound: logins and signatures
          SigShapes,       \* the signature fields a wallet may answer with
          NoKey

ASSUME AnchorAssumption == MaxPluginCalls \in Nat /\ NoKey \notin Nat

VARIABLES data,      \* the plugin data (data_)
          override,  \* loginModeOverride_
          calls,     \* how many calls were made
          pending,   \* the calls under way: [id, kind, chain, via, pc]
          last,      \* how the last finished call ended
          sealed,    \* the last sealed request: the login of its keys and its channel
          torn       \* routes whose keys were written by two different logins

anchorVars == <<data, override, calls, pending, last, sealed, torn>>

Modes == {"app", "web"}
Chains == {"both", "appOnly"}     \* does the chain have a web authenticator
Unset == "unset"
NoLink == [login |-> NoKey, path |-> TRUE]

AnchorInit ==
    /\ data = [mode |-> Unset, privateKey |-> NoKey, signerKey |-> NoKey,
               channelUrl |-> NoLink,
               encryptionKey |-> NoKey, messageKey |-> NoKey]
    /\ override = Unset
    /\ calls = 0 /\ pending = {} /\ last = "none" /\ torn = {}
    /\ sealed = [from |-> NoKey, to |-> NoKey, over |-> NoKey, torn |-> FALSE]

---------------------------------------------------------------------------
(* anchor_mode.cpp                                                          *)

\* The mode stored, else inferred from the keys that are there.
readMode(d) ==
    IF d.mode \in Modes THEN d.mode
    ELSE IF d.channelUrl.login # NoKey \/ d.signerKey # NoKey THEN "app"
    ELSE IF d.encryptionKey # NoKey /\ d.messageKey # NoKey THEN "web"
    ELSE Unset

setMode(m) ==
    /\ override # m
    /\ override' = m
    /\ data' = [data EXCEPT !.mode = m]
    /\ UNCHANGED <<calls, pending, last, sealed, torn>>

---------------------------------------------------------------------------
(* esr.cpp and callback.cpp: what a wallet's answer is turned into.         *)

\* The signatures: "sig", then "sig0", "sig1"... by number, the empty ones left
\* out and each one once. A value that is no signature fails the call.
extractSignatures(p) ==
    LET all == SelectSeq(<<p.sig>> \o p.numbered, LAMBDA s : s # "")
    IN  FoldLeft(LAMBDA acc, s : IF Contains(acc, s) THEN acc ELSE Append(acc, s), <<>>, all)

Parses(sigs) == ~Contains(sigs, "malformed")

verifyLoginCallbackResponse(p, chain) == p.sig # "" /\ p.cid = chain

\* What waitForCallback returns for the message of the wallet.
waitForCallback(m) ==
    CASE m = "garbage" -> "Invalid"
      [] m \in {"rejected", "partial"} -> "Canceled"
      [] OTHER -> "payload"

Links == {"none", "badScheme", "noPath", "path"}
Payloads == [sig : {s.sig : s \in SigShapes}, numbered : {s.numbered : s \in SigShapes},
             cid : Chains, link : Links, tx : BOOLEAN, resolves : BOOLEAN]
LoginPayloads == {p \in Payloads : ~p.tx /\ p.numbered = <<>> /\ (p.sig = "s1" \/ p.resolves)}
SignPayloads == {p \in Payloads : p.link = "none" /\ p.cid = "both"
                                  /\ [sig |-> p.sig, numbered |-> p.numbered] \in SigShapes}

---------------------------------------------------------------------------
(* Calls.                                                                   *)

\* The request of a call has a key and a callback channel of its own, both new.
createIdentityRequest == calls + 1

\* A message to the link key, from the request key, over the channel of a login.
sealMessage(from, to, over, route) == [from |-> from, to |-> to, over |-> over, torn |-> route \in torn]

\* A call is refused at once, or goes on and waits for a prompt or a wallet.
Start(kind, chain, via, pc) ==
    /\ calls < MaxPluginCalls /\ calls' = calls + 1
    /\ pending' = IF pc \in {"prompt", "wait"}
                  THEN pending \cup {[id |-> createIdentityRequest, kind |-> kind, chain |-> chain,
                                      via |-> via, pc |-> pc]}
                  ELSE pending
    /\ last' = IF pc \in {"prompt", "wait"} THEN last ELSE pc

Finish(c, result) == pending' = pending \ {c} /\ last' = result /\ UNCHANGED calls

\* handleLogin up to the wait. The stored mode is not looked at (anchor.hpp:21
\* says it is); the new one is written before anything is known
\* of the login; on a chain without an authenticator it is left alone.
Login(chain, perCall) ==
    /\ LET mode == IF chain = "appOnly" THEN "app"
                   ELSE IF perCall # Unset THEN perCall
                   ELSE IF override # Unset THEN override ELSE "app"
       IN  /\ data' = IF chain = "appOnly" THEN data ELSE [data EXCEPT !.mode = mode]
           /\ Start("login", chain, mode, "wait")
    /\ UNCHANGED <<override, sealed, torn>>

\* Options the caller passed that readLoginOptions refuses; or no UI.
LoginRefused ==
    /\ Start("login", "both", "app", "Invalid")
    /\ UNCHANGED <<data, override, sealed, torn>>

\* A wait that ends without a payload ends the call.
WaitFails(c, why) ==
    /\ c.pc = "wait"
    /\ Finish(c, IF c.kind = "sign" /\ c.via = "app" /\ why = "Transport"
                 THEN "Canceled" ELSE why)
    /\ UNCHANGED <<data, override, sealed, torn>>

\* A mutant: the request keys are written although the wallet sent no link.
NativeDataAlways(i, p) ==
    IF p.link \in {"none", "badScheme"} THEN [data EXCEPT !.privateKey = i]
    ELSE [data EXCEPT !.privateKey = i, !.signerKey = i,
                      !.channelUrl = [login |-> i, path |-> p.link = "path"]]

\* What NativeTransport::login writes for call i and the payload p: the two
\* request keys before the channel is looked at, the rest after.
NativeData(i, p) ==
    IF p.link = "none" THEN data
    ELSE IF p.link = "badScheme" THEN [data EXCEPT !.privateKey = i]
    ELSE [data EXCEPT !.privateKey = i, !.signerKey = i,
                      !.channelUrl = [login |-> i, path |-> p.link = "path"]]

AppLoginEnds(c, p) ==
    /\ c.kind = "login" /\ c.via = "app" /\ c.pc = "wait"
    /\ IF ~verifyLoginCallbackResponse(p, c.chain)
       THEN Finish(c, "Invalid") /\ UNCHANGED <<data, torn>>
       ELSE /\ data' = NativeData(c.id, p)
            /\ Finish(c, IF p.link = "badScheme" \/ ~p.resolves \/ ~Parses(<<p.sig>>)
                         THEN "Invalid" ELSE "done")
            /\ torn' = CASE p.link = "badScheme" -> torn \cup {"app"}
                         [] p.link = "none" -> torn
                         [] OTHER -> torn \ {"app"}
    /\ UNCHANGED <<override, sealed>>

\* WebTransport::login does not verify the answer: the new encryption key is
\* kept in any case, the message key only if the wallet sent one.
WebLoginEnds(c, p) ==
    /\ c.kind = "login" /\ c.via = "web" /\ c.pc = "wait"
    /\ data' = [data EXCEPT !.encryptionKey = c.id,
                            !.messageKey = IF p.link = "none" THEN @ ELSE c.id]
    /\ torn' = IF p.link = "none" THEN torn \cup {"web"} ELSE torn \ {"web"}
    /\ Finish(c, IF Parses(<<p.sig>>) THEN "done" ELSE "Invalid")
    /\ UNCHANGED <<override, sealed>>

\* WebTransport::sign: without both keys refused; otherwise sealed with them.
WebSign(chain) ==
    IF data.encryptionKey = NoKey \/ data.messageKey = NoKey
    THEN Start("sign", chain, "web", "Invalid") /\ UNCHANGED sealed
    ELSE /\ Start("sign", chain, "web", "wait")
         /\ sealed' = sealMessage(data.encryptionKey, data.messageKey, data.messageKey, "web")

\* handleSign: the route is read from the data; the app route then shows its
\* prompt before it looks for the channel.
Sign(chain) ==
    /\ CASE readMode(data) # "web" -> Start("sign", chain, "app", "prompt") /\ UNCHANGED sealed
         [] readMode(data) = "web" /\ chain = "appOnly" -> Start("sign", chain, "web", "Invalid") /\ UNCHANGED sealed
         [] OTHER -> WebSign(chain)
    /\ UNCHANGED <<data, override, torn>>

\* The rest of NativeTransport::sign up to its wait: the request is sealed
\* and posted to the stored channel. A channel url without a path sends
\* nothing, and without a channel the request is opened on this device.
SignSend(c) ==
    /\ c.pc = "prompt"
    /\ LET link == data.channelUrl IN
       IF link.login = NoKey \/ ~link.path
       THEN UNCHANGED sealed
       ELSE sealed' = sealMessage(data.privateKey, data.signerKey, link.login, "app")
    /\ pending' = (pending \ {c}) \cup {[c EXCEPT !.pc = "wait"]}
    /\ UNCHANGED <<data, override, calls, last, torn>>

SignEnds(c, p) ==
    /\ c.kind = "sign" /\ c.pc = "wait"
    /\ LET sigs == extractSignatures(p) IN
       Finish(c, IF ~Parses(sigs) \/ ~p.tx \/ sigs = <<>> \/ (c.via = "app" /\ ~p.resolves)
                 THEN "Invalid" ELSE "done")
    /\ UNCHANGED <<data, override, sealed, torn>>

AnchorNext ==
    \/ \E m \in Modes \cup {Unset} : setMode(m)
    \/ \E c \in Chains, m \in Modes \cup {Unset} : Login(c, m)
    \/ LoginRefused
    \/ \E c \in pending, m \in {"garbage", "rejected", "partial"} : WaitFails(c, waitForCallback(m))
    \/ \E c \in pending : WaitFails(c, "Transport")
    \/ \E c \in pending, p \in LoginPayloads : AppLoginEnds(c, p)
    \/ \E c \in pending, p \in LoginPayloads : WebLoginEnds(c, p)
    \/ \E c \in Chains : Sign(c)
    \/ \E c \in pending : SignSend(c)
    \/ \E c \in pending, p \in SignPayloads : SignEnds(c, p)

AnchorSpec == AnchorInit /\ [][AnchorNext]_anchorVars

---------------------------------------------------------------------------
(* Properties.                                                              *)

\* Whatever logins and signatures overlap, fail or follow each other, the two
\* keys a request is sealed with and the channel it is posted to come from ONE
\* login, so that the wallet can open it - unless, as the code admits, a login
\* left keys of two logins behind: an app login whose channel was refused
\* (anchor_transports.cpp:99-108), a web login answered without a link key
\* (anchor_transports.cpp:327-330).
SealedForLink == sealed.torn \/ (sealed.from = sealed.to /\ sealed.to = sealed.over)
=============================================================================
