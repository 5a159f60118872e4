------------------------------ MODULE LoginFlow ------------------------------
(***************************************************************************)
(* SessionKit::login up to the wallet: which wallet is asked, for which     *)
(* chain and permission, out of the caller's options, the wallet's needs    *)
(* and the answer of the user interface. What is stored then is SessionKit. *)
(*                                                                         *)
(* src/session/kit.cpp                      login                           *)
(* src/session/interfaces.cpp               ConsoleUserInterface::login     *)
(* adapters/godot/src/dk_user_interface.cpp DkGodotUserInterface::login     *)
(***************************************************************************)
EXTENDS AccountCreation, Functions

CONSTANTS WalletLists,   \* sequences of [id, permSelect, permEntry, supported]
          Foreign,       \* a chain the kit does not have
          Permissions,
          Interfaces     \* among "null", "console", "engine" and "custom"

LoginWallets == [id : STRING, permSelect : BOOLEAN, permEntry : BOOLEAN, supported : SUBSET (KitChains \cup {Foreign})]
ASSUME LoginAssumption ==
    /\ Interfaces \subseteq {"null", "console", "engine", "custom"}
    /\ WalletLists \subseteq Seq(LoginWallets)
    /\ NoChoice \notin KitChains \cup {Foreign} \cup Permissions
    /\ NoChoice \notin [by : {"id", "definition"}, is : KitChains \cup {Foreign}]

VARIABLES login,         \* where the call is and what is selected
          loginHeard     \* the UI's calls

loginVars == <<login, loginHeard>>

LoginOptions == [chains : ((SUBSET KitChains) \cup {{Foreign}}) \ {{}}, wallet : {NoChoice, "w1", "w2"},
                 chain : [by : {"id", "definition"}, is : KitChains \cup {Foreign}] \cup {NoChoice},
                 perm : Permissions \cup {NoChoice}]

LoginInit == login = [at |-> "idle"] /\ loginHeard = <<>>
FailLogin(l) == login' = [l EXCEPT !.at = "failed"]
LoginTells(calls) == loginHeard' = loginHeard \o calls

\* The only wallet, or the one the caller names; 0 when neither decides.
Predetermined(wallets, id) ==
    IF Len(wallets) = 1 THEN 1
    ELSE IF \E i \in DOMAIN wallets : wallets[i].id = id
         THEN CHOOSE i \in DOMAIN wallets : wallets[i].id = id /\ \A j \in 1..(i - 1) : wallets[j].id # id
    ELSE 0
\* What the UI has to find out. A wallet that needs no chain to be selected does not
\* count: with several chains one is asked for all the same.
uiRequirements(o, wallets, w) ==
    [wallet |-> w = 0,
     chain |-> o.chain = NoChoice /\ Cardinality(o.chains) # 1,
     permSelect |-> o.perm = NoChoice /\ (w = 0 \/ wallets[w].permSelect),
     permEntry |-> w # 0 /\ wallets[w].permEntry]
\* A definition is taken as it is, an id must be one of the context's chains.
ContextChain(o) ==
    IF o.chain # NoChoice THEN o.chain.is
    ELSE IF Cardinality(o.chains) = 1 THEN CHOOSE c \in o.chains : TRUE
    ELSE NoChoice

BeginLogin(o, wallets, ui) ==
    /\ login.at = "idle"
    /\ LET w == Predetermined(wallets, o.wallet)
           needs == uiRequirements(o, wallets, w)
           next == [at |-> IF TRUE \in Range(needs) THEN "ui" ELSE "wallet", o |-> o, wallets |-> wallets,
                    ui |-> ui, wallet |-> w, needs |-> needs, chain |-> ContextChain(o), perm |-> o.perm]
       IN  \/ /\ ~(o.chains \subseteq KitChains)
              /\ FailLogin(next) /\ LoginTells(<<"onError">>)
           \/ /\ o.chains \subseteq KitChains
              /\ o.chain # NoChoice /\ o.chain.by = "id" /\ o.chain.is \notin o.chains
              /\ FailLogin(next) /\ LoginTells(<<"onLogin", "onError">>)
           \/ /\ o.chains \subseteq KitChains
              /\ o.chain # NoChoice => o.chain.by = "definition" \/ o.chain.is \in o.chains
              /\ \/ login' = next /\ LoginTells(<<"onLogin">>)
                 \/ FailLogin(next) /\ LoginTells(<<"onLogin", "onError">>)

\* What each interface answers: the console what it was asked for, the engines the
\* first wallet whatever is asked, one of an application anything.
LoginAnswers(l) ==
    CASE l.ui = "console" ->
            [wallet : IF l.needs.wallet THEN DOMAIN l.wallets ELSE {l.wallet},
             chain : IF l.needs.chain THEN l.o.chains ELSE {NoChoice},
             perm : IF l.needs.permSelect \/ l.needs.permEntry THEN Permissions ELSE {NoChoice}]
      [] l.ui = "engine" -> {[wallet |-> 1, chain |-> l.chain, perm |-> l.perm]}
      [] l.ui = "custom" -> [wallet : 0..(Len(l.wallets) + 1), chain : KitChains \cup {NoChoice},
                             perm : Permissions \cup {NoChoice}]
      [] l.ui = "null" -> {}
UiAnswers ==
    /\ login.at = "ui"
    /\ \E a \in LoginAnswers(login) :
         IF a.wallet \notin DOMAIN login.wallets \/ (a.chain # NoChoice /\ a.chain \notin login.o.chains)
         THEN FailLogin(login) /\ LoginTells(<<"onError">>)
         ELSE /\ login' = [login EXCEPT !.at = "wallet", !.wallet = a.wallet,
                              !.chain = IF a.chain # NoChoice THEN a.chain ELSE @,
                              !.perm = IF a.perm # NoChoice THEN a.perm ELSE @]
              /\ UNCHANGED loginHeard
\* The console is cancelled, the null interface cannot.
UiGivesUp == login.at = "ui" /\ login.ui # "engine" /\ FailLogin(login) /\ LoginTells(<<"onError">>)

Supports(l) ==
    LET supported == l.wallets[l.wallet].supported
    IN  l.chain = NoChoice \/ supported = {} \/ l.chain \in supported
Unsupported == login.at = "wallet" /\ ~Supports(login) /\ FailLogin(login) /\ LoginTells(<<"onError">>)
AskWallet ==
    /\ login.at = "wallet" /\ Supports(login)
    /\ login' = [login EXCEPT !.at = "asked"] /\ UNCHANGED loginHeard
\* A hook; or the wallet, a chain the kit does not have, a hook, the storage, and last
\* onLoginComplete.
HookFails == login.at = "wallet" /\ Supports(login) /\ FailLogin(login) /\ LoginTells(<<"onError">>)
LoginFails ==
    /\ login.at = "asked"
    /\ FailLogin(login)
    /\ LoginTells(<<"onError">>) \/ LoginTells(<<"onLoginComplete", "onError">>)
LoginDone == login.at = "asked" /\ login' = [login EXCEPT !.at = "done"] /\ LoginTells(<<"onLoginComplete">>)

LoginNext ==
    \/ login.at = "idle" /\ \E o \in LoginOptions, w \in WalletLists, ui \in Interfaces : BeginLogin(o, w, ui)
    \/ UiAnswers \/ UiGivesUp \/ Unsupported \/ AskWallet \/ HookFails \/ LoginFails \/ LoginDone

---------------------------------------------------------------------------
\* The wallet is asked for what the caller and the user chose, whichever of them
\* decided what: for a chain it supports, the caller's if one was given, else one of
\* those offered, and without one only where an interface other than the console
\* named none; by the wallet the caller named, for the permission the caller gave.
\* The exceptions: an interface that is asked for one thing may answer the rest as
\* well, and the engines' always answers the first wallet (dk_user_interface.cpp:88);
\* the console asks again for a permission the wallet wants entered (kit.cpp:268). A
\* wallet the UI picked has its own needs looked at by nobody, so one that selects by
\* permission may be asked without. And a failed login ends with onError.
LoginChoiceFits ==
    /\ login.at = "asked" =>
         LET o == login.o
             wallet == login.wallets[login.wallet]
         IN  /\ login.chain = NoChoice => login.ui \in {"engine", "custom"}
             /\ login.chain # NoChoice => wallet.supported = {} \/ login.chain \in wallet.supported
             /\ login.chain # NoChoice => login.chain \in o.chains \/ (o.chain # NoChoice /\ o.chain.is = login.chain)
             /\ o.chain # NoChoice /\ login.ui # "custom" => login.chain = o.chain.is
             /\ Len(login.wallets) > 1 /\ (\E v \in Range(login.wallets) : v.id = o.wallet)
                  /\ login.ui \in {"null", "console"} => wallet.id = o.wallet
             /\ o.perm # NoChoice /\ login.ui # "custom" =>
                  login.perm = o.perm \/ (login.ui = "console" /\ login.needs.permEntry)
             /\ login.perm = NoChoice /\ login.ui \in {"null", "console"} => ~wallet.permSelect
    /\ login.at = "failed" => loginHeard # <<>> /\ loginHeard[Len(loginHeard)] = "onError"

\* The plugin and the chain of an account creation, and the wallet, chain and
\* permission of a login, are the ones that were chosen.
ChoicesFit == CreationChainFits /\ LoginChoiceFits
=============================================================================
