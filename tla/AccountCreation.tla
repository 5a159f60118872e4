--------------------------- MODULE AccountCreation ---------------------------
(***************************************************************************)
(* SessionKit::createAccount: which plugin creates the account, on which    *)
(* chain, and what the UI hears of it.                                      *)
(*                                                                         *)
(* src/session/kit.cpp                        createAccount                 *)
(* src/plugins/account_creation/anchor.cpp    create, through a dialog      *)
(* src/plugins/account_creation/jungle4.cpp   create, through a service     *)
(***************************************************************************)
EXTENDS Naturals, Sequences, FiniteSets

CONSTANTS KitChains,   \* the chains of the kit
          Creators,    \* id -> [select: asks for a chain, chains: supported ones]
          NoChoice

VARIABLES creation,    \* where the call is and what is selected
          heard        \* the UI's calls

creationVars == <<creation, heard>>

Ids == DOMAIN Creators
CreationInit == creation = [at |-> "idle"] /\ heard = <<>>

\* With exactly one supported chain and no choice of the user's, it is that one.
DefaultChain(p, chain) ==
    LET k == Creators[p] IN
    IF ~k.select /\ Cardinality(k.chains) = 1 THEN CHOOSE c \in k.chains : TRUE ELSE chain

\* A mutant: the chains are not filtered by the selected plugin.
AvailableAll(p) == KitChains

\* Chains to choose from: those of the kit the selected plugin supports.
Available(p) ==
    IF p = NoChoice \/ Creators[p].chains = {} THEN KitChains
    ELSE KitChains \cap Creators[p].chains

FailCreation ==
    /\ creation' = [creation EXCEPT !.at = "failed"]
    /\ heard' = Append(heard, "onError")

\* The options of the caller; an unknown plugin, or none at all, fails.
BeginCreation(chain, p) ==
    /\ creation.at = "idle"
    /\ LET select == IF p = NoChoice THEN chain = NoChoice ELSE Creators[p].select
           start == IF p = NoChoice THEN chain ELSE DefaultChain(p, chain)
       IN  creation' = [at |-> IF p = NoChoice \/ select THEN "ui" ELSE "create",
                        given |-> chain, plugin |-> p, asked |-> p = NoChoice,
                        chain |-> start, chains |-> Available(p)]
    /\ UNCHANGED heard

BeginUnknown ==
    /\ creation.at = "idle"
    /\ creation' = [at |-> "failed"] /\ heard' = <<"onError">>

\* onAccountCreate answers with a plugin and a chain, or fails. The caller's
\* plugin goes before the answer's; the answer's chain must be one of the
\* chains that were offered, but is not compared with the answer's plugin.
UiChooses(p, chain) ==
    /\ creation.at = "ui"
    /\ LET q == IF creation.plugin # NoChoice THEN creation.plugin ELSE p IN
       IF \/ q = NoChoice
          \/ chain # NoChoice /\ chain \notin creation.chains
          \/ /\ Creators[q].select
             /\ chain = NoChoice /\ creation.chain = NoChoice
       THEN FailCreation
       ELSE /\ creation' = [creation EXCEPT
                  !.at = "create", !.plugin = q,
                  !.chain = IF chain # NoChoice THEN chain ELSE DefaultChain(q, creation.chain)]
            /\ UNCHANGED heard

UiFails == creation.at = "ui" /\ FailCreation

\* The plugin's create: a dialog or a service that answers with an account.
PluginCreates ==
    /\ creation.at = "create"
    /\ creation' = [creation EXCEPT !.at = "done"]
    /\ heard' = Append(heard, "onAccountCreateComplete")

\* It fails; the Anchor plugin has then told the UI of a refused or incomplete
\* answer itself, and createAccount tells it once more.
PluginFails ==
    /\ creation.at = "create"
    /\ creation' = [creation EXCEPT !.at = "failed"]
    /\ heard' \in {heard \o <<"onError">>, heard \o <<"onError", "onError">>}

\* onAccountCreateComplete fails: the account exists, the call says it failed.
CompletionFails ==
    /\ creation.at = "create"
    /\ creation' = [creation EXCEPT !.at = "failed"]
    /\ heard' = heard \o <<"onAccountCreateComplete", "onError">>

CreationNext ==
    \/ \E c \in KitChains \cup {NoChoice}, p \in Ids \cup {NoChoice} :
          BeginCreation(c, p) \/ UiChooses(p, c)
    \/ BeginUnknown \/ UiFails \/ PluginCreates \/ PluginFails \/ CompletionFails

---------------------------------------------------------------------------
\* A plugin never works on a chain it does not support, except on one the
\* caller passed and nothing else replaced, or one the UI chose together with
\* the plugin (kit.cpp:104-196 compare neither); a plugin that asks for a chain
\* always gets one; and the UI hears of every failure, last.
CreationChainFits ==
    /\ creation.at = "create" =>
          LET k == Creators[creation.plugin] IN
          /\ k.select => creation.chain # NoChoice
          /\ \/ creation.chain = NoChoice \/ k.chains = {}
             \/ creation.chain \in k.chains
             \/ creation.chain = creation.given
             \/ creation.asked
    /\ creation.at = "failed" => heard # <<>> /\ heard[Len(heard)] = "onError"
=============================================================================
