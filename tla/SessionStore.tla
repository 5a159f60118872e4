----------------------------- MODULE SessionStore ----------------------------
(***************************************************************************)
(* What the stored sessions promise an application that calls the kit from *)
(* one thread, without files, lists, merges or calls in flight: a map from *)
(* accounts to what their wallet stored, and one default a chain at most.  *)
(* A session is kept or forgotten at once.  A write may lose the map while *)
(* it lasts, and only then; a lost map stays lost, and says so.            *)
(* SessionKit implements this module.                                      *)
(***************************************************************************)

CONSTANTS
    Keys,           \* accounts <<chain, account>>
    Wallets,        \* wallet plugin ids
    PluginSets      \* the plugin sets an application build may register

VARIABLES
    of,             \* account -> [wallet, data], the sessions there are
    default,        \* the accounts that are the default of their chain
    readable,       \* the map has not been lost
    writing,        \* the last change is still being written
    registered      \* the plugins of the running build

storeVars == <<of, default, readable, writing, registered>>

Nothing == [k \in {} |-> {}]

Init ==
    /\ of = Nothing /\ default = {}
    /\ readable = TRUE /\ writing = FALSE
    /\ registered \in PluginSets

\* A login or a restore leaves the session with its wallet's own data. The other
\* sessions stay, those of its chain no longer as the default.
Keep(k, w, isDefault) ==
    /\ readable /\ ~writing
    /\ w \in registered
    /\ writing' = TRUE
    /\ of' = [a \in DOMAIN of \cup {k} |->
                 IF a = k THEN [wallet |-> w, data |-> k] ELSE of[a]]
    /\ default' = {a \in default : a[1] # k[1]} \cup (IF isDefault THEN {k} ELSE {})
    /\ UNCHANGED <<readable, registered>>

\* A logout gives up the session, and those no plugin of this build can use.
Forget(k) ==
    /\ readable /\ ~writing
    /\ writing' = TRUE
    /\ of' = [a \in {b \in DOMAIN of : b # k /\ of[b].wallet \in registered} |-> of[a]]
    /\ default' = {a \in default : a # k /\ of[a].wallet \in registered}
    /\ UNCHANGED <<readable, registered>>

ForgetAll ==
    /\ readable /\ ~writing
    /\ of' = Nothing /\ default' = {}
    /\ UNCHANGED <<readable, writing, registered>>

Written ==
    /\ writing /\ writing' = FALSE
    /\ UNCHANGED <<of, default, readable, registered>>

\* A write that fails, or during which the process ends.
Lost ==
    /\ writing /\ writing' = FALSE
    /\ readable' = FALSE
    /\ of' = Nothing /\ default' = {}

Lose == Lost /\ UNCHANGED registered

Restart ==
    /\ registered' \in PluginSets
    /\ Lost \/ (~writing /\ UNCHANGED <<writing, readable, default, of>>)

Next ==
    \/ Restart \/ Written \/ Lose \/ ForgetAll
    \/ \E k \in Keys : Forget(k)
    \/ \E k \in Keys, w \in Wallets, d \in BOOLEAN : Keep(k, w, d)

Spec == Init /\ [][Next]_storeVars
=============================================================================
