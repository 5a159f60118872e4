----------------------------- MODULE EngineKit ------------------------------
(***************************************************************************)
(* The game engine wrappers of SessionKit: DkSessionKit and DkSession of    *)
(* the Godot adapter (adapters/godot/src/dk_session_kit.cpp) and            *)
(* UDwarfkitSubsystem with its async actions of the Unreal adapter          *)
(* (Private/DwarfkitSubsystem.cpp, Private/DwarfkitAsyncActions.cpp).       *)
(* The main thread starts calls of a kit on worker threads and rebuilds the *)
(* kit to cancel them; the kits it built share one storage, and answers     *)
(* come back through a queue the main thread runs.                          *)
(* What a worker does inside a kit is SessionKit, one storage access a      *)
(* step; here every write succeeds.                                         *)
(***************************************************************************)
EXTENDS Naturals, Sequences, FiniteSets

CONSTANTS
    Workers,       \* threads that run kit calls
    Main,          \* the main or game thread, where Godot's logout runs
    Keys,          \* session keys <<chain, account>>
    NoData,        \* empty wallet data
    NoEntry,       \* no serialized session
    Engines,       \* a subset of {"godot", "unreal"}
    MaxBuilds,     \* bound: kits built
    MaxCalls       \* bound: calls started

Anchor == "anchor"            \* the one wallet plugin build() registers
Threads == Workers \cup {Main}
Builds == 1..MaxBuilds
None == 0                     \* no kit, no session

ASSUME EngineAssumption ==
    /\ Main \notin Workers
    /\ Engines \subseteq {"godot", "unreal"}
    /\ MaxBuilds \in Nat \ {0}
    /\ MaxCalls \in Nat

VARIABLES
    engine,        \* which adapter this is
    build,         \* the kit the wrapper holds, with its token and plugin
    chainIdOk,     \* Unreal keeps the chain id it was last configured with
    cancelled,     \* builds whose token is cancelled
    work,          \* what each worker runs, on which build
    queue,         \* what the main thread still has to run, in order
    session,       \* the build of the session the application holds
    life,          \* the wrapper is "alive", being "freed" or "gone"
    calls,         \* how many calls were started
    current, sessions, job, kept, cut,     \* of SessionKit
    plugin,        \* data_ of each build's own wallet plugin
    meddled        \* history: the main thread did not leave a worker alone

kitVars == <<current, sessions, job, kept, cut, plugin>>
mainVars == <<engine, build, chainIdOk, cancelled, session, life, calls>>
vars == <<mainVars, work, queue, kitVars, meddled>>

PluginData == [{Anchor} -> Keys \cup {NoData}]

\* A kit of one build: all use one storage, each has a plugin of its own.
Kit(b) == INSTANCE SessionKit
            WITH Wallets <- {Anchor}, Holds <- [w \in {Anchor} |-> Keys],
                 HasLogout <- {}, PluginSets <- {{Anchor}},
                 registered <- {Anchor}, walletData <- plugin[b]

Idle == [at |-> "idle", call |-> "none", build |-> None, answer |-> "none"]

Init ==
    /\ engine \in Engines
    /\ build = None /\ session = None
    /\ chainIdOk = FALSE
    /\ cancelled = {}
    /\ work = [t \in Workers |-> Idle]
    /\ queue = <<>>
    /\ life = "alive"
    /\ calls = 0
    /\ current = [is |-> "absent", val |-> NoEntry]
    /\ sessions = [is |-> "absent", val |-> {}]
    /\ job = [t \in Threads |-> Kit(1)!NoJob]
    /\ kept = {} /\ cut = {}
    /\ plugin = [b \in Builds |-> [w \in {Anchor} |-> NoData]]
    /\ meddled = FALSE

----------------------------------------------------------------------------
(* The main thread *)

Inflight(b) == {t \in Workers : work[t].build = b /\ work[t].call # "transact"}
AnyInflight == \E b \in Builds : Inflight(b) # {}

\* (bug) the count of the first worker is not looked at.
IsBusyBeyondOne == build # None /\ Cardinality(Inflight(build)) > 1

\* is_busy(): only workers of the kit held now are counted.
IsBusy == build # None /\ Inflight(build) # {}

MainFree == life = "alive" /\ job[Main].at = "idle"

\* (bug) the new kit is built and the old token forgotten.
RetireQuietly == UNCHANGED cancelled

\* The token of the kit held now is cancelled; its workers keep their copy of it.
Retire == cancelled' = cancelled \cup ({build} \ {None})

Rebuild == build < MaxBuilds /\ build' = build + 1

\* configure(): the id parses, and a new kit takes the place of the old one.
Configure ==
    /\ MainFree
    /\ Retire /\ Rebuild
    /\ chainIdOk' = TRUE
    /\ meddled' = (meddled \/ AnyInflight)
    /\ UNCHANGED <<engine, session, life, calls, work, queue, kitVars>>

\* An id that does not parse: Godot only reports it; Unreal has cancelled its token
\* by then and keeps the old kit with it, also through a later Cancel.
ConfigureInvalid ==
    /\ MainFree /\ engine = "unreal"
    /\ Retire
    /\ chainIdOk' = FALSE
    /\ UNCHANGED <<engine, build, session, life, calls, work, queue, kitVars, meddled>>

Cancel ==
    /\ MainFree /\ build # None
    /\ Retire
    /\ IF engine = "godot" \/ chainIdOk THEN Rebuild ELSE UNCHANGED build
    /\ meddled' = (meddled \/ AnyInflight)
    /\ UNCHANGED <<engine, chainIdOk, session, life, calls, work, queue, kitVars>>

Spawn(call, b) ==
    /\ calls < MaxCalls
    /\ calls' = calls + 1
    /\ \E t \in Workers :
        /\ work[t].at = "idle"
        /\ work' = [work EXCEPT ![t] =
               [Idle EXCEPT !.at = "spawned", !.call = call, !.build = b]]

\* login() and restore(), Activate() of their actions: Godot refuses a second one.
StartCall ==
    /\ MainFree /\ build # None
    /\ engine = "godot" => ~IsBusy
    /\ \E call \in {"login", "restore"} : Spawn(call, build)
    /\ meddled' = (meddled \/ (engine = "unreal" /\ AnyInflight))
    /\ UNCHANGED <<engine, build, chainIdOk, cancelled, session, life, queue, kitVars>>

\* transact on the session the application holds, with the kit it came from.
StartTransact ==
    /\ MainFree /\ session # None
    /\ Spawn("transact", session)
    /\ UNCHANGED <<engine, build, chainIdOk, cancelled, session, life, queue, kitVars, meddled>>

\* Godot's logout() runs the kit's on the main thread, beside any worker.
Logout ==
    /\ MainFree /\ engine = "godot" /\ build # None
    /\ UNCHANGED plugin
    /\ Kit(1)!StartLogoutAll(Main)
    /\ meddled' = (meddled \/ AnyInflight)
    /\ UNCHANGED <<mainVars, work, queue>>

LogoutSteps ==
    /\ UNCHANGED plugin
    /\ Kit(1)!ReadAll(Main) \/ Kit(1)!RemoveAll(Main)
    /\ UNCHANGED <<mainVars, work, queue, meddled>>

\* The destructor and Deinitialize cancel; the destructor then waits.
Free ==
    /\ MainFree /\ build # None
    /\ Retire
    /\ life' = IF engine = "godot" THEN "freed" ELSE "gone"
    /\ session' = IF engine = "godot" THEN session ELSE None
    /\ UNCHANGED <<engine, build, chainIdOk, calls, work, queue, kitVars, meddled>>

\* The wait of the destructor ends with the workers of its kit, or after 3 s.
FreeEnds ==
    /\ life = "freed"
    /\ life' = "gone"
    /\ UNCHANGED <<engine, build, chainIdOk, cancelled, session, calls, work, queue,
                   kitVars, meddled>>

\* The next deferred answer hands its session over, also one of a kit that was
\* cancelled since.  Nobody is left to take it once the wrapper is gone.
RunQueue ==
    /\ queue # <<>> /\ job[Main].at = "idle" /\ life # "freed"
    /\ session' = IF Head(queue).answer = "session" /\ life = "alive"
                    THEN Head(queue).build ELSE session
    /\ queue' = Tail(queue)
    /\ UNCHANGED <<engine, build, chainIdOk, cancelled, life, calls, work, kitVars, meddled>>

----------------------------------------------------------------------------
(* The workers *)

Answered(t, answer) == work' = [work EXCEPT ![t].at = "answer", ![t].answer = answer]

\* login(): the wallet is asked, which prompts the user first.
BeginLogin(t) ==
    /\ work[t].at = "spawned" /\ work[t].call = "login"
    /\ UNCHANGED plugin
    /\ \E k \in Keys : Kit(1)!StartLogin(t, Anchor, k, TRUE)
    /\ work' = [work EXCEPT ![t].at = "prompt"]
    /\ UNCHANGED <<mainVars, queue, meddled>>

BeginTransact(t) ==
    /\ work[t].at = "spawned" /\ work[t].call = "transact"
    /\ work' = [work EXCEPT ![t].at = "prompt"]
    /\ UNCHANGED <<mainVars, queue, kitVars, meddled>>

\* The prompt is shown on the main thread. The wait for it ends when it was, when the
\* token is cancelled, or after 10 s if the main thread never gets to it (the waits of
\* onError and status have only the 10 s: they are given a token nobody cancels).
WaitEnds(t) ==
    /\ work[t].at = "prompt"
    /\ work' = [work EXCEPT ![t].at = "kit"]
    /\ UNCHANGED <<mainVars, queue, kitVars, meddled>>

GodotPrompts(t) == engine = "godot" /\ WaitEnds(t)
UnrealPrompts(t) == engine = "unreal" /\ WaitEnds(t)

\* restore(): a missing "session" is no session, one that does not parse an error.
BeginRestore(t) ==
    /\ UNCHANGED plugin
    /\ work[t].at = "spawned" /\ work[t].call = "restore"
    /\ IF current.is = "text"
         THEN Kit(1)!StartRestore(t) /\ work' = [work EXCEPT ![t].at = "kit"]
         ELSE /\ Answered(t, IF current.is = "torn" THEN "error" ELSE "null")
              /\ UNCHANGED <<current, sessions, job, kept, cut>>
    /\ UNCHANGED <<mainVars, queue, meddled>>

\* A step of the kit of build b, which may change the plugin of that build only.
OnPlugin(b, t) ==
    /\ b = work[t].build
    /\ \E d \in PluginData : plugin' = [plugin EXCEPT ![b] = d]

Returned(t, answer) ==
    IF job'[t].at = "idle" THEN Answered(t, answer) ELSE UNCHANGED work

InKit(t) == work[t].at = "kit" /\ work[t].call # "transact"

\* The wallet answers, or the wait for it fails; a cancelled token makes it fail
\* unless the answer is there already.
WalletEnds(t) ==
    /\ InKit(t)
    /\ \E b \in Builds : OnPlugin(b, t) /\ (Kit(b)!WalletLogin(t) \/ Kit(b)!WalletLoginFails(t))
    /\ Returned(t, "error")
    /\ UNCHANGED <<mainVars, queue, meddled>>

LookupEnds(t) ==
    /\ InKit(t)
    /\ \E b \in Builds :
        /\ OnPlugin(b, t)
        /\ Kit(b)!LookupNone(t) \/ Kit(b)!LookupFails(t) \/ Kit(b)!LookupFound(t)
    /\ Returned(t, IF sessions.is = "torn" THEN "error" ELSE "null")
    /\ UNCHANGED <<mainVars, queue, meddled>>

\* persistSession; a list another thread is writing does not parse.
PersistStep(t) ==
    /\ UNCHANGED plugin
    /\ InKit(t)
    /\ \E b \in Builds :
        /\ b = work[t].build
        /\ \/ Kit(b)!Serialize(t)
           \/ Kit(b)!OpenCurrent(t) \/ Kit(b)!CloseCurrent(t)
           \/ Kit(b)!ReadList(t) \/ Kit(b)!OpenList(t) \/ Kit(b)!CloseList(t)
    /\ job[t].at = "closeCurrent" => current'.is = "text"
    /\ job[t].at = "closeList" => sessions'.is = "text"
    /\ Returned(t, IF job[t].at = "closeList" THEN "session" ELSE "error")
    /\ UNCHANGED <<mainVars, queue, meddled>>

\* The wait for the wallet inside transact.
TransactEnds(t) ==
    /\ work[t].at = "kit" /\ work[t].call = "transact"
    /\ \E answer \in {"result", "error"} : Answered(t, answer)
    /\ UNCHANGED <<mainVars, queue, kitVars, meddled>>

\* The answer is deferred to the main thread first and the count taken back
\* after it, so a handler that starts the next call may still be refused.
Answer(t) ==
    /\ work[t].at = "answer"
    /\ queue' = Append(queue, [answer |-> work[t].answer, build |-> work[t].build])
    /\ work' = [work EXCEPT ![t].at = "returning"]
    /\ UNCHANGED <<mainVars, kitVars, meddled>>

Return(t) ==
    /\ work[t].at = "returning"
    /\ work' = [work EXCEPT ![t] = Idle]
    /\ UNCHANGED <<mainVars, queue, kitVars, meddled>>

----------------------------------------------------------------------------
MainStep == Configure \/ ConfigureInvalid \/ Cancel \/ StartCall \/ StartTransact
            \/ Logout \/ LogoutSteps \/ Free \/ FreeEnds \/ RunQueue

Waiting(t) == WalletEnds(t) \/ TransactEnds(t)

Running(t) == BeginLogin(t) \/ BeginTransact(t) \/ BeginRestore(t) \/ GodotPrompts(t) \/ UnrealPrompts(t)
              \/ LookupEnds(t) \/ PersistStep(t) \/ Answer(t) \/ Return(t)

Next == MainStep \/ \E t \in Workers : Waiting(t) \/ Running(t)

\* A worker runs on; only the wallet may keep it waiting, and every wait for the
\* wallet polls the token.
Fairness ==
    /\ \A t \in Workers : WF_vars(Running(t))
    /\ \A t \in Workers : WF_vars(work[t].build \in cancelled /\ Waiting(t))
    /\ WF_vars(FreeEnds)

FairSpec == Init /\ [][Next]_vars /\ Fairness

----------------------------------------------------------------------------
(* Properties *)

\* is_busy() is what keeps two calls of one application from losing each other's
\* session in the list they read, change and write back: as long as nobody
\* cancels, reconfigures or logs out under a running call (and, in Unreal, where
\* nothing is refused, starts a second one), a login that completed is listed.
ListedUnlessMeddled ==
    ~meddled /\ sessions.is # "torn" => kept \subseteq Kit(1)!KeysOf(sessions.val)

\* A retired kit is not used again: once its token is cancelled every worker of it
\* returns, whether its prompt ever runs and the wallet ever answers or not; so
\* cancel(), configure() and the destructor leave no worker behind for good.
RetiredUnwinds ==
    \A t \in Workers : (work[t].build # None /\ (work[t].build # build \/ life # "alive"))
                       ~> work[t].build = None

\* A worker of a kit whose token nobody cancelled is one is_busy() counts, so the
\* wrapper never has two of them in a kit at once in Godot.
OneUncancelledCall ==
    engine = "godot" =>
        \A t, u \in Workers :
            /\ work[t].call \in {"login", "restore"} /\ work[u].call \in {"login", "restore"}
            /\ work[t].build \notin cancelled /\ work[u].build \notin cancelled
            => t = u
=============================================================================
