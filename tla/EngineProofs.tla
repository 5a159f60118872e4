---------------------------- MODULE EngineProofs ----------------------------
(***************************************************************************)
(* What holds of the engine adapters for any number of workers, session    *)
(* keys, kits and calls.  Two calls of a game meet in the                  *)
(* storage its kits share: the argument follows which calls a kit that     *)
(* nobody cancelled still runs, and then, as long as the application left  *)
(* a running call alone, the list that call reads, changes and writes      *)
(* back.                                                                   *)
(***************************************************************************)
EXTENDS EngineKit, TLAPS

-----------------------------------------------------------------------------
(* The wrapper and its workers *)

Places == {"idle", "spawned", "prompt", "kit", "answer", "returning"}
Calls == {"none", "login", "restore", "transact"}
Outcomes == {"none", "null", "error", "session", "result"}
Work == [at: Places, call: Calls, build: 0..MaxBuilds, answer: Outcomes]

\* A worker that runs in a kit, so is_busy() of that kit counts it.
KitCall(t) == work[t].call \in {"login", "restore"}

MainOK ==
    /\ engine \in Engines
    /\ build \in 0..MaxBuilds /\ session \in 0..MaxBuilds
    /\ work \in [Workers -> Work]
    /\ queue \in Seq([answer: Outcomes, build: 0..MaxBuilds])

\* A kit that was replaced was cancelled with its replacement.
RetiredAreCancelled == \A b \in Builds : b < build => b \in cancelled

\* A call runs in the kit held now or in an earlier one.
CallsOfBuilds ==
    \A t \in Workers :
        /\ KitCall(t) => work[t].build \in 1..build
        /\ work[t].at = "idle" => work[t].call = "none"

MainInv == MainOK /\ RetiredAreCancelled /\ CallsOfBuilds /\ OneUncancelledCall

\* The free worker is idle, in every module's sense.
LEMMA IdleIsWork == Idle \in Work /\ Idle.call = "none" /\ Idle.at = "idle"
BY EngineAssumption DEF Idle, Work, Places, Calls, Outcomes, None

\* A worker moves on within its call, or is done with it.
LEMMA WorkMoves ==
    ASSUME MainInv, NEW t \in Workers, NEW w \in Work,
           \/ w.call = work[t].call /\ w.build = work[t].build /\ w.at # "idle"
           \/ w = Idle,
           work' = [work EXCEPT ![t] = w],
           UNCHANGED <<engine, build, cancelled, session>>,
           queue' \in Seq([answer: Outcomes, build: 0..MaxBuilds])
    PROVE  MainInv'
<1>1. MainOK'
  BY DEF MainInv, MainOK
<1>2. RetiredAreCancelled'
  BY DEF MainInv, RetiredAreCancelled
<1>3. \A u \in Workers : work'[u] = IF u = t THEN w ELSE work[u]
  BY DEF MainInv, MainOK
<1>4. CallsOfBuilds'
  BY <1>3, IdleIsWork DEF MainInv, CallsOfBuilds, KitCall
<1>5. OneUncancelledCall'
  BY <1>3, IdleIsWork DEF MainInv, OneUncancelledCall
<1> QED BY <1>1, <1>2, <1>4, <1>5 DEF MainInv

\* The wrapper's own fields change, and no call begins.
LEMMA MainMoves ==
    ASSUME MainInv, UNCHANGED <<engine, work>>,
           \/ UNCHANGED <<build, cancelled>>
           \/ Retire /\ UNCHANGED build
           \/ Retire /\ Rebuild,
           session' \in 0..MaxBuilds,
           queue' \in Seq([answer: Outcomes, build: 0..MaxBuilds])
    PROVE  MainInv'
<1>1. build' \in 0..MaxBuilds /\ build <= build' /\ cancelled \subseteq cancelled'
  BY EngineAssumption DEF MainInv, MainOK, Retire, Rebuild
<1>2. MainOK'
  BY <1>1 DEF MainInv, MainOK
<1>3. RetiredAreCancelled'
  <2> SUFFICES ASSUME NEW b \in Builds, b < build' PROVE b \in cancelled'
    BY DEF RetiredAreCancelled
  <2>1. CASE b < build
    BY <1>1, <2>1 DEF MainInv, RetiredAreCancelled
  <2>2. CASE ~(b < build)
    <3>1. build \in Nat /\ b \in Nat \ {0}
      BY EngineAssumption DEF MainInv, MainOK, Builds
    <3>2. Retire /\ build' = build + 1
      BY <2>2, <3>1 DEF Rebuild
    <3>3. b = build /\ build # None
      BY <2>2, <3>1, <3>2 DEF None
    <3> QED BY <3>2, <3>3 DEF Retire
  <2> QED BY <2>1, <2>2
<1>4. CallsOfBuilds'
  BY <1>1 DEF MainInv, MainOK, CallsOfBuilds, KitCall
<1>5. OneUncancelledCall'
  BY <1>1 DEF MainInv, OneUncancelledCall
<1> QED BY <1>2, <1>3, <1>4, <1>5 DEF MainInv

\* No worker of the kit held now is counted: no call of it is left.
LEMMA FreeKit ==
    ASSUME MainInv, ~IsBusy, build # None, NEW t \in Workers, KitCall(t)
    PROVE  work[t].build \in cancelled
<1>1. work[t].build \in 1..build
  BY DEF MainInv, CallsOfBuilds
<1>2. work[t].build # build
  BY DEF IsBusy, Inflight, KitCall
<1>3. work[t].build \in Builds /\ work[t].build < build
  BY <1>1, <1>2, EngineAssumption DEF MainInv, MainOK, Builds
<1> QED BY <1>3 DEF MainInv, RetiredAreCancelled

\* Login and restore hand a worker a place in the current build of the kit.
LEMMA MainStart ==
    ASSUME MainInv, StartCall PROVE MainInv'
<1>1. PICK call \in {"login", "restore"}, t \in Workers :
         /\ work[t].at = "idle"
         /\ work' = [work EXCEPT ![t] =
                [Idle EXCEPT !.at = "spawned", !.call = call, !.build = build]]
  BY DEF StartCall, Spawn
<1> DEFINE w == [Idle EXCEPT !.at = "spawned", !.call = call, !.build = build]
<1>2. w \in Work /\ w.call = call /\ w.build = build /\ w.at = "spawned"
  BY <1>1 DEF MainInv, MainOK, Idle, Work, Places, Calls, Outcomes
<1> HIDE DEF w
<1>3. work' = [work EXCEPT ![t] = w]
  BY <1>1 DEF w
<1>4. \A u \in Workers : work'[u] = IF u = t THEN w ELSE work[u]
  BY <1>3 DEF MainInv, MainOK
<1>5. UNCHANGED <<engine, build, cancelled, session, queue>> /\ build # None
  BY DEF StartCall
<1>6. MainOK'
  BY <1>2, <1>3, <1>5 DEF MainInv, MainOK
<1>7. RetiredAreCancelled'
  BY <1>5 DEF MainInv, RetiredAreCancelled
<1>8. build \in 1..build
  BY <1>5, EngineAssumption DEF MainInv, MainOK, None
<1>9. CallsOfBuilds'
  BY <1>2, <1>4, <1>5, <1>8 DEF MainInv, CallsOfBuilds, KitCall
<1>10. ASSUME engine = "godot", NEW u \in Workers, KitCall(u)
       PROVE  work[u].build \in cancelled
  <2>1. ~IsBusy
    BY <1>10 DEF StartCall
  <2> QED BY <2>1, <1>5, <1>10, FreeKit
<1>11. OneUncancelledCall'
  <2> SUFFICES ASSUME engine = "godot", NEW u \in Workers, NEW v \in Workers,
                      work'[u].call \in {"login", "restore"}, work'[v].call \in {"login", "restore"},
                      work'[u].build \notin cancelled, work'[v].build \notin cancelled
               PROVE  u = v
    BY <1>5 DEF OneUncancelledCall
  <2>1. u = t
    BY <1>4, <1>10 DEF KitCall
  <2>2. v = t
    BY <1>4, <1>10 DEF KitCall
  <2> QED BY <2>1, <2>2
<1> QED BY <1>6, <1>7, <1>9, <1>11 DEF MainInv

\* Transact hands a worker a place in the kit of the session it is called on.
LEMMA MainStartTransact ==
    ASSUME MainInv, StartTransact PROVE MainInv'
<1>1. PICK t \in Workers :
         /\ work[t].at = "idle"
         /\ work' = [work EXCEPT ![t] =
                [Idle EXCEPT !.at = "spawned", !.call = "transact", !.build = session]]
  BY DEF StartTransact, Spawn
<1> DEFINE w == [Idle EXCEPT !.at = "spawned", !.call = "transact", !.build = session]
<1>2. w \in Work /\ w.call = "transact" /\ w.build = session /\ w.at = "spawned"
  BY <1>1 DEF MainInv, MainOK, Idle, Work, Places, Calls, Outcomes
<1> HIDE DEF w
<1>3. work' = [work EXCEPT ![t] = w]
  BY <1>1 DEF w
<1>4. \A u \in Workers : work'[u] = IF u = t THEN w ELSE work[u]
  BY <1>3 DEF MainInv, MainOK
<1>5. UNCHANGED <<engine, build, cancelled, session, queue>>
  BY DEF StartTransact
<1>6. MainOK'
  BY <1>2, <1>3, <1>5 DEF MainInv, MainOK
<1>7. RetiredAreCancelled'
  BY <1>5 DEF MainInv, RetiredAreCancelled
<1>8. CallsOfBuilds'
  BY <1>2, <1>4, <1>5 DEF MainInv, CallsOfBuilds, KitCall
<1>9. OneUncancelledCall'
  BY <1>2, <1>4, <1>5 DEF MainInv, OneUncancelledCall
<1> QED BY <1>6, <1>7, <1>8, <1>9 DEF MainInv

\* A worker that goes to another place of its call, perhaps with an answer.
LEMMA Placed ==
    ASSUME MainInv, NEW t \in Workers, NEW p \in Places \ {"idle"}, NEW a \in Outcomes,
           \/ work' = [work EXCEPT ![t].at = p]
           \/ work' = [work EXCEPT ![t].at = p, ![t].answer = a]
           \/ UNCHANGED work,
           UNCHANGED <<mainVars, queue>>
    PROVE  MainInv'
<1>0. work[t] \in Work
  BY DEF MainInv, MainOK
<1>1. UNCHANGED <<engine, build, cancelled, session>>
      /\ queue' \in Seq([answer: Outcomes, build: 0..MaxBuilds])
      /\ session' \in 0..MaxBuilds
  BY DEF mainVars, MainInv, MainOK
<1>2. CASE work' = [work EXCEPT ![t].at = p]
  <2> DEFINE w == [work[t] EXCEPT !.at = p]
  <2>1. w \in Work /\ w.call = work[t].call /\ w.build = work[t].build /\ w.at # "idle"
    BY <1>0 DEF Work
  <2>2. work' = [work EXCEPT ![t] = w]
    BY <1>2
  <2> HIDE DEF w
  <2> QED BY <1>1, <2>1, <2>2, WorkMoves
<1>3. CASE work' = [work EXCEPT ![t].at = p, ![t].answer = a]
  <2> DEFINE w == [work[t] EXCEPT !.at = p, !.answer = a]
  <2>1. w \in Work /\ w.call = work[t].call /\ w.build = work[t].build /\ w.at # "idle"
    BY <1>0 DEF Work
  <2>2. work' = [work EXCEPT ![t] = w]
    BY <1>3
  <2> HIDE DEF w
  <2> QED BY <1>1, <2>1, <2>2, WorkMoves
<1>4. CASE UNCHANGED work
  BY <1>1, <1>4, MainMoves
<1> QED BY <1>2, <1>3, <1>4

\* A worker that runs, or waits for its prompt, keeps the wrapper's part.
LEMMA MainRunning ==
    ASSUME MainInv, NEW t \in Workers, Running(t) \/ Waiting(t) PROVE MainInv'
<1>0. work[t] \in Work
  BY DEF MainInv, MainOK
<1> USE DEF Places, Outcomes
<1>1. ASSUME BeginLogin(t) PROVE MainInv'
  BY <1>1, Placed DEF BeginLogin
<1>2. ASSUME BeginTransact(t) PROVE MainInv'
  BY <1>2, Placed DEF BeginTransact
<1>3. ASSUME BeginRestore(t) PROVE MainInv'
  BY <1>3, Placed DEF BeginRestore, Answered
<1>4. ASSUME WaitEnds(t) PROVE MainInv'
  BY <1>4, Placed DEF WaitEnds
<1>5. ASSUME WalletEnds(t) PROVE MainInv'
  BY <1>5, Placed DEF WalletEnds, Returned, Answered
<1>6. ASSUME LookupEnds(t) PROVE MainInv'
  BY <1>6, Placed DEF LookupEnds, Returned, Answered
<1>7. ASSUME PersistStep(t) PROVE MainInv'
  BY <1>7, Placed DEF PersistStep, Returned, Answered
<1>8. ASSUME TransactEnds(t) PROVE MainInv'
  BY <1>8, Placed DEF TransactEnds, Answered
<1>9. ASSUME Answer(t) PROVE MainInv'
  <2> DEFINE w == [work[t] EXCEPT !.at = "returning"]
  <2>1. w \in Work /\ w.call = work[t].call /\ w.build = work[t].build /\ w.at # "idle"
    BY <1>0 DEF Work
  <2>2. work' = [work EXCEPT ![t] = w]
    BY <1>9 DEF Answer
  <2>3. [answer |-> work[t].answer, build |-> work[t].build] \in [answer: Outcomes, build: 0..MaxBuilds]
    BY <1>0 DEF Work
  <2>4. queue' \in Seq([answer: Outcomes, build: 0..MaxBuilds])
    BY <1>9, <2>3 DEF Answer, MainInv, MainOK
  <2>5. UNCHANGED <<engine, build, cancelled, session>>
    BY <1>9 DEF Answer, mainVars
  <2> HIDE DEF w
  <2> QED BY <2>1, <2>2, <2>4, <2>5, WorkMoves
<1>10. ASSUME Return(t) PROVE MainInv'
  <2>1. /\ work' = [work EXCEPT ![t] = Idle]
        /\ UNCHANGED <<engine, build, cancelled, session, queue>>
    BY <1>10 DEF Return, mainVars
  <2>2. queue' \in Seq([answer: Outcomes, build: 0..MaxBuilds])
    BY <2>1 DEF MainInv, MainOK
  <2> QED BY <2>1, <2>2, IdleIsWork, WorkMoves
<1> QED BY <1>1, <1>2, <1>3, <1>4, <1>5, <1>6, <1>7, <1>8, <1>9, <1>10
        DEF Running, Waiting, GodotPrompts, UnrealPrompts

\* What is taken off a queue is of its type.
LEMMA HeadTailIn ==
    ASSUME NEW S, NEW q \in Seq(S), q # <<>>
    PROVE  Head(q) \in S /\ Tail(q) \in Seq(S)
OBVIOUS

\* Configure, Cancel, Free and the queue of answers keep the wrapper's part.
LEMMA MainSteps ==
    ASSUME MainInv, MainStep PROVE MainInv'
<1>0. /\ session \in 0..MaxBuilds
      /\ queue \in Seq([answer: Outcomes, build: 0..MaxBuilds])
      /\ None \in 0..MaxBuilds
  BY EngineAssumption DEF MainInv, MainOK, None
<1>1. ASSUME Configure PROVE MainInv'
  BY <1>0, <1>1, MainMoves DEF Configure
<1>2. ASSUME ConfigureInvalid PROVE MainInv'
  BY <1>0, <1>2, MainMoves DEF ConfigureInvalid
<1>3. ASSUME Cancel PROVE MainInv'
  BY <1>0, <1>3, MainMoves DEF Cancel
<1>4. ASSUME Logout PROVE MainInv'
  BY <1>0, <1>4, MainMoves DEF Logout, mainVars
<1>5. ASSUME LogoutSteps PROVE MainInv'
  BY <1>0, <1>5, MainMoves DEF LogoutSteps, mainVars
<1>6. ASSUME Free PROVE MainInv'
  BY <1>0, <1>6, MainMoves DEF Free
<1>7. ASSUME FreeEnds PROVE MainInv'
  BY <1>0, <1>7, MainMoves DEF FreeEnds
<1>8. ASSUME RunQueue PROVE MainInv'
  <2>1. Head(queue) \in [answer: Outcomes, build: 0..MaxBuilds]
        /\ Tail(queue) \in Seq([answer: Outcomes, build: 0..MaxBuilds])
    <3>1. queue # <<>> /\ queue \in Seq([answer: Outcomes, build: 0..MaxBuilds])
      BY <1>0, <1>8 DEF RunQueue
    <3> QED BY <3>1, HeadTailIn
  <2>2. session' \in 0..MaxBuilds
    BY <1>0, <1>8, <2>1 DEF RunQueue
  <2> QED BY <1>8, <2>1, <2>2, MainMoves DEF RunQueue
<1> QED BY <1>1, <1>2, <1>3, <1>4, <1>5, <1>6, <1>7, <1>8, MainStart, MainStartTransact
        DEF MainStep

\* A wrapper that was constructed has no kit and no call.
LEMMA MainInit == Init => MainInv
<1> SUFFICES ASSUME Init PROVE MainInv
  OBVIOUS
<1>1. MainOK
  BY IdleIsWork, EngineAssumption DEF Init, MainOK, None
<1>2. RetiredAreCancelled /\ CallsOfBuilds /\ OneUncancelledCall
  BY IdleIsWork, EngineAssumption
     DEF Init, RetiredAreCancelled, CallsOfBuilds, OneUncancelledCall, KitCall, None, Builds
<1> QED BY <1>1, <1>2 DEF MainInv

\* Every step keeps the wrapper's part of the invariant.
LEMMA MainNext == MainInv /\ [Next]_vars => MainInv'
<1> SUFFICES ASSUME MainInv, [Next]_vars PROVE MainInv'
  OBVIOUS
<1>1. CASE Next
  BY <1>1, MainSteps, MainRunning DEF Next
<1>2. CASE UNCHANGED vars
  <2>1. session \in 0..MaxBuilds /\ queue \in Seq([answer: Outcomes, build: 0..MaxBuilds])
    BY DEF MainInv, MainOK
  <2> QED BY <1>2, <2>1, MainMoves DEF vars, mainVars
<1> QED BY <1>1, <1>2

\* The wrapper's part of the invariant in every reachable state.
LEMMA MainAlways == FairSpec => []MainInv
BY MainInit, MainNext, PTL DEF FairSpec

\* However the calls, the rebuilds and the answers interleave, in Godot two workers
\* are in a kit only when one of their tokens was cancelled: is_busy() looks at the
\* kit held now alone, and every earlier kit was cancelled with its replacement.
THEOREM OneCallPerKit == FairSpec => []OneUncancelledCall
<1>1. MainInv => OneUncancelledCall
  BY DEF MainInv
<1> QED BY <1>1, MainAlways, PTL

-----------------------------------------------------------------------------
(* The list in the storage, while running calls are left alone *)

KitEntry == [key: Keys, wallet: {Anchor}, data: Keys \cup {NoData}, dflt: BOOLEAN]
KitFiles(V) == [is: {"absent", "torn", "text"}, val: V]
InWorkers == {"idle", "wallet", "lookup", "serialize", "openCurrent", "closeCurrent",
              "readList", "openList", "closeList"}
InMain == {"idle", "readAll", "removeAll"}
KitJob == [at: InWorkers \cup InMain, op: {"none", "login", "restore", "logoutAll"},
           entry: KitEntry \cup {NoEntry}, asDefault: BOOLEAN,
           buf: SUBSET KitEntry, todo: SUBSET KitEntry]

\* What the kits share and what they hold of their own.
StorageOK ==
    /\ current \in KitFiles(KitEntry \cup {NoEntry})
    /\ current.is = "text" => current.val \in KitEntry
    /\ sessions \in KitFiles(SUBSET KitEntry)
    /\ plugin \in [Builds -> PluginData]
    /\ job \in [Threads -> KitJob]

\* A worker is inside a kit only during a call, and holds a session all the while.
JobsOK ==
    /\ \A t \in Workers :
        /\ job[t].at \in InWorkers /\ job[t].op # "logoutAll"
        /\ job[t].at # "idle" =>
               KitCall(t) /\ work[t].at \in {"prompt", "kit"} /\ job[t].entry \in KitEntry
    /\ job[Main].at \in InMain

\* Nobody meddled: one call at most, in the kit held now, or a logout.
OneCall ==
    ~meddled =>
        /\ \A t, u \in Workers : KitCall(t) /\ KitCall(u) => t = u
        /\ \A t \in Workers : KitCall(t) => work[t].build = build /\ job[Main].at = "idle"

\* Nobody meddled: the list and the one about to be written hold what was kept.
KeysIn(list) == {e.key : e \in list}
KeptInLists ==
    ~meddled =>
        /\ sessions.is # "torn" => kept \subseteq KeysIn(sessions.val)
        /\ \A t \in Workers : job[t].at \in {"openList", "closeList"} =>
               kept \cup {job[t].entry.key} \subseteq KeysIn(job[t].buf)
        /\ job[Main].at # "idle" => kept = {}

KitInv == StorageOK /\ JobsOK /\ OneCall /\ KeptInLists

\* The storage and the kits stay as they are.
LEMMA Quiet ==
    ASSUME KitInv, UNCHANGED kitVars,
           \A t \in Workers : job[t].at # "idle" => (KitCall(t))' /\ work'[t].at \in {"prompt", "kit"},
           OneCall', meddled => meddled'
    PROVE  KitInv'
<1>1. StorageOK'
  BY DEF KitInv, StorageOK, kitVars
<1>2. JobsOK'
  BY DEF KitInv, JobsOK, kitVars
<1>3. KeptInLists'
  BY DEF KitInv, KeptInLists, kitVars
<1> QED BY <1>1, <1>2, <1>3 DEF KitInv

\* Who changes the kit, and nobody in it: nobody meddled afterwards either.
LEMMA NoneInflight ==
    ASSUME MainInv, ~AnyInflight, NEW t \in Workers PROVE ~KitCall(t)
<1> SUFFICES ASSUME KitCall(t) PROVE FALSE
  OBVIOUS
<1>1. work[t].build \in 1..build
  BY DEF MainInv, CallsOfBuilds
<1>2. work[t].build \in Builds
  BY <1>1, EngineAssumption DEF MainInv, MainOK, Builds
<1>3. t \in Inflight(work[t].build)
  BY DEF Inflight, KitCall
<1> QED BY <1>2, <1>3 DEF AnyInflight

\* Configure and Cancel replace the kit: with a call in flight that is meddling, and
\* without one the next kit finds none.
\* Configure and Cancel replace the kit: with a call in flight that is meddling, and
\* without one the next kit finds none.
LEMMA KitRebuild ==
    ASSUME MainInv, KitInv, Configure \/ Cancel PROVE KitInv'
<1>1. UNCHANGED <<work, kitVars>> /\ meddled' = (meddled \/ AnyInflight)
  BY DEF Configure, Cancel
<1>2. OneCall'
  BY <1>1, NoneInflight DEF OneCall, KitCall
<1>3. \A t \in Workers : job[t].at # "idle" => (KitCall(t))' /\ work'[t].at \in {"prompt", "kit"}
  BY <1>1 DEF KitInv, JobsOK, KitCall
<1> QED BY <1>1, <1>2, <1>3, Quiet

\* A refused Configure, Free and the queue of answers touch no kit and no storage.
LEMMA KitUntouched ==
    ASSUME MainInv, KitInv, ConfigureInvalid \/ Free \/ FreeEnds \/ RunQueue PROVE KitInv'
<1>1. UNCHANGED <<work, kitVars, meddled, build>>
  BY DEF ConfigureInvalid, Free, FreeEnds, RunQueue
<1>2. OneCall'
  BY <1>1 DEF KitInv, OneCall, KitCall, kitVars
<1>3. \A t \in Workers : job[t].at # "idle" => (KitCall(t))' /\ work'[t].at \in {"prompt", "kit"}
  BY <1>1 DEF KitInv, JobsOK, KitCall
<1> QED BY <1>1, <1>2, <1>3, Quiet

\* The adapter is one of the two.
LEMMA EngineKnown == ASSUME MainInv PROVE engine \in {"godot", "unreal"}
BY EngineAssumption DEF MainInv, MainOK

\* A call begins: an idle worker is in no kit, and unless this is meddling there is
\* no other worker in one; in Godot is_busy() sees to it.
LEMMA KitStart ==
    ASSUME MainInv, KitInv, StartCall PROVE KitInv'
<1>1. PICK call \in {"login", "restore"}, t \in Workers :
         /\ work[t].at = "idle"
         /\ work' = [work EXCEPT ![t] =
                [Idle EXCEPT !.at = "spawned", !.call = call, !.build = build]]
  BY DEF StartCall, Spawn
<1> DEFINE w == [Idle EXCEPT !.at = "spawned", !.call = call, !.build = build]
<1>2. w.call = call /\ w.build = build
  BY DEF Idle
<1> HIDE DEF w
<1>3. \A u \in Workers : work'[u] = IF u = t THEN w ELSE work[u]
  BY <1>1 DEF MainInv, MainOK, w
<1>4. /\ UNCHANGED <<engine, build, kitVars>> /\ MainFree /\ build # None
      /\ meddled' = (meddled \/ (engine = "unreal" /\ AnyInflight))
      /\ engine = "godot" => ~IsBusy
  BY DEF StartCall
<1>5. ASSUME ~meddled', NEW u \in Workers PROVE ~KitCall(u)
  <2>1. CASE engine = "unreal"
    BY <1>4, <1>5, <2>1, NoneInflight
  <2>2. CASE engine = "godot"
    <3>1. KitCall(u) => work[u].build = build
      BY <1>4, <1>5 DEF KitInv, OneCall
    <3> QED BY <1>4, <2>2, <3>1 DEF IsBusy, Inflight, KitCall
  <2> QED BY <2>1, <2>2, EngineKnown
<1>6. OneCall'
  BY <1>2, <1>3, <1>4, <1>5 DEF OneCall, KitCall, MainFree, kitVars
<1>7. \A u \in Workers : job[u].at # "idle" => (KitCall(u))' /\ work'[u].at \in {"prompt", "kit"}
  BY <1>1, <1>3 DEF KitInv, JobsOK, KitCall
<1> QED BY <1>4, <1>6, <1>7, Quiet

\* A transact begins beside the calls of the kit and reads no list.
LEMMA KitStartTransact ==
    ASSUME MainInv, KitInv, StartTransact PROVE KitInv'
<1>1. PICK t \in Workers :
         /\ work[t].at = "idle"
         /\ work' = [work EXCEPT ![t] =
                [Idle EXCEPT !.at = "spawned", !.call = "transact", !.build = session]]
  BY DEF StartTransact, Spawn
<1> DEFINE w == [Idle EXCEPT !.at = "spawned", !.call = "transact", !.build = session]
<1>2. w.call = "transact" /\ w.build = session
  BY DEF Idle
<1> HIDE DEF w
<1>3. \A u \in Workers : work'[u] = IF u = t THEN w ELSE work[u]
  BY <1>1 DEF MainInv, MainOK, w
<1>4. UNCHANGED <<build, kitVars, meddled>>
  BY DEF StartTransact
<1>5. OneCall'
  BY <1>2, <1>3, <1>4 DEF KitInv, OneCall, KitCall, kitVars
<1>6. \A u \in Workers : job[u].at # "idle" => (KitCall(u))' /\ work'[u].at \in {"prompt", "kit"}
  BY <1>1, <1>3 DEF KitInv, JobsOK, KitCall
<1> QED BY <1>4, <1>5, <1>6, Quiet

\* persistSession's merge is a list of sessions, with the new one added to it.
LEMMA MergeLists ==
    ASSUME NEW b \in Builds, NEW L \in SUBSET KitEntry, NEW new \in KitEntry
    PROVE  /\ Kit(b)!Merge(L, new) \in SUBSET KitEntry
           /\ KeysIn(L) \cup {new.key} \subseteq KeysIn(Kit(b)!Merge(L, new))
<1> DEFINE others == {f \in L : f.key # new.key}
           Clear(e) == [e EXCEPT !.dflt = @ /\ Kit(b)!Chain(e.key) # Kit(b)!Chain(new.key)]
<1>1. \A e \in others : Clear(e) \in KitEntry /\ Clear(e).key = e.key
  BY DEF KitEntry
<1>2. Kit(b)!Merge(L, new) = {Clear(e) : e \in others} \cup {new}
  BY DEF Kit!Merge, Kit!Cleared
<1> HIDE DEF Clear
<1>3. Kit(b)!Merge(L, new) \in SUBSET KitEntry
  BY <1>1, <1>2
<1>4. ASSUME NEW e \in L PROVE e.key \in KeysIn(Kit(b)!Merge(L, new))
  <2>1. CASE e.key = new.key
    BY <1>2, <2>1 DEF KeysIn
  <2>2. CASE e.key # new.key
    <3>1. e \in others
      BY <2>2
    <3>2. Clear(e) \in Kit(b)!Merge(L, new) /\ Clear(e).key = e.key
      BY <1>1, <1>2, <3>1
    <3> QED BY <3>2 DEF KeysIn
  <2> QED BY <2>1, <2>2
<1>5. new.key \in KeysIn(Kit(b)!Merge(L, new))
  BY <1>2 DEF KeysIn
<1> QED BY <1>3, <1>4, <1>5 DEF KeysIn

\* A worker's step inside a kit: it alone moves, and its next job is in order.
LEMMA JobMoves ==
    ASSUME KitInv, NEW t \in Workers, NEW j \in KitJob,
           (KitCall(t))', UNCHANGED <<build, meddled>>,
           \A u \in Workers \ {t} : work'[u] = work[u],
           OneCall',
           job' = [job EXCEPT ![t] = j],
           j.at \in InWorkers /\ j.op # "logoutAll",
           j.at # "idle" => work'[t].at \in {"prompt", "kit"} /\ j.entry \in KitEntry,
           current' \in KitFiles(KitEntry \cup {NoEntry}),
           current'.is = "text" => current'.val \in KitEntry,
           sessions' \in KitFiles(SUBSET KitEntry),
           plugin' \in [Builds -> PluginData],
           ~meddled /\ j.at \in {"openList", "closeList"} =>
               kept' \cup {j.entry.key} \subseteq KeysIn(j.buf),
           ~meddled /\ sessions'.is # "torn" => kept' \subseteq KeysIn(sessions'.val)
    PROVE  KitInv'
<1>0. t \in Threads /\ t # Main /\ Main \in Threads
  BY EngineAssumption DEF Threads
<1>1. \A u \in Threads : job'[u] = IF u = t THEN j ELSE job[u]
  BY DEF KitInv, StorageOK
<1>2. StorageOK'
  BY DEF KitInv, StorageOK
<1>3. JobsOK'
  <2> SUFFICES ASSUME NEW u \in Workers
               PROVE  /\ job'[u].at \in InWorkers /\ job'[u].op # "logoutAll"
                      /\ job'[u].at # "idle" =>
                            (KitCall(u))' /\ work'[u].at \in {"prompt", "kit"}
                            /\ job'[u].entry \in KitEntry
    BY <1>0, <1>1 DEF KitInv, JobsOK
  <2>1. CASE u = t
    BY <1>0, <1>1, <2>1
  <2>2. CASE u # t
    BY <1>0, <1>1, <2>2 DEF KitInv, JobsOK, KitCall, Threads
  <2> QED BY <2>1, <2>2
<1>4. ASSUME ~meddled, NEW u \in Workers, u # t PROVE job'[u].at = "idle"
  <2>1. ~(KitCall(u))'
    BY <1>4 DEF OneCall
  <2> QED BY <1>3, <2>1 DEF JobsOK
<1>5. ~meddled => job'[Main].at = "idle"
  BY DEF OneCall
<1>6. KeptInLists'
  <2> SUFFICES ASSUME ~meddled
               PROVE  /\ sessions'.is # "torn" => kept' \subseteq KeysIn(sessions'.val)
                      /\ \A u \in Workers : job'[u].at \in {"openList", "closeList"} =>
                            kept' \cup {job'[u].entry.key} \subseteq KeysIn(job'[u].buf)
                      /\ job'[Main].at # "idle" => kept' = {}
    BY DEF KeptInLists, KeysIn
  <2>1. ASSUME NEW u \in Workers, job'[u].at \in {"openList", "closeList"}
        PROVE  kept' \cup {job'[u].entry.key} \subseteq KeysIn(job'[u].buf)
    BY <1>0, <1>1, <1>4, <2>1 DEF KeysIn
  <2> QED BY <1>5, <2>1
<1> QED BY <1>2, <1>3, <1>6 DEF KitInv

\* The workers run the calls they ran, and only one of them has moved.
WorkKept(t) ==
    \A u \in Workers :
        /\ work'[u].call = work[u].call /\ work'[u].build = work[u].build
        /\ u # t => work'[u] = work[u]

\* A step of a worker within its call leaves one call in the kit.
LEMMA OneCallKept ==
    ASSUME KitInv, NEW t \in Workers, WorkKept(t), UNCHANGED <<build, meddled>>,
           job'[Main] = job[Main]
    PROVE  OneCall'
BY DEF KitInv, OneCall, WorkKept, KitCall

\* A worker of a call takes a step in the kit, which leaves the storage typed.
LEMMA InKitMoves ==
    ASSUME MainInv, KitInv, NEW t \in Workers, NEW j \in KitJob,
           KitCall(t), WorkKept(t), UNCHANGED <<build, meddled>>,
           job' = [job EXCEPT ![t] = j],
           j.at \in InWorkers /\ j.op # "logoutAll",
           j.at # "idle" => work'[t].at \in {"prompt", "kit"} /\ j.entry \in KitEntry,
           current' \in KitFiles(KitEntry \cup {NoEntry}),
           current'.is = "text" => current'.val \in KitEntry,
           sessions' \in KitFiles(SUBSET KitEntry),
           plugin' \in [Builds -> PluginData],
           ~meddled /\ j.at \in {"openList", "closeList"} =>
               kept' \cup {j.entry.key} \subseteq KeysIn(j.buf),
           ~meddled /\ sessions'.is # "torn" => kept' \subseteq KeysIn(sessions'.val)
    PROVE  KitInv'
<1>1. job'[Main] = job[Main]
  BY EngineAssumption DEF KitInv, StorageOK, Threads
<1>2. OneCall'
  BY <1>1, OneCallKept
<1>3. (KitCall(t))' /\ \A u \in Workers \ {t} : work'[u] = work[u]
  BY DEF KitCall, WorkKept
<1> QED BY <1>2, <1>3, JobMoves

\* What a call holds between its steps.
LEMMA JobKnown ==
    ASSUME KitInv, NEW t \in Workers
    PROVE  /\ job[t] \in KitJob /\ job[t].op # "logoutAll" /\ job[t].at \in InWorkers
           /\ job[t].at # "idle" => KitCall(t) /\ job[t].entry \in KitEntry
           /\ current \in KitFiles(KitEntry \cup {NoEntry})
           /\ current.is = "text" => current.val \in KitEntry
           /\ sessions \in KitFiles(SUBSET KitEntry)
           /\ plugin \in [Builds -> PluginData]
BY DEF KitInv, StorageOK, JobsOK, Threads

\* A kit with no call has a job of its types.
LEMMA NoKitJob ==
    ASSUME NEW b \in Builds
    PROVE  Kit(b)!NoJob \in KitJob /\ Kit(b)!NoJob.at = "idle" /\ Kit(b)!NoJob.op = "none"
BY DEF Kit!NoJob, KitJob, InWorkers

\* Nobody meddled, and the list that is not torn has what was kept.
LEMMA ListedNow ==
    ASSUME KitInv, ~meddled, sessions.is # "torn"
    PROVE  kept \subseteq KeysIn(sessions.val)
BY DEF KitInv, KeptInLists

\* The call returns out of the kit, the storage as it was.
LEMMA ReturnsFromKit ==
    ASSUME MainInv, KitInv, NEW t \in Workers, NEW b \in Builds,
           KitCall(t), WorkKept(t), UNCHANGED <<build, meddled, current, sessions, kept>>,
           job' = [job EXCEPT ![t] = Kit(b)!NoJob],
           plugin' \in [Builds -> PluginData]
    PROVE  KitInv'
<1> DEFINE j == Kit(b)!NoJob
<1>1. j \in KitJob /\ j.at = "idle" /\ j.op = "none"
  BY NoKitJob
<1> HIDE DEF j
<1>2. job' = [job EXCEPT ![t] = j]
  BY DEF j
<1>3. ~meddled /\ sessions'.is # "torn" => kept' \subseteq KeysIn(sessions'.val)
  BY ListedNow
<1>4. j.at \in InWorkers
  BY <1>1 DEF InWorkers
<1>5. /\ current' \in KitFiles(KitEntry \cup {NoEntry})
      /\ current'.is = "text" => current'.val \in KitEntry
      /\ sessions' \in KitFiles(SUBSET KitEntry)
  BY JobKnown
<1> QED BY <1>1, <1>2, <1>3, <1>4, <1>5, InKitMoves

\* The call goes on in the kit with the session it holds, and starts no write.
LEMMA GoesOn ==
    ASSUME MainInv, KitInv, NEW t \in Workers, NEW l \in InWorkers \ {"openList", "closeList"},
           job[t].at # "idle", WorkKept(t), work'[t].at = "kit",
           UNCHANGED <<build, meddled, kept>>,
           job' = [job EXCEPT ![t].at = l],
           current' \in KitFiles(KitEntry \cup {NoEntry}),
           current'.is = "text" => current'.val \in KitEntry,
           UNCHANGED sessions,
           plugin' \in [Builds -> PluginData]
    PROVE  KitInv'
<1> DEFINE j == [job[t] EXCEPT !.at = l]
<1>1. /\ job[t] \in KitJob /\ job[t].op # "logoutAll" /\ KitCall(t) /\ job[t].entry \in KitEntry
      /\ sessions' \in KitFiles(SUBSET KitEntry)
  BY JobKnown
<1>2. j \in KitJob /\ j.at = l /\ j.op # "logoutAll" /\ j.entry \in KitEntry
  BY <1>1 DEF KitJob
<1>3. job' = [job EXCEPT ![t] = j]
  OBVIOUS
<1> HIDE DEF j
<1>4. ~meddled /\ sessions'.is # "torn" => kept' \subseteq KeysIn(sessions'.val)
  BY ListedNow
<1> QED BY <1>1, <1>2, <1>3, <1>4, InKitMoves

\* The answer of a call that left the kit, if it did.
LEMMA ReturnedKeeps ==
    ASSUME MainInv, NEW t \in Workers, InKit(t), NEW a, Returned(t, a)
    PROVE  WorkKept(t) /\ (job'[t].at # "idle" => work'[t].at = "kit")
<1>1. CASE job'[t].at = "idle"
  BY <1>1 DEF Returned, Answered, WorkKept, MainInv, MainOK, Work
<1>2. CASE job'[t].at # "idle"
  BY <1>2 DEF Returned, WorkKept, InKit
<1> QED BY <1>1, <1>2

\* There is a first build of the kit.
LEMMA FirstBuild == 1 \in Builds
BY EngineAssumption DEF Builds

\* login(): the session asked for, its plugin data still to come.
LEMMA KitBeginLogin ==
    ASSUME MainInv, KitInv, NEW t \in Workers, BeginLogin(t) PROVE KitInv'
<1>1. PICK k \in Keys : Kit(1)!StartLogin(t, Anchor, k, TRUE)
  BY DEF BeginLogin
<1> DEFINE j == [Kit(1)!NoJob EXCEPT !.at = "wallet", !.op = "login", !.asDefault = TRUE,
                    !.entry = [key |-> k, wallet |-> Anchor, data |-> NoData, dflt |-> TRUE]]
<1>2. j \in KitJob /\ j.at = "wallet" /\ j.op = "login" /\ j.entry \in KitEntry
  BY DEF KitJob, KitEntry, InWorkers, Kit!NoJob
<1>3. job' = [job EXCEPT ![t] = j] /\ UNCHANGED <<current, sessions, kept>>
  BY <1>1 DEF Kit!StartLogin, Kit!files, Kit!history
<1> HIDE DEF j
<1>4. /\ KitCall(t) /\ WorkKept(t) /\ work'[t].at = "prompt"
      /\ UNCHANGED <<build, meddled, plugin>>
  BY DEF BeginLogin, KitCall, WorkKept, MainInv, MainOK, Work, mainVars
<1>5. ~meddled /\ sessions'.is # "torn" => kept' \subseteq KeysIn(sessions'.val)
  BY <1>3, ListedNow
<1>6. /\ current' \in KitFiles(KitEntry \cup {NoEntry})
      /\ current'.is = "text" => current'.val \in KitEntry
      /\ sessions' \in KitFiles(SUBSET KitEntry)
      /\ plugin' \in [Builds -> PluginData]
  BY <1>3, <1>4, JobKnown
<1>7. j.at \in InWorkers
  BY <1>2 DEF InWorkers
<1> QED BY <1>2, <1>3, <1>4, <1>5, <1>6, <1>7, InKitMoves

\* restore(): the session "session" names is looked for, or there is none.
LEMMA KitBeginRestore ==
    ASSUME MainInv, KitInv, NEW t \in Workers, BeginRestore(t) PROVE KitInv'
<1>1. /\ work[t].call = "restore" /\ work[t].at = "spawned"
      /\ UNCHANGED <<build, meddled, plugin>>
  BY DEF BeginRestore, mainVars
<1>2. job[t].at = "idle"
  BY <1>1 DEF KitInv, JobsOK
<1>3. CASE current.is = "text"
  <2>1. Kit(1)!StartRestore(t) /\ work' = [work EXCEPT ![t].at = "kit"]
    BY <1>3 DEF BeginRestore
  <2> DEFINE j == Kit(1)!RestoreJob("restore", current.val, TRUE)
  <2>2. j \in KitJob /\ j.at = "lookup" /\ j.op = "restore" /\ j.entry \in KitEntry
    BY <1>3, JobKnown DEF KitJob, InWorkers, Kit!RestoreJob, Kit!NoJob
  <2>3. job' = [job EXCEPT ![t] = j] /\ UNCHANGED <<current, sessions, kept>>
    BY <2>1 DEF Kit!StartRestore, Kit!files, Kit!history
  <2> HIDE DEF j
  <2>4. KitCall(t) /\ WorkKept(t) /\ work'[t].at = "kit"
    BY <1>1, <2>1 DEF KitCall, WorkKept, MainInv, MainOK, Work
  <2>5. ~meddled /\ sessions'.is # "torn" => kept' \subseteq KeysIn(sessions'.val)
    BY <2>3, ListedNow
  <2>6. /\ current' \in KitFiles(KitEntry \cup {NoEntry})
        /\ current'.is = "text" => current'.val \in KitEntry
        /\ sessions' \in KitFiles(SUBSET KitEntry)
        /\ plugin' \in [Builds -> PluginData]
    BY <1>1, <2>3, JobKnown
  <2>7. j.at \in InWorkers
    BY <2>2 DEF InWorkers
  <2> QED BY <1>1, <2>2, <2>3, <2>4, <2>5, <2>6, <2>7, InKitMoves
<1>4. CASE current.is # "text"
  <2>1. UNCHANGED <<current, sessions, job, kept, cut>>
        /\ \E a \in {"error", "null"} : work' = [work EXCEPT ![t].at = "answer", ![t].answer = a]
    BY <1>4 DEF BeginRestore, Answered
  <2>2. WorkKept(t) /\ (KitCall(t))'
    BY <1>1, <2>1 DEF KitCall, WorkKept, MainInv, MainOK, Work
  <2>3. OneCall'
    BY <1>1, <2>1, <2>2, OneCallKept
  <2>4. \A u \in Workers : job[u].at # "idle" => (KitCall(u))' /\ work'[u].at \in {"prompt", "kit"}
    BY <1>2, <2>2 DEF KitInv, JobsOK, KitCall, WorkKept
  <2>5. UNCHANGED kitVars
    BY <1>1, <2>1 DEF kitVars
  <2> QED BY <1>1, <2>3, <2>4, <2>5, Quiet
<1> QED BY <1>3, <1>4

\* Steps of a worker outside its kit.
LEMMA KitOutside ==
    ASSUME MainInv, KitInv, NEW t \in Workers,
           BeginTransact(t) \/ WaitEnds(t) \/ TransactEnds(t) \/ Answer(t) \/ Return(t)
    PROVE  KitInv'
<1>1. UNCHANGED <<build, meddled, kitVars>>
  BY DEF BeginTransact, WaitEnds, TransactEnds, Answer, Return, mainVars
<1>2. \A u \in Workers : u # t => work'[u] = work[u]
  BY DEF BeginTransact, WaitEnds, TransactEnds, Answer, Return, Answered, MainInv, MainOK
<1>3. \/ WorkKept(t)
      \/ work'[t] = Idle
  <2>1. CASE BeginTransact(t) \/ WaitEnds(t) \/ TransactEnds(t) \/ Answer(t)
    <3>1. work'[t].call = work[t].call /\ work'[t].build = work[t].build
      BY <2>1 DEF BeginTransact, WaitEnds, TransactEnds, Answer, Answered, MainInv, MainOK, Work
    <3> QED BY <1>2, <3>1 DEF WorkKept
  <2>2. CASE Return(t)
    BY <2>2 DEF Return, MainInv, MainOK
  <2> QED BY <2>1, <2>2
<1>4. OneCall'
  BY <1>1, <1>2, <1>3, IdleIsWork DEF KitInv, OneCall, WorkKept, KitCall, kitVars
<1>5. job[t].at # "idle" => (KitCall(t))' /\ work'[t].at \in {"prompt", "kit"}
  <2> SUFFICES ASSUME job[t].at # "idle" PROVE (KitCall(t))' /\ work'[t].at \in {"prompt", "kit"}
    OBVIOUS
  <2>1. KitCall(t) /\ work[t].at \in {"prompt", "kit"} /\ work[t] \in Work
    BY DEF KitInv, JobsOK, MainInv, MainOK
  <2>2. WaitEnds(t)
    BY <2>1 DEF BeginTransact, TransactEnds, Answer, Return, KitCall
  <2> QED BY <2>1, <2>2 DEF WaitEnds, KitCall, MainInv, MainOK, Work
<1>6. \A u \in Workers : job[u].at # "idle" => (KitCall(u))' /\ work'[u].at \in {"prompt", "kit"}
  BY <1>2, <1>5 DEF KitInv, JobsOK, KitCall
<1> QED BY <1>1, <1>4, <1>6, Quiet

\* A wallet that is asked leaves data of its types in its plugin.
LEMMA PluginStays ==
    ASSUME KitInv, NEW t \in Workers, NEW b \in Builds, OnPlugin(b, t)
    PROVE  plugin' \in [Builds -> PluginData]
BY JobKnown DEF OnPlugin

\* The wallet answers or fails, its data in the plugin of this kit only.
LEMMA KitWalletEnds ==
    ASSUME MainInv, KitInv, NEW t \in Workers, WalletEnds(t) PROVE KitInv'
<1>1. PICK b \in Builds : OnPlugin(b, t) /\ (Kit(b)!WalletLogin(t) \/ Kit(b)!WalletLoginFails(t))
  BY DEF WalletEnds
<1>2. plugin' \in [Builds -> PluginData]
  BY <1>1, PluginStays
<1>3. /\ UNCHANGED <<current, sessions, kept, build, meddled>>
      /\ job[t].at = "wallet"
  BY <1>1 DEF Kit!WalletLogin, Kit!WalletLoginFails, Kit!At, Kit!files, Kit!history,
              WalletEnds, mainVars
<1>4. WorkKept(t) /\ (job'[t].at # "idle" => work'[t].at = "kit")
  BY ReturnedKeeps DEF WalletEnds
<1>5. KitCall(t) /\ job \in [Threads -> KitJob]
  BY <1>3, JobKnown DEF KitInv, StorageOK
<1>6. CASE Kit(b)!WalletLogin(t)
  <2>1. job' = [job EXCEPT ![t].at = "serialize"]
    BY <1>6 DEF Kit!WalletLogin, Kit!Goto
  <2>2. job'[t].at = "serialize"
    BY <1>5, <2>1 DEF Threads, KitJob
  <2>3. "serialize" \in InWorkers \ {"openList", "closeList"}
    BY DEF InWorkers
  <2> QED BY <1>2, <1>3, <1>4, <2>1, <2>2, <2>3, GoesOn, JobKnown
<1>7. CASE Kit(b)!WalletLoginFails(t)
  <2>1. job' = [job EXCEPT ![t] = Kit(b)!NoJob]
    BY <1>7 DEF Kit!WalletLoginFails, Kit!Return
  <2> QED BY <1>2, <1>3, <1>4, <1>5, <2>1, ReturnsFromKit
<1> QED BY <1>1, <1>6, <1>7

\* The stored session is found and will be persisted again, or the call returns.
LEMMA KitLookupEnds ==
    ASSUME MainInv, KitInv, NEW t \in Workers, LookupEnds(t) PROVE KitInv'
<1>1. PICK b \in Builds :
         /\ OnPlugin(b, t)
         /\ Kit(b)!LookupNone(t) \/ Kit(b)!LookupFails(t) \/ Kit(b)!LookupFound(t)
  BY DEF LookupEnds
<1>2. plugin' \in [Builds -> PluginData]
  BY <1>1, PluginStays
<1>3. /\ UNCHANGED <<current, sessions, kept, build, meddled>>
      /\ job[t].at = "lookup"
  BY <1>1 DEF Kit!LookupNone, Kit!LookupFails, Kit!LookupFound, Kit!At, Kit!files, Kit!history,
              LookupEnds, mainVars
<1>4. WorkKept(t) /\ (job'[t].at # "idle" => work'[t].at = "kit")
  BY ReturnedKeeps DEF LookupEnds
<1>5. /\ KitCall(t) /\ job \in [Threads -> KitJob] /\ job[t] \in KitJob
      /\ job[t].entry \in KitEntry /\ job[t].op # "logoutAll"
      /\ sessions.val \subseteq KitEntry
  BY <1>3, JobKnown DEF KitInv, StorageOK, KitFiles
<1>6. ASSUME job' = [job EXCEPT ![t] = Kit(b)!NoJob] PROVE KitInv'
  BY <1>2, <1>3, <1>4, <1>5, <1>6, ReturnsFromKit
<1>7. CASE Kit(b)!LookupNone(t)
  <2>1. job[t].op # "restoreAll"
    BY <1>5 DEF KitJob
  <2> QED BY <1>6, <1>7, <2>1 DEF Kit!LookupNone, Kit!Return
<1>8. CASE Kit(b)!LookupFails(t)
  BY <1>6, <1>8 DEF Kit!LookupFails, Kit!Return
<1>9. CASE Kit(b)!LookupFound(t)
  <2>1. PICK found \in Kit(b)!FirstOf(Kit(b)!Matches(t)) :
           job' = [job EXCEPT ![t].entry = found, ![t].at = "serialize"]
    BY <1>9 DEF Kit!LookupFound
  <2>2. found \in KitEntry
    <3>1. found \in Kit(b)!Matches(t)
      BY <2>1 DEF Kit!FirstOf
    <3> QED BY <1>5, <3>1 DEF Kit!Matches
  <2> DEFINE j == [job[t] EXCEPT !.entry = found, !.at = "serialize"]
  <2>3. j \in KitJob /\ j.at = "serialize" /\ j.op = job[t].op /\ j.entry = found
    BY <1>5, <2>2 DEF KitJob, InWorkers
  <2>4. job' = [job EXCEPT ![t] = j]
    BY <2>1
  <2> HIDE DEF j
  <2>5. job'[t] = j
    BY <1>5, <2>4 DEF Threads
  <2>6. ~meddled /\ sessions'.is # "torn" => kept' \subseteq KeysIn(sessions'.val)
    BY <1>3, ListedNow
  <2>7. /\ current' \in KitFiles(KitEntry \cup {NoEntry})
        /\ current'.is = "text" => current'.val \in KitEntry
        /\ sessions' \in KitFiles(SUBSET KitEntry)
    BY <1>3, JobKnown
  <2>8. j.at \in InWorkers
    BY <2>3 DEF InWorkers
  <2> QED BY <1>2, <1>3, <1>4, <1>5, <2>2, <2>3, <2>4, <2>5, <2>6, <2>7, <2>8, InKitMoves
<1> QED BY <1>1, <1>7, <1>8, <1>9

\* One access of persistSession to the storage.
LEMMA KitPersistStep ==
    ASSUME MainInv, KitInv, NEW t \in Workers, PersistStep(t) PROVE KitInv'
<1>1. PICK b \in Builds :
         \/ Kit(b)!Serialize(t)
         \/ Kit(b)!OpenCurrent(t) \/ Kit(b)!CloseCurrent(t)
         \/ Kit(b)!ReadList(t) \/ Kit(b)!OpenList(t) \/ Kit(b)!CloseList(t)
  BY DEF PersistStep
<1>2. plugin' \in [Builds -> PluginData] /\ UNCHANGED <<build, meddled>>
  BY JobKnown DEF PersistStep, mainVars
<1>3. WorkKept(t) /\ (job'[t].at # "idle" => work'[t].at = "kit")
  <2>1. PICK a \in {"session", "error"} : Returned(t, a)
    BY DEF PersistStep
  <2>2. InKit(t)
    BY DEF PersistStep
  <2> QED BY <2>1, <2>2, ReturnedKeeps
<1>4. job[t].at # "idle"
  BY <1>1 DEF Kit!Serialize, Kit!OpenCurrent, Kit!CloseCurrent, Kit!ReadList, Kit!OpenList,
              Kit!CloseList, Kit!At
<1>5. /\ KitCall(t) /\ job \in [Threads -> KitJob] /\ job[t] \in KitJob
      /\ job[t].entry \in KitEntry /\ job[t].op # "logoutAll" /\ t \in Threads
      /\ current \in KitFiles(KitEntry \cup {NoEntry})
      /\ current.is = "text" => current.val \in KitEntry
      /\ sessions \in KitFiles(SUBSET KitEntry) /\ sessions.val \in SUBSET KitEntry
      /\ job[t].buf \in SUBSET KitEntry /\ job[t].entry.key \in Keys
  BY <1>4, JobKnown DEF KitInv, StorageOK, KitFiles, KitJob, Threads, KitEntry
<1>6. ASSUME NEW l \in InWorkers, job' = [job EXCEPT ![t].at = l]
      PROVE  job'[t].at = l
  BY <1>5, <1>6 DEF KitJob
<1>7. CASE Kit(b)!Serialize(t)
  <2> DEFINE e == Kit(b)!Serialized(job[t].entry.key, job[t].entry.wallet, job[t].asDefault)
             l == IF job[t].asDefault THEN "openCurrent" ELSE "readList"
             j == [job[t] EXCEPT !.entry = e, !.at = l]
  <2>1. e \in KitEntry
    BY <1>5, JobKnown DEF Kit!Serialized, KitEntry, PluginData, KitJob
  <2>2. l \in InWorkers \ {"idle", "openList", "closeList"}
    BY DEF InWorkers
  <2>3. job' = [job EXCEPT ![t] = j] /\ UNCHANGED <<current, sessions, kept>>
    BY <1>5, <1>7 DEF Kit!Serialize, Kit!files, Kit!history
  <2> HIDE DEF e, l
  <2>4. j \in KitJob /\ j.at = l /\ j.op = job[t].op /\ j.entry = e
    BY <1>5, <2>1, <2>2 DEF KitJob
  <2> HIDE DEF j
  <2>5. job'[t] = j
    BY <1>5, <2>3
  <2>6. ~meddled /\ sessions'.is # "torn" => kept' \subseteq KeysIn(sessions'.val)
    BY <2>3, ListedNow
  <2>7. work'[t].at = "kit"
    BY <1>3, <2>2, <2>4, <2>5
  <2>8. /\ current' \in KitFiles(KitEntry \cup {NoEntry})
        /\ current'.is = "text" => current'.val \in KitEntry
        /\ sessions' \in KitFiles(SUBSET KitEntry)
    BY <1>5, <2>3
  <2> QED BY <1>2, <1>3, <1>5, <2>1, <2>2, <2>3, <2>4, <2>6, <2>7, <2>8, InKitMoves
<1>8. CASE Kit(b)!OpenCurrent(t)
  <2>1. /\ job' = [job EXCEPT ![t].at = "closeCurrent"] /\ UNCHANGED <<sessions, kept>>
        /\ current' = [is |-> "torn", val |-> NoEntry]
    BY <1>8 DEF Kit!OpenCurrent, Kit!Goto, Kit!Torn, Kit!history
  <2>2. "closeCurrent" \in InWorkers \ {"openList", "closeList"}
    BY DEF InWorkers
  <2>3. current' \in KitFiles(KitEntry \cup {NoEntry}) /\ current'.is # "text"
    BY <2>1 DEF KitFiles
  <2>4. work'[t].at = "kit"
    BY <1>3, <1>6, <2>1, <2>2
  <2> QED BY <1>2, <1>3, <1>4, <2>1, <2>2, <2>3, <2>4, GoesOn
<1>9. CASE Kit(b)!CloseCurrent(t)
  <2>1. /\ job' = [job EXCEPT ![t].at = "readList"] /\ UNCHANGED <<sessions, kept>>
        /\ \/ current' = [is |-> "text", val |-> job[t].entry]
           \/ current' = [is |-> "torn", val |-> NoEntry]
    BY <1>9 DEF Kit!CloseCurrent, Kit!Goto, Kit!Torn, Kit!Text, Kit!history
  <2>2. "readList" \in InWorkers \ {"openList", "closeList"}
    BY DEF InWorkers
  <2>3. /\ current' \in KitFiles(KitEntry \cup {NoEntry})
        /\ current'.is = "text" => current'.val \in KitEntry
    BY <1>5, <2>1 DEF KitFiles
  <2>4. work'[t].at = "kit"
    BY <1>3, <1>6, <2>1, <2>2
  <2> QED BY <1>2, <1>3, <1>4, <2>1, <2>2, <2>3, <2>4, GoesOn
<1>10. CASE Kit(b)!ReadList(t)
  <2>1. UNCHANGED <<current, sessions, kept>>
    BY <1>10 DEF Kit!ReadList, Kit!files
  <2>2. CASE sessions.is = "torn"
    <3>1. job' = [job EXCEPT ![t] = Kit(b)!NoJob]
      BY <1>10, <2>2 DEF Kit!ReadList, Kit!Return
    <3> QED BY <1>2, <1>3, <1>5, <2>1, <3>1, ReturnsFromKit
  <2>3. CASE sessions.is # "torn"
    <3> DEFINE m == Kit(b)!Merge(sessions.val, job[t].entry)
               j == [job[t] EXCEPT !.buf = m, !.at = "openList"]
    <3>1. m \in SUBSET KitEntry /\ KeysIn(sessions.val) \cup {job[t].entry.key} \subseteq KeysIn(m)
      BY <1>5, MergeLists
    <3>2. job' = [job EXCEPT ![t] = j]
      BY <1>10, <2>3 DEF Kit!ReadList
    <3> HIDE DEF m
    <3>3. /\ j \in KitJob /\ j.at = "openList" /\ j.op = job[t].op
          /\ j.entry = job[t].entry /\ j.buf = m
      BY <1>5, <3>1 DEF KitJob, InWorkers
    <3> HIDE DEF j
    <3>4. job'[t] = j
      BY <1>5, <3>2
    <3>5. ~meddled => kept' \subseteq KeysIn(sessions'.val)
      BY <2>1, <2>3, ListedNow
    <3>6. ~meddled => kept' \cup {j.entry.key} \subseteq KeysIn(j.buf)
      BY <2>1, <3>1, <3>3, <3>5
    <3>7. work'[t].at = "kit"
      BY <1>3, <3>3, <3>4
    <3>8. /\ current' \in KitFiles(KitEntry \cup {NoEntry})
          /\ current'.is = "text" => current'.val \in KitEntry
          /\ sessions' \in KitFiles(SUBSET KitEntry)
      BY <1>5, <2>1
    <3>9. j.at \in InWorkers
      BY <3>3 DEF InWorkers
    <3> QED BY <1>2, <1>3, <1>5, <3>2, <3>3, <3>5, <3>6, <3>7, <3>8, <3>9, InKitMoves
  <2> QED BY <2>2, <2>3
<1>11. CASE Kit(b)!OpenList(t)
  <2>1. /\ job' = [job EXCEPT ![t].at = "closeList"] /\ UNCHANGED <<current, kept>>
        /\ sessions' = [is |-> "torn", val |-> {}] /\ job[t].at = "openList"
    BY <1>11 DEF Kit!OpenList, Kit!Goto, Kit!Torn, Kit!history, Kit!At
  <2> DEFINE j == [job[t] EXCEPT !.at = "closeList"]
  <2>2. /\ j \in KitJob /\ j.at = "closeList" /\ j.op = job[t].op
        /\ j.entry = job[t].entry /\ j.buf = job[t].buf
    BY <1>5 DEF KitJob, InWorkers
  <2>3. job' = [job EXCEPT ![t] = j]
    BY <2>1
  <2> HIDE DEF j
  <2>4. ~meddled => kept' \cup {j.entry.key} \subseteq KeysIn(j.buf)
    BY <2>1, <2>2 DEF KitInv, KeptInLists
  <2>5. sessions' \in KitFiles(SUBSET KitEntry) /\ sessions'.is = "torn"
    BY <2>1 DEF KitFiles
  <2>6. work'[t].at = "kit"
    BY <1>3, <1>5, <2>2, <2>3
  <2>7. /\ current' \in KitFiles(KitEntry \cup {NoEntry})
        /\ current'.is = "text" => current'.val \in KitEntry
    BY <1>5, <2>1
  <2>8. j.at \in InWorkers
    BY <2>2 DEF InWorkers
  <2> QED BY <1>2, <1>3, <1>5, <2>2, <2>3, <2>4, <2>5, <2>6, <2>7, <2>8, InKitMoves
<1>12. CASE Kit(b)!CloseList(t)
  <2>1. job[t].op \notin {"restoreAll", "logout"}
    BY <1>5 DEF KitJob
  <2>2. /\ \/ sessions' = [is |-> "text", val |-> job[t].buf]
           \/ sessions' = [is |-> "torn", val |-> {}]
        /\ job' = [job EXCEPT ![t] = Kit(b)!NoJob] /\ UNCHANGED current
        /\ kept' = kept \cup {job[t].entry.key} /\ job[t].at = "closeList"
    BY <1>12, <2>1 DEF Kit!CloseList, Kit!Return, Kit!Torn, Kit!Text, Kit!At
  <2> DEFINE j == Kit(b)!NoJob
  <2>3. j \in KitJob /\ j.at = "idle" /\ j.op = "none"
    BY NoKitJob
  <2> HIDE DEF j
  <2>4. job' = [job EXCEPT ![t] = j]
    BY <2>2 DEF j
  <2>5. ~meddled => kept' \subseteq KeysIn(job[t].buf)
    BY <2>2 DEF KitInv, KeptInLists
  <2>6. ~meddled /\ sessions'.is # "torn" => kept' \subseteq KeysIn(sessions'.val)
    BY <2>2, <2>5
  <2>7. sessions' \in KitFiles(SUBSET KitEntry)
    BY <1>5, <2>2 DEF KitFiles
  <2>8. /\ current' \in KitFiles(KitEntry \cup {NoEntry})
        /\ current'.is = "text" => current'.val \in KitEntry
    BY <1>5, <2>2
  <2>9. j.at \in InWorkers
    BY <2>3 DEF InWorkers
  <2> QED BY <1>2, <1>3, <1>5, <2>3, <2>4, <2>6, <2>7, <2>8, <2>9, InKitMoves
<1> QED BY <1>1, <1>7, <1>8, <1>9, <1>10, <1>11, <1>12

\* The logout of the main thread takes a step: nobody else is in a kit, or it meddled.
LEMMA MainJobMoves ==
    ASSUME MainInv, KitInv, NEW j \in KitJob,
           j.at \in InMain,
           job' = [job EXCEPT ![Main] = j],
           UNCHANGED <<work, build, plugin>>, meddled => meddled',
           ~meddled' => \A t \in Workers : ~KitCall(t),
           current' \in KitFiles(KitEntry \cup {NoEntry}),
           current'.is = "text" => current'.val \in KitEntry,
           sessions' \in KitFiles(SUBSET KitEntry),
           ~meddled' /\ sessions'.is # "torn" => kept' \subseteq KeysIn(sessions'.val),
           ~meddled' /\ j.at # "idle" => kept' = {}
    PROVE  KitInv'
<1>1. job \in [Threads -> KitJob] /\ Main \in Threads /\ \A t \in Workers : t \in Threads /\ t # Main
  BY EngineAssumption DEF KitInv, StorageOK, Threads
<1>2. job'[Main] = j /\ \A t \in Workers : job'[t] = job[t]
  BY <1>1
<1>3. StorageOK'
  BY <1>1, JobKnown DEF KitInv, StorageOK
<1>4. JobsOK'
  BY <1>2 DEF KitInv, JobsOK, KitCall
<1>5. OneCall'
  BY DEF OneCall, KitCall
<1>6. ~meddled' => \A t \in Workers : job'[t].at = "idle"
  BY <1>2 DEF KitInv, JobsOK
<1>7. KeptInLists'
  BY <1>2, <1>6 DEF KeptInLists, KeysIn
<1> QED BY <1>3, <1>4, <1>5, <1>7 DEF KitInv

\* Godot's logout(): "session" is removed at once, and what was kept is given up.
LEMMA KitLogout ==
    ASSUME MainInv, KitInv, Logout PROVE KitInv'
<1> DEFINE j == [Kit(1)!NoJob EXCEPT !.at = "readAll", !.op = "logoutAll"]
<1>1. j \in KitJob /\ j.at = "readAll"
  BY DEF KitJob, InMain, Kit!NoJob
<1>2. /\ job' = [job EXCEPT ![Main] = j]
      /\ current' = [is |-> "absent", val |-> NoEntry]
      /\ kept' = {} /\ UNCHANGED sessions
  BY DEF Logout, Kit!StartLogoutAll, Kit!Absent
<1> HIDE DEF j
<1>3. UNCHANGED <<work, build, plugin>> /\ meddled' = (meddled \/ AnyInflight)
  BY DEF Logout, mainVars
<1>4. ~meddled' => \A t \in Workers : ~KitCall(t)
  BY <1>3, NoneInflight
<1>5. sessions' \in KitFiles(SUBSET KitEntry)
  BY <1>2 DEF KitInv, StorageOK
<1>6. current' \in KitFiles(KitEntry \cup {NoEntry}) /\ current'.is # "text"
  BY <1>2 DEF KitFiles
<1>7. j.at \in InMain
  BY <1>1 DEF InMain
<1> QED BY <1>1, <1>2, <1>3, <1>4, <1>5, <1>6, <1>7, MainJobMoves

\* A logout of every session runs between the calls, with nothing kept left.
LEMMA KitLogoutSteps ==
    ASSUME MainInv, KitInv, LogoutSteps PROVE KitInv'
<1>1. UNCHANGED <<work, build, plugin, meddled>> /\ (Kit(1)!ReadAll(Main) \/ Kit(1)!RemoveAll(Main))
  BY DEF LogoutSteps, mainVars
<1>2. job[Main].at # "idle"
  BY <1>1 DEF Kit!ReadAll, Kit!RemoveAll, Kit!At
<1>3. ~meddled => kept = {} /\ \A t \in Workers : ~KitCall(t)
  BY <1>2 DEF KitInv, KeptInLists, OneCall
<1>4. UNCHANGED <<current, kept>>
  BY <1>1 DEF Kit!ReadAll, Kit!RemoveAll, Kit!files, Kit!history
<1>5. sessions' \in KitFiles(SUBSET KitEntry)
  BY <1>1 DEF Kit!ReadAll, Kit!RemoveAll, Kit!files, Kit!Absent, KitInv, StorageOK, KitFiles
<1>6. job[Main] \in KitJob
  BY DEF KitInv, StorageOK, Threads
<1>7. PICK j \in KitJob : j.at \in InMain /\ job' = [job EXCEPT ![Main] = j]
  <2>1. CASE job' = [job EXCEPT ![Main] = Kit(1)!NoJob]
    BY <2>1, NoKitJob, FirstBuild DEF InMain
  <2>2. CASE job' = [job EXCEPT ![Main].at = "removeAll"]
    <3> DEFINE j == [job[Main] EXCEPT !.at = "removeAll"]
    <3>1. j \in KitJob /\ j.at \in InMain
      BY <1>6 DEF KitJob, InMain
    <3>2. job' = [job EXCEPT ![Main] = j]
      BY <2>2
    <3> QED BY <3>1, <3>2
  <2> QED BY <1>1, <2>1, <2>2 DEF Kit!ReadAll, Kit!RemoveAll, Kit!Return, Kit!Goto
<1>8. /\ current' \in KitFiles(KitEntry \cup {NoEntry})
      /\ current'.is = "text" => current'.val \in KitEntry
  BY <1>4 DEF KitInv, StorageOK
<1> QED BY <1>1, <1>3, <1>4, <1>5, <1>7, <1>8, MainJobMoves

\* No kit, no call, an empty storage.
LEMMA KitInit == Init => KitInv
<1> SUFFICES ASSUME Init PROVE KitInv
  OBVIOUS
<1>1. Kit(1)!NoJob \in KitJob /\ Kit(1)!NoJob.at = "idle" /\ Kit(1)!NoJob.op = "none"
  BY NoKitJob, FirstBuild
<1>2. \A t \in Threads : job[t] = Kit(1)!NoJob
  BY DEF Init
<1>3. StorageOK
  BY <1>1 DEF Init, StorageOK, KitFiles, PluginData
<1>4. JobsOK
  BY <1>1, <1>2 DEF JobsOK, InWorkers, InMain, Threads
<1>5. OneCall
  BY IdleIsWork DEF Init, OneCall, KitCall
<1>6. KeptInLists
  <2>1. kept = {} /\ \A t \in Workers : job[t].at = "idle"
    BY <1>1, <1>2 DEF Init, Threads
  <2> QED BY <2>1 DEF KeptInLists
<1> QED BY <1>3, <1>4, <1>5, <1>6 DEF KitInv

\* Every step keeps the kit's part of the invariant.
LEMMA KitNext == MainInv /\ KitInv /\ [Next]_vars => KitInv'
<1> SUFFICES ASSUME MainInv, KitInv, [Next]_vars PROVE KitInv'
  OBVIOUS
<1>1. CASE MainStep
  BY <1>1, KitRebuild, KitUntouched, KitStart, KitStartTransact, KitLogout, KitLogoutSteps
     DEF MainStep
<1>2. ASSUME NEW t \in Workers, Waiting(t) \/ Running(t) PROVE KitInv'
  BY <1>2, KitBeginLogin, KitBeginRestore, KitOutside, KitWalletEnds, KitLookupEnds,
     KitPersistStep DEF Waiting, Running, GodotPrompts, UnrealPrompts
<1>3. CASE UNCHANGED vars
  <2>1. UNCHANGED <<work, build, meddled, kitVars>>
    BY <1>3 DEF vars, mainVars
  <2>2. OneCall'
    BY <2>1 DEF KitInv, OneCall, KitCall, kitVars
  <2>3. \A t \in Workers : job[t].at # "idle" => (KitCall(t))' /\ work'[t].at \in {"prompt", "kit"}
    BY <2>1 DEF KitInv, JobsOK, KitCall
  <2> QED BY <2>1, <2>2, <2>3, Quiet
<1> QED BY <1>1, <1>2, <1>3 DEF Next

\* The wrappers' busy check does its work: while the application cancels, rebuilds
\* and logs out only between calls (and in Unreal, which refuses nothing, starts no
\* second one), at most one thread is in the storage, so no session that a login or a
\* restore persisted is lost from the list the next one reads, changes and writes.
THEOREM KeptWhileLeftAlone == FairSpec => []ListedUnlessMeddled
<1>1. FairSpec => []KitInv
  BY MainInit, MainNext, KitInit, KitNext, PTL DEF FairSpec
<1>2. KitInv => ListedUnlessMeddled
  BY DEF KitInv, KeptInLists, KeysIn, ListedUnlessMeddled, Kit!KeysOf
<1> QED BY <1>1, <1>2, PTL

=============================================================================
