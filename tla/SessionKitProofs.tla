-------------------------- MODULE SessionKitProofs --------------------------
(***************************************************************************)
(* What holds of SessionKit for any number of threads, keys and plugins:   *)
(* the type invariant and the shape of the stored list.  The argument is   *)
(* that every list about to be written was merged or filtered from a list  *)
(* that was read, so it is enough to carry the shape of the buffers along. *)
(* Then, with one thread calling the kit, what a login kept stays listed,  *)
(* with its own data, through failed writes and crashes: the kit then is   *)
(* the map of sessions that SessionStore describes.                        *)
(***************************************************************************)
EXTENDS SessionKit, TLAPS

\* The calls that hold a session, or arguments that name one.
HoldsEntry == Labels \ {"idle", "next", "readAll", "removeAll"}

JobsOK == \A t \in Threads :
    /\ job[t].at \in HoldsEntry => job[t].entry \in Entry
    /\ WellFormed(job[t].buf)

CurrentOK == current.is = "text" => current.val \in Entry

IInv == TypeOK /\ WellFormed(sessions.val) /\ JobsOK /\ CurrentOK

-----------------------------------------------------------------------------
\* A part of a well-formed list is well formed.
LEMMA WellFormedSubset ==
    ASSUME NEW L, NEW M \in SUBSET L, WellFormed(L)
    PROVE  WellFormed(M)
BY DEF WellFormed

\* The list of a storage that was never written is well formed.
LEMMA WellFormedEmpty == WellFormed({})
BY DEF WellFormed

\* persistSession's merge keeps the list a list of entries, one per account and
\* one default per chain.
LEMMA MergeWellFormed ==
    ASSUME NEW L \in SUBSET Entry, NEW new \in Entry, WellFormed(L)
    PROVE  Merge(L, new) \in SUBSET Entry /\ WellFormed(Merge(L, new))
<1> DEFINE others == {f \in L : f.key # new.key}
<1>1. ASSUME NEW e \in others
      PROVE  /\ Cleared(e, new) \in Entry
             /\ Cleared(e, new).key = e.key
             /\ Cleared(e, new).key # new.key
             /\ Cleared(e, new).dflt => e.dflt /\ Chain(e.key) # Chain(new.key)
  BY DEF Entry, Cleared
<1>2. \A x \in Merge(L, new) : x = new \/ \E e \in others : x = Cleared(e, new)
  BY DEF Merge
<1>3. Merge(L, new) \in SUBSET Entry
  BY <1>1, <1>2
<1>4. ASSUME NEW x \in Merge(L, new), NEW y \in Merge(L, new), x.key = y.key
      PROVE  x = y
  <2>1. CASE x = new \/ y = new
    BY <1>1, <1>2, <1>4, <2>1
  <2>2. CASE x # new /\ y # new
    <3>1. PICK e \in others, f \in others : x = Cleared(e, new) /\ y = Cleared(f, new)
      BY <1>2, <2>2
    <3>2. e.key = f.key
      BY <1>1, <1>4, <3>1
    <3>3. e = f
      BY <3>2 DEF WellFormed
    <3> QED BY <3>1, <3>3
  <2> QED BY <2>1, <2>2
<1>5. ASSUME NEW x \in Merge(L, new), NEW y \in Merge(L, new),
             Chain(x.key) = Chain(y.key), x.dflt, y.dflt
      PROVE  x = y
  <2>1. CASE x = new \/ y = new
    <3>1. ASSUME NEW z \in Merge(L, new), Chain(z.key) = Chain(new.key), z.dflt, z # new
          PROVE  FALSE
      <4>1. PICK e \in others : z = Cleared(e, new)
        BY <1>2, <3>1
      <4> QED BY <1>1, <3>1, <4>1
    <3> QED BY <1>5, <2>1, <3>1
  <2>2. CASE x # new /\ y # new
    <3>1. PICK e \in others, f \in others : x = Cleared(e, new) /\ y = Cleared(f, new)
      BY <1>2, <2>2
    <3>2. Chain(e.key) = Chain(f.key) /\ e.dflt /\ f.dflt
      BY <1>1, <1>5, <3>1
    <3>3. e = f
      BY <3>2 DEF WellFormed
    <3> QED BY <3>1, <3>3
  <2> QED BY <2>1, <2>2
<1> QED BY <1>3, <1>4, <1>5 DEF WellFormed

-----------------------------------------------------------------------------
\* A step replaces one thread's job by another one that is in order.
LEMMA JobStep ==
    ASSUME TypeOK, JobsOK, NEW t \in Threads, NEW j \in Job,
           j.at \in HoldsEntry => j.entry \in Entry,
           WellFormed(j.buf),
           job' = [job EXCEPT ![t] = j]
    PROVE  job' \in [Threads -> Job] /\ JobsOK'
BY DEF TypeOK, JobsOK

\* Moving a thread on, within a call that keeps what it holds.
LEMMA GotoOK ==
    ASSUME TypeOK, JobsOK, NEW t \in Threads, NEW l \in Labels, Goto(t, l),
           l \in HoldsEntry => job[t].at \in HoldsEntry
    PROVE  job' \in [Threads -> Job] /\ JobsOK'
<1>1. job[t] \in Job
  BY DEF TypeOK
<1>2. [job[t] EXCEPT !.at = l] \in Job
  BY <1>1 DEF Job
<1>3. job' = [job EXCEPT ![t] = [job[t] EXCEPT !.at = l]]
  BY DEF Goto
<1>4. /\ [job[t] EXCEPT !.at = l].at = l
      /\ [job[t] EXCEPT !.at = l].entry = job[t].entry
      /\ [job[t] EXCEPT !.at = l].buf = job[t].buf
  BY <1>1 DEF Job
<1>5. WellFormed(job[t].buf) /\ (l \in HoldsEntry => job[t].entry \in Entry)
  BY DEF JobsOK
<1> QED BY <1>2, <1>3, <1>4, <1>5, JobStep

\* The idle job is in order.
LEMMA NoJobOK == NoJob \in Job /\ NoJob.at \notin HoldsEntry /\ WellFormed(NoJob.buf)
BY WellFormedEmpty DEF NoJob, Job, Labels, Ops, HoldsEntry

\* A call returns.
LEMMA ReturnOK ==
    ASSUME TypeOK, JobsOK, NEW t \in Threads, Return(t)
    PROVE  job' \in [Threads -> Job] /\ JobsOK'
BY NoJobOK, JobStep DEF Return

\* The files and the plugins stay as they are.
LEMMA FrameOK ==
    ASSUME IInv, job' \in [Threads -> Job], JobsOK', kept' \subseteq Keys,
           cut' \subseteq Keys, walletData' \in [Wallets -> Data],
           UNCHANGED <<current, sessions, registered>>
    PROVE  IInv'
BY DEF IInv, TypeOK, CurrentOK, WellFormed, FileOf

\* An empty storage and idle threads.
LEMMA InitOK == Init => IInv
<1> SUFFICES ASSUME Init PROVE IInv
  OBVIOUS
<1>1. TypeOK
  BY NoJobOK DEF Init, TypeOK, FileOf, Absent, Data
<1>2. JobsOK
  BY NoJobOK DEF Init, JobsOK
<1>3. WellFormed(sessions.val) /\ CurrentOK
  BY WellFormedEmpty DEF Init, Absent, CurrentOK
<1> QED BY <1>1, <1>2, <1>3 DEF IInv

-----------------------------------------------------------------------------
\* The cut keys a crash or a failing write adds are keys.
LEMMA CutShortOK ==
    ASSUME IInv, NEW t \in Threads, job[t].at \in HoldsEntry
    PROVE  CutShort(t) \subseteq Keys
BY DEF IInv, JobsOK, CutShort, Entry

\* login and the restores begin with an entry, or with nothing read.
LEMMA StartOK ==
    ASSUME IInv, NEW t \in Threads,
           \/ \E w \in Wallets, k \in Keys, d \in BOOLEAN : StartLogin(t, w, k, d)
           \/ StartRestore(t) \/ StartRestoreAll(t)
           \/ \E d \in BOOLEAN : StartRestoreEntry(t, d)
           \/ \E k \in Keys, w \in Wallets : StartRestoreChain(t, k, w)
    PROVE  IInv'
<1> USE DEF IInv
<1>1. CASE \E w \in Wallets, k \in Keys, d \in BOOLEAN : StartLogin(t, w, k, d)
  <2>1. PICK w \in Wallets, k \in Keys, d \in BOOLEAN : StartLogin(t, w, k, d)
    BY <1>1
  <2> DEFINE e == [key |-> k, wallet |-> w, data |-> NoData, dflt |-> d]
             j == [NoJob EXCEPT !.at = "wallet", !.op = "login", !.asDefault = d,
                                !.entry = e]
  <2>2. e \in Entry
    BY DEF Entry, Data
  <2>3. j \in Job /\ j.entry \in Entry /\ j.buf = {}
    BY <2>2, NoJobOK DEF Job, NoJob, Labels, Ops
  <2>4. job' = [job EXCEPT ![t] = j]
    BY <2>1 DEF StartLogin
  <2>5. job' \in [Threads -> Job] /\ JobsOK'
    BY <2>3, <2>4, JobStep, WellFormedEmpty
  <2> QED BY <2>1, <2>5, FrameOK DEF StartLogin, files, history, TypeOK
<1>2. ASSUME NEW op \in {"restore", "restoreChain"}, NEW e \in Entry, NEW d \in BOOLEAN,
             job' = [job EXCEPT ![t] = RestoreJob(op, e, d)],
             UNCHANGED <<files, registered, walletData, history>>
      PROVE  IInv'
  <2>1. /\ RestoreJob(op, e, d) \in Job
        /\ RestoreJob(op, e, d).entry \in Entry
        /\ RestoreJob(op, e, d).buf = {}
    BY <1>2 DEF RestoreJob, NoJob, Job, Labels, Ops
  <2>2. job' \in [Threads -> Job] /\ JobsOK'
    BY <1>2, <2>1, JobStep, WellFormedEmpty
  <2> QED BY <1>2, <2>2, FrameOK DEF files, history, TypeOK
<1>3. CASE StartRestore(t)
  BY <1>2, <1>3 DEF StartRestore, CurrentOK
<1>4. CASE \E d \in BOOLEAN : StartRestoreEntry(t, d)
  <2>1. PICK d \in BOOLEAN : StartRestoreEntry(t, d)
    BY <1>4
  <2>2. PICK e \in Usable(sessions.val) : job' = [job EXCEPT ![t] = RestoreJob("restore", e, d)]
    BY <2>1 DEF StartRestoreEntry
  <2>3. e \in Entry
    BY <2>2 DEF Usable, TypeOK, FileOf
  <2> QED BY <1>2, <2>1, <2>2, <2>3 DEF StartRestoreEntry
<1>5. CASE \E k \in Keys, w \in Wallets : StartRestoreChain(t, k, w)
  <2>1. PICK k \in Keys, w \in Wallets : StartRestoreChain(t, k, w)
    BY <1>5
  <2>2. [key |-> k, wallet |-> w, data |-> NoData, dflt |-> FALSE] \in Entry
    BY DEF Entry, Data
  <2> QED BY <1>2, <2>1, <2>2 DEF StartRestoreChain
<1>6. CASE StartRestoreAll(t)
  <2> DEFINE j == [NoJob EXCEPT !.at = "next", !.op = "restoreAll",
                                !.todo = Usable(sessions.val)]
  <2>1. j \in Job /\ j.at = "next" /\ j.buf = {}
    BY DEF NoJob, Job, Labels, Ops, Usable, TypeOK, FileOf
  <2>2. job' = [job EXCEPT ![t] = j]
    BY <1>6 DEF StartRestoreAll
  <2>3. job' \in [Threads -> Job] /\ JobsOK'
    BY <2>1, <2>2, JobStep, WellFormedEmpty DEF HoldsEntry
  <2> QED BY <1>6, <2>3, FrameOK DEF StartRestoreAll, files, history, TypeOK
<1> QED BY <1>1, <1>3, <1>4, <1>5, <1>6

\* The wallet's answer becomes the entry that is to be kept.
LEMMA LoginOK ==
    ASSUME IInv, NEW t \in Threads, WalletLogin(t) \/ WalletLoginFails(t)
    PROVE  IInv'
<1> USE DEF IInv
<1>1. At(t, "wallet") /\ job[t].at \in HoldsEntry
  BY DEF WalletLogin, WalletLoginFails, At, HoldsEntry, Labels
<1>2. job[t].entry \in Entry
  BY <1>1 DEF JobsOK
<1>3. walletData' \in [Wallets -> Data]
  BY <1>2 DEF WalletLogin, WalletLoginFails, TypeOK, Entry, Data
<1>4. CASE WalletLogin(t)
  BY <1>1, <1>3, <1>4, GotoOK, FrameOK DEF WalletLogin, files, history, TypeOK, Labels
<1>5. CASE WalletLoginFails(t)
  BY <1>3, <1>5, ReturnOK, FrameOK DEF WalletLoginFails, files, history, TypeOK
<1> QED BY <1>4, <1>5

\* persistSession up to the merge: what is about to be written is well formed.
LEMMA PersistOK ==
    ASSUME IInv, NEW t \in Threads,
           Serialize(t) \/ OpenCurrent(t) \/ CloseCurrent(t) \/ ReadList(t)
    PROVE  IInv'
<1> USE DEF IInv
<1>1. job[t].at \in HoldsEntry /\ job[t] \in Job
  BY DEF Serialize, OpenCurrent, CloseCurrent, ReadList, At, HoldsEntry, Labels, TypeOK
<1>2. job[t].entry \in Entry /\ WellFormed(job[t].buf)
  BY <1>1 DEF JobsOK
<1>3. CASE Serialize(t)
  <2> DEFINE e == Serialized(job[t].entry.key, job[t].entry.wallet, job[t].asDefault)
             l == IF job[t].asDefault THEN "openCurrent" ELSE "readList"
             j == [job[t] EXCEPT !.entry = e, !.at = l]
  <2>1. e \in Entry
    BY <1>1, <1>2 DEF Serialized, Entry, TypeOK, Job
  <2>2. j \in Job /\ j.entry = e /\ j.buf = job[t].buf
    BY <1>1, <2>1 DEF Job, Labels
  <2>3. job' = [job EXCEPT ![t] = j]
    BY <1>3 DEF Serialize
  <2>4. job' \in [Threads -> Job] /\ JobsOK'
    BY <1>2, <2>1, <2>2, <2>3, JobStep
  <2> QED BY <1>3, <2>4, FrameOK DEF Serialize, files, history, TypeOK
<1>4. CASE OpenCurrent(t)
  <2>1. job' \in [Threads -> Job] /\ JobsOK'
    BY <1>1, <1>4, GotoOK DEF OpenCurrent, Labels
  <2> QED BY <1>4, <2>1
          DEF OpenCurrent, TypeOK, FileOf, Torn, CurrentOK, history
<1>5. CASE CloseCurrent(t)
  <2>1. job' \in [Threads -> Job] /\ JobsOK'
    BY <1>1, <1>5, GotoOK DEF CloseCurrent, Labels
  <2> QED BY <1>2, <1>5, <2>1
          DEF CloseCurrent, TypeOK, FileOf, Torn, Text, CurrentOK, history
<1>6. CASE ReadList(t)
  <2>1. CASE sessions.is = "torn"
    BY <1>1, <1>6, <2>1, ReturnOK, CutShortOK, FrameOK DEF ReadList, files, TypeOK
  <2>2. CASE sessions.is # "torn"
    <3> DEFINE m == Merge(sessions.val, job[t].entry)
               j == [job[t] EXCEPT !.buf = m, !.at = "openList"]
    <3>1. m \in SUBSET Entry /\ WellFormed(m)
      BY <1>2, MergeWellFormed DEF TypeOK, FileOf
    <3>2. j \in Job /\ j.entry = job[t].entry /\ j.buf = m
      BY <1>1, <3>1 DEF Job, Labels
    <3>3. job' = [job EXCEPT ![t] = j]
      BY <1>6, <2>2 DEF ReadList
    <3>4. job' \in [Threads -> Job] /\ JobsOK'
      BY <1>2, <3>1, <3>2, <3>3, JobStep
    <3> QED BY <1>6, <2>2, <3>4, FrameOK DEF ReadList, files, TypeOK
  <2> QED BY <2>1, <2>2
<1> QED BY <1>3, <1>4, <1>5, <1>6

\* FileSessionStorage::write puts a well-formed list in place, or leaves the file torn.
LEMMA WriteOK ==
    ASSUME IInv, NEW t \in Threads, OpenList(t) \/ CloseList(t) \/ WriteFails(t)
    PROVE  IInv'
<1> USE DEF IInv
<1>1. job[t].at \in HoldsEntry /\ job[t] \in Job
  BY DEF OpenList, CloseList, WriteFails, At, HoldsEntry, Labels, TypeOK
<1>2. job[t].entry \in Entry /\ WellFormed(job[t].buf)
  BY <1>1 DEF JobsOK
<1>3. CASE OpenList(t)
  <2>1. job' \in [Threads -> Job] /\ JobsOK'
    BY <1>1, <1>3, GotoOK DEF OpenList, Labels
  <2>2. sessions' \in FileOf(SUBSET Entry) /\ WellFormed(sessions'.val)
    BY <1>3, WellFormedEmpty DEF OpenList, Torn, FileOf
  <2> QED BY <1>3, <2>1, <2>2 DEF OpenList, TypeOK, CurrentOK, history
<1>4. CASE CloseList(t)
  <2>1. job' \in [Threads -> Job] /\ JobsOK'
    <3>1. CASE Goto(t, "next")
      BY <3>1, GotoOK DEF Labels, HoldsEntry
    <3>2. CASE Return(t)
      BY <3>2, ReturnOK
    <3> QED BY <1>4, <3>1, <3>2 DEF CloseList
  <2>2. sessions' \in FileOf(SUBSET Entry) /\ WellFormed(sessions'.val)
    BY <1>1, <1>2, <1>4, WellFormedEmpty DEF CloseList, Torn, Text, FileOf, Job
  <2>3. kept' \subseteq Keys /\ cut' \subseteq Keys
    BY <1>2, <1>4 DEF CloseList, TypeOK, history, Entry
  <2> QED BY <1>4, <2>1, <2>2, <2>3 DEF CloseList, TypeOK, CurrentOK
<1>5. CASE WriteFails(t)
  BY <1>1, <1>5, ReturnOK, CutShortOK, FrameOK DEF WriteFails, files, TypeOK
<1> QED BY <1>3, <1>4, <1>5

\* A restore holds entries of the list it read.
LEMMA RestoreOK ==
    ASSUME IInv, NEW t \in Threads,
           RestoreNext(t) \/ LookupNone(t) \/ LookupFails(t) \/ LookupFound(t)
    PROVE  IInv'
<1> USE DEF IInv
<1>1. job[t] \in Job
  BY DEF TypeOK
<1>2. CASE RestoreNext(t)
  <2>1. CASE Return(t)
    BY <1>2, <2>1, ReturnOK, FrameOK DEF RestoreNext, files, history, TypeOK
  <2>2. CASE ~Return(t)
    <3> DEFINE j(e) == [RestoreJob("restoreAll", e, TRUE) EXCEPT !.todo = job[t].todo \ {e}]
    <3>1. PICK e \in FirstOf(job[t].todo) : job' = [job EXCEPT ![t] = j(e)]
      BY <1>2, <2>2 DEF RestoreNext
    <3>2. e \in Entry
      BY <1>1, <3>1 DEF FirstOf, Job
    <3>3. j(e) \in Job /\ j(e).entry = e /\ j(e).buf = {}
      BY <1>1, <3>2 DEF RestoreJob, NoJob, Job, Labels, Ops
    <3>4. job' \in [Threads -> Job] /\ JobsOK'
      BY <3>1, <3>2, <3>3, JobStep, WellFormedEmpty
    <3> QED BY <1>2, <3>4, FrameOK DEF RestoreNext, files, history, TypeOK
  <2> QED BY <2>1, <2>2
<1>3. CASE LookupNone(t)
  <2>1. job' \in [Threads -> Job] /\ JobsOK'
    <3>1. CASE Goto(t, "next")
      BY <3>1, GotoOK DEF Labels, HoldsEntry
    <3>2. CASE Return(t)
      BY <3>2, ReturnOK
    <3> QED BY <1>3, <3>1, <3>2 DEF LookupNone
  <2> QED BY <1>3, <2>1, FrameOK DEF LookupNone, files, history, TypeOK
<1>4. CASE LookupFails(t)
  BY <1>4, ReturnOK, FrameOK DEF LookupFails, files, history, TypeOK
<1>5. CASE LookupFound(t)
  <2>1. job[t].at \in HoldsEntry
    BY <1>5 DEF LookupFound, At, HoldsEntry, Labels
  <2>2. job[t].entry \in Entry /\ WellFormed(job[t].buf)
    BY <2>1 DEF JobsOK
  <2>3. Matches(t) \subseteq Entry
    BY <2>2 DEF Matches, TypeOK, FileOf
  <2>4. PICK found \in FirstOf(Matches(t)) :
           /\ walletData' = [walletData EXCEPT
                  ![found.wallet] = RestoredData(found, job[t].entry)]
           /\ job' = [job EXCEPT ![t].entry = found, ![t].at = "serialize"]
    BY <1>5 DEF LookupFound
  <2>5. found \in Entry
    BY <2>3, <2>4 DEF FirstOf
  <2>6. walletData' \in [Wallets -> Data]
    BY <2>2, <2>4, <2>5 DEF RestoredData, Entry, TypeOK
  <2> DEFINE j == [job[t] EXCEPT !.entry = found, !.at = "serialize"]
  <2>7. j \in Job /\ j.entry = found /\ j.buf = job[t].buf
    BY <1>1, <2>5 DEF Job, Labels
  <2>8. job' = [job EXCEPT ![t] = j]
    BY <2>4
  <2>9. job' \in [Threads -> Job] /\ JobsOK'
    BY <2>2, <2>5, <2>7, <2>8, JobStep
  <2> QED BY <1>5, <2>6, <2>9, FrameOK DEF LookupFound, files, history, TypeOK
<1> QED BY <1>2, <1>3, <1>4, <1>5

\* A logout writes a well-formed list without the entry, or removes both files.
LEMMA LogoutOK ==
    ASSUME IInv, NEW t \in Threads,
           \/ \E k \in Keys, w \in Wallets : StartLogout(t, k, w)
           \/ WalletLogout(t) \/ ReadLogout(t)
           \/ StartLogoutAll(t) \/ ReadAll(t) \/ RemoveAll(t)
    PROVE  IInv'
<1> USE DEF IInv
<1>1. job[t] \in Job
  BY DEF TypeOK
<1>2. CASE \E k \in Keys, w \in Wallets : StartLogout(t, k, w)
  <2>1. PICK k \in Keys, w \in Wallets : StartLogout(t, k, w)
    BY <1>2
  <2> DEFINE e == [key |-> k, wallet |-> w, data |-> NoData, dflt |-> FALSE]
             l == IF w \in registered \cap HasLogout THEN "walletLogout" ELSE "readLogout"
             j == [NoJob EXCEPT !.op = "logout", !.at = l, !.entry = e]
  <2>2. e \in Entry
    BY DEF Entry, Data
  <2>3. j \in Job /\ j.entry = e /\ j.buf = {}
    BY <2>2 DEF NoJob, Job, Labels, Ops
  <2>4. job' = [job EXCEPT ![t] = j]
    BY <2>1 DEF StartLogout
  <2>5. job' \in [Threads -> Job] /\ JobsOK'
    BY <2>2, <2>3, <2>4, JobStep, WellFormedEmpty
  <2> QED BY <2>1, <2>5 DEF StartLogout, TypeOK, FileOf, Absent, CurrentOK
<1>3. CASE WalletLogout(t)
  <2>1. job' \in [Threads -> Job] /\ JobsOK'
    <3>1. CASE Goto(t, "readLogout")
      BY <1>3, <3>1, GotoOK DEF WalletLogout, At, Labels, HoldsEntry
    <3>2. CASE Return(t)
      BY <3>2, ReturnOK
    <3> QED BY <1>3, <3>1, <3>2 DEF WalletLogout
  <2> QED BY <1>3, <2>1, FrameOK DEF WalletLogout, files, history, TypeOK
<1>4. CASE ReadLogout(t)
  <2>1. CASE sessions.is = "torn"
    BY <1>4, <2>1, ReturnOK, FrameOK DEF ReadLogout, files, TypeOK
  <2>2. CASE sessions.is # "torn"
    <3> DEFINE m == {e \in Usable(sessions.val) : e.key # job[t].entry.key}
               j == [job[t] EXCEPT !.at = "openList", !.buf = m]
    <3>1. m \in SUBSET sessions.val
      BY DEF Usable
    <3>2. m \in SUBSET Entry /\ WellFormed(m)
      BY <3>1, WellFormedSubset DEF TypeOK, FileOf
    <3>3. j \in Job /\ j.entry = job[t].entry /\ j.buf = m
      BY <1>1, <3>2 DEF Job, Labels
    <3>4. job' = [job EXCEPT ![t] = j]
      BY <1>4, <2>2 DEF ReadLogout
    <3>5. job[t].entry \in Entry
      BY <1>4 DEF ReadLogout, At, JobsOK, HoldsEntry, Labels
    <3>6. job' \in [Threads -> Job] /\ JobsOK'
      BY <3>2, <3>3, <3>4, <3>5, JobStep
    <3>7. kept' \subseteq Keys
      BY <1>4, <2>2 DEF ReadLogout, TypeOK
    <3> QED BY <1>4, <3>6, <3>7, FrameOK DEF ReadLogout, files, TypeOK
  <2> QED BY <2>1, <2>2
<1>5. CASE StartLogoutAll(t)
  <2> DEFINE j == [NoJob EXCEPT !.at = "readAll", !.op = "logoutAll"]
  <2>1. j \in Job /\ j.at = "readAll" /\ j.buf = {}
    BY DEF NoJob, Job, Labels, Ops
  <2>2. job' = [job EXCEPT ![t] = j]
    BY <1>5 DEF StartLogoutAll
  <2>3. job' \in [Threads -> Job] /\ JobsOK'
    BY <2>1, <2>2, JobStep, WellFormedEmpty DEF HoldsEntry
  <2> QED BY <1>5, <2>3 DEF StartLogoutAll, TypeOK, FileOf, Absent, CurrentOK
<1>6. CASE ReadAll(t)
  <2>1. job' \in [Threads -> Job] /\ JobsOK'
    BY <1>6, GotoOK, ReturnOK DEF ReadAll, Labels, HoldsEntry
  <2> QED BY <1>6, <2>1, FrameOK DEF ReadAll, files, history, TypeOK
<1>7. CASE RemoveAll(t)
  <2>1. job' \in [Threads -> Job] /\ JobsOK'
    BY <1>7, ReturnOK DEF RemoveAll
  <2> QED BY <1>7, <2>1, WellFormedEmpty
          DEF RemoveAll, TypeOK, FileOf, Absent, CurrentOK, history
<1> QED BY <1>2, <1>3, <1>4, <1>5, <1>6, <1>7

\* A crash drops the calls and keeps the files.
LEMMA RestartOK ==
    ASSUME IInv, Restart
    PROVE  IInv'
<1> USE DEF IInv
<1>1. job' \in [Threads -> Job] /\ JobsOK'
  BY NoJobOK DEF Restart, JobsOK
<1>2. ASSUME NEW t \in Threads, job[t].at \in {"readList", "openList", "closeList"}
      PROVE  CutShort(t) \subseteq Keys
  BY <1>2, CutShortOK DEF HoldsEntry, Labels
<1>3. cut' \subseteq Keys
  BY <1>2 DEF Restart, TypeOK
<1>4. walletData' \in [Wallets -> Data]
  BY DEF Restart, Data
<1> QED BY <1>1, <1>3, <1>4 DEF Restart, files, TypeOK, CurrentOK, WellFormed, FileOf

LEMMA StepOK == IInv /\ [Next]_vars => IInv'
<1> SUFFICES ASSUME IInv, [Next]_vars PROVE IInv'
  OBVIOUS
<1>1. CASE Restart
  BY <1>1, RestartOK
<1>2. ASSUME NEW t \in Threads, Step(t)
      PROVE  IInv'
  <2>1. \A w \in Wallets : \A k \in Holds[w] : k \in Keys
    BY KitAssumption
  <2>2. CASE \E w \in Wallets : \E k \in Holds[w], d \in BOOLEAN : StartLogin(t, w, k, d)
    <3>1. \E w \in Wallets, k \in Keys, d \in BOOLEAN : StartLogin(t, w, k, d)
      BY <2>1, <2>2
    <3> QED
      BY <3>1, StartOK
  <2>3. CASE \E w \in Wallets : \E k \in Holds[w] : StartRestoreChain(t, k, w)
    <3>1. \E k \in Keys, w \in Wallets : StartRestoreChain(t, k, w)
      BY <2>1, <2>3
    <3> QED
      BY <3>1, StartOK
  <2>4. CASE \E w \in Wallets : \E k \in Holds[w] : StartLogout(t, k, w)
    <3>1. \E k \in Keys, w \in Wallets : StartLogout(t, k, w)
      BY <2>1, <2>4
    <3> QED
      BY <3>1, LogoutOK
  <2> QED
    BY <1>2, <2>2, <2>3, <2>4, StartOK, LoginOK, PersistOK, WriteOK, RestoreOK, LogoutOK
    DEF Step
<1>3. CASE UNCHANGED vars
  BY <1>3 DEF vars, files, history, IInv, TypeOK, JobsOK, CurrentOK, WellFormed, FileOf
<1> QED BY <1>1, <1>2, <1>3 DEF Next

\* The types of the files, the plugins and the calls in flight hold throughout.
THEOREM TypeCorrect == Spec => []TypeOK
<1>1. IInv => TypeOK
  BY DEF IInv
<1> QED BY <1>1, InitOK, StepOK, PTL DEF Spec

\* persistSession and the logouts keep the stored list free of duplicate
\* accounts and of two defaults on a chain, however many threads call the kit
\* and wherever the process stops.
THEOREM ListAlwaysWellFormed == Spec => []ListWellFormed
<1>1. IInv => ListWellFormed
  BY DEF IInv, ListWellFormed
<1> QED BY <1>1, InitOK, StepOK, PTL DEF Spec

-----------------------------------------------------------------------------
(* One call at a time                                                      *)

\* The application calls the kit from one thread only.
OneCaller == \E t : Threads = {t}

\* The calls that persist a session, and those that only forget some.
Persisting == {"openCurrent", "closeCurrent", "readList", "openList", "closeList"}

OpOK(j) ==
    /\ j.op = "logout" => j.at \in {"walletLogout", "readLogout", "openList", "closeList"}
    /\ j.op \in {"none", "logoutAll"} => j.at \in {"idle", "readAll", "removeAll"}
    /\ j.at \in {"walletLogout", "readLogout"} => j.op = "logout"
    /\ j.at \in {"openCurrent", "closeCurrent"} => j.asDefault

\* Wallet data signs for the account it is stored with, also on its way to the file.
OwnList(list) == \A e \in list : e.data = e.key

OwnJob(j) ==
    /\ OwnList(j.buf) /\ OwnList(j.todo)
    /\ j.at = "lookup" => j.entry.data = IF j.op = "restoreChain" THEN NoData ELSE j.entry.key
    /\ j.at = "serialize" => walletData[j.entry.wallet] = j.entry.key
    /\ j.at \in Persisting /\ j.op # "logout" => j.entry.data = j.entry.key

OwnOK ==
    /\ OwnList(sessions.val)
    /\ current.is = "text" => current.val.data = current.val.key
    /\ \A t \in Threads : OwnJob(job[t])

\* The list about to be written has every session kept and the new one, and a list
\* that does not parse is not written again.
ListJob(j) ==
    /\ j.at \in {"openList", "closeList"} =>
        /\ kept \subseteq KeysOf(j.buf)
        /\ j.op # "logout" => j.entry.key \in KeysOf(j.buf)
    /\ j.at \in {"openList", "removeAll"} => sessions.is # "torn"
    /\ j.at = "closeList" => sessions.is = "torn"
    /\ j.at \in {"walletLogout", "readLogout"} => j.entry.key \notin kept
    /\ j.at \in {"readAll", "removeAll"} => kept = {}

ListOK == KeptIsListed /\ \A t \in Threads : ListJob(job[t])

\* The session "session" names is in the list, in the list about to be written, or
\* the one being persisted; a logout removed it first.
NamedJob(t) ==
    /\ job[t].op = "logout" \/ job[t].at \in {"readAll", "removeAll"} => current.is # "text"
    /\ job[t].at = "closeCurrent" => current.is # "text"
    /\ job[t].at = "openList" /\ job[t].op # "logout" =>
        KeysOf(sessions.val) \subseteq KeysOf(job[t].buf)
    /\ job[t].at = "closeList" /\ current.is = "text" =>
        current.val.key \in KeysOf(job[t].buf) \cup cut
    /\ job[t].at # "closeList" /\ current.is = "text" /\ sessions.is # "torn" =>
        \/ current.val.key \in KeysOf(sessions.val) \cup cut
        \/ job[t].at \in {"readList", "openList"} /\ current.val.key \in CutShort(t)

Alone ==
    /\ OwnOK
    /\ ListOK
    /\ \A t \in Threads : OpOK(job[t]) /\ NamedJob(t)

\* With one caller it is enough to look at the thread that moves.
LEMMA JustOne ==
    ASSUME OneCaller, NEW t \in Threads,
           OwnList(sessions'.val), current'.is = "text" => current'.val.data = current'.val.key,
           OwnJob(job[t])', KeptIsListed', ListJob(job[t])', OpOK(job[t])', NamedJob(t)'
    PROVE  Alone'
<1>1. \A u \in Threads : u = t
  BY DEF OneCaller
<1> QED
  BY <1>1 DEF Alone, OwnOK, ListOK

\* What is known of the job that moves and of the files.
LEMMA OfOne ==
    ASSUME IInv, Alone, NEW t \in Threads
    PROVE  /\ OwnList(sessions.val)
           /\ current.is = "text" => current.val.data = current.val.key
           /\ OwnJob(job[t]) /\ KeptIsListed /\ ListJob(job[t]) /\ OpOK(job[t]) /\ NamedJob(t)
           /\ job[t] \in Job /\ job \in [Threads -> Job]
           /\ job[t].at \in HoldsEntry => job[t].entry \in Entry
  BY DEF IInv, TypeOK, JobsOK, Alone, OwnOK, ListOK

\* A call goes on with what it has, or returns.
LEMMA MovesOn ==
    ASSUME IInv, NEW t \in Threads, NEW l
    PROVE  /\ Goto(t, l) => /\ job'[t].at = l /\ job'[t].op = job[t].op
                            /\ job'[t].entry = job[t].entry
                            /\ job'[t].asDefault = job[t].asDefault
                            /\ job'[t].buf = job[t].buf /\ job'[t].todo = job[t].todo
           /\ Return(t) => job'[t] = NoJob
<1>1. job[t] \in Job /\ job \in [Threads -> Job]
  BY DEF IInv, TypeOK
<1> QED
  BY <1>1 DEF Goto, Return, Job

\* The idle job owes nothing.
LEMMA IdleOwes ==
    ASSUME NEW t \in Threads, job'[t] = NoJob
    PROVE  OwnJob(job[t])' /\ ListJob(job[t])' /\ OpOK(job[t])'
  BY DEF NoJob, OwnJob, OwnList, ListJob, OpOK, Persisting

\* A call that begins or ends leaves the files alone.
LEMMA AloneStarts ==
    ASSUME IInv, OneCaller, Alone, NEW t \in Threads,
           \/ \E w \in Wallets, k \in Keys, d \in BOOLEAN : StartLogin(t, w, k, d)
           \/ StartRestore(t) \/ StartRestoreAll(t)
           \/ \E d \in BOOLEAN : StartRestoreEntry(t, d)
           \/ \E k \in Keys, w \in Wallets : StartRestoreChain(t, k, w)
    PROVE  Alone'
<1> USE OfOne
<1>0. DOMAIN job = Threads
  BY DEF IInv, TypeOK
<1>1. UNCHANGED <<current, sessions, kept, cut>> /\ job[t].at = "idle"
  BY DEF StartLogin, StartRestore, StartRestoreAll, StartRestoreEntry, StartRestoreChain,
         files, history, At
<1>2. KeptIsListed'
  BY <1>1 DEF KeptIsListed
<1>3. /\ job'[t].at \in {"wallet", "lookup", "next"}
      /\ job'[t].op \in {"login", "restore", "restoreChain", "restoreAll"}
      /\ OwnList(job'[t].buf) /\ OwnList(job'[t].todo)
      /\ job'[t].at = "lookup" =>
            job'[t].entry.data = IF job'[t].op = "restoreChain" THEN NoData ELSE job'[t].entry.key
  <2>1. CASE \E w \in Wallets, k \in Keys, d \in BOOLEAN : StartLogin(t, w, k, d)
    <3>1. PICK w \in Wallets, k \in Keys, d \in BOOLEAN :
            job' = [job EXCEPT ![t] = [NoJob EXCEPT !.at = "wallet", !.op = "login", !.asDefault = d,
                       !.entry = [key |-> k, wallet |-> w, data |-> NoData, dflt |-> d]]]
      BY <2>1 DEF StartLogin
    <3>2. /\ job'[t].at = "wallet" /\ job'[t].op = "login"
          /\ job'[t].buf = {} /\ job'[t].todo = {}
      BY <1>0, <3>1 DEF NoJob
    <3> QED
      BY <3>2 DEF OwnList
  <2>2. CASE StartRestore(t)
    BY <1>0, <2>2 DEF StartRestore, RestoreJob, NoJob, OwnList
  <2>3. CASE StartRestoreAll(t)
    BY <1>0, <2>3 DEF StartRestoreAll, NoJob, OwnList, Usable
  <2>4. CASE \E d \in BOOLEAN : StartRestoreEntry(t, d)
    <3>1. PICK d \in BOOLEAN, e \in Usable(sessions.val) :
            job' = [job EXCEPT ![t] = RestoreJob("restore", e, d)]
      BY <2>4 DEF StartRestoreEntry
    <3>2. e.data = e.key
      BY DEF Usable, OwnList
    <3> QED
      BY <3>1, <3>2 DEF RestoreJob, NoJob, OwnList
  <2>5. CASE \E k \in Keys, w \in Wallets : StartRestoreChain(t, k, w)
    <3>1. PICK k \in Keys, w \in Wallets :
            job' = [job EXCEPT ![t] = RestoreJob("restoreChain",
                       [key |-> k, wallet |-> w, data |-> NoData, dflt |-> FALSE], TRUE)]
      BY <2>5 DEF StartRestoreChain
    <3> QED
      BY <3>1 DEF RestoreJob, NoJob, OwnList
  <2> QED
    BY <2>1, <2>2, <2>3, <2>4, <2>5
<1>4. OwnJob(job[t])' /\ ListJob(job[t])' /\ OpOK(job[t])'
  BY <1>3 DEF OwnJob, ListJob, OpOK, Persisting
<1>5. NamedJob(t)'
  BY <1>1, <1>3 DEF NamedJob
<1> QED
  BY <1>1, <1>2, <1>4, <1>5, JustOne

\* The wallet leaves in the plugin the data of the account it signs for.
LEMMA AloneLogin ==
    ASSUME IInv, OneCaller, Alone, NEW t \in Threads, WalletLogin(t) \/ WalletLoginFails(t)
    PROVE  Alone'
<1> USE OfOne
<1>1. UNCHANGED <<current, sessions, kept, cut>> /\ job[t].at = "wallet"
  BY DEF WalletLogin, WalletLoginFails, files, history, At
<1>2. KeptIsListed'
  BY <1>1 DEF KeptIsListed
<1>3. CASE WalletLogin(t)
  <2>1. /\ job'[t].at = "serialize" /\ job'[t].op = job[t].op /\ job'[t].entry = job[t].entry
        /\ job'[t].buf = job[t].buf /\ job'[t].todo = job[t].todo
    BY <1>3, MovesOn DEF WalletLogin
  <2>2. job[t].entry \in Entry
    BY <1>1 DEF HoldsEntry, Labels
  <2>3. walletData'[job[t].entry.wallet] = job[t].entry.key
    BY <1>3, <2>2 DEF WalletLogin, IInv, TypeOK, Entry
  <2>4. OwnJob(job[t])' /\ ListJob(job[t])' /\ OpOK(job[t])' /\ NamedJob(t)'
    BY <1>1, <2>1, <2>3 DEF OwnJob, ListJob, OpOK, NamedJob, Persisting
  <2> QED
    BY <1>1, <1>2, <2>4, JustOne
<1>4. CASE WalletLoginFails(t)
  <2>1. job'[t] = NoJob
    BY <1>4, MovesOn DEF WalletLoginFails
  <2>2. NamedJob(t)'
    BY <1>1, <2>1 DEF NamedJob, NoJob
  <2> QED
    BY <1>1, <1>2, <2>1, <2>2, IdleOwes, JustOne
<1> QED
  BY <1>3, <1>4

\* What persistSession's merge makes of the list: its accounts and the new one, each
\* with the data it had.
LEMMA MergeKeeps ==
    ASSUME NEW L \in SUBSET Entry, NEW new \in Entry
    PROVE  /\ KeysOf(Merge(L, new)) = KeysOf(L) \cup {new.key}
           /\ OwnList(L) /\ new.data = new.key => OwnList(Merge(L, new))
<1>1. \A e \in L : Cleared(e, new).key = e.key /\ Cleared(e, new).data = e.data
  BY DEF Entry, Cleared
<1>2. KeysOf(Merge(L, new)) \subseteq KeysOf(L) \cup {new.key}
  BY <1>1 DEF Merge, KeysOf
<1>3. ASSUME NEW k \in KeysOf(L) PROVE k \in KeysOf(Merge(L, new))
  <2>1. PICK e \in L : k = e.key
    BY <1>3 DEF KeysOf
  <2>2. CASE k = new.key
    BY <2>2 DEF Merge, KeysOf
  <2>3. CASE k # new.key
    <3>1. Cleared(e, new) \in Merge(L, new)
      BY <2>1, <2>3 DEF Merge
    <3> QED
      BY <1>1, <2>1, <3>1 DEF KeysOf
  <2> QED
    BY <2>2, <2>3
<1>4. new.key \in KeysOf(Merge(L, new))
  BY DEF Merge, KeysOf
<1>5. OwnList(L) /\ new.data = new.key => OwnList(Merge(L, new))
  BY <1>1 DEF OwnList, Merge
<1> QED
  BY <1>2, <1>3, <1>4, <1>5

\* persistSession takes the data of the plugin, names the session in "session" and
\* reads the list it is merged into.
LEMMA AlonePersists ==
    ASSUME IInv, OneCaller, Alone, NEW t \in Threads,
           Serialize(t) \/ OpenCurrent(t) \/ CloseCurrent(t) \/ ReadList(t)
    PROVE  Alone'
<1> USE OfOne
<1>1. job[t].at \in {"serialize", "openCurrent", "closeCurrent", "readList"}
  BY DEF Serialize, OpenCurrent, CloseCurrent, ReadList, At
<1>2. job[t].entry \in Entry /\ job[t].op # "logout" /\ job[t].op \notin {"none", "logoutAll"}
  BY <1>1 DEF HoldsEntry, Labels, OpOK
<1>3. sessions' = sessions /\ kept' = kept /\ walletData' = walletData
  BY DEF Serialize, OpenCurrent, CloseCurrent, ReadList, files, history
<1>4. KeptIsListed'
  BY <1>3 DEF KeptIsListed
<1>5. CASE Serialize(t)
  <2> DEFINE e == Serialized(job[t].entry.key, job[t].entry.wallet, job[t].asDefault)
             l == IF job[t].asDefault THEN "openCurrent" ELSE "readList"
  <2>1. /\ job'[t].at = l /\ job'[t].entry = e /\ job'[t].op = job[t].op
        /\ job'[t].asDefault = job[t].asDefault
        /\ job'[t].buf = job[t].buf /\ job'[t].todo = job[t].todo
    BY <1>5 DEF Serialize, Job
  <2>2. e.data = e.key /\ e.key = job[t].entry.key
    BY <1>5 DEF Serialize, At, Serialized, OwnJob
  <2>3. current' = current /\ cut' = cut /\ job[t].at = "serialize"
    BY <1>5 DEF Serialize, files, history, At
  <2>4. OwnJob(job[t])' /\ ListJob(job[t])' /\ OpOK(job[t])'
    BY <1>2, <2>1, <2>2 DEF OwnJob, ListJob, OpOK, Persisting
  <2>5. NamedJob(t)'
    BY <1>2, <1>3, <2>1, <2>3 DEF NamedJob
  <2> QED
    BY <1>3, <1>4, <2>3, <2>4, <2>5, JustOne
<1>6. CASE OpenCurrent(t)
  <2>1. /\ job'[t].at = "closeCurrent" /\ job'[t].op = job[t].op
        /\ job'[t].entry = job[t].entry /\ job'[t].asDefault = job[t].asDefault
        /\ job'[t].buf = job[t].buf /\ job'[t].todo = job[t].todo
    BY <1>6, MovesOn DEF OpenCurrent
  <2>2. current'.is = "torn" /\ job[t].at = "openCurrent"
    BY <1>6 DEF OpenCurrent, Torn, At
  <2>3. OwnJob(job[t])' /\ ListJob(job[t])' /\ OpOK(job[t])'
    BY <1>2, <2>1, <2>2 DEF OwnJob, ListJob, OpOK, Persisting
  <2>4. NamedJob(t)'
    BY <2>1, <2>2 DEF NamedJob
  <2> QED
    BY <1>3, <1>4, <2>2, <2>3, <2>4, JustOne
<1>7. CASE CloseCurrent(t)
  <2>1. /\ job'[t].at = "readList" /\ job'[t].op = job[t].op
        /\ job'[t].entry = job[t].entry /\ job'[t].asDefault = job[t].asDefault
        /\ job'[t].buf = job[t].buf /\ job'[t].todo = job[t].todo
    BY <1>7, MovesOn DEF CloseCurrent
  <2>2. /\ job[t].at = "closeCurrent" /\ job[t].asDefault /\ cut' = cut
        /\ current'.is = "text" => current'.val = job[t].entry
    BY <1>7 DEF CloseCurrent, Torn, Text, At, OpOK, history
  <2>3. job[t].entry.data = job[t].entry.key
    BY <1>2, <2>2 DEF OwnJob, Persisting
  <2>4. OwnJob(job[t])' /\ ListJob(job[t])' /\ OpOK(job[t])'
    BY <1>2, <2>1, <2>3 DEF OwnJob, ListJob, OpOK, Persisting
  <2>5. current'.is = "text" => current'.val.key \in CutShort(t)'
    BY <2>1, <2>2 DEF CutShort
  <2>6. NamedJob(t)'
    BY <1>2, <2>1, <2>5 DEF NamedJob
  <2> QED
    BY <1>3, <1>4, <2>2, <2>3, <2>4, <2>6, JustOne
<1>8. CASE ReadList(t) /\ sessions.is = "torn"
  <2>1. job'[t] = NoJob /\ current' = current
    BY <1>8, MovesOn DEF ReadList, files
  <2>2. NamedJob(t)'
    BY <1>3, <1>8, <2>1 DEF NamedJob, NoJob
  <2> QED
    BY <1>3, <1>4, <2>1, <2>2, IdleOwes, JustOne
<1>9. CASE ReadList(t) /\ sessions.is # "torn"
  <2> DEFINE m == Merge(sessions.val, job[t].entry)
  <2>1. /\ job'[t].at = "openList" /\ job'[t].buf = m /\ job'[t].op = job[t].op
        /\ job'[t].entry = job[t].entry /\ job'[t].asDefault = job[t].asDefault
        /\ job'[t].todo = job[t].todo
    BY <1>9 DEF ReadList, Job
  <2>2. job[t].at = "readList" /\ current' = current /\ cut' = cut
    BY <1>9 DEF ReadList, At, files
  <2>3. job[t].entry.data = job[t].entry.key
    BY <1>2, <2>2 DEF OwnJob, Persisting
  <2>4. KeysOf(m) = KeysOf(sessions.val) \cup {job[t].entry.key} /\ OwnList(m)
    BY <1>2, <2>3, MergeKeeps DEF IInv, TypeOK, FileOf
  <2>5. kept \subseteq KeysOf(m)
    BY <1>9, <2>4 DEF KeptIsListed
  <2> HIDE DEF m
  <2>6. OwnJob(job[t])' /\ ListJob(job[t])' /\ OpOK(job[t])'
    BY <1>2, <1>3, <1>9, <2>1, <2>3, <2>4, <2>5 DEF OwnJob, ListJob, OpOK, Persisting
  <2>7. CutShort(t)' = CutShort(t)
    BY <2>1 DEF CutShort
  <2>8. NamedJob(t)'
    BY <1>2, <1>3, <2>1, <2>2, <2>4, <2>7 DEF NamedJob
  <2> QED
    BY <1>3, <1>4, <2>2, <2>6, <2>8, JustOne
<1> QED
  BY <1>5, <1>6, <1>7, <1>8, <1>9

\* The list is written, or its write fails on the way.
LEMMA AloneWrites ==
    ASSUME IInv, OneCaller, Alone, NEW t \in Threads,
           OpenList(t) \/ CloseList(t) \/ WriteFails(t)
    PROVE  Alone'
<1> USE OfOne
<1>1. CASE OpenList(t)
  <2>1. /\ job'[t].at = "closeList" /\ job'[t].op = job[t].op
        /\ job'[t].entry = job[t].entry /\ job'[t].asDefault = job[t].asDefault
        /\ job'[t].buf = job[t].buf /\ job'[t].todo = job[t].todo
    BY <1>1, MovesOn DEF OpenList
  <2>2. /\ job[t].at = "openList" /\ sessions' = [is |-> "torn", val |-> {}]
        /\ UNCHANGED <<current, kept, cut>>
    BY <1>1 DEF OpenList, At, Torn, history
  <2>3. OwnJob(job[t])' /\ ListJob(job[t])' /\ OpOK(job[t])'
    BY <2>1, <2>2 DEF OwnJob, ListJob, OpOK, Persisting
  <2>4. current.is = "text" => current.val.key \in KeysOf(job[t].buf) \cup cut
    <3>1. CutShort(t) \subseteq {job[t].entry.key}
      BY DEF CutShort
    <3> QED
      BY <2>2, <3>1 DEF NamedJob, ListJob
  <2>5. NamedJob(t)'
    BY <2>1, <2>2, <2>4 DEF NamedJob
  <2>6. OwnList(sessions'.val) /\ KeptIsListed'
    BY <2>2 DEF OwnList, KeptIsListed
  <2> QED
    BY <2>2, <2>3, <2>5, <2>6, JustOne
<1>2. CASE CloseList(t)
  <2>1. /\ job[t].at = "closeList" /\ current' = current
        /\ sessions' = Text(job[t].buf) \/ sessions' = Torn({})
    BY <1>2 DEF CloseList, At
  <2>2. OwnList(sessions'.val)
    BY <2>1 DEF OwnList, Text, Torn, OwnJob
  <2>3. CASE job[t].op = "logout"
    <3>1. job'[t] = NoJob /\ kept' = kept /\ cut' = cut
      BY <1>2, <2>3, MovesOn DEF CloseList, history
    <3>2. KeptIsListed'
      BY <2>1, <3>1 DEF KeptIsListed, Text, Torn, ListJob
    <3>3. NamedJob(t)'
      BY <2>1, <2>3, <3>1 DEF NamedJob, NoJob
    <3> QED
      BY <2>1, <2>2, <3>1, <3>2, <3>3, IdleOwes, JustOne
  <2>4. CASE job[t].op # "logout"
    <3>1. kept' = kept \cup {job[t].entry.key} /\ cut' = cut \ {job[t].entry.key}
      BY <1>2, <2>4 DEF CloseList
    <3>2. job[t].entry.key \in KeysOf(job[t].buf) /\ kept \subseteq KeysOf(job[t].buf)
      BY <2>1, <2>4 DEF ListJob
    <3>3. KeptIsListed'
      BY <2>1, <3>1, <3>2 DEF KeptIsListed, Text, Torn
    <3>4. /\ job'[t].at \in {"next", "idle"} /\ job'[t].op # "logout"
          /\ job'[t].op \in {"none", "logoutAll"} => job'[t].at = "idle"
          /\ OwnList(job'[t].buf) /\ OwnList(job'[t].todo)
      <4>1. CASE job[t].op = "restoreAll"
        BY <1>2, <4>1, MovesOn DEF CloseList, OwnJob
      <4>2. CASE job[t].op # "restoreAll"
        BY <1>2, <4>2, MovesOn DEF CloseList, NoJob, OwnList
      <4> QED
        BY <4>1, <4>2
    <3>5. OwnJob(job[t])' /\ ListJob(job[t])' /\ OpOK(job[t])'
      BY <3>4 DEF OwnJob, ListJob, OpOK, Persisting
    <3>6. current.is = "text" /\ sessions'.is # "torn" =>
            current.val.key \in KeysOf(sessions'.val) \cup cut'
      BY <2>1, <3>1, <3>2 DEF NamedJob, Text, Torn
    <3>7. NamedJob(t)'
      BY <2>1, <3>4, <3>6 DEF NamedJob
    <3> QED
      BY <2>1, <2>2, <3>3, <3>5, <3>7, JustOne
  <2> QED
    BY <2>3, <2>4
<1>3. CASE WriteFails(t)
  <2>1. /\ job[t].at \in {"openCurrent", "closeCurrent", "openList", "closeList"}
        /\ UNCHANGED <<current, sessions, kept>> /\ job'[t] = NoJob
    BY <1>3, MovesOn DEF WriteFails, At, files
  <2>2. KeptIsListed'
    BY <2>1 DEF KeptIsListed
  <2>3. /\ cut \subseteq cut'
        /\ job[t].op # "logout" /\ job[t].at = "openList" => CutShort(t) \subseteq cut'
    BY <1>3 DEF WriteFails
  <2>4. job[t].at = "closeList" => sessions.is = "torn"
    BY DEF ListJob
  <2>5. NamedJob(t)'
    BY <2>1, <2>3, <2>4 DEF NamedJob, NoJob
  <2> QED
    BY <2>1, <2>2, <2>5, IdleOwes, JustOne
<1> QED
  BY <1>1, <1>2, <1>3

\* restore finds a stored session, gives the plugin the data it was stored with, and
\* persists it again.
LEMMA AloneRestores ==
    ASSUME IInv, OneCaller, Alone, NEW t \in Threads,
           RestoreNext(t) \/ LookupNone(t) \/ LookupFails(t) \/ LookupFound(t)
    PROVE  Alone'
<1> USE OfOne
<1>1. UNCHANGED <<current, sessions, kept, cut>> /\ job[t].at \in {"next", "lookup"}
  BY DEF RestoreNext, LookupNone, LookupFails, LookupFound, files, history, At
<1>2. KeptIsListed'
  BY <1>1 DEF KeptIsListed
<1>3. job[t].op # "logout" /\ job[t].op \notin {"none", "logoutAll"}
  BY <1>1 DEF OpOK
<1>4. ASSUME job'[t].at \in {"next", "lookup", "serialize", "idle"}, job'[t].op # "logout"
      PROVE  NamedJob(t)'
  BY <1>1, <1>4 DEF NamedJob
<1>5. ASSUME job'[t] = NoJob PROVE Alone'
  <2>1. NamedJob(t)'
    BY <1>4, <1>5 DEF NoJob
  <2> QED
    BY <1>1, <1>2, <1>5, <2>1, IdleOwes, JustOne
<1>6. ASSUME Goto(t, "next") PROVE Alone'
  <2>1. /\ job'[t].at = "next" /\ job'[t].op = job[t].op
        /\ job'[t].buf = job[t].buf /\ job'[t].todo = job[t].todo
    BY <1>6, MovesOn
  <2>2. OwnJob(job[t])' /\ ListJob(job[t])' /\ OpOK(job[t])'
    BY <1>3, <2>1 DEF OwnJob, ListJob, OpOK, Persisting
  <2> QED
    BY <1>1, <1>2, <1>3, <1>4, <2>1, <2>2, JustOne
<1>7. CASE RestoreNext(t)
  <2>1. CASE Return(t)
    BY <1>5, <2>1, MovesOn
  <2>2. CASE ~Return(t)
    <3>1. PICK e \in FirstOf(job[t].todo) : job' = [job EXCEPT ![t] =
              [RestoreJob("restoreAll", e, TRUE) EXCEPT !.todo = job[t].todo \ {e}]]
      BY <1>7, <2>2 DEF RestoreNext
    <3>2. e.data = e.key
      BY DEF FirstOf, OwnJob, OwnList
    <3>3. /\ job'[t].at = "lookup" /\ job'[t].op = "restoreAll" /\ job'[t].entry = e
          /\ job'[t].buf = {} /\ job'[t].todo = job[t].todo \ {e}
      BY <3>1 DEF RestoreJob, NoJob
    <3>4. OwnJob(job[t])' /\ ListJob(job[t])' /\ OpOK(job[t])'
      BY <3>2, <3>3 DEF OwnJob, OwnList, ListJob, OpOK, Persisting
    <3> QED
      BY <1>1, <1>2, <1>4, <3>3, <3>4, JustOne
  <2> QED
    BY <2>1, <2>2
<1>8. CASE LookupNone(t)
  BY <1>5, <1>6, <1>8, MovesOn DEF LookupNone
<1>9. CASE LookupFails(t)
  BY <1>5, <1>9, MovesOn DEF LookupFails
<1>10. CASE LookupFound(t)
  <2>1. PICK found \in FirstOf(Matches(t)) :
           /\ walletData' = [walletData EXCEPT
                  ![found.wallet] = RestoredData(found, job[t].entry)]
           /\ job' = [job EXCEPT ![t].entry = found, ![t].at = "serialize"]
    BY <1>10 DEF LookupFound
  <2>2. job[t].at = "lookup" /\ job[t].entry \in Entry
    BY <1>10 DEF LookupFound, At, HoldsEntry, Labels
  <2>3. found \in Entry
    BY <2>1, <2>2 DEF FirstOf, Matches, IInv, TypeOK, FileOf
  <2>4. RestoredData(found, job[t].entry) = found.key
    <3>1. job[t].entry.data = IF job[t].op = "restoreChain" THEN NoData ELSE job[t].entry.key
      BY <2>2 DEF OwnJob
    <3>2. job[t].entry.key # NoData
      BY <2>2, KitAssumption DEF Entry
    <3>3. CASE job[t].op = "restoreChain"
      <4>1. found \in sessions.val
        BY <2>1, <3>3 DEF FirstOf, Matches
      <4> QED
        BY <3>1, <3>3, <4>1 DEF OwnList, RestoredData
    <3>4. CASE job[t].op # "restoreChain"
      <4>1. found.key = job[t].entry.key
        BY <2>1, <3>4 DEF FirstOf, Matches
      <4> QED
        BY <3>1, <3>2, <3>4, <4>1 DEF RestoredData
    <3> QED
      BY <3>3, <3>4
  <2>5. /\ job'[t].at = "serialize" /\ job'[t].entry = found /\ job'[t].op = job[t].op
        /\ job'[t].buf = job[t].buf /\ job'[t].todo = job[t].todo
    BY <2>1 DEF Job
  <2>6. walletData'[found.wallet] = found.key
    BY <2>1, <2>3, <2>4 DEF IInv, TypeOK, Entry
  <2>7. OwnJob(job[t])' /\ ListJob(job[t])' /\ OpOK(job[t])'
    BY <1>3, <2>5, <2>6 DEF OwnJob, ListJob, OpOK, Persisting
  <2> QED
    BY <1>1, <1>2, <1>3, <1>4, <2>5, <2>7, JustOne
<1> QED
  BY <1>7, <1>8, <1>9, <1>10

\* A logout removes "session" first and then what it was asked to forget.
LEMMA AloneLogsOut ==
    ASSUME IInv, OneCaller, Alone, NEW t \in Threads,
           \/ \E k \in Keys, w \in Wallets : StartLogout(t, k, w)
           \/ WalletLogout(t) \/ ReadLogout(t)
           \/ StartLogoutAll(t) \/ ReadAll(t) \/ RemoveAll(t)
    PROVE  Alone'
<1> USE OfOne
<1>1. current'.is # "text"
  <2>1. CASE (\E k \in Keys, w \in Wallets : StartLogout(t, k, w)) \/ StartLogoutAll(t)
    <3>1. current' = Absent(NoEntry)
      BY <2>1 DEF StartLogout, StartLogoutAll
    <3> QED
      BY <3>1 DEF Absent
  <2>2. CASE WalletLogout(t) \/ ReadLogout(t) \/ ReadAll(t) \/ RemoveAll(t)
    BY <2>2 DEF WalletLogout, ReadLogout, ReadAll, RemoveAll, At, files, NamedJob, OpOK
  <2> QED
    BY <2>1, <2>2
<1>2. ASSUME job'[t].at # "openList" \/ job'[t].op = "logout" PROVE NamedJob(t)'
  BY <1>1, <1>2 DEF NamedJob
<1>3. ASSUME job'[t] = NoJob, KeptIsListed', OwnList(sessions'.val) PROVE Alone'
  <2>1. NamedJob(t)'
    BY <1>2, <1>3 DEF NoJob
  <2> QED
    BY <1>1, <1>3, <2>1, IdleOwes, JustOne
<1>4. CASE \E k \in Keys, w \in Wallets : StartLogout(t, k, w)
  <2>1. PICK k \in Keys, w \in Wallets : StartLogout(t, k, w)
    BY <1>4
  <2>2. /\ job'[t].at \in {"walletLogout", "readLogout"} /\ job'[t].op = "logout"
        /\ job'[t].entry.key = k /\ job'[t].buf = {} /\ job'[t].todo = {}
    BY <2>1 DEF StartLogout, NoJob
  <2>3. sessions' = sessions /\ kept' = kept \ {k}
    BY <2>1 DEF StartLogout
  <2>4. OwnJob(job[t])' /\ ListJob(job[t])' /\ OpOK(job[t])'
    BY <2>2, <2>3 DEF OwnJob, OwnList, ListJob, OpOK, Persisting
  <2>5. KeptIsListed'
    BY <2>3 DEF KeptIsListed
  <2> QED
    BY <1>1, <1>2, <2>2, <2>3, <2>4, <2>5, JustOne
<1>5. CASE WalletLogout(t)
  <2>1. UNCHANGED <<sessions, kept>> /\ job[t].at = "walletLogout"
    BY <1>5 DEF WalletLogout, files, history, At
  <2>2. KeptIsListed'
    BY <2>1 DEF KeptIsListed
  <2>3. CASE Return(t)
    BY <1>3, <2>1, <2>2, <2>3, MovesOn
  <2>4. CASE Goto(t, "readLogout")
    <3>1. /\ job'[t].at = "readLogout" /\ job'[t].op = job[t].op
          /\ job'[t].entry = job[t].entry
          /\ job'[t].buf = job[t].buf /\ job'[t].todo = job[t].todo
      BY <2>4, MovesOn
    <3>2. OwnJob(job[t])' /\ ListJob(job[t])' /\ OpOK(job[t])'
      BY <2>1, <3>1 DEF OwnJob, ListJob, OpOK, Persisting
    <3> QED
      BY <1>1, <1>2, <2>1, <2>2, <3>1, <3>2, JustOne
  <2> QED
    BY <1>5, <2>3, <2>4 DEF WalletLogout
<1>6. CASE ReadLogout(t) /\ sessions.is = "torn"
  <2>1. UNCHANGED <<sessions, kept>> /\ job'[t] = NoJob
    BY <1>6, MovesOn DEF ReadLogout, files
  <2> QED
    BY <1>3, <2>1 DEF KeptIsListed
<1>7. CASE ReadLogout(t) /\ sessions.is # "torn"
  <2> DEFINE m == {e \in Usable(sessions.val) : e.key # job[t].entry.key}
  <2>1. /\ job'[t].at = "openList" /\ job'[t].buf = m /\ job'[t].op = job[t].op
        /\ job'[t].entry = job[t].entry /\ job'[t].todo = job[t].todo
    BY <1>7 DEF ReadLogout, Job
  <2>2. /\ job[t].at = "readLogout" /\ job[t].op = "logout" /\ sessions' = sessions
        /\ kept' = kept \ KeysOf(sessions.val \ Usable(sessions.val))
    BY <1>7 DEF ReadLogout, At, files, OpOK
  <2>3. kept' \subseteq KeysOf(m)
    <3> SUFFICES ASSUME NEW k \in kept' PROVE k \in KeysOf(m)
      OBVIOUS
    <3>1. PICK e \in sessions.val : e.key = k
      BY <1>7, <2>2 DEF KeptIsListed, KeysOf
    <3>2. e \in Usable(sessions.val)
      BY <2>2, <3>1 DEF KeysOf
    <3>3. k # job[t].entry.key
      BY <2>2 DEF ListJob
    <3> QED
      BY <3>1, <3>2, <3>3 DEF KeysOf
  <2>4. OwnList(m) /\ KeptIsListed'
    BY <2>2 DEF OwnList, Usable, KeptIsListed
  <2> HIDE DEF m
  <2>5. OwnJob(job[t])' /\ ListJob(job[t])' /\ OpOK(job[t])'
    BY <1>7, <2>1, <2>2, <2>3, <2>4 DEF OwnJob, ListJob, OpOK, Persisting
  <2> QED
    BY <1>1, <1>2, <2>1, <2>2, <2>4, <2>5, JustOne
<1>8. CASE StartLogoutAll(t)
  <2>1. /\ job'[t].at = "readAll" /\ job'[t].op = "logoutAll"
        /\ job'[t].buf = {} /\ job'[t].todo = {} /\ sessions' = sessions /\ kept' = {}
    BY <1>8 DEF StartLogoutAll, NoJob
  <2>2. OwnJob(job[t])' /\ ListJob(job[t])' /\ OpOK(job[t])' /\ KeptIsListed'
    BY <2>1 DEF OwnJob, OwnList, ListJob, OpOK, Persisting, KeptIsListed
  <2> QED
    BY <1>1, <1>2, <2>1, <2>2, JustOne
<1>9. CASE ReadAll(t)
  <2>1. UNCHANGED <<sessions, kept>> /\ job[t].at = "readAll"
    BY <1>9 DEF ReadAll, files, history, At
  <2>2. KeptIsListed'
    BY <2>1 DEF KeptIsListed
  <2>3. CASE sessions.is = "torn"
    BY <1>3, <1>9, <2>1, <2>2, <2>3, MovesOn DEF ReadAll
  <2>4. CASE sessions.is # "torn"
    <3>1. /\ job'[t].at = "removeAll" /\ job'[t].op = job[t].op
          /\ job'[t].buf = job[t].buf /\ job'[t].todo = job[t].todo
      BY <1>9, <2>4, MovesOn DEF ReadAll
    <3>2. OwnJob(job[t])' /\ ListJob(job[t])' /\ OpOK(job[t])'
      BY <2>1, <2>4, <3>1 DEF OwnJob, ListJob, OpOK, Persisting
    <3> QED
      BY <1>1, <1>2, <2>1, <2>2, <3>1, <3>2, JustOne
  <2> QED
    BY <2>3, <2>4
<1>10. CASE RemoveAll(t)
  <2>1. job'[t] = NoJob /\ sessions' = [is |-> "absent", val |-> {}] /\ kept' = kept /\ kept = {}
    BY <1>10, MovesOn DEF RemoveAll, Absent, At, history, ListJob
  <2>2. KeptIsListed' /\ OwnList(sessions'.val)
    BY <2>1 DEF KeptIsListed, OwnList
  <2> QED
    BY <1>3, <2>1, <2>2
<1> QED
  BY <1>4, <1>5, <1>6, <1>7, <1>8, <1>9, <1>10

\* A restart leaves the files and forgets the calls.
LEMMA AloneRestarts ==
    ASSUME IInv, Alone, Restart
    PROVE  Alone'
<1>1. UNCHANGED <<current, sessions, kept>> /\ \A t \in Threads : job'[t] = NoJob
  BY DEF Restart, files
<1>2. OwnList(sessions'.val) /\ (current'.is = "text" => current'.val.data = current'.val.key)
  BY <1>1 DEF Alone, OwnOK
<1>3. KeptIsListed'
  BY <1>1 DEF Alone, ListOK, KeptIsListed
<1>4. ASSUME NEW t \in Threads
      PROVE  OwnJob(job[t])' /\ ListJob(job[t])' /\ OpOK(job[t])' /\ NamedJob(t)'
  <2>1. job'[t] = NoJob
    BY <1>1
  <2>2. /\ cut \subseteq cut'
        /\ /\ job[t].op \notin {"none", "logout", "logoutAll"}
           /\ job[t].at \in {"readList", "openList", "closeList"}
           => CutShort(t) \subseteq cut'
    BY DEF Restart
  <2>3. NamedJob(t) /\ OpOK(job[t]) /\ ListJob(job[t])
    BY DEF Alone, ListOK
  <2>4. current.is = "text" /\ sessions.is # "torn" =>
            current.val.key \in KeysOf(sessions.val) \cup cut'
    BY <2>2, <2>3 DEF NamedJob, OpOK, ListJob
  <2>5. NamedJob(t)'
    BY <1>1, <2>1, <2>4 DEF NamedJob, NoJob
  <2> QED
    BY <2>1, <2>5, IdleOwes
<1> QED
  BY <1>2, <1>3, <1>4 DEF Alone, OwnOK, ListOK

\* Only the write of the list and the logout of all sessions change the list.
LEMMA ListWriters ==
    ASSUME IInv, NEW t \in Threads, Step(t), ~OpenList(t), ~CloseList(t), ~RemoveAll(t)
    PROVE  sessions' = sessions /\ (job[t].at # "closeList" => job'[t].at # "closeList")
<1> USE DEF files, history, NoJob, At
<1>1. job[t] \in Job /\ job \in [Threads -> Job]
  BY DEF IInv, TypeOK
<1>2. ASSUME NEW w, NEW k, NEW d, StartLogin(t, w, k, d)
      PROVE  sessions' = sessions /\ job'[t].at # "closeList"
  BY <1>1, <1>2 DEF StartLogin
<1>3. ASSUME NEW w, NEW k, StartRestoreChain(t, k, w)
      PROVE  sessions' = sessions /\ job'[t].at # "closeList"
  BY <1>1, <1>3 DEF StartRestoreChain, RestoreJob
<1>4. ASSUME NEW w, NEW k, StartLogout(t, k, w)
      PROVE  sessions' = sessions /\ job'[t].at # "closeList"
  BY <1>1, <1>4 DEF StartLogout
<1>5. ASSUME NEW d, StartRestoreEntry(t, d)
      PROVE  sessions' = sessions /\ job'[t].at # "closeList"
  <2>1. PICK e : job' = [job EXCEPT ![t] = RestoreJob("restore", e, d)]
    BY <1>5 DEF StartRestoreEntry
  <2> QED
    BY <1>1, <1>5, <2>1 DEF StartRestoreEntry, RestoreJob
<1>6. CASE RestoreNext(t)
  <2>1. CASE Return(t)
    BY <1>6, <2>1, MovesOn DEF RestoreNext
  <2>2. CASE ~Return(t)
    <3>1. PICK e : job' = [job EXCEPT ![t] =
                      [RestoreJob("restoreAll", e, TRUE) EXCEPT !.todo = job[t].todo \ {e}]]
      BY <1>6, <2>2 DEF RestoreNext
    <3> QED
      BY <1>1, <1>6, <3>1 DEF RestoreNext, RestoreJob
  <2> QED
    BY <2>1, <2>2
<1>7. CASE LookupFound(t) \/ Serialize(t) \/ ReadLogout(t) \/ ReadList(t)
  <2>1. CASE LookupFound(t)
    <3>1. PICK found : job' = [job EXCEPT ![t].entry = found, ![t].at = "serialize"]
      BY <2>1 DEF LookupFound
    <3> QED
      BY <1>1, <2>1, <3>1 DEF LookupFound, Job
  <2>2. CASE Serialize(t)
    BY <1>1, <2>2 DEF Serialize, Job
  <2>3. CASE ReadLogout(t)
    BY <1>1, <2>3, MovesOn DEF ReadLogout, Job
  <2>4. CASE ReadList(t)
    BY <1>1, <2>4, MovesOn DEF ReadList, Job
  <2> QED
    BY <1>7, <2>1, <2>2, <2>3, <2>4
<1>8. CASE WalletLogin(t) \/ WalletLoginFails(t) \/ OpenCurrent(t) \/ CloseCurrent(t)
           \/ WriteFails(t) \/ LookupNone(t) \/ LookupFails(t) \/ WalletLogout(t) \/ ReadAll(t)
  BY <1>8, MovesOn DEF WalletLogin, WalletLoginFails, OpenCurrent, CloseCurrent, WriteFails,
                       LookupNone, LookupFails, WalletLogout, ReadAll
<1>9. CASE StartRestore(t) \/ StartRestoreAll(t) \/ StartLogoutAll(t)
  BY <1>1, <1>9 DEF StartRestore, StartRestoreAll, StartLogoutAll, RestoreJob
<1> QED
  BY <1>2, <1>3, <1>4, <1>5, <1>6, <1>7, <1>8, <1>9 DEF Step

\* No thread has a call yet.
LEMMA AloneInit == Init => Alone
<1> SUFFICES ASSUME Init PROVE Alone
  OBVIOUS
<1>1. \A t \in Threads : job[t] = NoJob
  BY DEF Init
<1>2. OwnOK
  BY <1>1 DEF Init, OwnOK, OwnList, OwnJob, NoJob, Absent, Persisting
<1>3. ListOK
  BY <1>1 DEF Init, ListOK, ListJob, KeptIsListed, NoJob
<1>4. \A t \in Threads : OpOK(job[t]) /\ NamedJob(t)
  BY <1>1 DEF Init, OpOK, NamedJob, NoJob, Absent
<1> QED
  BY <1>2, <1>3, <1>4 DEF Alone

\* Every step keeps what holds of one call at a time.
LEMMA AloneNext == OneCaller /\ IInv /\ Alone /\ [Next]_vars => Alone'
<1> SUFFICES ASSUME OneCaller, IInv, Alone, [Next]_vars PROVE Alone'
  OBVIOUS
<1>1. CASE Restart
  BY <1>1, AloneRestarts
<1>2. ASSUME NEW t \in Threads, Step(t)
      PROVE  Alone'
  <2>1. \A w \in Wallets : \A k \in Holds[w] : k \in Keys
    BY KitAssumption
  <2>2. CASE \E w \in Wallets : \E k \in Holds[w], d \in BOOLEAN : StartLogin(t, w, k, d)
    <3>1. \E w \in Wallets, k \in Keys, d \in BOOLEAN : StartLogin(t, w, k, d)
      BY <2>1, <2>2
    <3> QED
      BY <3>1, AloneStarts
  <2>3. CASE \E w \in Wallets : \E k \in Holds[w] : StartRestoreChain(t, k, w)
    <3>1. \E k \in Keys, w \in Wallets : StartRestoreChain(t, k, w)
      BY <2>1, <2>3
    <3> QED
      BY <3>1, AloneStarts
  <2>4. CASE \E w \in Wallets : \E k \in Holds[w] : StartLogout(t, k, w)
    <3>1. \E k \in Keys, w \in Wallets : StartLogout(t, k, w)
      BY <2>1, <2>4
    <3> QED
      BY <3>1, AloneLogsOut
  <2> QED
    BY <1>2, <2>2, <2>3, <2>4, AloneStarts, AloneLogin, AlonePersists, AloneWrites,
       AloneRestores, AloneLogsOut
    DEF Step
<1>3. CASE UNCHANGED vars
  BY <1>3 DEF vars, files, history, Alone, OwnOK, OwnList, OwnJob, ListOK, ListJob,
              KeptIsListed, OpOK, NamedJob, CutShort
<1> QED
  BY <1>1, <1>2, <1>3 DEF Next

\* With one thread calling the kit, both invariants in every reachable state.
LEMMA AloneAlways ==
    ASSUME OneCaller
    PROVE  Spec => [](IInv /\ Alone)
<1>1. IInv /\ Alone /\ [Next]_vars => (IInv /\ Alone)'
  BY StepOK, AloneNext
<1> QED
  BY <1>1, InitOK, AloneInit, PTL DEF Spec

\* One plugin instance serves all its sessions with one data_, but persistSession reads
\* it right after login and restore set it (kit.cpp:378, 549-573): with one caller, no stored
\* session carries the wallet data of another account.
THEOREM OwnWalletDataAlways ==
    ASSUME OneCaller
    PROVE  Spec => []OwnWalletData
<1>1. Alone => OwnWalletData
  BY DEF Alone, OwnOK, OwnList, OwnWalletData
<1> QED
  BY <1>1, AloneAlways, PTL

\* With one caller, no other login, failed write, crash or restart under another build
\* takes a session out of the list that was not logged out.
THEOREM KeptIsListedAlways ==
    ASSUME OneCaller
    PROVE  Spec => []KeptIsListed
<1>1. Alone => KeptIsListed
  BY DEF Alone, ListOK
<1> QED
  BY <1>1, AloneAlways, PTL

\* With one caller, the session "session" names is one restore() finds in "sessions",
\* or the persist that named it was cut short.
THEOREM CurrentIsListedAlways ==
    ASSUME OneCaller
    PROVE  Spec => []CurrentIsListed
<1>1. Alone => CurrentIsListed
  <2> SUFFICES ASSUME Alone, \A t \in Threads : At(t, "idle"),
                      current.is = "text", sessions.is # "torn"
               PROVE  current.val.key \in KeysOf(sessions.val) \cup cut
    BY DEF CurrentIsListed
  <2>1. PICK t : t \in Threads
    BY DEF OneCaller
  <2>2. NamedJob(t) /\ job[t].at = "idle"
    BY <2>1 DEF Alone, At
  <2> QED
    BY <2>2 DEF NamedJob
<1> QED
  BY <1>1, AloneAlways, PTL

\* With one caller, a list that does not parse stays as it is: no call writes it again.
THEOREM TornListStaysAlways ==
    ASSUME OneCaller
    PROVE  Spec => TornListStays
<1>1. ASSUME IInv, Alone, [Next]_vars
      PROVE  sessions.is = "torn" /\ (\A t \in Threads : ~At(t, "closeList"))
               => sessions'.is = "torn" /\ \A t \in Threads : ~At(t, "closeList")'
  <2> SUFFICES ASSUME sessions.is = "torn", \A t \in Threads : job[t].at # "closeList"
               PROVE  sessions'.is = "torn" /\ \A t \in Threads : job'[t].at # "closeList"
    BY DEF At
  <2>1. CASE Restart \/ UNCHANGED vars
    BY <1>1, <2>1 DEF Restart, vars, files, NoJob
  <2>2. ASSUME NEW t \in Threads, Step(t)
        PROVE  sessions'.is = "torn" /\ \A u \in Threads : job'[u].at # "closeList"
    <3>1. \A u \in Threads : u = t
      BY DEF OneCaller
    <3>2. ~OpenList(t) /\ ~CloseList(t) /\ ~RemoveAll(t)
      BY <1>1 DEF OpenList, CloseList, RemoveAll, At, Alone, ListOK, ListJob
    <3> QED
      BY <1>1, <2>2, <3>1, <3>2, ListWriters
  <2> QED
    BY <1>1, <2>1, <2>2 DEF Next
<1> QED
  BY <1>1, AloneAlways, PTL DEF Spec, TornListStays
-----------------------------------------------------------------------------
(* The map of sessions that one caller sees *)

\* What one call knows of the list it is about to write, and of its plugin.
StoreJob(j) ==
    /\ j.at \in {"wallet", "serialize"} \cup Persisting /\ j.op # "logout" =>
        j.entry.wallet \in registered
    /\ j.at = "openList" =>
        j.buf = IF j.op = "logout" THEN {e \in Usable(sessions.val) : e.key # j.entry.key}
                ELSE Merge(sessions.val, j.entry)

StoreInv ==
    /\ sessions.is # "text" => sessions.val = {}
    /\ \A t \in Threads : StoreJob(job[t])

\* The map has what the list has of each account.
LEMMA MapFacts ==
    ASSUME NEW L, \A e, f \in L : e.key = f.key => e = f
    PROVE  /\ DOMAIN MapOf(L) = KeysOf(L)
           /\ \A e \in L : MapOf(L)[e.key] = [wallet |-> e.wallet, data |-> e.data]
<1>1. DOMAIN MapOf(L) = KeysOf(L)
  BY DEF MapOf
<1>2. ASSUME NEW e \in L
      PROVE  MapOf(L)[e.key] = [wallet |-> e.wallet, data |-> e.data]
  <2> DEFINE found == CHOOSE f \in L : f.key = e.key
  <2>1. found \in L /\ found.key = e.key
    OBVIOUS
  <2>2. found = e
    BY <2>1
  <2>3. e.key \in KeysOf(L)
    BY DEF KeysOf
  <2> QED
    BY <2>2, <2>3 DEF MapOf
<1> QED
  BY <1>1, <1>2

\* The merge adds the new session to the map, and leaves what the others have.
LEMMA MergeIsKeep ==
    ASSUME NEW L \in SUBSET Entry, NEW new \in Entry, WellFormed(L), new.data = new.key
    PROVE  /\ MapOf(Merge(L, new)) =
                  [a \in DOMAIN MapOf(L) \cup {new.key} |->
                       IF a = new.key THEN [wallet |-> new.wallet, data |-> new.key]
                       ELSE MapOf(L)[a]]
           /\ DefaultsOf(Merge(L, new)) =
                  {a \in DefaultsOf(L) : a[1] # new.key[1]}
                  \cup (IF new.dflt THEN {new.key} ELSE {})
<1> DEFINE M == Merge(L, new)
           map == [a \in DOMAIN MapOf(L) \cup {new.key} |->
                       IF a = new.key THEN [wallet |-> new.wallet, data |-> new.key]
                       ELSE MapOf(L)[a]]
<1>1. /\ \A e, f \in L : e.key = f.key => e = f
      /\ \A e, f \in M : e.key = f.key => e = f
  BY MergeWellFormed DEF WellFormed
<1>2. \A e \in L : /\ Cleared(e, new).key = e.key /\ Cleared(e, new).wallet = e.wallet
                   /\ Cleared(e, new).data = e.data
                   /\ Cleared(e, new).dflt = (e.dflt /\ e.key[1] # new.key[1])
  BY DEF Cleared, Entry, Chain
<1>3. /\ \A x \in M : x = new \/ \E e \in L : e.key # new.key /\ x = Cleared(e, new)
      /\ new \in M /\ \A e \in L : e.key # new.key => Cleared(e, new) \in M
  BY DEF Merge
<1>4. DOMAIN MapOf(M) = KeysOf(M) /\ KeysOf(M) = KeysOf(L) \cup {new.key} /\ DOMAIN MapOf(L) = KeysOf(L)
  BY <1>1, MapFacts, MergeKeeps
<1> HIDE DEF M
<1>5. ASSUME NEW a \in DOMAIN map
      PROVE  MapOf(M)[a] = map[a]
  <2>1. CASE a = new.key
    BY <1>1, <1>3, <2>1, MapFacts
  <2>2. CASE a # new.key
    <3>1. PICK e \in L : e.key = a
      BY <1>4, <2>2 DEF KeysOf
    <3>2. MapOf(L)[a] = [wallet |-> e.wallet, data |-> e.data]
      BY <1>1, <3>1, MapFacts
    <3>3. Cleared(e, new) \in M /\ Cleared(e, new).key = a
      BY <1>2, <1>3, <2>2, <3>1
    <3>4. MapOf(M)[a] = [wallet |-> Cleared(e, new).wallet, data |-> Cleared(e, new).data]
      BY <1>1, <3>3, MapFacts
    <3> QED
      BY <1>2, <2>2, <3>2, <3>4
  <2> QED
    BY <2>1, <2>2
<1>6. MapOf(M) = map
  <2>1. MapOf(M) = [a \in KeysOf(M) |-> MapOf(M)[a]]
    BY DEF MapOf
  <2> QED
    BY <1>4, <1>5, <2>1
<1>7. DefaultsOf(M) = {a \in DefaultsOf(L) : a[1] # new.key[1]}
                      \cup (IF new.dflt THEN {new.key} ELSE {})
  <2>1. ASSUME NEW a \in DefaultsOf(M)
        PROVE  \/ a \in DefaultsOf(L) /\ a[1] # new.key[1]
               \/ new.dflt /\ a = new.key
    <3>1. PICK x \in M : x.dflt /\ x.key = a
      BY DEF DefaultsOf
    <3>2. CASE x = new
      BY <3>1, <3>2
    <3>3. CASE \E e \in L : e.key # new.key /\ x = Cleared(e, new)
      BY <1>2, <3>1, <3>3 DEF DefaultsOf
    <3> QED
      BY <1>3, <3>2, <3>3
  <2>2. ASSUME NEW a \in DefaultsOf(L), a[1] # new.key[1]
        PROVE  a \in DefaultsOf(M)
    <3>1. PICK e \in L : e.dflt /\ e.key = a
      BY DEF DefaultsOf
    <3>2. Cleared(e, new) \in M /\ Cleared(e, new).dflt /\ Cleared(e, new).key = a
      BY <1>2, <1>3, <2>2, <3>1
    <3> QED
      BY <3>2 DEF DefaultsOf
  <2>3. new.dflt => new.key \in DefaultsOf(M)
    BY <1>3 DEF DefaultsOf
  <2> QED
    BY <2>1, <2>2, <2>3
<1> QED
  BY <1>6, <1>7 DEF M

\* What a logout leaves of a list, of a map and of its defaults.
ListLeft(L, ws, k) == {e \in {f \in L : f.wallet \in ws} : e.key # k}
MapLeft(map, ws, k) == [a \in {b \in DOMAIN map : b # k /\ map[b].wallet \in ws} |-> map[a]]
DefaultsLeft(keys, map, ws, k) == {a \in keys : a # k /\ map[a].wallet \in ws}

\* The filter of a logout takes sessions out of the map, and leaves the others.
LEMMA FilterIsForget ==
    ASSUME NEW L, WellFormed(L), NEW ws, NEW k
    PROVE  /\ MapOf(ListLeft(L, ws, k)) = MapLeft(MapOf(L), ws, k)
           /\ DefaultsOf(ListLeft(L, ws, k)) = DefaultsLeft(DefaultsOf(L), MapOf(L), ws, k)
<1> DEFINE M == ListLeft(L, ws, k)
           left == {b \in DOMAIN MapOf(L) : b # k /\ MapOf(L)[b].wallet \in ws}
<1>1. /\ \A e, f \in L : e.key = f.key => e = f
      /\ \A e, f \in M : e.key = f.key => e = f
  BY DEF WellFormed, ListLeft
<1>2. /\ \A e \in M : e \in L /\ e.wallet \in ws /\ e.key # k
      /\ \A e \in L : e.wallet \in ws /\ e.key # k => e \in M
  BY DEF ListLeft
<1> HIDE DEF M
<1>3. /\ DOMAIN MapOf(M) = KeysOf(M) /\ DOMAIN MapOf(L) = KeysOf(L)
      /\ \A e \in M : MapOf(M)[e.key] = [wallet |-> e.wallet, data |-> e.data]
      /\ \A e \in L : MapOf(L)[e.key] = [wallet |-> e.wallet, data |-> e.data]
  BY <1>1, MapFacts
<1>4. ASSUME NEW e \in L
      PROVE  MapOf(L)[e.key].wallet = e.wallet
  <2>1. MapOf(L)[e.key] = [wallet |-> e.wallet, data |-> e.data]
    BY <1>3
  <2> HIDE DEF left
  <2> QED
    BY <2>1
<1>5. KeysOf(M) = left
  <2>1. ASSUME NEW a \in KeysOf(M)
        PROVE  a \in left
    <3>1. PICK e \in M : e.key = a
      BY DEF KeysOf
    <3>2. e \in L /\ a \in KeysOf(L)
      BY <1>2, <3>1 DEF KeysOf
    <3> QED
      BY <1>2, <1>3, <1>4, <3>1, <3>2
  <2>2. ASSUME NEW a \in left
        PROVE  a \in KeysOf(M)
    <3>1. PICK e \in L : e.key = a
      BY <1>3 DEF KeysOf
    <3> QED
      BY <1>2, <1>4, <3>1 DEF KeysOf
  <2> QED
    BY <2>1, <2>2
<1>6. ASSUME NEW a \in left
      PROVE  MapOf(M)[a] = MapOf(L)[a]
  <2>1. PICK e \in M : e.key = a
    BY <1>5 DEF KeysOf
  <2> QED
    BY <1>2, <1>3, <2>1
<1>7. MapOf(M) = [a \in left |-> MapOf(L)[a]]
  <2>1. MapOf(M) = [a \in KeysOf(M) |-> MapOf(M)[a]]
    BY DEF MapOf
  <2> HIDE DEF left
  <2> QED
    BY <1>5, <1>6, <2>1
<1>8. DefaultsOf(M) = {a \in DefaultsOf(L) : a # k /\ MapOf(L)[a].wallet \in ws}
  <2>1. ASSUME NEW a \in DefaultsOf(M)
        PROVE  a \in DefaultsOf(L) /\ a # k /\ MapOf(L)[a].wallet \in ws
    <3>1. PICK e \in M : e.dflt /\ e.key = a
      BY DEF DefaultsOf
    <3> QED
      BY <1>2, <1>4, <3>1 DEF DefaultsOf
  <2>2. ASSUME NEW a \in DefaultsOf(L), a # k, MapOf(L)[a].wallet \in ws
        PROVE  a \in DefaultsOf(M)
    <3>1. PICK e \in L : e.dflt /\ e.key = a
      BY DEF DefaultsOf
    <3> QED
      BY <1>2, <1>4, <2>2, <3>1 DEF DefaultsOf
  <2> QED
    BY <2>1, <2>2
<1> QED
  BY <1>7, <1>8 DEF M, MapLeft, DefaultsLeft

\* The map of the empty list is the empty map.
LEMMA EmptyIsNothing == MapOf({}) = Store!Nothing /\ DefaultsOf({}) = {}
<1>1. KeysOf({}) = {}
  BY DEF KeysOf
<1> QED
  BY <1>1 DEF MapOf, DefaultsOf, Store!Nothing

\* The one call there is decides what is being written.
LEMMA OneWriter ==
    ASSUME OneCaller, NEW t \in Threads
    PROVE  /\ Writing = (job[t].at = "closeList")
           /\ ListNow = IF job[t].at = "closeList" THEN job[t].buf ELSE sessions.val
           /\ Writing' = (job'[t].at = "closeList")
           /\ ListNow' = IF job'[t].at = "closeList" THEN job'[t].buf ELSE sessions'.val
<1>1. \A u \in Threads : u = t
  BY DEF OneCaller
<1>2. Writing = (job[t].at = "closeList") /\ Writing' = (job'[t].at = "closeList")
  BY <1>1 DEF Writing, At
<1>3. /\ job[t].at = "closeList" =>
            UNION {job[u].buf : u \in {v \in Threads : At(v, "closeList")}} = job[t].buf
      /\ job'[t].at = "closeList" =>
            UNION {job'[u].buf : u \in {v \in Threads : job'[v].at = "closeList"}} = job'[t].buf
  BY <1>1 DEF At
<1> QED
  BY <1>2, <1>3 DEF ListNow, At

\* A step that leaves list, plugins and the caller's write alone is none of the map's.
LEMMA StoreStutters ==
    ASSUME ListNow' = ListNow, Writing' = Writing, sessions' = sessions, registered' = registered
    PROVE  UNCHANGED Store!storeVars
BY DEF Store!storeVars, MapOf, DefaultsOf, KeysOf

\* What one call knows survives its steps that begin no write.
LEMMA StoreCalls ==
    ASSUME IInv, Alone, StoreInv, NEW t \in Threads, Step(t),
           ~OpenList(t), ~CloseList(t), ~RemoveAll(t)
    PROVE  StoreJob(job[t])' /\ registered' = registered /\ sessions' = sessions
<1>1. sessions' = sessions
  BY ListWriters
<1> SUFFICES StoreJob(job[t])' /\ registered' = registered
  BY <1>1
<1> USE DEF files, history, At
<1>2. /\ StoreJob(job[t]) /\ OpOK(job[t]) /\ job[t] \in Job /\ job \in [Threads -> Job]
      /\ job[t].at \in HoldsEntry => job[t].entry \in Entry
  BY OfOne DEF StoreInv
<1>3. ASSUME NEW w, NEW k, NEW d, StartLogin(t, w, k, d)
      PROVE  StoreJob(job[t])' /\ registered' = registered
  BY <1>1, <1>2, <1>3 DEF StartLogin, NoJob, StoreJob, Persisting
<1>4. ASSUME job'[t].at \in {"idle", "lookup", "next", "walletLogout", "readLogout",
                              "readAll", "removeAll"}, registered' = registered
      PROVE  StoreJob(job[t])' /\ registered' = registered
  BY <1>4 DEF StoreJob, Persisting
<1>5. ASSUME NEW w, NEW k, StartRestoreChain(t, k, w) \/ StartLogout(t, k, w)
      PROVE  StoreJob(job[t])' /\ registered' = registered
  <2>1. job'[t].at \in {"lookup", "walletLogout", "readLogout"} /\ registered' = registered
    BY <1>2, <1>5 DEF StartRestoreChain, StartLogout, RestoreJob, NoJob
  <2> QED
    BY <1>4, <2>1
<1>6. ASSUME NEW d, StartRestoreEntry(t, d)
      PROVE  StoreJob(job[t])' /\ registered' = registered
  <2>1. PICK e : job' = [job EXCEPT ![t] = RestoreJob("restore", e, d)]
    BY <1>6 DEF StartRestoreEntry
  <2>2. job'[t].at = "lookup" /\ registered' = registered
    BY <1>2, <1>6, <2>1 DEF StartRestoreEntry, RestoreJob, NoJob
  <2> QED
    BY <1>4, <2>2
<1>7. CASE StartRestore(t) \/ StartRestoreAll(t) \/ StartLogoutAll(t)
  <2>1. job'[t].at \in {"lookup", "next", "readAll"} /\ registered' = registered
    BY <1>2, <1>7 DEF StartRestore, StartRestoreAll, StartLogoutAll, RestoreJob, NoJob
  <2> QED
    BY <1>4, <2>1
<1>8. CASE RestoreNext(t)
  <2>1. CASE Return(t)
    BY <1>4, <1>8, <2>1, MovesOn DEF RestoreNext, NoJob
  <2>2. CASE ~Return(t)
    <3>1. PICK e : job' = [job EXCEPT ![t] =
                      [RestoreJob("restoreAll", e, TRUE) EXCEPT !.todo = job[t].todo \ {e}]]
      BY <1>8, <2>2 DEF RestoreNext
    <3>2. job'[t].at = "lookup" /\ registered' = registered
      BY <1>2, <1>8, <3>1 DEF RestoreNext, RestoreJob, NoJob
    <3> QED
      BY <1>4, <3>2
  <2> QED
    BY <2>1, <2>2
<1>9. CASE LookupNone(t) \/ LookupFails(t) \/ WalletLogout(t) \/ ReadAll(t) \/ WriteFails(t)
           \/ WalletLoginFails(t)
  <2>1. job'[t].at \in {"idle", "next", "readLogout", "removeAll"} /\ registered' = registered
    BY <1>9, MovesOn DEF LookupNone, LookupFails, WalletLogout, ReadAll, WriteFails,
                         WalletLoginFails, NoJob
  <2> QED
    BY <1>4, <2>1
<1>10. CASE WalletLogin(t)
  BY <1>2, <1>10, MovesOn DEF WalletLogin, StoreJob, Persisting
<1>11. CASE LookupFound(t)
  <2>1. PICK found : /\ found.wallet \in registered
                     /\ job' = [job EXCEPT ![t].entry = found, ![t].at = "serialize"]
    BY <1>11 DEF LookupFound
  <2>2. job'[t].at = "serialize" /\ job'[t].entry = found /\ registered' = registered
    BY <1>2, <1>11, <2>1 DEF LookupFound, Job
  <2> QED
    BY <2>1, <2>2 DEF StoreJob, Persisting
<1>12. CASE Serialize(t)
  <2>1. /\ job'[t].at \in {"openCurrent", "readList"} /\ job'[t].op = job[t].op
        /\ job'[t].entry.wallet = job[t].entry.wallet /\ registered' = registered
    BY <1>2, <1>12 DEF Serialize, Serialized, Job
  <2> QED
    BY <1>2, <1>12, <2>1 DEF Serialize, StoreJob, Persisting
<1>13. CASE OpenCurrent(t) \/ CloseCurrent(t)
  <2>1. /\ job'[t].at \in {"closeCurrent", "readList"} /\ job'[t].op = job[t].op
        /\ job[t].at \in {"openCurrent", "closeCurrent"}
        /\ job'[t].entry = job[t].entry /\ registered' = registered
    BY <1>13, MovesOn DEF OpenCurrent, CloseCurrent
  <2> QED
    BY <1>2, <2>1 DEF StoreJob, Persisting
<1>14. CASE ReadList(t)
  <2>1. CASE Return(t)
    BY <1>4, <1>14, <2>1, MovesOn DEF ReadList, NoJob
  <2>2. CASE ~Return(t)
    <3>1. /\ job'[t].at = "openList" /\ job'[t].op = job[t].op /\ job'[t].entry = job[t].entry
          /\ job'[t].buf = Merge(sessions.val, job[t].entry)
          /\ job[t].at = "readList" /\ registered' = registered
      BY <1>2, <1>14, <2>2 DEF ReadList, Job
    <3>2. job[t].op # "logout"
      BY <1>2, <3>1 DEF OpOK
    <3>3. Merge(sessions', job'[t].entry) = Merge(sessions, job[t].entry)
      BY <1>1, <3>1
    <3> QED
      BY <1>1, <1>2, <3>1, <3>2 DEF StoreJob, Persisting, Merge, Cleared
  <2> QED
    BY <2>1, <2>2
<1>15. CASE ReadLogout(t)
  <2>1. CASE Return(t)
    BY <1>4, <1>15, <2>1, MovesOn DEF ReadLogout, NoJob
  <2>2. CASE ~Return(t)
    <3>1. /\ job'[t].at = "openList" /\ job'[t].op = job[t].op /\ job'[t].entry = job[t].entry
          /\ job'[t].buf = {e \in Usable(sessions.val) : e.key # job[t].entry.key}
          /\ job[t].at = "readLogout" /\ registered' = registered
      BY <1>2, <1>15, <2>2 DEF ReadLogout, Job
    <3>2. job[t].op = "logout"
      BY <1>2, <3>1 DEF OpOK
    <3> QED
      BY <1>1, <3>1, <3>2 DEF StoreJob, Usable
  <2> QED
    BY <2>1, <2>2
<1> QED
  BY <1>1, <1>3, <1>5, <1>6, <1>7, <1>8, <1>9, <1>10, <1>11, <1>12, <1>13, <1>14, <1>15 DEF Step

\* A call that returns knows nothing.
LEMMA IdleStores ==
    ASSUME NEW t \in Threads, job'[t].at \in {"idle", "next"}
    PROVE  StoreJob(job[t])'
BY DEF StoreJob, Persisting

\* The three steps that change the list.
LEMMA StoreWrites ==
    ASSUME IInv, Alone, StoreInv, NEW t \in Threads, OpenList(t) \/ CloseList(t) \/ RemoveAll(t)
    PROVE  StoreJob(job[t])' /\ registered' = registered /\ (sessions'.is # "text" => sessions'.val = {})
<1> USE DEF files, history, At
<1>1. StoreJob(job[t]) /\ job[t] \in Job /\ job \in [Threads -> Job]
  BY OfOne DEF StoreInv
<1>2. CASE OpenList(t)
  <2>1. /\ job'[t].at = "closeList" /\ job'[t].op = job[t].op /\ job'[t].entry = job[t].entry
        /\ job[t].at = "openList" /\ registered' = registered /\ sessions' = Torn({})
    BY <1>2, MovesOn DEF OpenList
  <2> QED
    BY <1>1, <2>1 DEF StoreJob, Persisting, Torn
<1>3. CASE CloseList(t)
  <2>1. job'[t].at \in {"idle", "next"} /\ registered' = registered
    BY <1>3, MovesOn DEF CloseList, NoJob
  <2>2. sessions'.is # "text" => sessions'.val = {}
    BY <1>3 DEF CloseList, Text, Torn
  <2> QED
    BY <2>1, <2>2, IdleStores
<1>4. CASE RemoveAll(t)
  BY <1>4, MovesOn, IdleStores DEF RemoveAll, NoJob, Absent
<1> QED
  BY <1>2, <1>3, <1>4

\* Every step keeps what one caller knows of the list.
LEMMA StoreInvNext == OneCaller /\ IInv /\ Alone /\ StoreInv /\ [Next]_vars => StoreInv'
<1> SUFFICES ASSUME OneCaller, IInv, Alone, StoreInv, [Next]_vars PROVE StoreInv'
  OBVIOUS
<1>1. CASE Restart
  <2>1. sessions' = sessions /\ \A t \in Threads : job'[t].at = "idle"
    BY <1>1 DEF Restart, files, NoJob
  <2> QED
    BY <2>1, IdleStores DEF StoreInv
<1>2. ASSUME NEW t \in Threads, Step(t)
      PROVE  StoreInv'
  <2>1. \A u \in Threads : u = t
    BY DEF OneCaller
  <2>2. CASE OpenList(t) \/ CloseList(t) \/ RemoveAll(t)
    BY <2>1, <2>2, StoreWrites DEF StoreInv
  <2>3. CASE ~OpenList(t) /\ ~CloseList(t) /\ ~RemoveAll(t)
    <3>1. StoreJob(job[t])' /\ sessions' = sessions
      BY <1>2, <2>3, StoreCalls
    <3> QED
      BY <2>1, <3>1 DEF StoreInv
  <2> QED
    BY <2>2, <2>3
<1>3. CASE UNCHANGED vars
  BY <1>3 DEF vars, files, history, StoreInv, StoreJob, Usable
<1> QED
  BY <1>1, <1>2, <1>3 DEF Next

-----------------------------------------------------------------------------
(* The map of sessions: every step is one of the map's, or none            *)

\* The truncation begins the write: a session is kept, or one is forgotten.
LEMMA WriteBegins ==
    ASSUME OneCaller, IInv, Alone, StoreInv, NEW t \in Threads, OpenList(t)
    PROVE  Store!Next
<1> DEFINE j == job[t]
           L == sessions.val
<1>1. /\ j.at = "openList" /\ job'[t].at = "closeList" /\ job'[t].buf = j.buf
      /\ registered' = registered /\ sessions' = Torn({})
  BY MovesOn DEF OpenList, At
<1>2. /\ StoreJob(j) /\ ListJob(j) /\ OwnJob(j) /\ j.entry \in Entry /\ sessions.is # "torn"
      /\ WellFormed(L) /\ L \in SUBSET Entry
  BY <1>1, OfOne DEF StoreInv, HoldsEntry, Labels, ListJob, IInv, TypeOK, FileOf
<1>3. /\ ~Writing /\ Writing' /\ ListNow = L /\ ListNow' = j.buf
  BY <1>1, OneWriter
<1>4. MapOf(ListNow)' = MapOf(j.buf) /\ DefaultsOf(ListNow)' = DefaultsOf(j.buf)
  BY <1>3 DEF MapOf, DefaultsOf, KeysOf
<1>5. CASE j.op = "logout"
  <2>1. j.buf = ListLeft(L, registered, j.entry.key)
    BY <1>1, <1>2, <1>5 DEF StoreJob, Usable, ListLeft
  <2>2. /\ MapOf(j.buf) = MapLeft(MapOf(L), registered, j.entry.key)
        /\ DefaultsOf(j.buf) = DefaultsLeft(DefaultsOf(L), MapOf(L), registered, j.entry.key)
    BY <1>2, <2>1, FilterIsForget
  <2>3. Store!Forget(j.entry.key) /\ j.entry.key \in Keys
    BY <1>1, <1>2, <1>3, <1>4, <2>2 DEF Store!Forget, MapLeft, DefaultsLeft, Entry, Torn
  <2> QED
    BY <2>3 DEF Store!Next
<1>6. CASE j.op # "logout"
  <2>1. j.buf = Merge(L, j.entry) /\ j.entry.data = j.entry.key /\ j.entry.wallet \in registered
    BY <1>1, <1>2, <1>6 DEF StoreJob, OwnJob, Persisting
  <2>2. /\ MapOf(j.buf) = [a \in DOMAIN MapOf(L) \cup {j.entry.key} |->
                               IF a = j.entry.key
                               THEN [wallet |-> j.entry.wallet, data |-> j.entry.key]
                               ELSE MapOf(L)[a]]
        /\ DefaultsOf(j.buf) = {a \in DefaultsOf(L) : a[1] # j.entry.key[1]}
                               \cup (IF j.entry.dflt THEN {j.entry.key} ELSE {})
    BY <1>2, <2>1, MergeIsKeep
  <2>3. Store!Keep(j.entry.key, j.entry.wallet, j.entry.dflt)
    BY <1>1, <1>2, <1>3, <1>4, <2>1, <2>2 DEF Store!Keep, Torn
  <2>4. j.entry.key \in Keys /\ j.entry.wallet \in Wallets /\ j.entry.dflt \in BOOLEAN
    BY <1>2 DEF Entry
  <2> QED
    BY <2>3, <2>4 DEF Store!Next
<1> QED
  BY <1>5, <1>6

\* What a write that is cut short leaves: a list that does not parse.
LEMMA WriteIsLost ==
    ASSUME Writing, ~Writing', ListNow' = {}, sessions'.is = "torn"
    PROVE  Store!Lost
<1>1. MapOf(ListNow)' = MapOf({}) /\ DefaultsOf(ListNow)' = DefaultsOf({})
  BY DEF MapOf, DefaultsOf, KeysOf
<1> QED
  BY <1>1, EmptyIsNothing DEF Store!Lost

\* The write ends well, or fails.
LEMMA WriteEnds ==
    ASSUME OneCaller, IInv, Alone, StoreInv, NEW t \in Threads, job[t].at = "closeList",
           CloseList(t) \/ WriteFails(t)
    PROVE  Store!Next
<1>1. /\ job'[t].at # "closeList" /\ registered' = registered
      /\ Writing /\ ~Writing' /\ ListNow = job[t].buf /\ ListNow' = sessions'.val
  <2>1. job'[t].at # "closeList" /\ registered' = registered
    BY MovesOn DEF CloseList, WriteFails, NoJob, files
  <2> QED
    BY <2>1, OneWriter
<1>2. sessions.is = "torn" /\ sessions.val = {}
  BY OfOne DEF ListJob, StoreInv
<1>3. CASE sessions' = Text(job[t].buf)
  <2>1. ListNow' = ListNow /\ sessions'.is = "text"
    BY <1>1, <1>3 DEF Text
  <2>2. MapOf(ListNow)' = MapOf(ListNow) /\ DefaultsOf(ListNow)' = DefaultsOf(ListNow)
    BY <2>1 DEF MapOf, DefaultsOf, KeysOf
  <2>3. Store!Written
    BY <1>1, <2>1, <2>2 DEF Store!Written
  <2> QED
    BY <2>3 DEF Store!Next
<1>4. CASE sessions' = Torn({}) \/ sessions' = sessions
  <2>1. sessions'.is = "torn" /\ sessions'.val = {}
    BY <1>2, <1>4 DEF Torn
  <2>2. Store!Lost
    BY <1>1, <2>1, WriteIsLost
  <2> QED
    BY <1>1, <2>2 DEF Store!Next, Store!Lose
<1> QED
  BY <1>3, <1>4 DEF CloseList, WriteFails, files

\* logout() of every session.
LEMMA AllForgotten ==
    ASSUME OneCaller, IInv, Alone, StoreInv, NEW t \in Threads, RemoveAll(t)
    PROVE  Store!Next
<1>1. /\ job[t].at = "removeAll" /\ job'[t].at # "closeList" /\ registered' = registered
      /\ sessions'.is = "absent" /\ sessions'.val = {} /\ sessions.is # "torn"
  BY MovesOn, OfOne DEF RemoveAll, At, NoJob, Absent, ListJob
<1>2. ~Writing /\ ~Writing' /\ ListNow' = {}
  BY <1>1, OneWriter
<1>3. MapOf(ListNow)' = MapOf({}) /\ DefaultsOf(ListNow)' = DefaultsOf({})
  BY <1>2 DEF MapOf, DefaultsOf, KeysOf
<1>4. Store!ForgetAll
  <2>1. Writing' = Writing /\ (Writing \/ sessions.is # "torn")' = (Writing \/ sessions.is # "torn")
    BY <1>1, <1>2, OneWriter
  <2> QED
    BY <1>1, <1>2, <1>3, <2>1, EmptyIsNothing DEF Store!ForgetAll
<1> QED
  BY <1>4 DEF Store!Next

\* The process starts again: a write it was in is lost.
LEMMA StoreRestarts ==
    ASSUME OneCaller, IInv, Alone, StoreInv, Restart
    PROVE  Store!Next
<1>1. PICK t : t \in Threads
  BY DEF OneCaller
<1>2. sessions' = sessions /\ registered' \in PluginSets /\ job'[t].at = "idle"
  BY <1>1 DEF Restart, files, NoJob
<1>3. ~Writing' /\ ListNow' = sessions.val /\ Writing = (job[t].at = "closeList")
  BY <1>1, <1>2, OneWriter
<1>4. CASE Writing
  <2>1. sessions.is = "torn" /\ sessions.val = {}
    BY <1>1, <1>3, <1>4, OfOne DEF ListJob, StoreInv
  <2>2. Store!Lost
    BY <1>2, <1>3, <1>4, <2>1, WriteIsLost
  <2> QED
    BY <1>2, <2>2 DEF Store!Next, Store!Restart
<1>5. CASE ~Writing
  <2>1. ListNow' = ListNow
    BY <1>1, <1>3, <1>5, OneWriter
  <2>2. MapOf(ListNow)' = MapOf(ListNow) /\ DefaultsOf(ListNow)' = DefaultsOf(ListNow)
    BY <2>1 DEF MapOf, DefaultsOf, KeysOf
  <2>3. Writing' = Writing /\ (Writing \/ sessions.is # "torn")' = (Writing \/ sessions.is # "torn")
    BY <1>1, <1>2, <1>3, <1>5, OneWriter
  <2> QED
    BY <1>2, <1>5, <2>2, <2>3 DEF Store!Next, Store!Restart
<1> QED
  BY <1>4, <1>5

LEMMA StoreNext ==
    ASSUME OneCaller, IInv, Alone, StoreInv, [Next]_vars
    PROVE  [Store!Next]_(Store!storeVars)
<1>1. ASSUME NEW t \in Threads, Step(t)
      PROVE  Store!Next \/ UNCHANGED Store!storeVars
  <2>1. CASE OpenList(t)
    BY <2>1, WriteBegins
  <2>2. CASE CloseList(t) \/ (WriteFails(t) /\ job[t].at = "closeList")
    BY <2>2, WriteEnds DEF CloseList, At
  <2>3. CASE RemoveAll(t)
    BY <2>3, AllForgotten
  <2>4. CASE /\ ~OpenList(t) /\ ~CloseList(t) /\ ~RemoveAll(t)
             /\ ~(WriteFails(t) /\ job[t].at = "closeList")
    <3>1. registered' = registered /\ sessions' = sessions
      BY <1>1, <2>4, StoreCalls
    <3>2. job[t].at # "closeList"
      BY <1>1, <2>4 DEF Step, StartLogin, WalletLogin, WalletLoginFails, Serialize, OpenCurrent,
            CloseCurrent, ReadList, StartRestore, StartRestoreAll, RestoreNext, StartRestoreEntry,
            StartRestoreChain, LookupNone, LookupFails, LookupFound, StartLogout, WalletLogout,
            ReadLogout, StartLogoutAll, ReadAll, At
    <3>3. job'[t].at # "closeList"
      BY <1>1, <2>4, <3>2, ListWriters
    <3>4. ListNow' = ListNow /\ Writing' = Writing
      BY <3>1, <3>2, <3>3, OneWriter
    <3> QED
      BY <3>1, <3>4, StoreStutters
  <2> QED
    BY <2>1, <2>2, <2>3, <2>4
<1>2. CASE UNCHANGED vars
  <2>1. UNCHANGED <<sessions, registered, job>>
    BY <1>2 DEF vars, files
  <2>2. ListNow' = ListNow /\ Writing' = Writing
    BY <2>1 DEF ListNow, Writing, At
  <2> QED
    BY <2>1, <2>2, StoreStutters
<1> QED
  BY <1>1, <1>2, StoreRestarts DEF Next

LEMMA StoreInit == OneCaller /\ Init => StoreInv /\ Store!Init
<1> SUFFICES ASSUME OneCaller, Init PROVE StoreInv /\ Store!Init
  OBVIOUS
<1>1. PICK t : t \in Threads
  BY DEF OneCaller
<1>2. /\ \A u \in Threads : job[u].at = "idle"
      /\ sessions.is = "absent" /\ sessions.val = {} /\ registered \in PluginSets
  BY DEF Init, NoJob, Absent
<1>3. StoreInv
  BY <1>2 DEF StoreInv, StoreJob, Persisting
<1>4. ~Writing /\ ListNow = {}
  BY <1>1, <1>2, OneWriter
<1> QED
  BY <1>2, <1>3, <1>4, EmptyIsNothing DEF Store!Init

\* With one caller, and whatever fails, is cut short or restarted under another build:
\* logins and restores, over a file that is read, merged, truncated and written, change the
\* stored sessions as one step on a map would (kit.cpp:378-447, storage.cpp:32).
THEOREM StoreImplemented ==
    ASSUME OneCaller
    PROVE  Spec => ImplementsStore
<1>1. IInv /\ Alone /\ StoreInv /\ [Next]_vars => (IInv /\ Alone /\ StoreInv)'
  BY StepOK, AloneNext, StoreInvNext
<1>2. Init => IInv /\ Alone /\ StoreInv /\ Store!Init
  BY InitOK, AloneInit, StoreInit
<1>3. IInv /\ Alone /\ StoreInv /\ [Next]_vars => [Store!Next]_(Store!storeVars)
  BY StoreNext
<1> QED
  BY <1>1, <1>2, <1>3, PTL DEF Spec, ImplementsStore, Store!Spec
=============================================================================
