----------------------------- MODULE SessionKit -----------------------------
(***************************************************************************)
(* SessionKit (src/session/kit.cpp) over a FileSessionStorage              *)
(* (src/session/storage.cpp): login, restore, restoreAll, the three        *)
(* logouts and persistSession, one action per storage access, so that a    *)
(* crash, a failing write or another thread can come between any two.      *)
(*                                                                         *)
(* A session is named by its key <<chain, account>>, the account standing  *)
(* for actor@permission.  Wallet plugin data (WalletPlugin::data()) is     *)
(* abstracted to the session key the data signs for.                       *)
(***************************************************************************)
EXTENDS Naturals, FiniteSets

CONSTANTS
    Threads,        \* workers calling the kit
    Keys,           \* session keys <<chain, account>>, both numbers
    Wallets,        \* wallet plugin ids
    Holds,          \* the accounts each wallet plugin may have keys of
    HasLogout,      \* plugins that implement the optional logout
    PluginSets,     \* the plugin sets an application build may register
    NoData,         \* the empty wallet data, {}
    NoEntry         \* no serialized session

Data == Keys \cup {NoData}

\* The text of one SerializedSession.
Entry == [key: Keys, wallet: Wallets, data: Data, dflt: BOOLEAN]

ASSUME KitAssumption ==
    /\ Keys \subseteq Nat \X Nat
    /\ Holds \in [Wallets -> SUBSET Keys]
    /\ HasLogout \subseteq Wallets
    /\ PluginSets \subseteq SUBSET Wallets
    /\ NoData \notin Keys
    /\ NoEntry \notin Entry

VARIABLES
    current,        \* the "session" file
    sessions,       \* the "sessions" file: a list, sorted, so a set here
    registered,     \* walletPlugins of the running kit
    walletData,     \* data_ of each plugin instance, shared by its sessions
    job,            \* what each thread is doing in the kit
    kept,           \* history: sessions persisted and not since given up
    cut             \* history: defaults whose persist stopped half way

files == <<current, sessions>>
history == <<kept, cut>>
vars == <<files, registered, walletData, job, history>>

Labels == {"idle", "wallet", "lookup", "serialize", "openCurrent",
           "closeCurrent", "readList", "openList", "closeList", "next",
           "walletLogout", "readLogout", "readAll", "removeAll"}
Ops == {"none", "login", "restore", "restoreChain", "restoreAll",
        "logout", "logoutAll"}

\* entry is the session being persisted, or the arguments of restore or
\* logout; asDefault the option setAsDefault; buf the list about to be
\* written; todo the entries restoreAll has left.
Job == [at: Labels, op: Ops, entry: Entry \cup {NoEntry}, asDefault: BOOLEAN,
        buf: SUBSET Entry, todo: SUBSET Entry]

NoJob == [at |-> "idle", op |-> "none", entry |-> NoEntry, asDefault |-> FALSE,
          buf |-> {}, todo |-> {}]

Chain(k) == k[1]
KeysOf(list) == {e.key : e \in list}

\* What a storage key holds: nothing, text that does not parse, or a value.
FileOf(V) == [is: {"absent", "torn", "text"}, val: V]
Absent(v) == [is |-> "absent", val |-> v]
Torn(v) == [is |-> "torn", val |-> v]
Text(v) == [is |-> "text", val |-> v]

\* The order of persistSession's sort: chain, then actor and permission.
Before(a, b) == \/ a.key[1] < b.key[1]
                \/ a.key[1] = b.key[1] /\ a.key[2] < b.key[2]
FirstOf(list) == {e \in list : \A f \in list : ~Before(f, e)}

\* getSessions keeps the entries whose plugin is registered.
Usable(list) == {e \in list : e.wallet \in registered}

\* An entry stored beside the new one is no longer the default of its chain.
Cleared(e, new) == [e EXCEPT !.dflt = @ /\ Chain(e.key) # Chain(new.key)]

\* (bug) The merge starts from getSessions, which drops unusable entries.
MergeUsable(list, new) ==
    {Cleared(e, new) : e \in {f \in Usable(list) : f.key # new.key}} \cup {new}

\* (bug) The other sessions of the chain stay default.
MergeKeepsDefaults(list, new) == {f \in list : f.key # new.key} \cup {new}

\* persistSession's merge of the new entry into the stored list.
Merge(list, new) ==
    {Cleared(e, new) : e \in {f \in list : f.key # new.key}} \cup {new}

\* Session::serialize: the plugin's data at this moment, not at login.
Serialized(k, w, d) == [key |-> k, wallet |-> w, data |-> walletData[w], dflt |-> d]

\* (bug) The id of the stored plugin, not its data, is given to setData.
RestoredPlugin(found, args) == IF args.data = NoData THEN found.wallet ELSE args.data

\* (bug) restore does not give the plugin its data back.
RestoredNothing(found, args) == walletData[found.wallet]

\* The wallet data restore leaves in the plugin: data carried by the arguments
\* replaces the stored data unless it is empty.
RestoredData(found, args) == IF args.data = NoData THEN found.data ELSE args.data

-----------------------------------------------------------------------------
At(t, l) == job[t].at = l

Goto(t, l) == job' = [job EXCEPT ![t].at = l]

\* The call returns, with a result or with an error.
Return(t) == job' = [job EXCEPT ![t] = NoJob]

\* A key whose "session" file names it although "sessions" was not written.
CutShort(t) == IF job[t].asDefault THEN {job[t].entry.key} ELSE {}

Init ==
    /\ current = Absent(NoEntry)
    /\ sessions = Absent({})
    /\ registered \in PluginSets
    /\ walletData = [w \in Wallets |-> NoData]
    /\ job = [t \in Threads |-> NoJob]
    /\ kept = {}
    /\ cut = {}

-----------------------------------------------------------------------------
(* login                                                                   *)

\* The wallet, chain and permission are settled, by options or by the UI.
StartLogin(t, w, k, d) ==
    /\ At(t, "idle")
    /\ w \in registered
    /\ job' = [job EXCEPT ![t] =
                  [NoJob EXCEPT !.at = "wallet", !.op = "login", !.asDefault = d,
                                !.entry = [key |-> k, wallet |-> w,
                                           data |-> NoData, dflt |-> d]]]
    /\ UNCHANGED <<files, registered, walletData, history>>

\* walletPlugin->login succeeds and leaves its data in the plugin.
WalletLogin(t) ==
    /\ At(t, "wallet")
    /\ walletData' = [walletData EXCEPT ![job[t].entry.wallet] = job[t].entry.key]
    /\ Goto(t, "serialize")
    /\ UNCHANGED <<files, registered, history>>

\* walletPlugin->login fails before it stored anything, or a later check of the
\* wallet (a missing link channel) or an afterLogin hook fails once it had.
WalletLoginFails(t) ==
    /\ At(t, "wallet")
    /\ \/ UNCHANGED walletData
       \/ walletData' = [walletData EXCEPT ![job[t].entry.wallet] = job[t].entry.key]
    /\ Return(t)
    /\ UNCHANGED <<files, registered, history>>

-----------------------------------------------------------------------------
(* persistSession and the file writes                                      *)

Serialize(t) ==
    /\ At(t, "serialize")
    /\ job' = [job EXCEPT
           ![t].entry = Serialized(@.key, @.wallet, job[t].asDefault),
           ![t].at = IF job[t].asDefault THEN "openCurrent" ELSE "readList"]
    /\ UNCHANGED <<files, registered, walletData, history>>

\* ofstream with trunc: the old contents are gone before the new ones are there.
OpenCurrent(t) ==
    /\ At(t, "openCurrent")
    /\ current' = Torn(NoEntry)
    /\ Goto(t, "closeCurrent")
    /\ UNCHANGED <<sessions, registered, walletData, history>>

\* The text reaches the file, or the flush in the destructor fails unnoticed.
CloseCurrent(t) ==
    /\ At(t, "closeCurrent")
    /\ current' \in {Text(job[t].entry), Torn(NoEntry)}
    /\ Goto(t, "readList")
    /\ UNCHANGED <<sessions, registered, walletData, history>>

\* (bug) A list that does not parse counts as an empty one.
ReadListForgiving(t) ==
    /\ At(t, "readList")
    /\ job' = [job EXCEPT ![t].buf = Merge(sessions.val, job[t].entry),
                         ![t].at = "openList"]
    /\ UNCHANGED <<files, registered, walletData, history>>

\* A list that does not parse fails the call.
ReadList(t) ==
    /\ At(t, "readList")
    /\ IF sessions.is = "torn"
       THEN /\ Return(t)
            /\ cut' = cut \cup CutShort(t)
       ELSE /\ job' = [job EXCEPT ![t].buf = Merge(sessions.val, job[t].entry),
                                  ![t].at = "openList"]
            /\ UNCHANGED cut
    /\ UNCHANGED <<files, registered, walletData, kept>>

OpenList(t) ==
    /\ At(t, "openList")
    /\ sessions' = Torn({})
    /\ Goto(t, "closeList")
    /\ UNCHANGED <<current, registered, walletData, history>>

\* After the write a login notifies the UI and returns, restoreAll goes on.
CloseList(t) ==
    /\ At(t, "closeList")
    /\ sessions' \in {Text(job[t].buf), Torn({})}
    /\ IF job[t].op = "restoreAll" THEN Goto(t, "next") ELSE Return(t)
    /\ IF job[t].op = "logout"
       THEN UNCHANGED history
       ELSE /\ kept' = kept \cup {job[t].entry.key}
            /\ cut' = cut \ {job[t].entry.key}
    /\ UNCHANGED <<current, registered, walletData>>

\* A write that reports its failure: the file could not be opened, or the text
\* could not be written and the truncated file stays behind.
WriteFails(t) ==
    /\ \/ At(t, "openCurrent") \/ At(t, "closeCurrent")
       \/ At(t, "openList") \/ At(t, "closeList")
    /\ cut' = IF job[t].op # "logout" /\ job[t].at \in {"openList", "closeList"}
              THEN cut \cup CutShort(t) ELSE cut
    /\ Return(t)
    /\ UNCHANGED <<files, registered, walletData, kept>>

-----------------------------------------------------------------------------
(* restore, restoreAll                                                     *)

RestoreJob(op, args, d) ==
    [NoJob EXCEPT !.at = "lookup", !.op = op, !.entry = args, !.asDefault = d]

\* restore(): the arguments are the stored current session.
StartRestore(t) ==
    /\ At(t, "idle")
    /\ current.is = "text"
    /\ job' = [job EXCEPT ![t] = RestoreJob("restore", current.val, TRUE)]
    /\ UNCHANGED <<files, registered, walletData, history>>

\* restore(serialized): an entry that getSessions returned.
StartRestoreEntry(t, d) ==
    /\ At(t, "idle")
    /\ sessions.is # "torn"
    /\ \E e \in Usable(sessions.val) :
           job' = [job EXCEPT ![t] = RestoreJob("restore", e, d)]
    /\ UNCHANGED <<files, registered, walletData, history>>

\* restore({chain}): only the chain of the arguments is used.
StartRestoreChain(t, k, w) ==
    /\ At(t, "idle")
    /\ job' = [job EXCEPT ![t] = RestoreJob("restoreChain",
                  [key |-> k, wallet |-> w, data |-> NoData, dflt |-> FALSE], TRUE)]
    /\ UNCHANGED <<files, registered, walletData, history>>

StartRestoreAll(t) ==
    /\ At(t, "idle")
    /\ sessions.is # "torn"
    /\ job' = [job EXCEPT ![t] =
                  [NoJob EXCEPT !.at = "next", !.op = "restoreAll",
                                !.todo = Usable(sessions.val)]]
    /\ UNCHANGED <<files, registered, walletData, history>>

RestoreNext(t) ==
    /\ At(t, "next")
    /\ IF job[t].todo = {}
       THEN Return(t)
       ELSE \E e \in FirstOf(job[t].todo) :
               job' = [job EXCEPT ![t] =
                    [RestoreJob("restoreAll", e, TRUE) EXCEPT !.todo = job[t].todo \ {e}]]
    /\ UNCHANGED <<files, registered, walletData, history>>

\* The stored entries that match the arguments of restore.
Matches(t) ==
    LET args == job[t].entry
    IN  IF job[t].op = "restoreChain"
        THEN {e \in sessions.val : Chain(e.key) = Chain(args.key) /\ e.dflt}
        ELSE IF sessions.is = "absent" THEN {args}
        ELSE {e \in sessions.val : e.key = args.key}

\* Nothing found: restore returns no session, restoreAll skips the entry.
LookupNone(t) ==
    /\ At(t, "lookup")
    /\ sessions.is # "torn"
    /\ Matches(t) = {}
    /\ IF job[t].op = "restoreAll" THEN Goto(t, "next") ELSE Return(t)
    /\ UNCHANGED <<files, registered, walletData, history>>

\* The list does not parse, or no plugin of the found entry is registered.
LookupFails(t) ==
    /\ At(t, "lookup")
    /\ \/ sessions.is = "torn"
       \/ \E found \in FirstOf(Matches(t)) : found.wallet \notin registered
    /\ Return(t)
    /\ UNCHANGED <<files, registered, walletData, history>>

\* The wallet data goes back into the plugin, the session is built and will be
\* persisted again.
LookupFound(t) ==
    /\ At(t, "lookup")
    /\ sessions.is # "torn"
    /\ \E found \in FirstOf(Matches(t)) :
           /\ found.wallet \in registered
           /\ walletData' = [walletData EXCEPT
                  ![found.wallet] = RestoredData(found, job[t].entry)]
           /\ job' = [job EXCEPT ![t].entry = found, ![t].at = "serialize"]
    /\ UNCHANGED <<files, registered, history>>

-----------------------------------------------------------------------------
(* logout                                                                  *)

\* (bug) logout(session) leaves "session" alone.
StartLogoutOfListed(t, k, w) ==
    /\ At(t, "idle")
    /\ kept' = kept \ {k}
    /\ job' = [job EXCEPT ![t] =
                  [NoJob EXCEPT !.op = "logout", !.at = "readLogout",
                                !.entry = [key |-> k, wallet |-> w,
                                           data |-> NoData, dflt |-> FALSE]]]
    /\ UNCHANGED <<files, registered, walletData, cut>>

\* logout(session): "session" is removed, whichever session it names.
StartLogout(t, k, w) ==
    /\ At(t, "idle")
    /\ current' = Absent(NoEntry)
    /\ kept' = kept \ {k}
    /\ job' = [job EXCEPT ![t] =
                  [NoJob EXCEPT !.op = "logout",
                                !.at = IF w \in registered \cap HasLogout
                                       THEN "walletLogout" ELSE "readLogout",
                                !.entry = [key |-> k, wallet |-> w,
                                           data |-> NoData, dflt |-> FALSE]]]
    /\ UNCHANGED <<sessions, registered, walletData, cut>>

WalletLogout(t) ==
    /\ At(t, "walletLogout")
    /\ Goto(t, "readLogout") \/ Return(t)
    /\ UNCHANGED <<files, registered, walletData, history>>

\* The list to write is what getSessions returned, so the entries of plugins
\* that are not registered are given up with it.
ReadLogout(t) ==
    /\ At(t, "readLogout")
    /\ IF sessions.is = "torn"
       THEN Return(t) /\ UNCHANGED kept
       ELSE /\ job' = [job EXCEPT
                  ![t].at = "openList",
                  ![t].buf = {e \in Usable(sessions.val) : e.key # job[t].entry.key}]
            /\ kept' = kept \ KeysOf(sessions.val \ Usable(sessions.val))
    /\ UNCHANGED <<files, registered, walletData, cut>>

StartLogoutAll(t) ==
    /\ At(t, "idle")
    /\ current' = Absent(NoEntry)
    /\ kept' = {}
    /\ job' = [job EXCEPT ![t] = [NoJob EXCEPT !.at = "readAll", !.op = "logoutAll"]]
    /\ UNCHANGED <<sessions, registered, walletData, cut>>

\* logout() stops at a list it cannot read, which then stays.
ReadAll(t) ==
    /\ At(t, "readAll")
    /\ IF sessions.is = "torn" THEN Return(t) ELSE Goto(t, "removeAll")
    /\ UNCHANGED <<files, registered, walletData, history>>

\* The plugins' logouts that follow change nothing here, fail or not.
RemoveAll(t) ==
    /\ At(t, "removeAll")
    /\ sessions' = Absent({})
    /\ Return(t)
    /\ UNCHANGED <<current, registered, walletData, history>>

-----------------------------------------------------------------------------
\* The process ends and starts again, perhaps as another build of the
\* application, with other plugins; only the files remain.
Restart ==
    /\ job' = [t \in Threads |-> NoJob]
    /\ walletData' = [w \in Wallets |-> NoData]
    /\ registered' \in PluginSets
    /\ cut' = cut \cup UNION {CutShort(t) : t \in {u \in Threads :
                  /\ job[u].op \notin {"none", "logout", "logoutAll"}
                  /\ job[u].at \in {"readList", "openList", "closeList"}}}
    /\ UNCHANGED <<files, kept>>

Step(t) ==
    \/ \E w \in Wallets : \E k \in Holds[w], d \in BOOLEAN : StartLogin(t, w, k, d)
    \/ WalletLogin(t) \/ WalletLoginFails(t)
    \/ Serialize(t)
    \/ OpenCurrent(t) \/ CloseCurrent(t)
    \/ ReadList(t) \/ OpenList(t) \/ CloseList(t)
    \/ WriteFails(t)
    \/ StartRestore(t) \/ StartRestoreAll(t) \/ RestoreNext(t)
    \/ \E d \in BOOLEAN : StartRestoreEntry(t, d)
    \/ \E w \in Wallets : \E k \in Holds[w] : StartRestoreChain(t, k, w)
    \/ LookupNone(t) \/ LookupFails(t) \/ LookupFound(t)
    \/ \E w \in Wallets : \E k \in Holds[w] : StartLogout(t, k, w)
    \/ WalletLogout(t) \/ ReadLogout(t)
    \/ StartLogoutAll(t) \/ ReadAll(t) \/ RemoveAll(t)

Next == Restart \/ \E t \in Threads : Step(t)

Spec == Init /\ [][Next]_vars

-----------------------------------------------------------------------------
(* Properties                                                              *)

\* The files, the plugins and every call in flight have values of their types;
\* a call past its lookup holds the session it persists.
TypeOK ==
    /\ current \in FileOf(Entry \cup {NoEntry})
    /\ sessions \in FileOf(SUBSET Entry)
    /\ registered \in PluginSets
    /\ walletData \in [Wallets -> Data]
    /\ job \in [Threads -> Job]
    /\ kept \subseteq Keys
    /\ cut \subseteq Keys

\* No two entries of one account, and at most one default on a chain.
WellFormed(list) ==
    /\ \A e, f \in list : e.key = f.key => e = f
    /\ \A e, f \in list : Chain(e.key) = Chain(f.key) /\ e.dflt /\ f.dflt => e = f

\* persistSession prevents duplicates and moves the default of a chain: any
\* list the file ever holds has one entry per account and one default a chain.
ListWellFormed == sessions.is # "torn" => WellFormed(sessions.val)

\* With one call at a time, a stored session never carries the wallet data of
\* another account, although all sessions of a plugin share one data_.
OwnWalletData ==
    /\ sessions.is # "torn" => \A e \in sessions.val : e.data = e.key
    /\ current.is = "text" => current.val.data = current.val.key

\* With one call at a time, a session whose login or restore returned is in
\* the list until it is logged out, across restarts, failing writes, other
\* logins and builds without its plugin; a logout of another session gives it
\* up only while its plugin is not registered.
KeptIsListed == sessions.is # "torn" => kept \subseteq KeysOf(sessions.val)

\* With one call at a time, restore() finds in "sessions" the session that
\* "session" names, unless the persist that named it was cut short.
CurrentIsListed ==
    (/\ \A t \in Threads : At(t, "idle")
     /\ current.is = "text"
     /\ sessions.is # "torn")
    => current.val.key \in KeysOf(sessions.val) \cup cut

\* A list that does not parse is never repaired: every operation of the kit
\* reads it before it would write or remove it, logout() included.  With one
\* call at a time, once the write that tore it is over no other write begins.
TornListStays ==
    [][sessions.is = "torn" /\ (\A t \in Threads : ~At(t, "closeList"))
          => sessions'.is = "torn" /\ \A t \in Threads : ~At(t, "closeList")']_vars

\* The list the file holds, or is about to: with one call at a time a write that
\* has begun counts.
Writing == \E t \in Threads : At(t, "closeList")
ListNow == IF Writing THEN UNION {job[t].buf : t \in {u \in Threads : At(u, "closeList")}}
                      ELSE sessions.val

\* A list with one entry an account, as a map, and its defaults.
MapOf(list) ==
    [k \in KeysOf(list) |-> LET e == CHOOSE f \in list : f.key = k
                            IN  [wallet |-> e.wallet, data |-> e.data]]
DefaultsOf(list) == {e.key : e \in {f \in list : f.dflt}}

Store == INSTANCE SessionStore WITH
    of <- MapOf(ListNow), default <- DefaultsOf(ListNow),
    readable <- Writing \/ sessions.is # "torn", writing <- Writing

\* With one call at a time the kit is a map of sessions that changes at once: every
\* login and restore keeps exactly its session with its own data and moves the
\* default of its chain, every logout gives up exactly its session and those no
\* plugin can use, and only a write that was cut short loses the map, for good.
ImplementsStore == Store!Spec

\* kit.hpp says of restore(): "Restore the default session from storage;
\* nullptr when none exists", and restore() returns nullptr when "session" is
\* absent.  So a default that was never logged out should have one beside it.
DefaultIsRestored ==
    (\A t \in Threads : At(t, "idle")) /\ sessions.is # "torn"
    /\ (\E e \in sessions.val : e.dflt /\ e.key \in kept)
    => current.is # "absent"
=============================================================================
