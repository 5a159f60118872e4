------------------------------ MODULE AbiCache ------------------------------
(***************************************************************************)
(* ABICache (src/abicache/abicache.cpp): the ABIs of contracts, fetched     *)
(* from the chain once and merged with definitions the application gives.  *)
(* getAbi lets go of the mutex for the request, so it is two critical      *)
(* sections with a fetch between them; setAbi is one.                      *)
(*                                                                         *)
(* An ABI is abstracted to a function from the definitions it holds        *)
(* (structs, actions, tables, ...) to where each one came from.            *)
(***************************************************************************)
EXTENDS Naturals, FiniteSets

CONSTANTS
    Threads,    \* callers of getAbi
    Accounts,   \* contract accounts
    Defs,       \* names of definitions
    Origins,    \* where a definition came from
    ChainAbis,  \* the ABIs a contract may have on the chain
    AppAbis,    \* the ABIs the application may hand to setAbi
    NoAbi,      \* no ABI: not cached, or none on the chain
    NoAccount,  \* no getAbi under way
    Pending     \* no answer yet

Abi == UNION {[D -> Origins] : D \in SUBSET Defs}

ASSUME AbiAssumption ==
    /\ ChainAbis \subseteq Abi
    /\ AppAbis \subseteq Abi
    /\ NoAbi \notin Abi
    /\ Pending \notin Abi \cup {NoAbi}
    /\ NoAccount \notin Accounts

VARIABLES
    cache,      \* cache_: the ABI of each account, or NoAbi
    partial,    \* partial_: accounts cached only from merged definitions
    chain,      \* the ABI each contract has on the chain, NoAbi for none
    wants,      \* the account each thread's getAbi is fetching
    answer,     \* the response it holds, Pending while in flight
    given,      \* history: definitions setAbi gave each account to merge
    wholes      \* history: whole ABIs each account was given or fetched

call == <<wants, answer>>
vars == <<cache, partial, chain, call, given, wholes>>

Cached(a) == cache[a] # NoAbi

\* (bug) The ABI fetched replaces what was there.
MergeReplaces(base, addition) == base

\* merge: what the base defines stays, the addition adds the rest.
Merge(base, addition) ==
    [d \in DOMAIN base \cup DOMAIN addition |->
        IF d \in DOMAIN base THEN base[d] ELSE addition[d]]

Init ==
    /\ cache = [a \in Accounts |-> NoAbi]
    /\ partial = {}
    /\ chain \in [Accounts -> ChainAbis \cup {NoAbi}]
    /\ wants = [t \in Threads |-> NoAccount]
    /\ answer = [t \in Threads |-> Pending]
    /\ given = [a \in Accounts |-> {}]
    /\ wholes = [a \in Accounts |-> {}]

\* getAbi finds no ABI, or one put together from parts, and asks the chain.  A
\* whole ABI is returned as it is, which changes nothing.
Request(t, a) ==
    /\ wants[t] = NoAccount
    /\ ~Cached(a) \/ a \in partial
    /\ wants' = [wants EXCEPT ![t] = a]
    /\ UNCHANGED <<cache, partial, chain, answer, given, wholes>>

\* The node answers get_raw_abi with what the contract has now.
Answer(t) ==
    /\ wants[t] # NoAccount
    /\ answer[t] = Pending
    /\ answer' = [answer EXCEPT ![t] = chain[wants[t]]]
    /\ UNCHANGED <<cache, partial, chain, wants, given, wholes>>

Finish(t) ==
    /\ wants' = [wants EXCEPT ![t] = NoAccount]
    /\ answer' = [answer EXCEPT ![t] = Pending]

\* The request fails or its answer is no ABI: getAbi returns the error even if
\* it holds parts.
FetchFails(t) ==
    /\ wants[t] # NoAccount
    /\ Finish(t)
    /\ UNCHANGED <<cache, partial, chain, given, wholes>>

\* (bug) The account stays marked as put together from parts.
StoreStaysPartial(t) ==
    LET a == wants[t]
        abi == answer[t]
    IN  /\ a # NoAccount
        /\ abi \in Abi
        /\ cache' = [cache EXCEPT ![a] = IF Cached(a) THEN Merge(abi, @) ELSE abi]
        /\ partial' = partial \cup {a}
        /\ wholes' = [wholes EXCEPT ![a] = @ \cup {abi}]
        /\ Finish(t)
        /\ UNCHANGED <<chain, given>>

\* The second critical section, with the chain's ABI: merged over whatever is
\* in the cache by now, the chain's definitions first.
Store(t) ==
    LET a == wants[t]
        abi == answer[t]
    IN  /\ a # NoAccount
        /\ abi \in Abi
        /\ cache' = [cache EXCEPT ![a] = IF Cached(a) THEN Merge(abi, @) ELSE abi]
        /\ partial' = partial \ {a}
        /\ wholes' = [wholes EXCEPT ![a] = @ \cup {abi}]
        /\ Finish(t)
        /\ UNCHANGED <<chain, given>>

\* The account has no ABI on the chain: the cached parts, if any, are returned
\* and stay parts.
StoreNone(t) ==
    /\ wants[t] # NoAccount
    /\ answer[t] = NoAbi
    /\ Finish(t)
    /\ UNCHANGED <<cache, partial, chain, given, wholes>>

\* setAbi(account, abi): the ABI stands for itself.
SetWhole(a, abi) ==
    /\ cache' = [cache EXCEPT ![a] = abi]
    /\ partial' = partial \ {a}
    /\ wholes' = [wholes EXCEPT ![a] = {abi}]
    /\ given' = [given EXCEPT ![a] = {}]
    /\ UNCHANGED <<chain, call>>

\* (bug) Merged definitions are taken for the whole ABI.
SetPartUnmarked(a, abi) ==
    /\ cache' = [cache EXCEPT ![a] = IF Cached(a) THEN Merge(@, abi) ELSE abi]
    /\ given' = [given EXCEPT ![a] = @ \cup DOMAIN abi]
    /\ UNCHANGED <<partial, chain, call, wholes>>

\* setAbi(account, abi, true): definitions that came inline with an action.
SetPart(a, abi) ==
    /\ cache' = [cache EXCEPT ![a] = IF Cached(a) THEN Merge(@, abi) ELSE abi]
    /\ partial' = IF Cached(a) THEN partial ELSE partial \cup {a}
    /\ given' = [given EXCEPT ![a] = @ \cup DOMAIN abi]
    /\ UNCHANGED <<chain, call, wholes>>

\* The contract is deployed again.
SetCode(a) ==
    /\ chain' \in {[chain EXCEPT ![a] = abi] : abi \in ChainAbis}
    /\ UNCHANGED <<cache, partial, call, given, wholes>>

Next ==
    \/ \E t \in Threads :
        \/ \E a \in Accounts : Request(t, a)
        \/ Answer(t) \/ FetchFails(t) \/ Store(t) \/ StoreNone(t)
    \/ \E a \in Accounts :
        \/ \E abi \in AppAbis : SetWhole(a, abi) \/ SetPart(a, abi)
        \/ SetCode(a)

Spec == Init /\ [][Next]_vars

-----------------------------------------------------------------------------
(* Properties                                                              *)

\* The cache and the calls in flight have values of their types; only accounts
\* that are cached can be partial.
TypeOK ==
    /\ cache \in [Accounts -> Abi \cup {NoAbi}]
    /\ partial \subseteq {a \in Accounts : Cached(a)}
    /\ chain \in [Accounts -> ChainAbis \cup {NoAbi}]
    /\ wants \in [Threads -> Accounts \cup {NoAccount}]
    /\ answer \in [Threads -> Abi \cup {NoAbi, Pending}]
    /\ given \in [Accounts -> SUBSET Defs]
    /\ wholes \in [Accounts -> SUBSET Abi]

\* An account that getAbi answers for without asking the chain has every
\* definition of some whole ABI, the chain's or the application's, whatever
\* merges and fetches ran beside each other.
WholeUnlessPartial ==
    \A a \in Accounts : Cached(a) /\ a \notin partial =>
        \E abi \in wholes[a] : DOMAIN abi \subseteq DOMAIN cache[a]

\* A definition given inline is still there after every fetch that was under
\* way when it was given, until a whole ABI replaces it.
GivenIsKept ==
    \A a \in Accounts : given[a] # {} => Cached(a) /\ given[a] \subseteq DOMAIN cache[a]

\* Once getAbi can answer for an account without asking, it always can: neither
\* a merge nor an older answer makes the account partial again.
StaysWhole ==
    [][\A a \in Accounts : Cached(a) /\ a \notin partial
          => Cached(a)' /\ a \notin partial']_vars

\* "concurrent getAbi calls for the same account are serialized rather than
\* shared" (abicache.hpp): no two of them would be asking the chain at once.
SerializedFetches ==
    \A t, u \in Threads : wants[t] # NoAccount /\ wants[t] = wants[u] => t = u
=============================================================================
