--------------------------- MODULE AbiCacheProofs ---------------------------
(***************************************************************************)
(* Theorems about AbiCache, for any callers, contracts and ABIs.  Each     *)
(* invariant is inductive beside the type invariant: a fetch that ends     *)
(* merges, and a merge keeps the definitions of both its arguments.        *)
(***************************************************************************)
EXTENDS AbiCache, TLAPS

\* A merge is an ABI and defines what either argument defines (ABICache::merge).
LEMMA MergeDefines ==
  ASSUME NEW x \in Abi, NEW y \in Abi
  PROVE  /\ Merge(x, y) \in Abi
         /\ DOMAIN Merge(x, y) = DOMAIN x \cup DOMAIN y
<1>1. PICK D \in SUBSET Defs : x \in [D -> Origins]
  BY DEF Abi
<1>2. PICK E \in SUBSET Defs : y \in [E -> Origins]
  BY DEF Abi
<1>3. DOMAIN x = D /\ DOMAIN y = E
  BY <1>1, <1>2
<1>4. Merge(x, y) \in [D \cup E -> Origins]
  BY <1>1, <1>2, <1>3 DEF Merge
<1>5. D \cup E \in SUBSET Defs
  OBVIOUS
<1> QED
  BY <1>3, <1>4, <1>5 DEF Abi, Merge

\* What getAbi stores at the end of a fetch (the second critical section).
LEMMA StoredDefines ==
  ASSUME TypeOK, NEW t \in Threads, Store(t)
  PROVE  LET a == wants[t]  abi == answer[t] IN
           /\ a \in Accounts /\ abi \in Abi
           /\ cache'[a] \in Abi
           /\ DOMAIN abi \subseteq DOMAIN cache'[a]
           /\ Cached(a) => DOMAIN cache[a] \subseteq DOMAIN cache'[a]
<1> DEFINE a == wants[t]  abi == answer[t]
<1>1. a \in Accounts /\ abi \in Abi
  BY DEF TypeOK, Store
<1>2. cache' = [cache EXCEPT ![a] = IF Cached(a) THEN Merge(abi, cache[a]) ELSE abi]
  BY DEF Store
<1>3. cache'[a] = IF Cached(a) THEN Merge(abi, cache[a]) ELSE abi
  BY <1>1, <1>2 DEF TypeOK
<1>4. CASE Cached(a)
  <2>1. cache[a] \in Abi
    BY <1>1, <1>4 DEF TypeOK, Cached
  <2> QED
    BY <1>1, <1>3, <1>4, <2>1, MergeDefines
<1>5. CASE ~Cached(a)
  BY <1>1, <1>3, <1>5
<1> QED
  BY <1>4, <1>5

\* What setAbi stores when it merges (ABICache::setAbi).
LEMMA SetPartDefines ==
  ASSUME TypeOK, NEW a \in Accounts, NEW abi \in AppAbis, SetPart(a, abi)
  PROVE  /\ cache'[a] \in Abi
         /\ DOMAIN abi \subseteq DOMAIN cache'[a]
         /\ Cached(a) => DOMAIN cache[a] \subseteq DOMAIN cache'[a]
<1>1. abi \in Abi
  BY AbiAssumption
<1>2. cache'[a] = IF Cached(a) THEN Merge(cache[a], abi) ELSE abi
  BY DEF TypeOK, SetPart
<1>3. CASE Cached(a)
  <2>1. cache[a] \in Abi
    BY <1>3 DEF TypeOK, Cached
  <2> QED
    BY <1>1, <1>2, <1>3, <2>1, MergeDefines
<1>4. CASE ~Cached(a)
  BY <1>1, <1>2, <1>4
<1> QED
  BY <1>3, <1>4

-----------------------------------------------------------------------------
\* An empty cache, nothing pending: the state a cache is constructed in.
LEMMA TypeInit == Init => TypeOK
  BY AbiAssumption DEF Init, TypeOK, Cached

\* getAbi up to the merge keeps the types: joining a fetch, the answer, its failure.
LEMMA TypeFetch ==
  ASSUME TypeOK, NEW t \in Threads,
         (\E a \in Accounts : Request(t, a)) \/ Answer(t) \/ FetchFails(t) \/ StoreNone(t)
  PROVE  TypeOK'
<1>1. CASE \E a \in Accounts : Request(t, a)
  BY <1>1 DEF TypeOK, Request, Cached
<1>2. CASE Answer(t)
  <2>1. wants[t] \in Accounts
    BY <1>2 DEF TypeOK, Answer
  <2>2. chain[wants[t]] \in Abi \cup {NoAbi, Pending}
    BY <2>1, AbiAssumption DEF TypeOK
  <2>3. answer' = [answer EXCEPT ![t] = chain[wants[t]]]
    BY <1>2 DEF Answer
  <2>4. answer' \in [Threads -> Abi \cup {NoAbi, Pending}]
    BY <2>2, <2>3 DEF TypeOK
  <2> QED
    BY <1>2, <2>4 DEF TypeOK, Answer, Cached
<1>3. CASE FetchFails(t)
  BY <1>3 DEF TypeOK, FetchFails, Finish, Cached
<1>4. CASE StoreNone(t)
  BY <1>4 DEF TypeOK, StoreNone, Finish, Cached
<1> QED
  BY <1>1, <1>2, <1>3, <1>4

\* Storing a fetched ABI keeps the types: a merge of two ABIs is one.
LEMMA TypeStore ==
  ASSUME TypeOK, NEW t \in Threads, Store(t)
  PROVE  TypeOK'
<1> DEFINE a == wants[t]
<1>1. a \in Accounts /\ answer[t] \in Abi /\ cache'[a] \in Abi
  BY StoredDefines
<1>2. cache' = [cache EXCEPT ![a] = cache'[a]]
  BY <1>1 DEF TypeOK, Store
<1>3. cache' \in [Accounts -> Abi \cup {NoAbi}]
  BY <1>1, <1>2 DEF TypeOK
<1>4. partial' \subseteq {b \in Accounts : cache'[b] # NoAbi}
  BY <1>1, <1>2, AbiAssumption DEF TypeOK, Store, Cached
<1> QED
  BY <1>1, <1>3, <1>4 DEF TypeOK, Store, Finish, Cached

\* setAbi, whole or partial, and a contract that changes its code keep the types.
LEMMA TypeSet ==
  ASSUME TypeOK, NEW a \in Accounts,
         \/ \E abi \in AppAbis : SetWhole(a, abi) \/ SetPart(a, abi)
         \/ SetCode(a)
  PROVE  TypeOK'
<1>1. CASE \E abi \in AppAbis : SetWhole(a, abi)
  BY <1>1, AbiAssumption DEF TypeOK, SetWhole, Cached, call
<1>2. ASSUME NEW abi \in AppAbis, SetPart(a, abi)
      PROVE  TypeOK'
  <2>1. cache'[a] \in Abi /\ DOMAIN abi \subseteq Defs
    BY <1>2, SetPartDefines, AbiAssumption DEF Abi
  <2>2. cache' = [cache EXCEPT ![a] = cache'[a]]
    BY <1>2 DEF TypeOK, SetPart
  <2>3. cache' \in [Accounts -> Abi \cup {NoAbi}]
    BY <2>1, <2>2 DEF TypeOK
  <2>4. partial' \subseteq {b \in Accounts : cache'[b] # NoAbi}
    BY <1>2, <2>1, <2>2, AbiAssumption DEF TypeOK, SetPart, Cached
  <2> QED
    BY <1>2, <2>1, <2>3, <2>4 DEF TypeOK, SetPart, Cached, call
<1>3. CASE SetCode(a)
  BY <1>3, AbiAssumption DEF TypeOK, SetCode, Cached, call
<1> QED
  BY <1>1, <1>2, <1>3

\* Every step keeps the types.
LEMMA TypeNext == TypeOK /\ [Next]_vars => TypeOK'
<1> SUFFICES ASSUME TypeOK, [Next]_vars PROVE TypeOK'
  OBVIOUS
<1>1. CASE UNCHANGED vars
  BY <1>1 DEF vars, call, TypeOK, Cached
<1> QED
  BY <1>1, TypeFetch, TypeStore, TypeSet DEF Next

\* The cache and the calls in flight keep their types, and only cached accounts
\* are partial, whatever getAbi and setAbi do to each other.
THEOREM TypeCorrect == Spec => []TypeOK
  BY TypeInit, TypeNext, PTL DEF Spec

-----------------------------------------------------------------------------
Inv == WholeUnlessPartial /\ GivenIsKept

\* An empty cache holds nothing partial and nothing given.
LEMMA InvInit == Init => Inv
  BY DEF Init, Inv, WholeUnlessPartial, GivenIsKept, Cached

\* A fetch that stores nothing leaves both alone.
LEMMA InvFetch ==
  ASSUME Inv, UNCHANGED <<cache, partial, given, wholes>>
  PROVE  Inv'
  BY DEF Inv, WholeUnlessPartial, GivenIsKept, Cached

\* A fetched ABI merged into the cache loses no definition that was given.
LEMMA InvStore ==
  ASSUME TypeOK, Inv, NEW t \in Threads, Store(t)
  PROVE  Inv'
<1> DEFINE a == wants[t]  abi == answer[t]
<1>1. /\ a \in Accounts /\ abi \in Abi /\ cache'[a] \in Abi
      /\ DOMAIN abi \subseteq DOMAIN cache'[a]
      /\ Cached(a) => DOMAIN cache[a] \subseteq DOMAIN cache'[a]
  BY StoredDefines
<1>2. \A b \in Accounts : b # a => cache'[b] = cache[b]
  BY <1>1 DEF Store, TypeOK
<1>3. /\ partial' = partial \ {a}
      /\ wholes' = [wholes EXCEPT ![a] = @ \cup {abi}]
      /\ given' = given
  BY DEF Store
<1>4. abi \in wholes'[a] /\ \A b \in Accounts : b # a => wholes'[b] = wholes[b]
  BY <1>1, <1>3 DEF TypeOK
<1>5. WholeUnlessPartial'
  BY <1>1, <1>2, <1>3, <1>4 DEF Inv, WholeUnlessPartial, Cached
<1>6. GivenIsKept'
  BY <1>1, <1>2, <1>3, AbiAssumption DEF Inv, GivenIsKept, Cached
<1> QED
  BY <1>5, <1>6 DEF Inv

\* setAbi replaces the entry by the whole ABI it was given.
LEMMA InvSetWhole ==
  ASSUME TypeOK, Inv, NEW a \in Accounts, NEW abi \in AppAbis, SetWhole(a, abi)
  PROVE  Inv'
<1>1. WholeUnlessPartial'
  BY DEF TypeOK, Inv, WholeUnlessPartial, SetWhole, Cached
<1>2. GivenIsKept'
  BY DEF TypeOK, Inv, GivenIsKept, SetWhole, Cached
<1> QED
  BY <1>1, <1>2 DEF Inv

\* A partial setAbi merges into what is cached and loses nothing of it.
LEMMA InvSetPart ==
  ASSUME TypeOK, Inv, NEW a \in Accounts, NEW abi \in AppAbis, SetPart(a, abi)
  PROVE  Inv'
<1>1. /\ cache'[a] \in Abi
      /\ DOMAIN abi \subseteq DOMAIN cache'[a]
      /\ Cached(a) => DOMAIN cache[a] \subseteq DOMAIN cache'[a]
  BY SetPartDefines
<1>2. \A b \in Accounts : b # a => cache'[b] = cache[b]
  BY DEF SetPart, TypeOK
<1>3. /\ partial' = IF Cached(a) THEN partial ELSE partial \cup {a}
      /\ wholes' = wholes
  BY DEF SetPart
<1>4. /\ given'[a] = given[a] \cup DOMAIN abi
      /\ \A b \in Accounts : b # a => given'[b] = given[b]
  BY DEF SetPart, TypeOK
<1>5. WholeUnlessPartial'
  BY <1>1, <1>2, <1>3 DEF Inv, WholeUnlessPartial, Cached
<1>6. GivenIsKept'
  BY <1>1, <1>2, <1>4, AbiAssumption DEF Inv, GivenIsKept, Cached
<1> QED
  BY <1>5, <1>6 DEF Inv

\* Every step keeps the invariant.
LEMMA InvNext == TypeOK /\ Inv /\ [Next]_vars => Inv'
<1> SUFFICES ASSUME TypeOK, Inv, [Next]_vars PROVE Inv'
  OBVIOUS
<1>1. CASE UNCHANGED vars
  BY <1>1, InvFetch DEF vars
<1>2. ASSUME NEW t \in Threads, \E a \in Accounts : Request(t, a)
      PROVE  Inv'
  BY <1>2, InvFetch DEF Request
<1>3. ASSUME NEW t \in Threads, Answer(t) \/ FetchFails(t) \/ StoreNone(t)
      PROVE  Inv'
  BY <1>3, InvFetch DEF Answer, FetchFails, StoreNone
<1>4. ASSUME NEW a \in Accounts, SetCode(a)
      PROVE  Inv'
  BY <1>4, InvFetch DEF SetCode
<1> QED
  BY <1>1, <1>2, <1>3, <1>4, InvStore, InvSetWhole, InvSetPart DEF Next

\* The invariant, with the types, in every reachable state.
LEMMA InvAlways == Spec => []Inv
  BY TypeCorrect, InvInit, InvNext, PTL DEF Spec

\* An account that getAbi answers for from the cache has every definition of a
\* whole ABI: fetches and merges in any order never mark parts as the whole.
THEOREM WholeUnlessPartialAlways == Spec => []WholeUnlessPartial
<1>1. Inv => WholeUnlessPartial
  BY DEF Inv
<1> QED
  BY <1>1, InvAlways, PTL

\* A definition given inline outlives every fetch until a whole ABI replaces it.
THEOREM GivenIsAlwaysKept == Spec => []GivenIsKept
<1>1. Inv => GivenIsKept
  BY DEF Inv
<1> QED
  BY <1>1, InvAlways, PTL

\* No step makes an account partial again that getAbi can answer for.
THEOREM WholeStaysWhole == Spec => StaysWhole
<1> DEFINE Stays == \A a \in Accounts : Cached(a) /\ a \notin partial
                                          => Cached(a)' /\ a \notin partial'
<1>1. TypeOK /\ [Next]_vars => [Stays]_vars
  <2> SUFFICES ASSUME TypeOK, Next PROVE Stays
    OBVIOUS
  <2>1. ASSUME UNCHANGED <<cache, partial>> PROVE Stays
    BY <2>1 DEF Cached
  <2>2. ASSUME NEW t \in Threads, Store(t) PROVE Stays
    <3>1. cache'[wants[t]] \in Abi
      BY <2>2, StoredDefines
    <3> QED
      BY <2>2, <3>1, AbiAssumption DEF TypeOK, Store, Cached
  <2>3. ASSUME NEW a \in Accounts, NEW abi \in AppAbis, SetWhole(a, abi) PROVE Stays
    BY <2>3, AbiAssumption DEF TypeOK, SetWhole, Cached
  <2>4. ASSUME NEW a \in Accounts, NEW abi \in AppAbis, SetPart(a, abi) PROVE Stays
    <3>1. cache'[a] \in Abi
      BY <2>4, SetPartDefines
    <3> QED
      BY <2>4, <3>1, AbiAssumption DEF TypeOK, SetPart, Cached
  <2>5. ASSUME NEW t \in Threads,
               \/ \E a \in Accounts : Request(t, a)
               \/ Answer(t) \/ FetchFails(t) \/ StoreNone(t)
        PROVE  Stays
    BY <2>1, <2>5 DEF Request, Answer, FetchFails, StoreNone
  <2>6. ASSUME NEW a \in Accounts, SetCode(a) PROVE Stays
    BY <2>1, <2>6 DEF SetCode
  <2> QED
    BY <2>2, <2>3, <2>4, <2>5, <2>6 DEF Next
<1> QED
  BY <1>1, TypeCorrect, PTL DEF Spec, StaysWhole
=============================================================================
