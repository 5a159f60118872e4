------------------------------ MODULE Authority ------------------------------
(* The authority of a permission and its edits: src/antelope/chain/authority.cpp, *)
(* src/account/permission.cpp and the order of public keys in                     *)
(* src/antelope/chain/public_key.cpp. The chain refuses an updateauth whose       *)
(* entries are not in its own order without repetition. A key is what the chain   *)
(* compares, [type, point, rpid]; what the code compares is its data, bytes in    *)
(* which a webauthn key (type 2) has the length of its rpid before the rpid. A    *)
(* name is its value.                                                             *)
EXTENDS Integers, Sequences, SequencesExt, FiniteSets, FiniteSetsExt

CONSTANTS AuthKeys,      \* keys; the points of type 2 have PointSize bytes
          AuthLevels,    \* permission levels <<actor, permission>>
          AuthWaits,     \* waits <<seconds, weight>>
          AuthInputs,    \* authorities a caller hands to Authority::from
          PointSize,     \* 34: the point and the user presence of a webauthn key
          LengthGroup,   \* 2^7, what one byte of a length counts to
          ThresholdWord, \* 2^32
          MaxAuthEdits   \* bound: edits of one permission

Authorities ==
    [threshold: 0..(ThresholdWord - 1), keys: Seq([key: AuthKeys, weight: Nat]),
     accounts: Seq([permission: Seq(Nat), weight: Nat]), waits: Seq(Nat \X Nat)]

ASSUME AuthorityAssumption ==
    /\ PointSize \in Nat /\ LengthGroup \in Nat \ {0} /\ ThresholdWord \in Nat \ {0, 1}
    /\ \A k \in AuthKeys :
          /\ k \in [type: Nat, point: Seq(Nat), rpid: Seq(Nat)]
          /\ IF k.type = 2 THEN Len(k.point) = PointSize /\ Len(k.rpid) < LengthGroup * LengthGroup
             ELSE k.rpid = <<>>
    /\ AuthLevels \subseteq Seq(Nat) /\ AuthWaits \subseteq Nat \X Nat
    /\ AuthInputs \subseteq Authorities
    \* what is loaded is an authority: no key and no account is in it twice
    /\ \A a \in AuthInputs :
          /\ \A i, j \in DOMAIN a.keys : a.keys[i].key = a.keys[j].key => i = j
          /\ \A i, j \in DOMAIN a.accounts : a.accounts[i].permission = a.accounts[j].permission => i = j

VARIABLES required_auth, authEdits

authorityVars == <<required_auth, authEdits>>

(* ------------------------------ public keys ------------------------------ *)
RpidLength(n) == IF n < LengthGroup THEN <<n>> ELSE <<LengthGroup + (n % LengthGroup), n \div LengthGroup>>
keyData(k) == IF k.type = 2 THEN k.point \o RpidLength(Len(k.rpid)) \o k.rpid ELSE k.point

compareBytes(a, b) ==
    LET n == Min({Len(a), Len(b)})
        at == {i \in 1..n : a[i] # b[i]}
    IN  IF at # {} THEN (IF a[Min(at)] < b[Min(at)] THEN -1 ELSE 1)
        ELSE IF Len(a) = Len(b) THEN 0 ELSE IF Len(a) < Len(b) THEN -1 ELSE 1
\* The bytes of the length that go on are skipped, and the last one.
readRpid(data) ==
    LET ends == {i \in (PointSize + 1)..Len(data) : data[i] < LengthGroup}
    IN  IF ends = {} THEN <<>> ELSE SubSeq(data, Min(ends) + 1, Len(data))
\* A mutant: the bytes as they are, the length of the rpid included.
compareWebAuthnRaw(a, b) == compareBytes(a, b)
compareWebAuthn(a, b) ==
    LET prefix == compareBytes(SubSeq(a, 1, Min({PointSize, Len(a)})), SubSeq(b, 1, Min({PointSize, Len(b)})))
    IN  IF prefix # 0 THEN prefix ELSE compareBytes(readRpid(a), readRpid(b))
compareKeys(j, k) ==
    IF j.type # k.type THEN (IF j.type < k.type THEN -1 ELSE 1)
    ELSE IF j.type = 2 THEN compareWebAuthn(keyData(j), keyData(k))
    ELSE compareBytes(keyData(j), keyData(k))

(* ------------------------------- authorities ------------------------------- *)
\* The entries of s at the places of I, in the order of before.
Arranged(s, I, before) ==
    [p \in 1..Cardinality(I) |->
        s[CHOOSE i \in I : Cardinality({j \in I : <<j, i>> \in before}) = p - 1]]
\* std::stable_sort: what is less goes first, then what was first.
stable_sort(s, Less(_, _)) ==
    Arranged(s, DOMAIN s, {ji \in (DOMAIN s) \X (DOMAIN s) :
        \/ Less(s[ji[1]], s[ji[2]])
        \/ ~Less(s[ji[2]], s[ji[1]]) /\ ji[1] < ji[2]})
sort(a) ==
    [a EXCEPT !.keys = stable_sort(@, LAMBDA x, y : compareKeys(x.key, y.key) < 0),
              !.accounts = stable_sort(@, LAMBDA x, y : compareBytes(x.permission, y.permission) < 0),
              !.waits = stable_sort(@, LAMBDA x, y : x[1] < y[1])]

waitThreshold(a) == FoldLeft(LAMBDA n, w : n + w[2], 0, a.waits) % ThresholdWord
keyThreshold(a) == (a.threshold - waitThreshold(a)) % ThresholdWord
keyWeight(a, k) ==
    LET i == SelectInSeq(a.keys, LAMBDA kw : kw.key = k) IN IF i = 0 THEN 0 ELSE a.keys[i].weight
hasPermission(a, k, includePartial) ==
    keyWeight(a, k) >= (IF includePartial THEN 1 ELSE keyThreshold(a))

(* ---------------------------- Permission's edits ---------------------------- *)
NoAuthority == [threshold |-> 1, keys |-> <<>>, accounts |-> <<>>, waits |-> <<>>]
Edited(a) == authEdits < MaxAuthEdits /\ authEdits' = authEdits + 1 /\ required_auth' = a

\* Authority::from: missing parts are empty, and everything is sorted.
AuthorityFrom == authEdits = 0 /\ \E a \in AuthInputs : Edited(sort(a))
\* A key or an account that is already there is refused.
addKey == \E k \in AuthKeys, weight \in {1, 2} :
    /\ \A i \in DOMAIN required_auth.keys : required_auth.keys[i].key # k
    /\ Edited(sort([required_auth EXCEPT !.keys = Append(@, [key |-> k, weight |-> weight])]))
removeKey == \E i \in DOMAIN required_auth.keys :
    Edited([required_auth EXCEPT !.keys = RemoveAt(@, i)])
addAccount == \E p \in AuthLevels :
    /\ \A i \in DOMAIN required_auth.accounts : required_auth.accounts[i].permission # p
    /\ Edited(sort([required_auth EXCEPT !.accounts = Append(@, [permission |-> p, weight |-> 1])]))
removeAccount == \E i \in DOMAIN required_auth.accounts :
    Edited([required_auth EXCEPT !.accounts = RemoveAt(@, i)])
\* Waits are not looked up: the same one may be added twice, and goes at once.
addWait == \E w \in AuthWaits : Edited(sort([required_auth EXCEPT !.waits = Append(@, w)]))
removeWait == \E w \in AuthWaits :
    Edited([required_auth EXCEPT !.waits = Arranged(@, {i \in DOMAIN @ : @[i] # w},
                                                    {ji \in (DOMAIN @) \X (DOMAIN @) : ji[1] < ji[2]})])

AuthorityInit == required_auth = NoAuthority /\ authEdits = 0
AuthorityNext == AuthorityFrom \/ addKey \/ removeKey \/ addAccount \/ removeAccount \/ addWait \/ removeWait

(* ------------------------------- the promise ------------------------------- *)
\* The chain's order: the type, then the point, then the rpid as a text.
Precedes(a, b) == \/ IsStrictPrefix(a, b)
                 \/ \E i \in DOMAIN a \cap DOMAIN b : a[i] < b[i] /\ \A j \in 1..(i - 1) : a[j] = b[j]
ChainBefore(j, k) ==
    \/ j.type < k.type
    \/ j.type = k.type /\ Precedes(j.point, k.point)
    \/ j.type = k.type /\ j.point = k.point /\ Precedes(j.rpid, k.rpid)

(* However an authority was loaded and edited, the chain takes it: its keys and *)
(* accounts are in the chain's own strict order, its waits by their seconds     *)
(* (authority.cpp:46, permission.cpp:28). A key that hasPermission() by itself  *)
(* has, with the waits, the weight of the threshold; one that is not listed has *)
(* it only where the waits reach the threshold alone, and waits above it wrap   *)
(* to a threshold no key meets (authority.hpp:51).                              *)
AuthoritySorted ==
    LET a == required_auth
    IN  /\ \A i \in 1..(Len(a.keys) - 1) : ChainBefore(a.keys[i].key, a.keys[i + 1].key)
        /\ \A i \in 1..(Len(a.accounts) - 1) : Precedes(a.accounts[i].permission, a.accounts[i + 1].permission)
        /\ \A i \in 1..(Len(a.waits) - 1) : a.waits[i][1] <= a.waits[i + 1][1]
        /\ \A k \in AuthKeys : hasPermission(a, k, FALSE) =>
                /\ keyWeight(a, k) + waitThreshold(a) >= a.threshold
                /\ hasPermission(a, k, TRUE) \/ waitThreshold(a) = a.threshold
=============================================================================
