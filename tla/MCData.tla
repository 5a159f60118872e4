------------------------------- MODULE MCData -------------------------------
(* What the library reads and writes, each part explored by itself: p2p       *)
(* frames, table pages, signing requests, ABI encoded values, chain types,     *)
(* authorities, pages of proposals, prices, generated headers.                 *)
EXTENDS P2P, TableCursor, SigningRequest, Codec, ChainTypes, Authority, Msigs, ResourcePrices, Dkgen, TLC

VARIABLE part

(* P2P: whole messages, an empty one, one that is too long, one per read.     *)
MCStreams == {<<<<1>>, <<1, 2>>>>, <<<<>>, <<2, 1>>, <<1>>>>, <<<<1>>, <<1, 0, 1, 0, 1>>, <<1, 1>>>>}

(* TableCursor *)
MCFroms == {Null, -3}
MCTos == {Null, 2}
MCMaxRows == {2, Unlimited}

(* SigningRequest *)
Lvl(a, p) == [actor |-> a, permission |-> p]
Call(acc, au, d, b) == [account |-> acc, auth |-> au, data |-> d, bytes |-> b]
Ask0 == [kinds |-> {"action"}, actions |-> <<Call("tok", PlaceholderAuth, <<"P1", "bob">>, FALSE)>>,
         tapos |-> NoTapos, perm |-> NoPerm, scope |-> "", anyChain |-> FALSE, chainId |-> "eos",
         chainIds |-> {}, broadcast |-> "unset", callback |-> "url", info |-> <<>>]
MCCreateArgs ==
    {Ask0, [Ask0 EXCEPT !.kinds = {"actions"}], [Ask0 EXCEPT !.kinds = {"action", "actions"}],
     [Ask0 EXCEPT !.kinds = {"actions"}, !.chainId = "custom", !.callback = "",
                  !.actions = <<Call("tok", Lvl("P1", "P1"), <<"P2">>, TRUE),
                                Call("unk", Lvl("bob", "active"), <<>>, TRUE)>>],
     [Ask0 EXCEPT !.actions[1].account = "unk"]}
    \cup {[Ask0 EXCEPT !.kinds = {"transaction"}, !.tapos = t, !.anyChain = (c # {}), !.chainIds = c] :
             t \in {NoTapos, [expiration |-> 3, num |-> 1, prefix |-> 2]}, c \in {{}, {"eos", "custom"}}}
    \cup {[Ask0 EXCEPT !.kinds = k, !.perm = p, !.scope = s, !.anyChain = (c # {}), !.chainIds = c,
                       !.broadcast = b, !.info = i] :
             k \in {{"identity"}, {"identity", "action"}},
             p \in {NoPerm, PlaceholderAuth, Lvl("alice", "P2"), Lvl("P1", "P1"), Lvl("bob", "active")},
             s \in {"", "app"}, c \in {{}, {"eos"}}, b \in {"unset", "yes"},
             i \in {<<>>, <<[key |-> "chain_ids", chains |-> {"custom"}]>>}}
MCSigners == {Lvl("alice", "active"), Lvl("bob", "active")}
Ctx(e, n, p, b, t, c) ==
    [expiration |-> e, num |-> n, prefix |-> p, block |-> b, timestamp |-> t, chain |-> c]
MCContexts == {Ctx(5, 1, 4, None, None, c) : c \in {"", "eos", "custom"}}
              \cup {Ctx(None, None, 4, 3, 6, "eos"), Ctx(None, None, None, None, None, "custom")}

(* Codec: an ABI with aliases, a base struct, extensions, a variant and        *)
(* recursion, and values that fit it, nearly fit it and do not.                *)
T(n) == <<n, <<>>>>
TS(n, s) == <<n, s>>
MCAliases == ("A" :> T("uint8")) @@ ("AO" :> TS("uint8", <<"?">>)) @@ ("AS" :> T("S")) @@ ("int8" :> T("string"))
St(base, f) == [base |-> base, fields |-> f]
MCStructs == ("S" :> St("", <<<<"x", T("uint8")>>, <<"y", TS("string", <<"?">>)>>>>))
    @@ ("B" :> St("S", <<<<"z", T("A")>>, <<"o", T("AO")>>>>))
    @@ ("E" :> St("", <<<<"x", T("uint8")>>, <<"e", TS("uint8", <<"$">>)>>, <<"f", TS("S", <<"$">>)>>>>))
    @@ ("EA" :> St("", <<<<"e", TS("uint8", <<"[]", "$">>)>>, <<"g", TS("A", <<"$">>)>>>>))
    @@ ("Z" :> St("", <<>>))
    @@ ("R" :> St("", <<<<"next", TS("R", <<"?">>)>>>>))
    @@ ("L" :> St("L", <<>>))
    @@ ("abi_error" :> St("", <<<<"code", T("uint8")>>, <<"msg", T("string")>>>>))
    @@ ("abi_def" :> St("", <<<<"version", T("string")>>, <<"structs", TS("S", <<"[]">>)>>,
                              <<"error_messages", TS("abi_error", <<"[]">>)>>, <<"variants", TS("string", <<"[]", "$">>)>>>>))
MCVariants == ("V" :> <<T("uint8"), T("S"), TS("string", <<"[]">>)>>)
I(n) == <<"int", n>>
Str(s) == <<"str", s>>
Arr(s) == <<"arr", s>>
Ints == {JsonNull, I(0), I(3)}
Strs == {JsonNull, Str(<<>>), Str(<<3, 2>>)}
Obj(f) == <<"obj", f>>
SVals == {JsonNull} \cup {Obj([x |-> a, y |-> b]) : a \in Ints, b \in Strs}
RVals == LET r0 == Obj([next |-> JsonNull]) r1 == Obj([next |-> r0]) r2 == Obj([next |-> r1]) r3 == Obj([next |-> r2]) r4 == Obj([next |-> r3])
             r5 == Obj([next |-> r4]) r6 == Obj([next |-> r5])
         IN {r0, r1, r2, r3, r4, r5, r6}
Raw == {<<>>, <<1>>, <<3, 2>>, <<2, 1>>, <<1, 0, 3>>, <<0, 1, 2>>, <<3, 0, 1>>, <<2, 0, 1, 1, 1, 2>>, <<2, 0, 1, 1, 2, 2>>, <<2, 0, 1, 0, 1, 3>>}
Scalars == {I(n) : n \in {-9, -8, -4, -1, 0, 1, 2, 3, 4, 7, 8, 15}} \cup {<<"dec", n>> : n \in {-17, -16, -9, -8, -3, 0, 3, 4, 7, 8, 15, 16}}
MCCodecCases ==
    {<<T(b), v>> : b \in Builtins \ {"int8"}, v \in {Str(r) : r \in Raw} \cup {<<"bool", TRUE>>}}
    \cup {<<T(b), v>> : b \in Builtins \ {"int8", "asset", "name", "symbol"}, v \in Scalars}
    \cup {<<T(b), <<"dec", n>>>> : b \in {"asset", "name", "symbol"}, n \in {0, 3, 4, 15}} \cup {<<T("asset"), <<"dec", 255>>>>, <<T("name"), I(1)>>}
    \cup {<<T("uint8"), v>> : v \in Ints \cup Strs} \cup {<<T("AO"), v>> : v \in Ints}
    \cup {<<TS("uint8", s), v>> : s \in {<<"[]">>, <<"[2]">>, <<"[2]", "[]">>, <<"[]", "?">>, <<"?", "[]">>},
                              v \in {JsonNull} \cup {Arr(q) : q \in UNION {[1..k -> Ints] : k \in 0..3}}}
    \cup {<<t, v>> : t \in {T("S"), T("AS"), T("E"), T("int8")}, v \in SVals \cup Strs}
    \cup {<<T("B"), Obj([x |-> I(1), y |-> b, z |-> I(2), o |-> o])>> : b \in Strs, o \in Ints}
    \cup {<<T("E"), Obj([x |-> I(1), e |-> e, f |-> f])>> : e \in Ints, f \in SVals}
    \cup {<<T("EA"), Obj([e |-> e, g |-> g])>> : e \in {JsonNull, Arr(<<>>), Arr(<<I(1), JsonNull>>), Arr(<<I(1), I(2)>>)}, g \in Ints}
    \cup {<<TS("Z", <<"[]">>), Arr([i \in 1..k |-> Obj(<<>>)])>> : k \in 0..3}
    \cup {<<T("R"), v>> : v \in RVals} \cup {<<TS("R", <<"[]">>), Arr(<<v>>)>> : v \in RVals} \cup {<<T("L"), Obj(<<>>)>>}
    \cup {<<T("V"), v>> : v \in {<<"var", T("uint8"), I(1)>>, <<"var", T("S"), Obj([x |-> I(2), y |-> JsonNull])>>,
              <<"var", TS("string", <<"[]">>), Arr(<<Str(<<1>>)>>)>>, <<"bool", TRUE>>, Str(<<>>), <<"var", T("Q"), I(1)>>}}
    \cup {<<T("abi_def"), Obj([version |-> Str(<<1>>), structs |-> Arr(s), error_messages |-> Arr(e), variants |-> w])>> :
              s \in {<<>>, <<Obj([x |-> I(1), y |-> Str(<<0>>)])>>}, e \in {<<>>, <<Obj([code |-> I(1), msg |-> Str(<<>>)])>>},
              w \in {JsonNull, Arr(<<Str(<<1>>)>>)}}

(* ChainTypes: the ends of every range and the texts around them.             *)
MCDigits == <<"0", "1", "2", "3", "4">>
MCClock == [hours |-> 2, minutes |-> 2, seconds |-> 2, millis |-> 4, micros |-> 4, last |-> 2000000000]
MCOperands == {U(n % 64, n \div 64) : n \in {0, 1, 2, 7, 8, 63, 64, 65, 500, 2047, 2048, 2049, 3000, 4032, 4094, 4095}}
NatText == UNION {[1..n -> {"0", "1", "3", "4"}] : n \in 0..3}
MCNumberTexts == {s \o <<"1", "1", "2", "3", "4", "2">> : s \in {<<>>, <<"-">>}}
   \cup {s \o d : s \in {<<>>, <<"-">>, <<"+">>}, d \in {<<>>, <<"0">>, <<"0","0">>, <<"3">>, <<"0","4">>,<<"1","x">>,
       <<"1","1","2","3","4","0">>, <<"1","1","2","3","4","1">>, <<"1","1","2","3","4","2">>,<<"3","1","1","1","4","2">>,
       <<"3","1","1","1","4","3">>, <<"1","1","2","3","3","4">>, <<"4","4","4","4","4","4">>, <<"4","4","4","4","4","4","4">>}}
MCAmountTexts == {s \o d \o n : s \in {<<>>, <<"-">>},
     d \in NatText \cup {<<"1", ".", "2">>, <<".", "1">>, <<"1", ".">>, <<"0", ".", "0", "3">>, <<"1", ".", "1", ".", "1">>, <<"1",".","1","1">>,<<"1",".","1","2">>,<<"1",".","1","2","0">>,
       <<"0",".","0","0","0","1">>, <<"0",".","0","0","0","0","0","0","0","1">>},
     n \in {<<" ", "A">>, <<" ">>, <<" ", "A", "B", "A">>, <<" ", "A", "B", "a">>, <<" ", "a">>, <<" ", "A", " ", "B">>, <<>>}}
MCSymbolTexts == {d \o n : d \in NatText, n \in {<<",", "A">>, <<",">>, <<",", ",">>, <<"x", ",", "A">>, <<",", "a">>, <<>>}}
MCDates == [year : {0, 1, 1600, 1900, 1969, 1970, 1999, 2000, 2023, 2024, 2100, 9999}, month : {0, 1, 2, 3, 7, 12, 13}, day : {1, 28, 29, 31, 32},
   hour : {0, 1}, minute : {1}, second : {0, 1}, millis : {0, 1, 3}]
   \cup [year : {2000}, month : {2}, day : {1}, hour : {2}, minute : {2}, second : {2}, millis : {0}]
MCByteStrings == UNION {[1..n -> {0, 1, 4, 7}] : n \in 0..3}
MCOctetStrings == UNION {[1..n -> {0, 1, 130, 255}] : n \in 0..4}
MCKeys == {[form |-> "PVT", key |-> [curve |-> c, data |-> d]] : c \in {"K1", "R1", "WA"}, d \in [1..2 -> {0, 1, 4, 7}]}
   \cup {[form |-> "PUB", key |-> [curve |-> c, data |-> <<h>> \o d]] : c \in {"K1", "R1", "WA"}, h \in {2, 3}, d \in [1..2 -> {0, 1, 7}]}
   \cup {[form |-> "SIG", key |-> [curve |-> c, data |-> d]] : c \in {"K1", "R1", "WA"}, d \in [1..5 -> {0, 7}]}
MCNames == UNION {[1..n -> {0, 1, 16, 31}] : n \in 0..4}

(* Authority: webauthn keys that differ in the point, or in rpids of one and two *)
(* length bytes; waits that reach the threshold and pass it.                     *)
Wa(p, r) == [type |-> 2, point |-> p, rpid |-> r]
MCAuthKeys == {[type |-> 0, point |-> <<2>>, rpid |-> <<>>], [type |-> 1, point |-> <<1>>, rpid |-> <<>>],
               Wa(<<1>>, <<2>>), Wa(<<1>>, <<1, 3>>), Wa(<<1>>, <<1, 3, 1, 1>>), Wa(<<1>>, <<2, 1, 1, 1, 1>>), Wa(<<2>>, <<>>)}
MCAuthLevels == {<<1, 2>>, <<2, 1>>}
MCAuthWaits == {<<1, 1>>, <<2, 2>>}
MCAuthInputs == {NoAuthority, [threshold |-> 2, keys |-> <<[key |-> Wa(<<1>>, <<2>>), weight |-> 1],
      [key |-> Wa(<<1>>, <<1, 3>>), weight |-> 1], [key |-> [type |-> 0, point |-> <<2>>, rpid |-> <<>>], weight |-> 2]>>,
      accounts |-> <<[permission |-> <<2, 2>>, weight |-> 1], [permission |-> <<2, 1>>, weight |-> 1]>>, waits |-> <<<<2, 1>>, <<1, 1>>>>]}

(* Msigs: limits below, at and above what the service gives and what is assumed. *)
MCServiceMax == [proposals |-> 2, approvals |-> 4]
MCDefaultMax == [proposals |-> 3, approvals |-> 3]
MCGivenMax == {[proposals |-> a, approvals |-> b] : a \in {Unset, 2}, b \in {Unset, 5}}

(* ResourcePrices: the account and the network sampled, from nothing to the      *)
(* largest word.                                                                 *)
MCPrices == [powerup |-> [max : {0, 1, 5, 12, 31}, weighs : {0, 1, 2, 3, 7, 31}, units : {0, 1, 2, 5, 9, 31},
                          weight : {0, 1, 3, 10, 24, 25, 31}],
             ram |-> [base : {1, 2, 7, 16, 31}, quote : {0, 1, 5, 31}, value : {0, 1, 3, 7, 15, 31}],
             division |-> [a : {0, 1, 3, 12, 16, 31}, b : {0, 1, 2, 3, 6, 31}, precision : 0..4]]

(* Dkgen: every pair of suffixes on a type and on the alias it goes through, and *)
(* types that need each other in every way three can.                            *)
Nm(x) == <<x>>
MCSuffixes == {<<>>, <<"?">>, <<"[]">>, <<"$">>, <<"[]", "?">>, <<"?", "[]">>, <<"?", "$">>, <<"[]", "$">>, <<"[]", "[]">>}
Def(n, b, f) == [name |-> n, base |-> b, fields |-> f]
TypeAbi(f, t, ft, x) ==
    [structs |-> <<Def(Nm("s"), <<>>, <<<<f, ft>>>>), Def(Nm("t"), <<>>, <<>>)>>, variants |-> <<>>,
     types |-> <<[new_type_name |-> Nm("l"), type |-> t], [new_type_name |-> Nm("m"), type |-> <<Nm("l"), <<>>>>]>>,
     actions |-> <<[name |-> x, type |-> Nm("s")], [name |-> Nm("b"), type |-> Nm("t")], [name |-> Nm("c"), type |-> Nm("u")]>>]
MCFieldSets == {<<>>} \cup {<<<<Nm("f"), <<Nm(n), <<>>>>>>>> : n \in {"a", "b", "c", "u"}}
GraphAbi(b1, f1, b2, f2, v) ==
    [structs |-> <<Def(Nm("a"), b1, f1), Def(<<"b", ".">>, b2, f2)>>,
     variants |-> <<[name |-> Nm("c"), types |-> [i \in DOMAIN v |-> <<v[i], <<>>>>]]>>,
     types |-> <<[new_type_name |-> Nm("b"), type |-> <<<<"b", ".">>, <<"[]">>>>]>>, actions |-> <<>>]
MCAbis ==
    {TypeAbi(Nm("f"), <<t, a>>, <<n, s>>, Nm("1")) : t \in {Nm("u"), Nm("t")}, a \in MCSuffixes,
        n \in {Nm("u"), Nm("t"), Nm("l"), Nm("m"), Nm("q")}, s \in MCSuffixes}
    \cup {TypeAbi(f, <<Nm("u"), <<>>>>, <<Nm("l"), <<>>>>, x) : f \in {Nm("f"), Nm("x"), <<>>, Nm("!"), <<"f", "f", "f">>},
        x \in {<<"1", "a">>, <<"a", ".", "b">>, Nm("x")}}
    \cup {GraphAbi(b1, f1, b2, f2, v) : b1 \in {<<>>, Nm("a"), <<"b", ".">>}, b2 \in {<<>>, Nm("a")}, f1 \in MCFieldSets,
        f2 \in MCFieldSets, v \in UNION {[1..k -> {Nm("a"), Nm("b"), Nm("c")}] : k \in 1..2}}
MCCppKeywords == {Nm("x")}
MCGenTypes == {Nm("u")}

(* Values are exact, walks over proposals lose nothing, prices are right,        *)
(* generated types are the ABI's: see ChainTypes, Msigs, ResourcePrices, Dkgen.  *)
ChainDataExact == ValuesExact /\ PagesWhole /\ PricesExact /\ HeaderSound

MCInit ==
    /\ part \in {"p2p", "table", "request", "codec", "types", "authority", "msigs", "prices", "dkgen"}
    /\ P2PInit /\ (part = "p2p" \/ ~heartbeat)
    /\ TableInit /\ (part = "table" \/ (rows = {} /\ known))
    /\ CodecInit /\ (part = "codec" \/ (item = <<T("uint8"), I(0)>> /\ mode = "strict"))
    /\ MsigsInit /\ (part = "msigs" \/ (listing.kind = "proposals" /\ listing.rows = 0 /\ listing.limit = 1
                                         /\ \A k \in Kinds : msigLimits.max[k] = Unset))
    /\ RequestInit /\ TypesInit /\ AuthorityInit /\ PricesInit /\ GenInit
MCNext ==
    /\ UNCHANGED part
    /\ \/ part = "p2p" /\ P2PNext /\ UNCHANGED <<tableVars, requestVars, codecVars, typesVars, authorityVars, msigsVars, price, genVars>>
       \/ part = "table" /\ TableNext /\ UNCHANGED <<p2pVars, requestVars, codecVars, typesVars, authorityVars, msigsVars, price, genVars>>
       \/ part = "request" /\ RequestNext /\ UNCHANGED <<p2pVars, tableVars, codecVars, typesVars, authorityVars, msigsVars, price, genVars>>
       \/ part = "codec" /\ CodecNext /\ UNCHANGED <<p2pVars, tableVars, requestVars, typesVars, authorityVars, msigsVars, price, genVars>>
       \/ part = "types" /\ TypesNext /\ UNCHANGED <<p2pVars, tableVars, requestVars, codecVars, authorityVars, msigsVars, price, genVars>>
       \/ part = "authority" /\ AuthorityNext /\ UNCHANGED <<p2pVars, tableVars, requestVars, codecVars, typesVars, msigsVars, price, genVars>>
       \/ part = "msigs" /\ MsigsNext /\ UNCHANGED <<p2pVars, tableVars, requestVars, codecVars, typesVars, authorityVars, price, genVars>>
       \/ part = "prices" /\ PricesNext /\ UNCHANGED <<p2pVars, tableVars, requestVars, codecVars, typesVars, authorityVars, msigsVars, genVars>>
       \/ part = "dkgen" /\ GenNext /\ UNCHANGED <<p2pVars, tableVars, requestVars, codecVars, typesVars, authorityVars, msigsVars, price>>
dataVars == <<part, p2pVars, tableVars, requestVars, codecVars, typesVars, authorityVars, msigsVars, price, genVars>>
MCSpec == MCInit /\ [][MCNext]_dataVars
=============================================================================
