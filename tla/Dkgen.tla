-------------------------------- MODULE Dkgen --------------------------------
(* The contract header dkgen writes from an ABI (tools/dkgen/generator.cpp):     *)
(* which types it declares, in which order, with which layers around each        *)
(* member, and the action methods. A name is a sequence of characters, a type a  *)
(* name and its suffixes. What is left out is the text around it.                *)
EXTENDS Integers, Sequences, SequencesExt, FiniteSetsExt

CONSTANTS Abis,          \* [structs, variants, types, actions], each a sequence
          GenTypes,      \* the names of builtinTypes
          CppKeywords, SafeChars, MaxAbiName, NameDigits

VARIABLES source, header

NoHeader == [declared |-> <<>>, methods |-> <<>>, ok |-> FALSE]

-------------------------------------------------------------------------------
className(name) == SelectSeq(name, LAMBDA c : c # ".")
sanitizeIdentifier(name) ==
    LET dotless == [i \in DOMAIN name |-> IF name[i] = "." THEN "_" ELSE name[i]]
        rv == (IF dotless # <<>> /\ Head(dotless) \in NameDigits THEN <<"_">> ELSE <<>>) \o dotless
    IN  IF rv \in CppKeywords THEN Append(rv, "_") ELSE rv
isSafeAbiName(name) == Len(name) \in 1..MaxAbiName /\ Range(name) \subseteq SafeChars

Without(type, suffix) ==
    IF type[2] # <<>> /\ Last(type[2]) = suffix THEN <<type[1], Front(type[2])>> ELSE type
\* At most one of each suffix, and only in this order: what is left is the base.
parseTypeString(type) ==
    LET e == Without(type, "$")
        o == Without(e, "?")
        a == Without(o, "[]")
    IN  [base |-> a, array |-> a # o, optional |-> o # e, extension |-> e # type]

isAbiStructOrVariant(abi, base) ==
    \E d \in Range(abi.structs) \cup Range(abi.variants) : <<d.name, <<>>>> = base
\* One level of abi.types: the first alias of that name, as a sequence of at most one.
aliasTarget(abi, base) ==
    LET found == SelectSeq(abi.types, LAMBDA a : <<a.new_type_name, <<>>>> = base)
    IN  [i \in 1..(IF found = <<>> THEN 0 ELSE 1) |-> parseTypeString(found[i].type)]
\* The layers of an alias are merged into the ones it is used with, its extension is not.
Unaliased(abi, type) ==
    LET parsed == parseTypeString(type)
        target == aliasTarget(abi, parsed.base)
    IN  IF target = <<>> THEN parsed
        ELSE [parsed EXCEPT !.base = target[1].base, !.array = @ \/ target[1].array,
                            !.optional = @ \/ target[1].optional]
dependencyName(abi, type) == Unaliased(abi, type).base
Known(abi, type) ==
    LET base == Unaliased(abi, type).base
    IN  isAbiStructOrVariant(abi, base) \/ (base[2] = <<>> /\ base[1] \in GenTypes)
\* std::vector, std::optional and BinaryExtension around the type, from the inside; an
\* extension has no optional in it.
cppType(abi, type) ==
    LET parsed == Unaliased(abi, type)
        own == isAbiStructOrVariant(abi, parsed.base)
    IN  [own |-> own, name |-> IF own THEN className(parsed.base[1]) ELSE parsed.base[1],
         layers |-> (IF parsed.array THEN <<"[]">> ELSE <<>>)
                    \o (IF parsed.optional /\ ~parsed.extension THEN <<"?">> ELSE <<>>)
                    \o (IF parsed.extension THEN <<"$">> ELSE <<>>)]

\* The variants, then the structs; the types of a variant are members without a name.
collectStructs(abi) ==
    [i \in DOMAIN abi.variants |->
        [name |-> abi.variants[i].name, variant |-> TRUE, base |-> <<>>,
         members |-> [j \in DOMAIN abi.variants[i].types |-> <<<<>>, abi.variants[i].types[j]>>]]]
    \o [i \in DOMAIN abi.structs |->
        [name |-> abi.structs[i].name, variant |-> FALSE, base |-> abi.structs[i].base,
         members |-> abi.structs[i].fields]]
Named(all, base) == SelectSeq(all, LAMBDA d : <<d.name, <<>>>> = base)
FirstNamed(all, base) == SubSeq(Named(all, base), 1, IF Named(all, base) = <<>> THEN 0 ELSE 1)
\* The base, then the members' types, as far as the ABI defines them; not itself.
Dependencies(abi, all, item) ==
    FirstNamed(all, <<item.base, <<>>>>)
    \o FlattenSeq([i \in DOMAIN item.members |->
           LET base == dependencyName(abi, item.members[i][2])
           IN  IF base = <<item.name, <<>>>> THEN <<>> ELSE FirstNamed(all, base)])
RECURSIVE appendWithDependencies(_, _, _, _, _)
appendWithDependencies(abi, all, item, ordered, visiting) ==
    IF item.name \in visiting \cup {d.name : d \in Range(ordered)} THEN ordered
    ELSE FoldLeft(LAMBDA o, d : appendWithDependencies(abi, all, d, o, visiting \cup {item.name}),
                  ordered, Dependencies(abi, all, item))
         \o FirstNamed(all, <<item.name, <<>>>>)

SafeNames(abi) ==
    /\ \A s \in Range(abi.structs) : isSafeAbiName(s.name) /\ \A f \in Range(s.fields) : isSafeAbiName(f[1])
    /\ \A v \in Range(abi.variants) : isSafeAbiName(v.name)
    /\ \A t \in Range(abi.types) : isSafeAbiName(t.new_type_name)
Declaration(abi, item) ==
    [name |-> item.name, class |-> className(item.name), base |-> className(item.base),
     members |-> [i \in DOMAIN item.members |-> cppType(abi, item.members[i][2])]]
Methods(abi) ==
    LET typed == SelectSeq(abi.actions, LAMBDA a : isAbiStructOrVariant(abi, <<a.type, <<>>>>))
    IN  [i \in DOMAIN typed |-> [name |-> sanitizeIdentifier(typed[i].name), takes |-> className(typed[i].type)]]
\* The whole header, or none of it.
run(abi) ==
    LET all == collectStructs(abi)
        ordered == FoldLeft(LAMBDA o, item : appendWithDependencies(abi, all, item, o, {}), <<>>, all)
    IN  IF /\ SafeNames(abi)
           /\ \A d \in Range(ordered) : \A f \in Range(d.members) :
                  (d.variant \/ f[1] \notin CppKeywords) /\ Known(abi, f[2])
        THEN [declared |-> [i \in DOMAIN ordered |-> Declaration(abi, ordered[i])],
              methods |-> Methods(abi), ok |-> TRUE]
        ELSE NoHeader

generateContractHeader == \E abi \in Abis : source' = <<abi>> /\ header' = run(abi)
GenInit == source = <<>> /\ header = NoHeader
GenNext == source = <<>> /\ generateContractHeader
genVars == <<source, header>>

-------------------------------------------------------------------------------
\* What the ABI says of a type: the suffixes of its aliases, then its own.
Resolved(abi, type) ==
    LET found == SelectSeq(abi.types, LAMBDA a : a.new_type_name = type[1])
    IN  IF found = <<>> THEN type ELSE <<found[1].type[1], found[1].type[2] \o type[2]>>
\* The shapes a generated member can have.
Flat == {<<>>, <<"[]">>, <<"?">>, <<"[]", "?">>, <<"$">>, <<"[]", "$">>}
\* An alias of an extension, of which no member says so itself.
ExtendedAlias(abi) == \E a \in Range(abi.types) : "$" \in Range(a.type[2])
Needs(abi, item) == {d.name : d \in Range(Dependencies(abi, collectStructs(abi), item))}
\* Some set of types has no member that needs nothing else of the set.
Cyclic(abi) ==
    LET all == Range(collectStructs(abi))
    IN  \E loop \in SUBSET all : loop # {} /\ \A d \in loop : \E e \in loop : e.name \in Needs(abi, d)

\* Generator::run declares every struct and variant of the ABI once, after its base
\* and the types of its members unless the ABI's types need each other in a circle;
\* the layers around a member are those its ABI type has with its alias resolved, as
\* long as they are a shape the header can express. Any other shape that passes is
\* silently another type on the wire: an optional extension loses its optional
\* (generator.cpp:193), an array of an alias of an array becomes one array and an array
\* of an optional an optional array (:179), an alias loses its extension (:177). And every
\* action of a declared type has a method of its own.
HeaderSound == header.ok =>
    LET abi == source[1]
        items == collectStructs(abi)
        decl == header.declared
    IN  /\ {d.name : d \in Range(decl)} = {d.name : d \in Range(items)}
        /\ \A i, j \in DOMAIN decl : i # j => decl[i].name # decl[j].name
        /\ \A i \in DOMAIN decl :
             LET earlier == {decl[j].class : j \in 1..(i - 1)}
                 item == CHOOSE d \in Range(items) : d.name = decl[i].name
             IN  /\ Len(decl[i].members) = Len(item.members)
                 /\ \A k \in DOMAIN item.members :
                      LET type == Resolved(abi, item.members[k][2])
                          member == decl[i].members[k]
                      IN  /\ member.name = IF member.own THEN className(type[1]) ELSE type[1]
                          /\ type[2] \in Flat /\ ~ExtendedAlias(abi) => member.layers = type[2]
                          /\ ~Cyclic(abi) /\ member.own => member.name \in earlier \cup {decl[i].class}
                 /\ ~Cyclic(abi) /\ Named(items, <<item.base, <<>>>>) # <<>> => decl[i].base \in earlier
        /\ \A a \in Range(abi.actions) : isAbiStructOrVariant(abi, <<a.type, <<>>>>) =>
             \E unique \in DOMAIN header.methods :
                 /\ header.methods[unique].takes = className(a.type)
                 /\ \A other \in DOMAIN header.methods :
                        header.methods[other].name = sanitizeIdentifier(a.name) <=> other = unique
===============================================================================
