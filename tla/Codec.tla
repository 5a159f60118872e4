---------------------------------- MODULE Codec ----------------------------------
(* The ABI serializer: src/antelope/serializer/serializer.cpp (a JSON value, a  *)
(* type name and an ABI), include/dwarfkit/antelope/serializer/traits.hpp (C++  *)
(* types) and src/antelope/chain/abi.cpp. A JSON value is a tuple that starts   *)
(* with its kind; bytes are scaled down to 2 * Group values, one bit of which   *)
(* is the continuation bit of a varuint32. A text that stands for a number (a   *)
(* long integer, a name, an asset, a time) is <<"dec", number>>, a text that    *)
(* stands for bytes (hex, a key) <<"str", bytes>>: the texts themselves are     *)
(* those of module ChainTypes.                                                  *)
EXTENDS Integers, Sequences, SequencesExt, FiniteSets, FiniteSetsExt, Functions

CONSTANTS
    Aliases,          \* abi.types: name -> type
    Structs,          \* name -> [base, fields: sequence of <<name, type>>]
    Variants,         \* name -> sequence of types
    CodecCases,       \* the <<type, value>> pairs to encode
    AbiNames,         \* the types of CodecCases that describe an ABI itself
    Group,            \* values of a varuint32 group (2^7)
    MaxGroups,        \* groups of a varuint32 (5)
    VarWord,          \* values of a varuint32 (2^32)
    RawSize,          \* bytes of a checksum, and of a curve point (32, 33)
    MaxCodingDepth    \* maxCodingDepth (32)

Byte == 0..(2 * Group - 1)
JsonNull == <<"null">>
(* The builtin types, by what their traits write. json says which JSON an       *)
(* integer is read from and written as.                                         *)
IntType(width, signed, j) == [wire |-> "int", width |-> width, signed |-> signed, json |-> j]
WireType(w) == [wire |-> w, width |-> 0, signed |-> FALSE, json |-> "number"]
boolTraits == WireType("bool")
stringTraits == WireType("text")
bytesTraits == WireType("bytes")
checksumTraits == WireType("fixed")
publicKeyTraits == WireType("key")
signatureTraits == WireType("sig")
varuintTraits == WireType("varuint")
varintTraits == [WireType("varint") EXCEPT !.signed = TRUE]
(* 32 bits and less are JSON numbers, 64 bits only while they fit 32.           *)
intTraits(width, signed) == IntType(width, signed, IF width = 1 THEN "number" ELSE "long")
nameTraits == IntType(2, FALSE, "dec")
symbolTraits == IntType(2, FALSE, "dec")
assetTraits == IntType(4, FALSE, "dec")
(* A time is a number of its unit or a text.                                    *)
timePointTraits == IntType(2, TRUE, "time")
timePointSecTraits == IntType(1, FALSE, "time")
BuiltinTypes ==
    [bool |-> boolTraits, string |-> stringTraits, bytes |-> bytesTraits,
     uint8 |-> intTraits(1, FALSE), int8 |-> intTraits(1, TRUE),
     uint64 |-> intTraits(2, FALSE), int64 |-> intTraits(2, TRUE),
     varuint32 |-> varuintTraits, varint32 |-> varintTraits,
     name |-> nameTraits, symbol |-> symbolTraits, asset |-> assetTraits,
     time_point |-> timePointTraits, time_point_sec |-> timePointSecTraits,
     checksum256 |-> checksumTraits, public_key |-> publicKeyTraits, signature |-> signatureTraits]
Builtins == DOMAIN BuiltinTypes

VARIABLES
    item,        \* the case
    bytes,       \* what encode() wrote, or its error
    cut,         \* bytes removed from the end before decoding
    mode,        \* "dynamic", "strict" (strictExtensions) or "typed" (traits.hpp)
    back         \* what decode() returned

codecVars == <<item, bytes, cut, mode, back>>

Bad(why) == [ok |-> FALSE, why |-> why]
Good(out) == [ok |-> TRUE, out |-> out]
Read(val, rest) == [ok |-> TRUE, val |-> val, rest |-> rest]
(* DK_TRY: what comes next, unless there was an error. *)
Try(r, Then(_)) == IF r.ok THEN Then(r) ELSE r
Prefixed(p, r) == Try(r, LAMBDA x : Good(p \o x.out))

(* ------------------------------- types and names ------------------------------- *)
(* ResolvedNode::parse: "$", "?", "[]" and "[2]" are taken off in this order; a  *)
(* suffix that is left makes the name unknown. A type is <<name, suffixes>>.     *)
Strip(suf, s) == IF suf # <<>> /\ Last(suf) = s THEN Front(suf) ELSE suf
parse(type) ==
    LET s1 == Strip(type[2], "$")
        s2 == Strip(s1, "?")
        s3 == Strip(s2, "[]")
        s4 == Strip(s3, "[2]")
    IN  [name |-> IF s4 = <<>> THEN type[1] ELSE "unknown",
         ext |-> s1 # type[2], opt |-> s2 # s1, isArray |-> s4 # s2,
         size |-> IF s4 # s3 THEN 2 ELSE -1]
typeName(n) ==
    <<n.name, (IF n.isArray THEN <<IF n.size = 2 THEN "[2]" ELSE "[]">> ELSE <<>>)
              \o (IF n.opt THEN <<"?">> ELSE <<>>) \o (IF n.ext THEN <<"$">> ELSE <<>>)>>

(* ABI::resolve: a name is an alias, else a struct, else a variant. *)
Kind(n) == IF n.name \in DOMAIN Aliases THEN "alias"
           ELSE IF n.name \in DOMAIN Structs THEN "struct"
           ELSE IF n.name \in DOMAIN Variants THEN "variant"
           ELSE IF n.name \in Builtins THEN "builtin" ELSE "unknown"

(* allFields: those of the base first; none when the bases are circular. *)
RECURSIVE allFields(_, _)
allFields(name, seen) ==
    IF name = "" THEN Good(<<>>)
    ELSE IF name \in seen \/ name \notin DOMAIN Structs \/ name \in DOMAIN Aliases THEN Bad("invalid")
    ELSE Try(allFields(Structs[name].base, seen \cup {name}),
             LAMBDA base : Good(base.out \o Structs[name].fields))

(* ---------------------------------- numbers ---------------------------------- *)
(* writeVaruint32 and readVaruint32. *)
RECURSIVE writeVaruint32(_)
writeVaruint32(v) == IF v >= Group THEN <<Group + (v % Group)>> \o writeVaruint32(v \div Group) ELSE <<v>>
RECURSIVE readVaruint32(_, _)
readVaruint32(b, groups) ==
    IF b = <<>> \/ groups = MaxGroups THEN Bad("invalid")
    ELSE IF b[1] < Group THEN Read(b[1], Tail(b))
    ELSE Try(readVaruint32(Tail(b), groups + 1),
             LAMBDA r : Read(((b[1] - Group) + Group * r.val) % VarWord, r.rest))
readByte(b) == IF b = <<>> THEN Bad("invalid") ELSE Read(b[1], Tail(b))

(* writeInt and readInt: little endian, modulo the width. *)
Values(k) == CASE k.wire = "int" -> (2 * Group)^k.width [] OTHER -> VarWord
writeInt(n, width) == [i \in 1..width |-> (n \div (2 * Group)^(i - 1)) % (2 * Group)]
readInt(b) == MapThenSumSet(LAMBDA i : b[i] * (2 * Group)^(i - 1), DOMAIN b)
readArray(b, n) == IF n > Len(b) THEN Bad("invalid") ELSE Read(SubSeq(b, 1, n), SubSeq(b, n + 1, Len(b)))
(* The static_cast to the C++ type: a number out of its range wraps silently. *)
Wrapped(n, k) == LET u == n % Values(k) IN IF k.signed /\ u >= Values(k) \div 2 THEN u - Values(k) ELSE u
(* writeVarint32 and readVarint32: the sign goes into the lowest bit. *)
zigzag(n) == IF n >= 0 THEN 2 * n ELSE -2 * n - 1
unzigzag(u) == IF u % 2 = 1 THEN -((u + 1) \div 2) ELSE u \div 2
(* isValidUTF8, scaled down: the lower half of the bytes is ASCII, of the upper  *)
(* half the last byte starts a character and the others go on with it.           *)
isValidUTF8(s) ==
    \A i \in DOMAIN s :
        /\ s[i] = 2 * Group - 1 => i < Len(s) /\ s[i + 1] \in Group..(2 * Group - 2)
        /\ s[i] \in Group..(2 * Group - 2) => i > 1 /\ s[i - 1] = 2 * Group - 1

(* jsonToInt: a number, or a text that stoll or stoull takes.                    *)
Long == (2 * Group)^2
jsonToInt(k, v) ==
    CASE v[1] = "int" -> Good(Wrapped(v[2], k))
      [] v[1] = "dec" /\ v[2] \in (IF k.signed THEN (-(Long \div 2))..(Long \div 2 - 1) ELSE (1 - Long)..(Long - 1)) ->
            Good(Wrapped(v[2], k))
      [] OTHER -> Bad("invalid")
(* fromJSON of the traits: a name and an asset are only text, a time both. A     *)
(* bool may be a number. A checksum has its size, a key of the types 0 and 1 too; *)
(* one of type 2 is taken as it is.                                              *)
fromJSON(k, v) ==
    CASE k.wire = "bool" /\ v[1] = "bool" -> Good(v[2])
      [] k.wire = "bool" /\ v[1] = "int" -> Good(v[2] # 0)
      [] k.wire \in {"int", "varint", "varuint"} /\ k.json \in {"number", "long"} -> jsonToInt(k, v)
      [] k.wire = "int" /\ (v[1] = "dec" \/ (v[1] = "int" /\ k.json = "time")) -> Good(Wrapped(v[2], k))
      [] k.wire \in {"text", "bytes"} /\ v[1] = "str" -> Good(v[2])
      [] k.wire = "fixed" /\ v[1] = "str" /\ Len(v[2]) = RawSize -> Good(v[2])
      [] k.wire \in {"key", "sig"} /\ v[1] = "str" /\ v[2] # <<>> /\ v[2][1] <= 2
            /\ (v[2][1] < 2 => Len(v[2]) = 1 + RawSize) -> Good(v[2])
      [] OTHER -> Bad("invalid")
(* toJSON: intToJSON writes long integers as text once they leave 32 bits.      *)
toJSON(k, x) ==
    CASE k.wire = "bool" -> <<"bool", x>>
      [] k.wire \in {"text", "bytes", "fixed", "key", "sig"} -> <<"str", x>>
      [] k.json = "number" \/ (k.json = "long" /\ x \in (1 - 2 * Group)..(2 * Group - 1)) -> <<"int", x>>
      [] OTHER -> <<"dec", x>>
toABI(k, x) ==
    CASE k.wire = "bool" -> <<IF x THEN 1 ELSE 0>>
      [] k.wire = "int" -> writeInt(x, k.width)
      [] k.wire = "varuint" -> writeVaruint32(x)
      [] k.wire = "varint" -> writeVaruint32(zigzag(x))
      [] k.wire \in {"text", "bytes"} -> writeVaruint32(Len(x)) \o x
      [] OTHER -> x
(* A key or a signature of type 2: a point (and a byte), then one or two runs   *)
(* that each tell their own length.                                             *)
RECURSIVE readRuns(_, _)
readRuns(b, n) ==
    IF n = 0 THEN Read(<<>>, b)
    ELSE Try(Try(readVaruint32(b, 0), LAMBDA len : readArray(len.rest, len.val)),
             LAMBDA run : readRuns(run.rest, n - 1))
readKey(b, wire) ==
    LET point == IF wire = "key" THEN RawSize + 2 ELSE RawSize + 1
    IN  IF b = <<>> THEN Bad("invalid")
        ELSE IF b[1] < 2 THEN readArray(b, 1 + RawSize)
        ELSE IF b[1] > 2 \/ Len(b) < point THEN Bad("invalid")
        ELSE Try(readRuns(SubSeq(b, point + 1, Len(b)), IF wire = "key" THEN 1 ELSE 2),
                 LAMBDA runs : readArray(b, Len(b) - Len(runs.rest)))
readText(b, wire) ==
    Try(Try(readVaruint32(b, 0), LAMBDA len : readArray(len.rest, len.val)),
        LAMBDA s : IF wire = "text" /\ ~isValidUTF8(s.val) THEN Bad("invalid") ELSE s)
fromABI(k, b) ==
    CASE k.wire = "bool" -> Try(readByte(b), LAMBDA r : Read(r.val = 1, r.rest))
      [] k.wire = "int" -> Try(readArray(b, k.width), LAMBDA r : Read(Wrapped(readInt(r.val), k), r.rest))
      [] k.wire = "varint" -> Try(readVaruint32(b, 0), LAMBDA r : Read(unzigzag(r.val), r.rest))
      [] k.wire = "varuint" -> readVaruint32(b, 0)
      [] k.wire \in {"text", "bytes"} -> readText(b, k.wire)
      [] k.wire \in {"key", "sig"} -> readKey(b, k.wire)
      [] k.wire = "fixed" -> readArray(b, RawSize)
(* makeBuiltin: encodeJSON, decodeBinary, decodeJSON and the default. *)
encodeBuiltin(name, v) ==
    Try(fromJSON(BuiltinTypes[name], v), LAMBDA x : Good(toABI(BuiltinTypes[name], x.out)))
decodeBuiltin(name, b) ==
    Try(fromABI(BuiltinTypes[name], b), LAMBDA r : Read(toJSON(BuiltinTypes[name], r.val), r.rest))
objectBuiltin(name, v) ==
    Try(fromJSON(BuiltinTypes[name], v), LAMBDA x : Good(toJSON(BuiltinTypes[name], x.out)))
defaultBuiltin(name) ==
    LET k == BuiltinTypes[name]
    IN  toJSON(k, CASE k.wire = "bool" -> FALSE
                    [] k.wire \in {"text", "bytes"} -> <<>>
                    [] k.wire = "fixed" -> [i \in 1..RawSize |-> 0]
                    [] k.wire \in {"key", "sig"} -> [i \in 1..(1 + RawSize) |-> 0]
                    [] OTHER -> 0)

FieldOf(v, name) == IF name \in DOMAIN v[2] THEN v[2][name] ELSE JsonNull
(* The alternative a variant's JSON names: [type, value], a string or a bool. *)
Alternative(n, v) ==
    LET named == IF v[1] = "var" THEN v[2] ELSE IF v[1] = "str" THEN <<"string", <<>>>>
                 ELSE IF v[1] = "bool" THEN <<"bool", <<>>>> ELSE <<"undefined", <<>>>>
    IN  SelectInSeq(Variants[n.name], LAMBDA t : typeName(parse(t)) = named)

(* ------------------------- encodeAny and encodeInner ------------------------- *)
(* In the typed mode the same values go through the traits of traits.hpp, where *)
(* an absent extension of any type writes nothing.                              *)
RECURSIVE encodeAny(_, _, _, _), encodeInner(_, _, _, _), encodeFields(_, _, _, _, _),
          encodeItems(_, _, _, _, _)
encodeAny(v, n, depth, m) ==
    IF m # "typed" /\ depth > MaxCodingDepth THEN Bad("depth")
    ELSE IF m = "typed" /\ n.ext /\ v = JsonNull THEN Good(<<>>)
    ELSE IF n.opt /\ v = JsonNull THEN Good(<<0>>)
    ELSE Prefixed(IF n.opt THEN <<1>> ELSE <<>>,
           IF ~n.isArray THEN encodeInner(v, n, depth + 1, m)
           ELSE IF v[1] # "arr" THEN Bad("invalid")
           ELSE Prefixed(IF n.size = -1 THEN writeVaruint32(Len(v[2])) ELSE <<>>,
                         encodeItems(v[2], 1, n, depth + 1, m)))
encodeItems(vs, i, n, depth, m) ==
    IF i > Len(vs) THEN Good(<<>>)
    ELSE Try(encodeInner(vs[i], n, depth, m), LAMBDA r : Prefixed(r.out, encodeItems(vs, i + 1, n, depth, m)))
encodeFields(v, fields, i, depth, m) ==
    IF i > Len(fields) THEN Good(<<>>)
    ELSE Try(encodeAny(FieldOf(v, fields[i][1]), parse(fields[i][2]), depth, m),
             LAMBDA r : Prefixed(r.out, encodeFields(v, fields, i + 1, depth, m)))
encodeInner(v, n, depth, m) ==
    IF Kind(n) = "alias" /\ (n.name \notin Builtins \/ m = "typed")
    THEN encodeAny(v, parse(Aliases[n.name]), depth, m)
    ELSE IF v = JsonNull THEN (IF n.ext THEN Good(<<>>) ELSE Bad("invalid"))
    ELSE CASE Kind(n) = "struct" ->
                IF v[1] # "obj" THEN Bad("invalid")
                ELSE Try(allFields(n.name, {}), LAMBDA fields : encodeFields(v, fields.out, 1, depth, m))
           [] Kind(n) = "variant" ->
                LET k == Alternative(n, v)
                IN  IF k = 0 THEN Bad("invalid")
                    ELSE Prefixed(writeVaruint32(k - 1),
                                  encodeAny(IF v[1] = "var" THEN v[3] ELSE v,
                                            parse(Variants[n.name][k]), depth, m))
           [] OTHER -> IF n.name \in Builtins THEN encodeBuiltin(n.name, v) ELSE Bad("invalid")

(* ------------------------ defaultValue, strictExtensions ------------------------ *)
RECURSIVE defaultValue(_, _), defaultFields(_, _, _)
defaultFields(fields, i, seen) ==
    IF i > Len(fields) THEN Good(<<>>)
    ELSE Try(defaultValue(parse(fields[i][2]), seen),
             LAMBDA r : Prefixed(<<<<fields[i][1], r.out>>>>, defaultFields(fields, i + 1, seen)))
ObjectOf(pairs) == <<"obj", [name \in {pairs[i][1] : i \in DOMAIN pairs} |->
                              pairs[CHOOSE i \in DOMAIN pairs : pairs[i][1] = name][2]]>>
defaultValue(n, seen) ==
    IF n.isArray THEN Good(<<"arr", <<>>>>)
    ELSE IF n.opt THEN Good(JsonNull)
    ELSE IF Kind(n) = "builtin" THEN Good(defaultBuiltin(n.name))
    ELSE IF n.name \in seen \/ Kind(n) = "unknown" THEN Bad("invalid")
    ELSE CASE Kind(n) = "alias" -> defaultValue(parse(Aliases[n.name]), seen \cup {n.name})
           [] Kind(n) = "struct" ->
                Try(Try(allFields(n.name, {}), LAMBDA fields : defaultFields(fields.out, 1, seen \cup {n.name})),
                    LAMBDA r : Good(ObjectOf(r.out)))
           [] Kind(n) = "variant" ->
                Try(defaultValue(parse(Variants[n.name][1]), {}),
                    LAMBDA r : Good(<<"var", typeName(parse(Variants[n.name][1])), r.out>>))

(* --------------------------- decodeBinary and Inner --------------------------- *)
(* A mutant: a missing extension is read like any other field. *)
AbsentNever(n, b) == FALSE
Absent(n, b) == n.ext /\ b = <<>>
(* The index of a variant: one byte in serializer.cpp, a varuint32 in traits.hpp. *)
readVariantIdx(b, m) == IF m = "typed" THEN readVaruint32(b, 0) ELSE readByte(b)

RECURSIVE decodeBinary(_, _, _, _), decodeBinaryInner(_, _, _, _), decodeItems(_, _, _, _, _, _),
          decodeFields(_, _, _, _, _, _), decodeAlternative(_, _, _, _)
decodeBinary(n, b, path, m) ==
    IF m # "typed" /\ path > MaxCodingDepth THEN Bad("depth")
    ELSE IF Absent(n, b)
    THEN (IF m # "strict" THEN Read(JsonNull, b)
          ELSE Try(defaultValue(n, {}), LAMBDA d : Read(d.out, b)))
    ELSE IF n.opt /\ b = <<>> THEN Bad("invalid")
    ELSE IF n.opt /\ b[1] = 0 THEN Read(JsonNull, Tail(b))
    ELSE LET c == IF n.opt THEN Tail(b) ELSE b
         IN  IF ~n.isArray THEN decodeBinaryInner(n, c, path, m)
             ELSE Try(IF n.size # -1 THEN Read(n.size, c) ELSE readVaruint32(c, 0),
                      LAMBDA len : decodeItems(n, len.val, len.rest, <<>>, path + 1, m))
decodeItems(n, len, b, done, path, m) ==
    IF Len(done) = len THEN Read(<<"arr", done>>, b)
    ELSE Try(decodeBinaryInner(n, b, path, m),
             LAMBDA r : IF r.rest = b /\ Len(done) >= Len(b) + 1 THEN Bad("invalid")
                        ELSE decodeItems(n, len, r.rest, Append(done, r.val), path, m))
decodeFields(fields, i, b, done, path, m) ==
    IF i > Len(fields) THEN Read(ObjectOf(done), b)
    ELSE Try(decodeBinary(parse(fields[i][2]), b, path, m),
             LAMBDA r : decodeFields(fields, i + 1, r.rest, Append(done, <<fields[i][1], r.val>>), path, m))
(* A variant's value with the name of its type. *)
decodeAlternative(t, b, path, m) ==
    Try(decodeBinary(t, b, path, m), LAMBDA r : Read(<<"var", typeName(t), r.val>>, r.rest))
decodeBinaryInner(n, b, path, m) ==
    CASE Kind(n) = "builtin" -> decodeBuiltin(n.name, b)
      [] Kind(n) = "alias" -> decodeBinary(parse(Aliases[n.name]), b, path + 1, m)
      [] Kind(n) = "struct" ->
           Try(allFields(n.name, {}), LAMBDA fields : decodeFields(fields.out, 1, b, <<>>, path + 1, m))
      [] Kind(n) = "variant" ->
           Try(readVariantIdx(b, m), LAMBDA k :
               IF k.val >= Len(Variants[n.name]) THEN Bad("invalid")
               ELSE decodeAlternative(parse(Variants[n.name][k.val + 1]), k.rest, path + 1, m))
      [] OTHER -> Bad("invalid")

(* ----------------------------- decodeObject ----------------------------- *)
RECURSIVE decodeObject(_, _, _), decodeObjectInner(_, _, _)
Sequential(rs) == IF \A i \in DOMAIN rs : rs[i].ok THEN Good([i \in DOMAIN rs |-> rs[i].out]) ELSE Bad("invalid")
decodeObject(v, n, depth) ==
    IF depth > MaxCodingDepth THEN Bad("depth")
    ELSE IF v = JsonNull THEN (IF n.opt \/ n.ext THEN Good(JsonNull) ELSE Bad("invalid"))
    ELSE IF ~n.isArray THEN decodeObjectInner(v, n, depth + 1)
    ELSE IF v[1] # "arr" THEN Bad("invalid")
    ELSE Try(Sequential([i \in DOMAIN v[2] |-> decodeObjectInner(v[2][i], n, depth + 1)]),
             LAMBDA rs : Good(<<"arr", rs.out>>))
decodeObjectInner(v, n, depth) ==
    CASE Kind(n) = "alias" /\ n.name \notin Builtins -> decodeObject(v, parse(Aliases[n.name]), depth)
      [] Kind(n) = "struct" ->
           IF v[1] # "obj" THEN Bad("invalid")
           ELSE Try(allFields(n.name, {}), LAMBDA fields :
                Try(Sequential([i \in DOMAIN fields.out |->
                                   decodeObject(FieldOf(v, fields.out[i][1]), parse(fields.out[i][2]), depth)]),
                    LAMBDA rs : Good(ObjectOf([i \in DOMAIN rs.out |-> <<fields.out[i][1], rs.out[i]>>]))))
      [] Kind(n) = "variant" ->
           LET t == Variants[n.name][Alternative(n, v)]
           IN  IF Alternative(n, v) = 0 THEN Bad("invalid")
               ELSE Try(decodeObject(IF v[1] = "var" THEN v[3] ELSE v, parse(t), depth),
                        LAMBDA r : Good(<<"var", typeName(parse(t)), r.out>>))
      [] OTHER -> IF n.name \in Builtins THEN objectBuiltin(n.name, v) ELSE Bad("invalid")

(* --------------------------- Serializer and ABI --------------------------- *)
(* ABI::toABI writes no error messages and no extensions; fromABI skips them,   *)
(* and takes missing variants and action results for none.                      *)
Dropped(v) == <<"obj", [v[2] EXCEPT !["error_messages"] = <<"arr", <<>>>>,
                                    !["variants"] = IF @ = JsonNull THEN <<"arr", <<>>>> ELSE @]>>
IsAbi(c) == c[1][1] \in AbiNames
Encode ==
    /\ bytes = Bad("not yet")
    /\ bytes' = IF IsAbi(item) THEN encodeAny(Dropped(item[2]), parse(item[1]), 0, "typed")
                ELSE encodeAny(item[2], parse(item[1]), 0, mode)
    /\ UNCHANGED <<item, cut, mode, back>>
Truncate ==
    /\ bytes.ok /\ back = Bad("not yet") /\ cut = 0
    /\ cut' \in 1..Len(bytes.out)
    /\ UNCHANGED <<item, bytes, mode, back>>
Decode ==
    /\ bytes.ok /\ back = Bad("not yet")
    /\ LET b == SubSeq(bytes.out, 1, Len(bytes.out) - cut)
           r == decodeBinary(parse(item[1]), b, 1, IF IsAbi(item) THEN "typed" ELSE mode)
       IN  back' = IF IsAbi(item) THEN Try(r, LAMBDA x : [x EXCEPT !.val = Dropped(@)]) ELSE r
    /\ UNCHANGED <<item, bytes, cut, mode>>

CodecInit ==
    /\ item \in CodecCases /\ mode \in {"dynamic", "strict", "typed"}
    /\ bytes = Bad("not yet") /\ cut = 0 /\ back = Bad("not yet")
CodecNext == Encode \/ Truncate \/ Decode

(* ------------------------------ the promise ------------------------------ *)
(* Where encode() and decode() of this code are known not to be inverses: a    *)
(* fixed size array of another length, an array element or an extension before *)
(* a present field that is null, an array of elements without bytes, a variant *)
(* index of more than one group outside traits.hpp, an alias that takes a      *)
(* builtin's name, a text that is not UTF-8 and a key of type 2 that is not    *)
(* one. The value names every field, as decode() returns it.                   *)
Legible(name, x) ==
    LET w == BuiltinTypes[name].wire
    IN  /\ w = "text" => isValidUTF8(x)
        /\ w \in {"key", "sig"} => readKey(x, w) = Read(x, <<>>)
RECURSIVE Regular(_, _, _)
Regular(v, n, m) ==
    IF v = JsonNull THEN TRUE
    ELSE IF n.isArray
    THEN /\ v[1] = "arr" /\ (n.size # -1 => Len(v[2]) = n.size)
         /\ \A i \in DOMAIN v[2] : v[2][i] # JsonNull
                 /\ (v[2][i][1] = "obj" => v[2][i][2] # << >>)
                 /\ Regular(v[2][i], [n EXCEPT !.isArray = FALSE], m)
    ELSE CASE Kind(n) = "alias" -> n.name \notin Builtins /\ Regular(v, parse(Aliases[n.name]), m)
           [] Kind(n) = "struct" ->
                LET fs == allFields(n.name, {}).out
                    node(i) == parse(fs[i][2])
                IN  /\ v[1] = "obj" /\ DOMAIN v[2] = {fs[i][1] : i \in DOMAIN fs}
                    /\ \A i \in DOMAIN fs :
                      /\ Regular(FieldOf(v, fs[i][1]), node(i), m)
                      /\ node(i).ext /\ FieldOf(v, fs[i][1]) = JsonNull =>
                            \A j \in (i + 1)..Len(fs) : node(j).ext /\ ~node(j).opt /\ FieldOf(v, fs[j][1]) = JsonNull
           [] Kind(n) = "variant" ->
                /\ v[1] = "var" /\ (m = "typed" \/ Alternative(n, v) <= Group)
                /\ Regular(v[3], parse(Variants[n.name][Alternative(n, v)]), m)
           [] OTHER -> n.name \in Builtins /\ objectBuiltin(n.name, v) = Good(v)
                       /\ Legible(n.name, v[2])

(* The type of an extension somewhere in the item: bytes may end before it. *)
Extended(n) == Kind(n) = "struct" /\ \E i \in DOMAIN Structs[n.name].fields : parse(Structs[n.name].fields[i][2]).ext

(* What encode() wrote for a regular value decodes, to that value and to the    *)
(* last byte, unless it nests too deeply for the decoder; absent extensions     *)
(* come back as null, or as their default with strictExtensions. decodeObject   *)
(* keeps it unchanged. Bytes that were cut short never decode, except where an  *)
(* extension ends the type, and then to another value. An ABI comes back as it  *)
(* was, without its error messages. A builtin value that is accepted at all    *)
(* comes back as decodeObject leaves it, wrapped or normalised alike (serializer.cpp:74, 151, 236, 281, 391;      *)
(* traits.hpp:646; abi.cpp:86, 181).                                            *)
RoundTrip ==
    /\ back # Bad("not yet") =>
        LET n == parse(item[1])
            v == IF IsAbi(item) THEN Dropped(item[2]) ELSE item[2]
        IN  Regular(v, n, mode) =>
              /\ cut = 0 /\ mode # "strict" => back = Read(v, <<>>) \/ back = Bad("depth")
              /\ cut = 0 /\ mode = "strict" => back.ok \/ back.why = "depth"
              /\ cut > 0 /\ back.ok => Extended(n) /\ (mode # "strict" /\ ~IsAbi(item) => back.val # v)
              /\ cut = 0 /\ mode = "dynamic" /\ ~IsAbi(item)
                   => LET r == decodeObject(v, n, 0) IN r.ok => r.out = v
    /\ back # Bad("not yet") /\ cut = 0 /\ item[1][2] = <<>> /\ Kind(parse(item[1])) = "builtin" =>
        LET r == objectBuiltin(item[1][1], item[2])
        IN  Legible(item[1][1], r.out[2]) => back = Read(r.out, <<>>)
=============================================================================
