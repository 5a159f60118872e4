----------------------------- MODULE ChainTypes -----------------------------
(* The numbers, amounts, times, names and text encodings of a transaction   *)
(* (src/antelope/chain, src/antelope/base58.cpp, src/core/base64.cpp,       *)
(* src/signing_request/base64u.cpp). The algorithms are the code's; the     *)
(* widths are constants: a 32-bit limb is Limb, a 64-bit word Limb^2, a     *)
(* uint8 precision Octet, a decimal digit one of Digits, base58's alphabet  *)
(* and byte Alpha and Octet, and a day has fewer hours. A result is <<>>    *)
(* when the code refuses and <<v>> when it returns v.                       *)
EXTENDS Integers, Sequences, SequencesExt, FiniteSetsExt

CONSTANTS Digits,        \* the digits, in order: Len(Digits) stands for 10
          Limb,          \* stands for 2^32, a power of two
          WideBits,      \* stands for 128: 2^WideBits = Limb^4
          Octet,         \* stands for 256 where a uint8 wraps
          MaxPrecision,  \* stands for 18
          MaxCode,       \* stands for 7, the letters of a symbol code
          Alpha,         \* stands for 58
          CheckSize,     \* stands for 4, the bytes of a checksum
          KeySize,       \* stands for 32, the bytes of a private key
          LegacySize,    \* stands for 50, the characters of a legacy key
          NameBits,      \* stands for 64
          Clock,         \* [hours, minutes, seconds, millis, micros, last]: 24, 60, 60, 1000,
                         \* 1000 and the largest int64
          SecondsWord,   \* stands for 2^32 seconds or half seconds
          Operands, NumberTexts, AmountTexts, SymbolTexts, Dates, ByteStrings, OctetStrings, Names,
          KeyCases       \* keys and signatures, [form, key]

\* 2^i, up to the numbers of two words.
PowerOfTwo[i \in 0..WideBits] == IF i = 0 THEN 1 ELSE 2 * PowerOfTwo[i - 1]

\* A limb has some bits, and an operand is two words.
ASSUME TypesAssumption ==
    /\ Limb \in Nat \ {0} /\ Limb % 2 = 0
    /\ WideBits \in Nat /\ PowerOfTwo[WideBits] = Limb * Limb * (Limb * Limb)
    /\ Operands \subseteq [lo: 0..(Limb * Limb - 1), hi: 0..(Limb * Limb - 1)]

VARIABLE work    \* what was asked of a type and what it gave

Radix == Len(Digits)
Word == Limb * Limb
Wide == Word * Word
Digit(ch) == SelectInSeq(Digits, LAMBDA d : d = ch) - 1
Refused == <<>>
Given(r, Then(_)) == IF r = Refused THEN Refused ELSE Then(r[1])

(* --------------------------- 128-bit integers ---------------------------- *)
U(lo, hi) == [lo |-> lo % Word, hi |-> hi % Word]
AtLeast(a, b) == a.hi > b.hi \/ (a.hi = b.hi /\ a.lo >= b.lo)
adding(a, b) == LET lo == (a.lo + b.lo) % Word
                IN  U(lo, a.hi + b.hi + (IF lo < a.lo THEN 1 ELSE 0))
subtracting(a, b) == U(a.lo - b.lo, a.hi - b.hi - (IF b.lo > a.lo THEN 1 ELSE 0))
negated(a) == adding(U(Word - 1 - a.lo, Word - 1 - a.hi), U(1, 0))
isNegative(a) == a.hi >= Word \div 2
magnitude(a) == IF isNegative(a) THEN negated(a) ELSE a

toLimbs(a) == <<a.lo % Limb, a.lo \div Limb, a.hi % Limb, a.hi \div Limb>>
fromLimbs(l) == U(l[1] + l[2] * Limb, l[3] + l[4] * Limb)
\* value * factor + addend in limbs, with the carry out.
mulAdd(l, factor, addend) ==
    FoldLeft(LAMBDA acc, limb : [limbs |-> Append(acc.limbs, (limb * factor + acc.carry) % Limb),
                                 carry |-> (limb * factor + acc.carry) \div Limb],
             [limbs |-> <<>>, carry |-> addend], l)
divMod(l, divisor) ==
    FoldLeft(LAMBDA acc, limb : [limbs |-> <<(acc.rem * Limb + limb) \div divisor>> \o acc.limbs,
                                 rem |-> (acc.rem * Limb + limb) % divisor],
             [limbs |-> <<>>, rem |-> 0], Reverse(l))
\* Digits are taken off until the limbs are zero, at least one.
unsignedToString(a) ==
    LET step(acc, i) == IF acc.done THEN acc
                        ELSE LET d == divMod(acc.limbs, Radix)
                             IN  [limbs |-> d.limbs, text |-> <<Digits[d.rem + 1]>> \o acc.text,
                                  done |-> d.limbs = <<0, 0, 0, 0>>]
    IN  FoldLeft(step, [limbs |-> toLimbs(a), text |-> <<>>, done |-> FALSE],
                 [i \in 1..WideBits |-> i]).text

Sign(v) == IF v # <<>> /\ v[1] \in {"-", "+"} THEN SubSeq(v, 1, 1) ELSE <<>>
Body(v) == SubSeq(v, Len(Sign(v)) + 1, Len(v))
IsNumber(v) == Body(v) # <<>> /\ \A i \in 1..Len(Body(v)) : Digit(Body(v)[i]) >= 0
\* A carry out of the top limb is remembered; "-0" is not negative.
parseDecimal(v) ==
    IF ~IsNumber(v) THEN Refused
    ELSE LET step(acc, ch) == LET m == mulAdd(acc.limbs, Radix, Digit(ch))
                              IN  [limbs |-> m.limbs, over |-> acc.over \/ m.carry # 0]
             all == FoldLeft(step, [limbs |-> <<0, 0, 0, 0>>, over |-> FALSE], Body(v))
         IN  <<[value |-> fromLimbs(all.limbs), over |-> all.over,
                negative |-> Sign(v) = <<"-">> /\ \E i \in 1..Len(Body(v)) : Digit(Body(v)[i]) # 0]>>

uint128From(v, overflow) ==
    LET p == parseDecimal(v)
    IN  IF p = Refused THEN Refused
        ELSE CASE overflow = "Throw" /\ (p[1].negative \/ p[1].over) -> Refused
               [] overflow = "Truncate" /\ p[1].negative -> <<negated(p[1].value)>>
               [] overflow = "Clamp" /\ p[1].negative -> <<U(0, 0)>>
               [] overflow = "Clamp" /\ ~p[1].negative /\ p[1].over -> <<U(Word - 1, Word - 1)>>
               [] OTHER -> <<p[1].value>>
int128From(v, overflow) ==
    LET p == parseDecimal(v)
    IN  IF p = Refused THEN Refused
        ELSE LET m == p[1].value
                 half == Word \div 2
                 overflows == \/ p[1].over
                              \/ ~p[1].negative /\ m.hi >= half
                              \/ p[1].negative /\ (m.hi > half \/ (m.hi = half /\ m.lo # 0))
             IN  CASE overflow = "Throw" /\ overflows -> Refused
                   [] overflow = "Clamp" /\ overflows ->
                          <<IF p[1].negative THEN U(0, half) ELSE U(Word - 1, half - 1)>>
                   [] OTHER -> <<IF p[1].negative THEN negated(m) ELSE m>>
\* Beyond 32 bits a number is written as text.
uint128ToJSON(a) == IF a.hi # 0 \/ a.lo >= Limb THEN <<"text", unsignedToString(a)>>
                    ELSE <<"number", a.lo>>
int128ToString(a) == IF isNegative(a) THEN <<"-">> \o unsignedToString(negated(a))
                     ELSE unsignedToString(a)
int128ToJSON(a) ==
    LET m == magnitude(a)
    IN  IF m.hi # 0 \/ m.lo >= Limb THEN <<"text", int128ToString(a)>>
        ELSE <<"number", IF isNegative(a) THEN -m.lo ELSE m.lo>>

\* The partial products of two words; (bug) the second carry forgotten.
mul64OneCarry(a, b) ==
    LET p == [i \in 0..3 |-> (IF i < 2 THEN a % Limb ELSE a \div Limb)
                               * (IF i % 2 = 0 THEN b % Limb ELSE b \div Limb)]
        lo == (p[0] + p[1] * Limb) % Word
    IN  U(lo + p[2] * Limb, p[3] + p[1] \div Limb + p[2] \div Limb + (IF lo < p[0] THEN 1 ELSE 0))
mul64(a, b) ==
    LET p == [i \in 0..3 |-> (IF i < 2 THEN a % Limb ELSE a \div Limb)
                               * (IF i % 2 = 0 THEN b % Limb ELSE b \div Limb)]
        lo == (p[0] + p[1] * Limb) % Word
        lo2 == (lo + p[2] * Limb) % Word
    IN  U(lo2, p[3] + p[1] \div Limb + p[2] \div Limb
                 + (IF lo < p[0] THEN 1 ELSE 0) + (IF lo2 < lo THEN 1 ELSE 0))
multiplying(a, b) == LET low == mul64(a.lo, b.lo)
                     IN  U(low.lo, low.hi + a.lo * b.hi + a.hi * b.lo)
doubled(a) == U(2 * a.lo, 2 * a.hi + (2 * a.lo) \div Word)
Bit(a, i) == ((a.lo + a.hi * Word) \div PowerOfTwo[i]) % 2
\* Shift and subtract, from the top bit down.
divmod128(num, den) ==
    LET step(acc, i) ==
            LET r == LET d == doubled(acc.rem) IN U(d.lo + Bit(num, i), d.hi)
            IN  IF AtLeast(r, den)
                THEN [rem |-> subtracting(r, den),
                      quotient |-> adding(acc.quotient, U(PowerOfTwo[i] % Word, PowerOfTwo[i] \div Word))]
                ELSE [acc EXCEPT !.rem = r]
    IN  FoldLeft(step, [rem |-> U(0, 0), quotient |-> U(0, 0)], [i \in 1..WideBits |-> WideBits - i])
\* The remainder is doubled in 128 bits to round: its top bit falls off.
Rounded(q, den, behaviour) ==
    IF \/ behaviour = "round" /\ AtLeast(doubled(q.rem), den)
       \/ behaviour = "ceil" /\ q.rem # U(0, 0)
    THEN adding(q.quotient, U(1, 0)) ELSE q.quotient
uintDividing(a, b, behaviour) ==
    IF b = U(0, 0) THEN Refused ELSE <<Rounded(divmod128(a, b), b, behaviour)>>
intMultiplying(a, b) ==
    LET m == multiplying(magnitude(a), magnitude(b))
    IN  IF isNegative(a) # isNegative(b) THEN negated(m) ELSE m
intDividing(a, b, behaviour) ==
    IF b = U(0, 0) THEN Refused
    ELSE LET m == Rounded(divmod128(magnitude(a), magnitude(b)), magnitude(b), behaviour)
         IN  <<IF isNegative(a) # isNegative(b) THEN negated(m) ELSE m>>

(* --------------------------- Assets and symbols -------------------------- *)
\* The digits of an amount, refused where the next digit would pass the limit
\* (the negative limit is one more).
parseInt64(v) ==
    LET limit == IF Sign(v) = <<"-">> THEN Word \div 2 ELSE Word \div 2 - 1
        step(acc, ch) == IF acc = -1 \/ acc > (limit - Digit(ch)) \div Radix THEN -1
                         ELSE acc * Radix + Digit(ch)
        m == FoldLeft(step, 0, Body(v))
    IN  IF ~IsNumber(v) \/ m = -1 THEN Refused ELSE <<IF Sign(v) = <<"-">> THEN -m ELSE m>>

\* A name keeps its first letters; the precision is cast to a uint8.
fromParts(name, precision) ==
    LET code == SubSeq(name, 1, IF Len(name) < MaxCode THEN Len(name) ELSE MaxCode)
    IN  IF precision % Octet > MaxPrecision \/ \E i \in 1..Len(code) : code[i] \notin {"A", "B"}
        THEN Refused ELSE <<[name |-> code, precision |-> precision % Octet]>>
Before(v, ch) == SubSeq(v, 1, SelectInSeq(v, LAMBDA x : x = ch) - 1)
After(v, ch) == SubSeq(v, SelectInSeq(v, LAMBDA x : x = ch) + 1, Len(v))
Has(v, ch) == \E i \in 1..Len(v) : v[i] = ch
\* "4,EOS": the precision is the digits before the first other character.
symbolFrom(v) ==
    LET step(acc, ch) == IF acc.stop \/ Digit(ch) < 0 THEN [acc EXCEPT !.stop = TRUE]
                         ELSE IF acc.value > Octet - 1 THEN [acc EXCEPT !.bad = TRUE]
                         ELSE [acc EXCEPT !.value = @ * Radix + Digit(ch), !.any = TRUE]
        p == FoldLeft(step, [value |-> 0, any |-> FALSE, bad |-> FALSE, stop |-> FALSE], Before(v, ","))
    IN  IF ~Has(v, ",") \/ (Has(After(v, ","), ",") /\ v # <<"0", ",">>) \/ p.bad \/ ~p.any
        THEN Refused ELSE fromParts(After(v, ","), p.value)
\* "1.0 EOS": the digits after the point give the precision.
fromString(v) ==
    LET amount == Before(v, " ")
        point == Has(amount, ".")
        symbol == fromParts(After(v, " "), IF point THEN Len(After(amount, ".")) ELSE 0)
        units == parseInt64(IF point THEN Before(amount, ".") \o After(amount, ".") ELSE amount)
    IN  IF ~Has(v, " ") \/ Has(After(v, " "), " ") \/ symbol = Refused \/ units = Refused
        THEN Refused ELSE <<[units |-> units[1], symbol |-> symbol[1]]>>
Decimal(n) == unsignedToString(U(n % Word, n \div Word))
formatUnits(units, precision) ==
    LET digits == Decimal(IF units < 0 THEN -units ELSE units)
        zeros == [i \in 1..(IF Len(digits) <= precision THEN precision + 1 - Len(digits) ELSE 0) |-> Digits[1]]
        padded == zeros \o digits
        whole == Len(padded) - precision
    IN  (IF units < 0 THEN <<"-">> ELSE <<>>)
          \o (IF precision > 0 THEN SubSeq(padded, 1, whole) \o <<".">> \o SubSeq(padded, whole + 1, Len(padded))
              ELSE padded)
assetToString(a) == formatUnits(a.units, a.symbol.precision) \o <<" ">> \o a.symbol.name
symbolToString(s) == Decimal(s.precision) \o <<",">> \o s.name

(* --------------------------------- Times --------------------------------- *)
Quotient(a, b) == IF a >= 0 THEN a \div b ELSE -((-a) \div b)   \* C++'s a / b, b > 0
daysFromCivil(year, m, d) ==
    LET y == IF m <= 2 THEN year - 1 ELSE year
        era == Quotient(IF y >= 0 THEN y ELSE y - 399, 400)
        yoe == y - era * 400
        doy == (153 * (m + (IF m > 2 THEN -3 ELSE 9)) + 2) \div 5 + d - 1
    IN  era * 146097 + yoe * 365 + yoe \div 4 - yoe \div 100 + doy - 719468
civilFromDays(days) ==
    LET z == days + 719468
        era == Quotient(IF z >= 0 THEN z ELSE z - 146096, 146097)
        doe == z - era * 146097
        yoe == (doe - doe \div 1460 + doe \div 36524 - doe \div 146096) \div 365
        doy == doe - (365 * yoe + yoe \div 4 - yoe \div 100)
        mp == (5 * doy + 2) \div 153
        m == mp + (IF mp < 10 THEN 3 ELSE -9)
    IN  [year |-> yoe + era * 400 + (IF m <= 2 THEN 1 ELSE 0), month |-> m,
         day |-> doy - (153 * mp + 2) \div 5 + 1]
DayMillis == Clock.hours * Clock.minutes * Clock.seconds * Clock.millis
\* The text is its fields: four digits of year, two of the others, and the
\* three of the milliseconds that count.
parseIsoMilliseconds(t) ==
    IF \/ t.year \notin 0..9999 \/ t.month \notin 1..12 \/ t.day \notin 1..31
       \/ t.hour >= Clock.hours \/ t.minute >= Clock.minutes \/ t.second >= Clock.seconds
    THEN Refused
    ELSE <<((daysFromCivil(t.year, t.month, t.day) * Clock.hours + t.hour) * Clock.minutes + t.minute)
               * Clock.seconds * Clock.millis + t.second * Clock.millis + t.millis>>
isoFromMilliseconds(ms) ==
    LET date == civilFromDays(ms \div DayMillis)
        rest == ms % DayMillis
    IN  [year |-> date.year, month |-> date.month, day |-> date.day,
         hour |-> rest \div (Clock.minutes * Clock.seconds * Clock.millis),
         minute |-> (rest \div (Clock.seconds * Clock.millis)) % Clock.minutes,
         second |-> (rest \div Clock.millis) % Clock.seconds, millis |-> rest % Clock.millis]
jsRound(a, b) == (2 * a + b) \div (2 * b)                       \* floor(a / b + 0.5)
Epoch == 10957 * DayMillis                                      \* 2000-01-01
HalfSecond == Clock.millis \div 2
timePointSecFrom(ms) == jsRound(ms, Clock.millis) % SecondsWord
blockTimestampFrom(ms) == jsRound(ms - Epoch, HalfSecond) % SecondsWord
timePointFrom(ms) == ms * Clock.micros
\* Half away from zero, short of the largest int64.
toMilliseconds(value) ==
    LET half == Clock.micros \div 2
    IN  IF value < 0 THEN -((half - value) \div Clock.micros)
        ELSE (IF value > Clock.last - half THEN Clock.last - half ELSE value + half) \div Clock.micros

(* ---------------------------- Text of bytes ------------------------------ *)
LeadingZeros(s) == LET n == SelectInSeq(s, LAMBDA x : x # 0) IN IF n = 0 THEN Len(s) ELSE n - 1
Zeros(n) == [i \in 1..n |-> 0]
\* Multiply the little-endian number by base and add: the digits and the carry.
Carry(digits, base, addend, out) ==
    FoldLeft(LAMBDA acc, d : [digits |-> Append(acc.digits, (d * base + acc.carry) % out),
                              carry |-> (d * base + acc.carry) \div out],
             [digits |-> <<>>, carry |-> addend], digits)
\* base58: a character is its place in the alphabet, 0 being "1".
decodeVar(s) ==
    LET step(acc, ch) == LET c == Carry(acc, Alpha, ch, Octet)
                         IN  IF c.carry # 0 THEN Append(c.digits, c.carry) ELSE c.digits
    IN  IF \E i \in 1..Len(s) : s[i] < 0 THEN Refused
        ELSE <<Reverse(FoldLeft(step, <<>>, s) \o Zeros(LeadingZeros(s)))>>
\* Of a known size: what does not fit is refused.
decodeSized(s, size) ==
    LET step(acc, ch) == IF acc = Refused \/ ch < 0 THEN Refused
                         ELSE LET c == Carry(acc[1], Alpha, ch, Octet)
                              IN  IF c.carry # 0 THEN Refused ELSE <<c.digits>>
    IN  Given(FoldLeft(step, <<Zeros(size)>>, s), LAMBDA all : <<Reverse(all)>>)
Base58Encode(data) ==
    LET step(acc, byte) ==
            LET c == Carry(acc, Octet, byte, Alpha)
                n == IF c.carry = 0 THEN 0 ELSE CHOOSE k \in 1..Octet : Alpha^(k - 1) <= c.carry /\ c.carry < Alpha^k
            IN  c.digits \o [k \in 1..n |-> (c.carry \div Alpha^(k - 1)) % Alpha]
    IN  Reverse(FoldLeft(step, <<>>, data) \o Zeros(LeadingZeros(data)))
\* External: the first bytes of a hash, here of the sum of what is hashed.
Checksum(data, suffix) ==
    [i \in 1..CheckSize |-> (FoldLeft(LAMBDA a, b : 3 * a + b + 1, i + suffix, data)) % Octet]
encodeCheck(data, suffix) == Base58Encode(data \o Checksum(data, suffix))
\* What was decoded, in the bytes and their checksum; too few bytes have neither.
Parted(s, size) ==
    Given(IF size = -1 THEN decodeVar(s) ELSE decodeSized(s, size + CheckSize), LAMBDA all :
          LET n == Len(all) - CheckSize
          IN  IF n < 0 THEN <<[data |-> <<>>, check |-> <<>>]>>
              ELSE <<[data |-> SubSeq(all, 1, n), check |-> SubSeq(all, n + 1, n + CheckSize)]>>)
Matches(p, suffix) == p.check = Checksum(p.data, suffix)
decodeCheck(s, size, suffix) ==
    Given(Parted(s, size), LAMBDA p : IF Matches(p, suffix) THEN <<p.data>> ELSE Refused)

(* ------------------------- Keys and signatures --------------------------- *)
\* A key is [curve, data]; its text has a form, the curve the form names and
\* base58 digits. A bare text is a legacy public key or a WIF private key. What
\* is hashed after the bytes is the curve's name, nothing, or (4) the second hash.
Curve == [K1 |-> 1, R1 |-> 2, WA |-> 3]
LegacySuffix == 0
WifSuffix == 4
WifMark == Octet \div 2
Size == [PUB |-> KeySize + 1, SIG |-> 2 * KeySize + 1, PVT |-> KeySize]
SizeOf(form, curve) == IF curve \in {"K1", "R1"} THEN Size[form] ELSE -1
IsZero(data) == \A i \in DOMAIN data : data[i] = 0

keyToString(form, k) == [form |-> form, curve |-> k.curve, digits |-> encodeCheck(k.data, Curve[k.curve])]
\* Only of a K1 key; prefix is the characters before the digits.
toLegacyString(k, prefix) == [form |-> "bare", curve |-> "", digits |-> prefix \o encodeCheck(k.data, LegacySuffix)]
toWif(k) == [form |-> "bare", curve |-> "", digits |-> encodeCheck(<<WifMark>> \o k.data, WifSuffix)]

Typed(form, t) ==
    Given(decodeCheck(t.digits, SizeOf(form, t.curve), Curve[t.curve]),
          LAMBDA data : <<[curve |-> t.curve, data |-> data]>>)
\* The last LegacySize characters of a bare text, whatever is before them.
publicKeyFrom(t) ==
    IF t.form = "PUB" THEN Typed("PUB", t)
    ELSE IF t.form # "bare" \/ Len(t.digits) < LegacySize THEN Refused
    ELSE Given(decodeCheck(SubSeq(t.digits, Len(t.digits) - LegacySize + 1, Len(t.digits)), -1, LegacySuffix),
               LAMBDA data : <<[curve |-> "K1", data |-> data]>>)
signatureFrom(t) == IF t.form = "SIG" THEN Typed("SIG", t) ELSE Refused
decodeKey(t) ==
    IF t.form = "PVT" THEN Typed("PVT", t)
    ELSE Given(decodeCheck(t.digits, -1, WifSuffix), LAMBDA data :
               IF data = <<>> \/ data[1] # WifMark THEN Refused
               ELSE <<[curve |-> "K1", data |-> Tail(data)]>>)
makeKey(k) == IF IsZero(k.data) \/ (k.curve \in {"K1", "R1"} /\ Len(k.data) # KeySize) THEN Refused ELSE <<k>>
zeropad(data, n) == IF Len(data) > n THEN SubSeq(data, 1, n) ELSE Zeros(n - Len(data)) \o data
\* A wrong checksum may be overlooked: then the bytes are taken without it, and
\* without a WIF's mark, as a K1 key unless the text says R1.
Unchecked(t, p) ==
    IF Matches(p, IF t.form = "PVT" THEN Curve[t.curve] ELSE WifSuffix) THEN Refused
    ELSE makeKey([curve |-> IF t.form = "PVT" /\ t.curve = "R1" THEN "R1" ELSE "K1",
                  data |-> zeropad(IF Len(p.data) = KeySize + 1 THEN Tail(p.data) ELSE p.data, KeySize)])
privateKeyFrom(t, ignoreChecksumError) ==
    LET made(decoded) ==
            IF decoded # Refused THEN makeKey(decoded[1])
            ELSE IF ~ignoreChecksumError THEN Refused
            ELSE Given(Parted(t.digits, IF t.form = "PVT" THEN SizeOf("PVT", t.curve) ELSE -1),
                       LAMBDA p : Unchecked(t, p))
    IN  made(decodeKey(t))

\* base64: three bytes are four characters; a rest of one or two bytes is
\* padded with zero bits and, unless it is for a URL, with "=" (here 64).
base64Encode(data, padded) ==
    LET byte(i) == IF i <= Len(data) THEN data[i] ELSE 0
        group(g) == LET n == byte(3*g + 1) * 65536 + byte(3*g + 2) * 256 + byte(3*g + 3)
                        used == IF Len(data) - 3*g >= 3 THEN 4 ELSE Len(data) - 3*g + 1
                    IN  [k \in 1..(IF padded THEN 4 ELSE used) |->
                             IF k > used THEN 64 ELSE (n \div 64^(4 - k)) % 64]
    IN  FlattenSeq([g \in 1..((Len(data) + 2) \div 3) |-> group(g - 1)])
base64Decode(text) ==
    LET end == SelectLastInSeq(text, LAMBDA x : x # 64)
        step(acc, ch) == LET buffer == (acc.buffer * 64 + ch) % 16384
                             bits == acc.bits + 6
                         IN  IF bits >= 8
                             THEN [buffer |-> buffer, bits |-> bits - 8,
                                   out |-> Append(acc.out, (buffer \div 2^(bits - 8)) % 256)]
                             ELSE [acc EXCEPT !.buffer = buffer, !.bits = bits]
    IN  IF Len(text) - end > 2 \/ end % 4 = 1 \/ \E i \in 1..end : text[i] \notin 0..63 THEN Refused
        ELSE <<FoldLeft(step, [buffer |-> 0, bits |-> 0, out |-> <<>>], SubSeq(text, 1, end)).out>>
\* The reader of links takes any character it does not know for a zero.
base64uDecode(input) ==
    LET at(i) == IF i <= Len(input) /\ input[i] \in 0..63 THEN input[i] ELSE 0
        group(g) == <<(at(4*g + 1) * 4 + at(4*g + 2) \div 16) % 256,
                      (at(4*g + 2) % 16) * 16 + at(4*g + 3) \div 4,
                      (at(4*g + 3) % 4) * 64 + at(4*g + 4)>>
    IN  SubSeq(FlattenSeq([g \in 1..((Len(input) + 3) \div 4) |-> group(g - 1)]), 1, (Len(input) * 3) \div 4)

\* Names: five bits a character from the top, the last one gets what is left.
\* A character is its symbol, 0 for "." and for every one not of a name.
stringToName(s) ==
    LET step(acc, c) ==
            LET bit == acc.bit
                n == IF bit + 1 < 5 THEN bit + 1 ELSE 5
                shifted == IF bit < 5 THEN (2 * c) % 32 ELSE c
            IN  [bit |-> bit - n, value |-> acc.value + (shifted \div 2^(5 - n)) * 2^(bit - n + 1)]
    IN  FoldLeft(step, [bit |-> NameBits - 1, value |-> 0], s).value
nameToString(value) ==
    LET count == (NameBits + 4) \div 5
        at(k) == LET top == NameBits - 5 * (k - 1)
                     n == IF top < 5 THEN top ELSE 5
                 IN  (value \div 2^(top - n)) % 2^n
        text == [k \in 1..count |-> at(k)]
        last == SelectLastInSeq(text, LAMBDA x : x # 0)
    IN  SubSeq(text, 1, last)

(* ------------------------------- The calls ------------------------------- *)
Arithmetic == \E a, b \in Operands, how \in {"floor", "round", "ceil"} :
    work' = [op |-> "arithmetic", a |-> a, b |-> b, how |-> how,
             add |-> adding(a, b), sub |-> subtracting(a, b), mul |-> multiplying(a, b),
             div |-> uintDividing(a, b, how), imul |-> intMultiplying(a, b),
             idiv |-> intDividing(a, b, how)]
WideText == \E v \in NumberTexts, overflow \in {"Throw", "Truncate", "Clamp"} :
    work' = [op |-> "text", of |-> v, overflow |-> overflow,
             uint |-> uint128From(v, overflow), int |-> int128From(v, overflow)]
WideValue == \E a \in Operands :
    work' = [op |-> "value", of |-> a, uint |-> uint128ToJSON(a), int |-> int128ToJSON(a)]
AssetText == \E v \in AmountTexts :
    work' = [op |-> "asset", of |-> v, got |-> fromString(v)]
SymbolText == \E v \in SymbolTexts :
    work' = [op |-> "symbol", of |-> v, got |-> symbolFrom(v)]
DateText == \E t \in Dates :
    work' = [op |-> "date", of |-> t, got |-> parseIsoMilliseconds(t)]
BytesText == \E d \in ByteStrings, suffix \in {0, 1} :
    work' = [op |-> "base58", of |-> d, suffix |-> suffix,
             plain |-> Base58Encode(d), checked |-> encodeCheck(d, suffix)]
KeyText == \E k \in KeyCases :
    work' = [op |-> "key", form |-> k.form, of |-> k.key, text |-> keyToString(k.form, k.key)]
LinkText == \E d \in OctetStrings :
    work' = [op |-> "base64", of |-> d, padded |-> base64Encode(d, TRUE), url |-> base64Encode(d, FALSE)]
NameText == \E s \in Names :
    work' = [op |-> "name", of |-> s, got |-> stringToName(s)]

TypesInit == work = [op |-> "none"]
TypesNext ==
    /\ work.op = "none"
    /\ \/ Arithmetic \/ WideText \/ WideValue \/ AssetText \/ SymbolText \/ DateText
       \/ BytesText \/ KeyText \/ LinkText \/ NameText
typesVars == work

(* ------------------------- Reference definitions ------------------------- *)
Value(u) == u.lo + u.hi * Word
SignedValue(u) == IF Value(u) >= Wide \div 2 THEN Value(u) - Wide ELSE Value(u)
Positional(ds) == MapThenSumSet(LAMBDA i : Digit(ds[i]) * Radix^(Len(ds) - i), DOMAIN ds)
NumberOf(v) == IF Sign(v) = <<"-">> THEN -Positional(Body(v)) ELSE Positional(Body(v))
Divided(a, b, how) == CASE how = "floor" -> a \div b
                        [] how = "round" -> (2 * a + b) \div (2 * b)
                        [] how = "ceil" -> (a + b - 1) \div b
Abs(n) == IF n < 0 THEN -n ELSE n
Fitted(n, low, high, overflow) ==
    IF n \in low..high THEN <<n % Wide>>
    ELSE CASE overflow = "Throw" -> Refused
           [] overflow = "Truncate" -> <<n % Wide>>
           [] overflow = "Clamp" -> <<(IF n < low THEN low ELSE high) % Wide>>
ValueOf(r) == IF r = Refused THEN Refused ELSE <<Value(r[1])>>
IsLeap(y) == y % 4 = 0 /\ (y % 100 # 0 \/ y % 400 = 0)
MonthDays(y) == <<31, IF IsLeap(y) THEN 29 ELSE 28, 31, 30, 31, 30, 31, 31, 30, 31, 30, 31>>
DayNumber(t) == LET past == t.year - 1
                IN  365 * (t.year - 1970) + past \div 4 - past \div 100 + past \div 400 - 477
                      + MapThenSumSet(LAMBDA m : MonthDays(t.year)[m], 1..(t.month - 1)) + t.day - 1

\* Sums, differences and products are the mathematical ones, cut to 128 bits, whatever
\* the carries between words and limbs (integer.hpp:66-75, integer.cpp:12).
ArithmeticWraps ==
    work.op = "arithmetic" =>
      LET x == Value(work.a)
          y == Value(work.b)
      IN  /\ Value(work.add) = (x + y) % Wide /\ Value(work.sub) = (x - y) % Wide
          /\ Value(work.mul) = (x * y) % Wide
          /\ Value(work.imul) = (SignedValue(work.a) * SignedValue(work.b)) % Wide
\* A quotient is the mathematical one, rounded as asked, and a division by nothing refused
\* (integer.cpp:264, 298-327, 338-366).
DivisionExact ==
    work.op = "arithmetic" =>
      LET x == Value(work.a)
          y == Value(work.b)
          sx == SignedValue(work.a)
          sy == SignedValue(work.b)
      IN  /\ (y = 0) <=> (work.div = Refused)
          /\ (y = 0) <=> (work.idiv = Refused)
          /\ y # 0 /\ ~(work.how = "round" /\ 2 * (x % y) >= Wide) =>
                 Value(work.div[1]) = Divided(x, y, work.how)
          /\ y # 0 => LET q == Divided(Abs(sx), Abs(sy), work.how)
                      IN  Value(work.idiv[1]) = (IF (sx < 0) # (sy < 0) THEN -q ELSE q) % Wide
WideExact ==
    /\ ArithmeticWraps
    /\ DivisionExact
    /\ work.op = "text" =>
         IF ~IsNumber(work.of) THEN work.uint = Refused /\ work.int = Refused
         ELSE /\ ValueOf(work.uint) = Fitted(NumberOf(work.of), 0, Wide - 1, work.overflow)
              /\ ValueOf(work.int) = Fitted(NumberOf(work.of), -(Wide \div 2), Wide \div 2 - 1, work.overflow)
    /\ work.op = "value" =>
         LET Read(w) == IF w[1] = "text" THEN NumberOf(w[2]) ELSE w[2]
         IN  Read(work.uint) = Value(work.of) /\ Read(work.int) = SignedValue(work.of)
AmountExact ==
    /\ work.op = "asset" =>
         LET amount == Before(work.of, " ")
             fraction == IF Has(amount, ".") THEN Len(After(amount, ".")) ELSE 0
             number == NumberOf(SelectSeq(amount, LAMBDA ch : ch # "."))
             fits == fraction <= MaxPrecision /\ number \in -(Word \div 2)..(Word \div 2 - 1)
         IN  /\ fits /\ IsNumber(SelectSeq(amount, LAMBDA ch : ch # ".")) /\ ~Has(After(amount, "."), ".")
                  /\ work.of \in {amount \o <<" ", "A">>, amount \o <<" ">>} => work.got # Refused
             /\ work.got # Refused /\ fraction < Octet =>
                  /\ fits /\ work.got[1].units = number /\ work.got[1].symbol.precision = fraction
                  /\ fromString(assetToString(work.got[1])) = work.got
    /\ work.op = "symbol" /\ work.got # Refused => symbolFrom(symbolToString(work.got[1])) = work.got
TimeExact ==
    work.op = "date" /\ work.got # Refused =>
      LET t == work.of
          ms == work.got[1]
          calendar == t.year > 0 /\ t.day <= MonthDays(t.year)[t.month]
          sec == timePointSecFrom(ms)
          slot == blockTimestampFrom(ms)
      IN  /\ calendar => ms \div DayMillis = DayNumber(t) /\ isoFromMilliseconds(ms) = t
          /\ toMilliseconds(timePointFrom(ms)) = ms
          /\ \A n \in {sec * Clock.millis, slot * HalfSecond + Epoch} :
                 parseIsoMilliseconds(isoFromMilliseconds(n)) = <<n>>
          /\ timePointSecFrom(sec * Clock.millis) = sec /\ blockTimestampFrom(slot * HalfSecond + Epoch) = slot
          /\ ms \in 0..((SecondsWord - 1) * Clock.millis) => Abs(2 * (sec * Clock.millis - ms)) <= Clock.millis
          /\ ms - Epoch \in 0..((SecondsWord - 1) * HalfSecond) => Abs(2 * (slot * HalfSecond + Epoch - ms)) <= HalfSecond
BytesExact ==
    /\ work.op = "base58" =>
         LET d == work.of
         IN  /\ decodeVar(work.plain) = <<d>> /\ decodeSized(work.plain, Len(d)) = <<d>>
             /\ d # <<>> /\ d[1] # 0 => decodeSized(work.plain, Len(d) - 1) = Refused
             /\ decodeCheck(work.checked, -1, work.suffix) = <<d>>
             /\ decodeCheck(work.checked, Len(d), work.suffix) = <<d>>
             /\ decodeCheck(work.checked, -1, 1 - work.suffix) = Refused
    /\ work.op = "base64" => /\ base64Decode(work.padded) = <<work.of>> /\ base64Decode(work.url) = <<work.of>>
                             /\ base64uDecode(work.url) = work.of
    /\ work.op = "name" =>
         LET count == (NameBits + 4) \div 5
             kept == [i \in 1..(IF Len(work.of) < count THEN Len(work.of) ELSE count) |->
                          IF i = count THEN work.of[i] % 2^(NameBits - 5 * (count - 1)) ELSE work.of[i]]
         IN  nameToString(work.got) = SubSeq(kept, 1, SelectLastInSeq(kept, LAMBDA x : x # 0))

\* The same bytes with another checksum.
Broken(data, suffix) ==
    Base58Encode(data \o [i \in 1..CheckSize |-> (Checksum(data, suffix)[i] + 1) % Octet])
KeyExact ==
    work.op = "key" =>
      LET k == work.of
          named == k.curve \in {"K1", "R1"}
          whole == IF IsZero(k.data) THEN Refused ELSE <<k>>
          Read(t) == CASE work.form = "PUB" -> publicKeyFrom(t) [] work.form = "SIG" -> signatureFrom(t)
                       [] work.form = "PVT" -> privateKeyFrom(t, FALSE)
          broken == [work.text EXCEPT !.digits = Broken(k.data, Curve[k.curve])]
          brokenWif == [toWif(k) EXCEPT !.digits = Broken(<<WifMark>> \o k.data, WifSuffix)]
      IN  /\ Read(work.text) = (IF work.form = "PVT" THEN whole ELSE <<k>>)
          /\ named => \A c \in {"K1", "R1"} \ {k.curve} : Read([work.text EXCEPT !.curve = c]) = Refused
          /\ Read(broken) = Refused
          /\ work.form = "PVT" /\ named => privateKeyFrom(broken, TRUE) = whole
          /\ work.form = "PVT" /\ k.curve = "K1" =>
                /\ privateKeyFrom(toWif(k), FALSE) = whole
                /\ privateKeyFrom(brokenWif, FALSE) = Refused /\ privateKeyFrom(brokenWif, TRUE) = whole
          /\ work.form = "PUB" /\ k.curve = "K1" => publicKeyFrom(toLegacyString(k, <<4, 1, 3>>)) = <<k>>

(* What a type computes is what the numbers, the calendar and the bytes say, *)
(* and what its text is read back as: 128-bit arithmetic wraps and divides   *)
(* as the mathematical one for every operand pair (integer.cpp), a text out  *)
(* of range is refused or fitted as asked, an amount never changes value or  *)
(* precision between text and units (asset.cpp), a date is its day of the    *)
(* calendar and a timestamp its text (time.cpp), and bytes and names survive *)
(* their encodings. A key or signature is read back from each of its texts,  *)
(* refused under another curve or with a wrong checksum, and recovered whole *)
(* when the caller overlooks the checksum (private_key.cpp:72). Two ends are left out because the code misses them: a    *)
(* remainder of 2^127 or more rounds down (its double loses the top bit),    *)
(* and a fraction of 256 digits or more has its precision cut to a byte.     *)
ValuesExact == WideExact /\ AmountExact /\ TimeExact /\ BytesExact /\ KeyExact
=============================================================================
