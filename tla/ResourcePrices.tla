---------------------------- MODULE ResourcePrices ----------------------------
(* What CPU, NET and RAM cost, as far as it is computed in integers: the sample  *)
(* of what a weight gives and the decimal division (src/resources/               *)
(* resources.cpp), the share of the network a request for time or bytes takes    *)
(* (powerup.cpp), and the price of RAM (ram.cpp). Integers are those of          *)
(* ChainTypes. The fee curve on top of the share is in doubles and left out.     *)
EXTENDS ChainTypes

CONSTANTS SamplePrecision,   \* BNPrecision, 10^8
          FracDigits,        \* 15, the digits of a share: all of it is 10^15
          PriceInputs        \* what is asked: .powerup [max, weighs, units, weight],
                             \* .ram [base, quote, value], .division [a, b, precision]

VARIABLE price

Int128(n) == U(n % Word, IF n < 0 THEN Word - 1 ELSE 0)
toInt64(a) == IF a.lo >= Word \div 2 THEN a.lo - Word ELSE a.lo

pow10_128(exponent) ==
    FoldLeft(LAMBDA acc, i : intMultiplying(acc, Int128(Radix)), Int128(1), [i \in 1..exponent |-> i])
\* The product is divided again to see whether it wrapped.
mulWouldOverflow(a, b) ==
    LET product == intMultiplying(a, b)
        quotient == intDividing(product, b, "floor")
    IN  a # U(0, 0) /\ b # U(0, 0) /\ (quotient # <<a>> \/ isNegative(product))
divRoundHalfUp(a, b) ==
    LET q == divmod128(a, b)
    IN  IF b = U(0, 0) THEN Refused
        ELSE <<IF AtLeast(doubled(q.rem), b) THEN adding(q.quotient, U(1, 0)) ELSE q.quotient>>
decimalDivideScaled(a, b, precision) ==
    LET scale == pow10_128(precision)
    IN  IF mulWouldOverflow(a, scale) THEN Refused ELSE divRoundHalfUp(intMultiplying(a, scale), b)

\* One less than the quotient where there is a remainder; nothing of no weight.
sampleDivCeil(num, den) ==
    LET q == divmod128(num, den)
    IN  IF den = U(0, 0) THEN U(0, 0)
        ELSE IF q.rem # U(0, 0) /\ AtLeast(q.quotient, U(2, 0)) THEN subtracting(q.quotient, U(1, 0))
        ELSE q.quotient
getSampledUsage(max, weighs) == sampleDivCeil(multiplying(U(max, 0), U(SamplePrecision, 0)), U(weighs, 0))

weightToUnits(sample, weight) ==
    uintDividing(multiplying(U(weight, 0), sample), U(SamplePrecision, 0), "ceil")
unitsToWeight(sample, units) ==
    LET q == intDividing(intMultiplying(Int128(units), Int128(SamplePrecision)), sample, "floor")
    IN  IF q = Refused THEN Refused ELSE <<toInt64(q[1])>>
fracByUnits(sample, units, weight) ==
    LET converted == unitsToWeight(sample, units)
        scaled == decimalDivideScaled(Int128(converted[1]), Int128(weight), FracDigits)
    IN  IF converted = Refused \/ scaled = Refused THEN Refused ELSE <<toInt64(scaled[1])>>
utilization_increase(frac, weight) ==
    intDividing(intMultiplying(U(frac, 0), Int128(weight)), pow10_128(FracDigits), "ceil")
\* (quote * value) / (base - value), rounded away from zero.
get_input(base, quote, value) ==
    LET q == intDividing(intMultiplying(Int128(quote), Int128(value)), Int128(base - value), "ceil")
    IN  IF q = Refused THEN Refused ELSE <<toInt64(q[1])>>

-------------------------------------------------------------------------------
\* What price_per_us and price_per_byte work out before the fee.
QuotePowerUp == \E q \in PriceInputs.powerup :
    LET sample == getSampledUsage(q.max, q.weighs)
        frac == fracByUnits(sample, q.units, q.weight)
    IN  price' = [op |-> "powerup", in |-> q, sample |-> sample, frac |-> frac,
                  weight |-> unitsToWeight(sample, q.units),
                  increase |-> IF frac = Refused THEN Refused ELSE utilization_increase(frac[1], q.weight)]
QuoteRam == \E q \in PriceInputs.ram :
    price' = [op |-> "ram", in |-> q, units |-> get_input(q.base, q.quote, q.value)]
Divide == \E q \in PriceInputs.division :
    price' = [op |-> "division", in |-> q, got |-> decimalDivideScaled(Int128(q.a), Int128(q.b), q.precision)]

PricesInit == price = [op |-> "none"]
PricesNext == price.op = "none" /\ (QuotePowerUp \/ QuoteRam \/ Divide)

-------------------------------------------------------------------------------
Half(x, y) == (2 * x + y) \div (2 * y)
Whole == Radix^FracDigits
Largest == Word \div 2 - 1

\* A sample never promises more of a weight than the account has; the weight of a
\* request read back is within the request; the share paid for covers the weight asked
\* for while the network weighs less than two units of the last digit, and is at most
\* one unit above; all of it as long as the weight and the share are int64s (beyond,
\* toInt64 cuts them without a word, powerup.cpp:112 and :119). The price of RAM is the
\* least that leaves the product of the pool what it was; more RAM than the pool has
\* gets a price below zero rather than an error (ram.cpp:17). A quotient is refused
\* exactly when its numerator leaves 127 bits.
PricesExact ==
    /\ price.op = "powerup" =>
         LET q == price.in
             s == Value(price.sample)
             w == (q.units * SamplePrecision) \div s
             frac == Half(w * Whole, q.weight)
             increase == Value(price.increase[1])
         IN  /\ s * q.weighs <= q.max * SamplePrecision
             /\ (s = 0) = (price.weight = Refused)
             /\ s # 0 /\ w <= Largest =>
                  /\ price.weight = <<w>>
                  /\ Value(weightToUnits(price.sample, w)[1]) <= q.units
                  /\ (q.weight = 0) = (price.frac = Refused)
             /\ s # 0 /\ w <= Largest /\ q.weight # 0 /\ frac <= Largest =>
                  /\ price.frac = <<frac>>
                  /\ q.weight < 2 * Whole => increase \in w..(w + 1)
    /\ price.op = "ram" =>
         LET q == price.in
             pool(p) == (q.quote + p) * (q.base - q.value)
             p == price.units[1]
         IN  /\ (q.value = q.base) = (price.units = Refused)
             /\ q.value < q.base /\ q.quote * q.value <= Largest * (q.base - q.value) =>
                  pool(p) >= q.quote * q.base /\ (p > 0 => pool(p - 1) < q.quote * q.base)
    /\ price.op = "division" =>
         LET q == price.in
             numerator == q.a * Radix^q.precision
         IN  IF q.b = 0 \/ numerator >= Wide \div 2 THEN price.got = Refused
             ELSE ValueOf(price.got) = <<Half(numerator, q.b)>>
===============================================================================
