----------------------------- MODULE FixedPoint -----------------------------
(* Prices and quantities as integers (fixed12.cpp): a number is stored as     *)
(* that many units of 10^-MAX_FRAC_BITS.  A text is a sign and the digits     *)
(* before and after the point, without which it is an integer.  No number     *)
(* here leaves the 64 bits of the code; rounding goes through a double, which *)
(* keeps DOUBLE_BITS of them.                                                *)
EXTENDS Integers, Sequences, SequencesExt

CONSTANTS
    MAX_FRAC_BITS,      \* 12 in the code
    DOUBLE_BITS,        \* the bits a double keeps, 53 in the code
    TEXT_SIZE,          \* the buffer of Fixed12::toString(), 17 in the code
    Garbage,            \* what a local that is not initialised may hold
    NumberTexts,        \* the texts that are looked at, [neg, int, point, frac]
    Largest             \* and the numbers, on either side of 0

ASSUME FractionAssumption == MAX_FRAC_BITS \in Nat \ {0} /\ Garbage \subseteq Int /\ Garbage # {} /\ Largest \in Nat
ASSUME WidthAssumption == DOUBLE_BITS \in Nat \ {0} /\ TEXT_SIZE \in Nat

FIXED_SCALE == 10 ^ MAX_FRAC_BITS
Signed(neg, n) == IF neg THEN -n ELSE n
Magnitude(n) == Signed(n < 0, n)
\* Integer division as C++ has it.
Quotient(a, b) == Signed((a < 0) # (b < 0), Magnitude(a) \div Magnitude(b))
Prefix(s, n) == SubSeq(s, 1, IF n < Len(s) THEN n ELSE Len(s))
Zeros(n) == [i \in 1 .. n |-> 0]

strtoi(digits) == FoldLeft(LAMBDA n, c : 10 * n + c, 0, digits)
\* std::to_string() of a number that is not negative.
to_string(n) ==
    LET Size == CHOOSE k \in 1 .. 20 : n < 10 ^ k /\ (k = 1 \/ n >= 10 ^ (k - 1))
    IN  [i \in 1 .. Size |-> (n \div 10 ^ (Size - i)) % 10]

\* Mutant: a five is cut off.
RoundedDown(part) == IF part % 10 > 5 THEN part \div 10 + 1 ELSE part \div 10
Rounded(part) == IF part % 10 >= 5 THEN part \div 10 + 1 ELSE part \div 10
\* Digits past the last one round it; what is rounded up to one digit more
\* loses that digit again.
FractionDigits(frac) ==
    IF Len(frac) > MAX_FRAC_BITS
    THEN Prefix(to_string(Rounded(strtoi(Prefix(frac, MAX_FRAC_BITS + 1)))), MAX_FRAC_BITS)
    ELSE frac \o Zeros(MAX_FRAC_BITS - Len(frac))

\* fixed12_new_string_view(): all the values it may return.  Without digits
\* before the point, or without a point, a part of the number is not set.
Parsed(text) ==
    LET whole == IF text.point /\ text.int = << >> THEN Garbage ELSE {strtoi(text.int)}
        fraction == IF text.point THEN {strtoi(FractionDigits(text.frac))} ELSE Garbage
    IN  {Signed(text.neg, i * FIXED_SCALE + f) : i \in whole, f \in fraction}

int_part(fixed) == Quotient(fixed, FIXED_SCALE)
frac_part(fixed) == fixed - FIXED_SCALE * int_part(fixed)

WithoutZeros(digits) ==
    LET kept == {i \in DOMAIN digits : digits[i] # 0}
    IN  IF kept = {} THEN << >> ELSE Prefix(digits, CHOOSE i \in kept : \A j \in kept : j <= i)
\* Mutant: the zeros after the point are left out.
FractionText_bare(part) == IF part = 0 THEN << >> ELSE WithoutZeros(to_string(part))
FractionText(part) ==
    IF part = 0 THEN << >>
    ELSE Zeros(MAX_FRAC_BITS - Len(to_string(part))) \o WithoutZeros(to_string(part))
\* fixed12_to_string()
Printed(fixed) ==
    LET part == frac_part(Magnitude(fixed))
    IN  [neg |-> fixed < 0, int |-> to_string(int_part(Magnitude(fixed))), point |-> part > 0, frac |-> FractionText(part)]

\* Fixed12::toString() has room for it; what is longer overruns its buffer.
TextLength(text) == (IF text.neg THEN 1 ELSE 0) + Len(text.int) + (IF text.point THEN 1 ELSE 0) + Len(text.frac)
Fits(fixed) == TextLength(Printed(fixed)) < TEXT_SIZE

mul(a, b) == Quotient(a * b, FIXED_SCALE)
truediv(a, b) == Quotient(a * FIXED_SCALE, b)

\* A double that is not negative is a quotient num / den, the nearest one to
\* n / d with DOUBLE_BITS bits, ties going to the even one.
ToEven(n, d) ==
    LET q == n \div d
        twice == 2 * (n % d)
    IN  IF twice > d \/ (twice = d /\ q % 2 = 1) THEN q + 1 ELSE q
Up(e) == IF e > 0 THEN 2 ^ e ELSE 1
Exponent(n, d) ==
    CHOOSE e \in -14 .. 20 : LET m == (n * Up(-e)) \div (d * Up(e))
                             IN  2 ^ (DOUBLE_BITS - 1) <= m /\ m < 2 ^ DOUBLE_BITS
Double(n, d) ==
    IF n = 0 THEN [num |-> 0, den |-> 1]
    ELSE LET e == Exponent(n, d)
         IN  [num |-> ToEven(n * Up(-e), d * Up(e)) * Up(e), den |-> Up(-e)]

\* ::round(): halves go away from zero.
RoundedAway(x) == (2 * x.num + x.den) \div (2 * x.den)
\* The number, its quotient by the scale and the product are doubles.
Scaled(a, scale) == LET fixed == Double(Magnitude(a), 1) IN Double(fixed.num, fixed.den * scale)
Product(a, n, scale) == LET product == Double(n * scale, 1) IN Signed(a < 0, product.num \div product.den)
\* Mutant: the quotient is that of integers.
round_cut(a, scale) == Product(a, Scaled(a, scale).num \div Scaled(a, scale).den, scale)
round_to_fractional(a, scale) == Product(a, RoundedAway(Scaled(a, scale)), scale)
round(a, decimalPlaces) == round_to_fractional(a, 10 ^ (MAX_FRAC_BITS - decimalPlaces))
-----------------------------------------------------------------------------
Nearest(text) ==
    LET unit == 10 ^ Len(text.frac)
    IN  (2 * strtoi(text.int \o text.frac) * FIXED_SCALE + unit) \div (2 * unit)
Carries(text) ==
    /\ Len(text.frac) > MAX_FRAC_BITS /\ text.frac[MAX_FRAC_BITS + 1] >= 5
    /\ \A i \in 1 .. MAX_FRAC_BITS : text.frac[i] = 9
\* How far apart the doubles around a number are, if that is more than 1.
Spacing(a) == Up(Exponent(Magnitude(a), 1))
Numbers == -Largest .. Largest

\* A text with a point and digits before it is the nearest number, halves away
\* from zero, unless rounding its fraction up carries into the integer
\* (fixed12.cpp:120: the comment wants it rounded, the code cuts 1.9999999999995
\* down to 1.1).  A number with a fraction is read back from what it is printed
\* as, without zeros at the end; one without is printed without a point, which
\* the reader cannot take; and one that leaves room for all digits of a
\* fraction (below 1000 in the code) fits into the buffer of toString().
\* Products and quotients are off by less than a unit, and the sign does not
\* matter.  A number is rounded to the nearest one only up to 2^DOUBLE_BITS
\* (2^53 units, some 9007.2, in the code: fixed12.cpp:216-225); past that the
\* three conversions may miss by two and a half times the distance of doubles,
\* and the result need not be rounded at all.  On either side a larger number is
\* never rounded to a smaller one.
NumbersExact ==
    /\ \A text \in NumberTexts :
          text.point /\ text.int # << >> /\ ~Carries(text) => Parsed(text) = {Signed(text.neg, Nearest(text))}
    /\ \A v \in Numbers :
          LET text == Printed(v) IN text.point => Parsed(text) = {v} /\ Last(text.frac) # 0
    /\ \A a \in Numbers, b \in Numbers \ {0} :
          LET product == mul(a, b)
              quotient == truediv(a, b)
          IN  /\ Magnitude(product * FIXED_SCALE - a * b) < FIXED_SCALE
              /\ Magnitude(quotient * b - a * FIXED_SCALE) < Magnitude(b)
              /\ mul(-a, b) = -product /\ truediv(-a, b) = -quotient
    /\ \A v \in Numbers :
          v >= 0 /\ v < FIXED_SCALE * 10 ^ (TEXT_SIZE - MAX_FRAC_BITS - 2) => Fits(v)
    /\ \A a \in Numbers, places \in 0 .. MAX_FRAC_BITS :
          LET unit == 10 ^ (MAX_FRAC_BITS - places)
              off == 2 * Magnitude(round(a, places) - a)
          IN  /\ round(-a, places) = -round(a, places)
              /\ a < Largest => round(a, places) <= round(a + 1, places)
              /\ IF Magnitude(a) <= 2 ^ DOUBLE_BITS
                 THEN round(a, places) % unit = 0 /\ off <= unit
                 ELSE off <= unit + 5 * Spacing(a)
=============================================================================
