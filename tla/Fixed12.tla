------------------------------ MODULE Fixed12 ------------------------------
(* The class Fixed12 (fixed12.hpp), through which the C++ code computes with  *)
(* prices and quantities; scripts call the functions of FixedPoint.  The two  *)
(* share the reading and printing of texts, the arithmetic is written twice.  *)
(* An object is its value_, a double that is not negative the quotient        *)
(* num / den.                                                                *)
EXTENDS FixedPoint

newI(n) == n * FIXED_SCALE
Cut(x) == x.num \div x.den
\* Mutant: the cast comes before the product.
newD_early(neg, x) == Signed(neg, Cut(x) * FIXED_SCALE)
\* The product of the double and the scale is a double; the cast cuts its fraction.
newD(neg, x) == Signed(neg, Cut(Double(x.num * FIXED_SCALE, x.den)))

toInt(a) == Quotient(a, FIXED_SCALE)
toFractionalPart(a) == a - FIXED_SCALE * toInt(a)
\* The magnitude of the double, whose sign is that of the number.
toDouble(a) ==
    LET fixed == Double(Magnitude(a), 1) IN Double(fixed.num, fixed.den * FIXED_SCALE)

newSV(text) == Parsed(text)
\* toString(), where the buffer has room for the text.
toString(a) == Printed(a)

roundToFractional(a, scale) == Product(a, RoundedAway(Scaled(a, scale)), scale)
roundTo(a, decimalPlaces) == roundToFractional(a, 10 ^ (MAX_FRAC_BITS - decimalPlaces))

times(a, b) == Quotient(a * b, FIXED_SCALE)
dividedBy(a, b) == Quotient(a * FIXED_SCALE, b)
isLess(a, b) == a < b

\* The decimal logarithm of the inverse of a double below 1, rounded up.
decimalPlaces(x) ==
    LET inverse == Double(x.den, x.num)
        Reaches(k) == inverse.num <= inverse.den * 10 ^ k
    IN  CHOOSE k \in 0 .. MAX_FRAC_BITS : Reaches(k) /\ (k > 0 => ~Reaches(k - 1))
-----------------------------------------------------------------------------
Below(x, y) == x.num * y.den <= y.num * x.den

\* A number made a double and back is the same or, since the cast of newD() cuts
\* (fixed12.hpp:37-39), one unit nearer to 0, as long as it is below
\* 2^(DOUBLE_BITS - 1); doubles keep the order of the numbers.  One and two are
\* what they are for products and quotients, and the product of a quotient and
\* its divisor is not larger than the dividend.  The ticks 1, 0.1 and so on have
\* the decimal places the comment promises (fixed12.hpp:20), so that a number
\* rounded to them is a multiple of the tick.  And the class computes what the
\* functions for scripts compute (fixed12.hpp:45-90, fixed12.cpp:91-97, :204-225).
ClassExact ==
    /\ \A a \in Numbers :
          LET back == newD(a < 0, toDouble(a))
          IN  /\ Magnitude(a) < 2 ^ (DOUBLE_BITS - 1) => Magnitude(a) - Magnitude(back) \in {0, 1}
              /\ a >= 0 => Below(toDouble(a), toDouble(a + 1))
              /\ newI(toInt(a)) + toFractionalPart(a) = a
              /\ times(a, newI(1)) = a /\ dividedBy(a, newI(1)) = a
              /\ times(a, newI(2)) = a + a
              /\ toInt(a) = int_part(a) /\ toFractionalPart(a) = frac_part(a)
    /\ \A a, b \in Numbers :
          /\ times(a, b) = mul(a, b)
          /\ isLess(b, newI(0)) \/ isLess(newI(0), b) =>
                /\ dividedBy(a, b) = truediv(a, b)
                /\ Magnitude(times(dividedBy(a, b), b)) <= Magnitude(a)
    /\ \A a \in Numbers, places \in 0 .. MAX_FRAC_BITS :
          /\ roundTo(a, places) = round(a, places)
          /\ roundToFractional(a, 10 ^ places) = round_to_fractional(a, 10 ^ places)
          /\ LET tick == Double(1, 10 ^ places)
             IN  Magnitude(a) <= 2 ^ DOUBLE_BITS => roundTo(a, decimalPlaces(tick)) % newD(FALSE, tick) = 0
=============================================================================
