-------------------------------- MODULE Floats --------------------------------
(***************************************************************************)
(* Positive floating-point numbers as Go's float64 has them: a quotient or *)
(* a product is the number of Precision bits that is nearest to the exact  *)
(* result, the even one of two that are equally near. float64 has 53 bits; *)
(* with fewer, the same errors show at smaller numbers.                    *)
(***************************************************************************)
EXTENDS Integers

CONSTANT Precision   \* bits of a mantissa

ASSUME FloatAssumption == Precision \in Nat \ {0, 1}

PowerOfTwo[n \in Nat] == IF n = 0 THEN 1 ELSE 2 * PowerOfTwo[n - 1]

\* 2^e is PowerUp(e) / PowerDown(e), whatever the sign of e.
PowerUp(e) == IF e > 0 THEN PowerOfTwo[e] ELSE 1
PowerDown(e) == IF e < 0 THEN PowerOfTwo[-e] ELSE 1

BitLength(n) == CHOOSE k \in 1 .. n : PowerOfTwo[k - 1] <= n /\ n < PowerOfTwo[k]

\* man * 2^exp
Float(man, exp) == [man |-> man, exp |-> exp]

Numerator(x) == x.man * PowerUp(x.exp)
Denominator(x) == PowerDown(x.exp)

FloatZero == Float(0, 0)

CeilDiv(n, d) == (n + d - 1) \div d

NearestEven(n, d) ==
    LET down == n \div d
        twice == 2 * (n % d)
    IN  IF twice > d \/ (twice = d /\ down % 2 = 1) THEN down + 1 ELSE down

\* The exponent with which n / d has a mantissa of Precision bits before its
\* point.
Exponent(n, d) ==
    LET least == BitLength(n) - BitLength(d) - Precision
    IN  CHOOSE e \in least .. least + 1 :
            LET up == n * PowerDown(e)
                down == d * PowerUp(e)
            IN  down * PowerOfTwo[Precision - 1] <= up /\ up < down * PowerOfTwo[Precision]

\* The quotient n / d times 2^shift, rounded.
RoundedQuotient(n, d, shift) ==
    IF n = 0 THEN FloatZero
    ELSE LET exp == Exponent(n, d)
         IN  Float(NearestEven(n * PowerDown(exp), d * PowerUp(exp)), exp + shift)

FloatDiv(x, y) == RoundedQuotient(x.man, y.man, x.exp - y.exp)

FloatMul(x, y) == RoundedQuotient(x.man * y.man, 1, x.exp + y.exp)

FloatCeil(x) == CeilDiv(Numerator(x), Denominator(x))
=============================================================================
