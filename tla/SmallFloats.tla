----------------------------- MODULE SmallFloats -----------------------------
(***************************************************************************)
(* Binary floating point with a significand of Precision bits and rounding *)
(* to nearest even, as double has with 53 bits: the arithmetic of C++ on   *)
(* double with the precision as a parameter.  A number is a pair of        *)
(* integers, numerator and positive denominator; after rounding the        *)
(* denominator is a power of two.  Exponents do not overflow here.         *)
(***************************************************************************)
EXTENDS Workbench

CONSTANT Precision

ASSUME PrecisionAssumption == Precision \in 3 .. 10

Exact(n) == <<n, 1>>

Less(a, b) == a[1] * b[2] < b[1] * a[2]

SameNumber(a, b) == a[1] * b[2] = b[1] * a[2]

IntegerPart(a) == Truncated(a[1], a[2])

(* The integer nearest to n / d, the even one of two. *)
Nearest(n, d) ==
  LET q == n \div d
      rest == 2 * (n % d)
  IN IF rest > d \/ (rest = d /\ q % 2 = 1) THEN q + 1 ELSE q

(* n / d rounded, for n >= 0: scaled until its integer part has Precision  *)
(* bits, rounded there and scaled back.                                    *)
RoundedFraction(n, d) ==
  IF n = 0 THEN <<0, 1>>
  ELSE LET up(e) == n * PowerOf2[e] < d * PowerOf2[Precision]
           e == IF up(0) THEN Max({k \in 0 .. 12 : up(k)}) ELSE 0
           down == IF up(0) THEN 0 ELSE Min({k \in 1 .. 16 : n < d * PowerOf2[k + Precision]})
       IN <<Nearest(n * PowerOf2[e], d * PowerOf2[down]) * PowerOf2[down], PowerOf2[e]>>

Float(n, d) ==
  LET f == RoundedFraction(IF n < 0 THEN -n ELSE n, d) IN IF n < 0 THEN <<-f[1], f[2]>> ELSE f

FloatPlus(a, b) == Float(a[1] * b[2] + b[1] * a[2], a[2] * b[2])

FloatMinus(a, b) == FloatPlus(a, <<-b[1], b[2]>>)

FloatTimes(a, b) == Float(a[1] * b[1], a[2] * b[2])

FloatOver(a, b) ==
  IF b[1] > 0 THEN Float(a[1] * b[2], a[2] * b[1]) ELSE Float(-a[1] * b[2], -a[2] * b[1])

(* 1.0 - std::numeric_limits<double>::epsilon() *)
OneEps == <<PowerOf2[Precision - 1] - 1, PowerOf2[Precision - 1]>>
=============================================================================
