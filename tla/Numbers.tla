------------------------------- MODULE Numbers -------------------------------
(***************************************************************************)
(* class Number of zubr-core: a decimal significand * 10^exponent whose    *)
(* arithmetic goes through doubles and back.  A double is an integer m     *)
(* times a power of two, [m, e]; every operation on doubles rounds to the  *)
(* nearest one with Precision bits, ties to even, and storing a double in  *)
(* an int64_t cuts its fraction off.                                       *)
(***************************************************************************)
EXTENDS Integers

CONSTANT Precision      (* bits of a double's significand: 53 in the build *)

ASSUME PrecisionAssumption == Precision \in Nat \ {0, 1}

-----------------------------------------------------------------------------
(* Powers, as functions: the provers know nothing of ^.                    *)

Two[k \in Nat] == IF k = 0 THEN 1 ELSE 2 * Two[k - 1]

Ten[k \in Nat] == IF k = 0 THEN 1 ELSE 10 * Ten[k - 1]

-----------------------------------------------------------------------------
(* Doubles.                                                                *)

Abs(n) == IF n < 0 THEN -n ELSE n

WithSign(n, a) == IF n < 0 THEN -a ELSE a

(* The number of binary digits.                                            *)
Bits[n \in Nat] == IF n = 0 THEN 0 ELSE 1 + Bits[n \div 2]

Shift2(n, k) == IF k >= 0 THEN n * Two[k] ELSE n

(* A number q of more bits than Precision loses drop of them, and they,    *)
(* with the tail cut off before, decide.                                   *)
Cut(n, q, tail, drop, e) ==
  LET kept == q \div Two[drop]
      rest == 2 * (q % Two[drop]) + tail
      up   == \/ rest > Two[drop]
              \/ rest = Two[drop] /\ kept % 2 = 1
  IN  [m |-> WithSign(n, IF up THEN kept + 1 ELSE kept), e |-> e + drop]

(* The double nearest to (n / d) * 2^e: a quotient of one or two bits more *)
(* than Precision, cut to Precision.                                       *)
Double(n, d, e) ==
  LET k   == Precision + 1 + Bits[d] - Bits[Abs(n)]
      num == Shift2(Abs(n), k)
      den == Shift2(d, -k)
      q   == num \div den
  IN  IF n = 0 THEN [m |-> 0, e |-> 0]
      ELSE Cut(n, q, IF num % den = 0 THEN 0 ELSE 1, Bits[q] - Precision, e - k)

FromInt(n) == Double(n, 1, 0)

Times(x, y) == Double(x.m * y.m, 1, x.e + y.e)

Quotient(x, y) == Double(WithSign(y.m, x.m), Abs(y.m), x.e - y.e)

Plus(x, y) ==
  LET e == IF x.e < y.e THEN x.e ELSE y.e
  IN  IF x.m = 0 THEN y ELSE IF y.m = 0 THEN x
      ELSE Double(x.m * Two[x.e - e] + y.m * Two[y.e - e], 1, e)

Minus(x, y) == Plus(x, [y EXCEPT !.m = -@])

(* Conversion to int64_t, towards zero.                                    *)
Truncate(x) ==
  IF x.e >= 0 THEN x.m * Two[x.e] ELSE WithSign(x.m, Abs(x.m) \div Two[-x.e])

(* std::round, halves away from zero.                                      *)
Round(x) ==
  IF x.e >= 0 THEN x
  ELSE FromInt(WithSign(x.m, (2 * Abs(x.m) + Two[-x.e]) \div Two[1 - x.e]))

-----------------------------------------------------------------------------
(* class Number.                                                           *)

Number(significand, exponent) ==
  [significand |-> significand, exponent |-> exponent]

Factor(n) == FromInt(Ten[Abs(n.exponent)])

(* Times ten to the exponent, and back.                                    *)
Scale(n, x) == IF n.exponent < 0 THEN Quotient(x, Factor(n)) ELSE Times(x, Factor(n))

Unscale(n, x) == IF n.exponent < 0 THEN Times(x, Factor(n)) ELSE Quotient(x, Factor(n))

Value(n) == Scale(n, FromInt(n.significand))

Store(n, x) == [n EXCEPT !.significand = Truncate(x)]

AddNumber(n, a) ==
  IF a.exponent = n.exponent
  THEN [n EXCEPT !.significand = @ + a.significand]
  ELSE Store(n, Unscale(n, Plus(Value(n), Value(a))))

Add(n, x) == Store(n, Plus(FromInt(n.significand), Unscale(n, x)))

(* Mutant: what is subtracted is taken for units of the significand.       *)
SubUnscaled(n, x) == Store(n, Minus(FromInt(n.significand), x))

Sub(n, x) == Store(n, Minus(FromInt(n.significand), Unscale(n, x)))

Div(n, x) == Store(n, Quotient(FromInt(n.significand), x))

(* The multiple of m nearest to n, as far as doubles can tell.             *)
ModRing(n, m) ==
  Store(n, Unscale(n,
    Times(Round(Quotient(Value(n), Value(m))), Value(m))))

(* Mutant: significands of different exponents are compared as they are.   *)
LessBySignificand(n, r) == n.significand < r.significand

(* operator<: the significand of the larger exponent is scaled up.         *)
Less(n, r) ==
  LET diff == n.exponent - r.exponent
      up(s, k) == Truncate(Times(FromInt(s), FromInt(Ten[k])))
  IN  CASE diff = 0 -> n.significand < r.significand
        [] diff > 0 -> up(n.significand, diff) < r.significand
        [] diff < 0 -> n.significand < up(r.significand, -diff)

=============================================================================
