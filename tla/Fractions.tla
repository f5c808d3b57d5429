----------------------------- MODULE Fractions -----------------------------
(***************************************************************************)
(* Rational numbers in lowest terms, for geometry that the code computes   *)
(* in floating point: <<n, d>> with d > 0.  <<0, 0>> stands for NaN, what  *)
(* JavaScript makes of a division by zero pixels.                          *)
(***************************************************************************)
EXTENDS Integers

gcd[a \in Nat, b \in Nat] == IF b = 0 THEN a ELSE gcd[b, a % b]

Magnitude(n) == IF n < 0 THEN -n ELSE n

NaN == <<0, 0>>

Frac(n, d) ==
    IF d = 0 THEN NaN
    ELSE IF d = 1 THEN <<n, 1>>
    ELSE LET g == gcd[Magnitude(n), Magnitude(d)]
             sign == IF d < 0 THEN -1 ELSE 1
         IN  <<(sign * n) \div g, (sign * d) \div g>>

Int2Frac(n) == <<n, 1>>
Zero == Int2Frac(0)
One == Int2Frac(1)

Plus(a, b) == Frac(a[1] * b[2] + b[1] * a[2], a[2] * b[2])
Neg(a) == <<-a[1], a[2]>>
Minus(a, b) == Plus(a, Neg(b))
Times(a, b) == Frac(a[1] * b[1], a[2] * b[2])
Over(a, b) == IF a = NaN \/ b = NaN THEN NaN ELSE Frac(a[1] * b[2], a[2] * b[1])
Half(a) == Over(a, Int2Frac(2))
AbsOf(a) == <<Magnitude(a[1]), a[2]>>

(* a <= b; a comparison with NaN is false. *)
Leq(a, b) == a # NaN /\ b # NaN /\ a[1] * b[2] <= b[1] * a[2]

(* Math.max and Math.min, which answer NaN when either argument is. *)
Larger(a, b) == IF a = NaN \/ b = NaN THEN NaN ELSE IF Leq(a, b) THEN b ELSE a
Smaller(a, b) == IF a = NaN \/ b = NaN THEN NaN ELSE IF Leq(a, b) THEN a ELSE b
=============================================================================
