------------------------------- MODULE Floats -------------------------------
(***************************************************************************)
(* float64, as far as the pool's fee needs it: numbers from zero on, each  *)
(* of them num / den with a whole number num of a bounded length and a     *)
(* power of two den, and operations that are rounded to the nearest one.   *)
(* Numbers of 2 * Significand and more, which float64 holds in steps above *)
(* one, stay whole numbers here; the reward is far below (PayoutAssumption *)
(* of ShareSubmit).                                                        *)
(***************************************************************************)
EXTENDS Integers

CONSTANTS
    Significand,        \* 2^52: the least num of a number that is not tiny
    Scales              \* the powers of two that den may be: 1 .. 2^1074

ASSUME FloatAssumption ==
    /\ Significand \in Nat \ {0} /\ Scales \subseteq Nat \ {0}
    /\ \A s \in Scales : s = 1 \/ (s % 2 = 0 /\ s \div 2 \in Scales)
    /\ \E top \in Scales : top >= Significand /\ \A s \in Scales : s <= top

(* A decimal text that is read, or any other exact number from zero on.    *)
IsFraction(x) == x.num \in Nat /\ x.den \in Nat \ {0}
AtMost(x, n) == x.num <= n * x.den

(* num / den to a whole number, a half to the even one.                    *)
Nearest(num, den) ==
    LET below == num \div den
        rest  == 2 * (num % den)
    IN  IF rest > den \/ (rest = den /\ below % 2 = 1) THEN below + 1 ELSE below

(* The den of the number nearest to num / den: no finer than the length of *)
(* the num needs.                                                          *)
Fills(num, den, scale) == num * scale >= Significand * den
IsScaleOf(num, den, scale) ==
    /\ Fills(num, den, scale) \/ \A s \in Scales : s <= scale
    /\ \A s \in Scales : s < scale => ~Fills(num, den, s)
ScaleOf(num, den) == CHOOSE scale \in Scales : IsScaleOf(num, den, scale)

Float(num, den) ==
    LET scale == ScaleOf(num, den)
    IN  [num |-> Nearest(num * scale, den), den |-> scale]
=============================================================================
