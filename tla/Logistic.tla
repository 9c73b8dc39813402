------------------------------ MODULE Logistic ------------------------------
(***************************************************************************)
(* The transcendental functions of the detector, on integers.  Arguments   *)
(* are hundredths and results percentages, read off tables that are linear *)
(* between their knots.                                                    *)
(***************************************************************************)
EXTENDS Integers, SequencesExt

(* knots holds a value for 0, step, 2 * step, ...; x is below the last.    *)
Interpolated(knots, step, x) ==
  LET k == x \div step  rest == x % step
  IN (knots[k + 1] * (step - rest) + knots[k + 2] * rest) \div step

(* At 0, 0.5, ..., 5.5.                                                    *)
SigmoidKnots == <<50, 62, 73, 82, 88, 92, 95, 97, 98, 99, 99, 100>>

Squashed(x) == IF x >= 550 THEN 100 ELSE Interpolated(SigmoidKnots, 50, x)

Sigmoid(x) == IF x >= 0 THEN Squashed(x) ELSE 100 - Squashed(-x)

Tanh(x) == 2 * Sigmoid(2 * x) - 100

(* ln(p / (1 - p)), with p held within 0.0001 and 0.9999.                  *)
Logit ==
  [p \in 0 .. 100 |->
     IF p = 0 THEN -921 ELSE IF p = 100 THEN 921
       ELSE CHOOSE x \in -550 .. 550 : Sigmoid(x) >= p /\ Sigmoid(x - 1) < p]

(* e^0, e^1, ... milliseconds, in units of 10 ms.                          *)
ExpKnots == <<0, 0, 1, 2, 5, 15, 40, 110, 298, 810, 2203>>

Exp(x) == IF x < 0 THEN 0 ELSE Interpolated(ExpKnots, 100, x)

(* Bit by bit, for what is below 2^24.                                     *)
SquareRoot(v) ==
  FoldLeft(LAMBDA r, bit : IF (r + bit) * (r + bit) <= v THEN r + bit ELSE r,
           0, <<2048, 1024, 512, 256, 128, 64, 32, 16, 8, 4, 2, 1>>)
=============================================================================
