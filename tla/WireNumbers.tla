------------------------------ MODULE WireNumbers ------------------------------
(***************************************************************************)
(* How prices and sizes become the strings of an order: roundings to       *)
(* decimals, significant figures and ticks, and the trimming of zeros.     *)
(*                                                                         *)
(* A number is a natural number of units of 10^-Places.  Whoever rounds a  *)
(* number half way between two neighbours may get either: the float next   *)
(* to it lies on one side or the other.  A string stands for the number    *)
(* that the exchange reads, NoNumber when there are no digits.             *)
(***************************************************************************)
EXTENDS Powers

CONSTANTS
    Places,     \* decimals of the unit
    NoNumber    \* the empty string

ASSUME PlacesAssumption == Places \in 1..6 /\ NoNumber \notin Nat

Ten == Power(10)

One == Ten[Places]

-------------------------------------------------------------------------------
(***************************************************************************)
(* Rounding.                                                               *)
(***************************************************************************)
\* The multiples of step that are nearest to x.
Nearest(x, step) ==
    LET below == step * (x \div step)
    IN  CASE 2 * (x - below) < step -> {below}
          [] 2 * (x - below) > step -> {below + step}
          [] OTHER                  -> {below, below + step}

\* Value of the last of d decimals; the unit when it is finer.
DecimalStep(d) == IF d >= Places THEN 1 ELSE Ten[Places - d]

\* Value of the last of n significant figures of x.
FigureStep(x, n) ==
    IF x = 0 THEN 1
    ELSE LET digits == CHOOSE e \in 0..x : x <= Ten[e] /\ (e > 0 => x > Ten[e - 1])
         IN  IF digits > n THEN Ten[digits - n] ELSE 1

RoundToSignificantFigures(x, n) == Nearest(x, FigureStep(x, n))

-------------------------------------------------------------------------------
(***************************************************************************)
(* Strings.                                                                *)
(***************************************************************************)
\* Mutant: zeros are cut off before the point too, also with decimals.
Trim_Point(x, d) ==
    IF x = 0 THEN NoNumber
    ELSE LET zeros == CHOOSE k \in 0..x : x % Ten[k] = 0 /\ x % Ten[k + 1] # 0
         IN  IF zeros > Places THEN (x \div Ten[zeros]) * One ELSE x

\* TrimRight(s, "0"), then TrimRight(s, "."), of x written with d decimals.  Zeros
\* after the point go with the point; without a point they are the number's own.
Trim(x, d) ==
    IF d > 0 THEN x
    ELSE IF x = 0 THEN NoNumber
    ELSE LET n     == x \div One
             zeros == CHOOSE k \in 0..n : n % Ten[k] = 0 /\ n % Ten[k + 1] # 0
         IN  (n \div Ten[zeros]) * One

Printed(x, d) == {Trim(y, d) : y \in Nearest(x, DecimalStep(d))}

SizeToWire(x) == Printed(x, 3)

SizeToWireDecimals(x, szDecimals) == Printed(x, szDecimals)

\* Eight decimals; a number they cannot hold is an error, {} here.
FloatToWire(x) == {y \in Printed(x, 8) : y = x}

PriceToWireDecimals(x, allowedDecimals) ==
    UNION {Printed(y, IF allowedDecimals < 0 THEN 0 ELSE allowedDecimals) :
              y \in RoundToSignificantFigures(x, 5)}

\* FormatUsdAmount prints a float exactly, with a point.
FormatUsdAmount(x) == Trim(x, Places)

\* FloatToUsdInt truncates micro-dollars, and a product of floats that should be whole may
\* come out just below.
FloatToUsdInt(x) == LET micros == x * Ten[6 - Places] IN {micros, micros - 1}
===============================================================================
