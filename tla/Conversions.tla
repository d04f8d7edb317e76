---------------------------- MODULE Conversions ----------------------------
(***************************************************************************)
(* The conversion of timestamps between units, in integers of a limited    *)
(* width and with the division of C++, and safe casts of integers.         *)
(***************************************************************************)
EXTENDS Integers

CONSTANTS MinLong, MaxLong,  \* the range of int64_t
          MinInt, MaxInt,    \* the range of int32_t
          Rate               \* Rate[unit]: its units per second

Longs == MinLong..MaxLong

\* Division of C++: towards zero, the remainder has the sign of the dividend.
Quotient(v, d) == IF v >= 0 THEN v \div d ELSE -((-v) \div d)
Remainder(v, d) == v - d * Quotient(v, d)

\* Mutant: the division of C++ is taken for the floor.
TowardsZero(v, d) == Quotient(v, d)
\* floor_div
FloorDiv(v, d) == IF Remainder(v, d) # 0 /\ v < 0 THEN Quotient(v, d) - 1 ELSE Quotient(v, d)

\* Mutant: an off-by-one at the smallest value
FitsWithoutMin(v, factor) == v <= Quotient(MaxLong, factor) /\ v > Quotient(MinLong, factor)
\* v * factor does not overflow.
Fits(v, factor) == v <= Quotient(MaxLong, factor) /\ v >= Quotient(MinLong, factor)

\* convert_timestamps of one value: the set of its result, empty for an error
ConvertTimestamp(v, from, to) ==
  IF from = to THEN {v}
  ELSE IF Rate[to] >= Rate[from]
  THEN LET factor == Rate[to] \div Rate[from] IN
       IF Fits(v, factor) THEN {v * factor} ELSE {}
  ELSE {FloorDiv(v, Rate[from] \div Rate[to])}

\* What it should be: the last point of the target's clock that is not later,
\* if there is a long for it.
IsSameTime(w, v, from, to) ==
  /\ w * Rate[from] <= v * Rate[to]
  /\ v * Rate[to] < (w + 1) * Rate[from]
=============================================================================
