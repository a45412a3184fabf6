------------------------------ MODULE ValueTypes ------------------------------
(***************************************************************************)
(* Calendar dates (primitives/calendar.ts), computed with JavaScript's Date*)
(* as the code uses it, and decimal numbers (primitives/decimal.ts).      *)
(*                                                                        *)
(* utcDate makes a date in the year 1900, for Date.UTC takes the year 0 for*)
(* that, and then gives it the year it is to have.  So months are counted *)
(* with a February of 28 days, and what runs over the end of the year comes*)
(* back into the same year.  A period's hours, minutes and seconds only   *)
(* matter by the whole days in them, which are counted among its days, as *)
(* its weeks are.                                                         *)
(*                                                                        *)
(* A decimal number is a coefficient and a scale, the number of its digits*)
(* that are after the point.  The coefficients are of any size (BigInt).  *)
(* Parsing and printing are left out.                                     *)
(***************************************************************************)
EXTENDS Integers, FiniteSetsExt

CONSTANT None

Date(year, month, day) == [year |-> year, month |-> month, day |-> day]

Leap(year) == year % 4 = 0 /\ (year % 100 # 0 \/ year % 400 = 0)

\* The days of a year before a month, the 13th too.
DaysBefore(year, month) ==
  <<0, 31, 59, 90, 120, 151, 181, 212, 243, 273, 304, 334, 365>>[month]
    + (IF Leap(year) /\ month > 2 THEN 1 ELSE 0)

\* The Gregorian calendar: days of a month, and days since the beginning of the year 1.
LastDay(year, month) == DaysBefore(year, month + 1) - DaysBefore(year, month)

DayNumber(d) ==
  LET y == d.year - 1 IN
    365 * y + y \div 4 - y \div 100 + y \div 400 + DaysBefore(d.year, d.month) + d.day

-----------------------------------------------------------------------------
\* The date n days after the first of January 1900, before 1904.
From1900(n) ==
  LET year  == 1900 + n \div 365
      day   == n % 365
      month == Max({m \in 1..12 : DaysBefore(1900, m) <= day})
  IN  Date(year, month, day - DaysBefore(1900, month) + 1)

\* utcDate, with months from 1 to 13 and any day from 0 on.
UtcDate(year, month, day) ==
  [From1900(DaysBefore(1900, month) + day - 1) EXCEPT !.year = year]

\* daysInMonth: the day before the first of the next month.
DaysInMonth(year, month) == UtcDate(year, month + 1, 0).day

\* isValidCalendarDate, which parseCalendarDate and addCalendarPeriod ask.
IsValid(d) ==
  d.year >= 1 /\ d.month \in 1..12 /\ d.day >= 1 /\ d.day <= DaysInMonth(d.year, d.month)

\* The month a period of years and months leads to, from a month counted from 1.
MonthIndex(month, period) == month - 1 + period.years * 12 + period.months

\* addCalendarPeriod; None is an error.
AddPeriod(d, period, overflow) ==
  LET index == MonthIndex(d.month, period)
      year  == d.year + index \div 12
      month == 1 + (index % 12)
      last  == DaysInMonth(year, month)
  IN  IF ~IsValid(d) \/ (overflow = "reject" /\ d.day > last) THEN None
      ELSE UtcDate(year, month, Min({d.day, last}) + period.days)

-----------------------------------------------------------------------------
LeapDay(d) == Leap(d.year) /\ d.month = 2 /\ d.day = 29

\* The day of a target month that a period leads to before its days are added.
Target(d, period) ==
  LET months == d.year * 12 + d.month - 1 + period.years * 12 + period.months
      year   == months \div 12
      month  == 1 + (months % 12)
  IN  Date(year, month, Min({d.day, LastDay(year, month)}))

(***************************************************************************)
(* The dates that are accepted are those of the Gregorian calendar but for *)
(* the 29th of February.  A period leads to the date that the calendar     *)
(* says, and "reject" refuses exactly the days that a month has not, when  *)
(* no 29th of February and no end of a year is passed on the way; and what *)
(* passes the end of a year is taken back to the year it has left.         *)
(***************************************************************************)
CalendarKept(d, period, overflow) ==
  LET target == Target(d, period)
      result == AddPeriod(d, period, overflow)
      days   == target.day + period.days
      beyond == DaysBefore(target.year, target.month) + days > DaysBefore(target.year, 13)
      leap   == Leap(target.year) /\ target.month <= 2
                  /\ DaysBefore(target.year, target.month) + days > 59
  IN  /\ IsValid(d) <=> d.day <= LastDay(d.year, d.month) /\ ~LeapDay(d)
      /\ IsValid(d) /\ ~leap =>
           /\ result = None <=> overflow = "reject" /\ target.day < d.day
           /\ result # None /\ ~beyond => DayNumber(result) = DayNumber(target) + period.days
           /\ result # None /\ beyond => result.year = target.year

-----------------------------------------------------------------------------
Modes == {"ceiling", "down", "floor", "half_down", "half_even", "half_up", "up"}

Number(coefficient, scale) == [coefficient |-> coefficient, scale |-> scale]

Absolute(n) == IF n < 0 THEN -n ELSE n

\* The coefficient x would have with a larger scale.
At(x, scale) == x.coefficient * 10 ^ (scale - x.scale)

Larger(x, y) == Max({x.scale, y.scale})

Add(x, y) == Number(At(x, Larger(x, y)) + At(y, Larger(x, y)), Larger(x, y))

Negate(x) == Number(-x.coefficient, x.scale)

Multiply(x, y) == Number(x.coefficient * y.coefficient, x.scale + y.scale)

Compare(x, y) ==
  LET left  == At(x, Larger(x, y))
      right == At(y, Larger(x, y))
  IN  IF left < right THEN -1 ELSE IF left > right THEN 1 ELSE 0

-----------------------------------------------------------------------------
\* Of the absolute values of a quotient that is not whole.
ShouldIncrement(sign, quotient, remainder, denominator, mode) ==
  CASE mode = "down" -> FALSE
    [] mode = "up" -> TRUE
    [] mode = "ceiling" -> sign > 0
    [] mode = "floor" -> sign < 0
    [] mode = "half_up" -> remainder * 2 >= denominator
    [] mode = "half_down" -> remainder * 2 > denominator
    [] mode = "half_even" ->
         \/ remainder * 2 > denominator
         \/ remainder * 2 = denominator /\ quotient % 2 # 0

RoundQuotient(numerator, denominator, mode) ==
  LET sign      == IF (numerator < 0) # (denominator < 0) THEN -1 ELSE 1
      divisor   == Absolute(denominator)
      quotient  == Absolute(numerator) \div divisor
      remainder == Absolute(numerator) % divisor
      increment == IF /\ remainder # 0
                      /\ ShouldIncrement(sign, quotient, remainder, divisor, mode)
                     THEN 1 ELSE 0
  IN  (quotient + increment) * sign

\* None is the error of a division by zero.
Divide(x, y, scale, mode) ==
  IF y.coefficient = 0 THEN None
  ELSE Number(RoundQuotient(x.coefficient * 10 ^ (y.scale + scale),
                            y.coefficient * 10 ^ x.scale, mode), scale)

Quantize(x, scale, mode) ==
  IF scale >= x.scale THEN Number(At(x, scale), scale)
  ELSE Number(RoundQuotient(x.coefficient, 10 ^ (x.scale - scale), mode), scale)

\* As long as the scale allows, the last digit is dropped when it is 0.
Normalize(x) ==
  IF x.coefficient = 0 THEN Number(0, 0)
  ELSE LET zeros == Max({n \in 0..x.scale : x.coefficient % 10 ^ n = 0})
       IN  Number(x.coefficient \div 10 ^ zeros, x.scale - zeros)

-----------------------------------------------------------------------------
(***************************************************************************)
(* r is the quotient of n and d, d > 0, rounded as the mode's name says.   *)
(***************************************************************************)
Rounded(r, n, d, mode) ==
  LET below == r * d <= n /\ n < (r + 1) * d
      above == (r - 1) * d < n /\ n <= r * d
      near  == 2 * Absolute(n - r * d) <= d
      tie   == 2 * Absolute(n - r * d) = d
  IN  CASE mode = "floor" -> below
        [] mode = "ceiling" -> above
        [] mode = "down" -> IF n >= 0 THEN below ELSE above
        [] mode = "up" -> IF n >= 0 THEN above ELSE below
        [] mode = "half_even" -> near /\ (tie => r % 2 = 0)
        [] mode = "half_up" -> near /\ (tie => Absolute(r * d) > Absolute(n))
        [] mode = "half_down" -> near /\ (tie => Absolute(r * d) < Absolute(n))

(***************************************************************************)
(* Sums and products are exact; quotients and quantized numbers are off by *)
(* the rounding that was asked for and no other, also where the sign or a  *)
(* scale changes; and two numbers are equal exactly when they normalise to *)
(* the same coefficient and scale.                                         *)
(***************************************************************************)
DecimalsExact(x, y, Scales) ==
  LET common == Larger(x, y)
      a == At(x, common)
      b == At(y, common)
  IN  /\ At(Add(x, y), common) = a + b
      /\ At(Multiply(x, y), 2 * common) = a * b
      /\ Compare(x, y) = 0 <=> Normalize(x) = Normalize(y)
      /\ Compare(x, y) = -Compare(Negate(x), Negate(y))
      /\ \A scale \in Scales, mode \in Modes :
           /\ Quantize(x, scale, mode).scale = scale
           /\ Rounded(Quantize(x, scale, mode).coefficient, a * 10 ^ scale, 10 ^ common, mode)
           /\ b # 0 =>
                Rounded(Divide(x, y, scale, mode).coefficient,
                        a * 10 ^ scale * (IF b < 0 THEN -1 ELSE 1), Absolute(b), mode)
=============================================================================
