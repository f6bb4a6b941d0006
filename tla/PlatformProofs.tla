--------------------------- MODULE PlatformProofs ---------------------------
(***************************************************************************)
(* The calendars and the clock of the kernel (modules Calendar and Clock)  *)
(* and the page tables it runs on (module Paging).                         *)
(***************************************************************************)
EXTENDS Clock, Paging, FiniteSetTheorems, WellFoundedInduction, TLAPS

(* A nonempty set of natural numbers has a least member. *)
LEMMA Least ==
    ASSUME NEW S \in SUBSET Nat, S # {} PROVE \E x \in S : \A y \in S : x <= y
<1>1. PICK x \in S : \A y \in S : <<y, x>> \notin OpToRel(<, Nat)
  BY NatLessThanWellFounded, WFMin, Zenon
<1>2. ASSUME NEW y \in S PROVE x <= y
  <2>1. ~ (y < x)
    BY <1>1, Zenon DEF OpToRel
  <2> QED
    BY <2>1
<1> QED
  BY <1>2, Zenon

(* Min names the least member, when a member is known to be one. *)
LEMMA MinIs ==
    ASSUME NEW S \in SUBSET Nat, NEW x \in S, \A y \in S : x <= y PROVE Min(S) = x
<1> DEFINE m == CHOOSE z \in S : \A y \in S : z <= y
<1>1. m \in S /\ \A y \in S : m <= y
  BY Zenon
<1>2. Min(S) = m
  BY Zenon DEF Min
<1> HIDE DEF m
<1>3. m <= x /\ x <= m /\ m \in Nat /\ x \in Nat
  BY <1>1, Zenon
<1> QED
  BY <1>2, <1>3

(* Quotient and remainder, for any divisor. *)
LEMMA DivMod ==
    ASSUME NEW a \in Nat, NEW b \in Nat, b > 0
    PROVE  /\ a \div b \in Nat /\ a % b \in 0..(b - 1)
           /\ a = (a \div b) * b + (a % b)
OBVIOUS

(* A quotient is known by its bounds. *)
LEMMA DivIs ==
    ASSUME NEW a \in Nat, NEW b \in Nat, b > 0, NEW q \in Nat, q * b <= a, a < q * b + b
    PROVE  a \div b = q
<1> DEFINE d == a \div b
<1>1. d \in Nat /\ d * b <= a /\ a < d * b + b
  <2>1. a % b \in 0..(b - 1) /\ a = d * b + (a % b) /\ d \in Nat
    BY DivMod, Zenon
  <2>2. a % b \in Int /\ d * b \in Int
    BY <2>1
  <2> HIDE DEF d
  <2> QED
    BY <2>1, <2>2
<1> HIDE DEF d
<1>2. CASE d < q
  <2>1. d + 1 <= q
    BY <1>1, <1>2
  <2>2. (d + 1) * b <= q * b
    BY <1>1, <2>1
  <2>3. (d + 1) * b = d * b + b
    BY <1>1
  <2> QED
    BY <1>1, <2>2, <2>3
<1>3. CASE q < d
  <2>1. q + 1 <= d
    BY <1>1, <1>3
  <2>2. (q + 1) * b <= d * b
    BY <1>1, <2>1
  <2>3. (q + 1) * b = q * b + b
    BY <1>1
  <2> QED
    BY <1>1, <2>2, <2>3
<1>4. CASE d = q
  BY <1>4, Zenon DEF d
<1> QED
  BY <1>1, <1>2, <1>3, <1>4

(* A number smaller than the divisor is its own remainder. *)
LEMMA SmallMod ==
    ASSUME NEW a \in Nat, NEW b \in Nat, a < b PROVE a % b = a
<1>1. b > 0 /\ 0 * b <= a /\ a < 0 * b + b
  OBVIOUS
<1>2. a \div b = 0
  BY <1>1, DivIs
<1>3. a = (a \div b) * b + (a % b) /\ a % b \in 0..(b - 1)
  BY <1>1, DivMod, Zenon
<1> QED
  BY <1>2, <1>3

-----------------------------------------------------------------------------
(* The loop over the months.                                               *)

(* The recursion of DaysOver, as a condition on a function of the months   *)
(* passed.                                                                 *)
SumsTo(f, months, n) ==
    f = [m \in 0..n |-> IF m = 0 THEN 0 ELSE f[m - 1] + months[m]]

(* Some function meets it: otherwise there is a least number of months for *)
(* which none does, and the one for a month less can be extended.          *)
LEMMA SumsExist ==
    ASSUME NEW months, NEW n \in Nat PROVE \E f : SumsTo(f, months, n)
<1> DEFINE Bad == {k \in Nat : ~ \E f : SumsTo(f, months, k)}
<1> SUFFICES ASSUME Bad # {} PROVE FALSE
  BY Zenon
<1>1. Bad \in SUBSET Nat
  BY Zenon
<1>2. PICK k \in Bad : \A y \in Bad : k <= y
  BY <1>1, Least, Zenon
<1>3. k \in Nat
  BY <1>2, Zenon
<1>4. CASE k = 0
  <2> DEFINE f == [m \in 0..0 |-> 0]
  <2>1. SumsTo(f, months, 0)
    BY DEF SumsTo
  <2> HIDE DEF f
  <2> QED
    BY <1>2, <1>4, <2>1, Zenon
<1>5. CASE k # 0
  <2>1. k - 1 \in Nat /\ ~(k <= k - 1)
    BY <1>3, <1>5
  <2>2. k - 1 \notin Bad
    BY <1>2, <2>1, Zenon
  <2>3. PICK g : SumsTo(g, months, k - 1)
    BY <2>1, <2>2, Zenon
  <2> DEFINE h == [m \in 0..k |-> IF m = k THEN g[k - 1] + months[k] ELSE g[m]]
  <2>4. ASSUME NEW m \in 0..k PROVE h[m] = IF m = 0 THEN 0 ELSE h[m - 1] + months[m]
    <3>1. CASE m = k
      BY <1>3, <1>5, <3>1
    <3>2. CASE m # k
      <4>1. m \in 0..(k - 1) /\ (m # 0 => m - 1 \in 0..k /\ m - 1 # k)
        BY <1>3, <3>2
      <4>2. g[m] = IF m = 0 THEN 0 ELSE g[m - 1] + months[m]
        BY <2>3, <4>1 DEF SumsTo
      <4> QED
        BY <3>2, <4>1, <4>2, Zenon
    <3> QED
      BY <3>1, <3>2, Zenon
  <2>5. SumsTo(h, months, k)
    <3> HIDE DEF h
    <3>1. h = [m \in 0..k |-> h[m]]
      BY Zenon DEF h
    <3> QED
      BY <2>4, <3>1 DEF SumsTo
  <2> HIDE DEF h
  <2> QED
    BY <1>2, <2>5, Zenon
<1> HIDE DEF Bad
<1> QED
  BY <1>4, <1>5, Zenon

(* What the loop adds, round by round. *)
LEMMA DaysOverSteps ==
    ASSUME NEW months
    PROVE  /\ DaysOver(months, 0) = 0
           /\ \A m \in 1..12 : DaysOver(months, m) = DaysOver(months, m - 1) + months[m]
<1> DEFINE f == CHOOSE g : SumsTo(g, months, 12)
<1>1. SumsTo(f, months, 12)
  BY SumsExist, Zenon
<1>2. \A n : DaysOver(months, n) = f[n]
  BY Zenon DEF DaysOver, SumsTo
<1> HIDE DEF f
<1>3. \A m \in 0..12 : f[m] = IF m = 0 THEN 0 ELSE f[m - 1] + months[m]
  BY <1>1, Zenon DEF SumsTo
<1>4. f[0] = 0 /\ \A m \in 1..12 : f[m] = f[m - 1] + months[m]
  BY <1>3
<1> QED
  BY <1>2, <1>4, Zenon

(* The two tables of month lengths are the same, and name the last days of *)
(* the months.                                                             *)
LEMMA MonthTables ==
    ASSUME NEW y \in Nat
    PROVE  /\ unix_months(y) = rtc_months(y)
           /\ \A m \in 1..12 : unix_months(y)[m] = days_in_month(y, m)
<1>1. \A m \in 1..12 : (MonthDays[m] + IF m = 2 /\ is_leap_year(y) THEN 1 ELSE 0)
                       = days_in_month(y, m)
  <2> SUFFICES ASSUME NEW m \in 1..12
               PROVE (MonthDays[m] + IF m = 2 /\ is_leap_year(y) THEN 1 ELSE 0)
                     = days_in_month(y, m)
    BY Zenon
  <2>1. MonthDays[m] \in Nat /\ MonthDays[2] = 28
    BY DEF MonthDays
  <2> QED
    BY <2>1 DEF days_in_month
<1> QED
  BY <1>1, Zenon DEF unix_months, rtc_months

(* The days of a year before its month m. *)
BeforeMonth(y, m) == MonthStart[m] + IF m > 2 /\ is_leap_year(y) THEN 1 ELSE 0

(* The loop over the months has added them up when it reaches month m. *)
LEMMA MonthSums ==
    ASSUME NEW y \in Nat, NEW m \in 1..12
    PROVE  DaysOver(rtc_months(y), m - 1) = BeforeMonth(y, m)
<1> DEFINE t(k) == DaysOver(rtc_months(y), k)
           leap == IF is_leap_year(y) THEN 1 ELSE 0
<1>0. leap \in {0, 1}
  BY Zenon
<1>1. /\ rtc_months(y)[1] = 31 /\ rtc_months(y)[2] = 28 + leap /\ rtc_months(y)[3] = 31
      /\ rtc_months(y)[4] = 30 /\ rtc_months(y)[5] = 31 /\ rtc_months(y)[6] = 30
      /\ rtc_months(y)[7] = 31 /\ rtc_months(y)[8] = 31 /\ rtc_months(y)[9] = 30
      /\ rtc_months(y)[10] = 31 /\ rtc_months(y)[11] = 30 /\ rtc_months(y)[12] = 31
  BY DEF rtc_months, MonthDays
<1>2. t(0) = 0 /\ \A k \in 1..12 : t(k) = t(k - 1) + rtc_months(y)[k]
  BY DaysOverSteps, Zenon
<1>3. /\ BeforeMonth(y, 1) = 0 /\ BeforeMonth(y, 2) = 31 /\ BeforeMonth(y, 3) = 59 + leap
      /\ BeforeMonth(y, 4) = 90 + leap /\ BeforeMonth(y, 5) = 120 + leap
      /\ BeforeMonth(y, 6) = 151 + leap /\ BeforeMonth(y, 7) = 181 + leap
      /\ BeforeMonth(y, 8) = 212 + leap /\ BeforeMonth(y, 9) = 243 + leap
      /\ BeforeMonth(y, 10) = 273 + leap /\ BeforeMonth(y, 11) = 304 + leap
      /\ BeforeMonth(y, 12) = 334 + leap
  BY DEF BeforeMonth, MonthStart
<1> HIDE DEF t, leap
<1>4. t(1) = 31 /\ t(2) = 59 + leap /\ t(3) = 90 + leap /\ t(4) = 120 + leap
  BY <1>0, <1>1, <1>2
<1>5. t(5) = 151 + leap /\ t(6) = 181 + leap /\ t(7) = 212 + leap /\ t(8) = 243 + leap
  BY <1>0, <1>1, <1>2, <1>4
<1>6. t(9) = 273 + leap /\ t(10) = 304 + leap /\ t(11) = 334 + leap
  BY <1>0, <1>1, <1>2, <1>5
<1>7. t(m - 1) = BeforeMonth(y, m)
  <2>1. m \in {1, 2, 3, 4, 5, 6, 7, 8, 9, 10, 11, 12}
    OBVIOUS
  <2> QED
    BY <1>2, <1>3, <1>4, <1>5, <1>6, <2>1
<1> QED
  BY <1>7, Zenon DEF t

-----------------------------------------------------------------------------
(* The loop over the years.                                                *)

(* The rule of the code for leap years is the calendar's. *)
LEMMA LeapRule ==
    ASSUME NEW y \in Nat
    PROVE  is_leap_year(y) <=> (y % 400 = 0 \/ (y % 4 = 0 /\ y % 100 # 0))
BY DEF is_leap_year

(* The calendar counts a leap year more after a leap year. *)
LEMMA LeapCount ==
    ASSUME NEW y \in Nat
    PROVE  /\ LeapYearsBefore(y + 1) = LeapYearsBefore(y) + IF is_leap_year(y) THEN 1 ELSE 0
           /\ LeapYearsBefore(y) \in Int
<1>1. /\ y \div 4 = ((y - 1) \div 4) + IF y % 4 = 0 THEN 1 ELSE 0
      /\ y \div 100 = ((y - 1) \div 100) + IF y % 100 = 0 THEN 1 ELSE 0
      /\ y \div 400 = ((y - 1) \div 400) + IF y % 400 = 0 THEN 1 ELSE 0
  OBVIOUS
<1>2. (y + 1) - 1 = y
  OBVIOUS
<1>3. /\ y % 400 = 0 => y % 100 = 0
      /\ y % 100 = 0 => y % 4 = 0
  OBVIOUS
<1> QED
  BY <1>1, <1>2, <1>3, LeapRule DEF LeapYearsBefore

(* A year of the loop adds its days. *)
LEMMA YearStep ==
    ASSUME NEW y \in Nat, y >= EPOCH_YEAR
    PROVE  /\ DaysBefore(EPOCH_YEAR) = 0
           /\ DaysBefore(y) \in Nat
           /\ DaysBefore(y + 1) = DaysBefore(y) + YearDays(y)
<1> DEFINE Leap(z) == {x \in EPOCH_YEAR..(z - 1) : is_leap_year(x)}
<1>0. EPOCH_YEAR \in Nat
  BY DEF EPOCH_YEAR
<1>1. Cardinality(EPOCH_YEAR..(EPOCH_YEAR - 1)) = 0 /\ Cardinality(Leap(EPOCH_YEAR)) = 0
  <2>1. EPOCH_YEAR..(EPOCH_YEAR - 1) = {}
    BY <1>0
  <2>2. Leap(EPOCH_YEAR) = {}
    BY <2>1, Zenon
  <2> QED
    BY <2>1, <2>2, FS_EmptySet, Zenon
<1>2. /\ Cardinality(EPOCH_YEAR..(y - 1)) = y - EPOCH_YEAR
      /\ Cardinality(EPOCH_YEAR..((y + 1) - 1)) = (y + 1) - EPOCH_YEAR
      /\ IsFiniteSet(EPOCH_YEAR..(y - 1))
  <2>1. EPOCH_YEAR \in Int /\ y - 1 \in Int /\ (y + 1) - 1 \in Int
    BY <1>0
  <2>2. /\ IsFiniteSet(EPOCH_YEAR..(y - 1))
        /\ Cardinality(EPOCH_YEAR..(y - 1))
             = (IF EPOCH_YEAR > y - 1 THEN 0 ELSE (y - 1) - EPOCH_YEAR + 1)
        /\ Cardinality(EPOCH_YEAR..((y + 1) - 1))
             = (IF EPOCH_YEAR > (y + 1) - 1 THEN 0 ELSE ((y + 1) - 1) - EPOCH_YEAR + 1)
    BY <2>1, FS_Interval, Zenon
  <2> QED
    BY <1>0, <2>2
<1>3. IsFiniteSet(Leap(y)) /\ Cardinality(Leap(y)) \in Nat
  <2>1. Leap(y) \subseteq EPOCH_YEAR..(y - 1)
    BY Zenon
  <2> QED
    BY <1>2, <2>1, FS_Subset, FS_CardinalityType, Zenon
<1>4. Cardinality(Leap(y + 1)) = Cardinality(Leap(y)) + IF is_leap_year(y) THEN 1 ELSE 0
  <2>1. EPOCH_YEAR..((y + 1) - 1) = (EPOCH_YEAR..(y - 1)) \cup {y} /\ y \notin EPOCH_YEAR..(y - 1)
    BY <1>0
  <2>2. Leap(y + 1) = (IF is_leap_year(y) THEN Leap(y) \cup {y} ELSE Leap(y)) /\ y \notin Leap(y)
    BY <2>1, Zenon
  <2>3. Cardinality(Leap(y) \cup {y}) = Cardinality(Leap(y)) + 1
    BY <1>3, <2>2, FS_AddElement, Zenon
  <2> HIDE DEF Leap
  <2> QED
    BY <1>3, <2>2, <2>3
<1>5. \A z : DaysBefore(z) = 365 * Cardinality(EPOCH_YEAR..(z - 1)) + Cardinality(Leap(z))
  BY DEF DaysBefore
<1>6. DaysBefore(EPOCH_YEAR) = 0
  BY <1>1, <1>5
<1>7. /\ DaysBefore(y) = 365 * (y - EPOCH_YEAR) + Cardinality(Leap(y))
      /\ DaysBefore(y + 1) = 365 * ((y + 1) - EPOCH_YEAR) + Cardinality(Leap(y + 1))
  <2> HIDE DEF Leap
  <2> QED
    BY <1>2, <1>5
<1> HIDE DEF Leap
<1> QED
  BY <1>0, <1>3, <1>4, <1>6, <1>7 DEF YearDays

(* The sum of the loop in closed form, by the least year in which it would *)
(* differ.                                                                 *)
YearStart(y) == 365 * (y - EPOCH_YEAR) + (LeapYearsBefore(y) - LeapYearsBefore(EPOCH_YEAR))

(* The days before a year, in closed form. *)
LEMMA YearSums ==
    ASSUME NEW y \in Nat, y >= EPOCH_YEAR PROVE DaysBefore(y) = YearStart(y)
<1> DEFINE Bad == {z \in Nat : z >= EPOCH_YEAR /\ DaysBefore(z) # YearStart(z)}
<1> SUFFICES ASSUME Bad # {} PROVE FALSE
  BY Zenon
<1>1. Bad \in SUBSET Nat
  BY Zenon
<1>2. PICK k \in Bad : \A z \in Bad : k <= z
  BY <1>1, Least, Zenon
<1>3. k \in Nat /\ k >= EPOCH_YEAR /\ DaysBefore(k) # YearStart(k)
  BY <1>2, Zenon
<1>0. EPOCH_YEAR \in Nat
  BY DEF EPOCH_YEAR
<1>4. YearStart(EPOCH_YEAR) = 0
  BY <1>0, LeapCount DEF YearStart
<1>5. k # EPOCH_YEAR
  BY <1>3, <1>4, YearStep, Zenon
<1>6. k - 1 \in Nat /\ k - 1 >= EPOCH_YEAR /\ ~(k <= k - 1) /\ (k - 1) + 1 = k
  BY <1>0, <1>3, <1>5
<1>7. DaysBefore(k - 1) = YearStart(k - 1)
  BY <1>2, <1>6, Zenon
<1>8. DaysBefore(k) = DaysBefore(k - 1) + YearDays(k - 1)
  BY <1>6, YearStep, Zenon
<1>9. LeapYearsBefore(k) = LeapYearsBefore(k - 1) + IF is_leap_year(k - 1) THEN 1 ELSE 0
  BY <1>6, LeapCount, Zenon
<1>10. LeapYearsBefore(k - 1) \in Int /\ LeapYearsBefore(EPOCH_YEAR) \in Int
  BY <1>0, <1>6, LeapCount
<1>11. YearStart(k) = YearStart(k - 1) + YearDays(k - 1)
  BY <1>0, <1>3, <1>9, <1>10 DEF YearStart, YearDays
<1> QED
  BY <1>3, <1>7, <1>8, <1>11, Zenon

(* Later years start later, by 365 days or more for each year between. *)
LEMMA YearsApart ==
    ASSUME NEW y \in Nat, y >= EPOCH_YEAR, NEW z \in Nat, z >= y
    PROVE  DaysBefore(z) >= DaysBefore(y) + 365 * (z - y)
<1> DEFINE Apart(x) == DaysBefore(x) >= DaysBefore(y) + 365 * (x - y)
           Bad == {x \in Nat : x >= y /\ ~Apart(x)}
<1>0. EPOCH_YEAR \in Nat /\ DaysBefore(y) \in Nat
  BY YearStep DEF EPOCH_YEAR
<1>1. Apart(y)
  BY <1>0
<1>2. ASSUME NEW x \in Nat, x >= y, Apart(x) PROVE Apart(x + 1)
  <2>1. x >= EPOCH_YEAR
    BY <1>0, <1>2
  <2>2. DaysBefore(x) \in Nat /\ DaysBefore(x + 1) = DaysBefore(x) + YearDays(x)
    BY <2>1, YearStep, Zenon
  <2>3. YearDays(x) >= 365 /\ YearDays(x) \in Nat
    BY DEF YearDays
  <2> QED
    BY <1>0, <1>2, <2>2, <2>3
<1> HIDE DEF Apart
<1> SUFFICES ASSUME Bad # {} PROVE FALSE
  <2>1. Apart(z)
    BY Zenon
  <2> QED
    BY <2>1 DEF Apart
<1>3. Bad \in SUBSET Nat
  BY Zenon
<1>4. PICK k \in Bad : \A x \in Bad : k <= x
  BY <1>3, Least, Zenon
<1>5. k \in Nat /\ k >= y /\ ~Apart(k)
  BY <1>4, Zenon
<1>6. k # y
  BY <1>1, <1>5, Zenon
<1>7. k - 1 \in Nat /\ k - 1 >= y /\ ~(k <= k - 1) /\ (k - 1) + 1 = k
  BY <1>5, <1>6
<1>8. Apart(k - 1)
  BY <1>4, <1>7, Zenon
<1> QED
  BY <1>2, <1>5, <1>7, <1>8, Zenon

(* The months of a year follow one another and fill it. *)
LEMMA MonthSteps ==
    ASSUME NEW y \in Nat
    PROVE  /\ BeforeMonth(y, 1) = 0
           /\ \A m \in 1..12 : BeforeMonth(y, m) \in Nat /\ days_in_month(y, m) \in 28..31
           /\ \A m \in 1..11 : BeforeMonth(y, m + 1) = BeforeMonth(y, m) + days_in_month(y, m)
           /\ BeforeMonth(y, 12) + days_in_month(y, 12) = YearDays(y)
<1>1. BeforeMonth(y, 1) = 0
  BY DEF BeforeMonth, MonthStart
<1>2. ASSUME NEW m \in 1..12 PROVE BeforeMonth(y, m) \in Nat /\ days_in_month(y, m) \in 28..31
  <2>1. MonthStart[m] \in Nat /\ MonthDays[m] \in 28..31
    BY DEF MonthStart, MonthDays
  <2> QED
    BY <2>1 DEF BeforeMonth, days_in_month
<1>3. ASSUME NEW m \in 1..11
      PROVE  BeforeMonth(y, m + 1) = BeforeMonth(y, m) + days_in_month(y, m)
  <2>1. /\ MonthStart[m + 1] = MonthStart[m] + MonthDays[m]
        /\ MonthStart[m] \in Nat /\ MonthDays[m] \in Nat
    BY DEF MonthStart, MonthDays
  <2>2. MonthDays[2] = 28
    BY DEF MonthDays
  <2> QED
    BY <2>1, <2>2 DEF BeforeMonth, days_in_month
<1>4. BeforeMonth(y, 12) + days_in_month(y, 12) = YearDays(y)
  BY DEF BeforeMonth, days_in_month, YearDays, MonthStart, MonthDays
<1> QED
  BY <1>1, <1>2, <1>3, <1>4

(* A later month of a year starts no earlier. *)
LEMMA MonthsApart ==
    ASSUME NEW y \in Nat, NEW a \in 1..12, NEW b \in 1..12, a <= b
    PROVE  BeforeMonth(y, a) <= BeforeMonth(y, b)
<1>1. MonthStart[a] <= MonthStart[b] /\ MonthStart[a] \in Nat /\ MonthStart[b] \in Nat
  <2>1. /\ a \in {1, 2, 3, 4, 5, 6, 7, 8, 9, 10, 11, 12}
        /\ b \in {1, 2, 3, 4, 5, 6, 7, 8, 9, 10, 11, 12}
    OBVIOUS
  <2> QED
    BY <2>1 DEF MonthStart
<1> QED
  BY <1>1 DEF BeforeMonth

-----------------------------------------------------------------------------
(* The conversions.                                                        *)

(* What a date is, and its number, in terms of the tables of the code. *)
LEMMA DateFacts ==
    ASSUME NEW d \in Dates
    PROVE  /\ d.year \in Nat /\ d.year >= EPOCH_YEAR /\ d.month \in 1..12
           /\ LastOfMonth(d) = days_in_month(d.year, d.month)
           /\ d.day \in 1..days_in_month(d.year, d.month)
           /\ d = [year |-> d.year, month |-> d.month, day |-> d.day]
           /\ DayNumber(d) = DaysBefore(d.year) + BeforeMonth(d.year, d.month) + d.day - 1
<1>1. /\ d \in [year : Nat, month : 1..12, day : 1..31]
      /\ d.year >= EPOCH_YEAR /\ d.day <= LastOfMonth(d)
  BY DEF Dates
<1>2. d.year \in Nat /\ d.month \in 1..12 /\ d.day \in 1..31
      /\ d = [year |-> d.year, month |-> d.month, day |-> d.day]
  BY <1>1
<1>3. is_leap_year(d.year) <=> (d.year % 400 = 0 \/ (d.year % 4 = 0 /\ d.year % 100 # 0))
  BY <1>2, LeapRule
<1>4. LastOfMonth(d) = days_in_month(d.year, d.month)
  <2>1. d.month \in {1, 2, 3, 4, 5, 6, 7, 8, 9, 10, 11, 12}
    BY <1>2
  <2> QED
    BY <1>3, <2>1 DEF LastOfMonth, days_in_month, MonthDays
<1>5. LastOfMonth([d EXCEPT !.month = 2]) = 29 <=> is_leap_year(d.year)
  BY <1>1, <1>3 DEF LastOfMonth
<1>6. LeapDay(d) = IF d.month > 2 /\ is_leap_year(d.year) THEN 1 ELSE 0
  BY <1>5, Zenon DEF LeapDay
<1>7. DaysBefore(d.year) = YearStart(d.year)
  BY <1>1, <1>2, YearSums, Zenon
<1>8. days_in_month(d.year, d.month) \in Nat
  BY <1>2, MonthSteps
<1>9. d.day \in 1..days_in_month(d.year, d.month)
  BY <1>1, <1>2, <1>4, <1>8
<1>10. DayNumber(d) = DaysBefore(d.year) + BeforeMonth(d.year, d.month) + d.day - 1
  <2>1. DaysBefore(d.year) \in Nat
    BY <1>1, <1>2, YearStep, Zenon
  <2>2. /\ MonthStart[d.month] \in Nat
        /\ BeforeMonth(d.year, d.month) = MonthStart[d.month] + LeapDay(d)
        /\ LeapDay(d) \in Nat
    BY <1>2, <1>6 DEF MonthStart, BeforeMonth
  <2>3. DayNumber(d) = YearStart(d.year) + MonthStart[d.month] + LeapDay(d) + d.day - 1
    BY DEF DayNumber, YearStart
  <2> QED
    BY <1>2, <1>7, <2>1, <2>2, <2>3
<1> QED
  BY <1>1, <1>2, <1>4, <1>9, <1>10

(* rtc_to_epoch and time_to_unix number the days as the calendar does. *)
LEMMA NumbersAgree ==
    ASSUME NEW d \in Dates
    PROVE  /\ rtc_to_days(d.year, d.month, d.day) = DayNumber(d)
           /\ time_to_unix(d) = DayNumber(d)
<1>1. /\ d.year \in Nat /\ d.month \in 1..12
      /\ DayNumber(d) = DaysBefore(d.year) + BeforeMonth(d.year, d.month) + d.day - 1
  BY DateFacts, Zenon
<1>2. DaysOver(rtc_months(d.year), d.month - 1) = BeforeMonth(d.year, d.month)
  BY <1>1, MonthSums, Zenon
<1>3. unix_months(d.year) = rtc_months(d.year)
  BY <1>1, MonthTables, Zenon
<1> QED
  BY <1>1, <1>2, <1>3, Zenon DEF rtc_to_days, time_to_unix

(* The number of the next date is the next number. *)
LEMMA NextDateNext ==
    ASSUME NEW d \in Dates
    PROVE  NextDate(d) \in Dates /\ DayNumber(NextDate(d)) = DayNumber(d) + 1
<1> DEFINE y == d.year
           m == d.month
           len == days_in_month(y, m)
           Date(a, b, c) == [year |-> a, month |-> b, day |-> c]
<1>0. EPOCH_YEAR \in Nat
  BY DEF EPOCH_YEAR
<1>1. /\ y \in Nat /\ y >= EPOCH_YEAR /\ m \in 1..12 /\ LastOfMonth(d) = len /\ d.day \in 1..len
      /\ d = Date(y, m, d.day)
      /\ DayNumber(d) = DaysBefore(y) + BeforeMonth(y, m) + d.day - 1
  BY DateFacts, Zenon
<1>2. len \in 28..31 /\ BeforeMonth(y, m) \in Nat /\ DaysBefore(y) \in Nat
  <2>1. DaysBefore(y) \in Nat
    BY <1>1, YearStep, Zenon
  <2> QED
    BY <1>1, <2>1, MonthSteps
<1>3. ASSUME NEW a \in Nat, NEW b \in 1..12, NEW c \in 1..31, a >= EPOCH_YEAR,
             c <= 28 \/ (a = y /\ b = m /\ c <= len)
      PROVE  Date(a, b, c) \in Dates
  <2>1. LastOfMonth(Date(a, b, c)) >= 28
    BY DEF LastOfMonth
  <2>2. a = y /\ b = m => LastOfMonth(Date(a, b, c)) = LastOfMonth(d)
    BY <1>1 DEF LastOfMonth
  <2>3. LastOfMonth(Date(a, b, c)) \in Nat
    BY DEF LastOfMonth
  <2>4. c <= LastOfMonth(Date(a, b, c))
    BY <1>1, <1>2, <1>3, <2>1, <2>2, <2>3
  <2> QED
    BY <1>3, <2>4 DEF Dates
<1> HIDE DEF len
<1>4. CASE d.day < len
  <2> DEFINE e == Date(y, m, d.day + 1)
  <2>1. NextDate(d) = e
    BY <1>1, <1>4 DEF NextDate
  <2>2. d.day + 1 \in 1..31 /\ d.day + 1 <= len
    <3>1. d.day \in 1..len
      BY <1>1, Zenon
    <3> QED
      BY <1>2, <1>4, <3>1
  <2>3. e \in Dates
    BY <1>1, <1>3, <2>2, Zenon
  <2>4. DayNumber(e) = DaysBefore(e.year) + BeforeMonth(e.year, e.month) + e.day - 1
    BY <2>3, DateFacts, Zenon
  <2> QED
    BY <1>1, <1>2, <2>1, <2>3, <2>4
<1>5. CASE d.day >= len /\ m < 12
  <2> DEFINE e == Date(y, m + 1, 1)
  <2>0. d.day \in 1..len /\ m \in 1..12 /\ LastOfMonth(d) = len
    BY <1>1, Zenon
  <2>1. NextDate(d) = e
    <3>1. ~(d.day < LastOfMonth(d)) /\ d.month < 12
      BY <1>2, <1>5, <2>0
    <3>2. NextDate(d) = [d EXCEPT !.day = 1, !.month = d.month + 1]
      BY <3>1, Zenon DEF NextDate
    <3>3. d = Date(y, m, d.day)
      BY <1>1, Zenon
    <3> QED
      BY <3>2, <3>3
  <2>2. m + 1 \in 1..12 /\ 1 \in 1..31 /\ 1 <= 28 /\ m \in 1..11
    BY <1>1, <1>5
  <2>3. e \in Dates
    BY <1>1, <1>3, <2>2, Zenon
  <2>4. DayNumber(e) = DaysBefore(e.year) + BeforeMonth(e.year, e.month) + e.day - 1
    BY <2>3, DateFacts, Zenon
  <2>5. BeforeMonth(y, m + 1) = BeforeMonth(y, m) + len
    BY <1>1, <2>2, MonthSteps, Zenon DEF len
  <2> QED
    BY <1>1, <1>2, <1>5, <2>1, <2>3, <2>4, <2>5
<1>6. CASE d.day >= len /\ m = 12
  <2> DEFINE e == Date(y + 1, 1, 1)
  <2>1. NextDate(d) = e
    BY <1>1, <1>2, <1>6 DEF NextDate
  <2>2. y + 1 \in Nat /\ y + 1 >= EPOCH_YEAR /\ 1 \in 1..12 /\ 1 \in 1..31 /\ 1 <= 28
    BY <1>0, <1>1
  <2>3. e \in Dates
    BY <1>3, <2>2, Zenon
  <2>4. DayNumber(e) = DaysBefore(e.year) + BeforeMonth(e.year, e.month) + e.day - 1
    BY <2>3, DateFacts, Zenon
  <2>5. DaysBefore(y + 1) = DaysBefore(y) + YearDays(y)
    BY <1>1, YearStep, Zenon
  <2>6. BeforeMonth(y + 1, 1) = 0 /\ BeforeMonth(y, m) + len = YearDays(y)
    BY <1>1, <1>6, <2>2, MonthSteps, Zenon DEF len
  <2> QED
    BY <1>1, <1>2, <1>6, <2>1, <2>3, <2>4, <2>5, <2>6
<1> QED
  BY <1>1, <1>2, <1>4, <1>5, <1>6

(* The first loop of unix_to_time stops at the year of the day. *)
LEMMA YearFound ==
    ASSUME NEW y \in Nat, y >= EPOCH_YEAR, NEW r \in Nat, r < YearDays(y)
    PROVE  EPOCH_YEAR + YearsTaken(DaysBefore(y) + r) = y
<1> DEFINE n == DaysBefore(y) + r
           k == y - EPOCH_YEAR
           S == {j \in 0..(n \div 365) : n - DaysBefore(EPOCH_YEAR + j) < YearDays(EPOCH_YEAR + j)}
<1>0. EPOCH_YEAR \in Nat /\ DaysBefore(y) \in Nat /\ k \in Nat /\ EPOCH_YEAR + k = y /\ n \in Nat
  <2>1. EPOCH_YEAR \in Nat
    BY DEF EPOCH_YEAR
  <2>2. DaysBefore(y) \in Nat
    BY YearStep, Zenon
  <2> QED
    BY <2>1, <2>2
<1>1. k \in S
  <2>1. DaysBefore(y) >= DaysBefore(EPOCH_YEAR) + 365 * (y - EPOCH_YEAR)
    <3>1. EPOCH_YEAR \in Nat /\ EPOCH_YEAR >= EPOCH_YEAR
      BY <1>0
    <3> QED
      BY <3>1, YearsApart
  <2>2. DaysBefore(EPOCH_YEAR) = 0
    BY YearStep, Zenon
  <2>3. 365 * k <= n
    BY <1>0, <2>1, <2>2
  <2>4. k <= n \div 365 /\ n \div 365 \in Nat
    <3> HIDE DEF n, k
    <3> QED
      BY <1>0, <2>3
  <2>5. n - DaysBefore(EPOCH_YEAR + k) = r
    BY <1>0
  <2>6. k \in 0..(n \div 365)
    <3> HIDE DEF n, k
    <3> QED
      BY <1>0, <2>4
  <2>7. n - DaysBefore(EPOCH_YEAR + k) < YearDays(EPOCH_YEAR + k)
    <3> HIDE DEF n, k
    <3> QED
      BY <1>0, <2>5
  <2> HIDE DEF n, k
  <2> QED
    BY <2>6, <2>7
<1>2. ASSUME NEW j \in S PROVE k <= j
  <2>1. j \in Nat /\ n - DaysBefore(EPOCH_YEAR + j) < YearDays(EPOCH_YEAR + j)
    <3>1. n \div 365 \in Nat
      BY <1>0
    <3> HIDE DEF n
    <3> QED
      BY <1>2, <3>1
  <2> SUFFICES ASSUME j < k PROVE FALSE
    BY <1>0, <2>1
  <2> DEFINE x == EPOCH_YEAR + j
  <2>2. x \in Nat /\ x >= EPOCH_YEAR /\ x + 1 \in Nat /\ x + 1 >= EPOCH_YEAR /\ y >= x + 1
    BY <1>0, <2>1
  <2> HIDE DEF x
  <2>3. DaysBefore(x + 1) = DaysBefore(x) + YearDays(x) /\ DaysBefore(x) \in Nat
    BY <2>2, YearStep, Zenon
  <2>4. DaysBefore(y) >= DaysBefore(x + 1) + 365 * (y - (x + 1))
    BY <2>2, YearsApart
  <2>5. YearDays(x) \in Nat
    BY DEF YearDays
  <2>6. n - DaysBefore(x) < YearDays(x)
    BY <2>1, Zenon DEF x
  <2> QED
    BY <1>0, <2>2, <2>3, <2>4, <2>5, <2>6
<1>3. S \in SUBSET Nat
  <2>1. n \div 365 \in Nat
    BY <1>0
  <2> HIDE DEF n
  <2> QED
    BY <2>1
<1>4. YearsTaken(n) = Min(S)
  BY DEF YearsTaken
<1> HIDE DEF S, k, n
<1>5. Min(S) = k
  BY <1>1, <1>2, <1>3, MinIs, Zenon
<1>6. YearsTaken(n) = k
  BY <1>4, <1>5, Zenon
<1> QED
  BY <1>0, <1>6, Zenon DEF n

(* The second loop stops at the month of the day. *)
LEMMA MonthFound ==
    ASSUME NEW y \in Nat, NEW m \in 1..12, NEW r \in Nat, r < days_in_month(y, m)
    PROVE  MonthsTaken(y, BeforeMonth(y, m) + r) = m - 1
<1> DEFINE n == BeforeMonth(y, m) + r
           S == {k \in 0..11 : n - DaysOver(unix_months(y), k) < days_in_month(y, k + 1)}
<1>0. /\ BeforeMonth(y, m) \in Nat /\ n \in Nat
      /\ \A k \in 1..12 : BeforeMonth(y, k) \in Nat /\ days_in_month(y, k) \in Nat
  <2>1. \A k \in 1..12 : BeforeMonth(y, k) \in Nat /\ days_in_month(y, k) \in 28..31
    BY MonthSteps, Zenon
  <2> QED
    BY <2>1
<1>1. \A k \in 0..11 : DaysOver(unix_months(y), k) = BeforeMonth(y, k + 1)
  <2> SUFFICES ASSUME NEW k \in 0..11 PROVE DaysOver(unix_months(y), k) = BeforeMonth(y, k + 1)
    BY Zenon
  <2>1. k + 1 \in 1..12 /\ (k + 1) - 1 = k
    OBVIOUS
  <2>2. DaysOver(rtc_months(y), (k + 1) - 1) = BeforeMonth(y, k + 1)
    BY <2>1, MonthSums, Zenon
  <2> QED
    BY <2>1, <2>2, MonthTables, Zenon
<1>2. m - 1 \in S
  <2>1. m - 1 \in 0..11 /\ (m - 1) + 1 = m
    OBVIOUS
  <2>2. DaysOver(unix_months(y), m - 1) = BeforeMonth(y, m)
    BY <1>1, <2>1, Zenon
  <2>3. n - BeforeMonth(y, m) = r
    BY <1>0
  <2> HIDE DEF n
  <2> QED
    BY <2>1, <2>2, <2>3, Zenon
<1>3. ASSUME NEW k \in S PROVE m - 1 <= k
  <2>1. k \in 0..11 /\ n - BeforeMonth(y, k + 1) < days_in_month(y, k + 1)
    <3> HIDE DEF n
    <3> QED
      BY <1>1, <1>3, Zenon
  <2> SUFFICES ASSUME k < m - 1 PROVE FALSE
    BY <2>1
  <2>2. k + 1 \in 1..11 /\ k + 1 \in 1..12 /\ (k + 1) + 1 \in 1..12 /\ (k + 1) + 1 <= m
    BY <2>1
  <2> DEFINE a == k + 1
  <2> HIDE DEF a
  <2>3. a \in 1..11 /\ a \in 1..12 /\ a + 1 \in 1..12 /\ a + 1 <= m
    BY <2>2, Zenon DEF a
  <2>4. BeforeMonth(y, a + 1) = BeforeMonth(y, a) + days_in_month(y, a)
    BY <2>3, MonthSteps
  <2>5. BeforeMonth(y, a + 1) <= BeforeMonth(y, m)
    BY <2>3, MonthsApart, Zenon
  <2>6. n - BeforeMonth(y, a) < days_in_month(y, a)
    BY <2>1, Zenon DEF a
  <2> QED
    BY <1>0, <2>3, <2>4, <2>5, <2>6
<1>4. S \in SUBSET Nat
  OBVIOUS
<1>5. MonthsTaken(y, n) = Min(S)
  BY DEF MonthsTaken
<1>6. m - 1 \in Nat
  OBVIOUS
<1> HIDE DEF S, n
<1>7. Min(S) = m - 1
  BY <1>2, <1>3, <1>4, MinIs, Zenon
<1> QED
  BY <1>5, <1>7, Zenon DEF n

(* unix_to_time takes the number of a date back to it. *)
LEMMA DateFound ==
    ASSUME NEW d \in Dates PROVE unix_to_time(DayNumber(d)) = d
<1> DEFINE y == d.year
           m == d.month
           r == d.day - 1
           len == days_in_month(y, m)
<1>1. /\ y \in Nat /\ y >= EPOCH_YEAR /\ m \in 1..12 /\ d.day \in 1..len
      /\ d = [year |-> y, month |-> m, day |-> d.day]
      /\ DayNumber(d) = DaysBefore(y) + BeforeMonth(y, m) + d.day - 1
  BY DateFacts, Zenon
<1>2. /\ len \in Nat /\ DaysBefore(y) \in Nat /\ BeforeMonth(y, m) \in Nat
      /\ BeforeMonth(y, m) + len <= YearDays(y) /\ YearDays(y) \in Nat
  <2>1. DaysBefore(y) \in Nat
    BY <1>1, YearStep, Zenon
  <2>2. len \in 28..31 /\ BeforeMonth(y, m) \in Nat
    BY <1>1, MonthSteps
  <2>3. YearDays(y) \in Nat
    BY DEF YearDays
  <2>4. CASE m = 12
    <3>1. BeforeMonth(y, m) + len = YearDays(y)
      BY <1>1, <2>4, MonthSteps
    <3> QED
      BY <2>1, <2>2, <2>3, <3>1
  <2>5. CASE m # 12
    <3>1. m \in 1..11 /\ m + 1 \in 1..12 /\ m + 1 <= 12 /\ 12 \in 1..12
      BY <1>1, <2>5
    <3>2. BeforeMonth(y, m + 1) = BeforeMonth(y, m) + len
      BY <1>1, <3>1, MonthSteps
    <3>3. BeforeMonth(y, m + 1) <= BeforeMonth(y, 12)
      BY <1>1, <3>1, MonthsApart
    <3>4. BeforeMonth(y, 12) + days_in_month(y, 12) = YearDays(y)
          /\ BeforeMonth(y, 12) \in Nat /\ days_in_month(y, 12) \in Nat
      BY <1>1, <3>1, MonthSteps
    <3> HIDE DEF len
    <3> QED
      BY <2>1, <2>2, <2>3, <3>2, <3>3, <3>4
  <2> QED
    BY <2>4, <2>5, Zenon
<1> DEFINE s == BeforeMonth(y, m) + r
<1>3. /\ r \in Nat /\ r < len /\ s \in Nat /\ s < YearDays(y) /\ r + 1 = d.day
      /\ DayNumber(d) = DaysBefore(y) + s
      /\ (DaysBefore(y) + s) - DaysBefore(y) = s /\ s - BeforeMonth(y, m) = r /\ (m - 1) + 1 = m
  <2> HIDE DEF len
  <2> QED
    BY <1>1, <1>2
<1>4. EPOCH_YEAR + YearsTaken(DaysBefore(y) + s) = y
  <2> HIDE DEF s
  <2> QED
    BY <1>1, <1>3, YearFound, Zenon
<1>5. MonthsTaken(y, s) = m - 1
  <2> HIDE DEF r
  <2> QED
    BY <1>1, <1>3, MonthFound, Zenon
<1>6. DaysOver(unix_months(y), m - 1) = BeforeMonth(y, m)
  BY <1>1, MonthSums, MonthTables, Zenon
<1> HIDE DEF s, r
<1>7. unix_to_time(DayNumber(d)) = [year |-> y, month |-> m, day |-> d.day]
  BY <1>3, <1>4, <1>5, <1>6, Zenon DEF unix_to_time
<1> QED
  BY <1>1, <1>7, Zenon

-----------------------------------------------------------------------------
(* The day of a walk is a date of the calendar with its number. *)
CalendarInv == cal.date \in Dates /\ cal.days = DayNumber(cal.date)

(* The first day is a date, with number 0. *)
LEMMA FirstDayFirst == FirstDay \in Dates /\ DayNumber(FirstDay) = 0
<1> DEFINE d == FirstDay
<1>1. d = [year |-> EPOCH_YEAR, month |-> 1, day |-> 1]
  BY CalendarAssumption DEF EPOCH_YEAR
<1>2. EPOCH_YEAR \in Nat /\ EPOCH_YEAR >= EPOCH_YEAR
  BY DEF EPOCH_YEAR
<1>3. d \in Dates
  BY <1>1, <1>2 DEF Dates, LastOfMonth
<1>4. DayNumber(d) = DaysBefore(d.year) + BeforeMonth(d.year, d.month) + d.day - 1
  BY <1>3, DateFacts, Zenon
<1>5. DaysBefore(EPOCH_YEAR) = 0 /\ BeforeMonth(EPOCH_YEAR, 1) = 0
  BY <1>2, YearStep, MonthSteps, Zenon
<1> QED
  BY <1>1, <1>3, <1>4, <1>5

(* On every day of a walk through the calendar, leap years and ends of     *)
(* centuries included, rtc_to_epoch and time_to_unix give the number of    *)
(* the day and unix_to_time gives back its date (clock.c, bcd2utime.c).    *)
THEOREM CalendarsAlwaysAgree == CalendarSpec => []CalendarsAgree
<1>1. CalendarInit => CalendarInv
  <2> SUFFICES ASSUME CalendarInit PROVE CalendarInv
    BY Zenon
  <2>1. cal.date = FirstDay /\ cal.days = 0
    BY DEF CalendarInit
  <2> QED
    BY <2>1, FirstDayFirst, Zenon DEF CalendarInv
<1>2. CalendarInv /\ [CalendarNext]_cal => CalendarInv'
  <2> SUFFICES ASSUME CalendarInv, [CalendarNext]_cal PROVE CalendarInv'
    BY Zenon
  <2>1. CASE UNCHANGED cal
    BY <2>1, Zenon DEF CalendarInv
  <2>2. CASE cal' = [date |-> NextDate(cal.date), days |-> cal.days + 1, walked |-> cal.walked + 1]
    <3>1. cal'.date = NextDate(cal.date) /\ cal'.days = cal.days + 1
      BY <2>2
    <3> QED
      BY <3>1, NextDateNext, Zenon DEF CalendarInv
  <2>3. CASE \E d \in Starts : cal' = [date |-> d.date, days |-> d.days, walked |-> 0]
    <3>1. PICK d \in Starts : cal'.date = d.date /\ cal'.days = d.days
      BY <2>3
    <3> QED
      BY <3>1, StartsAssumption, Zenon DEF CalendarInv
  <2> QED
    BY <2>1, <2>2, <2>3, Zenon DEF CalendarNext
<1>3. CalendarInv => CalendarsAgree
  BY NumbersAgree, DateFound, Zenon
     DEF CalendarInv, CalendarsAgree, EpochCountsDays, UnixTimeRoundTrip
<1> QED
  BY <1>1, <1>2, <1>3, PTL DEF CalendarSpec

-----------------------------------------------------------------------------
(* The timer interrupt and the waits.                                      *)

(* The cursor was redrawn at tick last of this second, and both counters   *)
(* of periods follow from the statics of timer_apic_handler.               *)
TimerInv ==
    /\ timer \in [ticks : 0..(TICKS - 1), seconds : Nat, preempt : 0..(PREEMPT - 1),
                  resched : BOOLEAN, last : 0..(TICKS - 1), blinked : Nat, sliced : Nat]
    /\ timer.sliced = timer.preempt
    /\ timer.last <= timer.ticks /\ timer.blinked = timer.ticks - timer.last
    /\ timer.blinked < BLINK

(* A wait has lasted since its start in this second, or the second is over *)
(* and with it the wait, or it is one that never ends.                     *)
WaitInv ==
    /\ wait \in [on : BOOLEAN, start : 0..(TICKS - 1), need : Nat, waited : Nat]
    /\ wait.on =>
         \/ wait.start <= timer.ticks /\ wait.waited = timer.ticks - wait.start
            /\ wait.waited <= wait.need
         \/ timer.ticks < wait.start /\ wait.waited = TICKS - wait.start
            /\ wait.waited <= wait.need
         \/ wait.start = 0 /\ wait.need >= TICKS

TicksInv == TimerInv /\ WaitInv

(* The timer interrupt keeps the counters in step. *)
LEMMA TimerStep ==
    ASSUME TicksInv, timer_apic_handler PROVE TicksInv'
<1> DEFINE t == IF timer.ticks + 1 >= TICKS THEN 0 ELSE timer.ticks + 1
           blink == Elapsed(t, timer.last, BLINK)
           slice == Slice(timer.preempt)
<1>0. /\ TICKS \in Nat /\ PREEMPT \in Nat /\ PREEMPT >= 1
      /\ BLINK \in Nat /\ BLINK >= 1 /\ BLINK < TICKS
  BY ClockAssumption
<1>1. /\ timer.ticks \in 0..(TICKS - 1) /\ timer.seconds \in Nat
      /\ timer.preempt \in 0..(PREEMPT - 1)
      /\ timer.resched \in BOOLEAN /\ timer.last \in 0..(TICKS - 1)
      /\ timer.blinked \in Nat /\ timer.sliced \in Nat
  BY Zenon DEF TicksInv, TimerInv
<1>2. /\ timer.sliced = timer.preempt /\ timer.last <= timer.ticks
      /\ timer.blinked = timer.ticks - timer.last /\ timer.blinked < BLINK
  BY Zenon DEF TicksInv, TimerInv
<1>3. timer' = [ticks   |-> t,
                seconds |-> IF t = 0 THEN timer.seconds + 1 ELSE timer.seconds,
                preempt |-> IF slice THEN 0 ELSE timer.preempt + 1,
                resched |-> timer.resched \/ slice,
                last    |-> IF blink THEN t ELSE timer.last,
                blinked |-> IF blink THEN 0 ELSE timer.blinked + 1,
                sliced  |-> IF slice THEN 0 ELSE timer.sliced + 1]
  BY Zenon DEF timer_apic_handler
<1>4. t \in 0..(TICKS - 1) /\ (t = timer.ticks + 1 \/ (t = 0 /\ timer.ticks = TICKS - 1))
  BY <1>0, <1>1
<1>5. blink \in BOOLEAN /\ slice \in BOOLEAN
  BY <1>0, <1>1, <1>4 DEF Elapsed, Slice
<1>6. blink <=> (t < timer.last \/ t - timer.last >= BLINK)
  BY Zenon DEF Elapsed
<1>7. slice <=> timer.preempt + 1 >= PREEMPT
  BY Zenon DEF Slice
<1> HIDE DEF t, blink, slice
<1>8. /\ timer'.ticks = t
      /\ timer'.preempt = (IF slice THEN 0 ELSE timer.preempt + 1)
      /\ timer'.sliced = (IF slice THEN 0 ELSE timer.sliced + 1)
      /\ timer'.last = (IF blink THEN t ELSE timer.last)
      /\ timer'.blinked = (IF blink THEN 0 ELSE timer.blinked + 1)
  BY <1>3
<1>9. TimerInv'
  <2>1. /\ timer'.preempt \in 0..(PREEMPT - 1)
        /\ timer'.sliced = timer'.preempt /\ timer'.sliced \in Nat
    BY <1>0, <1>1, <1>2, <1>5, <1>7, <1>8
  <2>2. /\ timer'.last \in 0..(TICKS - 1) /\ timer'.last <= t
        /\ timer'.blinked \in Nat /\ timer'.blinked = t - timer'.last /\ timer'.blinked < BLINK
    <3>1. CASE blink
      BY <1>0, <1>4, <1>8, <3>1
    <3>2. CASE ~blink
      <4>1. t >= timer.last /\ t - timer.last < BLINK
        BY <1>0, <1>1, <1>4, <1>6, <3>2
      <4>2. t = timer.ticks + 1
        BY <1>0, <1>1, <1>2, <1>4, <4>1
      <4>3. timer'.last = timer.last /\ timer'.blinked = timer.blinked + 1
        BY <1>8, <3>2, Zenon
      <4> QED
        BY <1>0, <1>1, <1>2, <1>4, <4>1, <4>2, <4>3
    <3> QED
      BY <1>5, <3>1, <3>2, Zenon
  <2>3. (IF t = 0 THEN timer.seconds + 1 ELSE timer.seconds) \in Nat
    BY <1>1
  <2>4. timer' \in [ticks : 0..(TICKS - 1), seconds : Nat, preempt : 0..(PREEMPT - 1),
                    resched : BOOLEAN, last : 0..(TICKS - 1), blinked : Nat, sliced : Nat]
    <3>1. (timer.resched \/ slice) \in BOOLEAN
      BY <1>1, <1>5, Zenon
    <3> QED
      BY <1>3, <1>4, <1>8, <2>1, <2>2, <2>3, <3>1
  <2> QED
    BY <1>8, <2>1, <2>2, <2>4, Zenon DEF TimerInv
<1>10. WaitInv'
  <2>1. wait \in [on : BOOLEAN, start : 0..(TICKS - 1), need : Nat, waited : Nat]
    BY Zenon DEF TicksInv, WaitInv
  <2>2. CASE ~wait.on
    <3>1. wait' = wait
      BY <2>2, Zenon DEF timer_apic_handler
    <3> QED
      BY <2>1, <2>2, <3>1, Zenon DEF WaitInv
  <2>3. CASE wait.on
    <3>1. wait' = [wait EXCEPT !.waited = @ + 1] /\ ~WaitDone
      BY <2>3, Zenon DEF timer_apic_handler
    <3>2. /\ wait.start \in 0..(TICKS - 1) /\ wait.need \in Nat /\ wait.waited \in Nat
          /\ wait'.start = wait.start /\ wait'.need = wait.need /\ wait'.waited = wait.waited + 1
          /\ wait' \in [on : BOOLEAN, start : 0..(TICKS - 1), need : Nat, waited : Nat]
      BY <2>1, <3>1
    <3>3. ~(timer.ticks < wait.start) /\ ~(timer.ticks - wait.start >= wait.need)
      BY <3>1, Zenon DEF WaitDone, Elapsed
    <3>4. \/ wait.start <= timer.ticks /\ wait.waited = timer.ticks - wait.start
             /\ wait.waited <= wait.need
          \/ timer.ticks < wait.start /\ wait.waited = TICKS - wait.start
             /\ wait.waited <= wait.need
          \/ wait.start = 0 /\ wait.need >= TICKS
      BY <2>3, Zenon DEF TicksInv, WaitInv
    <3>5. \/ wait.start <= t /\ wait.waited + 1 = t - wait.start /\ wait.waited + 1 <= wait.need
          \/ t < wait.start /\ wait.waited + 1 = TICKS - wait.start /\ wait.waited + 1 <= wait.need
          \/ wait.start = 0 /\ wait.need >= TICKS
      BY <1>0, <1>1, <1>4, <3>2, <3>3, <3>4
    <3> QED
      BY <1>8, <3>2, <3>5, Zenon DEF WaitInv
  <2> QED
    BY <2>1, <2>2, <2>3
<1> QED
  BY <1>9, <1>10, Zenon DEF TicksInv

(* So does every other action. *)
LEMMA TicksStep ==
    ASSUME TicksInv, [ClockNext]_clockVars PROVE TicksInv'
<1>0. /\ timer \in [ticks : 0..(TICKS - 1), seconds : Nat, preempt : 0..(PREEMPT - 1),
                    resched : BOOLEAN, last : 0..(TICKS - 1), blinked : Nat, sliced : Nat]
      /\ wait \in [on : BOOLEAN, start : 0..(TICKS - 1), need : Nat, waited : Nat]
  BY Zenon DEF TicksInv, TimerInv, WaitInv
<1>1. CASE timer' = timer /\ wait' = wait
  BY <1>1, Zenon DEF TicksInv, TimerInv, WaitInv
<1>2. CASE timer_apic_handler
  BY <1>2, TimerStep, Zenon
<1>3. CASE schedule_from_isr
  <2>1. timer' = [timer EXCEPT !.resched = FALSE] /\ wait' = wait
    BY <1>3, Zenon DEF schedule_from_isr
  <2>2. /\ timer' \in [ticks : 0..(TICKS - 1), seconds : Nat, preempt : 0..(PREEMPT - 1),
                       resched : BOOLEAN, last : 0..(TICKS - 1), blinked : Nat, sliced : Nat]
        /\ timer'.ticks = timer.ticks /\ timer'.preempt = timer.preempt
        /\ timer'.last = timer.last /\ timer'.blinked = timer.blinked
        /\ timer'.sliced = timer.sliced
    BY <1>0, <2>1
  <2> QED
    BY <2>1, <2>2, Zenon DEF TicksInv, TimerInv, WaitInv
<1>4. CASE \E n \in WaitNeeds : timer_sleep(n)
  <2>1. PICK n \in WaitNeeds : timer_sleep(n)
    BY <1>4, Zenon
  <2>2. timer' = timer /\ wait' = [on |-> TRUE, start |-> timer.ticks, need |-> n, waited |-> 0]
    BY <2>1, Zenon DEF timer_sleep
  <2>3. n \in Nat /\ timer.ticks \in 0..(TICKS - 1) /\ TICKS \in Nat
    BY <1>0, ClockAssumption
  <2>4. /\ wait' \in [on : BOOLEAN, start : 0..(TICKS - 1), need : Nat, waited : Nat]
        /\ wait'.start <= timer.ticks /\ wait'.waited = timer.ticks - wait'.start
        /\ wait'.waited <= wait'.need
    BY <2>2, <2>3
  <2> QED
    BY <2>2, <2>4, Zenon DEF TicksInv, TimerInv, WaitInv
<1>5. CASE WaitOver
  <2>1. timer' = timer /\ wait' = [wait EXCEPT !.on = FALSE]
    BY <1>5, Zenon DEF WaitOver
  <2>2. /\ wait' \in [on : BOOLEAN, start : 0..(TICKS - 1), need : Nat, waited : Nat]
        /\ wait'.on = FALSE
    BY <1>0, <2>1
  <2> QED
    BY <2>1, <2>2, Zenon DEF TicksInv, TimerInv, WaitInv
<1>6. CASE UNCHANGED clockVars
  BY <1>1, <1>6, Zenon DEF clockVars
<1>7. CASE \E d \in RtcDays, s \in RtcSeconds, bcd, h24 \in BOOLEAN : PowerOn(d, s, bcd, h24)
  BY <1>1, <1>7, Zenon DEF PowerOn
<1>8. CASE read_rtc_time
  <2>1. UNCHANGED <<timer, wait>>
    BY <1>8 DEF read_rtc_time
  <2> QED
    BY <1>1, <2>1, Zenon
<1>9. CASE read_rtc_date
  <2>1. UNCHANGED <<timer, wait>>
    BY <1>9 DEF read_rtc_date
  <2> QED
    BY <1>1, <2>1, Zenon
<1>10. CASE RtcUpdate
  BY <1>1, <1>10, Zenon DEF RtcUpdate
<1> QED
  BY <1>2, <1>3, <1>4, <1>5, <1>6, <1>7, <1>8, <1>9, <1>10, Zenon DEF ClockNext

(* They are in step when the timer starts. *)
LEMMA TicksStart == ASSUME ClockInit PROVE TicksInv
<1>1. /\ timer = [ticks |-> 0, seconds |-> 0, preempt |-> 0, last |-> 0,
                  resched |-> FALSE, blinked |-> 0, sliced |-> 0]
      /\ wait = [on |-> FALSE, start |-> 0, need |-> 0, waited |-> 0]
  BY Zenon DEF ClockInit
<1>2. 0 \in 0..(TICKS - 1) /\ 0 \in 0..(PREEMPT - 1) /\ 0 < BLINK
  BY ClockAssumption
<1>3. TimerInv
  BY <1>1, <1>2 DEF TimerInv
<1>4. WaitInv
  BY <1>1, <1>2 DEF WaitInv
<1> QED
  BY <1>3, <1>4, Zenon DEF TicksInv

(* The cursor is redrawn and a reschedule asked for in time, over the wrap *)
(* of the tick counter at every second, and a wait lasts no longer than    *)
(* asked and less than a second, except the one from tick 0 that never     *)
(* ends (timer_apic_handler, timer_sleep).                                 *)
THEOREM TicksAlwaysSound == ClockSpec => []TicksSound
<1>1. ClockInit => TicksInv
  BY TicksStart, Zenon
<1>2. TicksInv /\ [ClockNext]_clockVars => TicksInv'
  BY TicksStep, Zenon
<1>3. TicksInv => TicksSound
  <2> SUFFICES ASSUME TicksInv PROVE TicksSound
    BY Zenon
  <2>1. timer.preempt \in 0..(PREEMPT - 1) /\ timer.sliced = timer.preempt /\ timer.blinked < BLINK
    BY Zenon DEF TicksInv, TimerInv
  <2>2. TimerPeriods
    BY <2>1, ClockAssumption DEF TimerPeriods
  <2>3. ASSUME wait.on, wait.start # 0 \/ wait.need < TICKS
        PROVE  wait.waited <= wait.need /\ wait.waited < TICKS
    <3>1. /\ timer.ticks \in 0..(TICKS - 1) /\ wait.start \in 0..(TICKS - 1)
          /\ wait.need \in Nat /\ wait.waited \in Nat
      BY Zenon DEF TicksInv, TimerInv, WaitInv
    <3>2. \/ wait.start <= timer.ticks /\ wait.waited = timer.ticks - wait.start
             /\ wait.waited <= wait.need
          \/ timer.ticks < wait.start /\ wait.waited = TICKS - wait.start
             /\ wait.waited <= wait.need
          \/ wait.start = 0 /\ wait.need >= TICKS
      BY <2>3, Zenon DEF TicksInv, WaitInv
    <3> QED
      BY <2>3, <3>1, <3>2, ClockAssumption
  <2> QED
    BY <2>2, <2>3, Zenon DEF TicksSound, WaitBounded
<1> QED
  BY <1>1, <1>2, <1>3, PTL DEF ClockSpec

-----------------------------------------------------------------------------
(* The registers of the CMOS clock and the time of the day.                *)

(* A register reads back as what it holds, in either format. *)
LEMMA RegisterRead ==
    ASSUME NEW v \in Nat PROVE bcd_to_bin(Register(v)) = v
<1>1. v \div 10 \in Nat /\ v % 10 \in 0..9 /\ v = 10 * (v \div 10) + (v % 10)
  OBVIOUS
<1>2. /\ ((v \div 10) * 16 + (v % 10)) % 16 = v % 10
      /\ ((v \div 10) * 16 + (v % 10)) \div 16 = v \div 10
  BY <1>1
<1>3. CASE rtc.bcd
  BY <1>1, <1>2, <1>3 DEF bcd_to_bin, Register
<1>4. CASE ~rtc.bcd
  BY <1>4 DEF bcd_to_bin, Register
<1> QED
  BY <1>3, <1>4, Zenon

(* The parts of a second of the day. *)
LEMMA DayParts ==
    ASSUME NEW s \in Nat, s < DAY
    PROVE  /\ s \div 3600 \in 0..23 /\ (s % 3600) \div 60 \in 0..59 /\ s % 60 \in 0..59
           /\ s = (s \div 3600) * 3600 + ((s % 3600) \div 60) * 60 + (s % 60)
<1>1. s < 24 * 3600
  BY DEF DAY
<1>2. s = 3600 * (s \div 3600) + (s % 3600) /\ s % 3600 \in 0..3599 /\ s \div 3600 \in 0..23
  BY <1>1
<1>3. s % 3600 = 60 * ((s % 3600) \div 60) + ((s % 3600) % 60) /\ (s % 3600) \div 60 \in 0..59
  BY <1>2
<1>4. s % 60 = (s % 3600) % 60 /\ s % 60 \in 0..59
  BY <1>1
<1> QED
  BY <1>1, <1>2, <1>3, <1>4

(* What read_rtc_time makes of the hour register: an hour, and the local   *)
(* one unless the 12-hour format is ambiguous to it.                       *)
LEMMA HourRead ==
    ASSUME NEW h \in 0..23
    PROVE  /\ RtcHour(HourRegister(h)) \in 0..23
           /\ rtc.h24 \/ h \notin {0, 12} =>
                RtcHour(HourRegister(h)) = (h + TIMEZONE_OFFSET) % 24
<1> DEFINE x == IF rtc.h24 THEN h ELSE IF h % 12 = 0 THEN 12 ELSE h % 12
           r == Register(x)
           v == HourRegister(h)
           pm == IF ~rtc.h24 /\ v >= 128 THEN (x + 12) % 24 ELSE x
<1>0. TIMEZONE_OFFSET \in 0..23
  BY ClockAssumption
<1>1. x \in 0..23
  OBVIOUS
<1>2. r \in 0..35
  BY <1>1 DEF Register
<1>3. v = PmBit(h) + r /\ PmBit(h) \in {0, 128} /\ (PmBit(h) = 128 <=> ~rtc.h24 /\ h >= 12)
  BY <1>2 DEF HourRegister, PmBit
<1>4. v % 128 = r /\ (v >= 128 <=> ~rtc.h24 /\ h >= 12)
  <2> HIDE DEF r, v
  <2> QED
    BY <1>2, <1>3
<1>5. bcd_to_bin(r) = x
  BY <1>1, RegisterRead
<1>6. RtcHour(v) = (pm + TIMEZONE_OFFSET + 24) % 24
  <2> HIDE DEF v, r, x
  <2> QED
    BY <1>4, <1>5 DEF RtcHour
<1> HIDE DEF v, r
<1>7. pm \in 0..23
  BY <1>1, <1>4
<1>8. rtc.h24 \/ h \notin {0, 12} => pm = h
  BY <1>4
<1> HIDE DEF pm
<1>9. RtcHour(v) \in 0..23 /\ (pm = h => RtcHour(v) = (h + TIMEZONE_OFFSET) % 24)
  BY <1>0, <1>6, <1>7
<1> QED
  BY <1>8, <1>9, Zenon DEF v

-----------------------------------------------------------------------------
(* The system clock.                                                       *)

Phases == {"off", "time", "date", "run"}
Hours == 0..23
Sixty == 0..59
Seconds == {s \in Nat : s < DAY}
Clocks == [pc : Phases, hh : Hours, mm : Sixty, ss : Sixty, epoch : Nat]
Rtcs == [date : Dates, days : Int, tod : Seconds, bcd : BOOLEAN, h24 : BOOLEAN,
         read : Seconds, crossed : BOOLEAN]
Hms(h, m, s) == h * 3600 + m * 60 + s
Zone(z) == z * 3600
TimeOfDay(c) == Hms(c.hh, c.mm, c.ss)
Local(s) == (rtc.read + Zone(TIMEZONE_OFFSET) + s) % DAY

(* The date of the CMOS clock has its number; the time read, once it is,   *)
(* runs with the seconds of the timer, and so does epoch from its day on.  *)
ClockInv ==
    /\ clk \in Clocks /\ rtc \in Rtcs
    /\ rtc.days = DayNumber(rtc.date)
    /\ clk.pc # "run" => timer.seconds = 0
    /\ clk.pc \in {"date", "run"} /\ HourReadable => TimeOfDay(clk) = Local(timer.seconds)
    /\ clk.pc = "run" =>
         /\ clk.epoch % DAY = TimeOfDay(clk)
         /\ rtc.days * DAY <= clk.epoch - timer.seconds
         /\ clk.epoch - timer.seconds < rtc.days * DAY + DAY

(* The days up to the end of day n and the time the kernel runs fit epoch. *)
Room(n) == n * DAY + DAY + MaxSeconds <= EPOCHS

(* There is room for the day of the CMOS clock, and for the next one while *)
(* midnight may still come.                                                *)
RoomInv ==
    /\ timer.seconds <= MaxSeconds
    /\ clk.pc # "off" => Room(rtc.days)
    /\ clk.pc = "time" \/ (clk.pc = "date" /\ rtc.read = rtc.tod) => Room(rtc.days + 1)

Second(ss) == IF ss + 1 >= 60 THEN 0 ELSE ss + 1
Minute(mm, ss) ==
    IF Second(ss) # 0 THEN mm ELSE IF mm + 1 >= 60 THEN 0 ELSE mm + 1
Hour(hh, mm, ss) ==
    IF Second(ss) # 0 \/ Minute(mm, ss) # 0 THEN hh ELSE IF hh + 1 >= 24 THEN 0 ELSE hh + 1

(* A time of the day is less than a day. *)
LEMMA HmsBound ==
    ASSUME NEW h \in 0..23, NEW m \in 0..59, NEW s \in 0..59
    PROVE  Hms(h, m, s) \in Nat /\ Hms(h, m, s) < DAY
BY DEF Hms, DAY

(* The carries of clock_tick, over midnight too. *)
LEMMA TickCarries ==
    ASSUME NEW hh \in 0..23, NEW mm \in 0..59, NEW ss \in 0..59
    PROVE  /\ Second(ss) \in 0..59 /\ Minute(mm, ss) \in 0..59 /\ Hour(hh, mm, ss) \in 0..23
           /\ Hms(Hour(hh, mm, ss), Minute(mm, ss), Second(ss)) = (Hms(hh, mm, ss) + 1) % DAY
<1> DEFINE s == Second(ss)
           m == Minute(mm, ss)
           h == Hour(hh, mm, ss)
<1>1. \/ ss < 59 /\ s = ss + 1 /\ m = mm /\ h = hh
      \/ ss = 59 /\ mm < 59 /\ s = 0 /\ m = mm + 1 /\ h = hh
      \/ ss = 59 /\ mm = 59 /\ hh < 23 /\ s = 0 /\ m = 0 /\ h = hh + 1
      \/ ss = 59 /\ mm = 59 /\ hh = 23 /\ s = 0 /\ m = 0 /\ h = 0
  BY DEF Second, Minute, Hour
<1> HIDE DEF s, m, h
<1>2. s \in 0..59 /\ m \in 0..59 /\ h \in 0..23
  BY <1>1
<1>3. \/ Hms(h, m, s) = Hms(hh, mm, ss) + 1 /\ Hms(h, m, s) < DAY
      \/ Hms(h, m, s) = 0 /\ Hms(hh, mm, ss) + 1 = DAY
  BY <1>1, <1>2 DEF Hms, DAY
<1>4. Hms(h, m, s) \in Nat /\ DAY \in Nat \ {0}
  BY <1>2 DEF Hms, DAY
<1>5. Hms(h, m, s) = (Hms(hh, mm, ss) + 1) % DAY
  <2>1. Hms(h, m, s) < DAY => Hms(h, m, s) % DAY = Hms(h, m, s)
    BY <1>4 DEF DAY
  <2>2. DAY % DAY = 0
    BY DEF DAY
  <2> QED
    BY <1>3, <2>1, <2>2, Zenon
<1> QED
  BY <1>2, <1>5, Zenon DEF s, m, h

(* clock_tick moves the time by a second. *)
LEMMA TickTime ==
    ASSUME NEW c \in Clocks
    PROVE  /\ clock_tick(c) \in Clocks /\ clock_tick(c).pc = c.pc
           /\ clock_tick(c).epoch = (c.epoch + 1) % EPOCHS
           /\ TimeOfDay(clock_tick(c)) = (TimeOfDay(c) + 1) % DAY
<1> DEFINE s == Second(c.ss)
           m == Minute(c.mm, c.ss)
           h == Hour(c.hh, c.mm, c.ss)
<1>1. clock_tick(c) = [c EXCEPT !.ss = s, !.mm = m, !.hh = h,
                                 !.epoch = (c.epoch + 1) % EPOCHS]
  BY DEF clock_tick, Second, Minute, Hour
<1>2. c.hh \in 0..23 /\ c.mm \in 0..59 /\ c.ss \in 0..59 /\ c.epoch \in Nat
  BY Zenon DEF Clocks, Hours, Sixty
<1>3. /\ s \in 0..59 /\ m \in 0..59 /\ h \in 0..23
      /\ Hms(h, m, s) = (Hms(c.hh, c.mm, c.ss) + 1) % DAY
  BY <1>2, TickCarries, Zenon
<1> HIDE DEF s, m, h
<1>4. c \in Clocks /\ s \in Sixty /\ m \in Sixty /\ h \in Hours
  BY <1>3, Zenon DEF Sixty, Hours
<1>5. (c.epoch + 1) % EPOCHS \in Nat
  <2>1. c.epoch + 1 \in Nat /\ EPOCHS \in Nat /\ EPOCHS > 0
    BY <1>2, ClockAssumption
  <2>2. (c.epoch + 1) % EPOCHS \in 0..(EPOCHS - 1)
    BY <2>1, DivMod, Zenon
  <2> QED
    BY <2>1, <2>2
<1> DEFINE e == (c.epoch + 1) % EPOCHS
<1> HIDE DEF e
<1>6. clock_tick(c) = [c EXCEPT !.ss = s, !.mm = m, !.hh = h, !.epoch = e] /\ e \in Nat
  BY <1>1, <1>5, Zenon DEF e
<1>7. /\ clock_tick(c) \in Clocks /\ clock_tick(c).pc = c.pc /\ clock_tick(c).epoch = e
      /\ clock_tick(c).hh = h /\ clock_tick(c).mm = m /\ clock_tick(c).ss = s
  BY <1>4, <1>6 DEF Clocks
<1> QED
  BY <1>3, <1>7, Zenon DEF TimeOfDay, e

(* The time of the day after the zone is added, hour by hour. *)
LEMMA LocalTime ==
    ASSUME NEW h \in 0..23, NEW m \in 0..59, NEW s \in 0..59, NEW z \in 0..23
    PROVE  Hms((h + z) % 24, m, s) = (Hms(h, m, s) + Zone(z)) % DAY
<1>1. CASE h + z < 24
  <2>1. (h + z) % 24 = h + z
    BY <1>1
  <2> QED
    BY <1>1, <2>1 DEF DAY, Hms, Zone
<1>2. CASE h + z >= 24
  <2>1. (h + z) % 24 = h + z - 24
    BY <1>2
  <2> QED
    BY <1>2, <2>1 DEF DAY, Hms, Zone
<1> QED
  BY <1>1, <1>2

(* The number of a date is a natural number. *)
LEMMA NumberIsNat ==
    ASSUME NEW d \in Dates PROVE DayNumber(d) \in Nat
<1>1. /\ d.year \in Nat /\ d.year >= EPOCH_YEAR /\ d.month \in 1..12
      /\ d.day \in 1..days_in_month(d.year, d.month)
      /\ DayNumber(d) = DaysBefore(d.year) + BeforeMonth(d.year, d.month) + d.day - 1
  BY DateFacts, Zenon
<1>2. DaysBefore(d.year) \in Nat
  BY <1>1, YearStep, Zenon
<1>3. BeforeMonth(d.year, d.month) \in Nat /\ days_in_month(d.year, d.month) \in 28..31
  BY <1>1, MonthSteps, Zenon
<1>4. d.day \in Nat /\ d.day >= 1
  BY <1>1, <1>3
<1> QED
  BY <1>1, <1>2, <1>3, <1>4

(* The machine is switched on. *)
LEMMA ClockPowerOn ==
    ASSUME ClockInv, NEW d \in RtcDays, NEW s \in RtcSeconds, NEW bcd \in BOOLEAN,
           NEW h24 \in BOOLEAN, PowerOn(d, s, bcd, h24)
    PROVE  ClockInv'
<1>1. /\ clk.pc = "off" /\ clk' = [clk EXCEPT !.pc = "time"] /\ timer' = timer
      /\ rtc' = [rtc EXCEPT !.date = d.date, !.days = d.days, !.tod = s, !.bcd = bcd, !.h24 = h24]
  BY Zenon DEF PowerOn
<1>2. clk \in Clocks /\ rtc \in Rtcs /\ timer.seconds = 0
  BY <1>1, Zenon DEF ClockInv
<1>3. d.date \in Dates /\ d.days = DayNumber(d.date)
  BY ClockAssumption, Zenon
<1>4. d.days \in Int
  BY <1>3, NumberIsNat
<1>5. s \in Seconds
  <2>1. s \in 0..(DAY - 1) /\ DAY \in Nat
    <3>1. DAY \in Nat
      BY DEF DAY
    <3> QED
      BY <3>1, ClockAssumption, Zenon
  <2> QED
    BY <2>1 DEF Seconds
<1>6. rtc' \in Rtcs /\ rtc'.days = d.days /\ rtc'.date = d.date
  BY <1>1, <1>2, <1>3, <1>4, <1>5 DEF Rtcs
<1>7. clk' \in Clocks /\ clk'.pc = "time"
  BY <1>1, <1>2 DEF Clocks, Phases
<1>8. clk'.pc # "run" /\ clk'.pc \notin {"date", "run"}
  BY <1>7
<1> QED
  BY <1>1, <1>2, <1>3, <1>6, <1>7, <1>8, Zenon DEF ClockInv

(* The time is read. *)
LEMMA ClockReadTime ==
    ASSUME ClockInv, read_rtc_time PROVE ClockInv'
<1> DEFINE h == rtc.tod \div 3600
           m == (rtc.tod % 3600) \div 60
           s == rtc.tod % 60
           hour == RtcHour(HourRegister(h))
<1>1. clk.pc = "time" /\ timer' = timer
  BY DEF read_rtc_time
<1>a. clk' = [clk EXCEPT !.pc = "date", !.hh = hour, !.mm = bcd_to_bin(Register(m)),
                         !.ss = bcd_to_bin(Register(s))]
  BY DEF read_rtc_time
<1>b. rtc' = [rtc EXCEPT !.read = rtc.tod]
  BY DEF read_rtc_time
<1>2. clk \in Clocks /\ rtc \in Rtcs /\ timer.seconds = 0 /\ rtc.days = DayNumber(rtc.date)
  BY <1>1, Zenon DEF ClockInv
<1>3. rtc.tod \in Seconds
  BY <1>2, Zenon DEF Rtcs
<1>4. rtc.tod \in Nat /\ rtc.tod < DAY
  BY <1>3, Zenon DEF Seconds
<1>5. h \in 0..23 /\ m \in 0..59 /\ s \in 0..59
  BY <1>4, DayParts
<1>c. rtc.tod = Hms(h, m, s)
  BY <1>4, DayParts DEF Hms
<1> HIDE DEF h, m, s
<1>6. hour \in 0..23 /\ (rtc.h24 \/ h \notin {0, 12} => hour = (h + TIMEZONE_OFFSET) % 24)
  BY <1>5, HourRead
<1> HIDE DEF hour
<1>7. bcd_to_bin(Register(m)) = m /\ bcd_to_bin(Register(s)) = s
  BY <1>5, RegisterRead
<1>8. clk' = [clk EXCEPT !.pc = "date", !.hh = hour, !.mm = m, !.ss = s]
  BY <1>a, <1>7, Zenon
<1>9. hour \in Hours /\ m \in Sixty /\ s \in Sixty /\ "date" \in Phases
  BY <1>5, <1>6, Zenon DEF Hours, Sixty, Phases
<1>10. clk' \in Clocks /\ clk'.pc = "date" /\ clk'.hh = hour /\ clk'.mm = m /\ clk'.ss = s
  BY <1>2, <1>8, <1>9 DEF Clocks
<1>11. rtc' \in Rtcs /\ rtc'.days = rtc.days /\ rtc'.date = rtc.date /\ rtc'.read = rtc.tod
       /\ rtc'.h24 = rtc.h24
  BY <1>b, <1>2, <1>3 DEF Rtcs
<1>12. HourReadable' => hour = (h + TIMEZONE_OFFSET) % 24
  <2>1. HourReadable' <=> (rtc.h24 \/ h \notin {0, 12})
    BY <1>11 DEF HourReadable, h
  <2> QED
    BY <1>6, <2>1, Zenon
<1>13. hour = (h + TIMEZONE_OFFSET) % 24
       => Hms(hour, m, s) = (rtc.tod + Zone(TIMEZONE_OFFSET) + 0) % DAY
  <2>1. TIMEZONE_OFFSET \in 0..23
    BY ClockAssumption
  <2>2. Hms((h + TIMEZONE_OFFSET) % 24, m, s) = (rtc.tod + Zone(TIMEZONE_OFFSET)) % DAY
    <3>1. Hms((h + TIMEZONE_OFFSET) % 24, m, s) = (Hms(h, m, s) + Zone(TIMEZONE_OFFSET)) % DAY
      BY <1>5, <2>1, LocalTime
    <3> QED
      BY <1>c, <3>1, Zenon
  <2>3. rtc.tod + Zone(TIMEZONE_OFFSET) + 0 = rtc.tod + Zone(TIMEZONE_OFFSET)
    BY <1>4, <2>1 DEF Zone
  <2> QED
    BY <2>2, <2>3, Zenon
<1>14. HourReadable' => TimeOfDay(clk)' = Local(timer.seconds)'
  <2>1. TimeOfDay(clk)' = Hms(hour, m, s)
    BY <1>10, Zenon DEF TimeOfDay
  <2>2. Local(timer.seconds)' = (rtc.tod + Zone(TIMEZONE_OFFSET) + 0) % DAY
    BY <1>1, <1>2, <1>11, Zenon DEF Local
  <2> QED
    BY <1>12, <1>13, <2>1, <2>2, Zenon
<1>15. clk'.pc # "run"
  BY <1>10
<1> QED
  BY <1>1, <1>2, <1>10, <1>11, <1>14, <1>15, Zenon DEF ClockInv

(* The date is read, a second or none after the time. *)
LEMMA ClockReadDate ==
    ASSUME ClockInv, RoomInv, read_rtc_date PROVE ClockInv'
<1> DEFINE n == rtc_to_days(rtc.date.year, rtc.date.month, rtc.date.day)
<1>1. clk.pc = "date" /\ timer' = timer /\ rtc' = rtc
  BY DEF read_rtc_date
<1>2. /\ clk \in Clocks /\ rtc \in Rtcs /\ timer.seconds = 0 /\ rtc.days = DayNumber(rtc.date)
      /\ HourReadable => TimeOfDay(clk) = Local(timer.seconds)
  BY <1>1, Zenon DEF ClockInv
<1>3. rtc.date \in Dates /\ rtc.days \in Int
  BY <1>2, Zenon DEF Rtcs
<1>4. n = rtc.days
  BY <1>2, <1>3, NumbersAgree, Zenon
<1>5. /\ rtc.date.year \in Nat /\ rtc.date.year >= EPOCH_YEAR /\ rtc.date.month \in Nat
      /\ rtc.date.day \in Nat
  <2>1. /\ rtc.date.year \in Nat /\ rtc.date.year >= EPOCH_YEAR /\ rtc.date.month \in 1..12
        /\ rtc.date.day \in 1..days_in_month(rtc.date.year, rtc.date.month)
    BY <1>3, DateFacts, Zenon
  <2>2. days_in_month(rtc.date.year, rtc.date.month) \in 28..31
    BY <2>1, MonthSteps, Zenon
  <2> QED
    BY <2>1, <2>2
<1>6. /\ bcd_to_bin(Register(rtc.date.year \div 100)) = rtc.date.year \div 100
      /\ bcd_to_bin(Register(rtc.date.year % 100)) = rtc.date.year % 100
      /\ bcd_to_bin(Register(rtc.date.month)) = rtc.date.month
      /\ bcd_to_bin(Register(rtc.date.day)) = rtc.date.day
  <2>1. rtc.date.year \div 100 \in Nat /\ rtc.date.year % 100 \in Nat
    BY <1>5
  <2> QED
    BY <1>5, <2>1, RegisterRead
<1>7. RtcYear(rtc.date.year \div 100, rtc.date.year % 100) = rtc.date.year
  <2>1. rtc.date.year \div 100 >= 19
        /\ (rtc.date.year \div 100) * 100 + (rtc.date.year % 100) = rtc.date.year
    BY <1>5 DEF EPOCH_YEAR
  <2> QED
    BY <2>1 DEF RtcYear
<1> DEFINE e == n * DAY + TimeOfDay(clk)
<1>8. clk' = [clk EXCEPT !.pc = "run", !.epoch = e % EPOCHS]
  <2> DEFINE y == RtcYear(bcd_to_bin(Register(rtc.date.year \div 100)),
                          bcd_to_bin(Register(rtc.date.year % 100)))
             days == rtc_to_days(y, bcd_to_bin(Register(rtc.date.month)),
                                 bcd_to_bin(Register(rtc.date.day)))
             x == days * DAY + clk.hh * 3600 + clk.mm * 60 + clk.ss
  <2>1. clk' = [clk EXCEPT !.pc = "run", !.epoch = x % EPOCHS]
    BY DEF read_rtc_date
  <2>2. days = n
    BY <1>6, <1>7
  <2> HIDE DEF days, n
  <2>3. n \in Int /\ DAY \in Int /\ clk.hh \in Int /\ clk.mm \in Int /\ clk.ss \in Int
    <3>1. clk.hh \in 0..23 /\ clk.mm \in 0..59 /\ clk.ss \in 0..59
      BY <1>2, Zenon DEF Clocks, Hours, Sixty
    <3>2. DAY \in Int
      BY DEF DAY
    <3> QED
      BY <1>3, <1>4, <3>1, <3>2
  <2>4. n * DAY + clk.hh * 3600 + clk.mm * 60 + clk.ss = e
    BY <2>3 DEF TimeOfDay, Hms
  <2>5. x = e
    <3> HIDE DEF e
    <3> QED
      BY <2>2, <2>4
  <2> HIDE DEF e, x
  <2> QED
    BY <2>1, <2>5, Zenon
<1>9. TimeOfDay(clk) \in Nat /\ TimeOfDay(clk) < DAY
  <2>1. clk.hh \in 0..23 /\ clk.mm \in 0..59 /\ clk.ss \in 0..59
    BY <1>2, Zenon DEF Clocks, Hours, Sixty
  <2> QED
    BY <2>1, HmsBound, Zenon DEF TimeOfDay
<1> DEFINE t == TimeOfDay(clk)
<1>10. /\ e \in Nat /\ e % DAY = t /\ rtc.days * DAY <= e - 0 /\ e - 0 < rtc.days * DAY + DAY
  <2>1. e = rtc.days * DAY + t /\ t \in Nat /\ t < DAY /\ rtc.days \in Nat
    BY <1>2, <1>3, <1>4, <1>9, NumberIsNat, Zenon
  <2> HIDE DEF e, t
  <2>2. DAY \in Nat \ {0}
    BY DEF DAY
  <2>3. e \in Nat /\ rtc.days * DAY <= e - 0 /\ e - 0 < rtc.days * DAY + DAY
    BY <2>1, <2>2
  <2>4. e % DAY = t
    BY <2>1 DEF DAY
  <2> QED
    BY <2>3, <2>4, Zenon
<1> HIDE DEF e, n
<1>16. e % EPOCHS = e
  <2>1. rtc.days * DAY + DAY + MaxSeconds <= EPOCHS
    <3>1. clk.pc # "off"
      BY <1>1
    <3> QED
      BY <3>1, Zenon DEF RoomInv, Room
  <2>2. MaxSeconds \in Nat /\ EPOCHS \in Nat /\ DAY \in Nat /\ rtc.days * DAY \in Int
    <3>1. DAY \in Nat
      BY DEF DAY
    <3> QED
      BY <1>3, <3>1, ClockAssumption
  <2>3. e < EPOCHS
    BY <1>10, <2>1, <2>2
  <2> QED
    BY <1>10, <2>2, <2>3, SmallMod, Zenon
<1>17. clk' = [clk EXCEPT !.pc = "run", !.epoch = e]
  BY <1>8, <1>16, Zenon
<1>11. /\ clk' \in Clocks /\ clk'.pc = "run" /\ clk'.epoch = e
       /\ clk'.hh = clk.hh /\ clk'.mm = clk.mm /\ clk'.ss = clk.ss
  <2>1. "run" \in Phases /\ e \in Nat
    BY <1>10, Zenon DEF Phases
  <2> QED
    BY <1>2, <1>17, <2>1 DEF Clocks
<1>12. TimeOfDay(clk)' = t
  BY <1>11, Zenon DEF TimeOfDay
<1>13. HourReadable' = HourReadable /\ Local(timer.seconds)' = Local(timer.seconds)
  <2>1. rtc' = rtc /\ timer' = timer
    BY <1>1, Zenon
  <2> QED
    BY <2>1 DEF HourReadable, Local
<1> HIDE DEF t
<1>14. HourReadable' => TimeOfDay(clk)' = Local(timer.seconds)'
  BY <1>2, <1>12, <1>13, Zenon DEF t
<1>15. /\ clk'.epoch % DAY = TimeOfDay(clk)'
       /\ rtc'.days * DAY <= clk'.epoch - timer'.seconds
       /\ clk'.epoch - timer'.seconds < rtc'.days * DAY + DAY
  BY <1>1, <1>2, <1>10, <1>11, <1>12, Zenon
<1> QED
  BY <1>1, <1>2, <1>11, <1>14, <1>15, Zenon DEF ClockInv

(* A second passes in the CMOS clock between the two reads. *)
LEMMA ClockRtcUpdate ==
    ASSUME ClockInv, RtcUpdate PROVE ClockInv'
<1>1. /\ clk.pc = "date" /\ clk' = clk /\ timer' = timer
      /\ rtc' = IF rtc.tod + 1 < DAY THEN [rtc EXCEPT !.tod = rtc.tod + 1]
                ELSE [rtc EXCEPT !.tod = 0, !.date = NextDate(rtc.date), !.days = rtc.days + 1,
                                 !.crossed = TRUE]
  BY Zenon DEF RtcUpdate
<1>2. /\ clk \in Clocks /\ rtc \in Rtcs /\ timer.seconds = 0 /\ rtc.days = DayNumber(rtc.date)
      /\ HourReadable => TimeOfDay(clk) = Local(timer.seconds)
  BY <1>1, Zenon DEF ClockInv
<1>3. rtc.date \in Dates /\ rtc.days \in Int /\ rtc.tod \in Nat
  BY <1>2, Zenon DEF Rtcs, Seconds
<1>4. rtc.tod + 1 \in Nat /\ rtc.days + 1 \in Int /\ 0 \in Seconds
  <2>1. 0 < DAY
    BY DEF DAY
  <2> QED
    BY <1>3, <2>1 DEF Seconds
<1>5. NextDate(rtc.date) \in Dates /\ DayNumber(NextDate(rtc.date)) = rtc.days + 1
  BY <1>2, <1>3, NextDateNext, Zenon
<1>6. /\ rtc' \in Rtcs /\ rtc'.days = DayNumber(rtc'.date)
      /\ rtc'.read = rtc.read /\ rtc'.h24 = rtc.h24
  <2>1. CASE rtc.tod + 1 < DAY
    <3>1. rtc.tod + 1 \in Seconds
      BY <1>4, <2>1, Zenon DEF Seconds
    <3>2. rtc' = [rtc EXCEPT !.tod = rtc.tod + 1]
      BY <1>1, <2>1, Zenon
    <3>3. rtc' \in Rtcs /\ rtc'.days = rtc.days /\ rtc'.date = rtc.date
          /\ rtc'.read = rtc.read /\ rtc'.h24 = rtc.h24
      BY <1>2, <3>1, <3>2 DEF Rtcs
    <3> QED
      BY <1>2, <3>3, Zenon
  <2>2. CASE ~(rtc.tod + 1 < DAY)
    <3>1. rtc' = [rtc EXCEPT !.tod = 0, !.date = NextDate(rtc.date), !.days = rtc.days + 1,
                             !.crossed = TRUE]
      BY <1>1, <2>2, Zenon
    <3>2. rtc' \in Rtcs /\ rtc'.days = rtc.days + 1 /\ rtc'.date = NextDate(rtc.date)
          /\ rtc'.read = rtc.read /\ rtc'.h24 = rtc.h24
      BY <1>2, <1>4, <1>5, <3>1 DEF Rtcs
    <3> QED
      BY <1>5, <3>2, Zenon
  <2> QED
    BY <2>1, <2>2, Zenon
<1>7. HourReadable' = HourReadable /\ Local(timer.seconds)' = Local(timer.seconds)
      /\ TimeOfDay(clk)' = TimeOfDay(clk)
  BY <1>1, <1>6 DEF HourReadable, Local, TimeOfDay
<1>8. clk'.pc # "run"
  BY <1>1
<1> QED
  BY <1>1, <1>2, <1>6, <1>7, <1>8, Zenon DEF ClockInv

(* A remainder moves with its number. *)
LEMMA NextRemainder ==
    ASSUME NEW x \in Int PROVE (x + 1) % DAY = ((x % DAY) + 1) % DAY
BY DEF DAY

(* A second lies on the day whose bounds it lies between. *)
LEMMA DayOf ==
    ASSUME NEW x \in Int, NEW n \in Int, n * DAY <= x, x < n * DAY + DAY
    PROVE  x \div DAY = n
BY DEF DAY

(* The timer interrupt: the clock moves when the ticks wrap. *)
LEMMA ClockTimer ==
    ASSUME ClockInv, RoomInv, TicksInv, timer_apic_handler PROVE ClockInv'
<1> DEFINE t == IF timer.ticks + 1 >= TICKS THEN 0 ELSE timer.ticks + 1
<1>1. /\ clk.pc = "run" /\ rtc' = rtc
      /\ clk' = (IF t = 0 THEN clock_tick(clk) ELSE clk)
      /\ timer'.seconds = IF t = 0 THEN timer.seconds + 1 ELSE timer.seconds
  BY DEF timer_apic_handler
<1>2. /\ clk \in Clocks /\ rtc \in Rtcs /\ rtc.days = DayNumber(rtc.date)
      /\ HourReadable => TimeOfDay(clk) = Local(timer.seconds)
      /\ clk.epoch % DAY = TimeOfDay(clk)
      /\ rtc.days * DAY <= clk.epoch - timer.seconds
      /\ clk.epoch - timer.seconds < rtc.days * DAY + DAY
  BY <1>1, Zenon DEF ClockInv
<1>3. timer.seconds \in Nat /\ clk.epoch \in Nat /\ rtc.days \in Int
  BY <1>2, Zenon DEF TicksInv, TimerInv, Clocks, Rtcs
<1>4. HourReadable' = HourReadable
  BY <1>1 DEF HourReadable
<1> HIDE DEF t
<1>5. CASE t # 0
  <2>1. clk' = clk /\ timer'.seconds = timer.seconds
    BY <1>1, <1>5, Zenon
  <2>2. TimeOfDay(clk)' = TimeOfDay(clk) /\ Local(timer.seconds)' = Local(timer.seconds)
    BY <1>1, <2>1, Zenon DEF TimeOfDay, Local
  <2> QED
    BY <1>1, <1>2, <1>4, <2>1, <2>2, Zenon DEF ClockInv
<1>6. CASE t = 0
  <2>1. clk' = clock_tick(clk) /\ timer'.seconds = timer.seconds + 1
    BY <1>1, <1>6, Zenon
  <2>0. (clk.epoch + 1) % EPOCHS = clk.epoch + 1
    <3>1. rtc.days * DAY + DAY + MaxSeconds <= EPOCHS
      <4>1. clk.pc # "off"
        BY <1>1
      <4> QED
        BY <4>1, Zenon DEF RoomInv, Room
    <3>2. /\ MaxSeconds \in Nat /\ EPOCHS \in Nat /\ DAY \in Nat /\ rtc.days * DAY \in Int
          /\ timer.seconds < MaxSeconds
      <4>1. DAY \in Nat
        BY DEF DAY
      <4>2. timer.seconds < MaxSeconds
        BY Zenon DEF timer_apic_handler
      <4> QED
        BY <1>3, <4>1, <4>2, ClockAssumption
    <3>3. clk.epoch + 1 < EPOCHS /\ clk.epoch + 1 \in Nat
      BY <1>2, <1>3, <3>1, <3>2
    <3> QED
      BY <3>2, <3>3, SmallMod, Zenon
  <2>2. /\ clk' \in Clocks /\ clk'.pc = "run" /\ clk'.epoch = clk.epoch + 1
        /\ TimeOfDay(clk)' = (TimeOfDay(clk) + 1) % DAY
    BY <1>1, <1>2, <2>0, <2>1, TickTime, Zenon DEF TimeOfDay
  <2>3. clk'.epoch % DAY = TimeOfDay(clk)'
    <3>1. (clk.epoch + 1) % DAY = ((clk.epoch % DAY) + 1) % DAY
      <4>1. clk.epoch \in Int
        BY <1>3
      <4> QED
        BY <4>1, NextRemainder, Zenon
    <3> QED
      BY <1>2, <2>2, <3>1, Zenon
  <2>4. Local(timer.seconds)' = (Local(timer.seconds) + 1) % DAY
    <3> DEFINE a == rtc.read + Zone(TIMEZONE_OFFSET) + timer.seconds
    <3>1. rtc.read \in Nat /\ Zone(TIMEZONE_OFFSET) \in Nat
      <4>1. rtc.read \in Nat
        BY <1>2, Zenon DEF Rtcs, Seconds
      <4> QED
        BY <4>1, ClockAssumption DEF Zone
    <3>2. a \in Int /\ rtc.read + Zone(TIMEZONE_OFFSET) + (timer.seconds + 1) = a + 1
      BY <1>3, <3>1
    <3>3. (a + 1) % DAY = ((a % DAY) + 1) % DAY
      <4> HIDE DEF a
      <4> QED
        BY <3>2, NextRemainder, Zenon
    <3>4. Local(timer.seconds) = a % DAY
      BY Zenon DEF Local
    <3>5. Local(timer.seconds)' = (rtc.read + Zone(TIMEZONE_OFFSET) + (timer.seconds + 1)) % DAY
      BY <1>1, <2>1, Zenon DEF Local
    <3> HIDE DEF a
    <3> QED
      BY <3>2, <3>3, <3>4, <3>5, Zenon
  <2>5. HourReadable' => TimeOfDay(clk)' = Local(timer.seconds)'
    BY <1>2, <1>4, <2>2, <2>4, Zenon
  <2>6. clk'.epoch - timer'.seconds = clk.epoch - timer.seconds
    BY <1>3, <2>1, <2>2
  <2> QED
    BY <1>1, <1>2, <2>2, <2>3, <2>5, <2>6, Zenon DEF ClockInv
<1> QED
  BY <1>5, <1>6, Zenon

(* Every action of the clock leaves epoch room. *)
LEMMA RoomStep ==
    ASSUME TicksInv, ClockInv, RoomInv, [ClockNext]_clockVars PROVE RoomInv'
<1>0. /\ MaxSeconds \in Nat /\ EPOCHS \in Nat /\ DAY \in Nat /\ DAY > 1
      /\ timer.seconds \in Nat /\ rtc \in Rtcs /\ clk \in Clocks
  <2>1. DAY \in Nat /\ DAY > 1
    BY DEF DAY
  <2>2. timer.seconds \in Nat /\ rtc \in Rtcs /\ clk \in Clocks
    BY Zenon DEF TicksInv, TimerInv, ClockInv
  <2> QED
    BY <2>1, <2>2, ClockAssumption, Zenon
<1>1. CASE rtc' = rtc /\ clk' = clk /\ timer'.seconds = timer.seconds
  BY <1>1, Zenon DEF RoomInv, Room
<1>2. CASE \E d \in RtcDays, s \in RtcSeconds, bcd, h24 \in BOOLEAN : PowerOn(d, s, bcd, h24)
  <2>1. PICK d \in RtcDays, s \in RtcSeconds, bcd \in BOOLEAN, h24 \in BOOLEAN :
             PowerOn(d, s, bcd, h24)
    BY <1>2, Zenon
  <2>2. /\ timer' = timer /\ clk' = [clk EXCEPT !.pc = "time"]
        /\ rtc' = [rtc EXCEPT !.date = d.date, !.days = d.days, !.tod = s, !.bcd = bcd,
                              !.h24 = h24]
    BY <2>1, Zenon DEF PowerOn
  <2>3. rtc'.days = d.days /\ clk'.pc = "time"
    BY <1>0, <2>2 DEF Rtcs, Clocks
  <2>4. d.days \in Nat /\ Room(d.days + 1)
    <3>1. d.days \in Nat
      BY ClockAssumption, NumberIsNat, Zenon
    <3> QED
      BY <3>1, ClockAssumption, Zenon DEF Room
  <2>5. Room(d.days)
    <3>1. (d.days + 1) * DAY = d.days * DAY + DAY /\ d.days * DAY \in Nat
      BY <1>0, <2>4
    <3>2. (d.days + 1) * DAY + DAY + MaxSeconds <= EPOCHS
      BY <2>4, Zenon DEF Room
    <3> QED
      BY <1>0, <3>1, <3>2 DEF Room
  <2> QED
    BY <2>2, <2>3, <2>4, <2>5, Zenon DEF RoomInv, Room
<1>3. CASE read_rtc_time
  <2>1. clk.pc = "time" /\ timer' = timer /\ clk'.pc = "date" /\ rtc'.days = rtc.days
    BY <1>0, <1>3 DEF read_rtc_time, Rtcs, Clocks
  <2>2. clk'.pc # "time" /\ clk.pc # "off" /\ clk'.pc # "off"
    BY <2>1
  <2> QED
    BY <2>1, <2>2, Zenon DEF RoomInv, Room
<1>4. CASE read_rtc_date
  <2>1. clk.pc = "date" /\ timer' = timer /\ clk'.pc = "run" /\ rtc' = rtc
    BY <1>0, <1>4 DEF read_rtc_date, Clocks
  <2>2. clk'.pc # "time" /\ clk'.pc # "date" /\ clk.pc # "off"
    BY <2>1
  <2> QED
    BY <2>1, <2>2, Zenon DEF RoomInv, Room
<1>5. CASE RtcUpdate
  <2>1. /\ clk.pc = "date" /\ rtc.read = rtc.tod /\ clk' = clk /\ timer' = timer
        /\ rtc' = IF rtc.tod + 1 < DAY THEN [rtc EXCEPT !.tod = rtc.tod + 1]
                  ELSE [rtc EXCEPT !.tod = 0, !.date = NextDate(rtc.date), !.days = rtc.days + 1,
                                   !.crossed = TRUE]
    BY <1>5, Zenon DEF RtcUpdate
  <2>2. Room(rtc.days) /\ Room(rtc.days + 1)
    <3>1. clk.pc # "off"
      BY <2>1
    <3> QED
      BY <2>1, <3>1, Zenon DEF RoomInv
  <2>3. rtc.tod \in Nat
    BY <1>0, Zenon DEF Rtcs, Seconds
  <2>4. rtc'.read # rtc'.tod /\ (rtc'.days = rtc.days \/ rtc'.days = rtc.days + 1)
    BY <1>0, <2>1, <2>3 DEF Rtcs
  <2>5. clk'.pc # "time"
    BY <2>1
  <2> QED
    BY <2>1, <2>2, <2>4, <2>5, Zenon DEF RoomInv, Room
<1>6. CASE timer_apic_handler
  <2>1. /\ clk.pc = "run" /\ timer.seconds < MaxSeconds /\ rtc' = rtc
        /\ timer'.seconds \in {timer.seconds, timer.seconds + 1}
    BY <1>6 DEF timer_apic_handler
  <2>2. clk'.pc = "run"
    BY <1>0, <1>6, <2>1, TickTime DEF timer_apic_handler
  <2>3. timer'.seconds <= MaxSeconds
    BY <1>0, <2>1
  <2>4. clk'.pc # "time" /\ clk'.pc # "date" /\ clk.pc # "off"
    BY <2>1, <2>2
  <2> QED
    BY <2>1, <2>3, <2>4, Zenon DEF RoomInv, Room
<1>7. CASE schedule_from_isr
  <2>1. timer' = [timer EXCEPT !.resched = FALSE] /\ rtc' = rtc /\ clk' = clk
    BY <1>7, Zenon DEF schedule_from_isr
  <2>2. timer \in [ticks : 0..(TICKS - 1), seconds : Nat, preempt : 0..(PREEMPT - 1),
                   resched : BOOLEAN, last : 0..(TICKS - 1), blinked : Nat, sliced : Nat]
    BY Zenon DEF TicksInv, TimerInv
  <2>3. timer'.seconds = timer.seconds
    BY <2>1, <2>2
  <2> QED
    BY <1>1, <2>1, <2>3, Zenon
<1>8. CASE \E n \in WaitNeeds : timer_sleep(n)
  BY <1>1, <1>8, Zenon DEF timer_sleep
<1>9. CASE WaitOver
  BY <1>1, <1>9, Zenon DEF WaitOver
<1>10. CASE UNCHANGED clockVars
  BY <1>1, <1>10, Zenon DEF clockVars
<1> QED
  BY <1>2, <1>3, <1>4, <1>5, <1>6, <1>7, <1>8, <1>9, <1>10, Zenon DEF ClockNext

(* Every action of the clock keeps its invariant. *)
LEMMA ClockStep ==
    ASSUME TicksInv, RoomInv, ClockInv, [ClockNext]_clockVars PROVE ClockInv'
<1>1. CASE rtc' = rtc /\ clk' = clk /\ timer'.seconds = timer.seconds
  <2>1. HourReadable' = HourReadable /\ Local(timer.seconds)' = Local(timer.seconds)
        /\ TimeOfDay(clk)' = TimeOfDay(clk)
    BY <1>1 DEF HourReadable, Local, TimeOfDay
  <2> QED
    BY <1>1, <2>1, Zenon DEF ClockInv
<1>2. CASE \E d \in RtcDays, s \in RtcSeconds, bcd, h24 \in BOOLEAN : PowerOn(d, s, bcd, h24)
  BY <1>2, ClockPowerOn, Zenon
<1>3. CASE schedule_from_isr
  <2>1. timer' = [timer EXCEPT !.resched = FALSE] /\ rtc' = rtc /\ clk' = clk
    BY <1>3, Zenon DEF schedule_from_isr
  <2>2. timer \in [ticks : 0..(TICKS - 1), seconds : Nat, preempt : 0..(PREEMPT - 1),
                   resched : BOOLEAN, last : 0..(TICKS - 1), blinked : Nat, sliced : Nat]
    BY Zenon DEF TicksInv, TimerInv
  <2>3. timer'.seconds = timer.seconds
    BY <2>1, <2>2
  <2> QED
    BY <1>1, <2>1, <2>3, Zenon
<1>4. CASE \E n \in WaitNeeds : timer_sleep(n)
  BY <1>1, <1>4, Zenon DEF timer_sleep
<1>5. CASE WaitOver
  BY <1>1, <1>5, Zenon DEF WaitOver
<1>6. CASE UNCHANGED clockVars
  BY <1>1, <1>6, Zenon DEF clockVars
<1> QED
  BY <1>2, <1>3, <1>4, <1>5, <1>6, ClockReadTime, ClockReadDate, ClockRtcUpdate, ClockTimer, Zenon
     DEF ClockNext

(* system_clock is the time the CMOS clock showed, in the local zone, plus *)
(* the seconds since: hh:mm:ss over midnight and in either format of the   *)
(* registers, epoch in step with it and on the day of the CMOS clock       *)
(* (init_system_clock, clock_tick).                                        *)
THEOREM ClockAlwaysSound == ClockSpec => []ClockSound
<1>1. ClockInit => TicksInv /\ RoomInv /\ ClockInv
  <2> SUFFICES ASSUME ClockInit PROVE RoomInv /\ ClockInv
    BY TicksStart, Zenon
  <2>1. /\ rtc = [date |-> FirstDay, days |-> 0, tod |-> 0, bcd |-> TRUE, h24 |-> TRUE,
                  read |-> 0, crossed |-> FALSE]
        /\ clk = [pc |-> "off", hh |-> 0, mm |-> 0, ss |-> 0, epoch |-> 0]
        /\ timer.seconds = 0
    BY DEF ClockInit
  <2>2. FirstDay \in Dates /\ DayNumber(FirstDay) = 0
    BY FirstDayFirst, Zenon
  <2>3. 0 \in Seconds /\ 0 \in Hours /\ 0 \in Sixty /\ "off" \in Phases
    <3>1. 0 < DAY
      BY DEF DAY
    <3> QED
      BY <3>1 DEF Seconds, Hours, Sixty, Phases
  <2>4. rtc \in Rtcs /\ rtc.days = 0 /\ rtc.date = FirstDay
    BY <2>1, <2>2, <2>3 DEF Rtcs
  <2>5. clk \in Clocks /\ clk.pc = "off"
    BY <2>1, <2>3 DEF Clocks
  <2>6. clk.pc \notin {"date", "run"} /\ clk.pc # "run" /\ clk.pc # "time" /\ clk.pc # "date"
    BY <2>5
  <2>7. timer.seconds <= MaxSeconds
    BY <2>1, ClockAssumption
  <2> QED
    BY <2>1, <2>2, <2>4, <2>5, <2>6, <2>7, Zenon DEF ClockInv, RoomInv
<1>2. TicksInv /\ RoomInv /\ ClockInv /\ [ClockNext]_clockVars => TicksInv' /\ RoomInv' /\ ClockInv'
  BY TicksStep, RoomStep, ClockStep, Zenon
<1>3. TicksInv /\ ClockInv => ClockSound
  <2> SUFFICES ASSUME TicksInv, ClockInv, clk.pc = "run"
               PROVE  /\ HourReadable =>
                            clk.hh * 3600 + clk.mm * 60 + clk.ss
                              = (rtc.read + TIMEZONE_OFFSET * 3600 + timer.seconds) % DAY
                      /\ clk.epoch % DAY = clk.hh * 3600 + clk.mm * 60 + clk.ss
                      /\ (clk.epoch - timer.seconds) \div DAY = rtc.days
    BY DEF ClockSound, ClockKeepsTime, EpochInStep, EpochOnRtcDay
  <2>1. /\ HourReadable => TimeOfDay(clk) = Local(timer.seconds)
        /\ clk.epoch % DAY = TimeOfDay(clk)
        /\ rtc.days * DAY <= clk.epoch - timer.seconds
        /\ clk.epoch - timer.seconds < rtc.days * DAY + DAY
    BY Zenon DEF ClockInv
  <2>2. timer.seconds \in Nat /\ clk.epoch \in Nat /\ rtc.days \in Int
    BY Zenon DEF TicksInv, TimerInv, ClockInv, Clocks, Rtcs
  <2>3. TimeOfDay(clk) = clk.hh * 3600 + clk.mm * 60 + clk.ss
    BY DEF TimeOfDay, Hms
  <2>4. Local(timer.seconds) = (rtc.read + TIMEZONE_OFFSET * 3600 + timer.seconds) % DAY
    BY DEF Local, Zone
  <2>5. (clk.epoch - timer.seconds) \div DAY = rtc.days
    <3> DEFINE x == clk.epoch - timer.seconds
    <3>1. x \in Int /\ rtc.days * DAY <= x /\ x < rtc.days * DAY + DAY
      BY <2>1, <2>2
    <3> HIDE DEF x
    <3>2. x \div DAY = rtc.days
      BY <2>2, <3>1, DayOf, Zenon
    <3> QED
      BY <3>2, Zenon DEF x
  <2> QED
    BY <2>1, <2>3, <2>4, <2>5
<1> QED
  BY <1>1, <1>2, <1>3, PTL DEF ClockSpec

-----------------------------------------------------------------------------
(* The page tables under the growth of the heap.                          *)

(* Dividing twice divides by the square. *)
LEMMA DivDiv ==
    ASSUME NEW a \in Nat, NEW b \in Nat, b > 0
    PROVE  a \div (b * b) = (a \div b) \div b
<1> DEFINE q == a \div b
           p == q \div b
<1>1. q \in Nat /\ q * b <= a /\ a < q * b + b
  <2>1. a % b \in 0..(b - 1) /\ a = q * b + (a % b) /\ q \in Nat
    BY DivMod, Zenon
  <2>2. a % b \in Int /\ q * b \in Int
    BY <2>1
  <2> HIDE DEF q
  <2> QED
    BY <2>1, <2>2
<1>2. p \in Nat /\ p * b <= q /\ q + 1 <= p * b + b
  <2>1. q % b \in 0..(b - 1) /\ q = p * b + (q % b) /\ p \in Nat
    <3> HIDE DEF q
    <3> QED
      BY <1>1, DivMod, Zenon
  <2>2. q % b \in Int /\ p * b \in Int
    BY <1>1, <2>1
  <2> HIDE DEF q, p
  <2> QED
    BY <1>1, <2>1, <2>2
<1> HIDE DEF q, p
<1>3. b * b \in Nat /\ b * b > 0 /\ p * b \in Nat
  BY <1>2
<1>4. (p * b) * b <= q * b /\ (q + 1) * b <= (p * b + b) * b
  BY <1>1, <1>2, <1>3
<1>5. (p * b) * b = p * (b * b) /\ (p * b + b) * b = p * (b * b) + b * b /\ (q + 1) * b = q * b + b
  BY <1>1, <1>2, <1>3
<1>6. p * (b * b) \in Nat /\ q * b \in Nat
  BY <1>1, <1>2, <1>3
<1>7. p * (b * b) <= a /\ a < p * (b * b) + b * b
  BY <1>1, <1>3, <1>4, <1>5, <1>6
<1>8. a \div (b * b) = p
  BY <1>2, <1>3, <1>7, DivIs, Zenon
<1> QED
  BY <1>8, Zenon DEF p, q

(* A quotient is below c when the number is below c times the divisor. *)
LEMMA DivBelow ==
    ASSUME NEW a \in Nat, NEW b \in Nat, b > 0, NEW c \in Nat, a < c * b
    PROVE  a \div b < c
<1> DEFINE q == a \div b
<1>1. q \in Nat /\ q * b <= a
  <2>1. a % b \in 0..(b - 1) /\ a = q * b + (a % b) /\ q \in Nat
    BY DivMod, Zenon
  <2>2. a % b \in Int /\ q * b \in Int
    BY <2>1
  <2> HIDE DEF q
  <2> QED
    BY <2>1, <2>2
<1> HIDE DEF q
<1>2. CASE c <= q
  <2>1. c * b <= q * b
    BY <1>1, <1>2
  <2> QED
    BY <1>1, <2>1
<1>3. q < c
  BY <1>1, <1>2
<1> QED
  BY <1>3, Zenon DEF q

(* The large page of a page of memory, by its first frame. *)
PageStart(v) == (v \div ENTRIES) * ENTRIES

(* Where the walk for a page of memory goes. *)
LEMMA WalkIndices ==
    ASSUME NEW v \in PhysFrames
    PROVE  /\ PageIndex(3, v) = 0
           /\ PageIndex(2, v) \in TableIndex /\ PageIndex(1, v) \in TableIndex
           /\ ((PageIndex(2, v) * ENTRIES) + PageIndex(1, v)) * ENTRIES = PageStart(v)
           /\ PageStart(v) + PageIndex(0, v) = v
           /\ PageStart(v) \in PhysFrames /\ v - PageStart(v) < ENTRIES
<1> DEFINE e == ENTRIES
           q == v \div e
           p == q \div e
<1>1. /\ e \in Nat /\ e > 1 /\ e > 0 /\ v \in Nat
      /\ Memory \in Nat /\ v < Memory /\ Memory <= e * e * e
  BY PagingAssumption DEF PhysFrames
<1>2. /\ PageIndex(3, v) = (v \div (e * e * e)) % e
      /\ PageIndex(2, v) = (v \div (e * e)) % e
      /\ PageIndex(1, v) = (v \div e) % e
      /\ PageIndex(0, v) = (v \div 1) % e
  BY DEF PageIndex
<1>3. PageStart(v) = q * e
  BY Zenon DEF PageStart
<1> HIDE DEF e
<1>4. e * e \in Nat /\ e * e > 0 /\ e * e * e \in Nat /\ e * e * e > 0 /\ v < e * e * e
  <2>1. e * e \in Nat /\ e * e > 0
    BY <1>1
  <2>2. e * e * e \in Nat /\ e * e * e > 0
    BY <1>1, <2>1
  <2> QED
    BY <1>1, <2>1, <2>2
<1>5. q \in Nat /\ v % e \in 0..(e - 1) /\ v = q * e + (v % e) /\ q < e * e
  <2>1. v < (e * e) * e
    BY <1>4, Zenon
  <2> QED
    BY <1>1, <1>4, <2>1, DivMod, DivBelow, Zenon
<1>6. v \div (e * e) = p
  BY <1>1, DivDiv, Zenon
<1>7. p \in Nat /\ q % e \in 0..(e - 1) /\ q = p * e + (q % e) /\ p < e
  <2> HIDE DEF q
  <2> QED
    BY <1>1, <1>5, DivMod, DivBelow, Zenon
<1>8. v \div (e * e * e) = 0
  <2> DEFINE c == e * e * e
  <2>1. c \in Nat /\ c > 0 /\ v < c
    BY <1>4, Zenon
  <2> HIDE DEF c
  <2>2. 0 * c <= v /\ v < 0 * c + c
    BY <1>1, <2>1
  <2>3. v \div c = 0
    BY <1>1, <2>1, <2>2, DivIs, Zenon
  <2> QED
    BY <2>3, Zenon DEF c
<1> HIDE DEF p
<1>9. p % e = p /\ 0 % e = 0 /\ v \div 1 = v
  <2>1. p \div e = 0
    <3>1. 0 * e <= p /\ p < 0 * e + e
      BY <1>1, <1>7
    <3> QED
      BY <1>1, <1>7, <3>1, DivIs, Zenon
  <2>2. p = (p \div e) * e + (p % e) /\ p % e \in 0..(e - 1)
    BY <1>1, <1>7, DivMod, Zenon
  <2>3. p = 0 * e + (p % e) /\ p % e \in Int
    BY <1>1, <2>1, <2>2
  <2>4. 0 % e = 0
    <3>1. 0 \div e = 0
      <4>1. 0 * e <= 0 /\ 0 < 0 * e + e
        BY <1>1
      <4> QED
        BY <1>1, <4>1, DivIs, Zenon
    <3>2. 0 = (0 \div e) * e + (0 % e) /\ 0 % e \in 0..(e - 1)
      BY <1>1, DivMod, Zenon
    <3> QED
      BY <1>1, <3>1, <3>2
  <2> QED
    BY <1>1, <1>7, <2>3, <2>4
<1>10. /\ PageIndex(3, v) = 0 /\ PageIndex(2, v) = p /\ PageIndex(1, v) = q % e
       /\ PageIndex(0, v) = v % e
  BY <1>2, <1>6, <1>8, <1>9, Zenon
<1>11. p \in 0..(e - 1) /\ q % e \in 0..(e - 1)
  BY <1>1, <1>7
<1> HIDE DEF q
<1>12. q * e \in Nat /\ v % e \in Int
  BY <1>1, <1>5
<1>13. q * e \in PhysFrames /\ v - q * e < e /\ q * e + (v % e) = v
  BY <1>1, <1>5, <1>12 DEF PhysFrames
<1>14. PageIndex(2, v) * ENTRIES = p * e /\ TableIndex = 0..(e - 1)
  BY <1>10, Zenon DEF e, TableIndex
<1> QED
  BY <1>3, <1>7, <1>10, <1>11, <1>13, <1>14, Zenon DEF e

(* What the boot tables hold for the memory of the machine. *)
LEMMA BootEntries ==
    /\ 0 \in TableIndex /\ 0 \in PhysFrames /\ TableFrames \subseteq PhysFrames
    /\ boot_tables[0][0] = Points(1)
    /\ \A j \in TableIndex :
            /\ 3 + j \in TableFrames /\ boot_tables[1][j] = Points(3 + j)
            /\ \A n \in TableIndex : boot_tables[3 + j][n] = Large(((j * ENTRIES) + n) * ENTRIES)
    /\ 0 \in TableFrames /\ 1 \in TableFrames
<1>1. /\ ENTRIES \in Nat /\ ENTRIES > 1 /\ Memory \in Nat /\ 3 + 2 * ENTRIES < Memory
  BY PagingAssumption
<1>2. /\ 0 \in TableIndex /\ 0 \in PhysFrames /\ TableFrames \subseteq PhysFrames
      /\ 0 \in TableFrames /\ 1 \in TableFrames /\ 1 \in PhysFrames
      /\ \A j \in TableIndex : 3 + j \in TableFrames
  BY <1>1 DEF TableIndex, PhysFrames, TableFrames
<1>3. boot_tables[0][0] = Points(1)
  <2>1. boot_tables[0][0] = Points(Pdpt(0))
    BY <1>2 DEF boot_tables
  <2> QED
    BY <2>1 DEF Pdpt
<1>4. ASSUME NEW j \in TableIndex PROVE boot_tables[1][j] = Points(3 + j)
  <2>1. Pdpt(0) = 1 /\ Pdpt(1) = 2 /\ j \in Nat
    BY <1>1 DEF Pdpt, TableIndex
  <2>2. boot_tables[1][j] = Points(Pd(0, j))
    BY <1>2, <2>1 DEF boot_tables
  <2>3. Pd(0, j) = 3 + j
    BY <1>1, <2>1 DEF Pd
  <2> QED
    BY <2>2, <2>3, Zenon
<1>5. ASSUME NEW j \in TableIndex, NEW n \in TableIndex
      PROVE  boot_tables[3 + j][n] = Large(((j * ENTRIES) + n) * ENTRIES)
  <2>1. Pdpt(0) = 1 /\ Pdpt(1) = 2 /\ j \in Nat /\ n \in Nat /\ j < ENTRIES
    BY <1>1 DEF Pdpt, TableIndex
  <2> DEFINE f == 3 + j
  <2>2. f \in PhysFrames /\ f \in TableFrames /\ f # 0 /\ f # 1 /\ f # 2 /\ f - 3 = j
    BY <1>2, <2>1
  <2>3. j \div ENTRIES = 0 /\ j % ENTRIES = j
    <3>1. 0 * ENTRIES <= j /\ j < 0 * ENTRIES + ENTRIES /\ ENTRIES > 0 /\ 0 \in Nat
      BY <1>1, <2>1
    <3>2. j \div ENTRIES = 0
      BY <1>1, <2>1, <3>1, DivIs, Zenon
    <3>3. j = (j \div ENTRIES) * ENTRIES + (j % ENTRIES) /\ j % ENTRIES \in 0..(ENTRIES - 1)
      BY <1>1, <2>1, <3>1, DivMod, Zenon
    <3> QED
      BY <1>1, <2>1, <3>2, <3>3
  <2>4. Base(0) = 0
    <3> DEFINE c == (ENTRIES * ENTRIES) \div 4
    <3>1. c \in Int
      <4>1. ENTRIES * ENTRIES \in Int
        BY <1>1
      <4> QED
        BY <4>1
    <3> HIDE DEF c
    <3>2. 0 * ENTRIES * c = 0
      BY <1>1, <3>1
    <3> QED
      BY <3>2, Zenon DEF Base, c
  <2> HIDE DEF f
  <2>5. boot_tables[f][n]
            = Large(Base((f - 3) \div ENTRIES) + (((((f - 3) % ENTRIES) * ENTRIES) + n) * ENTRIES))
    BY <2>1, <2>2 DEF boot_tables
  <2>6. boot_tables[f][n] = Large(0 + (((j * ENTRIES) + n) * ENTRIES))
    BY <2>2, <2>3, <2>4, <2>5, Zenon
  <2>7. 0 + (((j * ENTRIES) + n) * ENTRIES) = ((j * ENTRIES) + n) * ENTRIES
    <3>1. ((j * ENTRIES) + n) * ENTRIES \in Int
      BY <1>1, <2>1
    <3> QED
      BY <3>1
  <2> QED
    BY <2>6, <2>7, Zenon DEF f
<1> QED
  BY <1>2, <1>3, <1>4, <1>5, Zenon

(* The tables are as the boot code left them. *)
TablesKept(m) ==
    /\ m = [f \in PhysFrames |-> m[f]]
    /\ \A f \in TableFrames : m[f] = boot_tables[f]

(* A state of the mapping loop that has left them so. *)
Walking(s, free) ==
    /\ s = [mem |-> s.mem, free_frames |-> s.free_frames, next |-> s.next]
    /\ TablesKept(s.mem) /\ s.free_frames = free

(* On such tables the walk for a page of memory goes through the tables of *)
(* boot32.asm to the large page of the page.                               *)
LEMMA WalkKept ==
    ASSUME NEW m, TablesKept(m), NEW v \in PhysFrames
    PROVE  /\ PageIndex(3, v) = 0 /\ m[0][0] = Points(1)
           /\ m[1][PageIndex(2, v)] = Points(3 + PageIndex(2, v))
           /\ m[3 + PageIndex(2, v)][PageIndex(1, v)] = Large(PageStart(v))
<1>1. PageIndex(3, v) = 0 /\ PageIndex(2, v) \in TableIndex /\ PageIndex(1, v) \in TableIndex
  BY WalkIndices, Zenon
<1>2. /\ m[0][0] = Points(1)
      /\ m[1][PageIndex(2, v)] = Points(3 + PageIndex(2, v))
      /\ m[3 + PageIndex(2, v)][PageIndex(1, v)]
            = Large(((PageIndex(2, v) * ENTRIES) + PageIndex(1, v)) * ENTRIES)
  BY <1>1, BootEntries, Zenon DEF TablesKept
<1> QED
  BY <1>1, <1>2, WalkIndices, Zenon

(* One step down follows an entry that is present. *)
LEMMA StepDown ==
    ASSUME NEW free, NEW s, Walking(s, free), NEW t, NEW i, s.mem[t][i].present
    PROVE  /\ Walking(get_next_level(s, t, i), free)
           /\ get_next_level(s, t, i).mem = s.mem
           /\ get_next_level(s, t, i).next = s.mem[t][i].frame
<1> DEFINE r == get_next_level(s, t, i)
<1>1. r = [s EXCEPT !.next = s.mem[t][i].frame]
  BY Zenon DEF get_next_level
<1>2. s = [mem |-> s.mem, free_frames |-> s.free_frames, next |-> s.next]
  BY Zenon DEF Walking
<1> HIDE DEF r
<1>3. r = [mem |-> s.mem, free_frames |-> s.free_frames, next |-> s.mem[t][i].frame]
  BY <1>1, <1>2
<1>4. r.mem = s.mem /\ r.free_frames = s.free_frames /\ r.next = s.mem[t][i].frame
  BY <1>3
<1>5. Walking(r, free)
  BY <1>3, <1>4, Zenon DEF Walking
<1> QED
  BY <1>4, <1>5, Zenon DEF r

(* Mapping a page past the heap writes into a frame of the large page it   *)
(* lies in, which is none of the tables.                                   *)
LEMMA MapPageKeeps ==
    ASSUME NEW free, NEW s, Walking(s, free), NEW v \in PhysFrames, v > HeapLast, NEW frame
    PROVE  Walking(paging_map_page(s, v, frame), free)
<1> DEFINE r1 == get_next_level(s, 0, PageIndex(3, v))
           r2 == get_next_level(r1, r1.next, PageIndex(2, v))
           r3 == get_next_level(r2, r2.next, PageIndex(1, v))
           t == paging_map_page(s, v, frame)
<1>1. t = [r3 EXCEPT !.mem[r3.next][PageIndex(0, v)] = Points(frame)]
  BY Zenon DEF paging_map_page
<1>2. \A f : Points(f).present /\ Points(f).frame = f /\ Large(f).present /\ Large(f).frame = f
  BY DEF Points, Large
<1>3. TablesKept(s.mem)
  BY Zenon DEF Walking
<1>4. Walking(r1, free) /\ r1.mem = s.mem /\ r1.next = 1
  <2>1. s.mem[0][PageIndex(3, v)] = Points(1)
    BY <1>3, WalkKept, Zenon
  <2>2. s.mem[0][PageIndex(3, v)].present /\ s.mem[0][PageIndex(3, v)].frame = 1
    BY <1>2, <2>1, Zenon
  <2>3. /\ Walking(get_next_level(s, 0, PageIndex(3, v)), free)
        /\ get_next_level(s, 0, PageIndex(3, v)).mem = s.mem
        /\ get_next_level(s, 0, PageIndex(3, v)).next = s.mem[0][PageIndex(3, v)].frame
    BY <2>2, StepDown
  <2> QED
    BY <2>2, <2>3, Zenon
<1> HIDE DEF r1
<1>5. Walking(r2, free) /\ r2.mem = s.mem /\ r2.next = 3 + PageIndex(2, v)
  <2>1. r1.mem[r1.next][PageIndex(2, v)] = Points(3 + PageIndex(2, v))
    BY <1>3, <1>4, WalkKept, Zenon
  <2>2. /\ r1.mem[r1.next][PageIndex(2, v)].present
        /\ r1.mem[r1.next][PageIndex(2, v)].frame = 3 + PageIndex(2, v)
    BY <1>2, <2>1, Zenon
  <2>3. /\ Walking(get_next_level(r1, r1.next, PageIndex(2, v)), free)
        /\ get_next_level(r1, r1.next, PageIndex(2, v)).mem = r1.mem
        /\ get_next_level(r1, r1.next, PageIndex(2, v)).next
              = r1.mem[r1.next][PageIndex(2, v)].frame
    BY <1>4, <2>2, StepDown
  <2> QED
    BY <1>4, <2>2, <2>3, Zenon
<1> HIDE DEF r2
<1>6. Walking(r3, free) /\ r3.mem = s.mem /\ r3.next = PageStart(v)
  <2>1. r2.mem[r2.next][PageIndex(1, v)] = Large(PageStart(v))
    BY <1>3, <1>5, WalkKept, Zenon
  <2>2. /\ r2.mem[r2.next][PageIndex(1, v)].present
        /\ r2.mem[r2.next][PageIndex(1, v)].frame = PageStart(v)
    BY <1>2, <2>1, Zenon
  <2>3. /\ Walking(get_next_level(r2, r2.next, PageIndex(1, v)), free)
        /\ get_next_level(r2, r2.next, PageIndex(1, v)).mem = r2.mem
        /\ get_next_level(r2, r2.next, PageIndex(1, v)).next
              = r2.mem[r2.next][PageIndex(1, v)].frame
    BY <1>5, <2>2, StepDown
  <2> QED
    BY <1>5, <2>2, <2>3, Zenon
<1> HIDE DEF r3
<1>7. PageStart(v) \notin TableFrames
  <2>1. PageStart(v) \in Int /\ v \in Int /\ v - PageStart(v) < ENTRIES
    BY WalkIndices DEF PhysFrames
  <2> QED
    BY <2>1, PagingAssumption DEF TableFrames
<1> HIDE DEF t
<1>8. /\ t = [mem |-> t.mem, free_frames |-> t.free_frames, next |-> t.next]
      /\ t.free_frames = r3.free_frames
      /\ t.mem = [r3.mem EXCEPT ![PageStart(v)][PageIndex(0, v)] = Points(frame)]
  <2>1. r3 = [mem |-> r3.mem, free_frames |-> r3.free_frames, next |-> r3.next]
    BY <1>6, Zenon DEF Walking
  <2> QED
    BY <1>1, <1>6, <2>1
<1>9. TablesKept(t.mem)
  <2> DEFINE m == r3.mem
             w == [m[PageStart(v)] EXCEPT ![PageIndex(0, v)] = Points(frame)]
             n == t.mem
  <2>1. n = [m EXCEPT ![PageStart(v)] = w]
    BY <1>8
  <2>2. m = [f \in PhysFrames |-> m[f]] /\ \A f \in TableFrames : m[f] = boot_tables[f]
    BY <1>6, Zenon DEF Walking, TablesKept
  <2> HIDE DEF m, w, n
  <2>3. n = [f \in PhysFrames |-> n[f]] /\ \A f \in PhysFrames : f # PageStart(v) => n[f] = m[f]
    BY <2>1, <2>2
  <2>4. \A f \in TableFrames : n[f] = boot_tables[f]
    BY <1>7, <2>2, <2>3, BootEntries, Zenon
  <2>5. TablesKept(n)
    BY <2>3, <2>4, Zenon DEF TablesKept
  <2> QED
    BY <2>5, Zenon DEF n
<1>10. t.free_frames = free
  BY <1>6, <1>8, Zenon DEF Walking
<1>11. Walking(t, free)
  BY <1>8, <1>9, <1>10, Zenon DEF Walking
<1> QED
  BY <1>11, Zenon DEF t

(* The recursion of MapRun, as a condition on a function of the pages      *)
(* mapped.                                                                 *)
MapsTo(g, s, v, phys, n) ==
    g = [i \in 0..n |-> IF i = 0 THEN s ELSE paging_map_page(g[i - 1], v + i - 1, phys + i - 1)]

(* Some function meets it, by the argument of SumsExist. *)
LEMMA MapsExist ==
    ASSUME NEW s, NEW v, NEW phys, NEW n \in Nat PROVE \E g : MapsTo(g, s, v, phys, n)
<1> DEFINE Bad == {k \in Nat : ~ \E g : MapsTo(g, s, v, phys, k)}
<1> SUFFICES ASSUME Bad # {} PROVE FALSE
  BY Zenon
<1>1. Bad \in SUBSET Nat
  BY Zenon
<1>2. PICK k \in Bad : \A y \in Bad : k <= y
  BY <1>1, Least, Zenon
<1>3. k \in Nat
  BY <1>2, Zenon
<1>4. CASE k = 0
  <2> DEFINE g == [i \in 0..0 |-> s]
  <2>1. ASSUME NEW i \in 0..0 PROVE g[i] = IF i = 0 THEN s
                  ELSE paging_map_page(g[i - 1], v + i - 1, phys + i - 1)
    <3>1. i = 0
      OBVIOUS
    <3> QED
      BY <3>1, Zenon
  <2>2. MapsTo(g, s, v, phys, 0)
    <3> HIDE DEF g
    <3>1. g = [i \in 0..0 |-> g[i]]
      BY Zenon DEF g
    <3> QED
      BY <2>1, <3>1, Zenon DEF MapsTo
  <2> HIDE DEF g
  <2> QED
    BY <1>2, <1>4, <2>2, Zenon
<1>5. CASE k # 0
  <2>1. k - 1 \in Nat /\ ~(k <= k - 1)
    BY <1>3, <1>5
  <2>2. k - 1 \notin Bad
    BY <1>2, <2>1, Zenon
  <2>3. PICK g : MapsTo(g, s, v, phys, k - 1)
    BY <2>1, <2>2, Zenon
  <2> DEFINE h == [i \in 0..k |-> IF i = k THEN paging_map_page(g[k - 1], v + k - 1, phys + k - 1)
                                  ELSE g[i]]
  <2>4. ASSUME NEW i \in 0..k
        PROVE  h[i] = IF i = 0 THEN s ELSE paging_map_page(h[i - 1], v + i - 1, phys + i - 1)
    <3>1. CASE i = k
      <4>1. i # 0 /\ k - 1 \in 0..k /\ k - 1 # k
        BY <1>3, <1>5, <3>1
      <4>2. h[i] = paging_map_page(g[k - 1], v + k - 1, phys + k - 1) /\ h[k - 1] = g[k - 1]
        BY <3>1, <4>1, Zenon
      <4> HIDE DEF h
      <4> QED
        BY <3>1, <4>1, <4>2, Zenon
    <3>2. CASE i # k
      <4>1. i \in 0..(k - 1) /\ (i # 0 => i - 1 \in 0..k /\ i - 1 # k)
        BY <1>3, <3>2
      <4>2. g[i] = IF i = 0 THEN s ELSE paging_map_page(g[i - 1], v + i - 1, phys + i - 1)
        BY <2>3, <4>1, Zenon DEF MapsTo
      <4>3. h[i] = g[i] /\ (i # 0 => h[i - 1] = g[i - 1])
        BY <3>2, <4>1, Zenon
      <4> HIDE DEF h
      <4> QED
        BY <4>2, <4>3, Zenon
    <3> QED
      BY <3>1, <3>2, Zenon
  <2>5. MapsTo(h, s, v, phys, k)
    <3> HIDE DEF h
    <3>1. h = [i \in 0..k |-> h[i]]
      BY Zenon DEF h
    <3> QED
      BY <2>4, <3>1, Zenon DEF MapsTo
  <2> HIDE DEF h
  <2> QED
    BY <1>2, <2>5, Zenon
<1> HIDE DEF Bad
<1> QED
  BY <1>4, <1>5, Zenon

(* The loop of heap_expand leaves the tables alone: otherwise there is a   *)
(* first page whose mapping does not.                                      *)
LEMMA MapRunKeeps ==
    ASSUME NEW free, NEW s, Walking(s, free), NEW phys, NEW n \in Nat, NEW v \in Nat,
           v > HeapLast, v + n <= Memory
    PROVE  Walking(MapRun(s, v, phys, n), free)
<1> DEFINE g == CHOOSE h : MapsTo(h, s, v, phys, n)
<1>1. MapsTo(g, s, v, phys, n)
  BY MapsExist, Zenon
<1>2. MapRun(s, v, phys, n) = g[n]
  BY Zenon DEF MapRun, MapsTo
<1> HIDE DEF g
<1>3. \A i \in 0..n : g[i] = IF i = 0 THEN s ELSE paging_map_page(g[i - 1], v + i - 1, phys + i - 1)
  BY <1>1, Zenon DEF MapsTo
<1> DEFINE Bad == {i \in 0..n : ~ Walking(g[i], free)}
<1>4. ASSUME Bad # {} PROVE FALSE
  <2>1. Bad \in SUBSET Nat
    <3>1. 0..n \subseteq Nat
      OBVIOUS
    <3> QED
      BY <3>1, Zenon
  <2>2. PICK k \in Bad : \A y \in Bad : k <= y
    BY <1>4, <2>1, Least, Zenon
  <2>3. k \in 0..n /\ ~ Walking(g[k], free)
    BY <2>2, Zenon
  <2>4. CASE k = 0
    BY <1>3, <2>3, <2>4, Zenon
  <2>5. CASE k # 0
    <3>1. k - 1 \in 0..n /\ ~(k <= k - 1) /\ v + k - 1 \in PhysFrames /\ v + k - 1 > HeapLast
      BY <2>3, <2>5, PagingAssumption DEF PhysFrames
    <3>2. Walking(g[k - 1], free)
      BY <2>2, <3>1, Zenon
    <3>3. g[k] = paging_map_page(g[k - 1], v + k - 1, phys + k - 1)
      BY <1>3, <2>3, <2>5, Zenon
    <3> QED
      BY <2>3, <3>1, <3>2, <3>3, MapPageKeeps, Zenon
  <2> QED
    BY <2>4, <2>5, Zenon
<1>5. n \in 0..n
  OBVIOUS
<1> QED
  BY <1>2, <1>4, <1>5, Zenon

(* The inductive invariant of the page tables. *)
PagingInv ==
    /\ TablesKept(mem)
    /\ free_frames \subseteq PhysFrames \ TableFrames
    /\ granted \subseteq PhysFrames \ TableFrames
    /\ heap_end \in Nat /\ heap_end > HeapLast

(* The growth of the heap keeps it. *)
LEMMA GrowthKeeps ==
    ASSUME PagingInv, NEW n \in 1..MaxPages, heap_expand(n) PROVE PagingInv'
<1>1. /\ TablesKept(mem) /\ free_frames \subseteq PhysFrames \ TableFrames
      /\ granted \subseteq PhysFrames \ TableFrames
      /\ heap_end \in Nat /\ heap_end > HeapLast
  BY Zenon DEF PagingInv
<1>2. heap_end + n - 1 \in PhysFrames /\ granted' = granted
  BY Zenon DEF heap_expand
<1>3. CASE FreeRuns(n) = {}
  <2>1. mem' = mem /\ free_frames' = free_frames /\ heap_end' = heap_end
    BY <1>3, Zenon DEF heap_expand
  <2> QED
    BY <1>1, <1>2, <2>1, Zenon DEF PagingInv
<1>4. CASE FreeRuns(n) # {}
  <2> DEFINE phys == Min(FreeRuns(n))
             run == phys..(phys + n - 1)
             s == pmm_alloc_range(run)
             r == MapRun(s, heap_end, phys, n)
  <2>1. mem' = r.mem /\ free_frames' = r.free_frames /\ heap_end' = heap_end + n
    BY <1>4, Zenon DEF heap_expand
  <2>2. run \subseteq free_frames
    <3>1. FreeRuns(n) \in SUBSET Nat
      <4>1. PhysFrames \subseteq Nat
        BY DEF PhysFrames
      <4> QED
        BY <1>1, <4>1, Zenon DEF FreeRuns
    <3>2. PICK x \in FreeRuns(n) : \A y \in FreeRuns(n) : x <= y
      BY <1>4, <3>1, Least, Zenon
    <3>3. phys = x
      BY <3>1, <3>2, MinIs, Zenon
    <3> HIDE DEF phys
    <3>4. phys \in FreeRuns(n)
      BY <3>2, <3>3, Zenon
    <3> QED
      BY <3>4, Zenon DEF FreeRuns
  <2> HIDE DEF run
  <2>3. Walking(s, free_frames \ run)
    <3> DEFINE m == [f \in PhysFrames |-> IF f \in run THEN [i \in TableIndex |-> NotPresent]
                                          ELSE mem[f]]
    <3>1. s = [mem |-> m, free_frames |-> free_frames \ run, next |-> 0]
      BY Zenon DEF pmm_alloc_range
    <3>2. \A f \in TableFrames : f \in PhysFrames /\ f \notin run
      BY <1>1, <2>2, BootEntries, Zenon
    <3>3. \A f \in TableFrames : m[f] = boot_tables[f]
      BY <1>1, <3>2, Zenon DEF TablesKept
    <3>4. m = [f \in PhysFrames |-> m[f]]
      BY Zenon
    <3> HIDE DEF m, s
    <3>5. s.mem = m /\ s.free_frames = free_frames \ run /\ s.next = 0
      BY <3>1
    <3> QED
      BY <3>1, <3>3, <3>4, <3>5, Zenon DEF Walking, TablesKept
  <2> HIDE DEF s
  <2>4. n \in Nat /\ heap_end + n <= Memory /\ heap_end + n \in Nat /\ heap_end + n > HeapLast
    BY <1>1, <1>2, PagingAssumption DEF PhysFrames
  <2>5. Walking(r, free_frames \ run)
    <3> HIDE DEF phys
    <3> QED
      BY <1>1, <2>3, <2>4, MapRunKeeps, Zenon
  <2> HIDE DEF r
  <2>6. TablesKept(mem') /\ free_frames' \subseteq PhysFrames \ TableFrames
    BY <1>1, <2>1, <2>5, Zenon DEF Walking
  <2>7. heap_end' \in Nat /\ heap_end' > HeapLast
    BY <2>1, <2>4, Zenon
  <2> QED
    BY <1>1, <1>2, <2>6, <2>7, Zenon DEF PagingInv, TablesKept
<1> QED
  BY <1>3, <1>4, Zenon

(* Every page of memory is mapped onto itself, however often the heap has  *)
(* grown: paging_map_page follows the large pages of boot32.asm as if they *)
(* were tables, and the entries it writes are never in a table.            *)
THEOREM IdentityAlwaysKept == PagingSpec => []IdentityKept
<1>1. PagingInit => PagingInv
  <2> SUFFICES ASSUME PagingInit PROVE PagingInv
    BY Zenon
  <2>1. /\ mem = boot_tables /\ free_frames = PhysFrames \ (TableFrames \cup 0..HeapLast)
        /\ heap_end = HeapLast + 1 /\ granted = {}
    BY Zenon DEF PagingInit
  <2>2. heap_end \in Nat /\ heap_end > HeapLast
    BY <2>1, PagingAssumption
  <2>3. boot_tables = [f \in PhysFrames |-> boot_tables[f]]
    BY Zenon DEF boot_tables
  <2> QED
    BY <2>1, <2>2, <2>3, Zenon DEF PagingInv, TablesKept
<1>2. PagingInv /\ [PagingNext]_pagingVars => PagingInv'
  <2> SUFFICES ASSUME PagingInv, [PagingNext]_pagingVars PROVE PagingInv'
    BY Zenon
  <2>1. CASE UNCHANGED pagingVars
    BY <2>1, Zenon DEF pagingVars, PagingInv, TablesKept
  <2>2. CASE pmm_alloc_page
    <3>1. /\ free_frames # {} /\ granted' = granted \cup {Min(free_frames)}
          /\ free_frames' = free_frames \ {Min(free_frames)} /\ mem' = mem /\ heap_end' = heap_end
      BY <2>2, Zenon DEF pmm_alloc_page
    <3>2. Min(free_frames) \in free_frames
      <4>1. free_frames \in SUBSET Nat
        <5>1. PhysFrames \subseteq Nat
          BY DEF PhysFrames
        <5> QED
          BY <5>1, Zenon DEF PagingInv
      <4>2. PICK x \in free_frames : \A y \in free_frames : x <= y
        BY <3>1, <4>1, Least, Zenon
      <4> QED
        BY <4>1, <4>2, MinIs, Zenon
    <3> QED
      BY <3>1, <3>2, Zenon DEF PagingInv, TablesKept
  <2>3. CASE pmm_free_page
    BY <2>3, Zenon DEF pmm_free_page, PagingInv, TablesKept
  <2> QED
    BY <2>1, <2>2, <2>3, GrowthKeeps, Zenon DEF PagingNext
<1>3. PagingInv => IdentityKept
  <2> SUFFICES ASSUME PagingInv, NEW v \in PhysFrames PROVE Translate(v) = v
    BY Zenon DEF IdentityKept
  <2>1. \A f : Points(f).frame = f /\ Large(f).frame = f /\ Large(f).huge
    BY DEF Points, Large
  <2>2. /\ mem[0][PageIndex(3, v)].frame = 1
        /\ mem[1][PageIndex(2, v)].frame = 3 + PageIndex(2, v)
        /\ mem[3 + PageIndex(2, v)][PageIndex(1, v)].huge
        /\ mem[3 + PageIndex(2, v)][PageIndex(1, v)].frame = PageStart(v)
    BY <2>1, WalkKept, Zenon DEF PagingInv
  <2>3. Translate(v) = PageStart(v) + PageIndex(0, v)
    BY <2>2, Zenon DEF Translate
  <2> QED
    BY <2>3, WalkIndices, Zenon
<1> QED
  BY <1>1, <1>2, <1>3, PTL DEF PagingSpec

=============================================================================
