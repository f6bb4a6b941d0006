------------------------------ MODULE Calendar ------------------------------
(***************************************************************************)
(* The two calendars of the kernel: rtc_to_epoch (kernel/time/clock.c),    *)
(* which sets the system clock, and time_to_unix and unix_to_time          *)
(* (kernel/time/bcd2utime.c).  cal walks the days from one of Starts, by   *)
(* the rules of the Gregorian calendar; days counts them from 1970 on.     *)
(***************************************************************************)
EXTENDS Integers, Sequences, FiniteSets, FiniteSetsExt

CONSTANTS
    FirstDay,   \* the first day of 1970
    Starts,     \* the dates a walk may start on, with their day numbers
    WalkDays    \* bound on a walk

ASSUME CalendarAssumption == FirstDay = [year |-> 1970, month |-> 1, day |-> 1]

VARIABLE cal

EPOCH_YEAR == 1970
MonthDays == <<31, 28, 31, 30, 31, 30, 31, 31, 30, 31, 30, 31>>

\* The rules of the calendar, for reference.
LastOfMonth(d) ==
    CASE d.month \in {4, 6, 9, 11} -> 30
      [] d.month = 2 -> IF d.year % 400 = 0 \/ (d.year % 4 = 0 /\ d.year % 100 # 0)
                        THEN 29 ELSE 28
      [] OTHER -> 31
NextDate(d) ==
    IF d.day < LastOfMonth(d) THEN [d EXCEPT !.day = @ + 1]
    ELSE IF d.month < 12 THEN [d EXCEPT !.day = 1, !.month = @ + 1]
    ELSE [year |-> d.year + 1, month |-> 1, day |-> 1]

\* The dates there are, and the number of a date: the days since the first day of 1970.
Dates == {d \in [year : Nat, month : 1..12, day : 1..31] : d.year >= EPOCH_YEAR /\ d.day <= LastOfMonth(d)}
LeapYearsBefore(year) == ((year - 1) \div 4) - ((year - 1) \div 100) + ((year - 1) \div 400)
MonthStart == <<0, 31, 59, 90, 120, 151, 181, 212, 243, 273, 304, 334>>
LeapDay(d) == IF d.month > 2 /\ LastOfMonth([d EXCEPT !.month = 2]) = 29 THEN 1 ELSE 0
DayNumber(d) ==
    365 * (d.year - EPOCH_YEAR) + (LeapYearsBefore(d.year) - LeapYearsBefore(EPOCH_YEAR))
    + MonthStart[d.month] + LeapDay(d) + d.day - 1

ASSUME StartsAssumption == \A s \in Starts : s.date \in Dates /\ s.days = DayNumber(s.date)

is_leap_year(year) == year % 4 = 0 /\ (year % 100 # 0 \/ year % 400 = 0)
YearDays(year) == IF is_leap_year(year) THEN 366 ELSE 365

\* The sum of YearDays over the years from 1970 up to year.
DaysBefore(year) ==
    365 * Cardinality(EPOCH_YEAR..(year - 1)) + Cardinality({y \in EPOCH_YEAR..(year - 1) : is_leap_year(y)})

\* What the loop over the months has added up to after month n of a year of these months.
DaysOver(months, n) ==
    LET sum[m \in 0..12] == IF m = 0 THEN 0 ELSE sum[m - 1] + months[m]
    IN  sum[n]

\* rtc_to_epoch before it turns days into seconds.  The leap day is added once
\* February is past.
rtc_months_Jan(year) ==
    [m \in 1..12 |-> MonthDays[m] + IF m = 1 /\ is_leap_year(year) THEN 1 ELSE 0]
rtc_months(year) ==
    [m \in 1..12 |-> MonthDays[m] + IF m = 2 /\ is_leap_year(year) THEN 1 ELSE 0]
rtc_to_days(year, month, day) ==
    DaysBefore(year) + DaysOver(rtc_months(year), month - 1) + day - 1

days_in_month(year, month) ==
    IF month = 2 /\ is_leap_year(year) THEN 29 ELSE MonthDays[month]
unix_months(year) == [m \in 1..12 |-> days_in_month(year, m)]

time_to_unix(d) ==
    DaysBefore(d.year) + DaysOver(unix_months(d.year), d.month - 1) + d.day - 1

\* The loops of unix_to_time take years off the days, each at least 365 of them, then
\* months, while the next one fits: the number of rounds of each.
YearsTaken(days) ==
    Min({k \in 0..(days \div 365) : days - DaysBefore(EPOCH_YEAR + k) < YearDays(EPOCH_YEAR + k)})
MonthsTaken(year, days) ==
    Min({m \in 0..11 : days - DaysOver(unix_months(year), m) < days_in_month(year, m + 1)})

unix_to_time(days) ==
    LET year   == EPOCH_YEAR + YearsTaken(days)
        rest   == days - DaysBefore(year)
        months == MonthsTaken(year, rest)
    IN  [year |-> year, month |-> months + 1,
         day |-> rest - DaysOver(unix_months(year), months) + 1]

CalendarInit == cal = [date |-> FirstDay, days |-> 0, walked |-> 0]
CalendarNext ==
    \/ /\ cal.walked < WalkDays
       /\ cal' = [date |-> NextDate(cal.date), days |-> cal.days + 1, walked |-> cal.walked + 1]
    \/ /\ cal.walked = 0
       /\ \E d \in Starts : cal' = [date |-> d.date, days |-> d.days, walked |-> 0]

CalendarSpec == CalendarInit /\ [][CalendarNext]_cal

(***************************************************************************)
(* Properties.                                                             *)
(***************************************************************************)

\* rtc_to_epoch numbers the days one after the other, leap years and ends of
\* centuries included.
EpochCountsDays == rtc_to_days(cal.date.year, cal.date.month, cal.date.day) = cal.days

\* time_to_unix agrees with it, and unix_to_time takes every day back to its date.
UnixTimeRoundTrip ==
    time_to_unix(cal.date) = cal.days /\ unix_to_time(cal.days) = cal.date

\* The three conversions agree with the calendar and with one another.
CalendarsAgree == EpochCountsDays /\ UnixTimeRoundTrip
=============================================================================
