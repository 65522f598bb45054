------------------------------- MODULE Gregorian -------------------------------
(***************************************************************************)
(* Go's time package as rrule/ uses it, in UTC and to the second.  A time  *)
(* is the number of seconds since 2000-01-01T00:00:00Z, a Saturday, and a  *)
(* date the number of days since then, 0 being that Saturday.              *)
(***************************************************************************)
EXTENDS Integers

SecondsPerDay == 86400

\* time.Time{}: the first instant of the year 1, before every other time.
ZeroTime == -2000000000

LeapYear(y) == y % 4 = 0 /\ (y % 100 # 0 \/ y % 400 = 0)

\* The date of January 1st of year y.
NewYear(y) ==
  LET p == y - 2000
  IN  365 * p + (p + 3) \div 4 - (p + 99) \div 100 + (p + 399) \div 400

\* The days of a common year before month m.
Preceding == <<0, 31, 59, 90, 120, 151, 181, 212, 243, 273, 304, 334, 365>>

DaysBefore(y, m) == Preceding[m] + (IF m > 2 /\ LeapYear(y) THEN 1 ELSE 0)

DaysInMonth(y, m) == DaysBefore(y, m + 1) - DaysBefore(y, m)

\* time.Date normalises months and days outside their range.
DateOf(y, m, d) ==
  LET yy == y + (m - 1) \div 12
      mm == ((m - 1) % 12) + 1
  IN  NewYear(yy) + DaysBefore(yy, mm) + d - 1

\* time.Date at a clock time, which it normalises too.
TimeOf(date, h, m, s) == SecondsPerDay * date + 3600 * h + 60 * m + s

Date(t)    == t \div SecondsPerDay
Clock(t)   == t % SecondsPerDay
Hour(t)    == Clock(t) \div 3600
Minute(t)  == (t \div 60) % 60
Second(t)  == t % 60

Year(n) ==
  CHOOSE y \in (2000 + n \div 366 - 1)..(2000 + n \div 365 + 1) :
    NewYear(y) <= n /\ n < NewYear(y + 1)

YearDay(n) == n - NewYear(Year(n)) + 1

Month(n) ==
  LET y == Year(n)
      days == n - NewYear(y)
  IN  CHOOSE m \in 1..12 : DaysBefore(y, m) <= days /\ days < DaysBefore(y, m + 1)

Day(n) ==
  LET y == Year(n)
      days == n - NewYear(y)
  IN  CHOOSE d \in 1..31 :
        \E m \in 1..12 : /\ days = DaysBefore(y, m) + d - 1
                         /\ days < DaysBefore(y, m + 1)

\* SU = 0 .. SA = 6, in time.Weekday and in rrule.Weekday.
Weekday(n) == (n + 6) % 7
=============================================================================
