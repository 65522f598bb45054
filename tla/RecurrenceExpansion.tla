-------------------------- MODULE RecurrenceExpansion --------------------------
(***************************************************************************)
(* What one FREQ period of a recurrence rule expands to: the BY-* filters  *)
(* of rrule/next.go.  A rule is the record Rule of rrule/rrule.go; its     *)
(* lists are sequences, in the order and with the repetitions of the wire, *)
(* and an entry of byDay is <<ordinal, weekday>>.                          *)
(***************************************************************************)
EXTENDS Gregorian, Sequences, SequencesExt

\* FREQ alone, with the defaults ParseRRule starts from.
Every(freq) ==
  [freq |-> freq, interval |-> 1, until |-> ZeroTime, count |-> 0,
   byDay |-> <<>>, byMonth |-> <<>>, byMonthDay |-> <<>>, byHour |-> <<>>,
   byMinute |-> <<>>, bySecond |-> <<>>, byYearDay |-> <<>>,
   byWeekNo |-> <<>>, bySetPos |-> <<>>, wkst |-> 1]

CheckExpandable(r) == r.freq # "INVALID" /\ r.interval >= 1

-----------------------------------------------------------------------------
\* The elements of the sequences Op(s[1]), Op(s[2]), ..., one after the other.
FlatMap(Op(_), s) == FlattenSeq([i \in DOMAIN s |-> Op(s[i])])

Numbers(n) == [i \in 1..n |-> i]

\* These numbers in ascending order.
Ascending(numbers) ==
  [k \in 1..Cardinality(numbers) |->
     CHOOSE n \in numbers : Cardinality({m \in numbers : m < n}) = k - 1]

\* The elements of s at these places, in their order.
Picked(s, places) ==
  LET at == Ascending(places) IN [k \in DOMAIN at |-> s[at[k]]]

Admits(list, x) == list = <<>> \/ x \in ToSet(list)

ByOrDefault(list, default) == IF list = <<>> THEN <<default>> ELSE list

\* An entry of a list that counts from 1, or from the end when negative.
FromEither(e, size) == IF e > 0 THEN e ELSE size + e + 1

MatchesByMonth(r, n) == Admits(r.byMonth, Month(n))

MatchesByMonthDay(r, n) ==
  \/ r.byMonthDay = <<>>
  \/ \E md \in ToSet(r.byMonthDay) :
       Day(n) = FromEither(md, DaysInMonth(Year(n), Month(n)))

MatchesByDay(r, n) ==
  r.byDay = <<>> \/ \E bd \in ToSet(r.byDay) : bd[2] = Weekday(n)

\* In months the ordinal counts weekdays from either end of the month.
MatchesByDayMonthly(r, n) ==
  \/ r.byDay = <<>>
  \/ \E bd \in ToSet(r.byDay) :
       /\ bd[2] = Weekday(n)
       /\ \/ bd[1] = 0
          \/ bd[1] = (Day(n) - 1) \div 7 + 1
          \/ -bd[1] = (DaysInMonth(Year(n), Month(n)) - Day(n)) \div 7 + 1

-----------------------------------------------------------------------------
CrossTimeOfDay(r, dtstart, n) ==
  FlatMap(LAMBDA h :
    FlatMap(LAMBDA m :
      FlatMap(LAMBDA s : <<TimeOf(n, h, m, s)>>,
              ByOrDefault(r.bySecond, Second(dtstart))),
      ByOrDefault(r.byMinute, Minute(dtstart))),
    ByOrDefault(r.byHour, Hour(dtstart)))

OnDays(r, dtstart, days) ==
  FlatMap(LAMBDA n : CrossTimeOfDay(r, dtstart, n), days)

\* What every frequency up to DAILY tests of the day of its base.
DayAdmitted(r, n) ==
  MatchesByMonth(r, n) /\ MatchesByMonthDay(r, n) /\ MatchesByDay(r, n)

ExpandMinutely(r, base) ==
  IF /\ DayAdmitted(r, Date(base))
     /\ Admits(r.byHour, Hour(base)) /\ Admits(r.byMinute, Minute(base))
  THEN FlatMap(LAMBDA s :
                 <<TimeOf(Date(base), Hour(base), Minute(base), s)>>,
               ByOrDefault(r.bySecond, Second(base)))
  ELSE <<>>

ExpandHourly(r, base) ==
  IF DayAdmitted(r, Date(base)) /\ Admits(r.byHour, Hour(base))
  THEN FlatMap(LAMBDA m :
         FlatMap(LAMBDA s : <<TimeOf(Date(base), Hour(base), m, s)>>,
                 ByOrDefault(r.bySecond, Second(base))),
         ByOrDefault(r.byMinute, Minute(base)))
  ELSE <<>>

ExpandDaily(r, base, dtstart) ==
  IF DayAdmitted(r, Date(base))
  THEN CrossTimeOfDay(r, dtstart, Date(base))
  ELSE <<>>

StartOfWeek(n, wkst) == n - ((Weekday(n) - wkst) % 7)

Week(start) == [i \in 1..7 |-> start + i - 1]

ExpandWeekly(r, base, dtstart) ==
  OnDays(r, dtstart,
         SelectSeq(IF r.byDay = <<>>
                   THEN <<Date(base)>>
                   ELSE Week(StartOfWeek(Date(base), r.wkst)),
                   LAMBDA n : DayAdmitted(r, n)))

\* The days of month m, as dates, before the BYDAY filter.
MonthDayCandidates(r, y, m, dtstart) ==
  LET size == DaysInMonth(y, m)
      days == IF r.byMonthDay # <<>>
              THEN [i \in DOMAIN r.byMonthDay |->
                      FromEither(r.byMonthDay[i], size)]
              ELSE IF r.byDay # <<>> THEN Numbers(size)
              ELSE <<Day(Date(dtstart))>>
      real == SelectSeq(days, LAMBDA d : d \in 1..size)
  IN  [i \in DOMAIN real |-> DateOf(y, m, real[i])]

InMonth(r, y, m, dtstart) ==
  OnDays(r, dtstart, SelectSeq(MonthDayCandidates(r, y, m, dtstart),
                               LAMBDA n : MatchesByDayMonthly(r, n)))

ExpandMonthly(r, base, dtstart) ==
  IF MatchesByMonth(r, Date(base))
  THEN InMonth(r, Year(Date(base)), Month(Date(base)), dtstart)
  ELSE <<>>

DaysInYear(y) == NewYear(y + 1) - NewYear(y)

\* The days BYYEARDAY or BYWEEKNO names in year y, filtered by BYMONTH and
\* BYDAY, whose ordinals and the list BYMONTHDAY are not looked at.
NamedDays(r, dtstart, days) ==
  OnDays(r, dtstart,
         SelectSeq(days, LAMBDA n : MatchesByMonth(r, n) /\ MatchesByDay(r, n)))

ExpandYearlyByYearDay(r, y, dtstart) ==
  LET size == DaysInYear(y)
      named == SelectSeq([i \in DOMAIN r.byYearDay |->
                            FromEither(r.byYearDay[i], size)],
                         LAMBDA d : d \in 1..size)
  IN  NamedDays(r, dtstart,
                [i \in DOMAIN named |-> NewYear(y) + named[i] - 1])

\* Week 1 of a year holds its January 4th.
FirstWeek(y, wkst) == StartOfWeek(DateOf(y, 1, 4), wkst)

WeeksInYear(y, wkst) == (FirstWeek(y + 1, wkst) - FirstWeek(y, wkst)) \div 7

ExpandYearlyByWeekNo(r, y, dtstart) ==
  LET weeks == WeeksInYear(y, r.wkst)
      named == SelectSeq([i \in DOMAIN r.byWeekNo |->
                            FromEither(r.byWeekNo[i], weeks)],
                         LAMBDA w : w \in 1..weeks)
  IN  NamedDays(r, dtstart,
                FlatMap(LAMBDA w : Week(FirstWeek(y, r.wkst) + 7 * (w - 1)),
                        named))

ExpandYearly(r, base, dtstart) ==
  LET y == Year(Date(base))
  IN  CASE r.byYearDay # <<>> -> ExpandYearlyByYearDay(r, y, dtstart)
        [] r.byYearDay = <<>> /\ r.byWeekNo # <<>> ->
             ExpandYearlyByWeekNo(r, y, dtstart)
        [] OTHER ->
             FlatMap(LAMBDA m : InMonth(r, y, m, dtstart),
                     ByOrDefault(r.byMonth, Month(Date(dtstart))))

Expand(r, base, dtstart) ==
  CASE r.freq = "MINUTELY" -> ExpandMinutely(r, base)
    [] r.freq = "HOURLY"   -> ExpandHourly(r, base)
    [] r.freq = "DAILY"    -> ExpandDaily(r, base, dtstart)
    [] r.freq = "WEEKLY"   -> ExpandWeekly(r, base, dtstart)
    [] r.freq = "MONTHLY"  -> ExpandMonthly(r, base, dtstart)
    [] r.freq = "YEARLY"   -> ExpandYearly(r, base, dtstart)

-----------------------------------------------------------------------------
Sorted(times) == SortSeq(times, LAMBDA a, b : a < b)

\* Positions that lie outside the period, or twice on one occurrence, are
\* dropped.
ApplyBySetPos(occs, setpos) ==
  LET picked == SelectSeq(Numbers(Len(occs)), LAMBDA i :
                  \E p \in ToSet(setpos) : i = FromEither(p, Len(occs)))
  IN  [j \in DOMAIN picked |-> occs[picked[j]]]

PeriodOccurrences(r, base, dtstart) ==
  LET occs == Sorted(Expand(r, base, dtstart))
  IN  IF r.bySetPos = <<>> THEN occs ELSE ApplyBySetPos(occs, r.bySetPos)

\* Slip: AddDate on the day of the month overflows into the month after.
MonthOverflows(n, months) == DateOf(Year(n), Month(n) + months, Day(n))

\* Months step to their first day, which every month has; the expansion takes
\* the day it needs from dtstart.  Years do alike.
MonthlyAdvance(n, months) == DateOf(Year(n), Month(n) + months, 1)

YearlyAdvance(n, years) == NewYear(Year(n) + years)

\* The base of the next period.
Advance(r, base) ==
  LET at(n) == SecondsPerDay * n + Clock(base)
  IN  CASE r.freq = "MINUTELY" -> base + 60 * r.interval
        [] r.freq = "HOURLY"   -> base + 3600 * r.interval
        [] r.freq = "DAILY"    -> at(Date(base) + r.interval)
        [] r.freq = "WEEKLY"   -> at(Date(base) + 7 * r.interval)
        [] r.freq = "MONTHLY"  -> at(MonthlyAdvance(Date(base), r.interval))
        [] r.freq = "YEARLY"   -> at(YearlyAdvance(Date(base), r.interval))
=============================================================================
