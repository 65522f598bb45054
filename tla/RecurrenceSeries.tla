--------------------------- MODULE RecurrenceSeries ---------------------------
(***************************************************************************)
(* The times a recurrence rule names, as a set: the reference the          *)
(* evaluators are compared with.  Nothing here is computed period by       *)
(* period.  A slot is a minute, an hour or a day, as fine as the frequency *)
(* needs; whether a rule admits a slot is a predicate on the slot, and in  *)
(* an admitted slot the rule names fixed offsets.                          *)
(***************************************************************************)
EXTENDS Gregorian, Sequences, SequencesExt, FiniteSets

SlotSize(rule) ==
  CASE rule.freq = "MINUTELY" -> 60
    [] rule.freq = "HOURLY"   -> 3600
    [] OTHER                  -> SecondsPerDay

Listed(list, default) == IF list = <<>> THEN {default} ELSE ToSet(list)

Offsets(rule, start) ==
  LET hours   == IF rule.freq \in {"MINUTELY", "HOURLY"} THEN {0}
                 ELSE Listed(rule.byHour, Hour(start))
      minutes == IF rule.freq = "MINUTELY" THEN {0}
                 ELSE Listed(rule.byMinute, Minute(start))
  IN  {3600 * h + 60 * m + s : h \in hours, m \in minutes,
                               s \in Listed(rule.bySecond, Second(start))}

\* A list names x among 1..size, from the front or from the end.
Names(list, x, size) == list = <<>> \/ {x, x - size - 1} \cap ToSet(list) # {}

\* The Thursday-like middle of a week tells the year the week belongs to.
MidWeek(n, wkst) == n - ((Weekday(n) - wkst) % 7) + 3

ByWeeks(rule) == rule.byYearDay = <<>> /\ rule.byWeekNo # <<>>

\* The number of the period a slot is in.
Period(rule, slot) ==
  LET n == Date(slot)
  IN  CASE rule.freq \in {"MINUTELY", "HOURLY", "DAILY"} ->
             slot \div SlotSize(rule)
        [] rule.freq = "WEEKLY"  -> MidWeek(n, rule.wkst) \div 7
        [] rule.freq = "MONTHLY" -> 12 * Year(n) + Month(n)
        [] rule.freq = "YEARLY"  ->
             Year(IF ByWeeks(rule) THEN MidWeek(n, rule.wkst) ELSE n)

\* Months are looked into by MONTHLY, and by YEARLY unless it names days or
\* weeks of the year.
ByMonths(rule) ==
  \/ rule.freq = "MONTHLY"
  \/ rule.freq = "YEARLY" /\ rule.byYearDay = <<>> /\ rule.byWeekNo = <<>>

NamesWeekday(rule, n, d, size) ==
  \E bd \in ToSet(rule.byDay) :
    /\ bd[2] = Weekday(n)
    /\ \/ bd[1] = 0 \/ ~ByMonths(rule)
       \/ bd[1] > 0 /\ d \in 7 * bd[1] - 6 .. 7 * bd[1]
       \/ bd[1] < 0 /\ size - d \in -7 * bd[1] - 7 .. -7 * bd[1] - 1

NamesWeek(rule, n) ==
  LET mid == MidWeek(n, rule.wkst)
      last == MidWeek(NewYear(Year(mid) + 1) + 3, rule.wkst) - 7
  IN  Names(rule.byWeekNo, (YearDay(mid) - 1) \div 7 + 1,
            (YearDay(last) - 1) \div 7 + 1)

AdmitsDay(rule, start, n) ==
  LET y == Year(n)
      m == Month(n)
      d == Day(n)
      size == DaysInMonth(y, m)
  IN  /\ rule.byMonth # <<>> => m \in ToSet(rule.byMonth)
      /\ rule.freq = "YEARLY" /\ ByMonths(rule) /\ rule.byMonth = <<>> =>
           m = Month(Date(start))
      /\ rule.freq # "YEARLY" \/ ByMonths(rule) =>
           Names(rule.byMonthDay, d, size)
      /\ rule.byDay # <<>> => NamesWeekday(rule, n, d, size)
      /\ rule.byDay = <<>> =>
           /\ rule.freq = "WEEKLY" => Weekday(n) = Weekday(Date(start))
           /\ ByMonths(rule) /\ rule.byMonthDay = <<>> => d = Day(Date(start))
      /\ Names(rule.byYearDay, YearDay(n), NewYear(y + 1) - NewYear(y))
      /\ ByWeeks(rule) => NamesWeek(rule, n)

AdmitsSlot(rule, start, slot) ==
  LET steps == Period(rule, slot) - Period(rule, start)
  IN  /\ steps >= 0 /\ steps % rule.interval = 0
      /\ rule.freq = "MINUTELY" /\ rule.byMinute # <<>> =>
           Minute(slot) \in ToSet(rule.byMinute)
      /\ rule.freq \in {"MINUTELY", "HOURLY"} /\ rule.byHour # <<>> =>
           Hour(slot) \in ToSet(rule.byHour)
      /\ AdmitsDay(rule, start, Date(slot))

SlotsBetween(rule, lo, hi) ==
  {SlotSize(rule) * k : k \in lo \div SlotSize(rule) .. hi \div SlotSize(rule)}

\* The longest period, in seconds.
LongestPeriod(rule) ==
  CASE rule.freq = "MINUTELY" -> 60
    [] rule.freq = "HOURLY"   -> 3600
    [] rule.freq = "DAILY"    -> SecondsPerDay
    [] rule.freq = "WEEKLY"   -> 7 * SecondsPerDay
    [] rule.freq = "MONTHLY"  -> 31 * SecondsPerDay
    [] rule.freq = "YEARLY"   -> 372 * SecondsPerDay

At(rule, start, slot) == {slot + o : o \in Offsets(rule, start)}

KeptPositions(rule, some, all) ==
  {t \in some : Names(rule.bySetPos, Cardinality({u \in all : u <= t}),
                      Cardinality(all))}

\* What the rule names in one of its slots: BYSETPOS keeps positions among what
\* it names in the period of the slot.
KeptIn(rule, start, slot, slots) ==
  KeptPositions(rule, At(rule, start, slot),
    UNION {At(rule, start, x) :
             x \in {y \in slots : Period(rule, y) = Period(rule, slot)}})

NamedIn(rule, start, slots) == UNION {KeptIn(rule, start, s, slots) : s \in slots}

\* The slots a rule admits around start and hi.
Admitted(rule, start, hi) ==
  {x \in SlotsBetween(rule, start - LongestPeriod(rule), hi + LongestPeriod(rule)) :
     AdmitsSlot(rule, start, x)}

\* The occurrences from start to hi, COUNT and UNTIL aside.
Series(rule, start, hi) ==
  {t \in NamedIn(rule, start, Admitted(rule, start, hi)) : start <= t /\ t <= hi}

FromBothEnds(list, x, size) == {x, x - size - 1} \subseteq ToSet(list)

\* A rule names a time twice when it counts a day from both ends of a month or a
\* year, or has the second 60 beside the minute after it.
NamesTwice(rule, start, hi) ==
  LET slots == Admitted(rule, start, hi)
  IN  \E s \in slots :
        LET n == Date(s)
            y == Year(n)
        IN  \/ /\ ByMonths(rule)
               /\ FromBothEnds(rule.byMonthDay, Day(n), DaysInMonth(y, Month(n)))
            \/ /\ rule.freq = "YEARLY"
               /\ FromBothEnds(rule.byYearDay, YearDay(n), NewYear(y + 1) - NewYear(y))
            \/ \E next \in {s + SlotSize(rule)} \cap slots :
                 At(rule, start, s) \cap At(rule, start, next) # {}

\* The week of start belongs to another year than start.
StartsInAnothersWeek(rule, start) ==
  rule.freq = "YEARLY" /\ ByWeeks(rule) /\ Period(rule, start) # Year(Date(start))

\* The occurrences up to hi.
RuleTimes(rule, start, hi) ==
  LET all == Series(rule, start,
                    IF rule.until # ZeroTime /\ rule.until < hi
                    THEN rule.until ELSE hi)
  IN  {t \in all :
         rule.count > 0 => Cardinality({u \in all : u <= t}) <= rule.count}
=============================================================================
