--------------------------- MODULE MCRecurrenceWalk ---------------------------
(* Rules, anchors and arguments for RecurrenceWalk. *)
EXTENDS RecurrenceWalk

\* BYMONTH=2;BYMONTHDAY=30 never fires; 23:59:60 is the next day's midnight.  Three
\* name a time twice: BYMONTHDAY=31,-1, BYYEARDAY=366,-1, and BYSECOND=60,0 minute
\* by minute.
MCRules ==
  {Every("MINUTELY"),
   [Every("MINUTELY") EXCEPT !.byMinute = <<0, 1>>, !.byDay = << <<0, 1>> >>],
   [Every("MINUTELY") EXCEPT !.bySecond = <<60, 0>>, !.interval = 2],
   [Every("HOURLY") EXCEPT !.byMinute = <<59, 0>>, !.byHour = <<23, 0, 1>>],
   [Every("HOURLY") EXCEPT !.byMonth = <<12>>, !.interval = 3],
   [Every("DAILY") EXCEPT !.interval = 2],
   [Every("DAILY") EXCEPT !.byMonthDay = <<-1, 1>>, !.byMonth = <<1, 12>>],
   [Every("DAILY") EXCEPT !.byHour = <<23, 0>>, !.byMinute = <<59, 0>>,
                          !.bySecond = <<60, 0>>, !.interval = 2],
   Every("WEEKLY"),
   [Every("WEEKLY") EXCEPT !.byDay = << <<0, 0>>, <<0, 1>> >>, !.interval = 2],
   [Every("WEEKLY") EXCEPT !.byDay = << <<0, 0>>, <<0, 1>> >>, !.interval = 2,
                           !.wkst = 0],
   [Every("WEEKLY") EXCEPT !.byDay = << <<0, 1>>, <<0, 3>>, <<0, 5>> >>,
                           !.bySetPos = <<-1, 1>>],
   Every("MONTHLY"),
   [Every("MONTHLY") EXCEPT !.byMonthDay = <<31, -2>>],
   [Every("MONTHLY") EXCEPT !.byMonthDay = <<31, -1>>],
   [Every("YEARLY") EXCEPT !.byYearDay = <<366, -1>>],
   [Every("MINUTELY") EXCEPT !.bySecond = <<60, 0>>],
   [Every("MONTHLY") EXCEPT !.byDay = << <<-1, 5>>, <<5, 3>> >>],
   [Every("MONTHLY") EXCEPT !.byDay = [i \in 1..5 |-> <<0, i>>],
                            !.bySetPos = <<-1>>],
   [Every("MONTHLY") EXCEPT !.byMonth = <<2, 12>>, !.byMonthDay = <<30>>,
                            !.interval = 2],
   Every("YEARLY"),
   [Every("YEARLY") EXCEPT !.byMonth = <<2>>, !.byMonthDay = <<30>>],
   [Every("YEARLY") EXCEPT !.byMonth = <<12, 1>>, !.byDay = << <<-1, 0>> >>],
   [Every("YEARLY") EXCEPT !.byYearDay = <<-1, 366, 1>>,
                           !.byMonth = <<1>>],
   [Every("YEARLY") EXCEPT !.byWeekNo = <<53, 1>>, !.byDay = << <<0, 5>> >>],
   [Every("YEARLY") EXCEPT !.byWeekNo = <<-1>>, !.wkst = 0, !.interval = 2,
                           !.bySetPos = <<1, -1>>]}

\* Leap day; the end of a week, a month and a year; a Friday in week 53.
MCAnchors ==
  {TimeOf(DateOf(2024, 2, 29), 23, 59, 30), TimeOf(DateOf(2023, 12, 31), 0, 0, 0),
   TimeOf(DateOf(2021, 1, 1), 10, 0, 0)}

\* Without and with a bound.
Bounded(rule, start) ==
  {rule, [rule EXCEPT !.count = 3],
         [rule EXCEPT !.until = start + 2 * LongestPeriod(rule)]}

None == [Every("NONE") EXCEPT !.freq = "NONE"]

\* A call without the arguments that its operation does not have.
Ask(op, rule, start) ==
  [op |-> op, rule |-> rule, dtstart |-> start, limit |-> 1, start |-> ZeroTime,
   end |-> start + 1, after |-> start, rdate |-> <<>>, exdate |-> <<>>]

Arguments(c) ==
  LET s == c.dtstart
      p == LongestPeriod(c.rule)
      sets == {[c EXCEPT !.rdate = <<s + p, s - 5, s + p, s + 9 * p>>,
                         !.exdate = <<s, s + 2 * p>>]}
      added == IF c.op \in SetOps THEN sets ELSE {c}
  IN  CASE c.op \in LimitOps ->
             {[d EXCEPT !.limit = n] : d \in added, n \in {0, 2, 4}}
        [] c.op \in WindowOps ->
             {[d EXCEPT !.start = w[1], !.end = w[2]] :
                d \in added,
                w \in {<<s - p, s + p>>, <<s + 1, s + 2 * p + 1>>}}
        [] OTHER ->
             {[c EXCEPT !.after = a] : a \in {s - 1, s, s + 2 * p}}

Ops == LimitOps \cup WindowOps \cup {"NextOccurrence"}

\* Calls of which the arguments are refused, and Sets without a rule.
Odd(start) ==
  {[Ask("Occurrences", Every("DAILY"), start) EXCEPT !.limit = -1],
   [Ask("Between", Every("DAILY"), start) EXCEPT !.end = ZeroTime],
   Ask("NextOccurrence", [Every("DAILY") EXCEPT !.interval = 0], start),
   Ask("Set.Occurrences", None, ZeroTime)}
    \cup UNION {{[Ask(op, None, start) EXCEPT
                    !.limit = n, !.start = start - 9, !.end = start + 9,
                    !.rdate = <<start + 9, start - 5, start, start + 7>>,
                    !.exdate = <<start + 7>>] :
                  op \in SetOps} : n \in {2, 3}}

\* Nothing promises a year to count an INTERVAL from when DTSTART is in a week of
\* another year.
Asked(start) ==
  UNION {Bounded(x, start) :
           x \in {y \in MCRules : y.interval = 1 \/ ~StartsInAnothersWeek(y, start)}}

MCCalls ==
  UNION {UNION {Arguments(Ask(op, rule, start)) : op \in Ops, rule \in Asked(start)}
           \cup Odd(start) : start \in MCAnchors}
=============================================================================
