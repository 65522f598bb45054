--------------------------------- MODULE Zones ---------------------------------
(***************************************************************************)
(* Wall times and the VTIMEZONE components that give them an offset:       *)
(* time_tzid.go and the readers of component_time.go.  An instant read     *)
(* from a wall time carries a fixed offset, whatever the zone does later,  *)
(* so adding days to one adds multiples of 24 hours, as it does in UTC.    *)
(***************************************************************************)
EXTENDS CalendarData

SubsByType(tz, type) == Picked(tz.sub, {i \in DOMAIN tz.sub : tz.sub[i].type = type})

\* parseYearlyRRULE; a part may be repeated and the last one counts.
YearlyPart(part) ==
  CASE Key(part) = "FREQ" -> List(part) = <<"YEARLY">>
    [] Key(part) = "BYMONTH" -> Len(List(part)) = 1 /\ List(part)[1] \in 1..12
    [] Key(part) = "BYDAY" -> Len(List(part)) = 1 /\ List(part)[1][1] # 0
    [] Key(part) = "INTERVAL" -> List(part) = <<1>>
    [] OTHER -> FALSE

Yearly(wire) ==
  /\ \A part \in ToSet(wire) : YearlyPart(part)
  /\ \E part \in ToSet(wire) : Key(part) = "FREQ"

LastPart(wire, key, default) ==
  FoldLeft(LAMBDA v, part : IF Key(part) = key THEN List(part)[1] ELSE v, default, wire)

ReadableRule(c) ==
  /\ \A name \in {"TZOFFSETTO", "TZOFFSETFROM"} :
       \E p \in Get(c, name) : p.value[1] = "offset"
  /\ \E p \in Get(c, "DTSTART") : p.value[1] = "wall"
  /\ \A p \in Get(c, "RRULE") : p.value[1] = "rule" /\ Yearly(p.value[2])

\* A rule without an RRULE has month 0 and a BYDAY of zeros.
ParseTZRule(c) ==
  LET wire == IF Get(c, "RRULE") = {} THEN <<>> ELSE GetAll(c, "RRULE")[1].value[2]
      byDay == LastPart(wire, "BYDAY", <<0, 0>>)
  IN  [offset |-> GetAll(c, "TZOFFSETTO")[1].value[2], yearly |-> wire # <<>>,
       month |-> LastPart(wire, "BYMONTH", 0), week |-> byDay[1],
       weekday |-> byDay[2], clock |-> Clock(GetAll(c, "DTSTART")[1].value[2])]

\* loadTZRules: no rules, the standard rule, or that and the daylight rule.
LoadTZRules(tz) ==
  LET standards == SubsByType(tz, "STANDARD")
      daylights == SubsByType(tz, "DAYLIGHT")
      rules(cs) == IF \A c \in ToSet(cs) : ReadableRule(c)
                   THEN [i \in DOMAIN cs |-> ParseTZRule(cs[i])] ELSE <<>>
      paired(rs) == IF Len(rs) = 2 => rs[1].yearly /\ rs[2].yearly THEN rs ELSE <<>>
  IN  IF Len(standards) > 1 \/ Len(daylights) > 1 THEN <<>>
      ELSE paired(rules(standards \o daylights))

NthWeekdayOfMonth(y, m, wd, n) ==
  LET first == DateOf(y, m, 1)
      last == DateOf(y, m + 1, 0)
  IN  IF n > 0 THEN 1 + ((wd - Weekday(first)) % 7) + 7 * (n - 1)
      ELSE Day(last) - ((Weekday(last) - wd) % 7) + 7 * (n + 1)

TransitionAt(y, r) ==
  TimeOf(DateOf(y, r.month, NthWeekdayOfMonth(y, r.month, r.weekday, r.week)),
         0, 0, r.clock)

\* The offset in seconds for a wall time.
SelectActiveRule(wall, rules) ==
  LET y == Year(Date(wall))
  IN  IF /\ Len(rules) = 2
         /\ TransitionAt(y, rules[2]) <= wall
         /\ wall < TransitionAt(y, rules[1])
      THEN rules[2].offset ELSE rules[1].offset

FindVTimezone(tzid, cal) ==
  First(Picked(cal, {i \in DOMAIN cal :
    /\ cal[i].type = "VTIMEZONE"
    /\ \E p \in Get(cal[i], "TZID") : p.value = <<"text", tzid>>}))

ParseTimeWithTZID(value, tzid, cal) ==
  IF tzid = NoText \/ value[1] # "wall" THEN {}
  ELSE {value[2] - SelectActiveRule(value[2], rules) :
          rules \in {LoadTZRules(tz) : tz \in FindVTimezone(tzid, cal)} \ {<<>>}}

ParseTime(value) == IF value[1] = "utc" THEN {value[2]} ELSE {}

\* DTSTART, DTEND, DUE and COMPLETED of a component in a calendar.
TimeProp(c, name, cal) ==
  UNION {IF HasValueDate(p) THEN {}
         ELSE IF ParamValue(p, "TZID") = {} THEN ParseTime(p.value)
         ELSE UNION {ParseTimeWithTZID(p.value, tzid, cal) :
                       tzid \in ParamValue(p, "TZID")} :
         p \in Get(c, name)}

-----------------------------------------------------------------------------
\* Dates are fields that a caller chooses, and none is checked against its month.
ZeroDate == [year |-> 0, month |-> 0, day |-> 0]

\* DateOf and ParseDate: the fields of a day.
Fields(n) == [year |-> Year(n), month |-> Month(n), day |-> Day(n)]

IsDay(d) ==
  /\ d.year \in 0..9999 /\ d.month \in 1..12
  /\ d.day \in 1..DaysInMonth(d.year, d.month)

\* Fields with the width of a date are written, as text when no day has them;
\* wider ones as nothing.
FormatDate(d) ==
  IF IsDay(d) THEN <<"date", DateOf(d.year, d.month, d.day)>>
  ELSE <<"text", IF d.year \in 0..9999 /\ d.month \in 1..12 /\ d.day \in 1..31
                 THEN "no day" ELSE NoText>>

ParseDate(value) == IF value[1] = "date" THEN {Fields(value[2])} ELSE {}

IsDateOnly(c, name) == \E p \in Get(c, name) : HasValueDate(p)

DateProp(c, name) ==
  UNION {IF HasValueDate(p) THEN ParseDate(p.value) ELSE {} : p \in Get(c, name)}

SetOrClearDate(c, name, d) ==
  IF d = ZeroDate THEN RemoveProperty(c, name)
  ELSE SetProperty(c, Property(name, <<Param("VALUE", "DATE")>>, FormatDate(d)))

\* No time stands for the zero time.
SetOrClearTime(c, name, time) ==
  IF time = {} THEN RemoveProperty(c, name)
  ELSE SetProperty(c, Property(name, <<>>, <<"utc", CHOOSE t \in time : TRUE>>))

-----------------------------------------------------------------------------
\* Reference: the rule whose latest onset is the latest, over two years.
OffsetInEffect(wall, rules) ==
  LET y == Year(Date(wall))
      onsets == {<<TransitionAt(yy, rules[i]), i>> : yy \in {y - 1, y}, i \in DOMAIN rules}
      past == {o \in onsets : o[1] <= wall}
  IN  IF Len(rules) = 1 THEN rules[1].offset
      ELSE rules[(CHOOSE o \in past : \A x \in past : x[1] <= o[1])[2]].offset
=============================================================================
