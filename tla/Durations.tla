------------------------------- MODULE Durations -------------------------------
(***************************************************************************)
(* Durations and alarms: duration/duration.go, duration/trigger.go and     *)
(* helpers/alarm.go.  The wire of a duration is its sign, the fields       *)
(* before T, whether T is there, and the fields behind it; a field is a    *)
(* number and a unit.  "digits" stands for a field without a unit and for  *)
(* any other text that is not a field.                                     *)
(***************************************************************************)
EXTENDS Zones

Zero ==
  [negative |-> FALSE, weeks |-> 0, days |-> 0, hours |-> 0, minutes |-> 0,
   seconds |-> 0, dayForm |-> FALSE]

Rank(unit) == CASE unit = "H" -> 1 [] unit = "M" -> 2 [] unit = "S" -> 3 [] OTHER -> 0

\* parseTimePart: units in order, none twice.
TimePart(fields) ==
  /\ fields # <<>>
  /\ \A i \in DOMAIN fields : Rank(fields[i][2]) > 0
  /\ \A i, j \in DOMAIN fields : i < j => Rank(fields[i][2]) < Rank(fields[j][2])

\* Valid: what parseSign and parseBody accept.
WellFormedDuration(w) ==
  /\ w.sign \in {NoText, "+", "-"}
  /\ w.t => TimePart(w.time)
  /\ CASE w.date = <<>> -> w.t
       [] Len(w.date) = 1 /\ w.date[1][2] = "W" -> ~w.t
       [] Len(w.date) = 1 /\ w.date[1][2] = "D" -> TRUE
       [] OTHER -> FALSE

Amount(fields, unit) ==
  LET at == {i \in DOMAIN fields : fields[i][2] = unit}
  IN  IF at = {} THEN 0 ELSE fields[Max(at)][1]

ParseDuration(w) ==
  [negative |-> w.sign = "-", weeks |-> Amount(w.date, "W"),
   days |-> Amount(w.date, "D"), hours |-> Amount(w.time, "H"),
   minutes |-> Amount(w.time, "M"), seconds |-> Amount(w.time, "S"),
   dayForm |-> \E f \in ToSet(w.date) : f[2] = "D"]

IsZero(d) == d.weeks = 0 /\ d.days = 0 /\ d.hours = 0 /\ d.minutes = 0 /\ d.seconds = 0

Field(n, unit) == IF n = 0 THEN <<>> ELSE << <<n, unit>> >>

\* Duration.String.
DurationString(d) ==
  LET clock == Field(d.hours, "H") \o Field(d.minutes, "M") \o Field(d.seconds, "S")
      wire(date, time) ==
        [sign |-> IF d.negative /\ ~IsZero(d) THEN "-" ELSE NoText, date |-> date,
         t |-> time # <<>>, time |-> time]
  IN  CASE d.weeks # 0 -> wire(<< <<d.weeks, "W">> >>, <<>>)
        [] IsZero(d) /\ ~d.dayForm -> wire(<<>>, << <<0, "S">> >>)
        [] d.weeks = 0 /\ (d.days # 0 \/ d.dayForm) -> wire(<< <<d.days, "D">> >>, clock)
        [] OTHER -> wire(<<>>, clock)

\* In seconds.
Signed(d) ==
  (IF d.negative THEN -1 ELSE 1) *
    (SecondsPerDay * (7 * d.weeks + d.days)
       + 3600 * d.hours + 60 * d.minutes + d.seconds)

\* FromSigned of whole seconds: hours, minutes and seconds only.
FromSigned(n) ==
  LET length == IF n < 0 THEN -n ELSE n
  IN  [Zero EXCEPT !.negative = n < 0, !.hours = length \div 3600,
                   !.minutes = (length % 3600) \div 60, !.seconds = length % 60]

\* Slip: only the part behind the T is added.
AddClock(d, t) == t + Signed([d EXCEPT !.weeks = 0, !.days = 0])

\* AddTo in UTC and in a fixed offset, the locations the library makes.
AddTo(d, t) == t + Signed(d)

-----------------------------------------------------------------------------
Relative(d, related) == [relative |-> TRUE, offset |-> d, related |-> related, at |-> ZeroTime]

Absolute(t) == [relative |-> FALSE, offset |-> Zero, related |-> "START", at |-> t]

IsDuration(value) == value[1] = "duration" /\ WellFormedDuration(value[2])

\* The value of a TRIGGER as its VALUE parameter, or its shape, says.
TriggerValue(p) ==
  LET durations == IF IsDuration(p.value) THEN {Relative(ParseDuration(p.value[2]), "START")}
                   ELSE {}
      instants == {Absolute(t) : t \in ParseTime(p.value)}
      declared == {ToUpper(v) : v \in ParamValue(p, "VALUE")}
  IN  CASE declared = {} -> durations \cup instants
        [] declared = {"DURATION"} -> durations
        [] declared = {"DATE-TIME"} -> instants
        [] OTHER -> {}

\* ParseTrigger: no trigger for any malformed property.
ParseTrigger(p) ==
  LET related == {ToUpper(v) : v \in ParamValue(p, "RELATED")}
  IN  IF related = {} THEN TriggerValue(p)
      ELSE {[tr EXCEPT !.related = r] :
              r \in related \cap {"START", "END"},
              tr \in {v \in TriggerValue(p) : v.relative}}

\* Slip: every alarm is anchored at the start.
TriggerPropertyAtStart(tr) ==
  IF tr.relative THEN Property("TRIGGER", <<>>, <<"duration", DurationString(tr.offset)>>)
  ELSE Property("TRIGGER", <<Param("VALUE", "DATE-TIME")>>, <<"utc", tr.at>>)

\* Trigger.Property.
TriggerProperty(tr) ==
  IF tr.relative
  THEN Property("TRIGGER", IF tr.related = "END" THEN <<Param("RELATED", "END")>> ELSE <<>>,
                <<"duration", DurationString(tr.offset)>>)
  ELSE Property("TRIGGER", <<Param("VALUE", "DATE-TIME")>>, <<"utc", tr.at>>)

\* EventEnd: DTEND, or DTSTART and DURATION.
EventEnd(c, cal) ==
  IF TimeProp(c, "DTEND", cal) # {} THEN TimeProp(c, "DTEND", cal)
  ELSE {AddTo(ParseDuration(p.value[2]), start) :
          p \in {q \in Get(c, "DURATION") : IsDuration(q.value)},
          start \in TimeProp(c, "DTSTART", cal)}

Anchor(related, parent, cal) ==
  CASE related = "START" -> TimeProp(parent, "DTSTART", cal)
    [] related # "START" /\ parent.type = "VTODO" /\ TimeProp(parent, "DUE", cal) # {} ->
         TimeProp(parent, "DUE", cal)
    [] OTHER -> EventEnd(parent, cal)

Resolve(tr, parent, cal) ==
  IF ~tr.relative THEN {tr.at}
  ELSE {AddTo(tr.offset, t) : t \in Anchor(tr.related, parent, cal)}

\* AlarmFiresAt: nothing for the errors ErrNoTrigger, ErrNoAnchor and malformed.
AlarmFiresAt(alarm, parent, cal) ==
  UNION {Resolve(tr, parent, cal) :
           tr \in UNION {ParseTrigger(p) : p \in Get(alarm, "TRIGGER")}}

-----------------------------------------------------------------------------
\* 2^63 - 1, the largest int.
MaxInt == <<9, 2, 2, 3, 3, 7, 2, 0, 3, 6, 8, 5, 4, 7, 7, 5, 8, 0, 7>>

\* A number without its leading zeros.
Significant(digits) ==
  LET nonzero == {i \in DOMAIN digits : digits[i] # 0}
  IN  IF nonzero = {} THEN <<0>> ELSE SubSeq(digits, Min(nonzero), Len(digits))

\* What strconv.Atoi reads, if it is not negative.
NonNegative(value) ==
  LET digits == CASE value[1] = "digits" -> value[2]
                  [] value[1] = "signed" -> value[2][2]
                  [] OTHER -> <<>>
      negative == value[1] = "signed" /\ value[2][1] = "-"
      n == Significant(digits)
  IN  IF digits = <<>> \/ ExceedsDigitString(n, MaxInt) \/ (negative /\ n # <<0>>)
      THEN {} ELSE {n}

\* AlarmRepeatCycle: nothing for its errors, among them one property alone.
AlarmRepeatCycle(alarm) ==
  LET lengths == Get(alarm, "DURATION")
      counts == Get(alarm, "REPEAT")
  IN  IF lengths \cup counts = {} THEN {[every |-> Zero, times |-> <<0>>]}
      ELSE {[every |-> ParseDuration(p.value[2]), times |-> n] :
              p \in {q \in lengths : IsDuration(q.value)},
              n \in UNION {NonNegative(q.value) : q \in counts}}
=============================================================================
