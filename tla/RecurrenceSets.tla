----------------------------- MODULE RecurrenceSets -----------------------------
(***************************************************************************)
(* rrule/set.go: the recurrence set of a component, the lists of times in  *)
(* RDATE and EXDATE, and RECURRENCE-ID.  A list is a value "times" with    *)
(* the values of its elements; sorted and without duplicates it is the set *)
(* of its times.  Every reader returns one result or none: that an error   *)
(* says "unsupported" or "malformed" is left out.                          *)
(***************************************************************************)
EXTENDS Zones

Readable(v) == ParseTime(v) # {}

Times(elements) == UNION {ParseTime(v) : v \in ToSet(elements)}

\* Slip: an element that cannot be read is skipped.
UnreadableSkipped(value) ==
  IF value[1] = "times" THEN {Times(value[2])} ELSE {}

ParseDateTimeList(value) ==
  IF value[1] = "times" /\ value[2] # <<>> /\ \A v \in ToSet(value[2]) : Readable(v)
  THEN {Times(value[2])} ELSE {}

FormatDateTimeList(times) ==
  LET sorted == Ascending(times)
  IN  <<"times", [i \in DOMAIN sorted |-> <<"utc", sorted[i]>>]>>

\* Neither a zone nor another type than DATE-TIME.
PlainDateTimes(p) ==
  \A q \in ToSet(p.params) :
    /\ ToUpper(q.name) # "TZID"
    /\ ToUpper(q.name) = "VALUE" => ToUpper(q.value) = "DATE-TIME"

ParseDateListProperty(p) ==
  IF PlainDateTimes(p) THEN ParseDateTimeList(p.value) ELSE {}

-----------------------------------------------------------------------------
\* The rules SetFromComponent reads; the last one counts.
ParsedRule(p) ==
  IF p.value[1] = "rule" /\ ParseRRule(p.value[2]).error = "none"
  THEN {ParseRRule(p.value[2]).rule} ELSE {}

Accepted(p) ==
  CASE ToUpper(p.name) = "RRULE" -> ParsedRule(p) # {}
    [] ToUpper(p.name) \in {"RDATE", "EXDATE"} -> ParseDateListProperty(p) # {}
    [] OTHER -> TRUE

TimesOf(c, name) ==
  UNION UNION {ParseDateListProperty(p) : p \in ToSet(GetAll(c, name))}

LastOf(s) == IF s = <<>> THEN {} ELSE {s[Len(s)]}

\* SetFromComponent: any part that is not understood refuses the whole set.
\* The zone of a DTSTART is not looked at, only its value.
SetFromComponent(c) ==
  IF /\ \A p \in Get(c, "DTSTART") : Readable(p.value)
     /\ \A p \in ToSet(c.props) : Accepted(p)
  THEN {[dtstart |-> UNION {ParseTime(p.value) : p \in Get(c, "DTSTART")},
         rrule |-> UNION {ParsedRule(p) : p \in LastOf(GetAll(c, "RRULE"))},
         rdate |-> TimesOf(c, "RDATE"), exdate |-> TimesOf(c, "EXDATE")]}
  ELSE {}

-----------------------------------------------------------------------------
\* RANGE=THISANDFUTURE is the only range; without it, one instance is meant.
RangeParam(q) == ToUpper(q.name) = "RANGE"

ParseRecurrenceID(p) ==
  IF /\ ToUpper(p.name) = "RECURRENCE-ID"
     /\ PlainDateTimes(p)
     /\ \A q \in ToSet(p.params) : RangeParam(q) => ToUpper(q.value) = "THISANDFUTURE"
  THEN {[time |-> t, future |-> \E q \in ToSet(p.params) : RangeParam(q)] :
          t \in ParseTime(p.value)}
  ELSE {}

RecurrenceIDProperty(id) ==
  Property("RECURRENCE-ID",
           IF id.future THEN <<Param("RANGE", "THISANDFUTURE")>> ELSE <<>>,
           <<"utc", id.time>>)
=============================================================================
