------------------------------- MODULE RuleParts -------------------------------
(***************************************************************************)
(* The wire form of a recurrence rule: ParseRRule of rrule/parse.go and    *)
(* Rule.String of rrule/format.go.  A wire is a sequence of parts, a key   *)
(* and the list of what is written behind it: one element for FREQ,        *)
(* INTERVAL, UNTIL, COUNT and WKST, the entries of a BY list, and the      *)
(* empty list for any text that the part cannot be.                        *)
(***************************************************************************)
EXTENDS RecurrenceExpansion

Part(key, list) == <<key, list>>

Key(part) == part[1]
List(part) == part[2]

Frequencies == {"MINUTELY", "HOURLY", "DAILY", "WEEKLY", "MONTHLY", "YEARLY"}

\* The field of Rule that a part is stored in.
FieldOf ==
  [FREQ |-> "freq", INTERVAL |-> "interval", UNTIL |-> "until",
   COUNT |-> "count", BYMONTH |-> "byMonth", BYWEEKNO |-> "byWeekNo",
   BYYEARDAY |-> "byYearDay", BYMONTHDAY |-> "byMonthDay", BYDAY |-> "byDay",
   BYHOUR |-> "byHour", BYMINUTE |-> "byMinute", BYSECOND |-> "bySecond",
   BYSETPOS |-> "bySetPos", WKST |-> "wkst"]

Scalars == {"FREQ", "INTERVAL", "UNTIL", "COUNT", "WKST"}

\* The numbers a list part admits.
Admissible ==
  [BYMONTH |-> 1..12, BYHOUR |-> 0..23, BYMINUTE |-> 0..59, BYSECOND |-> 0..60,
   BYMONTHDAY |-> (-31..31) \ {0}, BYYEARDAY |-> (-366..366) \ {0},
   BYWEEKNO |-> (-53..53) \ {0}, BYSETPOS |-> (-366..366) \ {0}]

\* An entry <<0, weekday>> of BYDAY is a weekday written without an ordinal.
WellFormed(part) ==
  LET key == Key(part)
      list == List(part)
  IN  /\ key \in DOMAIN FieldOf
      /\ list # <<>>
      /\ CASE key = "FREQ" -> list[1] \in Frequencies
           [] key \in {"INTERVAL", "COUNT"} -> list[1] \in Nat \ {0}
           [] key = "UNTIL" -> TRUE
           [] key = "WKST" -> list[1] \in 0..6
           [] key = "BYDAY" ->
                \A e \in ToSet(list) : e[1] \in -53..53 /\ e[2] \in 0..6
           [] OTHER -> ToSet(list) \subseteq Admissible[key]

Unsupported(part) ==
  \/ Key(part) = "RSCALE"
  \/ Key(part) = "FREQ" /\ List(part) = <<"SECONDLY">>

\* Slip: a part that is written twice counts as it is written last.
LastPartCounts(wire, i) == FALSE

Duplicate(wire, i) == \E j \in 1..(i - 1) : Key(wire[j]) = Key(wire[i])

\* What the loop of ParseRRule reports for part i.
PartError(wire, i) ==
  IF Duplicate(wire, i) THEN "malformed"
  ELSE IF Unsupported(wire[i]) THEN "unsupported"
  ELSE IF WellFormed(wire[i]) THEN "none" ELSE "malformed"

LoopError(wire) ==
  LET bad == {i \in DOMAIN wire : PartError(wire, i) # "none"}
  IN  IF bad = {} THEN "none" ELSE PartError(wire, Min(bad))

Stored(part) == IF Key(part) \in Scalars THEN List(part)[1] ELSE List(part)

\* Each field as the last of its parts sets it.
Applied(wire) ==
  [field \in DOMAIN Every("INVALID") |->
     LET at == {i \in DOMAIN wire : FieldOf[Key(wire[i])] = field}
     IN  IF at = {} THEN Every("INVALID")[field] ELSE Stored(wire[Max(at)])]

HasOtherBy(r) ==
  \E f \in {"byDay", "byMonth", "byMonthDay", "byHour", "byMinute", "bySecond",
            "byYearDay", "byWeekNo"} : r[f] # <<>>

ValidAfterParse(r) ==
  /\ r.freq # "INVALID"
  /\ r.until = ZeroTime \/ r.count = 0
  /\ r.byYearDay = <<>> \/ r.freq = "YEARLY"
  /\ r.byWeekNo = <<>> \/ r.freq = "YEARLY"
  /\ r.bySetPos = <<>> \/ HasOtherBy(r)

\* The error, and the rule when there is none.
ParseRRule(wire) ==
  LET parsed(r) == IF ValidAfterParse(r) THEN [error |-> "none", rule |-> r]
                   ELSE [error |-> "malformed", rule |-> Every("INVALID")]
      failed(e) == [error |-> e, rule |-> Every("INVALID")]
  IN  IF wire = <<>> THEN failed("malformed")
      ELSE IF LoopError(wire) # "none" THEN failed(LoopError(wire))
      ELSE parsed(Applied(wire))

-----------------------------------------------------------------------------
\* The order in which String writes the parts, and when it writes one.
Written ==
  <<"FREQ", "INTERVAL", "UNTIL", "COUNT", "BYMONTH", "BYWEEKNO", "BYYEARDAY",
    "BYMONTHDAY", "BYDAY", "BYHOUR", "BYMINUTE", "BYSECOND", "BYSETPOS", "WKST">>

Omitted(r, key) ==
  CASE key = "FREQ" -> FALSE
    [] key = "INTERVAL" -> r.interval <= 1
    [] key = "UNTIL" -> r.until = ZeroTime
    [] key = "COUNT" -> r.count <= 0
    [] key = "WKST" -> r.wkst = 1
    [] OTHER -> r[FieldOf[key]] = <<>>

PartOf(r, key) ==
  Part(key, IF key \in Scalars THEN <<r[FieldOf[key]]>> ELSE r[FieldOf[key]])

String(r) ==
  LET keys == Picked(Written, {k \in DOMAIN Written : ~Omitted(r, Written[k])})
  IN  IF r.freq = "INVALID" THEN <<>>
      ELSE [k \in DOMAIN keys |-> PartOf(r, keys[k])]
=============================================================================
