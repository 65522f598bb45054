------------------------------ MODULE CalendarData ------------------------------
(***************************************************************************)
(* Calendars as data: component.go, property.go and component_time.go, and *)
(* the wall times of time_tzid.go.  A calendar is a sequence of components *)
(* and a component a type, a sequence of properties and one of nested      *)
(* components.  A value is a pair, how it is written and what:             *)
(*   "text" and a text          "offset" and seconds east of UTC           *)
(*   "utc", "wall", "date" and the seconds or days of Gregorian            *)
(*   "rule" and the parts of RuleParts                                     *)
(*   "duration" and the fields of Durations                                *)
(*   "times" and the values of RecurrenceSets' lists                       *)
(*   "digits" and digits        "hash" and a canonical form                *)
(*   "signed" and a sign and digits                                        *)
(* Texts are names of byte strings; an optional value is a set with at     *)
(* most one element.                                                       *)
(***************************************************************************)
EXTENDS RuleParts

CONSTANTS Texts,      \* texts and names, in the order of their bytes
          Capitals,   \* [lower-case names -> names]
          Composed    \* NFC: [texts that are not normal -> texts]

\* A name in capitals is spelled in one way only, and so are the names and
\* values that the library writes.
ASSUME CapitalsAssumption ==
  (Range(Capitals) \cup {"DATE-TIME", "DTSTART", "END", "EXDATE", "RANGE", "RDATE",
                         "RECURRENCE-ID", "RELATED", "RRULE", "START", "THISANDFUTURE",
                         "TRIGGER", "TZID", "VALUE"})
    \cap DOMAIN Capitals = {}

ASSUME ComposedAssumption == \A t \in DOMAIN Composed : Composed[t] \notin DOMAIN Composed

\* The empty text.
NoText == ""

\* What a component that nothing sorts has for a key.
NoKey == "(no key)"

ToUpper(name) == IF name \in DOMAIN Capitals THEN Capitals[name] ELSE name

NfcText(text) == IF text \in DOMAIN Composed THEN Composed[text] ELSE text

Nfc(value) == IF value[1] = "text" THEN <<"text", NfcText(value[2])>> ELSE value

\* A sequence of its elements.
IsSequence(s) == s \in Seq(Range(s))

\* The values that the library looks for, in capitals.
Words ==
  {NoText, "DATE", "DATE-TIME", "DURATION", "END", "START", "THISANDFUTURE",
   "CANCELLED", "COMPLETED", "CONFIDENTIAL", "CONFIRMED", "DRAFT", "FINAL", "IN-PROCESS",
   "NEEDS-ACTION", "OPAQUE", "PRIVATE", "PUBLIC", "TENTATIVE", "TRANSPARENT"}

\* A text that NFC changes is not in ASCII, and of the letters in ASCII it makes
\* K only, which is in none of the words.
ASSUME NormalAssumption ==
  \A t \in DOMAIN Composed \cup Range(Composed) : ToUpper(t) \notin Words

ASSUME OrderAssumption == IsSequence(Texts) /\ NoKey \notin Range(Texts)

\* A text's place in the order of bytes.  No key comes last.
Place == [text \in ToSet(Texts) |-> CHOOSE t \in DOMAIN Texts : Texts[t] = text]

PlaceOf(text) == IF text \in DOMAIN Place THEN Place[text] ELSE Len(Texts) + 1

\* The stable sort of s by texts, keys[i] being that of s[i]: by the place of
\* the key among Texts, then by that of the element.
SortedBy(keys, s) ==
  LET width == Len(keys) + 1
      order == Ascending({width * PlaceOf(keys[i]) + i : i \in DOMAIN keys})
  IN  [k \in DOMAIN order |-> s[order[k] % width]]

\* Canonical decimals as texts: a longer one is larger.
ExceedsDigitString(v, max) ==
  \/ Len(v) > Len(max)
  \/ /\ Len(v) = Len(max)
     /\ \E i \in DOMAIN v : v[i] > max[i] /\ \A j \in 1..(i - 1) : v[j] = max[j]

-----------------------------------------------------------------------------
Property(name, params, value) ==
  [name |-> name, params |-> params, value |-> value]

Param(name, value) == [name |-> name, value |-> value]

\* Names of properties or parameters, without regard to case.
NamesOf(s) == [i \in DOMAIN s |-> ToUpper(s[i].name)]

PlacesOf(s, name) == {i \in DOMAIN s : ToUpper(s[i].name) = name}

Named(s, name) == Picked(s, PlacesOf(s, name))

GetAll(c, name) == Named(c.props, name)

First(s) == IF s = <<>> THEN {} ELSE {s[1]}

Get(c, name) == First(GetAll(c, name))

\* UID(): the empty text when there is none.
UID(c) ==
  IF Get(c, "UID") = {} THEN NoText ELSE (CHOOSE p \in Get(c, "UID") : TRUE).value[2]

RemoveProperty(c, name) ==
  [c EXCEPT !.props = Picked(@, DOMAIN @ \ PlacesOf(@, name))]

\* Component.Set: the first property of that name is replaced, the others go.
SetProperty(c, p) ==
  LET same == PlacesOf(c.props, ToUpper(p.name))
      others == DOMAIN c.props \ same
  IN  [c EXCEPT !.props =
         IF same = {} THEN Append(@, p)
         ELSE Picked([@ EXCEPT ![Min(same)] = p], others \cup {Min(same)})]

ParamValue(p, name) == {q.value : q \in First(Named(p.params, name))}

\* Slip: parameters stay in the order they were written in.
ParamsAsWritten(params) == params

SortedParams(params) == SortedBy(NamesOf(params), params)

\* Equal of property.go.
EqualProperties(p, q) ==
  /\ ToUpper(p.name) = ToUpper(q.name)
  /\ p.value = q.value
  /\ LET names(params) == [i \in DOMAIN params |->
                             Param(ToUpper(params[i].name), params[i].value)]
     IN  names(SortedParams(p.params)) = names(SortedParams(q.params))

\* What stands behind the kind of a value: the parts of a rule, the fields of a
\* duration, the elements of a list, the digits of a number.
TypedFields(fields) == IsSequence(fields) /\ \A f \in Range(fields) : f[1] \in Nat

TypedValue(value) ==
  /\ value = <<value[1], value[2]>>
  /\ value[1] \in {"rule", "digits"} => IsSequence(value[2])
  /\ value[1] = "duration" =>
       /\ TypedFields(value[2].date) /\ TypedFields(value[2].time)
       /\ value[2].time # <<>> => value[2].t
  /\ value[1] = "times" =>
       /\ IsSequence(value[2])
       /\ \A v \in Range(value[2]) : v = <<v[1], v[2]>> /\ (v[1] = "utc" => v[2] \in Int)

TypedProperty(p) ==
  /\ p = Property(p.name, p.params, p.value)
  /\ IsSequence(p.params)
  /\ \A q \in Range(p.params) : q = Param(q.name, q.value)
  /\ TypedValue(p.value)

TypedProps(props) == IsSequence(props) /\ \A p \in Range(props) : TypedProperty(p)

TypedComponent(c) ==
  /\ c = [type |-> c.type, props |-> c.props, sub |-> c.sub]
  /\ TypedProps(c.props)
  /\ IsSequence(c.sub)
  /\ \A s \in Range(c.sub) :
       s = [type |-> s.type, props |-> s.props, sub |-> s.sub] /\ TypedProps(s.props)

HasValueDate(p) == \E v \in ParamValue(p, "VALUE") : ToUpper(v) = "DATE"
=============================================================================
