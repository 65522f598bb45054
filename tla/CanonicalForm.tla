----------------------------- MODULE CanonicalForm -----------------------------
(***************************************************************************)
(* canonical/canonical.go and the order and spelling that the encoder of   *)
(* codec/rfc5545 gives its lines.  Escaping and folding lose nothing and   *)
(* are left out, PRODID too.  Resolve of a wall time goes through the      *)
(* zones of the calendar.                                                  *)
(***************************************************************************)
EXTENDS Durations

DateTimeProperties ==
  {"DTSTAMP", "DTSTART", "DTEND", "DUE", "COMPLETED", "RECURRENCE-ID",
   "CREATED", "LAST-MODIFIED"}

IsDateTimeProperty(p) == ToUpper(p.name) \in DateTimeProperties

DateOnly(p) == IsDateTimeProperty(p) /\ HasValueDate(p)

\* The instant that replaces the value of p.
Resolved(p, cal) ==
  IF ~IsDateTimeProperty(p) \/ HasValueDate(p) THEN {}
  ELSE UNION {ParseTimeWithTZID(p.value, tzid, cal) : tzid \in ParamValue(p, "TZID")}

Inlined(q) ==
  \/ ToUpper(q.name) = "VALUE" /\ ToUpper(q.value) = "BINARY"
  \/ ToUpper(q.name) = "ENCODING" /\ ToUpper(q.value) = "BASE64"

\* Slip: a resolved time keeps its zone.
ZoneKept(q, p, stripTZID) == ToUpper(p.name) = "ATTACH" /\ Inlined(q)

Dropped(q, p, stripTZID) ==
  \/ ToUpper(p.name) = "ATTACH" /\ Inlined(q)
  \/ stripTZID /\ ToUpper(q.name) = "TZID"

PreparedParams(p, stripTZID) ==
  LET kept == Picked(p.params, {i \in DOMAIN p.params : ~Dropped(p.params[i], p, stripTZID)})
      value(q) == IF DateOnly(p) /\ ToUpper(q.name) = "VALUE"
                  THEN ToUpper(NfcText(q.value)) ELSE NfcText(q.value)
  IN  SortedParams([i \in DOMAIN kept |-> Param(kept[i].name, value(kept[i]))])

Prepared(p, instants) ==
  Property(p.name, PreparedParams(p, DateOnly(p) \/ instants # {}),
           IF instants = {} THEN Nfc(p.value)
           ELSE <<"utc", CHOOSE t \in instants : TRUE>>)

PrepareProperty(p, cal) == Prepared(p, Resolved(p, cal))

IsHash(p) == ToUpper(p.name) = "X-VSTAR-HASH"

FilterHash(props) == Picked(props, {i \in DOMAIN props : ~IsHash(props[i])})

PreparedProps(props, cal) ==
  SortedBy(NamesOf(props), [i \in DOMAIN props |-> PrepareProperty(props[i], cal)])

\* Nested components keep their place; theirs have none.
PrepareNested(c, cal) ==
  [type |-> c.type, props |-> PreparedProps(FilterHash(c.props), cal), sub |-> <<>>]

PrepareComponent(c, cal) ==
  [type |-> c.type, props |-> PreparedProps(FilterHash(c.props), cal),
   sub |-> [i \in DOMAIN c.sub |-> PrepareNested(c.sub[i], cal)]]

\* componentSortKey: a TZID that is there is a key even if it is empty, a UID is not.
ComponentSortKey(c) ==
  LET tzid == {p.value[2] : p \in Get(c, "TZID")}
      one(s) == IF s = {} THEN NoKey ELSE CHOOSE x \in s : TRUE
  IN  IF (c.type = "VTIMEZONE" /\ tzid # {}) \/ UID(c) = NoText THEN one(tzid) ELSE UID(c)

\* By key, those without one at the end.
SortedComponents(cal) == SortedBy([i \in DOMAIN cal |-> ComponentSortKey(cal[i])], cal)

CanonicalCalendar(cal) ==
  LET sorted == SortedComponents(cal)
  IN  [i \in DOMAIN sorted |-> PrepareComponent(sorted[i], cal)]

\* The encoder writes names in capitals.
EncodeContentLine(p) ==
  Property(ToUpper(p.name),
           [i \in DOMAIN p.params |-> Param(ToUpper(p.params[i].name), p.params[i].value)],
           p.value)

EncodeLines(props) == [i \in DOMAIN props |-> EncodeContentLine(props[i])]

EncodeComponent(c) ==
  [type |-> c.type, props |-> EncodeLines(c.props),
   sub |-> [i \in DOMAIN c.sub |->
              [type |-> c.sub[i].type, props |-> EncodeLines(c.sub[i].props),
               sub |-> <<>>]]]

Canonical(cal) ==
  LET prepared == CanonicalCalendar(cal)
  IN  [i \in DOMAIN prepared |-> EncodeComponent(prepared[i])]
=============================================================================
