------------------------------- MODULE Documents -------------------------------
(***************************************************************************)
(* A calendar that programs edit: through the containers of component.go   *)
(* and calendar.go, or by writing the same content another way.  After     *)
(* every edit the document is compared with the one it was saved as, by    *)
(* canonical/, diff/, hashing/, validate/, its recurrence sets and the     *)
(* instants its alarms fire at.  A calendar is saved with its hashes.  A   *)
(* document of cards is CardDocuments' part.                               *)
(***************************************************************************)
EXTENDS CardDocuments, Validation

CONSTANTS Saved,       \* documents to start from
          Rewrites,    \* properties that are set
          Additions,   \* properties that are added next to others
          NestedRewrites, \* [types of nested components -> properties set there]
          Hashes,      \* values of X-VSTAR-HASH
          Dates,       \* fields of dates that are set
          Instants,    \* times that are set
          RuleEdits,   \* parts added to a recurrence rule
          Spares,      \* components that are appended
          MaxEdits

\* The properties with typed readers and setters.
DatedProperties == {"DTSTART", "DTEND", "DUE", "COMPLETED"}

Names(c) ==
  UNION {{ToUpper(p.name)} \cup {ToUpper(q.name) : q \in ToSet(p.params)} :
           p \in ToSet(c.props)}

\* Sorting knows every name and key.
ASSUME TextsAssumption ==
  /\ DatedProperties \subseteq ToSet(Texts)
  /\ \A c \in Spares \cup UNION {ToSet(cal) : cal \in Saved} :
    /\ Names(c) \cup {ComponentSortKey(c)} \subseteq ToSet(Texts) \cup {NoKey}
    /\ \A s \in ToSet(c.sub) : Names(s) \subseteq ToSet(Texts)

ASSUME EditsAssumption ==
  /\ MaxEdits \in Nat
  /\ \A p \in Rewrites \cup Additions \cup UNION {NestedRewrites[t] : t \in DOMAIN NestedRewrites} :
       Names([props |-> <<p>>]) \subseteq ToSet(Texts)

\* Properties, components and documents have the shapes of CalendarData.
ASSUME TypesAssumption ==
  /\ \A cal \in Saved : IsSequence(cal) /\ \A c \in Range(cal) : TypedComponent(c)
  /\ \A c \in Spares : TypedComponent(c)
  /\ \A p \in Rewrites \cup Additions \cup UNION {NestedRewrites[t] : t \in DOMAIN NestedRewrites} :
       TypedProperty(p)
  /\ \A h \in Hashes : TypedValue(h)

VARIABLES base,        \* the document as it was saved
          doc,
          edits,
          respelled    \* the content was written another way

vars == <<base, doc, edits, respelled, cardVars>>

\* A document is a calendar or cards.
Init ==
  /\ CardInit
  /\ base \in IF savedCards # <<>> THEN {<<>>} ELSE {[i \in DOMAIN cal |-> SetXVSTAR(cal[i])] : cal \in Saved}
  /\ doc = base
  /\ edits = 0
  /\ respelled = FALSE

Edited(new) ==
  /\ savedCards = <<>>
  /\ edits < MaxEdits
  /\ edits' = edits + 1
  /\ doc' = new
  /\ UNCHANGED <<base, cardVars>>

EditAt(i, c) == Edited([doc EXCEPT ![i] = c]) /\ UNCHANGED respelled

EditProps(i, props) == EditAt(i, [doc[i] EXCEPT !.props = props])

Swapped(s, k) == [s EXCEPT ![k] = s[k + 1], ![k + 1] = s[k]]

-----------------------------------------------------------------------------
\* Another program writes the same in another order or in other capitals.
MoveProperty ==
  \E i \in DOMAIN doc : \E k \in 1..(Len(doc[i].props) - 1) :
    EditProps(i, Swapped(doc[i].props, k))

MoveParam ==
  \E i \in DOMAIN doc : \E k \in DOMAIN doc[i].props :
    /\ Len(doc[i].props[k].params) = 2
    /\ EditProps(i, [doc[i].props EXCEPT ![k].params = Swapped(@, 1)])

MoveComponent ==
  \E i \in 1..(Len(doc) - 1) : Edited(Swapped(doc, i)) /\ UNCHANGED respelled

Recase ==
  \E i \in DOMAIN doc : \E k \in DOMAIN doc[i].props, name \in DOMAIN Capitals :
    /\ Capitals[name] = doc[i].props[k].name
    /\ EditProps(i, [doc[i].props EXCEPT ![k].name = name])

\* hashing.SetXVSTAR, and programs that write another hash.
Rehash ==
  \E i \in DOMAIN doc : \E h \in Hashes \cup {Digest(doc[i])} :
    EditAt(i, SetProperty(doc[i], Property("X-VSTAR-HASH", <<>>, h)))

RehashNested ==
  \E i \in DOMAIN doc, h \in Hashes : \E j \in DOMAIN doc[i].sub :
    EditAt(i, [doc[i] EXCEPT !.sub[j] = SetProperty(@, Property("X-VSTAR-HASH", <<>>, h))])

\* The ways to write a property again: the instant of a wall time, a text
\* in the other normal form, VALUE=DATE in small letters, an attachment
\* without the parameters of its encoding.
Spellings(p) ==
  LET with(params, value) == Property(p.name, params, value)
      others(q) == Picked(p.params, {m \in DOMAIN p.params : p.params[m] # q})
  IN  {with(Picked(p.params, DOMAIN p.params \ PlacesOf(p.params, "TZID")), <<"utc", t>>) :
         t \in Resolved(p, doc)}
      \cup {with(p.params, <<"text", x>>) :
              x \in {y \in DOMAIN Composed : p.value = <<"text", Composed[y]>>}}
      \cup {with([m \in DOMAIN p.params |->
                    IF p.params[m].value = "DATE" THEN Param("VALUE", "date")
                    ELSE p.params[m]], p.value) : x \in {y \in {p} : DateOnly(y)}}
      \cup {with(others(q), p.value) :
              q \in {x \in ToSet(p.params) : ToUpper(p.name) = "ATTACH" /\ Inlined(x)}}

Respell ==
  \E i \in DOMAIN doc : \E k \in DOMAIN doc[i].props :
    \E p \in Spellings(doc[i].props[k]) \ {doc[i].props[k]} :
      /\ Edited([doc EXCEPT ![i].props[k] = p])
      /\ respelled' = TRUE

-----------------------------------------------------------------------------
SetOne ==
  \E i \in DOMAIN doc, p \in Rewrites :
    /\ Get(doc[i], p.name) # {}
    /\ EditAt(i, SetProperty(doc[i], p))

SetNested ==
  \E i \in DOMAIN doc, type \in DOMAIN NestedRewrites : \E j \in DOMAIN doc[i].sub :
    \E p \in NestedRewrites[type] :
      /\ doc[i].sub[j].type = type
      /\ EditAt(i, [doc[i] EXCEPT !.sub[j] = SetProperty(@, p)])

AddOne ==
  \E i \in DOMAIN doc, p \in Additions : EditProps(i, Append(doc[i].props, p))

RemoveName ==
  \E i \in DOMAIN doc : \E p \in ToSet(doc[i].props) :
    /\ ToUpper(p.name) \notin {"UID", "TZID"}
    /\ EditAt(i, RemoveProperty(doc[i], ToUpper(p.name)))

\* SetDTSTARTDate and its like.
SetDate ==
  \E i \in DOMAIN doc, name \in DatedProperties, d \in Dates :
    /\ doc[i].type # "VTIMEZONE"
    /\ EditAt(i, SetOrClearDate(doc[i], name, d))

\* SetDTSTART and its like.
SetTime ==
  \E i \in DOMAIN doc, name \in DatedProperties, time \in Instants :
    /\ doc[i].type # "VTIMEZONE"
    /\ EditAt(i, SetOrClearTime(doc[i], name, time))

\* A program that reads a date or a time, as IsDateOnly says, and writes the
\* day after.
Postpone ==
  \E i \in DOMAIN doc, name \in DatedProperties :
    IF IsDateOnly(doc[i], name)
    THEN \E d \in DateProp(doc[i], name) :
           EditAt(i, SetOrClearDate(doc[i], name, Fields(DateOf(d.year, d.month, d.day + 1))))
    ELSE \E t \in TimeProp(doc[i], name, doc) :
           EditAt(i, SetOrClearTime(doc[i], name, {t + SecondsPerDay}))

\* Another part behind those of a recurrence rule.
ExtendRule ==
  \E i \in DOMAIN doc, part \in RuleEdits : \E k \in DOMAIN doc[i].props :
    /\ doc[i].props[k].value[1] = "rule"
    /\ EditProps(i, [doc[i].props EXCEPT ![k].value[2] = Append(@, part)])

\* Calendar.Append.
AppendComponent ==
  \E c \in Spares :
    /\ c \notin ToSet(doc)
    /\ Edited(Append(doc, c))
    /\ UNCHANGED respelled

DropComponent ==
  \E i \in DOMAIN doc : Edited(RemoveAt(doc, i)) /\ UNCHANGED respelled

DropNested ==
  \E i \in DOMAIN doc : \E j \in DOMAIN doc[i].sub :
    EditAt(i, [doc[i] EXCEPT !.sub = RemoveAt(@, j)])

Next ==
  \/ MoveProperty \/ MoveParam \/ MoveComponent \/ Recase \/ Rehash \/ RehashNested
  \/ Respell \/ SetOne \/ SetDate \/ SetTime \/ Postpone \/ SetNested \/ AddOne \/ RemoveName \/ ExtendRule
  \/ AppendComponent \/ DropComponent \/ DropNested
  \/ CardNext /\ UNCHANGED <<base, doc, edits, respelled>>

Spec == Init /\ [][Next]_vars

-----------------------------------------------------------------------------
\* A document keeps the shapes of CalendarData.
TypeOK == IsSequence(doc) /\ \A c \in Range(doc) : TypedComponent(c)

\* What a document says, whatever its order and spelling: for a component
\* the values of each property by name, for a calendar the components by key.
MeantInstant(p, cal) ==
  IF ~IsDateTimeProperty(p) \/ HasValueDate(p) \/ p.value[1] # "wall" THEN {}
  ELSE {p.value[2] - OffsetInEffect(p.value[2], rules) :
          rules \in {LoadTZRules(tz) :
                       tz \in UNION {FindVTimezone(id, cal) : id \in ParamValue(p, "TZID")}}
                    \ {<<>>}}

MeantParams(p, anchored) ==
  LET kept == {q \in ToSet(p.params) :
                 /\ ToUpper(q.name) = "TZID" => ~anchored /\ ~DateOnly(p)
                 /\ ~(ToUpper(p.name) = "ATTACH" /\ Inlined(q))}
  IN  {<<ToUpper(q.name), IF DateOnly(p) THEN ToUpper(q.value) ELSE NfcText(q.value)>> :
         q \in kept}

Meant(p, instants) ==
  [value |-> IF instants = {} THEN Nfc(p.value)
             ELSE <<"utc", CHOOSE t \in instants : TRUE>>,
   params |-> MeantParams(p, instants # {})]

MeantProps(props, cal) ==
  [name \in {ToUpper(p.name) : p \in ToSet(FilterHash(props))} |->
     [k \in DOMAIN Named(props, name) |->
        Meant(Named(props, name)[k], MeantInstant(Named(props, name)[k], cal))]]

MeantComponent(c, cal) ==
  <<c.type, MeantProps(c.props, cal),
    [j \in DOMAIN c.sub |-> <<c.sub[j].type, MeantProps(c.sub[j].props, cal)>>]>>

Content(cal) ==
  [key \in {ComponentSortKey(c) : c \in ToSet(cal)} |->
     LET same == SelectSeq(cal, LAMBDA c : ComponentSortKey(c) = key)
     IN  [n \in DOMAIN same |-> MeantComponent(same[n], cal)]]

\* A card says its UID and its kind by a property or, without one, by its field.
CardContent(c) ==
  LET fields == [UID |-> c.uid, KIND |-> c.kind]
      said(name) == IF HasProp(c.props, name) \/ fields[name] = NoText THEN <<>>
                    ELSE <<Property(name, <<>>, <<"text", fields[name]>>)>>
  IN  MeantProps(said("UID") \o said("KIND") \o c.props, <<>>)

-----------------------------------------------------------------------------
\* Two documents have the same canonical form exactly when they say the same.
\* hashing.Calendar and hashing.Card digest that form, diff.Calendar and
\* diff.Card compare it.  The validator calls the hash a component was saved with
\* wrong exactly when the component no longer says what it said.
EqualIffSameContent ==
  /\ Canonical(base) = Canonical(doc) <=> Content(base) = Content(doc)
  /\ \A i \in DOMAIN cards :
       /\ CanonicalCard(savedCards[i]) = CanonicalCard(cards[i])
            <=> CardContent(savedCards[i]) = CardContent(cards[i])
       /\ CardDigest(cards[i]) = CanonicalCard(cards[i])
  /\ \A i \in DOMAIN base, j \in DOMAIN doc :
       Get(base[i], "X-VSTAR-HASH") = Get(doc[j], "X-VSTAR-HASH") =>
         (Stale(doc[j]) <=> Content(<<base[i]>>) # Content(<<doc[j]>>))

\* OfCalendar finds a change wherever the canonical form has one, and, of what
\* nobody wrote in another way, only there.  So does OfCard, which looks at the
\* properties only, of cards with the same fields that say as much by them.
DiffMatchesEqual ==
  /\ LET same == Canonical(base) = Canonical(doc)
         found == OfCalendar(base, doc)
     IN  (found = {} => same) /\ (~respelled /\ same => found = {})
  /\ \A i \in DOMAIN cards :
       /\ cards[i].uid = savedCards[i].uid /\ cards[i].kind = savedCards[i].kind
       /\ \A name \in {"UID", "KIND"} :
            HasProp(cards[i].props, name) <=> HasProp(savedCards[i].props, name)
       =>
         (OfCard(savedCards[i], cards[i]) = {}
            <=> CanonicalCard(savedCards[i]) = CanonicalCard(cards[i]))

\* An alarm fires at the instant it fires at in the canonical document, and
\* repeats as often, as duration/trigger.go computes both: the canonical form may
\* lose how the times of its event were written, but no anchor and no offset.
\* Both sides add days to an instant in a fixed offset, which is not what
\* EventEnd promises of them: see EndMissesByTheChange.
CanonicalKeepsAlarms ==
  \A i \in DOMAIN doc : \A j \in DOMAIN doc[i].sub :
    /\ AlarmFiresAt(doc[i].sub[j], doc[i], doc) =
         AlarmFiresAt(PrepareNested(doc[i].sub[j], doc), PrepareComponent(doc[i], doc),
                      CanonicalCalendar(doc))
    /\ AlarmRepeatCycle(doc[i].sub[j]) = AlarmRepeatCycle(PrepareNested(doc[i].sub[j], doc))

\* A rule that is accepted is read back from what String writes for it, and
\* the order of its parts does not matter; so are the times of RDATE and EXDATE
\* and a RECURRENCE-ID.
RecurrenceRoundTrips ==
  \A i \in DOMAIN doc :
    /\ \A p \in {q \in ToSet(doc[i].props) : q.value[1] = "rule"} :
         /\ ParseRRule(p.value[2]).error = "none" =>
              ParseRRule(String(ParseRRule(p.value[2]).rule)) = ParseRRule(p.value[2])
         /\ \A k \in 1..(Len(p.value[2]) - 1) :
              ParseRRule(Swapped(p.value[2], k)).rule = ParseRRule(p.value[2]).rule
    /\ \A p \in ToSet(doc[i].props) : \A times \in ParseDateListProperty(p) :
         ParseDateTimeList(FormatDateTimeList(times)) = {times}
    /\ \A p \in ToSet(doc[i].props) : \A id \in ParseRecurrenceID(p) :
         ParseRecurrenceID(RecurrenceIDProperty(id)) = {id}

\* A trigger is read back from what Property writes for it, but for the sign
\* of nothing, and is written again the same.  Its length in seconds comes
\* back from the hours, minutes and seconds that FromSigned makes of it, and
\* from what String writes for those.
TriggersRoundTrip ==
  \A i \in DOMAIN doc : \A j \in DOMAIN doc[i].sub :
    \A p \in Get(doc[i].sub[j], "TRIGGER") : \A tr \in ParseTrigger(p) :
      /\ ParseTrigger(TriggerProperty(tr)) =
           {[tr EXCEPT !.offset.negative = @ /\ ~IsZero(tr.offset)]}
      /\ \A again \in ParseTrigger(TriggerProperty(tr)) :
           TriggerProperty(again) = TriggerProperty(tr)
      /\ LET clock == FromSigned(Signed(tr.offset))
         IN  Signed(clock) = Signed(tr.offset)
               /\ ParseDuration(DurationString(clock)) = clock

InCanonicalForm(i) == EncodeComponent(PrepareComponent(doc[i], doc))

Elements(c, name) == UNION {ToSet(p.value[2]) : p \in ToSet(GetAll(c, name))}

\* A set that is accepted leaves nothing out that its component writes, so that
\* nothing cancelled comes back, and it is the set of the canonical form.
RecurrenceIsKept ==
  \A i \in DOMAIN doc :
    /\ \A s \in SetFromComponent(doc[i]) :
         /\ SetFromComponent(InCanonicalForm(i)) = {s}
         /\ {<<"utc", t>> : t \in s.exdate} = Elements(doc[i], "EXDATE")
         /\ {<<"utc", t>> : t \in s.rdate} = Elements(doc[i], "RDATE")
    /\ \A p \in ToSet(doc[i].props) :
         ParseRecurrenceID(p) \subseteq ParseRecurrenceID(PrepareProperty(p, doc))

OfContent(findings) == {f \in findings : f.name # "X-VSTAR-HASH"}

ScopesOf(c) ==
  [scope \in {"None", "VStar", "System", "Experimental", "Unknown"} |->
     {ToUpper(p.name) : p \in ToSet(FilterHash(ExtensionsByScope(c, scope)))}]

\* What the validator and package ext say of a component they say of its
\* canonical form; an alarm whose lengths the validator accepts can be repeated,
\* if it has both of them or none and its count fits an int.
VerdictsFollowContent ==
  \A i \in DOMAIN doc :
    /\ LET canonical == InCanonicalForm(i)
       IN  /\ OfContent(ContentFindings(doc[i])) = OfContent(ContentFindings(canonical))
           /\ ScopesOf(doc[i]) = ScopesOf(canonical)
    /\ \A j \in DOMAIN doc[i].sub :
         LET alarm == doc[i].sub[j]
         IN  /\ CheckDuration(alarm) = {}
             /\ Get(alarm, "DURATION") = {} <=> Get(alarm, "REPEAT") = {}
             /\ \A p \in Get(alarm, "REPEAT") : ~ExceedsDigitString(p.value[2], MaxInt)
             => AlarmRepeatCycle(alarm) # {}

\* A wall time is read with the offset active at it: what the comment of
\* ParseTimeWithTZID says.
OffsetIsActive ==
  \A i \in DOMAIN doc : \A p \in ToSet(doc[i].props) :
    Resolved(p, doc) = MeantInstant(p, doc)

\* A DTSTART in a zone and the wall time that a DURATION of weeks or days leads
\* to from there, where DTEND does not say otherwise.
StartsAndEnds(c) ==
  IF Get(c, "DTEND") # {} THEN {}
  ELSE {<<start, [start EXCEPT !.value[2] = @ + Signed(ParseDuration(p.value[2]))]>> :
          start \in {q \in Get(c, "DTSTART") : q.value[1] = "wall"},
          p \in {q \in Get(c, "DURATION") : IsDuration(q.value) /\ ~q.value[2].t}}

\* What the clock of its zone shows at a wall time more than UTC does.
OffsetsAt(p, cal) == {p.value[2] - t : t \in MeantInstant(p, cal)}

\* An event of whole days or weeks ends at the clock time it began at, but for
\* the change of offset between the two.  The comment at duration/trigger.go:265
\* promises that it "keeps its wall-clock end across a DST transition": it does
\* not, since AddTo is given a DTSTART in a fixed offset, of which AddDate adds 24
\* hours a day.
EndMissesByTheChange ==
  \A i \in DOMAIN doc : \A pair \in StartsAndEnds(doc[i]) :
    \A before \in OffsetsAt(pair[1], doc), after \in OffsetsAt(pair[2], doc) :
      EventEnd(doc[i], doc) = {t + after - before : t \in MeantInstant(pair[2], doc)}
=============================================================================
