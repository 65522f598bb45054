------------------------------ MODULE MCDocuments ------------------------------
(* Documents to start from and edits of them. *)
EXTENDS Documents

\* Names and keys in the order of their bytes; "e'" is a decomposed text.
MCTexts ==
  <<"", "ALTREP", "ATTACH", "CLASS", "COMPLETED", "DTEND", "DTSTAMP", "DTSTART", "DUE", "DURATION",
    "ENCODING", "EXDATE", "FN", "HO", "KIND", "LANGUAGE", "MOOD", "NY", "PRIORITY", "RANGE", "RDATE",
    "RECURRENCE-ID", "RELATED", "REPEAT", "RRULE", "STATUS", "SUMMARY", "TRIGGER", "TZID",
    "TZOFFSETFROM", "TZOFFSETTO", "UID", "VALUE", "VERSION", "X-AGR-INTENT", "X-EXP-", "X-VSTAR-HASH",
    "u1", "u2", "u3", "u4", "u5", "u6">>

MCCapitals ==
  [fn |-> "FN", uid |-> "UID", summary |-> "SUMMARY", dtstart |-> "DTSTART", date |-> "DATE", exdate |-> "EXDATE",
   rrule |-> "RRULE", status |-> "STATUS", completed |-> "COMPLETED",
   thisandfuture |-> "THISANDFUTURE"]
    @@ ("x-agr-intent" :> "X-AGR-INTENT" @@ "date-time" :> "DATE-TIME")

MCComposed == [x \in {"cafe'"} |-> "cafeU"]

Text(name, t) == Property(name, <<>>, <<"text", t>>)

Wall(name, tzid, t) == Property(name, <<Param("TZID", tzid)>>, <<"wall", t>>)

Span(sign, date, time) ==
  <<"duration", [sign |-> sign, date |-> date, t |-> time # <<>>, time |-> time]>>

Component(type, props, sub) == [type |-> type, props |-> props, sub |-> sub]

Noon(y, m, d) == TimeOf(DateOf(y, m, d), 12, 0, 0)

Onset(month, ordinal, weekday) ==
  Property("RRULE", <<>>,
    <<"rule", <<Part("FREQ", <<"YEARLY">>), Part("BYMONTH", <<month>>),
                Part("BYDAY", << <<ordinal, weekday>> >>)>> >>)

ZoneRule(type, from, to, rule) ==
  Component(type,
    <<Property("DTSTART", <<>>, <<"wall", TimeOf(DateOf(2007, 1, 1), 2, 0, 0)>>),
      Property("TZOFFSETFROM", <<>>, <<"offset", from>>),
      Property("TZOFFSETTO", <<>>, <<"offset", to>>), rule>>, <<>>)

NewYork ==
  Component("VTIMEZONE", <<Text("TZID", "NY")>>,
    <<ZoneRule("STANDARD", -14400, -18000, Onset(11, 1, 0)),
      ZoneRule("DAYLIGHT", -18000, -14400, Onset(3, 2, 0))>>)

Alarm(params, value) ==
  Component("VALARM", <<Property("TRIGGER", params, value)>>, <<>>)

Digits(name, digits) == Property(name, <<>>, <<"digits", digits>>)

Repeated(alarm) ==
  [alarm EXCEPT !.props = @ \o <<Digits("REPEAT", <<2>>),
                                Property("DURATION", <<>>, Span("", <<>>, << <<5, "M">> >>))>>]

QuarterBefore == Span("-", <<>>, << <<15, "M">> >>)

Event ==
  Component("VEVENT",
    <<Text("UID", "u1"), Wall("DTSTART", "NY", Noon(2026, 3, 7)),
      Property("DURATION", <<>>, Span("", << <<1, "D">> >>, <<>>)),
      Property("RRULE", <<>>, <<"rule", <<Part("FREQ", <<"DAILY">>)>> >>),
      Text("SUMMARY", "cafeU")>>,
    <<Alarm(<<>>, QuarterBefore),
      Alarm(<<Param("RELATED", "END")>>, QuarterBefore)>>)

Todo ==
  Component("VTODO",
    <<Text("UID", "u2"), Wall("DUE", "NY", Noon(2026, 12, 31)),
      Property("DTSTART", <<Param("VALUE", "DATE")>>, <<"date", DateOf(2026, 12, 31)>>),
      Property("ATTACH", <<Param("VALUE", "BINARY"), Param("ENCODING", "BASE64")>>,
               <<"text", "AAAA">>),
      Property("SUMMARY", <<Param("ALTREP", "cid:1"), Param("LANGUAGE", "fr")>>,
               <<"text", "cafeU">>)>>,
    <<Repeated(Alarm(<<Param("RELATED", "END")>>, Span("", << <<0, "D">> >>, <<>>)))>>)

\* Around both onsets, in the hour that is left out, at the ends of the year.
WallTimes ==
  {TimeOf(DateOf(2026, 3, 8), 1, 59, 59), TimeOf(DateOf(2026, 3, 8), 2, 0, 0),
   TimeOf(DateOf(2026, 3, 8), 2, 30, 0), TimeOf(DateOf(2026, 11, 1), 1, 59, 59),
   TimeOf(DateOf(2026, 11, 1), 2, 0, 0), TimeOf(DateOf(2026, 12, 31), 23, 59, 59),
   TimeOf(DateOf(2027, 1, 1), 0, 0, 0)}

Plain(tzid, t) ==
  Component("VEVENT", <<Text("UID", "u3"), Wall("DTSTART", tzid, t)>>, <<>>)

\* Daylight time from October to April.
Hobart ==
  Component("VTIMEZONE", <<Text("TZID", "HO")>>,
    <<ZoneRule("STANDARD", 39600, 36000, Onset(4, 1, 0)),
      ZoneRule("DAYLIGHT", 36000, 39600, Onset(10, 1, 0))>>)

NoCards == {<<>>}

MCSouthern == {<<Hobart, Plain("HO", t)>> : t \in WallTimes}

\* A series in UTC and an override of one of its instances, elsewhere.
Utc(y, m, d) == <<"utc", Noon(y, m, d)>>

TimeList(name, params, elements) == Property(name, params, <<"times", elements>>)

Series ==
  Component("VEVENT",
    <<Text("UID", "u4"), Property("DTSTART", <<>>, Utc(2026, 3, 7)),
      Property("RRULE", <<>>, <<"rule", <<Part("FREQ", <<"DAILY">>), Part("COUNT", <<5>>)>> >>),
      TimeList("EXDATE", <<Param("VALUE", "date-time")>>, <<Utc(2026, 3, 9), Utc(2026, 3, 8)>>),
      TimeList("RDATE", <<>>, <<Utc(2026, 3, 20)>>)>>, <<>>)

Override ==
  Component("VEVENT",
    <<Text("UID", "u5"),
      Property("RECURRENCE-ID", <<Param("RANGE", "thisandfuture")>>, Utc(2026, 3, 8))>>, <<>>)

\* A todo that is done, with a property of a system and one of nobody.
Done ==
  Component("VTODO",
    <<Text("UID", "u6"), Property("DTSTAMP", <<>>, Utc(2026, 3, 7)),
      Text("STATUS", "completed"), Property("COMPLETED", <<>>, Utc(2026, 3, 7)),
      Digits("PRIORITY", <<9>>), Text("CLASS", "PUBLIC"),
      Text("X-AGR-INTENT", "a"), Text("X-EXP-", "b"), Text("MOOD", "c")>>, <<>>)

MCStandardProperties ==
  ToSet(MCTexts) \ {"MOOD", "X-AGR-INTENT", "X-EXP-", "X-VSTAR-HASH"}

MCExtensionParts ==
  "X-AGR-INTENT" :> <<"AGR", "INTENT">> @@ "X-EXP-" :> <<"EXP", "">>
    @@ "X-VSTAR-HASH" :> <<"VSTAR", "HASH">>

MCSaved ==
  {<<NewYork, Event, Todo>>, <<Event>>, <<Series, Override>>, <<Done>>}
    \cup {<<NewYork, Plain("NY", t)>> : t \in WallTimes}

\* A card as a parser returns it, and as helpers.NewCard makes it.
MCSavedCards ==
  {<<>>,
   <<[uid |-> "u1", kind |-> "org", props |->
        <<Text("FN", "cafeU"), Property("FN", <<Param("LANGUAGE", "fr"), Param("ALTREP", "cid:1")>>,
                                        <<"text", "tea">>)>>]>>,
   <<[uid |-> "u1", kind |-> "individual", props |->
        <<Text("VERSION", "4.0"), Text("KIND", "individual"), Text("UID", "u1")>>]>>}

MCCardProps ==
  {Text("FN", "cafeU"), Text("UID", "u1"), Text("UID", "u2"), Text("VERSION", "3.0"),
   Text("X-VSTAR-HASH", "sha256:a"),
   Property("FN", <<Param("ALTREP", "cid:1"), Param("LANGUAGE", "fr")>>, <<"text", "cafeU">>)}

MCCardUIDs == {"", "u1", "u2"}

MCCardKinds == {"", "org"}

MCRewrites ==
  {Wall("DTSTART", "NY", t) :
     t \in {TimeOf(DateOf(2026, 3, 8), 2, 0, 0), TimeOf(DateOf(2026, 11, 1), 2, 0, 0)}}
    \cup {Text("SUMMARY", "dinner"),
          Property("DTSTART", <<Param("TZID", "NY"), Param("VALUE", "DATE")>>,
                   <<"date", DateOf(2026, 7, 1)>>),
          TimeList("EXDATE", <<>>, <<Utc(2026, 3, 9), <<"wall", Noon(2026, 3, 8)>> >>),
          TimeList("EXDATE", <<Param("TZID", "NY")>>, << <<"wall", Noon(2026, 3, 8)>> >>),
          TimeList("EXDATE", <<>>, <<>>),
          TimeList("RDATE", <<Param("VALUE", "DATE")>>, << <<"date", DateOf(2026, 3, 8)>> >>),
          TimeList("RDATE", <<>>, <<Utc(2026, 3, 8), Utc(2026, 3, 8)>>),
          Property("RECURRENCE-ID", <<Param("TZID", "NY")>>, <<"wall", Noon(2026, 3, 8)>>),
          Property("RECURRENCE-ID", <<Param("VALUE", "DATE-TIME")>>, Utc(2026, 3, 9)),
          Text("STATUS", "CONFIRMED"), Text("CLASS", "secret"),
          Digits("PRIORITY", <<1, 0>>), Digits("PRIORITY", <<0, 5>>)}

MCAdditions ==
  {Text("SUMMARY", "tea"), TimeList("EXDATE", <<>>, <<Utc(2026, 3, 10)>>), Wall("DTEND", "NY", Noon(2026, 3, 9)), Wall("DTEND", "LA", Noon(2026, 3, 9))}

Lengths ==
  {Span("-", << <<0, "D">> >>, <<>>), Span("+", <<>>, << <<0, "H">>, <<5, "M">> >>),
   Span("", << <<1, "D">> >>, << <<1, "H">>, <<5, "S">> >>), Span("-", << <<2, "W">> >>, <<>>),
   Span("-", <<>>, << <<0, "S">> >>),
   Span("", << <<1, "W">> >>, << <<1, "H">> >>), Span("", <<>>, << <<5, "S">>, <<5, "M">> >>)}

MCNestedRewrites ==
  [VALARM |->
     {Property("TRIGGER", <<>>, value) : value \in Lengths}
     \cup {Property("TRIGGER", <<Param("RELATED", "END")>>, Span("-", << <<2, "W">> >>, <<>>))}
     \cup {Property("TRIGGER", params, <<"utc", Noon(2026, 3, 9)>>) :
             params \in {<<>>, <<Param("VALUE", "DATE-TIME")>>, <<Param("VALUE", "DURATION")>>,
                         <<Param("RELATED", "END")>>}}
     \cup {Digits("REPEAT", <<0, 1>>), Digits("REPEAT", [k \in 1..19 |-> 9]),
           Property("REPEAT", <<>>, <<"signed", <<"+", <<1>> >> >>),
           Property("REPEAT", <<>>, <<"signed", <<"-", <<1>> >> >>),
           Property("DURATION", <<>>, Span("", << <<1, "W">> >>, << <<1, "H">> >>))},
   STANDARD |-> {Onset(10, -1, 0)},
   DAYLIGHT |-> {Onset(3, -1, 0)}]

MCRuleEdits ==
  {Part("COUNT", <<3>>), Part("UNTIL", <<Noon(2027, 1, 1)>>), Part("INTERVAL", <<1>>),
   Part("INTERVAL", <<2>>), Part("INTERVAL", <<0>>), Part("FREQ", <<"YEARLY">>),
   Part("BYSETPOS", <<-1>>), Part("BYDAY", << <<0, 1>>, <<-1, 5>> >>),
   Part("BYYEARDAY", <<366>>), Part("BYMONTHDAY", <<31, -1>>), Part("WKST", <<0>>),
   Part("WKST", <<1>>), Part("RSCALE", <<>>), Part("BYHOUR", <<>>)}

\* None, a day, fields no day has, fields that are too wide.
MCDates ==
  {ZeroDate, Fields(DateOf(2026, 12, 31)), [year |-> 2026, month |-> 2, day |-> 30],
   [year |-> 2026, month |-> 13, day |-> 1]}

MCInstants == {{}, {Noon(2026, 7, 1)}}

MCHashes == {<<"text", "sha256:a">>, <<"text", "sha256:b">>}

MCSpares == {NewYork, [Event EXCEPT !.type = "VTODO"]}
=============================================================================
