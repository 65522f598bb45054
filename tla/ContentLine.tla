------------------------------ MODULE ContentLine ------------------------------
(***************************************************************************)
(* One property on the wire, as codec/rfc5545 ("ical") and codec/rfc6350   *)
(* ("vcard") write and read it: the name and the parameters, quoting,      *)
(* escapes, folds and line ends.  A text is a sequence of octets; only the *)
(* octets the grammar tells apart have names.                              *)
(***************************************************************************)
EXTENDS Integers, FiniteSets, FiniteSetsExt, Sequences, SequencesExt

CONSTANTS
  Limit,       \* octets a physical line may have; 75 in both encoders
  Capital,     \* [small letters -> their capitals]
  TextNames    \* textProperties: the names whose iCalendar values are TEXT

DQ == "dq"
LF == "lf"
CR == "cr"
SP == " "

ASSUME LimitAssumption == Limit \in Nat \ {0, 1}

ASSUME CapitalAssumption ==
  \A letter \in DOMAIN Capital :
    /\ {letter, Capital[letter]} \cap {DQ, LF, SP, ";", ":", "="} = {}
    /\ Capital[letter] \in STRING \ DOMAIN Capital

Upper(text) ==
  [i \in DOMAIN text |-> IF text[i] \in DOMAIN Capital THEN Capital[text[i]] ELSE text[i]]

Without(text, octet) ==
  FlattenSeq([i \in DOMAIN text |-> IF text[i] = octet THEN <<>> ELSE <<text[i]>>])

Has(text, octets) == ToSet(text) \cap octets # {}

TextProperty(name) == Upper(name) \in TextNames

-----------------------------------------------------------------------------
(* TEXT values. *)

\* escapeText; the calendar's drops CR.
Escaped(codec, octet) ==
  CASE octet \in {"\\", ",", ";"} -> <<"\\", octet>>
    [] octet = LF -> <<"\\", "n">>
    [] octet = CR /\ codec = "ical" -> <<>>
    [] OTHER -> <<octet>>

EscapeText(codec, text) == FlattenSeq([i \in DOMAIN text |-> Escaped(codec, text[i])])

\* What unescapeText makes of the octet behind a backslash: an unknown pair
\* keeps its backslash in a card and loses it in a calendar.
Unescaped(codec, octet) ==
  CASE octet \in {"n", "N"} -> <<LF>>
    [] octet \in {"\\", ",", ";"} -> <<octet>>
    [] OTHER -> IF codec = "ical" THEN <<octet>> ELSE <<"\\", octet>>

\* A backslash at the end stands for itself.
UnescapeText(codec, text) ==
  LET read[i \in 0..Len(text)] ==
        IF i = 0
        THEN [text |-> <<>>, escape |-> FALSE]
        ELSE IF read[i - 1].escape
        THEN [text |-> read[i - 1].text \o Unescaped(codec, text[i]), escape |-> FALSE]
        ELSE IF text[i] = "\\"
        THEN [text |-> read[i - 1].text, escape |-> TRUE]
        ELSE [text |-> Append(read[i - 1].text, text[i]), escape |-> FALSE]
      last == read[Len(text)]
  IN  IF last.escape THEN Append(last.text, "\\") ELSE last.text

-----------------------------------------------------------------------------
(* The encoders. *)

\* The name is written in capitals, the group before it as it is; an empty group
\* is not written, and neither is its dot.
GroupLength(codec, name) ==
  IF codec = "vcard" /\ Has(name, {"."})
  THEN CHOOSE i \in DOMAIN name : name[i] = "." /\ \A j \in 1..i - 1 : name[j] # "."
  ELSE 0

WrittenName(codec, name) ==
  LET group == GroupLength(codec, name)
  IN  (IF group = 1 THEN <<>> ELSE SubSeq(name, 1, group))
        \o Upper(SubSeq(name, group + 1, Len(name)))

\* encodeParamValue and formatParamValue: only the calendar's drops the
\* quotes inside.
WrittenParamValue(codec, value) ==
  LET bare == IF codec = "ical" THEN Without(value, DQ) ELSE value
  IN  IF Has(bare, {",", ";", ":"}) THEN <<DQ>> \o bare \o <<DQ>> ELSE bare

WrittenParam(codec, param) ==
  <<";">> \o Upper(param.name) \o <<"=">> \o WrittenParamValue(codec, param.value)

\* encodeContentLine and formatProperty.
ContentLineOf(codec, p) ==
  WrittenName(codec, p.name)
    \o FlattenSeq([i \in DOMAIN p.params |-> WrittenParam(codec, p.params[i])])
    \o <<":">>
    \o IF codec = "vcard" \/ TextProperty(p.name) THEN EscapeText(codec, p.value) ELSE p.value

\* Slip: the space is not counted.
SpaceNotCounted(n) == (n - 1) * Limit

\* Octets of the line on physical lines before the n-th: a continuation
\* spends one octet of its own on the space.
Before(n) == IF n = 1 THEN 0 ELSE Limit + (n - 2) * (Limit - 1)

\* writeFolded.
WriteFolded(line) ==
  LET chunks == {n \in 1..Len(line) : Before(n) < Len(line)}
  IN  FlattenSeq([n \in 1..Cardinality(chunks) |->
        (IF n = 1 THEN <<>> ELSE <<SP>>)
          \o SubSeq(line, Before(n) + 1, Min({Before(n + 1), Len(line)})) \o <<CR, LF>>])

\* What an encoder writes for the properties between BEGIN and END.
WireOf(codec, props) ==
  FlattenSeq([k \in DOMAIN props |-> WriteFolded(ContentLineOf(codec, props[k]))])

-----------------------------------------------------------------------------
(* Physical lines. *)

\* The pieces of a text between the positions it is cut at.
SplitAt(text, cuts) ==
  LET from(end) == Max({0} \cup {i \in cuts : i < end}) + 1
  IN  FlattenSeq([end \in 1..Len(text) + 1 |->
        IF end \in cuts \cup {Len(text) + 1} THEN <<SubSeq(text, from(end), end - 1)>>
                                            ELSE <<>>])

Chopped(line) == IF line # <<>> /\ Last(line) = CR THEN Front(line) ELSE line

\* readPhysical: up to LF, without it and without one CR before it.
PhysicalLinesOf(wire) ==
  LET pieces == SplitAt(wire, {i \in DOMAIN wire : wire[i] = LF})
      all    == [k \in DOMAIN pieces |-> Chopped(pieces[k])]
  IN  IF Last(all) = <<>> THEN Front(all) ELSE all

-----------------------------------------------------------------------------
(* ParseContentLine of both codecs: {} for ErrMalformed, else the property. *)

Quoted(text, i) == Cardinality({j \in 1..i - 1 : text[j] = DQ}) % 2 = 1

Unquoted(text, octet) == {i \in DOMAIN text : text[i] = octet /\ ~Quoted(text, i)}

First(at) == {i \in at : \A j \in at : i <= j}

SplitUnquoted(text, octet) == SplitAt(text, Unquoted(text, octet))

StripQuotes(value) ==
  IF Len(value) >= 2 /\ value[1] = DQ /\ Last(value) = DQ
  THEN SubSeq(value, 2, Len(value) - 1) ELSE value

\* The calendar's parser takes the first "=", the card's the first outside quotes.
ParseParam(codec, segment) ==
  LET signs == IF codec = "ical" THEN {i \in DOMAIN segment : segment[i] = "="}
               ELSE Unquoted(segment, "=")
  IN  {[name |-> SubSeq(segment, 1, i - 1),
        value |-> StripQuotes(SubSeq(segment, i + 1, Len(segment)))] : i \in First(signs) \ {1}}

\* parseParams of a card never sees an empty segment behind the last ";".
ParamSegments(codec, segments) ==
  IF codec = "vcard" /\ segments # <<>> /\ Last(segments) = <<>>
  THEN Front(segments) ELSE segments

ParseContentLine(codec, line) ==
  LET property(colon) ==
        LET segments == SplitUnquoted(SubSeq(line, 1, colon - 1), ";")
            name == segments[1]
            read == ParamSegments(codec, Tail(segments))
            params == [k \in DOMAIN read |-> ParseParam(codec, read[k])]
            value == SubSeq(line, colon + 1, Len(line))
        IN  IF name = <<>> \/ {} \in Range(params) THEN {}
            ELSE {[name |-> name,
                   params |-> [k \in DOMAIN params |-> CHOOSE p \in params[k] : TRUE],
                   value |-> IF codec = "vcard" \/ TextProperty(name)
                             THEN UnescapeText(codec, value) ELSE value]}
  IN  UNION {property(colon) : colon \in First(Unquoted(line, ":"))}
=============================================================================
