-------------------------------- MODULE Helpers --------------------------------
(***************************************************************************)
(* Package helpers: constructors and mutators that keep a component's      *)
(* X-VSTAR-HASH equal to the hash of its content.                          *)
(*                                                                         *)
(* A component is a record with one field per property the helpers or the  *)
(* validator read; NoValue is an absent property.  "categories" and        *)
(* "related" are multi-valued: one element per property line.  "other" is  *)
(* the rest, "sub" a nested VALARM, and "hash" the content the stored hash *)
(* was computed from (SHA-256 taken as collision free).                    *)
(*                                                                         *)
(* The system is one component c, possibly with a nested alarm: helpers    *)
(* are called on either, and callers edit both behind the helpers' back.   *)
(***************************************************************************)
EXTENDS Integers, Sequences, FiniteSets, SequencesExt

CONSTANTS
  NoValue,         \* an absent property
  TodoStatuses,    \* STATUS vocabularies of RFC 5545, one per type
  EventStatuses,
  JournalStatuses,
  Classes, Transps,
  UnknownWords,    \* arguments outside every vocabulary
  Instants,        \* instants callers pass, ZeroTime included
  Priorities, Percents, Revisions,   \* integers callers pass
  WireRevisions,   \* SEQUENCE values other programs write
  MaxInt,          \* the largest Go int
  Labels,          \* non-empty category labels
  Values,          \* values given to AddCategory or standing on a raw line
  Uids,            \* RELATED-TO values
  Others,          \* contents of the properties no helper writes
  Types,           \* the component types constructed in this instance
  MaxRevision,     \* bound: no revision past it is incremented
  MaxLines,        \* bound: CATEGORIES and RELATED-TO lines, for each type
  MaxLabels        \* bound: labels of a CATEGORIES line that AddCategory writes

CompTypes == {"VEVENT", "VTODO", "VJOURNAL", "VFREEBUSY", "VALARM"}

\* What stands between two commas of a CATEGORIES value: a label, "" for none,
\* with or without space around it.  A value is the sequence of its tokens.
Tokens == [label : Labels \cup {""}, padded : BOOLEAN]

ASSUME HelpersAssumption ==
  /\ MaxInt \in Nat
  /\ {MaxRevision, MaxLabels} \subseteq Nat
  /\ MaxLines \in [CompTypes -> Nat]
  /\ Instants \subseteq Nat
  /\ Priorities \cup Percents \cup Revisions \subseteq -MaxInt - 1 .. MaxInt
  /\ WireRevisions \subseteq Nat
  /\ "COMPLETED" \in TodoStatuses
  /\ Types \subseteq CompTypes
  /\ NoValue \notin Int \cup TodoStatuses \cup EventStatuses \cup JournalStatuses
                    \cup Classes \cup Transps \cup UnknownWords

ASSUME CategoriesAssumption ==
  "" \notin Labels /\ Values \subseteq Seq(Tokens) \ {<<>>}

VARIABLE c

-----------------------------------------------------------------------------
(* Hashing. *)

\* The canonical form drops the stored hash at every depth and keeps the rest.
Bare(x) == [x EXCEPT !.hash = NoValue]

\* Slip: the nested alarm's hash is not stripped.
ContentKeepingSubHash(x) == Bare(x)

Content(x) ==
  IF x.sub = NoValue THEN Bare(x) ELSE [Bare(x) EXCEPT !.sub = Bare(@)]

SetXVSTAR(x) == [x EXCEPT !.hash = Content(x)]

VerifyXVSTAR(x) == x.hash # NoValue /\ x.hash = Content(x)

-----------------------------------------------------------------------------
(* Constructors: the type's own properties over a stamped UID and DTSTAMP,   *)
(* the hash last.  A zero time leaves its property out.                      *)

Blank(type) ==
  [type |-> type, status |-> NoValue, completed |-> NoValue, percent |-> NoValue,
   sequence |-> NoValue, priority |-> NoValue, class |-> NoValue,
   transp |-> NoValue, due |-> NoValue, start |-> NoValue, end |-> NoValue,
   categories |-> <<>>, related |-> <<>>, other |-> NoValue, sub |-> NoValue,
   hash |-> NoValue]

ZeroTime == 0

TimeProp(t) == IF t = ZeroTime THEN NoValue ELSE t

NewTodo(due) == SetXVSTAR([Blank("VTODO") EXCEPT !.due = TimeProp(due)])

NewJournal(start) == SetXVSTAR([Blank("VJOURNAL") EXCEPT !.start = TimeProp(start)])

NewSpan(type, start, end) ==
  SetXVSTAR([Blank(type) EXCEPT !.start = TimeProp(start), !.end = TimeProp(end)])

NewAlarm == SetXVSTAR(Blank("VALARM"))

Constructed ==
  {NewTodo(t) : t \in Instants} \cup {NewJournal(t) : t \in Instants}
  \cup {NewSpan(type, t, u) : type \in {"VEVENT", "VFREEBUSY"},
                              t \in Instants, u \in Instants}
  \cup {NewAlarm}

-----------------------------------------------------------------------------
(* Mutators.  A call that does not apply returns its argument unchanged.     *)

SetStatus(x, s) ==
  IF x.type = "VTODO" /\ s \in TodoStatuses
  THEN SetXVSTAR([x EXCEPT !.status = s]) ELSE x

SetEventStatus(x, s) ==
  IF x.type = "VEVENT" /\ s \in EventStatuses
  THEN SetXVSTAR([x EXCEPT !.status = s]) ELSE x

SetJournalStatus(x, s) ==
  IF x.type = "VJOURNAL" /\ s \in JournalStatuses
  THEN SetXVSTAR([x EXCEPT !.status = s]) ELSE x

Complete(x, t) ==
  IF x.type = "VTODO"
  THEN SetXVSTAR([x EXCEPT !.status = "COMPLETED", !.completed = TimeProp(t),
                           !.percent = 100])
  ELSE x

\* Slip: the hash is not refreshed.
SetClassUnstamped(x, v) ==
  IF x.type \in {"VEVENT", "VTODO", "VJOURNAL"} /\ v \in Classes
  THEN [x EXCEPT !.class = v] ELSE x

SetClass(x, v) ==
  IF x.type \in {"VEVENT", "VTODO", "VJOURNAL"} /\ v \in Classes
  THEN SetXVSTAR([x EXCEPT !.class = v]) ELSE x

SetTransp(x, v) ==
  IF x.type = "VEVENT" /\ v \in Transps
  THEN SetXVSTAR([x EXCEPT !.transp = v]) ELSE x

CarriesSequence(x) == x.type \in {"VEVENT", "VTODO", "VJOURNAL"}

SetSequence(x, n) ==
  IF CarriesSequence(x) /\ n >= 0
  THEN SetXVSTAR([x EXCEPT !.sequence = n]) ELSE x

\* Go int addition wraps around.
Successor(n) == IF n = MaxInt THEN -MaxInt - 1 ELSE n + 1

\* A revision that is absent, negative or beyond int counts as 0.
Sequence(x) ==
  IF x.sequence # NoValue /\ x.sequence \in 0..MaxInt THEN x.sequence ELSE 0

\* Slip: the first revision is written again.
IncrementSequenceFromZero(x) ==
  IF CarriesSequence(x) THEN SetXVSTAR([x EXCEPT !.sequence = 1]) ELSE x

IncrementSequence(x) ==
  IF CarriesSequence(x)
  THEN SetXVSTAR([x EXCEPT !.sequence = Successor(Sequence(x))]) ELSE x

\* Slip: off by one at the upper end.
SetPriorityUpTo10(x, n) ==
  IF x.type \in {"VEVENT", "VTODO"} /\ n \in 0..10
  THEN SetXVSTAR([x EXCEPT !.priority = n]) ELSE x

SetPriority(x, n) ==
  IF x.type \in {"VEVENT", "VTODO"} /\ n \in 0..9
  THEN SetXVSTAR([x EXCEPT !.priority = n]) ELSE x

RemovePriority(x) == SetXVSTAR([x EXCEPT !.priority = NoValue])

SetPercentComplete(x, n) ==
  IF x.type = "VTODO" /\ n \in 0..100
  THEN SetXVSTAR([x EXCEPT !.percent = n]) ELSE x

RemovePercentComplete(x) == SetXVSTAR([x EXCEPT !.percent = NoValue])

SetDue(x, t) == SetXVSTAR([x EXCEPT !.due = TimeProp(t)])

Trim(token) == [token EXCEPT !.padded = FALSE]

\* The tokens of a value that are more than space, trimmed.
LabelsOf(value) ==
  FlattenSeq([k \in DOMAIN value |->
                IF value[k].label = "" THEN <<>> ELSE <<Trim(value[k])>>])

\* The labels of the first CATEGORIES line, which is all Get returns.
Categories(x) ==
  IF x.categories = <<>> THEN <<>> ELSE LabelsOf(x.categories[1])

TokensOf(line) == {line[k] : k \in DOMAIN line}

\* line: what dedupePreserve left of the caller's values, joined by commas.
SetCategories(x, line) ==
  SetXVSTAR([x EXCEPT !.categories = IF line = <<>> THEN <<>> ELSE <<line>>])

\* Whether the value, as it is given, is one of the trimmed labels of the line.
Listed(x, value) == \E token \in TokensOf(Categories(x)) : value = <<token>>

NoCategory == <<[label |-> "", padded |-> FALSE]>>

\* Slip: Set in place of append.
AddCategoryOverwriting(x, value) ==
  IF value = NoCategory \/ Listed(x, value)
  THEN x
  ELSE SetXVSTAR([x EXCEPT !.categories = <<value>>])

\* Set leaves one CATEGORIES line: the labels of the first one and the value.
AddCategory(x, value) ==
  IF value = NoCategory \/ Listed(x, value)
  THEN x
  ELSE SetXVSTAR([x EXCEPT !.categories = <<Categories(x) \o value>>])

AddRelatedTo(x, uid) == SetXVSTAR([x EXCEPT !.related = Append(@, uid)])

-----------------------------------------------------------------------------
(* The calls. *)

Words == TodoStatuses \cup EventStatuses \cup JournalStatuses \cup Classes
           \cup Transps \cup UnknownWords

CallSetStatus        == \E s \in Words : c' = SetStatus(c, s)
CallSetEventStatus   == \E s \in Words : c' = SetEventStatus(c, s)
CallSetJournalStatus == \E s \in Words : c' = SetJournalStatus(c, s)
CallComplete         == \E t \in Instants : c' = Complete(c, t)
CallSetClass         == \E v \in Words : c' = SetClass(c, v)
CallSetTransp        == \E v \in Words : c' = SetTransp(c, v)
CallSetSequence      == \E n \in Revisions : c' = SetSequence(c, n)
CallSetPriority      == \E n \in Priorities : c' = SetPriority(c, n)
CallSetPercent       == \E n \in Percents : c' = SetPercentComplete(c, n)

CallIncrementSequence ==
  /\ Sequence(c) <= MaxRevision
  /\ c' = IncrementSequence(c)

CallRemovePriority == c' = RemovePriority(c)
CallRemovePercent  == c' = RemovePercentComplete(c)
CallSetDue         == \E t \in Instants : c' = SetDue(c, t)

CategoryLists(x) ==
  {<<>>} \cup {<<[label |-> l, padded |-> FALSE]>> :
                l \in {m \in Labels : MaxLines[x.type] > 0}}

CallSetCategories == \E line \in CategoryLists(c) : c' = SetCategories(c, line)

AddableTo(x) ==
  {value \in Values : /\ MaxLines[x.type] > 0
                      /\ Len(Categories(x)) + Len(value) <= MaxLabels}

CallAddCategory == \E value \in AddableTo(c) : c' = AddCategory(c, value)

CallAddRelatedTo ==
  /\ Len(c.related) < MaxLines[c.type]
  /\ \E uid \in Uids : c' = AddRelatedTo(c, uid)

HelperCall ==
  \/ CallSetStatus \/ CallSetEventStatus \/ CallSetJournalStatus \/ CallComplete
  \/ CallSetClass \/ CallSetTransp
  \/ CallSetSequence \/ CallIncrementSequence
  \/ CallSetPriority \/ CallRemovePriority \/ CallSetPercent \/ CallRemovePercent
  \/ CallSetDue \/ CallSetCategories \/ CallAddCategory \/ CallAddRelatedTo

\* What the helpers that no component type is exempt from make of an alarm.
AlarmCalls(a) ==
  {RemovePriority(a), RemovePercentComplete(a)}
  \cup {SetDue(a, t) : t \in Instants}
  \cup {SetCategories(a, line) : line \in CategoryLists(a)}
  \cup {AddCategory(a, value) : value \in AddableTo(a)}
  \cup {AddRelatedTo(a, uid) : uid \in {u \in Uids : Len(a.related) < MaxLines[a.type]}}

\* helper(&c.Sub[0]): the parent is not told.
AlarmCall ==
  /\ c.sub # NoValue
  /\ \E a \in AlarmCalls(c.sub) : c' = [c EXCEPT !.sub = a]

-----------------------------------------------------------------------------
(* What callers do with Component.Set and Add, or by parsing a component     *)
(* another program wrote: the stored hash is left alone.                     *)

EditOther == \E o \in Others : c' = [c EXCEPT !.other = o]

EditAlarm ==
  /\ c.sub # NoValue
  /\ \E o \in Others : c' = [c EXCEPT !.sub.other = o]

AttachAlarm ==
  /\ c.type # "VALARM"
  /\ c.sub = NoValue
  /\ c' = [c EXCEPT !.sub = NewAlarm]

WriteRevision == \E n \in WireRevisions : c' = [c EXCEPT !.sequence = n]

AddCategoriesLine ==
  /\ Len(c.categories) < MaxLines[c.type]
  /\ \E value \in Values : c' = [c EXCEPT !.categories = Append(@, value)]

RawEdit == EditOther \/ EditAlarm \/ AttachAlarm \/ WriteRevision \/ AddCategoriesLine

Stamp == c' = SetXVSTAR(c)

Init == c \in {x \in Constructed : x.type \in Types}

Next == HelperCall \/ AlarmCall \/ RawEdit \/ Stamp

Spec == Init /\ [][Next]_c

-----------------------------------------------------------------------------
(* What the validator says. *)

StatusesOf(type) ==
  CASE type = "VTODO" -> TodoStatuses
    [] type = "VEVENT" -> EventStatuses
    [] type = "VJOURNAL" -> JournalStatuses

VocabularyDiagnostics(x) ==
  {d \in {"VS044", "VS053", "VS054", "VS055"} :
     \/ /\ d = "VS044"
        /\ x.type \in {"VTODO", "VEVENT", "VJOURNAL"}
        /\ x.status \notin StatusesOf(x.type) \cup {NoValue}
     \/ d = "VS053" /\ x.class \notin Classes \cup {NoValue}
     \/ d = "VS054" /\ x.transp \notin Transps \cup {NoValue}
     \/ d = "VS055" /\ \/ x.priority \notin 0..9 \cup {NoValue}
                       \/ x.percent \notin 0..100 \cup {NoValue}
                       \/ x.sequence \notin Nat \cup {NoValue}}

ScheduleDiagnostics(x) ==
  CASE x.type = "VTODO" ->
         IF \/ x.due # NoValue
            \/ x.status = "COMPLETED" /\ x.completed # NoValue
         THEN {} ELSE {"VS040"}
    [] x.type = "VEVENT" -> IF x.start # NoValue THEN {} ELSE {"VS041"}
    [] x.type = "VFREEBUSY" ->
         IF x.start # NoValue /\ x.end # NoValue THEN {} ELSE {"VS042"}
    [] OTHER -> {}

-----------------------------------------------------------------------------
(* Correctness. *)

\* The shapes a component may have, given its nested alarms and stored hashes.
Shape(subs, hashes) ==
  [type : CompTypes, status : Words \cup {"COMPLETED", NoValue},
   completed : Nat \cup {NoValue}, percent : Int \cup {NoValue},
   sequence : Int \cup {NoValue}, priority : Int \cup {NoValue},
   class : Words \cup {NoValue}, transp : Words \cup {NoValue},
   due : Nat \cup {NoValue}, start : Nat \cup {NoValue}, end : Nat \cup {NoValue},
   categories : Seq(Seq(Tokens)), related : Seq(Uids),
   other : Others \cup {NoValue}, sub : subs, hash : hashes]

AlarmContents == Shape({NoValue}, {NoValue})
Alarms        == Shape({NoValue}, AlarmContents \cup {NoValue})
Contents      == Shape(AlarmContents \cup {NoValue}, {NoValue})
Components    == Shape(Alarms \cup {NoValue}, Contents \cup {NoValue})

ASSUME ShapeAssumption == NoValue \notin Components

TypeOK == c \in Components

\* A helper either leaves the component alone, hash included, or returns it with
\* a hash that matches: neither a half-applied change nor a forgotten restamp,
\* even when the stored hash was stale before the call.
NothingOrStamped == [][HelperCall => c' = c \/ VerifyXVSTAR(c')]_c

\* A helper called on a nested alarm makes the parent's hash stale exactly when
\* it changed more than the alarm's own hash.
AlarmChangeShowsInParent ==
  [][AlarmCall /\ VerifyXVSTAR(c) =>
       (VerifyXVSTAR(c') <=> Bare(c'.sub) = Bare(c.sub))]_c

\* Whatever is called on a constructed component, and whatever revision it
\* arrives with, the validator finds every value in its vocabulary or range, and
\* the properties whose setters look at the type - PERCENT-COMPLETE, COMPLETED,
\* PRIORITY, TRANSP and CLASS - sit on no type but their own.  DUE, CATEGORIES and
\* RELATED-TO are not among them: their setters write them on any type.
InDomain ==
  /\ VocabularyDiagnostics(c) = {}
  /\ c.percent # NoValue \/ c.completed # NoValue => c.type = "VTODO"
  /\ c.priority # NoValue => c.type \in {"VTODO", "VEVENT"}
  /\ c.transp # NoValue => c.type = "VEVENT"
  /\ c.class # NoValue => CarriesSequence(c)

\* A component loses its schedule (VS040) only by a call that says so: DUE
\* cleared, a completion at the zero time, or a completed todo without DUE
\* given another status.
UnscheduledOnPurpose ==
  [][ScheduleDiagnostics(c') # {} /\ ScheduleDiagnostics(c) = {} =>
       \/ c' = SetDue(c, ZeroTime)
       \/ c.due = NoValue /\ c' = Complete(c, ZeroTime)
       \/ c.due = NoValue /\ c'.status # "COMPLETED"]_c

\* IncrementSequence moves the revision the component carries, 0 when absent,
\* strictly forward.
Revision(x) == IF x.sequence = NoValue THEN 0 ELSE x.sequence

RevisionAdvances ==
  [][CallIncrementSequence /\ CarriesSequence(c) => Revision(c') > Revision(c)]_c

\* AddCategory appends, on any component and for any value: the labels Categories
\* listed before are listed first and in order after the call, every label of the
\* value is listed, and a value that is one label without space around it is not
\* added again by a retry.  The comment at helpers/categories.go:69 promises more,
\* "appends one category to CATEGORIES if not already present": a value with a
\* comma or with space around it is added again, and of several CATEGORIES lines
\* the labels of the first one remain.
PlainLabel(value) == Len(value) = 1 /\ LabelsOf(value) = value

CategoriesAccumulate ==
  \A value \in Values :
    LET once == AddCategory(c, value) IN
    /\ IsPrefix(Categories(c), Categories(once))
    /\ TokensOf(LabelsOf(value)) \subseteq TokensOf(Categories(once))
    /\ PlainLabel(value) => AddCategory(once, value) = once
=============================================================================
