----------------------------- MODULE ComponentDiff -----------------------------
(***************************************************************************)
(* diff/diff.go: what OfCalendar reports of two calendars.  The order of   *)
(* the report is left out: it is a set of entries, each with its path, the *)
(* set of property changes and the reports of nested components.           *)
(***************************************************************************)
EXTENDS CanonicalForm

\* The i-th property of a name is paired with the i-th of that name.
PropertyDiff(op, name, i, property, old) ==
  [op |-> op, name |-> name, i |-> i, property |-> property, old |-> old]

DiffPropertyGroup(name, a, b) ==
  {PropertyDiff("Added", name, i, {b[i]}, {}) : i \in DOMAIN b \ DOMAIN a}
    \cup {PropertyDiff("Removed", name, i, {a[i]}, {}) : i \in DOMAIN a \ DOMAIN b}
    \cup {PropertyDiff("Changed", name, i, {b[i]}, {a[i]}) :
            i \in {j \in DOMAIN a \cap DOMAIN b : ~EqualProperties(a[j], b[j])}}

DiffProperties(a, b) ==
  UNION {DiffPropertyGroup(name, Named(a, name), Named(b, name)) :
           name \in {ToUpper(p.name) : p \in ToSet(a) \cup ToSet(b)}}

-----------------------------------------------------------------------------
\* pairSubs: the last component of a type and UID, and those without a UID
\* by their place among their type.
Label(type, uid, place) == [type |-> type, uid |-> uid, place |-> place]

WithoutUID(subs, type) == SelectSeq(subs, LAMBDA s : s.type = type /\ UID(s) = NoText)

Labels(subs) ==
  {Label(s.type, UID(s), 0) : s \in {x \in ToSet(subs) : UID(x) # NoText}}
    \cup UNION {{Label(t, NoText, i) : i \in DOMAIN WithoutUID(subs, t)} :
                  t \in {s.type : s \in ToSet(subs)}}

LastSet(s) == IF s = <<>> THEN {} ELSE {s[Len(s)]}

At(subs, l) ==
  IF l.uid = NoText THEN {WithoutUID(subs, l.type)[i] : i \in DOMAIN WithoutUID(subs, l.type) \cap {l.place}}
  ELSE LastSet(SelectSeq(subs, LAMBDA s : s.type = l.type /\ UID(s) = l.uid))

\* Slip: a stale hash counts as a change.
PropsWithHash(c) == IF c = {} THEN <<>> ELSE (CHOOSE x \in c : TRUE).props

\* The properties of a component that is there, of none otherwise.
PropsOf(c) == IF c = {} THEN <<>> ELSE FilterHash((CHOOSE x \in c : TRUE).props)

SubsOf(c) == IF c = {} THEN <<>> ELSE (CHOOSE x \in c : TRUE).sub

\* allAddedDiff, allRemovedDiff and componentDiffAt of nested components, the
\* first two with the labels of pairSubs where the code writes #0.
NestedEntry(l, a, b) ==
  [path |-> l, properties |-> DiffProperties(PropsOf(a), PropsOf(b)), subDiffs |-> {}]

EmptyNested(d) == d.properties = {}

DiffSubs(a, b) ==
  {d \in {NestedEntry(l, At(a, l), At(b, l)) : l \in Labels(a) \cup Labels(b)} :
     \/ At(a, d.path) = {}
     \/ At(b, d.path) = {}
     \/ ~EmptyNested(d)}

Entry(l, a, b) ==
  [path |-> l, properties |-> DiffProperties(PropsOf(a), PropsOf(b)),
   subDiffs |-> DiffSubs(SubsOf(a), SubsOf(b))]

\* ComponentDiff.Empty.
Empty(d) == d.properties = {} /\ \A s \in d.subDiffs : EmptyNested(s)

OfCalendar(a, b) ==
  {d \in {Entry(l, At(a, l), At(b, l)) : l \in Labels(a) \cup Labels(b)} :
     \/ At(a, d.path) = {}
     \/ At(b, d.path) = {}
     \/ ~Empty(d)}
=============================================================================
