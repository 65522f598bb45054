----------------------------- MODULE WireRoundTrip -----------------------------
(***************************************************************************)
(* An encoder writes properties, the scanner reads its lines back, and the *)
(* parser of the same codec decodes them.                                  *)
(***************************************************************************)
EXTENDS LineScanner, ContentLine

CONSTANT Drafts   \* what is written: [codec, props]

Document(draft) ==
  LET physical == PhysicalLinesOf(WireOf(draft.codec, draft.props))
  IN  [lines |-> [k \in DOMAIN physical |-> Physical(physical[k])], draft |-> draft]

Texts == Seq(STRING)

Properties == [name : Texts, params : Seq([name : Texts, value : Texts]), value : Texts]

Spelled(name, marks) == name # <<>> /\ ~Has(name, {DQ, LF, ";", ":"} \cup marks)

\* Neither codec checks what a caller calls a property and its parameters, nor
\* escapes a line break outside TEXT or, in a card, a quote in a parameter.  A
\* card's property "." is written without a name.
Spellable(codec, p) ==
  /\ Spelled(p.name, {})
  /\ WrittenName(codec, p.name) # <<>> /\ WrittenName(codec, p.name)[1] # SP
  /\ \A i \in DOMAIN p.params :
       /\ Spelled(p.params[i].name, {"="})
       /\ ~Has(p.params[i].value, IF codec = "vcard" THEN {LF, DQ} ELSE {LF})
  /\ codec = "vcard" \/ TextProperty(p.name) \/ ~Has(p.value, {LF})

ASSUME DraftsAssumption ==
  \A draft \in Drafts :
    /\ draft.codec \in {"ical", "vcard"}
    /\ draft.props \in Seq(Properties)
    /\ \A k \in DOMAIN draft.props : Spellable(draft.codec, draft.props[k])

ASSUME WrittenAssumption == Written = {Document(draft) : draft \in Drafts}

\* What a codec promises to keep: names in capitals behind their groups, without
\* the dot of an empty group, every octet of a value but the CR of an iCalendar
\* TEXT, every octet of a parameter but its quotes.
Kept(codec, p) ==
  [name |-> WrittenName(codec, p.name),
   params |-> [k \in DOMAIN p.params |->
                 [name |-> Upper(p.params[k].name),
                  value |-> IF codec = "ical" THEN Without(p.params[k].value, DQ)
                            ELSE p.params[k].value]],
   value |-> IF codec = "ical" /\ TextProperty(p.name) THEN Without(p.value, CR) ELSE p.value]

\* A document is read as it was meant, whatever separators, quotes, escapes,
\* line breaks and spaces its values hold and wherever they are folded, with
\* the reader failing or not between two physical lines; none of these is too
\* long.  What a failure inside a line costs is said by ReturnedPlusPending.
WhatIsWrittenIsRead ==
  wire # Anything =>
    /\ \A k \in DOMAIN wire.lines : Octets(wire.lines[k]) <= Limit
    /\ result = EOF /\ input = wire.lines =>
         [k \in DOMAIN lines |-> ParseContentLine(wire.draft.codec, lines[k])] =
         [k \in DOMAIN wire.draft.props |-> {Kept(wire.draft.codec, wire.draft.props[k])}]
=============================================================================
