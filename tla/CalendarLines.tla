----------------------------- MODULE CalendarLines -----------------------------
(***************************************************************************)
(* Logical iCalendar lines and codec/rfc5545's batch parser.               *)
(*                                                                         *)
(* A line is what ParseContentLine makes of it: BEGIN or END of a block, a *)
(* property, or Garbled for one it rejects.  The parser keeps the open     *)
(* blocks as a stack, where the code recurses, and is given one line at a  *)
(* time so that the streaming parser can be compared with it mid-stream.   *)
(***************************************************************************)
EXTENDS Integers, Sequences

CONSTANTS
  BlockTypes,   \* component types, VCALENDAR not among them
  Versions,     \* VERSION values; "2.0" is the supported one
  ProdIDs,      \* PRODID values
  NoProdID,     \* the empty string
  Values        \* values of any other property

ASSUME LinesAssumption == "VCALENDAR" \notin BlockTypes

Names == BlockTypes \cup {"VCALENDAR"}

BlockLines == [kind : {"BEGIN", "END"}, value : Names]

PropertyLines ==
  [kind : {"VERSION"}, value : Versions]
  \cup [kind : {"PRODID"}, value : ProdIDs]
  \cup [kind : {"X"}, value : Values]

Garbled == [kind |-> "garbled", value |-> NoProdID]

Lines == BlockLines \cup PropertyLines \cup {Garbled}

BeginCalendar == [kind |-> "BEGIN", value |-> "VCALENDAR"]
Supported     == "2.0"

-----------------------------------------------------------------------------
(* Stacks of open blocks, the innermost last. *)

Block(type) == [type |-> type, props |-> <<>>, sub |-> <<>>]

Innermost(stack) == stack[Len(stack)]

Outer(stack) == [k \in 1..Len(stack) - 1 |-> stack[k]]

OnInnermost(stack, block) == Append(Outer(stack), block)

AddProp(stack, line) ==
  OnInnermost(stack, [Innermost(stack) EXCEPT !.props = Append(@, line)])

AddChild(stack, child) ==
  OnInnermost(stack, [Innermost(stack) EXCEPT !.sub = Append(@, child)])

Closes(line, stack) == line.value = Innermost(stack).type

-----------------------------------------------------------------------------
(* rfc5545.Parse, a line at a time. *)

BatchStart == [phase |-> "first", stack |-> <<>>]

BatchFailed == [phase |-> "failed", stack |-> <<>>]

ParseBlock(b, line) ==
  CASE line = Garbled -> BatchFailed
    [] line.kind = "BEGIN" -> [b EXCEPT !.stack = Append(@, Block(line.value))]
    [] line.kind = "END" ->
         IF ~Closes(line, b.stack)
         THEN BatchFailed
         ELSE IF Len(b.stack) = 1
              THEN [b EXCEPT !.phase = "closed"]
              ELSE [b EXCEPT !.stack = AddChild(Outer(@), Innermost(@))]
    [] OTHER -> [b EXCEPT !.stack = AddProp(@, line)]

BatchStep(b, line) ==
  CASE b.phase = "first" ->
         IF line = BeginCalendar
         THEN [phase |-> "open", stack |-> <<Block("VCALENDAR")>>]
         ELSE BatchFailed
    [] b.phase = "open" -> ParseBlock(b, line)
    [] OTHER -> b

\* The input ends: an empty or unclosed calendar is an error.
BatchEOF(b) == IF b.phase = "closed" THEN b ELSE BatchFailed

Root(b) == b.stack[1]

\* Parse's own loop over the properties of the closed calendar.
BatchAccepts(b) ==
  /\ b.phase = "closed"
  /\ \A k \in DOMAIN Root(b).props :
       Root(b).props[k].kind = "VERSION" => Root(b).props[k].value = Supported

\* The value of the last PRODID.
ProdIDOf(props) ==
  LET at == {k \in DOMAIN props : props[k].kind = "PRODID"}
  IN IF at = {} THEN NoProdID
     ELSE props[CHOOSE k \in at : \A j \in at : j <= k].value
=============================================================================
