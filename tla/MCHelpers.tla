------------------------------- MODULE MCHelpers -------------------------------
(* Small instances of Helpers. *)
EXTENDS Helpers

MCTodoStatuses    == {"NEEDS-ACTION", "COMPLETED"}
MCEventStatuses   == {"CONFIRMED"}
MCJournalStatuses == {"DRAFT"}
MCClasses         == {"PUBLIC"}
MCTransps         == {"OPAQUE"}
MCUnknownWords    == {"COMPLETE"}

\* Both sides of 0, 9 and 100.
MCPriorities == {-1, 9, 10}
MCPercents   == {-1, 0, 101}
MCRevisions  == {-1, 1}

CONSTANTS l1, l2

Token(l, padded) == [label |-> l, padded |-> padded]

\* A label with space around it, one without, and nothing and a label in one
\* value.
MCValues ==
  {<<Token(l1, TRUE)>>, <<Token(l2, FALSE)>>, <<Token("", FALSE), Token(l1, FALSE)>>}

\* Categories and relations on the type with the fewest other properties.
MCMaxLines == [t \in CompTypes |-> IF t = "VFREEBUSY" THEN 2 ELSE 0]
=============================================================================
