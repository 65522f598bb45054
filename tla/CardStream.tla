------------------------------ MODULE CardStream ------------------------------
(***************************************************************************)
(* codec/stream.VCardParser, one logical line per step, with               *)
(* codec/rfc6350's batch parser reading the same lines beside it.          *)
(*                                                                         *)
(* The reader is given lines: any, up to a bound, or those of one text.    *)
(* Where any line may come it may also fail and go on, as LineScanner's    *)
(* does: a failure inside a line only makes the next line another one.     *)
(* The caller goes on calling Next after an error until it sees io.EOF.    *)
(***************************************************************************)
EXTENDS Integers, Sequences, FiniteSets, Cards

CONSTANTS
  Versions,   \* VERSION values; "4.0" is the supported one, NoValue may occur
  Uids,
  CardKinds,
  Values,     \* values of any other property
  GroupedNames,   \* the names that callers write with a group, too
  MaxLines,   \* bound: lines of an arbitrary input
  MaxFaults   \* bound: failures of its reader

ASSUME CardAssumption == MaxLines \in Nat /\ MaxFaults \in Nat /\ NoValue # Supported

Line(name, values) ==
  [name : {name}, value : values,
   grouped : IF name \in GroupedNames THEN BOOLEAN ELSE {FALSE}]

PropertyLines ==
  Line("VERSION", Versions) \cup Line("UID", Uids)
  \cup Line("KIND", CardKinds) \cup Line("X", Values)

Garbled == Bare("garbled")

Lines == PropertyLines \cup {Begin, EndCard, Garbled}

\* Where the lines come from.
NoSource == [from |-> "nowhere", text |-> <<>>]
Anything == [from |-> "anywhere", text |-> <<>>]
Text(lines) == [from |-> "a text", text |-> lines]

VARIABLES
  done,      \* the parser's field
  pc,        \* "idle" between calls, else "outside" or "inside" a card
  card,      \* the card being read
  version,   \* its VERSION, NoValue before
  result,    \* how the last call returned
  source,    \* what the reader delivers
  eof,       \* the reader reported io.EOF, and will again
  yielded,   \* history: the cards returned
  failed,    \* history: some call returned an error
  input,     \* history: the lines read
  failures,  \* history: how many lines had been read at each failure of the reader
  batch      \* rfc6350's Parse on the same lines

parser  == <<done, pc, card, version, result>>
reading == <<eof, yielded, failed, input, failures, batch>>
vars    == <<parser, source, reading>>

-----------------------------------------------------------------------------
(* Cards. *)

\* A property under the name the parser took it for.
Store(c, line, name) ==
  CASE name = "UID" -> [c EXCEPT !.uid = line.value]
    [] name = "KIND" -> [c EXCEPT !.kind = line.value]
    [] OTHER -> [c EXCEPT !.props = Append(@, line)]

\* Slip: the group is part of the name.
QualifiedName(line) == IF line.grouped THEN "grouped" ELSE line.name

\* The streaming parser strips the group; the batch parser does not.
StreamName(line) == line.name

BatchName(line) == IF line.grouped THEN "grouped" ELSE line.name

-----------------------------------------------------------------------------
(* rfc6350's Parse, a line at a time. *)

BatchStart ==
  [ok |-> TRUE, open |-> FALSE, card |-> EmptyCard, version |-> NoValue, cards |-> <<>>]

BatchFail(b) == [b EXCEPT !.ok = FALSE]

BatchClose(b) ==
  IF b.open /\ b.version = Supported
  THEN [BatchStart EXCEPT !.cards = Append(b.cards, b.card)]
  ELSE BatchFail(b)

BatchProperty(b, line) ==
  IF ~b.open \/ line = Garbled
  THEN BatchFail(b)
  ELSE IF BatchName(line) = "VERSION"
       THEN IF b.version # NoValue THEN BatchFail(b) ELSE [b EXCEPT !.version = line.value]
       ELSE [b EXCEPT !.card = Store(@, line, BatchName(line))]

BatchStep(b, line) ==
  IF ~b.ok
  THEN b
  ELSE CASE line = Begin ->
              IF b.open
              THEN BatchFail(b)
              ELSE [BatchStart EXCEPT !.open = TRUE, !.cards = b.cards]
         [] line = EndCard -> BatchClose(b)
         [] OTHER -> BatchProperty(b, line)

BatchEOF(b) == IF b.open THEN BatchFail(b) ELSE b

-----------------------------------------------------------------------------
(* VCardParser.Next. *)

Start(lines) ==
  /\ source = lines
  /\ done = FALSE
  /\ pc = "idle"
  /\ card = EmptyCard
  /\ version = NoValue
  /\ result = "none"
  /\ eof = FALSE
  /\ yielded = <<>>
  /\ failed = FALSE
  /\ input = <<>>
  /\ failures = <<>>
  /\ batch = BatchStart

Init == Start(Anything)

Call ==
  /\ source # NoSource
  /\ pc = "idle"
  /\ result # "EOF"
  /\ IF done
     THEN result' = "EOF" /\ UNCHANGED pc
     ELSE pc' = "outside" /\ UNCHANGED result
  /\ UNCHANGED <<done, card, version, source, reading>>

Deliver(line) ==
  /\ ~eof
  /\ IF source = Anything
     THEN Len(input) < MaxLines
     ELSE Len(input) < Len(source.text) /\ line = source.text[Len(input) + 1]
  /\ input' = Append(input, line)
  /\ batch' = BatchStep(batch, line)
  /\ UNCHANGED <<done, source, eof, failures>>

Fail(error) ==
  /\ pc' = "idle"
  /\ result' = error
  /\ failed' = TRUE
  /\ UNCHANGED <<card, version, yielded>>

\* Slip: the card is the parser's, and keeps what the last block left in it.
BeginKeepsCard ==
  /\ pc = "outside"
  /\ Deliver(Begin)
  /\ pc' = "inside"
  /\ version' = NoValue
  /\ UNCHANGED <<card, result, yielded, failed>>

ReadBegin ==
  /\ pc = "outside"
  /\ Deliver(Begin)
  /\ pc' = "inside"
  /\ card' = EmptyCard
  /\ version' = NoValue
  /\ UNCHANGED <<result, yielded, failed>>

\* Content outside a card: the line is consumed and reported.
ReadStray ==
  /\ pc = "outside"
  /\ \E line \in Lines \ {Begin} : Deliver(line)
  /\ Fail("malformed")

ReadProperty ==
  /\ pc = "inside"
  /\ \E line \in PropertyLines :
       /\ Deliver(line)
       /\ IF StreamName(line) = "VERSION"
          THEN IF version # NoValue
               THEN Fail("malformed")
               ELSE /\ version' = line.value
                    /\ UNCHANGED <<pc, card, result, yielded, failed>>
          ELSE /\ card' = Store(card, line, StreamName(line))
               /\ UNCHANGED <<pc, version, result, yielded, failed>>

ReadNestedOrGarbled ==
  /\ pc = "inside"
  /\ \E line \in {Begin, Garbled} : Deliver(line)
  /\ Fail("malformed")

ReadEnd ==
  /\ pc = "inside"
  /\ Deliver(EndCard)
  /\ CASE version = NoValue -> Fail("malformed")
       [] version \notin {NoValue, Supported} -> Fail("version")
       [] OTHER -> /\ pc' = "idle"
                   /\ result' = "card"
                   /\ yielded' = Append(yielded, card)
                   /\ UNCHANGED <<card, version, failed>>

\* Slip: the end of input is an open block's, whether or not one is open.
EOFIsUnclosed ==
  /\ pc # "idle"
  /\ eof' = TRUE
  /\ batch' = BatchEOF(batch)
  /\ Fail("unclosed")
  /\ UNCHANGED <<done, source, input, failures>>

ReadEOF ==
  /\ pc # "idle"
  /\ source = Anything \/ input = source.text
  /\ eof' = TRUE
  /\ batch' = BatchEOF(batch)
  /\ IF pc = "outside"
     THEN /\ done' = TRUE
          /\ pc' = "idle"
          /\ result' = "EOF"
          /\ UNCHANGED <<card, version, yielded, failed>>
     ELSE UNCHANGED done /\ Fail("unclosed")
  /\ UNCHANGED <<source, input, failures>>

\* The reader fails: the call returns its error, and so does Parse.
ReadError ==
  /\ pc # "idle"
  /\ source = Anything
  /\ ~eof
  /\ Len(failures) < MaxFaults
  /\ failures' = Append(failures, Len(input))
  /\ batch' = BatchFail(batch)
  /\ Fail("read")
  /\ UNCHANGED <<done, source, eof, input>>

Read ==
  \/ ReadBegin \/ ReadStray
  \/ ReadProperty \/ ReadNestedOrGarbled \/ ReadEnd
  \/ ReadEOF \/ ReadError

Next == Call \/ Read

Spec == Init /\ [][Next]_vars /\ WF_vars(Call) /\ WF_vars(Read)

-----------------------------------------------------------------------------
(* Correctness. *)

\* Until a call fails, and as long as no line carries a group, the two parsers
\* are in step: same cards, same open card; at io.EOF the batch parser accepts.
\* What the stream reports as an error, the batch parser rejects, too.
CardsAgreeWithBatch ==
  /\ ~failed /\ (\A i \in DOMAIN input : ~input[i].grouped) =>
       /\ batch.ok
       /\ batch.cards = yielded
       /\ batch.open <=> pc = "inside"
       /\ batch.open => batch.card = card /\ batch.version = version
  /\ failed => ~batch.ok

\* A card block with nothing wrong in it: one supported VERSION, properties only,
\* and a reader that delivered it without failing.
Intact(i, j) ==
  /\ input[i] = Begin /\ input[j] = EndCard
  /\ \A k \in i + 1..j - 1 : input[k] \in PropertyLines
  /\ \E k \in i + 1..j - 1 :
       /\ input[k].value = Supported
       /\ \A m \in i + 1..j - 1 : input[m].name = "VERSION" <=> m = k
  /\ \A f \in DOMAIN failures : failures[f] \notin i..j - 1

\* Its UID is the last one given, with or without a group.
HasUidOf(c, i, j) ==
  LET at == {k \in i + 1..j - 1 : input[k].name = "UID"} IN
  c.uid = IF at = {} THEN NoValue
          ELSE input[CHOOSE k \in at : \A m \in at : m <= k].value

\* The intact blocks that begin the input or follow some END.
IntactBlocks ==
  {b \in (DOMAIN input) \X (DOMAIN input) :
     /\ b[1] < b[2]
     /\ Intact(b[1], b[2])
     /\ b[1] = 1 \/ input[b[1] - 1] = EndCard}

\* A bad card costs at most itself: every such block is a card of its own among
\* those yielded, whatever errors preceded it.
IntactCardsSurvive ==
  /\ Cardinality(IntactBlocks) <= Len(yielded)
  /\ \A b \in IntactBlocks :
       \E n \in DOMAIN yielded : HasUidOf(yielded[n], b[1], b[2])

\* A caller that goes on after every error still gets to io.EOF.
RetriesReachEOF == source # NoSource ~> result = "EOF"
=============================================================================
