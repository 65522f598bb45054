---------------------------- MODULE CalendarStream ----------------------------
(***************************************************************************)
(* codec/stream.VCalendarParser: Next and Header over a shared line        *)
(* scanner, one line per step, with the batch parser reading the same      *)
(* lines beside it.                                                        *)
(*                                                                         *)
(* The reader delivers any lines, may fail and recover, and ends.  The     *)
(* caller calls Next until it sees io.EOF or an error; CallerRetries and   *)
(* CallerAsksHeader let it go on after an error, or ask for the header     *)
(* before its first Next.                                                  *)
(***************************************************************************)
EXTENDS CalendarLines, SequencesExt

CONSTANTS
  CallerRetries,
  CallerAsksHeader,
  MaxLines          \* bound: lines the reader delivers

ASSUME StreamAssumption ==
  /\ {CallerRetries, CallerAsksHeader} \subseteq BOOLEAN
  /\ MaxLines \in Nat

NoLine == [kind |-> "none", value |-> NoProdID]

VARIABLES
  headerRead, prodid, pending, done,    \* the parser's fields
  pc,        \* the loop the running call is in, "idle" between calls
  method,    \* the running call, or the last one
  stack,     \* the blocks readBlock has open
  block,     \* history: the lines of the block being read or just returned
  result,    \* how the last call returned
  yielded,   \* history: the components returned so far
  failed,    \* history: some call met an error
  swallowed, \* history: the error the last Header call met and did not return
  count,     \* history: lines delivered
  eof,       \* whether the reader has ended
  batch      \* rfc5545.Parse on the same lines

parser == <<headerRead, prodid, pending, done>>
call   == <<pc, method, stack, block, result>>
past   == <<yielded, failed, swallowed>>
reader == <<count, eof, batch>>
vars   == <<parser, call, past, reader>>

Init ==
  /\ headerRead = FALSE
  /\ prodid = NoProdID
  /\ pending = NoLine
  /\ done = FALSE
  /\ pc = "idle"
  /\ method = "none"
  /\ stack = <<>>
  /\ block = <<>>
  /\ result = "none"
  /\ yielded = <<>>
  /\ failed = FALSE
  /\ swallowed = FALSE
  /\ count = 0
  /\ eof = FALSE
  /\ batch = BatchStart

-----------------------------------------------------------------------------
(* The reader. *)

Deliver(line) ==
  /\ ~eof
  /\ count < MaxLines
  /\ count' = count + 1
  /\ batch' = BatchStep(batch, line)
  /\ UNCHANGED eof

End ==
  /\ eof' = TRUE
  /\ batch' = BatchEOF(batch)
  /\ UNCHANGED count

Break ==
  /\ ~eof
  /\ count < MaxLines
  /\ count' = count + 1
  /\ batch' = BatchFailed
  /\ UNCHANGED eof

-----------------------------------------------------------------------------
(* How calls return. *)

Return(r) ==
  /\ pc' = "idle"
  /\ stack' = <<>>
  /\ block' = <<>>
  /\ result' = r
  /\ UNCHANGED method

\* Next returns the error; Header drops it.
Fail(error) ==
  /\ failed' = TRUE
  /\ IF method = "Header"
     THEN Return("header") /\ swallowed' = TRUE
     ELSE Return(error) /\ swallowed' = FALSE
  /\ UNCHANGED yielded

Yield(component, line) ==
  /\ pc' = "idle"
  /\ stack' = <<>>
  /\ block' = Append(block, line)
  /\ result' = "component"
  /\ yielded' = Append(yielded, component)
  /\ swallowed' = FALSE
  /\ UNCHANGED <<method, failed>>

-----------------------------------------------------------------------------
(* Calls. *)

Errors == {"malformed", "unclosed", "version", "io"}

\* The caller has stopped calling.
Finished == result = "EOF" \/ (result \in Errors /\ ~CallerRetries)

CallHeader ==
  /\ pc = "idle" /\ ~Finished
  /\ CallerAsksHeader /\ result = "none"
  /\ method' = "Header"
  /\ IF headerRead
     THEN pc' = pc /\ result' = "header" /\ UNCHANGED headerRead
     ELSE pc' = "first" /\ headerRead' = TRUE /\ UNCHANGED result
  /\ UNCHANGED <<prodid, pending, done, stack, block, past, reader>>

CallNext ==
  /\ pc = "idle" /\ ~Finished
  /\ method' = "Next"
  /\ headerRead' = TRUE
  /\ IF done
     THEN pc' = pc /\ result' = "EOF"
     ELSE pc' = (IF headerRead THEN "top" ELSE "first") /\ UNCHANGED result
  /\ block' = <<>>
  /\ UNCHANGED <<prodid, pending, done, stack, past, reader>>

\* Slip: inside a block the end of input is taken for a blank line.
EOFSkippedInBlock ==
  /\ pc # "idle"
  /\ pc = "top" => pending = NoLine
  /\ End
  /\ IF pc = "block"
     THEN UNCHANGED <<call, past>>
     ELSE Fail(IF pc = "first" THEN "malformed" ELSE "unclosed")
  /\ UNCHANGED parser

\* scanner.Next fails, whatever loop it was called from; io.EOF is an empty
\* input before the first line and an unclosed block after it.
ScannerEOF ==
  /\ pc # "idle"
  /\ pc = "top" => pending = NoLine
  /\ End
  /\ Fail(IF pc = "first" THEN "malformed" ELSE "unclosed")
  /\ UNCHANGED parser

ScannerError ==
  /\ pc # "idle"
  /\ pc = "top" => pending = NoLine
  /\ Break
  /\ Fail("io")
  /\ UNCHANGED parser

-----------------------------------------------------------------------------
(* ensureHeader. *)

\* The header is over: Header returns it, Next goes on to the pending line.
HeaderDone ==
  IF method = "Header"
  THEN Return("header") /\ UNCHANGED past
  ELSE pc' = "top" /\ UNCHANGED <<method, stack, block, result, past>>

ReadFirst ==
  /\ pc = "first"
  /\ \E line \in Lines :
       /\ Deliver(line)
       /\ IF line = BeginCalendar
          THEN pc' = "header" /\ UNCHANGED <<method, stack, block, result, past>>
          ELSE Fail("malformed")
  /\ UNCHANGED parser

ReadHeaderBoundary ==
  /\ pc = "header"
  /\ \E line \in BlockLines :
       /\ Deliver(line)
       /\ pending' = line
  /\ HeaderDone
  /\ UNCHANGED <<headerRead, prodid, done>>

\* Slip: any property but VERSION and PRODID is refused in the header.
UnknownRefusedInHeader ==
  /\ pc = "header"
  /\ \E line \in PropertyLines :
       /\ Deliver(line)
       /\ IF line.kind = "X" \/ (line.kind = "VERSION" /\ line.value # Supported)
          THEN Fail("malformed")
          ELSE UNCHANGED <<call, past>>
       /\ prodid' = IF line.kind = "PRODID" THEN line.value ELSE prodid
  /\ UNCHANGED <<headerRead, pending, done>>

ReadHeaderProperty ==
  /\ pc = "header"
  /\ \E line \in PropertyLines :
       /\ Deliver(line)
       /\ IF line.kind = "VERSION" /\ line.value # Supported
          THEN Fail("version")
          ELSE UNCHANGED <<call, past>>
       /\ prodid' = IF line.kind = "PRODID" THEN line.value ELSE prodid
  /\ UNCHANGED <<headerRead, pending, done>>

ReadGarbledHeader ==
  /\ pc = "header"
  /\ Deliver(Garbled)
  /\ Fail("malformed")
  /\ UNCHANGED parser

-----------------------------------------------------------------------------
(* Next, past the header. *)

\* The line after the header or after a component: the pending one first.
TopLine(line) ==
  IF pending # NoLine
  THEN line = pending /\ pending' = NoLine /\ UNCHANGED reader
  ELSE Deliver(line) /\ UNCHANGED pending

TopBegin ==
  /\ pc = "top"
  /\ \E line \in BlockLines :
       /\ line.kind = "BEGIN"
       /\ TopLine(line)
       /\ stack' = <<Block(line.value)>>
       /\ block' = <<line>>
  /\ pc' = "block"
  /\ UNCHANGED <<headerRead, prodid, done, method, result,
                 yielded, failed, swallowed>>

TopEnd ==
  /\ pc = "top"
  /\ \E line \in BlockLines :
       /\ line.kind = "END"
       /\ TopLine(line)
       /\ IF line.value = "VCALENDAR"
          THEN done' = TRUE /\ Return("EOF") /\ UNCHANGED past
          ELSE UNCHANGED done /\ Fail("malformed")
  /\ UNCHANGED <<headerRead, prodid>>

\* A late calendar-level property, or a garbled line.
TopOther ==
  /\ pc = "top"
  /\ \E line \in PropertyLines \cup {Garbled} : TopLine(line)
  /\ Fail("malformed")
  /\ UNCHANGED <<headerRead, prodid, done>>

-----------------------------------------------------------------------------
(* readBlock. *)

BlockBegin ==
  /\ pc = "block"
  /\ \E type \in Names :
       LET line == [kind |-> "BEGIN", value |-> type] IN
       /\ Deliver(line)
       /\ stack' = Append(stack, Block(type))
       /\ block' = Append(block, line)
  /\ UNCHANGED <<parser, pc, method, result, past>>

\* Slip: an END closes the innermost block whatever it names.
EndClosesAnything ==
  /\ pc = "block"
  /\ \E type \in Names :
       LET line == [kind |-> "END", value |-> type] IN
       /\ Deliver(line)
       /\ IF Len(stack) = 1
          THEN Yield(stack[1], line)
          ELSE /\ stack' = AddChild(Outer(stack), Innermost(stack))
               /\ block' = Append(block, line)
               /\ UNCHANGED <<pc, method, result, past>>
  /\ UNCHANGED parser

BlockEnd ==
  /\ pc = "block"
  /\ \E type \in Names :
       LET line == [kind |-> "END", value |-> type] IN
       /\ Deliver(line)
       /\ IF ~Closes(line, stack)
          THEN Fail("malformed")
          ELSE IF Len(stack) = 1
               THEN Yield(stack[1], line)
               ELSE /\ stack' = AddChild(Outer(stack), Innermost(stack))
                    /\ block' = Append(block, line)
                    /\ UNCHANGED <<pc, method, result, past>>
  /\ UNCHANGED parser

BlockProperty ==
  /\ pc = "block"
  /\ \E line \in PropertyLines :
       /\ Deliver(line)
       /\ stack' = AddProp(stack, line)
       /\ block' = Append(block, line)
  /\ UNCHANGED <<parser, pc, method, result, past>>

BlockGarbled ==
  /\ pc = "block"
  /\ Deliver(Garbled)
  /\ Fail("malformed")
  /\ UNCHANGED parser

Read ==
  \/ ScannerEOF \/ ScannerError
  \/ ReadFirst \/ ReadHeaderBoundary \/ ReadHeaderProperty \/ ReadGarbledHeader
  \/ TopBegin \/ TopEnd \/ TopOther
  \/ BlockBegin \/ BlockEnd \/ BlockProperty \/ BlockGarbled

Next == CallHeader \/ CallNext \/ Read

\* A call reads on until it returns; the reader delivers finitely many lines.
Spec == Init /\ [][Next]_vars /\ WF_vars(Read)

-----------------------------------------------------------------------------
(* Correctness. *)

\* As long as no call met an error, what the stream returned so far is what the
\* batch parser has in hand: the same components below the calendar, the same
\* open blocks, the same PRODID; and at io.EOF the batch parser accepts.
StreamIsIncrementalBatch ==
  ~failed /\ headerRead /\ pc # "first" /\ pending = NoLine =>
    /\ batch.phase = IF done THEN "closed" ELSE "open"
    /\ Root(batch).sub = yielded
    /\ Tail(batch.stack) = stack
    /\ ProdIDOf(Root(batch).props) = prodid
    /\ done => BatchAccepts(batch)

\* Every component returned, also after errors in the header, between
\* components or deep inside one, is one whole block of the input: the batch
\* parser makes the same component of the lines from its BEGIN to its END.  A
\* caller that goes on after an error may be given the inner block of one that
\* was interrupted, but nothing made of the lines of two.
YieldedAreBlocks ==
  result = "component" /\ pc = "idle" =>
    LET inside == [phase |-> "open", stack |-> <<Block("VCALENDAR")>>]
        read == FoldLeft(ParseBlock, inside, block)
    IN  /\ read.phase = "open"
        /\ Len(read.stack) = 1
        /\ Root(read).sub = <<Last(yielded)>>

\* The first error of the stream is one of the batch parser too - the same
\* malformed input, or a VERSION it rejects once the calendar is closed - save
\* for a calendar-level property after a component.
FirstErrorIsBatchError ==
  [][failed' /\ ~failed =>
       \/ batch'.phase = "failed"
       \/ \E k \in DOMAIN Root(batch').props :
            Root(batch').props[k].kind = "VERSION"
              /\ Root(batch').props[k].value # Supported
       \/ /\ Root(batch').sub # <<>>
          /\ Root(batch').props # Root(batch).props]_vars

\* Every call returns, whatever the reader delivers and wherever it ends.
EveryCallReturns == pc # "idle" ~> pc = "idle"

\* An error that Header meets and does not return is surfaced from the next call
\* to Next.
HeaderErrorSurfaces ==
  [][swallowed /\ method = "Next" /\ pc # "idle" /\ pc' = "idle"
       => result' \in Errors]_vars
=============================================================================
