----------------------------- MODULE StreamEncoder -----------------------------
(***************************************************************************)
(* codec/stream's two encoders, VCalendarEncoder and VCardEncoder, over a  *)
(* bufio.Writer and a sink that may accept part of a flush and fail.       *)
(*                                                                         *)
(* A call writes its lines one at a time.  The buffer holds BufferLines    *)
(* lines and is flushed when full, at the end of every calendar Encode     *)
(* (EncodeComponent wraps the encoder's own bufio.Writer, which bufio does *)
(* not wrap twice, and flushes it) and by Close.  A bufio.Writer remembers *)
(* its first error.  A card without a UID is refused before it is written. *)
(***************************************************************************)
EXTENDS Integers, Sequences, SequencesExt, Cards

CONSTANTS
  Kinds,          \* the encoders of this instance: "calendar", "card"
  Items,          \* components or cards to encode
  CardOf,         \* what an item is when it is a card
  ProdIDs, DefaultProdID,
  BufferLines,    \* lines that fit the buffer
  MaxCalls        \* bound: calls made

VARIABLES
  kind,
  header, headerWritten, closed,   \* the encoder's fields
  buf, bufErr,                     \* bufio.Writer: unflushed lines, first error
  wire,                            \* the lines the sink accepted
  running,                         \* the running call, "none" between calls
  item,                            \* its argument
  todo,                            \* the lines it still has to write
  returned,                        \* what the last call returned
  acked,                           \* history: items whose Encode returned nil
  calls

encoder == <<kind, header, headerWritten, closed>>
output  == <<buf, bufErr, wire>>
call    == <<running, item, todo>>
history == <<acked, calls>>
vars    == <<encoder, output, call, returned, history>>

NoItem == "no item"

Init ==
  /\ kind \in Kinds
  /\ header = DefaultProdID
  /\ headerWritten = FALSE
  /\ closed = FALSE
  /\ buf = <<>>
  /\ bufErr = FALSE
  /\ wire = <<>>
  /\ running = "none"
  /\ item = NoItem
  /\ todo = <<>>
  /\ returned = "none"
  /\ acked = <<>>
  /\ calls = 0

-----------------------------------------------------------------------------
(* The lines of a document. *)

HeaderLines(prodid) ==
  IF kind = "calendar"
  THEN <<Plain("BEGIN", "VCALENDAR"), Plain("VERSION", "2.0"), Plain("PRODID", prodid)>>
  ELSE <<>>

ItemLines(i) ==
  IF kind = "calendar" THEN <<Plain("BEGIN", i), Plain("END", i)>> ELSE EncodeCard(CardOf[i])

TrailerLines == IF kind = "calendar" THEN <<Plain("END", "VCALENDAR")>> ELSE <<>>

Document(items) ==
  HeaderLines(header) \o FlattenSeq([k \in DOMAIN items |-> ItemLines(items[k])])

-----------------------------------------------------------------------------
(* The calls. *)

Call ==
  /\ running = "none"
  /\ calls < MaxCalls
  /\ calls' = calls + 1

Refuse(error) ==
  /\ returned' = error
  /\ UNCHANGED <<encoder, output, call, acked>>

\* Slip: the header is written by every call.
HeaderEachTime == HeaderLines(header)

\* writeHeaderOnce: the header is due, and locked, from the first call on.
Header == IF headerWritten THEN <<>> ELSE HeaderLines(header)

Start(method, argument, lines) ==
  /\ running' = method
  /\ item' = argument
  /\ todo' = Header \o lines
  /\ headerWritten' = (kind = "calendar")
  /\ UNCHANGED <<kind, header, closed, output, returned, acked>>

SetHeader(prodid) ==
  /\ kind = "calendar"
  /\ Call
  /\ IF headerWritten
     THEN Refuse("header locked")
     ELSE /\ header' = prodid
          /\ returned' = "ok"
          /\ UNCHANGED <<kind, headerWritten, closed, output, call, acked>>

Encode(i) ==
  /\ Call
  /\ CASE closed -> Refuse("already closed")
       [] ~closed /\ kind = "card" /\ CardOf[i].uid = NoValue -> Refuse("missing UID")
       [] OTHER -> Start("Encode", i, ItemLines(i))

Close ==
  /\ Call
  /\ IF closed
     THEN Refuse("already closed")
     ELSE Start("Close", NoItem, TrailerLines)

-----------------------------------------------------------------------------
(* bufio.Writer: a flush hands the buffered lines to the sink, which accepts *)
(* the first n of them and may fail.                                         *)

FlushOK ==
  /\ ~bufErr
  /\ wire' = wire \o buf
  /\ UNCHANGED bufErr

FlushFails ==
  /\ ~bufErr
  /\ bufErr' = TRUE
  /\ \E n \in 0..Len(buf) :
       /\ wire' = wire \o SubSeq(buf, 1, n)
       /\ buf' = SubSeq(buf, n + 1, Len(buf))

Return(r) ==
  /\ running' = "none"
  /\ todo' = <<>>
  /\ returned' = r
  /\ UNCHANGED item

GiveUp ==
  /\ Return("sink error")
  /\ UNCHANGED <<encoder, history>>

Buffer ==
  /\ todo # <<>> /\ ~bufErr
  /\ Len(buf) < BufferLines
  /\ buf' = Append(buf, Head(todo))
  /\ todo' = Tail(todo)
  /\ UNCHANGED <<encoder, bufErr, wire, running, item, returned, history>>

MakeRoom ==
  /\ todo # <<>>
  /\ Len(buf) = BufferLines
  /\ FlushOK
  /\ buf' = <<>>
  /\ UNCHANGED <<encoder, call, returned, history>>

CannotMakeRoom ==
  /\ todo # <<>>
  /\ Len(buf) = BufferLines
  /\ FlushFails
  /\ GiveUp

\* Every write after an error fails.
WriteRefused ==
  /\ todo # <<>> /\ bufErr
  /\ GiveUp
  /\ UNCHANGED output

\* Slips: only Close flushes; only Encode flushes.
FlushAtClose == running = "Close"

FlushAtEncode == running = "Encode" /\ kind = "calendar"

FlushAtEnd == running = "Close" \/ kind = "calendar"

\* All lines are written: the call flushes and succeeds.
Finish ==
  /\ running # "none" /\ todo = <<>>
  /\ IF FlushAtEnd
     THEN FlushOK /\ buf' = <<>>
     ELSE UNCHANGED output
  /\ closed' = (running = "Close")
  /\ acked' = IF running = "Encode" THEN Append(acked, item) ELSE acked
  /\ Return("ok")
  /\ UNCHANGED <<kind, header, headerWritten, calls>>

\* The final flush fails, now or because an earlier one did.
FinishFails ==
  /\ running # "none" /\ todo = <<>>
  /\ FlushAtEnd
  /\ \/ FlushFails
     \/ bufErr /\ UNCHANGED output
  /\ GiveUp

Next ==
  \/ \E prodid \in ProdIDs : SetHeader(prodid)
  \/ \E i \in Items : Encode(i)
  \/ Close
  \/ Buffer \/ MakeRoom \/ CannotMakeRoom \/ WriteRefused
  \/ Finish \/ FinishFails

Spec == Init /\ [][Next]_vars

-----------------------------------------------------------------------------
(* Correctness. *)

\* Whatever the sink accepted, and however often calls were repeated after it
\* failed, is the beginning of one well-formed document: one header, then whole
\* items in the order of their calls, the last one possibly cut short.
WireIsADocumentPrefix ==
  \E i \in Items :
    IsPrefix(wire, Document(acked) \o ItemLines(i))
    \/ IsPrefix(wire, Document(acked) \o TrailerLines)

\* What a nil error promises is on the wire: a component, which the calendar
\* encoder writes immediately, from its Encode on; everything from Close on, and
\* nothing changes it afterwards.
AcknowledgedIsOnWire ==
  /\ kind = "calendar" /\ acked # <<>> => IsPrefix(Document(acked), wire)
  /\ closed => wire = Document(acked) \o TrailerLines
=============================================================================
