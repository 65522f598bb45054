----------------------------- MODULE CardExchange -----------------------------
(***************************************************************************)
(* A stream encoder and the reader of what it left behind.                 *)
(*                                                                         *)
(* The process that writes may end at any moment, with or without Close,   *)
(* between two calls or in the middle of one: what its sink accepted by    *)
(* then is what VCardParser and the batch parser read afterwards, and      *)
(* everything else it knew is gone.  A flush is accepted by whole lines.   *)
(* Beside that, CardStream's reader of arbitrary lines.                    *)
(***************************************************************************)
EXTENDS CardStream, SequencesExt

CONSTANTS Kinds, Items, CardOf, ProdIDs, DefaultProdID, BufferLines, MaxCalls

ASSUME EncoderAssumption ==
  /\ Kinds \subseteq {"calendar", "card"}
  /\ Items # {}
  /\ CardOf \in [Items -> [uid : Uids \cup {NoValue}, kind : CardKinds \cup {NoValue},
                          props : Seq(PropertyLines)]]
  /\ BufferLines \in Nat \ {0}
  /\ MaxCalls \in Nat

VARIABLES
  kind, header, headerWritten, closed, buf, bufErr, wire,
  running, item, todo, returned, acked, calls

Writer == INSTANCE StreamEncoder

memory == <<kind, header, headerWritten, buf, bufErr, running, item, todo, returned, calls>>
exVars == <<vars, memory, closed, wire, acked>>

ExInit ==
  /\ Writer!Init
  /\ \/ Start(NoSource)
     \/ Start(Anything) /\ kind = "card"

Write ==
  /\ source = NoSource
  /\ Writer!Next
  /\ UNCHANGED vars

\* The process ends.  Calendars are CalendarStream's to read.
Stop ==
  /\ source = NoSource
  /\ kind = "card"
  /\ source' = Text(wire)
  /\ headerWritten' = FALSE
  /\ buf' = <<>>
  /\ bufErr' = FALSE
  /\ running' = "none"
  /\ item' = Writer!NoItem
  /\ todo' = <<>>
  /\ returned' = "none"
  /\ calls' = 0
  /\ UNCHANGED <<parser, reading, kind, header, closed, wire, acked>>

NextCall ==
  /\ Call
  /\ UNCHANGED <<memory, closed, wire, acked>>

ReadLine ==
  /\ Read
  /\ UNCHANGED <<memory, closed, wire, acked>>

ExNext == Write \/ Stop \/ NextCall \/ ReadLine

\* A reader that has begun goes on; the writer may stop for good at any time.
ExSpec == ExInit /\ [][ExNext]_exVars /\ WF_exVars(NextCall) /\ WF_exVars(ReadLine)

-----------------------------------------------------------------------------
(* Correctness. *)

\* Whatever the sink accepted is the beginning of one well-formed document.
WireIsADocumentPrefix == Writer!WireIsADocumentPrefix

\* What a nil error promises is on the wire.
AcknowledgedIsOnWire == Writer!AcknowledgedIsOnWire

CardsOf(items) == [k \in DOMAIN items |-> CardOf[items[k]]]

\* The reader gets the cards that were written, whole, in order and with the
\* fields they had; an end in the middle of one costs that one, and is the only
\* error there is; and after a successful Close nothing that was acknowledged
\* is missing.
ReaderGetsWhatWasWritten ==
  source \notin {NoSource, Anything} =>
    LET whole == Cardinality({k \in DOMAIN wire : wire[k] = EndCard})
        cut   == wire # <<>> /\ Last(wire) # EndCard
    IN
    /\ \E i \in Items : IsPrefix(yielded, CardsOf(Append(acked, i)))
    /\ failed => cut /\ eof
    /\ result = "EOF" =>
         /\ Len(yielded) = whole
         /\ failed <=> cut
         /\ closed => yielded = CardsOf(acked)
=============================================================================
