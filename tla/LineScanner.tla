------------------------------ MODULE LineScanner ------------------------------
(***************************************************************************)
(* codec/internal/contentline.Scanner: logical lines out of folded ones.   *)
(*                                                                         *)
(* A physical line is Blank, or text with or without a leading space that  *)
(* marks it as a fold; text is a sequence of pieces, so that a space alone *)
(* on its line is a fold with no text.  The reader delivers a document that *)
(* was written, or lines in any order that end anywhere.  It may fail in    *)
(* the middle of a line and deliver the rest of it when it is asked again. *)
(***************************************************************************)
EXTENDS Integers, Sequences, SequencesExt

CONSTANTS
  Pieces,     \* pieces of text
  MaxLines,   \* bound: physical lines of the input
  MaxFaults,  \* bound: times the reader fails and recovers
  Written     \* documents, with their physical lines and what they say

ASSUME ScannerAssumption ==
  /\ MaxLines \in Nat
  /\ MaxFaults \in Nat
  /\ {"EOF", "error"} \cap Pieces = {}
  /\ \A document \in Written :
       document.lines \in
         Seq([folded : BOOLEAN, text : Seq(STRING \ {"EOF", "error"})])

\* A physical line and, folded or not, its text.
PhysicalLines ==
  [folded : {TRUE}, text : {<<>>} \cup {<<p>> : p \in Pieces}]
  \cup [folded : {FALSE}, text : {<<>>} \cup {<<p>> : p \in Pieces}]

\* Lines of any kind, in no order.
Anything == [lines |-> <<>>]

IsBlank(line) == ~line.folded /\ line.text = <<>>

\* Where a line begins with a space or a tab the scanner sees a fold.
Physical(octets) ==
  IF octets # <<>> /\ octets[1] = " "
  THEN [folded |-> TRUE, text |-> Tail(octets)]
  ELSE [folded |-> FALSE, text |-> octets]

\* The octets of a physical line, with the space that folds it.
Octets(line) == Len(line.text) + IF line.folded THEN 1 ELSE 0

\* What the scanner sees of a line whose first n octets a failed read took.
Behind(line, n) ==
  IF n = 0 THEN line
  ELSE Physical(SubSeq(line.text, IF line.folded THEN n ELSE n + 1, Len(line.text)))

VARIABLES
  wire,      \* what there is to read: a document, or anything
  input,     \* the physical lines read so far, without what failed reads took
  ended,     \* whether the reader has ended
  faults,    \* times the reader has failed
  taken,     \* octets of the document's next line that failed reads took
  pending, hasPend, done,    \* the scanner's fields
  scanning,  \* whether a call of Next is running
  result,    \* what the last call returned: a line, EOF or Failure
  lines      \* history: the logical lines returned

scanner == <<pending, hasPend, done>>
reader  == <<wire, input, ended, faults, taken>>
vars    == <<reader, scanner, scanning, result, lines>>

EOF     == <<"EOF">>
Failure == <<"error">>

Init ==
  /\ wire \in {Anything} \cup Written
  /\ input = <<>>
  /\ ended = FALSE
  /\ faults = 0
  /\ taken = 0
  /\ pending = <<>>
  /\ hasPend = FALSE
  /\ done = FALSE
  /\ scanning = FALSE
  /\ result = <<>>
  /\ lines = <<>>

Return(line) ==
  /\ scanning' = FALSE
  /\ result' = line
  /\ lines' = IF line \in {EOF, Failure} THEN lines ELSE Append(lines, line)

\* Next is called; after the end of the input it reads no more.
Call ==
  /\ ~scanning
  /\ result # EOF
  /\ IF done /\ ~hasPend
     THEN Return(EOF)
     ELSE scanning' = TRUE /\ UNCHANGED <<result, lines>>
  /\ UNCHANGED <<reader, scanner>>

\* The line of the document that the reader is in, if it is in one.
NextOfDocument ==
  IF wire = Anything THEN {}
  ELSE {wire.lines[k] : k \in {Len(input) + 1} \cap DOMAIN wire.lines}

\* The physical lines that may come next.
Deliverable ==
  IF wire # Anything THEN {Behind(line, taken) : line \in NextOfDocument}
  ELSE IF Len(input) < MaxLines THEN PhysicalLines ELSE {}

Reads(line) ==
  /\ scanning /\ ~ended
  /\ input' = Append(input, line)
  /\ taken' = 0
  /\ UNCHANGED <<wire, ended, faults, done>>

\* Slip: a fold that continues nothing is dropped.
OrphanFoldDropped(line) ==
  /\ line.folded
  /\ Reads(line)
  /\ pending' = IF hasPend THEN pending \o line.text ELSE pending
  /\ UNCHANGED <<hasPend, scanning, result, lines>>

\* A fold extends the pending line, or starts one after a blank line.
ReadFold(line) ==
  /\ line.folded
  /\ Reads(line)
  /\ pending' = IF hasPend THEN pending \o line.text ELSE line.text
  /\ hasPend' = TRUE
  /\ UNCHANGED <<scanning, result, lines>>

\* Any other line ends the pending one and becomes pending itself unless blank.
ReadFresh(line) ==
  /\ ~line.folded
  /\ Reads(line)
  /\ IF hasPend \/ ~IsBlank(line)
     THEN pending' = line.text
     ELSE UNCHANGED pending
  /\ hasPend' = ~IsBlank(line)
  /\ IF hasPend /\ pending # <<>>
     THEN Return(pending)
     ELSE UNCHANGED <<scanning, result, lines>>

\* Slip: an empty pending line is skipped, as it is before the end of input.
EOFSkipsEmptyLine ==
  /\ scanning
  /\ wire # Anything => Len(input) = Len(wire.lines)
  /\ ended' = TRUE
  /\ done' = TRUE
  /\ IF hasPend /\ pending = <<>>
     THEN UNCHANGED <<pending, hasPend, scanning, result, lines>>
     ELSE /\ pending' = IF hasPend THEN <<>> ELSE pending
          /\ hasPend' = FALSE
          /\ Return(IF hasPend THEN pending ELSE EOF)
  /\ UNCHANGED <<wire, input, faults, taken>>

ReadEOF ==
  /\ scanning
  /\ wire # Anything => Len(input) = Len(wire.lines)
  /\ ended' = TRUE
  /\ done' = TRUE
  /\ pending' = IF hasPend THEN <<>> ELSE pending
  /\ hasPend' = FALSE
  /\ Return(IF hasPend /\ pending # <<>> THEN pending ELSE EOF)
  /\ UNCHANGED <<wire, input, faults, taken>>

\* The reader fails, between two physical lines or inside one: what was read of
\* that line is dropped and its rest comes next, as a line of its own; the
\* pending line is kept for the next call.  Where any line may come, so may the
\* rest of one.
ReadError ==
  /\ scanning /\ ~ended
  /\ faults < MaxFaults
  /\ faults' = faults + 1
  /\ taken' \in {taken} \cup UNION {taken..Octets(line) : line \in NextOfDocument}
  /\ Return(Failure)
  /\ UNCHANGED <<wire, input, ended, scanner>>

Read ==
  \/ \E line \in Deliverable : ReadFold(line)
  \/ \E line \in Deliverable : ReadFresh(line)
  \/ ReadEOF \/ ReadError

Next == Call \/ Read

Spec == Init /\ [][Next]_vars /\ WF_vars(Call) /\ WF_vars(Read)

-----------------------------------------------------------------------------
(* Correctness. *)

\* RFC 5545 3.1, from the positions of the physical lines alone: a logical line
\* begins at a line that is not a fold and not blank, or at a fold with only
\* folds between it and a blank line or the beginning of the input; it ends
\* before the next line that is not a fold.
Begins(in, k) ==
  ~IsBlank(in[k]) /\ (~in[k].folded \/ k = 1 \/ IsBlank(in[k - 1]))

Extent(in, k) ==
  {j \in k..Len(in) : \A m \in k + 1..j : in[m].folded}

TextFrom(in, k) ==
  FlattenSeq([j \in DOMAIN in |-> IF j \in Extent(in, k) THEN in[j].text ELSE <<>>])

\* The logical lines that are not empty, by where they begin.
LinesAt(in) ==
  [k \in DOMAIN in |->
     IF Begins(in, k) /\ TextFrom(in, k) # <<>> THEN <<TextFrom(in, k)>> ELSE <<>>]

Unfolded(in) == FlattenSeq(LinesAt(in))

\* What the scanner has returned and what it holds back together are the
\* unfolding of what it has read: no line lost, duplicated, split or joined,
\* and at io.EOF nothing is held back.  Where a read failed inside a physical
\* line, that is the unfolding with the rest of the line in its place.
ReturnedPlusPending ==
  /\ lines \o (IF hasPend /\ pending # <<>> THEN <<pending>> ELSE <<>>) = Unfolded(input)
  /\ result = EOF => ended /\ lines = Unfolded(input)

\* A caller that goes on calling gets to io.EOF.
ReachesEOF == <>(result = EOF)
=============================================================================
