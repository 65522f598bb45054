------------------------------ MODULE LedgerScan ------------------------------
(***************************************************************************)
(* supersession.Superseded step by step: the loop over the ledger that     *)
(* keeps the best entry seen so far.  Writers append to the ledger while   *)
(* the loop runs; the loop reads the slice it was called with.             *)
(***************************************************************************)
EXTENDS LedgerEntry

CONSTANTS
  Entries,    \* the components that may reach the ledger
  MaxScanned  \* bound: length of the ledger

ASSUME ScanAssumption ==
  /\ MaxScanned \in Nat
  /\ \A e \in Entries : e.status \in Statuses \cup {Empty, NoValue}

VARIABLES
  scanned,     \* the ledger, a slice of components
  asked,       \* targetUID of the running call, NoValue when none runs
  upto,        \* len(ledger) of the running call
  position,    \* the entry the loop looks at next
  bestT,
  bestStatus,
  found,
  answer       \* what the last call returned, NoValue for ok=false

loop == <<position, bestT, bestStatus, found>>
scanVars == <<scanned, asked, upto, position, bestT, bestStatus, found, answer>>

ScanTypeOK ==
  /\ scanned \in Seq(Entries)
  /\ asked \in UIDs \cup {NoValue}
  /\ upto \in 0..Len(scanned)
  /\ position \in 1..upto + 1
  /\ bestT \in Nat
  /\ bestStatus \in Statuses \cup {Empty, NoValue}
  /\ found \in BOOLEAN
  /\ answer \in Statuses \cup {Empty, NoValue}

ScanInit ==
  /\ scanned = <<>>
  /\ asked = NoValue
  /\ upto = 0
  /\ position = 1
  /\ bestT = ZeroTime
  /\ bestStatus = NoValue
  /\ found = FALSE
  /\ answer = NoValue

-----------------------------------------------------------------------------
(* The writers. *)

Grow ==
  /\ Len(scanned) < MaxScanned
  /\ \E e \in Entries : scanned' = Append(scanned, e)
  /\ UNCHANGED <<asked, upto, answer, loop>>

-----------------------------------------------------------------------------
(* The reader. *)

Call(uid) ==
  /\ asked = NoValue
  /\ asked' = uid
  /\ upto' = Len(scanned)
  /\ position' = 1
  /\ bestT' = ZeroTime
  /\ bestStatus' = NoValue
  /\ found' = FALSE
  /\ UNCHANGED <<scanned, answer>>

\* A component without a UID supersedes nothing: the loop never runs.
ReturnNoUID ==
  /\ asked = Empty
  /\ answer' = NoValue
  /\ asked' = NoValue
  /\ UNCHANGED <<scanned, upto, loop>>

AtEntry == asked \in TargetUIDs /\ position <= upto

Skip ==
  /\ AtEntry
  /\ ~Matches(scanned[position], asked)
  /\ position' = position + 1
  /\ UNCHANGED <<scanned, asked, upto, bestT, bestStatus, found, answer>>

\* Slip: an entry of the same second does not replace the best.
StrictlyAfter == ~found \/ bestT < EntryTime(scanned[position])

\* Slip: the zero time stands for "nothing found", so no undated entry is.
AfterZeroTime == bestT < EntryTime(scanned[position])

\* The first matching entry, or one that is not before the best so far.
Better == ~found \/ ~(EntryTime(scanned[position]) < bestT)

Take ==
  /\ AtEntry
  /\ Matches(scanned[position], asked)
  /\ Better
  /\ bestT' = EntryTime(scanned[position])
  /\ bestStatus' = scanned[position].status
  /\ found' = TRUE
  /\ position' = position + 1
  /\ UNCHANGED <<scanned, asked, upto, answer>>

Keep ==
  /\ AtEntry
  /\ Matches(scanned[position], asked)
  /\ ~Better
  /\ position' = position + 1
  /\ UNCHANGED <<scanned, asked, upto, bestT, bestStatus, found, answer>>

Return ==
  /\ asked \in TargetUIDs
  /\ position > upto
  /\ answer' = IF found THEN bestStatus ELSE NoValue
  /\ asked' = NoValue
  /\ UNCHANGED <<scanned, upto, loop>>

Loop == ReturnNoUID \/ Skip \/ Take \/ Keep \/ Return

ScanNext == Grow \/ (\E uid \in UIDs : Call(uid)) \/ Loop

\* The loop is straight-line code of one goroutine: once called it runs on.
ScanSpec == ScanInit /\ [][ScanNext]_scanVars /\ WF_scanVars(Loop)

-----------------------------------------------------------------------------
(* Correctness. *)

Seen == {k \in 1..position - 1 : Matches(scanned[k], asked)}

\* The loop invariant: the kept time and status are those of the latest
\* matching entry among the ones already looked at; among entries of one second
\* that is the one furthest into the ledger.
BestIsLatestSeen ==
  asked \in TargetUIDs =>
    IF found
    THEN \E k \in Seen :
           /\ bestT = EntryTime(scanned[k])
           /\ bestStatus = scanned[k].status
           /\ \A j \in Seen : NotAfter(scanned, j, k)
    ELSE Seen = {}

\* The loop implements the one-step answer of Projection.
Abstract ==
  INSTANCE Projection
    WITH ledger <- scanned, MaxLedger <- MaxScanned,
         asked <- asked, upto <- upto, answer <- answer
ImplementsProjection == Abstract!Spec
=============================================================================
