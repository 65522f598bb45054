------------------------------ MODULE Projection ------------------------------
(***************************************************************************)
(* What supersession.Superseded promises a reader: while the ledger grows, *)
(* a question about a UID is answered with the status of the latest        *)
(* matching entry, by DTSTAMP and then by position, of the slice the       *)
(* reader passed - in one step, whatever was appended since.               *)
(***************************************************************************)
EXTENDS LedgerEntry

CONSTANTS
  Entries,    \* the components that may reach the ledger
  MaxLedger   \* bound: length of the ledger

VARIABLES
  ledger,
  asked,      \* the UID being asked about, NoValue between questions
  upto,       \* the length of the slice the question is about
  answer      \* the last answer, NoValue for ok=false

projectionVars == <<ledger, asked, upto, answer>>

Init ==
  /\ ledger = <<>>
  /\ asked = NoValue
  /\ upto = 0
  /\ answer = NoValue

Grow ==
  /\ Len(ledger) < MaxLedger
  /\ \E e \in Entries : ledger' = Append(ledger, e)
  /\ UNCHANGED <<asked, upto, answer>>

Ask(uid) ==
  /\ asked = NoValue
  /\ asked' = uid
  /\ upto' = Len(ledger)
  /\ UNCHANGED <<ledger, answer>>

Answer ==
  /\ asked # NoValue
  /\ answer' = Superseded(Prefix(ledger, upto), asked)
  /\ asked' = NoValue
  /\ UNCHANGED <<ledger, upto>>

Next == Grow \/ (\E uid \in UIDs : Ask(uid)) \/ Answer

Spec == Init /\ [][Next]_projectionVars /\ WF_projectionVars(Answer)
=============================================================================
