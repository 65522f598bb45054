----------------------------- MODULE MCLedgerScan -----------------------------
(* A small instance of LedgerScan. *)
EXTENDS LedgerScan

CONSTANTS s1, s2, u1, u2

Journal(related, super, status, stamp) ==
  [type |-> "VJOURNAL", uid |-> NoValue, dtstamp |-> stamp, related |-> related,
   super |-> super, status |-> status, body |-> NoValue, hash |-> NoValue]

\* Entries about u1 in two seconds and without a usable DTSTAMP, one per reason
\* to be passed over, and one about another target.
MCEntries ==
  {Journal(u1, TRUE, s, t) : s \in {s1, s2}, t \in {1, 2, NoValue}}
  \cup {Journal(u2, TRUE, s2, 2), Journal(NoValue, TRUE, s1, 2),
        Journal(u1, FALSE, s1, 2), Journal(u1, TRUE, NoValue, 2),
        [Journal(u1, TRUE, s1, 2) EXCEPT !.type = "VTODO"]}

MCStatuses == {s1, s2}
MCTargets  == {u1, u2}

\* No value of this ledger has space around it.
MCTrimmed == [v \in MCTargets \cup MCStatuses \cup {Empty} |-> v]
=============================================================================
