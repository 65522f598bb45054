--------------------------- MODULE MCSupersession ---------------------------
(* Small instances of Supersession. *)
EXTENDS Supersession, TLC

CONSTANTS u1, padded, s1, blank, b1, b2

MCTargets  == {u1}
MCStatuses == {s1, blank}
MCBodies   == {b1, b2}

\* Bodies are only compared with each other.
BodySymmetry == Permutations(MCBodies)

\* A journal another program wrote: a wire DTSTAMP that does not parse, no hash.
ForeignJournal(u, status, super, stamp) ==
  [type |-> "VJOURNAL", uid |-> u, dtstamp |-> stamp, related |-> u,
   super |-> super, status |-> status, body |-> NoValue, hash |-> NoValue]

\* Unparseable DTSTAMP; no status; a plain journal of the same target.
MCForeign ==
  {ForeignJournal(u1, s1, TRUE, NoValue), ForeignJournal(u1, NoValue, TRUE, 3),
   ForeignJournal(u1, blank, FALSE, 3)}

\* A UID with a space at its end, a status of spaces only, and values with
\* nothing to trim.
MCTrimmed ==
  [v \in {u1, padded, s1, blank, Empty} |->
     IF v = blank THEN Empty ELSE IF v = padded THEN u1 ELSE v]


\* Two instants of one second, a later second, the zero time, and a second past
\* year 9999.
MCInstants == {0, 4, 5, 6, 18}
=============================================================================
