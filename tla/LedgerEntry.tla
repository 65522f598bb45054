----------------------------- MODULE LedgerEntry -----------------------------
(***************************************************************************)
(* Ledger components and the pure operators of package supersession.       *)
(*                                                                         *)
(* A component is a record of the properties the supersession code reads;  *)
(* "body" stands for every other property.  An absent property is NoValue, *)
(* the empty string is Empty, and X-VSTAR-HASH holds the canonical content *)
(* it was computed from: SHA-256 is taken to be collision free.            *)
(*                                                                         *)
(* An instant is a number of ticks, TicksPerSecond to the second, and      *)
(* ZeroTime is Go's zero time.Time.  The RFC 5545 wire form of an instant  *)
(* is its second; seconds after LastSecond (year 9999) render with a       *)
(* five-digit year, which ParseTime rejects.                               *)
(***************************************************************************)
EXTENDS Integers, Sequences

CONSTANTS
  TargetUIDs,      \* the non-empty UIDs of the components being superseded
  Statuses,        \* non-empty X-VSTAR-EFFECTIVE-STATUS values
  Bodies,          \* contents of the properties the ledger code never reads
  NoValue,         \* an absent property; also an unparseable DTSTAMP
  Empty,           \* the empty string
  Trimmed,         \* per UID or status, what strings.TrimSpace leaves of it
  TicksPerSecond,  \* clock resolution of the caller's time.Time
  LastSecond       \* the last second with a four-digit year

ASSUME LedgerAssumption ==
  /\ TicksPerSecond \in Nat \ {0}
  /\ LastSecond \in Nat
  /\ NoValue \notin TargetUIDs \cup Statuses \cup Bodies \cup {Empty} \cup Nat
  /\ Empty \notin TargetUIDs
  /\ Trimmed[Empty] = Empty

-----------------------------------------------------------------------------
(* Instants and their wire form. *)

ZeroTime == 0

SecondOf(t) == t \div TicksPerSecond

FormatTime(t) == IF t = ZeroTime THEN NoValue ELSE SecondOf(t)

ParseTime(raw) == IF raw \in 1..LastSecond THEN raw ELSE ZeroTime

-----------------------------------------------------------------------------
(* Components. *)

UIDs == TargetUIDs \cup {Empty}

Content(c) == [c EXCEPT !.hash = NoValue]

SetXVSTAR(c) == [c EXCEPT !.hash = Content(c)]

VerifyXVSTAR(c) == c.hash = Content(c)

\* A VTODO built by its constructor, or a later version of it: the target of
\* supersession entries.
Todo(uid, body) ==
  [type |-> "VTODO", uid |-> uid, dtstamp |-> NoValue, related |-> NoValue,
   super |-> FALSE, status |-> NoValue, body |-> body, hash |-> NoValue]

\* Slip: the UID names the hour, not the second.
UIDToTheHour(targetUID, status, t) ==
  SetXVSTAR([type |-> "VJOURNAL", uid |-> <<targetUID, SecondOf(t) \div 3600>>,
             dtstamp |-> FormatTime(t), related |-> targetUID, super |-> TRUE,
             status |-> status, body |-> NoValue, hash |-> NoValue])

\* Slip: the entry is stamped before its status is set.
StampedBeforeStatus(targetUID, status, t) ==
  [SetXVSTAR([type |-> "VJOURNAL", uid |-> <<targetUID, SecondOf(t)>>,
              dtstamp |-> FormatTime(t), related |-> targetUID, super |-> TRUE,
              status |-> NoValue, body |-> NoValue, hash |-> NoValue])
   EXCEPT !.status = status]

\* The entry that records "target has this status since t".  Its UID names the
\* target and the second of t, its DTSTAMP the same second on the wire.
SupersessionJournal(targetUID, status, t) ==
  SetXVSTAR([type |-> "VJOURNAL", uid |-> <<targetUID, SecondOf(t)>>,
             dtstamp |-> FormatTime(t), related |-> targetUID, super |-> TRUE,
             status |-> status, body |-> NoValue, hash |-> NoValue])

\* Slip: the gate refuses a missing hash and trusts any other.
RefusesUnstampedOnly(target) == target.hash = NoValue

\* Whether Supersedes refuses the target.
TargetCorrupted(target) == target.hash # NoValue /\ ~VerifyXVSTAR(target)

-----------------------------------------------------------------------------
(* The projection of a ledger. *)

EntryTime(e) == ParseTime(e.dtstamp)

\* The entries Superseded considers for uid.
Matches(e, uid) ==
  /\ e.type = "VJOURNAL"
  /\ e.related = uid
  /\ e.super
  /\ e.status # NoValue

Candidates(ledger, uid) == {i \in DOMAIN ledger : Matches(ledger[i], uid)}

\* Slip: the ledger's order alone decides.
EarlierPlace(ledger, j, i) == j <= i

\* Slip: the first of the entries of one second wins.
FirstOfSecond(ledger, j, i) ==
  \/ EntryTime(ledger[j]) < EntryTime(ledger[i])
  \/ EntryTime(ledger[j]) = EntryTime(ledger[i]) /\ i <= j

\* Entry j loses to entry i: it is older, or as old and not later in the ledger.
NotAfter(ledger, j, i) ==
  \/ EntryTime(ledger[j]) < EntryTime(ledger[i])
  \/ EntryTime(ledger[j]) = EntryTime(ledger[i]) /\ j <= i

Latest(ledger, uid) ==
  {i \in Candidates(ledger, uid) :
     \A j \in Candidates(ledger, uid) : NotAfter(ledger, j, i)}

\* The status Superseded reports, NoValue for its ok=false.
Superseded(ledger, uid) ==
  IF uid = Empty \/ Latest(ledger, uid) = {}
  THEN NoValue
  ELSE ledger[CHOOSE i \in Latest(ledger, uid) : TRUE].status

\* The first n components of a ledger: the slice a caller held when it had n.
Prefix(ledger, n) == [i \in 1..n |-> ledger[i]]

-----------------------------------------------------------------------------
(* What validate.Validate says of one ledger entry: supersession discipline  *)
(* (VS030, VS031) and the hash (VS003 absent, VS010 stale).                  *)

\* Slip: each component overwrites the answer of the one before.
LastHasUID(ledger, uid) == ledger # <<>> /\ ledger[Len(ledger)].uid = uid

LedgerContainsUID(ledger, uid) == \E i \in DOMAIN ledger : ledger[i].uid = uid

\* No property, or one whose value is nothing but space.
Blank(value) == value = NoValue \/ Trimmed[value] = Empty

\* RELATED-TO is trimmed before it is looked up, the UIDs of the ledger are not.
SupersessionDiagnostics(ledger, e) ==
  IF e.type # "VJOURNAL" \/ ~e.super
  THEN {}
  ELSE (IF Blank(e.related) \/ Blank(e.status) THEN {"VS030"} ELSE {})
       \cup
       (IF /\ ~Blank(e.related)
           /\ ~LedgerContainsUID(ledger, Trimmed[e.related])
        THEN {"VS031"} ELSE {})

HashDiagnostics(e) ==
  (IF e.hash = NoValue THEN {"VS003"} ELSE {})
  \cup (IF TargetCorrupted(e) THEN {"VS010"} ELSE {})

Diagnostics(ledger, e) == SupersessionDiagnostics(ledger, e) \cup HashDiagnostics(e)
=============================================================================
