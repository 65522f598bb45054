----------------------------- MODULE Supersession -----------------------------
(***************************************************************************)
(* Writers that change statuses by appending to a shared ledger (packages  *)
(* supersession, hashing, validate).                                       *)
(*                                                                         *)
(* Callers hold working copies of the targets, which they may edit behind  *)
(* the hash, restamp or strip of their hash.  A writer builds an entry     *)
(* with Supersedes and appends it later: other writers' entries, foreign   *)
(* entries and the targets themselves may reach the ledger in between.     *)
(***************************************************************************)
EXTENDS LedgerEntry, FiniteSets, Functions

CONSTANTS
  Writers,
  Instants,        \* the instants callers pass to Supersedes
  ForeignEntries,  \* entries other programs put in the ledger
  MaxLedger        \* bound: length of the ledger

VARIABLES
  target,   \* the callers' working copy of each target
  draft,    \* per writer, the entry it has built and not yet appended
  refused,  \* the writers whose last call returned ErrTargetCorrupted
  ledger,   \* the ledger, a slice of components
  stamped   \* history: the content each target had when last stamped

vars == <<target, draft, refused, ledger, stamped>>

CompTypes == {"VTODO", "VJOURNAL"}

Contents ==
  [type : CompTypes, uid : UIDs \cup (UIDs \X Nat), dtstamp : Nat \cup {NoValue},
   related : UIDs \cup {NoValue}, super : BOOLEAN,
   status : Statuses \cup {NoValue, Empty}, body : Bodies \cup {NoValue},
   hash : {NoValue}]

Components ==
  [type : CompTypes, uid : UIDs \cup (UIDs \X Nat), dtstamp : Nat \cup {NoValue},
   related : UIDs \cup {NoValue}, super : BOOLEAN,
   status : Statuses \cup {NoValue, Empty}, body : Bodies \cup {NoValue},
   hash : Contents \cup {NoValue}]

ASSUME SupersessionAssumption ==
  /\ Bodies # {}
  /\ Instants \subseteq Nat
  /\ ForeignEntries \subseteq Components
  /\ NoValue \notin Components \cup Contents
  /\ MaxLedger \in Nat

TypeOK ==
  /\ target \in [UIDs -> Components]
  /\ draft \in [Writers -> Components \cup {NoValue}]
  /\ refused \subseteq Writers
  /\ ledger \in Seq(Components)
  /\ stamped \in [UIDs -> Contents]

Init ==
  /\ target \in {[u \in UIDs |-> SetXVSTAR(Todo(u, b))] : b \in Bodies}
  /\ draft = [w \in Writers |-> NoValue]
  /\ refused = {}
  /\ ledger = <<>>
  /\ stamped = [u \in UIDs |-> Content(target[u])]

-----------------------------------------------------------------------------
(* What callers do to their working copy of a target. *)

\* Component.Set, Add or Remove, without a helper: the hash is left alone.
Edit(u, b) ==
  /\ target' = [target EXCEPT ![u].body = b]
  /\ UNCHANGED <<draft, refused, ledger, stamped>>

\* Any mutating helper, or hashing.SetXVSTAR itself.
Restamp(u) ==
  /\ target' = [target EXCEPT ![u] = SetXVSTAR(@)]
  /\ stamped' = [stamped EXCEPT ![u] = Content(target[u])]
  /\ UNCHANGED <<draft, refused, ledger>>

StripHash(u) ==
  /\ target' = [target EXCEPT ![u].hash = NoValue]
  /\ UNCHANGED <<draft, refused, ledger, stamped>>

-----------------------------------------------------------------------------
(* The writers. *)

\* supersession.Supersedes on an intact or unstamped target.
Supersedes(w, u, status, t) ==
  /\ draft[w] = NoValue
  /\ ~TargetCorrupted(target[u])
  /\ draft' = [draft EXCEPT ![w] = SupersessionJournal(target[u].uid, status, t)]
  /\ refused' = refused \ {w}
  /\ UNCHANGED <<target, ledger, stamped>>

\* supersession.Supersedes returning ErrTargetCorrupted.
RefuseCorrupted(w, u) ==
  /\ draft[w] = NoValue
  /\ TargetCorrupted(target[u])
  /\ refused' = refused \cup {w}
  /\ UNCHANGED <<target, draft, ledger, stamped>>

HasRoom == Len(ledger) < MaxLedger

\* The writer appends the entry it built.
Publish(w) ==
  /\ draft[w] # NoValue
  /\ HasRoom
  /\ ledger' = Append(ledger, draft[w])
  /\ draft' = [draft EXCEPT ![w] = NoValue]
  /\ UNCHANGED <<target, refused, stamped>>

\* The writer fails before its append: the entry is lost.
Abandon(w) ==
  /\ draft[w] # NoValue
  /\ draft' = [draft EXCEPT ![w] = NoValue]
  /\ UNCHANGED <<target, refused, ledger, stamped>>

\* A target, in the form the caller holds, enters the ledger.
PublishTarget(u) ==
  /\ HasRoom
  /\ ledger' = Append(ledger, target[u])
  /\ UNCHANGED <<target, draft, refused, stamped>>

AppendForeign(e) ==
  /\ HasRoom
  /\ ledger' = Append(ledger, e)
  /\ UNCHANGED <<target, draft, refused, stamped>>

Next ==
  \/ \E u \in UIDs, b \in Bodies : Edit(u, b)
  \/ \E u \in UIDs : Restamp(u)
  \/ \E u \in UIDs : StripHash(u)
  \/ \E w \in Writers, u \in UIDs, s \in Statuses \cup {Empty}, t \in Instants :
       Supersedes(w, u, s, t)
  \/ \E w \in Writers, u \in UIDs : RefuseCorrupted(w, u)
  \/ \E w \in Writers : Publish(w)
  \/ \E w \in Writers : Abandon(w)
  \/ \E u \in UIDs : PublishTarget(u)
  \/ \E e \in ForeignEntries : AppendForeign(e)

Spec == Init /\ [][Next]_vars

-----------------------------------------------------------------------------
(* What the ledger promises. *)

OwnJournals == {i \in DOMAIN ledger :
                  ledger[i].type = "VJOURNAL" /\ ledger[i] \notin ForeignEntries}

\* A target edited since it was last stamped, and still carrying that hash, is
\* never the subject of a new entry: every entry a writer obtains is about a
\* target whose content is the stamped one, or that carries no hash at all.
TamperedNeverSuperseded ==
  [][\A w \in Writers :
       draft'[w] \notin {draft[w], NoValue} =>
         LET u == draft'[w].related IN
         target[u].hash # NoValue => Content(target[u]) = stamped[u]]_vars

\* An entry appended to the ledger decides its target's status if it is at
\* least as recent, on the wire, as the entry that decided it before, and
\* changes nothing otherwise; it never changes the status of another target.
\* So a delayed append cannot undo a later decision.
LaterDecisionPrevails ==
  [][\A w \in Writers : Publish(w) =>
       \A u \in TargetUIDs :
         LET e == draft[w]
             beaten == \A i \in Latest(ledger, u) :
                         EntryTime(ledger[i]) <= EntryTime(e)
         IN Superseded(ledger', u) =
              IF e.related = u /\ beaten THEN e.status ELSE Superseded(ledger, u)]_vars

\* Two replicas that hold the same entries in different orders report the same
\* status of a target, unless two entries with different statuses share the
\* most recent second: second resolution is all that appends in a different
\* order can make visible.
OrderDecidesOnlyTies ==
  \A p \in Bijection(DOMAIN ledger, DOMAIN ledger), u \in TargetUIDs :
    LET replica == [i \in DOMAIN ledger |-> ledger[p[i]]]
        tied == {i \in Candidates(ledger, u) :
                   \A j \in Latest(ledger, u) :
                     EntryTime(ledger[i]) = EntryTime(ledger[j])}
    IN Cardinality({ledger[i].status : i \in tied}) <= 1
         => Superseded(replica, u) = Superseded(ledger, u)

\* The entry's target is in the ledger and has the UID the entry names.
TargetHeld(e) == e.related # Empty /\ LedgerContainsUID(ledger, e.related)

\* An entry built by Supersedes raises no diagnostic in a ledger that holds its
\* target, if the status is more than space and the target's UID has no space
\* around it: Supersedes takes both as they are, the validator trims them.
CleanOnceResolvable ==
  \A i \in OwnJournals :
    LET e == ledger[i] IN
    /\ TargetHeld(e)
    /\ ~Blank(e.status)
    /\ Trimmed[e.related] = e.related
    => Diagnostics(ledger, e) = {}

\* As the ledger grows the diagnostics of the entries it already holds only
\* disappear: an entry that precedes its target heals when the target arrives.
VerdictsNeverWorsen ==
  [][\A i \in DOMAIN ledger :
       Diagnostics(ledger', ledger'[i]) \subseteq Diagnostics(ledger, ledger[i])]_vars

\* Two entries with the same UID are about the same target and tie in time, so
\* a UID collision never hides an older decision behind a newer one.
SameUIDTies ==
  \A i, j \in OwnJournals :
    ledger[i].uid = ledger[j].uid =>
      /\ ledger[i].related = ledger[j].related
      /\ EntryTime(ledger[i]) = EntryTime(ledger[j])
=============================================================================
