------------------------- MODULE Supersession_proofs -------------------------
(***************************************************************************)
(* The ledger's promises, for any number of writers, targets, statuses and *)
(* instants; and Superseded, the loop over a ledger, is correct for every  *)
(* ledger: its loop invariant, and the refinement of the one-step answer.  *)
(***************************************************************************)
EXTENDS Supersession, LedgerScan, SequenceLemmas, FiniteSetTheorems

LEMMA EntryTimeNat == ASSUME NEW e PROVE EntryTime(e) \in Nat
BY LedgerAssumption DEF EntryTime, ParseTime, ZeroTime

LEMMA SecondIsNat == ASSUME NEW t \in Nat PROVE SecondOf(t) \in Nat
BY LedgerAssumption DEF SecondOf

\* Stamping a component changes its hash to its content and nothing else, and
\* a stamped component verifies.
LEMMA StampVerifies ==
  ASSUME NEW c \in Components
  PROVE  /\ Content(c) \in Contents
         /\ SetXVSTAR(c) \in Components
         /\ SetXVSTAR(c).hash = Content(c)
         /\ Content(SetXVSTAR(c)) = Content(c)
         /\ SetXVSTAR(c).type = c.type
         /\ SetXVSTAR(c).uid = c.uid
         /\ VerifyXVSTAR(SetXVSTAR(c))
BY DEF Components, Contents, Content, SetXVSTAR, VerifyXVSTAR

LEMMA TodoTyped ==
  ASSUME NEW u \in UIDs, NEW b \in Bodies PROVE Todo(u, b) \in Components
BY DEF Todo, Components, CompTypes

\* The entry Supersedes builds, property by property.
LEMMA JournalShape ==
  ASSUME NEW u \in UIDs, NEW s \in Statuses \cup {Empty}, NEW t \in Nat
  PROVE  LET e == SupersessionJournal(u, s, t) IN
         /\ e \in Components
         /\ e.type = "VJOURNAL"
         /\ e.uid = <<u, SecondOf(t)>>
         /\ e.dtstamp = FormatTime(t)
         /\ e.related = u
         /\ e.super
         /\ e.status = s
         /\ e.hash # NoValue
         /\ VerifyXVSTAR(e)
<1> DEFINE plain == [type |-> "VJOURNAL", uid |-> <<u, SecondOf(t)>>,
                     dtstamp |-> FormatTime(t), related |-> u, super |-> TRUE,
                     status |-> s, body |-> NoValue, hash |-> NoValue]
<1>1. FormatTime(t) \in Nat \cup {NoValue}
  BY SecondIsNat DEF FormatTime
<1>2. plain \in Components
  BY <1>1, SecondIsNat DEF Components, CompTypes
<1>3. SupersessionJournal(u, s, t) = SetXVSTAR(plain)
  BY DEF SupersessionJournal
<1>4. plain.status = s /\ plain.dtstamp = FormatTime(t) /\ plain.related = u /\ plain.super
  OBVIOUS
<1>5. Content(plain) # NoValue
  BY <1>2, StampVerifies, SupersessionAssumption
<1>6. /\ SupersessionJournal(u, s, t).hash = Content(plain)
      /\ SupersessionJournal(u, s, t) \in Components
      /\ VerifyXVSTAR(SupersessionJournal(u, s, t))
  BY <1>2, <1>3, StampVerifies
<1> QED BY <1>5, <1>6 DEF SupersessionJournal, SetXVSTAR

-----------------------------------------------------------------------------
(* The inductive invariant. *)

\* Where everything in the system comes from: working copies are versions of a
\* target whose hash, if any, is the last stamp; drafts and own journals were
\* built by Supersedes.
Built(e) ==
  \E u \in UIDs, s \in Statuses \cup {Empty}, t \in Nat :
    e = SupersessionJournal(u, s, t)

HashIsStamp ==
  \A u \in UIDs :
    /\ target[u].type = "VTODO"
    /\ target[u].uid = u
    /\ target[u].hash # NoValue => target[u].hash = stamped[u]

Provenance ==
  /\ HashIsStamp
  /\ \A w \in Writers : draft[w] # NoValue => Built(draft[w])
  /\ \A i \in OwnJournals : Built(ledger[i])

\* Where an appended component leaves the others.
LEMMA AppendFacts ==
  ASSUME NEW S, NEW l \in Seq(S), NEW e \in S
  PROVE  /\ Append(l, e) \in Seq(S)
         /\ Len(Append(l, e)) = Len(l) + 1
         /\ DOMAIN l = 1..Len(l)
         /\ DOMAIN Append(l, e) = DOMAIN l \cup {Len(l) + 1}
         /\ Len(l) + 1 \notin DOMAIN l
         /\ Append(l, e)[Len(l) + 1] = e
         /\ \A i \in DOMAIN l : Append(l, e)[i] = l[i] /\ i < Len(l) + 1
OBVIOUS

\* Every step that touches the ledger appends one typed component to it.
LEMMA LedgerGrows ==
  ASSUME TypeOK, [Next]_vars
  PROVE  \/ ledger' = ledger
         \/ \E e \in Components : ledger' = Append(ledger, e)
<1> USE DEF TypeOK
<1>1. ASSUME NEW w \in Writers, Publish(w)
      PROVE  \E e \in Components : ledger' = Append(ledger, e)
  BY <1>1 DEF Publish
<1>2. ASSUME NEW u \in UIDs, PublishTarget(u)
      PROVE  \E e \in Components : ledger' = Append(ledger, e)
  BY <1>2 DEF PublishTarget
<1>3. ASSUME NEW e \in ForeignEntries, AppendForeign(e)
      PROVE  \E f \in Components : ledger' = Append(ledger, f)
  BY <1>3, SupersessionAssumption DEF AppendForeign
<1> QED
  BY <1>1, <1>2, <1>3 DEF Next, vars, Edit, Restamp, StripHash, Supersedes,
     RefuseCorrupted, Abandon

IInv == TypeOK /\ Provenance

\* Initially every working copy is freshly stamped and nothing is drafted.
LEMMA IInvInit == Init => IInv
<1> SUFFICES ASSUME Init PROVE IInv
  OBVIOUS
<1>1. PICK b \in Bodies : target = [u \in UIDs |-> SetXVSTAR(Todo(u, b))]
  BY DEF Init
<1>2. \A u \in UIDs : /\ target[u] \in Components
                     /\ Content(target[u]) \in Contents
                     /\ target[u].hash = Content(target[u])
                     /\ target[u].type = "VTODO" /\ target[u].uid = u
  <2> SUFFICES ASSUME NEW u \in UIDs
               PROVE  /\ target[u] \in Components
                      /\ Content(target[u]) \in Contents
                      /\ target[u].hash = Content(target[u])
                      /\ target[u].type = "VTODO" /\ target[u].uid = u
    OBVIOUS
  <2>1. Todo(u, b) \in Components
    BY TodoTyped
  <2>2. target[u] = SetXVSTAR(Todo(u, b))
    BY <1>1
  <2> QED BY <2>1, <2>2, StampVerifies DEF Todo
<1>3. target \in [UIDs -> Components]
  BY <1>1, <1>2
<1>4. TypeOK
  BY <1>2, <1>3 DEF Init, TypeOK
<1>5. HashIsStamp
  BY <1>2 DEF Init, HashIsStamp
<1> QED BY <1>4, <1>5 DEF Init, IInv, Provenance, OwnJournals

\* Steps on a working copy keep it a version of its target.
LEMMA CopySteps ==
  ASSUME IInv, NEW u \in UIDs,
         (\E b \in Bodies : Edit(u, b)) \/ Restamp(u) \/ StripHash(u)
  PROVE  IInv'
<1> USE DEF IInv, TypeOK
<1>1. UNCHANGED <<draft, refused, ledger>>
  BY DEF Edit, Restamp, StripHash
<1> DEFINE CopiesFine == /\ target' \in [UIDs -> Components]
                         /\ stamped' \in [UIDs -> Contents]
                         /\ HashIsStamp'
<1>2. CopiesFine
  <2>1. ASSUME NEW b \in Bodies, Edit(u, b) PROVE CopiesFine
    <3>1. [target[u] EXCEPT !.body = b] \in Components
      BY DEF Components
    <3> QED BY <2>1, <3>1 DEF Edit, Provenance, HashIsStamp, Components
  <2>2. CASE Restamp(u)
    <3>1. /\ SetXVSTAR(target[u]) \in Components
          /\ Content(target[u]) \in Contents
          /\ SetXVSTAR(target[u]).hash = Content(target[u])
          /\ SetXVSTAR(target[u]).type = target[u].type
          /\ SetXVSTAR(target[u]).uid = target[u].uid
      BY StampVerifies
    <3> QED BY <2>2, <3>1 DEF Restamp, Provenance, HashIsStamp
  <2>3. CASE StripHash(u)
    <3>1. [target[u] EXCEPT !.hash = NoValue] \in Components
      BY DEF Components
    <3> QED BY <2>3, <3>1 DEF StripHash, Provenance, HashIsStamp, Components
  <2> QED BY <2>1, <2>2, <2>3
<1>3. OwnJournals' = OwnJournals
  BY <1>1 DEF OwnJournals
<1> QED BY <1>1, <1>2, <1>3 DEF Provenance

\* A draft comes from Supersedes on an uncorrupted target.
LEMMA DraftSteps ==
  ASSUME IInv, NEW w \in Writers,
         \/ \E u \in UIDs, s \in Statuses \cup {Empty}, t \in Instants :
              Supersedes(w, u, s, t)
         \/ \E u \in UIDs : RefuseCorrupted(w, u)
         \/ Abandon(w)
  PROVE  IInv'
<1> USE DEF IInv, TypeOK
<1>1. UNCHANGED <<target, stamped, ledger>>
  BY DEF Supersedes, RefuseCorrupted, Abandon
<1>2. OwnJournals' = OwnJournals /\ HashIsStamp'
  BY <1>1 DEF OwnJournals, Provenance, HashIsStamp
<1>3. ASSUME NEW u \in UIDs, NEW s \in Statuses \cup {Empty}, NEW t \in Instants,
             Supersedes(w, u, s, t)
      PROVE  IInv'
  <2>1. target[u].uid = u /\ t \in Nat
    BY SupersessionAssumption DEF Provenance, HashIsStamp
  <2>2. SupersessionJournal(u, s, t) \in Components
    BY <2>1, JournalShape
  <2>3. Built(SupersessionJournal(u, s, t))
    BY <2>1 DEF Built
  <2>4. draft' = [draft EXCEPT ![w] = SupersessionJournal(u, s, t)]
    BY <1>3, <2>1 DEF Supersedes
  <2>5. draft' \in [Writers -> Components \cup {NoValue}]
        /\ \A v \in Writers : draft'[v] # NoValue => Built(draft'[v])
    BY <2>2, <2>3, <2>4 DEF Provenance
  <2> QED BY <1>1, <1>2, <1>3, <2>5 DEF Provenance, Supersedes
<1>4. ASSUME NEW u \in UIDs, RefuseCorrupted(w, u) PROVE IInv'
  BY <1>1, <1>2, <1>4 DEF RefuseCorrupted, Provenance
<1>5. CASE Abandon(w)
  BY <1>1, <1>2, <1>5 DEF Abandon, Provenance
<1> QED BY <1>3, <1>4, <1>5

\* What reaches the ledger is a draft, a target or a foreign entry.
LEMMA AppendSteps ==
  ASSUME IInv,
         \/ \E w \in Writers : Publish(w)
         \/ \E u \in UIDs : PublishTarget(u)
         \/ \E e \in ForeignEntries : AppendForeign(e)
  PROVE  IInv'
<1> USE DEF IInv, TypeOK
<1>1. UNCHANGED <<target, refused, stamped>>
  BY DEF Publish, PublishTarget, AppendForeign
<1>2. /\ draft' \in [Writers -> Components \cup {NoValue}]
      /\ \A w \in Writers : draft'[w] # NoValue => Built(draft'[w])
  BY DEF Publish, PublishTarget, AppendForeign, Provenance
<1> DEFINE Accounted(e) == /\ ledger' = Append(ledger, e)
                           /\ e.type = "VJOURNAL" /\ e \notin ForeignEntries
                                => Built(e)
<1>3. PICK e \in Components : Accounted(e)
  <2>1. ASSUME NEW w \in Writers, Publish(w) PROVE \E e \in Components : Accounted(e)
    BY <2>1 DEF Publish, Provenance
  <2>2. ASSUME NEW u \in UIDs, PublishTarget(u) PROVE \E e \in Components : Accounted(e)
    BY <2>2 DEF PublishTarget, Provenance, HashIsStamp
  <2>3. ASSUME NEW f \in ForeignEntries, AppendForeign(f) PROVE \E e \in Components : Accounted(e)
    BY <2>3, SupersessionAssumption DEF AppendForeign
  <2> QED BY <2>1, <2>2, <2>3
<1>4. ledger' \in Seq(Components)
  BY <1>3
<1>5. \A i \in OwnJournals' : Built(ledger'[i])
  BY <1>3, AppendFacts DEF OwnJournals, Provenance
<1>6. HashIsStamp'
  BY <1>1 DEF Provenance, HashIsStamp
<1> QED BY <1>1, <1>2, <1>4, <1>5, <1>6 DEF Provenance

LEMMA IInvStep == IInv /\ [Next]_vars => IInv'
<1>1. ASSUME IInv, UNCHANGED vars PROVE IInv'
  BY <1>1 DEF vars, IInv, TypeOK, Provenance, HashIsStamp, OwnJournals
<1> QED BY <1>1, CopySteps, DraftSteps, AppendSteps DEF Next

LEMMA Invariant == Spec => []IInv
BY IInvInit, IInvStep, PTL DEF Spec

\* The types of the ledger, the working copies and the drafts.
THEOREM TypeCorrect == Spec => []TypeOK
BY Invariant, PTL DEF IInv

-----------------------------------------------------------------------------
(* Integrity. *)

\* No entry is ever built for a target edited behind its hash.
THEOREM TamperedTargetsRefused == Spec => TamperedNeverSuperseded
<1> DEFINE Intact(w) ==
      draft'[w] \notin {draft[w], NoValue} =>
        LET u == draft'[w].related IN
        target[u].hash # NoValue => Content(target[u]) = stamped[u]
<1>1. IInv /\ [Next]_vars => \A w \in Writers : Intact(w)
  <2> SUFFICES ASSUME IInv, [Next]_vars, NEW w \in Writers,
                      draft'[w] \notin {draft[w], NoValue}
               PROVE  Intact(w)
    OBVIOUS
  <2> USE DEF IInv, TypeOK
  <2>1. PICK u \in UIDs, s \in Statuses \cup {Empty}, t \in Instants :
          Supersedes(w, u, s, t)
    BY DEF Next, vars, Edit, Restamp, StripHash, Supersedes, RefuseCorrupted,
           Publish, Abandon, PublishTarget, AppendForeign
  <2>2. target[u].uid = u /\ t \in Nat
    BY SupersessionAssumption DEF Provenance, HashIsStamp
  <2>3. draft'[w].related = u
    BY <2>1, <2>2, JournalShape DEF Supersedes
  <2>4. target[u].hash # NoValue => target[u].hash = stamped[u]
    BY DEF Provenance, HashIsStamp
  <2>5. ~TargetCorrupted(target[u])
    BY <2>1 DEF Supersedes
  <2> QED BY <2>3, <2>4, <2>5 DEF TargetCorrupted, VerifyXVSTAR
<1> QED BY <1>1, Invariant, PTL DEF Spec, TamperedNeverSuperseded

\* An own journal in the ledger, property by property.
LEMMA OwnJournalShape ==
  ASSUME IInv, NEW i \in OwnJournals
  PROVE  \E u \in UIDs, s \in Statuses \cup {Empty}, t \in Nat :
           /\ ledger[i].uid = <<u, SecondOf(t)>>
           /\ ledger[i].dtstamp = FormatTime(t)
           /\ ledger[i].related = u
           /\ ledger[i].super
           /\ ledger[i].status = s
           /\ ledger[i].hash # NoValue
           /\ VerifyXVSTAR(ledger[i])
<1>1. PICK u \in UIDs, s \in Statuses \cup {Empty}, t \in Nat :
        ledger[i] = SupersessionJournal(u, s, t)
  BY DEF IInv, Provenance, Built
<1> QED BY <1>1, JournalShape

\* Entries built here are clean in every ledger that holds their target, when
\* the UID has no space around it and the status is not blank.
THEOREM OwnJournalsClean == Spec => []CleanOnceResolvable
<1>1. IInv => CleanOnceResolvable
  <2> SUFFICES ASSUME IInv, NEW i \in OwnJournals,
                      ledger[i].related # Empty, ~Blank(ledger[i].status),
                      Trimmed[ledger[i].related] = ledger[i].related,
                      LedgerContainsUID(ledger, ledger[i].related)
               PROVE  Diagnostics(ledger, ledger[i]) = {}
    BY DEF CleanOnceResolvable, TargetHeld
  <2>1. /\ ledger[i].related \in UIDs /\ ledger[i].status \in Statuses \cup {Empty}
        /\ ledger[i].hash # NoValue /\ VerifyXVSTAR(ledger[i])
    BY OwnJournalShape
  <2>2. ~Blank(ledger[i].related)
    BY <2>1, LedgerAssumption DEF UIDs, Blank
  <2>3. SupersessionDiagnostics(ledger, ledger[i]) = {}
    BY <2>2 DEF SupersessionDiagnostics
  <2>4. HashDiagnostics(ledger[i]) = {}
    BY <2>1 DEF HashDiagnostics, TargetCorrupted
  <2> QED BY <2>3, <2>4 DEF Diagnostics
<1> QED BY <1>1, Invariant, PTL

\* A UID collision is only ever a tie: the UID carries the target and the very
\* second that the DTSTAMP carries.
THEOREM CollisionsTie == Spec => []SameUIDTies
<1>1. IInv => SameUIDTies
  <2> SUFFICES ASSUME IInv, NEW i \in OwnJournals, NEW j \in OwnJournals,
                      ledger[i].uid = ledger[j].uid
               PROVE  /\ ledger[i].related = ledger[j].related
                      /\ EntryTime(ledger[i]) = EntryTime(ledger[j])
    BY DEF SameUIDTies
  <2>1. PICK u \in UIDs, t \in Nat :
          /\ ledger[i].uid = <<u, SecondOf(t)>>
          /\ ledger[i].dtstamp = FormatTime(t)
          /\ ledger[i].related = u
    BY OwnJournalShape
  <2>2. PICK v \in UIDs, r \in Nat :
          /\ ledger[j].uid = <<v, SecondOf(r)>>
          /\ ledger[j].dtstamp = FormatTime(r)
          /\ ledger[j].related = v
    BY OwnJournalShape
  <2>3. u = v /\ SecondOf(t) = SecondOf(r)
    <3>1. <<u, SecondOf(t)>> = <<v, SecondOf(r)>>
      BY <2>1, <2>2
    <3>2. \A a, b, c, d : <<a, b>> = <<c, d>> => a = c /\ b = d
      OBVIOUS
    <3> QED BY <3>1, <3>2, Zenon
  <2>4. \A x \in Nat : ParseTime(FormatTime(x)) = ParseTime(SecondOf(x))
    <3>1. SecondOf(0) = 0
      BY LedgerAssumption DEF SecondOf
    <3>2. NoValue \notin 1..LastSecond
      BY LedgerAssumption
    <3> QED BY <3>1, <3>2, LedgerAssumption DEF ParseTime, FormatTime, ZeroTime
  <2> QED BY <2>1, <2>2, <2>3, <2>4 DEF EntryTime
<1> QED BY <1>1, Invariant, PTL

-----------------------------------------------------------------------------
(* The projection as the ledger grows. *)

\* A target with candidates has a latest one.  A ledger grows one entry at a
\* time, so this is an invariant where it would be an induction on a sequence.
LatestExists ==
  \A u \in TargetUIDs : Candidates(ledger, u) # {} => Latest(ledger, u) # {}

\* At most one entry is the latest.
LEMMA LatestUniqueIn ==
  ASSUME NEW l, DOMAIN l \subseteq Nat, NEW u,
         NEW j \in Latest(l, u), NEW k \in Latest(l, u)
  PROVE  j = k
<1>1. NotAfter(l, j, k) /\ NotAfter(l, k, j) /\ j \in Nat /\ k \in Nat
  BY DEF Latest, Candidates
<1> QED BY <1>1, EntryTimeNat DEF NotAfter

LEMMA LatestUnique ==
  ASSUME NEW l \in Seq(Components), NEW u,
         NEW j \in Latest(l, u), NEW k \in Latest(l, u)
  PROVE  j = k
<1>1. DOMAIN l \subseteq Nat
  OBVIOUS
<1> QED BY <1>1, LatestUniqueIn

\* The entry beats what decided u so far.
Beats(l, e, u) ==
  Matches(e, u) /\ \A i \in Latest(l, u) : EntryTime(l[i]) <= EntryTime(e)

\* What one appended entry does to the latest candidate.
LEMMA AppendLatest ==
  ASSUME NEW l \in Seq(Components), NEW e \in Components, NEW u,
         Candidates(l, u) # {} => Latest(l, u) # {}
  PROVE  Latest(Append(l, e), u) =
           IF Beats(l, e, u) THEN {Len(l) + 1} ELSE Latest(l, u)
<1> DEFINE m == Append(l, e)
           n == Len(l) + 1
<1>1. /\ DOMAIN m = DOMAIN l \cup {n} /\ n \notin DOMAIN l /\ m[n] = e
      /\ \A i \in DOMAIN l : m[i] = l[i] /\ i < n /\ i \in Nat
      /\ n \in Nat
  BY AppendFacts
<1> HIDE DEF m, n
<1>2. Candidates(m, u) = Candidates(l, u) \cup (IF Matches(e, u) THEN {n} ELSE {})
  BY <1>1 DEF Candidates
<1>3. \A j, k \in Candidates(l, u) : NotAfter(m, j, k) <=> NotAfter(l, j, k)
  BY <1>1 DEF Candidates, NotAfter
<1>4. CASE ~Matches(e, u)
  BY <1>2, <1>3, <1>4 DEF Latest, Beats, m
<1>5. CASE Beats(l, e, u)
  <2>1. \A j \in Candidates(l, u) : EntryTime(l[j]) <= EntryTime(e)
    <3> SUFFICES ASSUME NEW j \in Candidates(l, u)
                 PROVE  EntryTime(l[j]) <= EntryTime(e)
      OBVIOUS
    <3>1. PICK k \in Latest(l, u) : NotAfter(l, j, k)
      BY DEF Latest
    <3>2. EntryTime(l[k]) <= EntryTime(e)
      BY <1>5 DEF Beats
    <3> QED BY <3>1, <3>2, EntryTimeNat DEF NotAfter
  <2>2. \A j \in Candidates(l, u) : NotAfter(m, j, n) /\ ~NotAfter(m, n, j)
    BY <2>1, <1>1, EntryTimeNat DEF NotAfter, Candidates
  <2>3. NotAfter(m, n, n)
    BY <1>1 DEF NotAfter
  <2>4. Candidates(m, u) = Candidates(l, u) \cup {n}
    BY <1>2, <1>5 DEF Beats
  <2>5. Latest(m, u) = {n}
    BY <2>2, <2>3, <2>4 DEF Latest
  <2> QED BY <2>5, <1>5 DEF m, n
<1>6. CASE Matches(e, u) /\ ~Beats(l, e, u)
  <2>1. PICK i \in Latest(l, u) : ~(EntryTime(l[i]) <= EntryTime(e))
    BY <1>6 DEF Beats
  <2>2. i \in Candidates(l, u) /\ i \in DOMAIN l
    BY DEF Latest, Candidates
  <2>3. EntryTime(m[n]) < EntryTime(m[i])
    BY <2>1, <2>2, <1>1, EntryTimeNat
  <2>4. NotAfter(m, n, i) /\ ~NotAfter(m, i, n)
    BY <2>3, EntryTimeNat DEF NotAfter
  <2>5. Latest(l, u) = {i}
    BY <2>1, LatestUnique
  <2>6. Candidates(m, u) = Candidates(l, u) \cup {n}
    BY <1>2, <1>6
  <2>7. Latest(m, u) = {i}
    BY <2>2, <2>4, <2>5, <2>6, <1>3 DEF Latest
  <2> QED BY <2>5, <2>7, <1>6 DEF m
<1> QED BY <1>4, <1>5, <1>6

\* What one appended entry does to the reported status.
LEMMA AppendSuperseded ==
  ASSUME NEW l \in Seq(Components), NEW e \in Components, NEW u \in TargetUIDs,
         Candidates(l, u) # {} => Latest(l, u) # {}
  PROVE  Superseded(Append(l, e), u) =
           IF Beats(l, e, u) THEN e.status ELSE Superseded(l, u)
<1> DEFINE m == Append(l, e)
           n == Len(l) + 1
<1>1. u # Empty
  BY LedgerAssumption
<1>2. m[n] = e /\ \A i \in DOMAIN l : m[i] = l[i]
  BY AppendFacts
<1>3. Latest(m, u) = IF Beats(l, e, u) THEN {n} ELSE Latest(l, u)
  BY AppendLatest
<1> HIDE DEF m, n
<1>4. CASE Beats(l, e, u)
  <2>1. Latest(m, u) = {n} /\ (CHOOSE i \in {n} : TRUE) = n
    BY <1>3, <1>4
  <2>2. Superseded(m, u) = m[CHOOSE i \in {n} : TRUE].status
    BY <2>1, <1>1 DEF Superseded
  <2> QED BY <2>1, <2>2, <1>2, <1>4 DEF m
<1>5. CASE ~Beats(l, e, u)
  <2>1. Latest(l, u) \subseteq DOMAIN l
    BY DEF Latest, Candidates
  <2>2. CASE Latest(l, u) = {}
    BY <2>2, <1>3, <1>5 DEF Superseded, m
  <2>3. CASE Latest(l, u) # {}
    <3>1. (CHOOSE i \in Latest(l, u) : TRUE) \in DOMAIN l
      BY <2>1, <2>3
    <3> QED BY <3>1, <2>3, <1>1, <1>2, <1>3, <1>5 DEF Superseded, m
  <2> QED BY <2>2, <2>3
<1> QED BY <1>4, <1>5

LEMMA LatestExistsStep ==
  ASSUME IInv, LatestExists, [Next]_vars PROVE LatestExists'
<1>1. CASE ledger' = ledger
  BY <1>1 DEF LatestExists
<1>2. ASSUME NEW e \in Components, ledger' = Append(ledger, e) PROVE LatestExists'
  <2> SUFFICES ASSUME NEW u \in TargetUIDs, Candidates(ledger', u) # {}
               PROVE  Latest(ledger', u) # {}
    BY DEF LatestExists
  <2>1. ledger \in Seq(Components)
    BY DEF IInv, TypeOK
  <2>2. Latest(ledger', u) =
          IF Beats(ledger, e, u) THEN {Len(ledger) + 1} ELSE Latest(ledger, u)
    BY <2>1, <1>2, AppendLatest DEF LatestExists
  <2>3. CASE Candidates(ledger, u) # {}
    BY <2>2, <2>3 DEF LatestExists
  <2>4. CASE Candidates(ledger, u) = {}
    <3>1. Latest(ledger, u) = {}
      BY <2>4 DEF Latest
    <3>2. Matches(e, u)
      BY <2>1, <2>4, <1>2, AppendFacts DEF Candidates
    <3> QED BY <3>1, <3>2, <2>2 DEF Beats
  <2> QED BY <2>3, <2>4
<1> QED BY <1>1, <1>2, LedgerGrows DEF IInv

LEMMA LatestAlwaysExists == Spec => []LatestExists
<1>1. Init => LatestExists
  BY DEF Init, LatestExists, Candidates
<1> QED BY <1>1, Invariant, LatestExistsStep, PTL DEF Spec

\* The status of a target is changed by the append of an entry exactly when
\* that entry is about it and not older than the one in force.
THEOREM LaterDecisionsPrevail == Spec => LaterDecisionPrevails
<1> DEFINE Prevails(w) ==
      Publish(w) =>
        \A u \in TargetUIDs :
          LET e == draft[w]
              beaten == \A i \in Latest(ledger, u) :
                          EntryTime(ledger[i]) <= EntryTime(e)
          IN Superseded(ledger', u) =
               IF e.related = u /\ beaten THEN e.status ELSE Superseded(ledger, u)
<1>1. IInv /\ LatestExists => \A w \in Writers : Prevails(w)
  <2> SUFFICES ASSUME IInv, LatestExists, NEW w \in Writers, Publish(w),
                      NEW u \in TargetUIDs
               PROVE  LET e == draft[w]
                          beaten == \A i \in Latest(ledger, u) :
                                      EntryTime(ledger[i]) <= EntryTime(e)
                      IN Superseded(ledger', u) =
                           IF e.related = u /\ beaten
                           THEN e.status ELSE Superseded(ledger, u)
    OBVIOUS
  <2> DEFINE e == draft[w]
  <2>1. /\ e \in Components /\ ledger \in Seq(Components)
        /\ ledger' = Append(ledger, e) /\ Built(e)
    BY DEF IInv, TypeOK, Publish, Provenance
  <2>2. PICK v \in UIDs, s \in Statuses \cup {Empty}, t \in Nat :
          e = SupersessionJournal(v, s, t)
    BY <2>1 DEF Built
  <2>3. /\ e.type = "VJOURNAL" /\ e.super /\ e.status = s
    BY <2>2, JournalShape
  <2>4. s # NoValue
    BY LedgerAssumption
  <2> HIDE DEF e
  <2>5. Matches(e, u) <=> e.related = u
    BY <2>3, <2>4 DEF Matches
  <2>6. Superseded(ledger', u) =
          IF Beats(ledger, e, u) THEN e.status ELSE Superseded(ledger, u)
    BY <2>1, AppendSuperseded DEF LatestExists
  <2> QED BY <2>5, <2>6 DEF Beats, e
<1> QED BY <1>1, Invariant, LatestAlwaysExists, PTL DEF LaterDecisionPrevails

\* Appending never adds a diagnostic to an entry already in the ledger.
THEOREM VerdictsOnlyHeal == Spec => VerdictsNeverWorsen
<1> DEFINE Heals ==
      \A i \in DOMAIN ledger :
        Diagnostics(ledger', ledger'[i]) \subseteq Diagnostics(ledger, ledger[i])
<1>1. IInv /\ [Next]_vars => Heals
  <2> SUFFICES ASSUME IInv, [Next]_vars PROVE Heals
    OBVIOUS
  <2>1. CASE ledger' = ledger
    BY <2>1
  <2>2. ASSUME NEW e \in Components, ledger' = Append(ledger, e) PROVE Heals
    <3>1. ledger \in Seq(Components)
      BY DEF IInv, TypeOK
    <3>2. \A i \in DOMAIN ledger : i \in DOMAIN ledger' /\ ledger'[i] = ledger[i]
      BY <2>2, <3>1, AppendFacts
    <3>3. \A uid : LedgerContainsUID(ledger, uid) => LedgerContainsUID(ledger', uid)
      BY <3>2 DEF LedgerContainsUID
    <3>4. ASSUME NEW c
          PROVE  SupersessionDiagnostics(ledger', c)
                   \subseteq SupersessionDiagnostics(ledger, c)
      BY <3>3 DEF SupersessionDiagnostics
    <3> QED BY <3>2, <3>4 DEF Diagnostics
  <2> QED BY <2>1, <2>2, LedgerGrows DEF IInv
<1> QED BY <1>1, Invariant, PTL DEF Spec, VerdictsNeverWorsen

-----------------------------------------------------------------------------
(* Replicas that hold the same entries in other orders. *)

LEMMA AtMostOne ==
  ASSUME NEW S, IsFiniteSet(S), Cardinality(S) <= 1, NEW a \in S, NEW b \in S
  PROVE  a = b
<1> SUFFICES ASSUME a # b PROVE FALSE
  OBVIOUS
<1>1. Cardinality({a, b}) = 2
  <2>1. IsFiniteSet({b}) /\ Cardinality({b}) = 1 /\ a \notin {b}
    BY FS_Singleton
  <2>2. Cardinality({b} \cup {a}) = 2
    BY <2>1, FS_AddElement
  <2>3. {b} \cup {a} = {a, b}
    OBVIOUS
  <2> QED BY <2>2, <2>3
<1>2. IsFiniteSet({a, b}) /\ {a, b} \subseteq S
  BY FS_Subset
<1>3. Cardinality({a, b}) <= Cardinality(S)
  BY <1>2, FS_Subset
<1>4. Cardinality(S) \in Nat
  BY FS_CardinalityType
<1> QED BY <1>1, <1>3, <1>4

\* The entry a replica decides by ties, on the wire, with the ledger's.
LEMMA ReplicaLatest ==
  ASSUME NEW l \in Seq(Components), NEW u, NEW p \in Bijection(DOMAIN l, DOMAIN l),
         NEW best \in Latest(l, u),
         NEW s \in Seq(Components), Len(s) = Len(l),
         \A i \in DOMAIN l : s[i] = l[p[i]]
  PROVE  \E x \in Latest(s, u) :
           /\ s[x] = l[p[x]] /\ p[x] \in Candidates(l, u)
           /\ EntryTime(l[p[x]]) = EntryTime(l[best])
<1>1. /\ p \in [DOMAIN l -> DOMAIN l]
      /\ \A i \in DOMAIN l : \E k \in DOMAIN l : p[k] = i
  BY DEF Bijection, Injection, Surjection
<1>2. /\ DOMAIN l = 1..Len(l) /\ Len(l) \in Nat
      /\ \A i \in DOMAIN l : l[i] \in Components
  BY LenProperties, ElementOfSeq
<1>3. DOMAIN s = 1..Len(l)
  BY LenProperties
<1>4. \A i \in 1..Len(l) : s[i] = l[p[i]] /\ p[i] \in 1..Len(l)
  BY <1>1, <1>2
<1>5. \A i \in 1..Len(l) : i \in Candidates(s, u) <=> p[i] \in Candidates(l, u)
  BY <1>2, <1>3, <1>4 DEF Candidates
<1>6. /\ best \in Candidates(l, u) /\ best \in 1..Len(l)
      /\ \A j \in Candidates(l, u) : NotAfter(l, j, best)
  BY <1>2 DEF Latest, Candidates
<1> DEFINE Tied == {i \in 1..Len(l) : /\ p[i] \in Candidates(l, u)
                                     /\ EntryTime(l[p[i]]) = EntryTime(l[best])}
<1>7. Tied # {}
  <2>1. PICK k \in 1..Len(l) : p[k] = best
    BY <1>1, <1>2, <1>6
  <2> QED BY <1>6, <2>1
<1>8. PICK x \in Tied : \A y \in Tied : y <= x
  BY <1>2, <1>7, GreatestUpTo
<1>9. x \in Candidates(s, u)
  BY <1>5, <1>8
<1>10. ASSUME NEW j \in Candidates(s, u) PROVE NotAfter(s, j, x)
  <2>1. j \in 1..Len(l) /\ p[j] \in Candidates(l, u)
    BY <1>3, <1>5 DEF Candidates
  <2>2. \/ EntryTime(l[p[j]]) < EntryTime(l[best])
        \/ EntryTime(l[p[j]]) = EntryTime(l[best])
    BY <1>6, <2>1 DEF NotAfter
  <2>3. CASE EntryTime(l[p[j]]) = EntryTime(l[best])
    <3>1. j <= x
      BY <1>8, <2>1, <2>3
    <3> QED BY <1>4, <1>8, <2>1, <2>3, <3>1 DEF NotAfter
  <2>4. CASE EntryTime(l[p[j]]) < EntryTime(l[best])
    BY <1>4, <1>8, <2>1, <2>4 DEF NotAfter
  <2> QED BY <2>2, <2>3, <2>4
<1>11. x \in Latest(s, u)
  BY <1>9, <1>10 DEF Latest
<1> QED BY <1>3, <1>4, <1>8, <1>11

\* Replicas that hold the same entries report the same status, in whatever order
\* they hold them, unless entries with different statuses share the most recent
\* second.
THEOREM OrderBreaksTiesOnly == Spec => []OrderDecidesOnlyTies
<1>1. IInv /\ LatestExists => OrderDecidesOnlyTies
  <2> SUFFICES ASSUME IInv, LatestExists,
                      NEW p \in Bijection(DOMAIN ledger, DOMAIN ledger), NEW u \in TargetUIDs
               PROVE  LET replica == [i \in DOMAIN ledger |-> ledger[p[i]]]
                          tied == {i \in Candidates(ledger, u) :
                                     \A j \in Latest(ledger, u) :
                                       EntryTime(ledger[i]) = EntryTime(ledger[j])}
                      IN Cardinality({ledger[i].status : i \in tied}) <= 1
                           => Superseded(replica, u) = Superseded(ledger, u)
    BY DEF OrderDecidesOnlyTies
  <2> DEFINE replica == [i \in DOMAIN ledger |-> ledger[p[i]]]
             tied == {i \in Candidates(ledger, u) :
                        \A j \in Latest(ledger, u) :
                          EntryTime(ledger[i]) = EntryTime(ledger[j])}
             statuses == {ledger[i].status : i \in tied}
  <2>1. ledger \in Seq(Components) /\ u # Empty
    BY LedgerAssumption DEF IInv, TypeOK
  <2>2. PICK s \in Seq(Components) :
          /\ s = replica /\ Len(s) = Len(ledger)
          /\ \A i \in DOMAIN ledger : s[i] = ledger[p[i]]
    <3>1. /\ p \in [DOMAIN ledger -> DOMAIN ledger] /\ DOMAIN ledger = 1..Len(ledger)
          /\ Len(ledger) \in Nat /\ \A i \in DOMAIN ledger : ledger[i] \in Components
      BY <2>1, LenProperties, ElementOfSeq DEF Bijection, Surjection
    <3>2. replica \in Seq(Components) /\ Len(replica) = Len(ledger)
      BY <3>1
    <3>3. \A i \in DOMAIN ledger : replica[i] = ledger[p[i]]
      OBVIOUS
    <3> HIDE DEF replica
    <3> QED BY <3>2, <3>3
  <2>3. CASE Latest(ledger, u) = {}
    <3>1. Candidates(ledger, u) = {}
      BY <2>3 DEF LatestExists
    <3>2. \A i \in DOMAIN ledger : p[i] \in DOMAIN ledger
      BY DEF Bijection, Injection, Surjection
    <3>3. Candidates(s, u) = {}
      BY <2>2, <3>1, <3>2 DEF Candidates
    <3>4. Latest(s, u) = {}
      BY <3>3 DEF Latest
    <3> QED BY <2>2, <2>3, <3>4 DEF Superseded
  <2>4. CASE Latest(ledger, u) # {}
    <3>1. PICK best \in Latest(ledger, u) : best = CHOOSE i \in Latest(ledger, u) : TRUE
      BY <2>4
    <3>2. PICK x \in Latest(s, u) :
            /\ s[x] = ledger[p[x]] /\ p[x] \in Candidates(ledger, u)
            /\ EntryTime(ledger[p[x]]) = EntryTime(ledger[best])
      <4>1. /\ ledger \in Seq(Components) /\ Len(s) = Len(ledger)
            /\ \A i \in DOMAIN ledger : s[i] = ledger[p[i]]
        BY <2>1, <2>2
      <4> HIDE DEF replica, tied, statuses
      <4>2. \A l \in Seq(Components) :
              \A q \in Bijection(DOMAIN l, DOMAIN l), b \in Latest(l, u),
                 r \in Seq(Components) :
                Len(r) = Len(l) /\ (\A i \in DOMAIN l : r[i] = l[q[i]])
                  => \E x \in Latest(r, u) :
                       /\ r[x] = l[q[x]] /\ q[x] \in Candidates(l, u)
                       /\ EntryTime(l[q[x]]) = EntryTime(l[b])
        <5> TAKE l \in Seq(Components)
        <5> TAKE q \in Bijection(DOMAIN l, DOMAIN l), b \in Latest(l, u),
                 r \in Seq(Components)
        <5> HAVE Len(r) = Len(l) /\ (\A i \in DOMAIN l : r[i] = l[q[i]])
        <5> QED BY ONLY ReplicaLatest, q \in Bijection(DOMAIN l, DOMAIN l),
                        l \in Seq(Components), r \in Seq(Components), b \in Latest(l, u),
                        Len(r) = Len(l), \A i \in DOMAIN l : r[i] = l[q[i]], SMTT(60)
      <4> QED BY <4>1, <4>2
    <3>3. x = CHOOSE i \in Latest(s, u) : TRUE
      BY <3>2, LatestUnique
    <3>4. best \in tied /\ p[x] \in tied
      <4>1. \A j \in Latest(ledger, u) : j = best
        BY <2>1, LatestUnique
      <4>2. best \in Candidates(ledger, u)
        BY DEF Latest
      <4> QED BY <3>2, <4>1, <4>2
    <3>5. IsFiniteSet(statuses)
      <4>1. tied \subseteq 1..Len(ledger) /\ IsFiniteSet(1..Len(ledger))
        <5>1. DOMAIN ledger = 1..Len(ledger) /\ Len(ledger) \in Int /\ 1 \in Int
          BY <2>1, LenProperties
        <5>2. IsFiniteSet(1..Len(ledger))
          BY <5>1, FS_Interval
        <5> QED BY <5>1, <5>2 DEF Candidates
      <4>2. IsFiniteSet(tied)
        BY <4>1, FS_Subset
      <4>3. [i \in tied |-> ledger[i].status] \in Surjection(tied, statuses)
        <5> HIDE DEF tied
        <5> QED BY DEF Surjection
      <4> HIDE DEF tied, statuses
      <4> QED BY <4>2, <4>3, FS_Surjection
    <3>6. ASSUME Cardinality(statuses) <= 1
          PROVE  ledger[best].status = ledger[p[x]].status
      <4>1. ledger[best].status \in statuses /\ ledger[p[x]].status \in statuses
        BY <3>4
      <4> HIDE DEF statuses
      <4> QED BY <3>5, <3>6, <4>1, AtMostOne
    <3>7. Superseded(ledger, u) = ledger[best].status
      BY <2>1, <2>4, <3>1 DEF Superseded
    <3>8. Superseded(s, u) = s[x].status
      BY <2>1, <3>2, <3>3 DEF Superseded
    <3> QED BY <2>2, <3>2, <3>6, <3>7, <3>8
  <2> QED BY <2>3, <2>4
<1> QED BY <1>1, Invariant, LatestAlwaysExists, PTL

-----------------------------------------------------------------------------
(* The loop of Superseded, step by step: its invariant, and the refinement  *)
(* of the one-step answer of Projection, for every ledger.                  *)

\* The types of the loop's variables (the counters stay inside the slice the
\* reader passed, whatever writers append meanwhile).
THEOREM ScanTypeCorrect == ScanSpec => []ScanTypeOK
<1>1. ScanInit => ScanTypeOK
  <2> SUFFICES ASSUME ScanInit PROVE ScanTypeOK
    OBVIOUS
  <2>1. scanned \in Seq(Entries) /\ Len(scanned) = 0
    BY DEF ScanInit
  <2>2. bestT \in Nat
    BY DEF ScanInit, ZeroTime
  <2>3. position \in 1..upto + 1
    BY DEF ScanInit
  <2>4. upto \in 0..Len(scanned)
    BY <2>1 DEF ScanInit
  <2> QED BY <2>1, <2>2, <2>3, <2>4 DEF ScanInit, ScanTypeOK
<1>2. ScanTypeOK /\ [ScanNext]_scanVars => ScanTypeOK'
  <2> SUFFICES ASSUME ScanTypeOK, [ScanNext]_scanVars PROVE ScanTypeOK'
    OBVIOUS
  <2> USE DEF ScanTypeOK
  <2>1. CASE Grow
    <3>1. PICK e \in Entries : scanned' = Append(scanned, e)
      BY <2>1 DEF Grow
    <3>2. scanned' \in Seq(Entries) /\ Len(scanned') = Len(scanned) + 1
      BY <3>1
    <3> QED BY <2>1, <3>2 DEF Grow, loop
  <2>2. ASSUME NEW uid \in UIDs, Call(uid) PROVE ScanTypeOK'
    <3>1. bestT' \in Nat
      BY <2>2 DEF Call, ZeroTime
    <3>2. position' \in 1..upto' + 1 /\ upto' \in 0..Len(scanned')
      BY <2>2 DEF Call
    <3> QED BY <2>2, <3>1, <3>2 DEF Call
  <2>3. CASE ReturnNoUID
    BY <2>3 DEF ReturnNoUID, loop
  <2>4. CASE Skip
    BY <2>4 DEF Skip, AtEntry
  <2>5. CASE Take
    <3>1. scanned[position] \in Entries
      BY <2>5 DEF Take, AtEntry
    <3>2. bestT' \in Nat /\ bestStatus' \in Statuses \cup {Empty, NoValue}
      BY <2>5, <3>1, EntryTimeNat, ScanAssumption DEF Take
    <3> QED BY <2>5, <3>2 DEF Take, AtEntry
  <2>6. CASE Keep
    BY <2>6 DEF Keep, AtEntry
  <2>7. CASE Return
    BY <2>7 DEF Return, loop
  <2>8. CASE UNCHANGED scanVars
    BY <2>8 DEF scanVars
  <2> QED BY <2>1, <2>2, <2>3, <2>4, <2>5, <2>6, <2>7, <2>8 DEF ScanNext, Loop
<1> QED BY <1>1, <1>2, PTL DEF ScanSpec

-----------------------------------------------------------------------------
\* The loop invariant is preserved by every step: by the reader's because Take
\* replaces the best entry exactly when the next one is not before it, by the
\* writers' because they only append behind the slice being read.
LEMMA LoopInvariantStep ==
  ASSUME ScanTypeOK, BestIsLatestSeen, [ScanNext]_scanVars PROVE BestIsLatestSeen'
<1> USE DEF ScanTypeOK
<1>1. CASE Grow
  <2>1. PICK e \in Entries : scanned' = Append(scanned, e)
    BY <1>1 DEF Grow
  <2>2. \A k \in 1..position - 1 : scanned'[k] = scanned[k]
    BY <2>1
  <2>3. UNCHANGED <<asked, position, bestT, bestStatus, found>>
    BY <1>1 DEF Grow, loop
  <2>4. Seen' = Seen
    BY <2>2, <2>3 DEF Seen
  <2>5. \A j, k \in Seen : NotAfter(scanned, j, k) => NotAfter(scanned', j, k)
    BY <2>2 DEF Seen, NotAfter
  <2>6. \A k \in Seen : scanned'[k] = scanned[k]
    BY <2>2 DEF Seen
  <2> QED BY <2>3, <2>4, <2>5, <2>6 DEF BestIsLatestSeen
<1>2. ASSUME NEW uid \in UIDs, Call(uid) PROVE BestIsLatestSeen'
  <2>1. Seen' = {} /\ ~found'
    BY <1>2 DEF Call, Seen
  <2> QED BY <2>1 DEF BestIsLatestSeen
<1>3. CASE ReturnNoUID \/ Return
  BY <1>3, LedgerAssumption DEF ReturnNoUID, Return, BestIsLatestSeen
<1>4. CASE Skip
  <2>1. Seen' = Seen
    BY <1>4 DEF Skip, AtEntry, Seen
  <2> QED BY <1>4, <2>1 DEF Skip, BestIsLatestSeen
<1>5. CASE Take
  <2>1. Seen' = Seen \cup {position} /\ position \notin Seen
    BY <1>5 DEF Take, AtEntry, Seen
  <2>2. /\ bestT' = EntryTime(scanned'[position])
        /\ bestStatus' = scanned'[position].status
        /\ found' /\ asked' = asked /\ asked \in TargetUIDs /\ scanned' = scanned
    BY <1>5 DEF Take, AtEntry
  <2>3. \A j \in Seen : NotAfter(scanned, j, position)
    <3> SUFFICES ASSUME NEW j \in Seen PROVE NotAfter(scanned, j, position)
      OBVIOUS
    <3>1. j < position
      BY DEF Seen
    <3>2. found
      BY <2>2 DEF BestIsLatestSeen
    <3>3. ~(EntryTime(scanned[position]) < bestT)
      BY <1>5, <3>2 DEF Take, Better
    <3>4. EntryTime(scanned[j]) <= bestT
      <4>1. PICK k \in Seen : bestT = EntryTime(scanned[k]) /\ NotAfter(scanned, j, k)
        BY <2>2, <3>2 DEF BestIsLatestSeen
      <4> QED BY <4>1, EntryTimeNat DEF NotAfter
    <3> QED BY <3>1, <3>3, <3>4, EntryTimeNat DEF NotAfter, Seen
  <2>4. NotAfter(scanned, position, position)
    BY DEF NotAfter
  <2> QED BY <2>1, <2>2, <2>3, <2>4 DEF BestIsLatestSeen
<1>6. CASE Keep
  <2>1. Seen' = Seen \cup {position}
    BY <1>6 DEF Keep, AtEntry, Seen
  <2>2. found /\ EntryTime(scanned[position]) < bestT /\ asked \in TargetUIDs
    BY <1>6 DEF Keep, AtEntry, Better
  <2>3. PICK k \in Seen : /\ bestT = EntryTime(scanned[k])
                          /\ bestStatus = scanned[k].status
                          /\ \A j \in Seen : NotAfter(scanned, j, k)
    BY <2>2 DEF BestIsLatestSeen
  <2>4. NotAfter(scanned, position, k)
    BY <2>2, <2>3 DEF NotAfter
  <2>5. UNCHANGED <<scanned, asked, bestT, bestStatus, found>>
    BY <1>6 DEF Keep
  <2> QED BY <2>1, <2>2, <2>3, <2>4, <2>5 DEF BestIsLatestSeen
<1>7. CASE UNCHANGED scanVars
  BY <1>7 DEF scanVars, BestIsLatestSeen, Seen
<1> QED BY <1>1, <1>2, <1>3, <1>4, <1>5, <1>6, <1>7 DEF ScanNext, Loop

\* The loop invariant holds for every ledger and every growth of it.
THEOREM LoopInvariant == ScanSpec => []BestIsLatestSeen
<1>1. ScanInit => BestIsLatestSeen
  BY LedgerAssumption DEF ScanInit, BestIsLatestSeen
<1> QED BY <1>1, ScanTypeCorrect, LoopInvariantStep, PTL DEF ScanSpec

-----------------------------------------------------------------------------
\* When the loop is over, what it is about to return is what the declarative
\* projection of the slice says.
LEMMA ReturnIsSuperseded ==
  ASSUME ScanTypeOK, BestIsLatestSeen, asked \in TargetUIDs, position > upto
  PROVE  Superseded(Prefix(scanned, upto), asked) = IF found THEN bestStatus ELSE NoValue
<1> DEFINE p == Prefix(scanned, upto)
<1>1. position - 1 = upto
  BY DEF ScanTypeOK
<1>2. DOMAIN p = 1..upto /\ \A k \in 1..upto : p[k] = scanned[k]
  BY DEF Prefix
<1>3. Candidates(p, asked) = Seen
  BY <1>1, <1>2 DEF Candidates, Seen
<1>4. \A j, k \in Seen : NotAfter(p, j, k) <=> NotAfter(scanned, j, k)
  BY <1>1, <1>2 DEF Seen, NotAfter
<1>5. asked # Empty
  BY LedgerAssumption
<1>6. CASE found
  <2>1. PICK k \in Seen : /\ bestStatus = scanned[k].status
                          /\ \A j \in Seen : NotAfter(scanned, j, k)
    BY <1>6 DEF BestIsLatestSeen
  <2>2. k \in Latest(p, asked)
    BY <2>1, <1>3, <1>4 DEF Latest
  <2>3. DOMAIN p \subseteq Nat
    BY <1>2 DEF ScanTypeOK
  <2>4. \A m \in Latest(p, asked) : m = k
    BY <2>2, <2>3, LatestUniqueIn
  <2>5. (CHOOSE m \in Latest(p, asked) : TRUE) = k
    BY <2>2, <2>4
  <2>6. p[k].status = bestStatus
    BY <2>1, <1>1, <1>2 DEF Seen
  <2> HIDE DEF p
  <2>7. Superseded(p, asked) = p[CHOOSE m \in Latest(p, asked) : TRUE].status
    BY <1>5, <2>2 DEF Superseded
  <2> QED BY <1>6, <2>5, <2>6, <2>7 DEF p
<1>7. CASE ~found
  <2>1. Latest(p, asked) = {}
    BY <1>7, <1>3 DEF Latest, BestIsLatestSeen
  <2> QED BY <1>7, <2>1 DEF Superseded
<1> QED BY <1>6, <1>7

\* Projection's own copy of the ledger operators is the one used here.
LEMMA SameOperators ==
  /\ Abstract!UIDs = UIDs
  /\ \A l, n : Abstract!Prefix(l, n) = Prefix(l, n)
  /\ \A l, uid : Abstract!Superseded(l, uid) = Superseded(l, uid)
<1>1. Abstract!UIDs = UIDs
  BY DEF Abstract!UIDs, UIDs
<1>2. \A l, n : Abstract!Prefix(l, n) = Prefix(l, n)
  BY DEF Abstract!Prefix, Prefix
<1>3. ASSUME NEW l, NEW uid
      PROVE  Abstract!Superseded(l, uid) = Superseded(l, uid)
  <2>1. \A e : Abstract!EntryTime(e) = EntryTime(e)
    BY DEF Abstract!EntryTime, EntryTime, Abstract!ParseTime, ParseTime,
           Abstract!ZeroTime, ZeroTime
  <2>2. \A j, k : Abstract!NotAfter(l, j, k) = NotAfter(l, j, k)
    BY <2>1, Zenon DEF Abstract!NotAfter, NotAfter
  <2>3. Abstract!Candidates(l, uid) = Candidates(l, uid)
    BY DEF Abstract!Candidates, Candidates, Abstract!Matches, Matches
  <2>4. Abstract!Latest(l, uid) = Latest(l, uid)
    BY <2>2, <2>3, Zenon DEF Abstract!Latest, Latest
  <2> QED BY <2>4 DEF Abstract!Superseded, Superseded
<1> QED BY <1>1, <1>2, <1>3

\* The loop refines the one-step answer: it starts where Projection starts and
\* each of its steps is a step of Projection or leaves its variables alone.
THEOREM ScanRefinesProjection ==
  ScanSpec => Abstract!Init /\ [][Abstract!Next]_(Abstract!projectionVars)
<1>1. ScanInit => Abstract!Init
  BY DEF ScanInit, Abstract!Init
<1>2. ScanTypeOK /\ BestIsLatestSeen /\ [ScanNext]_scanVars
        => [Abstract!Next]_(Abstract!projectionVars)
  <2> SUFFICES ASSUME ScanTypeOK, BestIsLatestSeen, [ScanNext]_scanVars
               PROVE  [Abstract!Next]_(Abstract!projectionVars)
    OBVIOUS
  <2> USE SameOperators DEF Abstract!Next, Abstract!projectionVars
  <2>1. CASE Grow
    BY <2>1 DEF Grow, Abstract!Grow
  <2>2. ASSUME NEW uid \in UIDs, Call(uid) PROVE Abstract!Ask(uid)
    BY <2>2 DEF Call, Abstract!Ask
  <2>3. CASE ReturnNoUID
    <3>1. Superseded(Prefix(scanned, upto), asked) = NoValue
      BY <2>3 DEF ReturnNoUID, Superseded
    <3> QED BY <2>3, <3>1, LedgerAssumption DEF ReturnNoUID, Abstract!Answer
  <2>4. CASE Skip \/ Take \/ Keep
    BY <2>4 DEF Skip, Take, Keep
  <2>5. CASE Return
    <3>1. asked \in TargetUIDs /\ position > upto /\ asked # NoValue
      BY <2>5, LedgerAssumption DEF Return
    <3>2. answer' = Superseded(Prefix(scanned, upto), asked)
      BY <2>5, <3>1, ReturnIsSuperseded DEF Return
    <3> QED BY <2>5, <3>1, <3>2 DEF Return, Abstract!Answer
  <2>6. CASE UNCHANGED scanVars
    BY <2>6 DEF scanVars
  <2> QED BY <2>1, <2>2, <2>3, <2>4, <2>5, <2>6 DEF ScanNext, Loop
<1> QED BY <1>1, <1>2, ScanTypeCorrect, LoopInvariant, PTL DEF ScanSpec
=============================================================================
