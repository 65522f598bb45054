---------------------------- MODULE RecurrenceWalk ----------------------------
(***************************************************************************)
(* The evaluators of rrule/: Occurrences, Between, NextOccurrence and the  *)
(* Occurrences and Between of a Set.  All but NextOccurrence are callbacks *)
(* of one generator, walk, that goes through the periods of the rule; what *)
(* each callback does with an occurrence and what the caller gets when the *)
(* walk ends is modelled per operation.                                    *)
(*                                                                         *)
(* A step is one call, one period or one occurrence.  All, the lazy        *)
(* iterator, is walk with a caller's loop for a callback: Occurrences is   *)
(* such a loop.                                                            *)
(***************************************************************************)
EXTENDS RecurrenceExpansion, RecurrenceSeries

CONSTANTS
  Calls,          \* the calls considered
  MaxIterations   \* the budget of periods, 100000 in the code

ASSUME WalkAssumption == MaxIterations \in Nat \ {0}

VARIABLES
  call,      \* the call: op, rule and dtstart, and the arguments op has
  phase,     \* "called", "period", "occurrences", "rest" or "returned"
  base,      \* current: the base of the period
  pending,   \* the occurrences of the period still to be looked at
  produced,  \* the period yielded an occurrence
  empty,     \* consecutive periods that did not; NextOccurrence's iterations
  emitted,   \* occurrences counted towards COUNT
  explicit,  \* a Set's explicit occurrences still to be merged
  out,       \* the occurrences collected
  reply      \* what the call returned

vars == <<call, phase, base, pending, produced, empty, emitted, explicit, out,
          reply>>

walk == <<base, pending, produced, empty, emitted>>

r == call.rule

dtstart == call.dtstart

SetOps == {"Set.Occurrences", "Set.Between"}

LimitOps == {"Occurrences", "Set.Occurrences"}

WindowOps == {"Between", "Set.Between"}

\* A Set may have no rule.
HasRule == r.freq # "NONE"

Reply(occs, complete, err) ==
  [occs |-> occs, complete |-> complete, err |-> err]

SortDedupe(times) ==
  LET s == Sorted(times)
      firsts == SelectSeq(Numbers(Len(s)), LAMBDA i : i = 1 \/ s[i] # s[i - 1])
  IN  [j \in DOMAIN firsts |-> s[firsts[j]]]

ExplicitOccurrences ==
  SortDedupe((IF dtstart = ZeroTime THEN <<>> ELSE <<dtstart>>) \o call.rdate)

Excluded(t) == t \in ToSet(call.exdate)

-----------------------------------------------------------------------------
Init ==
  /\ call \in Calls
  /\ phase = "called" /\ base = dtstart
  /\ pending = <<>> /\ produced = FALSE /\ empty = 0 /\ emitted = 0
  /\ explicit = IF call.op \in SetOps THEN ExplicitOccurrences ELSE <<>>
  /\ out = <<>>
  /\ reply = Reply(<<>>, FALSE, "none")

Return(result) ==
  /\ phase' = "returned"
  /\ reply' = result

\* The arguments of a bounded expansion that do not bound it.
Unbounded ==
  \/ call.op \in LimitOps /\ call.limit < 0
  \/ call.op \in WindowOps /\ (call.end = ZeroTime \/ call.end <= call.start)

RefuseUnbounded ==
  /\ phase = "called" /\ Unbounded
  /\ Return(Reply(<<>>, FALSE, "ErrUnboundedExpansion"))
  /\ UNCHANGED <<call, walk, explicit, out>>

\* A limit of 0 is answered by Set.Occurrences before the rule is looked at
\* and by Occurrences after.
NothingWanted == call.op \in LimitOps /\ call.limit = 0

RefuseRule ==
  /\ phase = "called" /\ ~Unbounded
  /\ HasRule /\ ~CheckExpandable(r)
  /\ ~(call.op = "Set.Occurrences" /\ NothingWanted)
  /\ Return(Reply(<<>>, FALSE, "ErrUnsupportedRRule"))
  /\ UNCHANGED <<call, walk, explicit, out>>

ReturnNothing ==
  /\ phase = "called" /\ ~Unbounded /\ NothingWanted
  /\ call.op = "Set.Occurrences" \/ CheckExpandable(r)
  /\ Return(Reply(<<>>, FALSE, "none"))
  /\ UNCHANGED <<call, walk, explicit, out>>

Begin ==
  /\ phase = "called" /\ ~Unbounded /\ ~NothingWanted
  /\ HasRule => CheckExpandable(r)
  /\ phase' = IF HasRule THEN "period" ELSE "rest"
  /\ UNCHANGED <<call, walk, explicit, out, reply>>

-----------------------------------------------------------------------------
\* The budget: walk spends it on consecutive periods that yield nothing,
\* NextOccurrence on every period.
ExpandPeriod ==
  /\ phase = "period" /\ empty < MaxIterations
  /\ pending' = PeriodOccurrences(r, base, dtstart)
  /\ produced' = FALSE
  /\ phase' = "occurrences"
  /\ UNCHANGED <<call, base, empty, emitted, explicit, out, reply>>

GiveUp ==
  /\ phase = "period" /\ empty = MaxIterations
  /\ Return(Reply(<<>>, FALSE, "ErrIterationCap"))
  /\ UNCHANGED <<call, walk, explicit, out>>

\* Slip: the counter is never reset.
KeepEmpty ==
  /\ phase = "occurrences" /\ pending = <<>>
  /\ empty' = empty + 1
  /\ base' = Advance(r, base)
  /\ phase' = "period"
  /\ UNCHANGED <<call, pending, produced, emitted, explicit, out, reply>>

NextPeriod ==
  /\ phase = "occurrences" /\ pending = <<>>
  /\ empty' = IF produced THEN 0 ELSE empty + 1
  /\ base' = Advance(r, base)
  /\ phase' = "period"
  /\ UNCHANGED <<call, pending, produced, emitted, explicit, out, reply>>

Due == Head(pending)

SkipEarly ==
  /\ phase = "occurrences" /\ pending # <<>> /\ Due < dtstart
  /\ pending' = Tail(pending)
  /\ UNCHANGED <<call, phase, base, produced, empty, emitted, explicit, out,
                 reply>>

\* What the caller gets when the rule has no more occurrences, or the
\* callback wants none.  A Set has its remaining explicit ones to look at.
WalkEnds ==
  IF call.op \in SetOps
  THEN phase' = "rest" /\ UNCHANGED reply
  ELSE Return(Reply(out, call.op = "Occurrences", "none"))

PastUntil(t) == r.until # ZeroTime /\ t > r.until

Terminate ==
  /\ phase = "occurrences" /\ pending # <<>>
  /\ Due >= dtstart /\ PastUntil(Due)
  /\ WalkEnds
  /\ UNCHANGED <<call, walk, explicit, out>>

OccurrenceDue ==
  /\ phase = "occurrences" /\ pending # <<>>
  /\ Due >= dtstart /\ ~PastUntil(Due)

\* walk yields it: the period has produced, and COUNT may be reached.
Yield ==
  /\ OccurrenceDue
  /\ pending' = Tail(pending)
  /\ produced' = TRUE
  /\ emitted' = emitted + 1
  /\ UNCHANGED <<call, base, empty>>

Exhausted == r.count > 0 /\ emitted' >= r.count

\* How the walk goes on after the callback collected into out'.
Continue ==
  IF ~Exhausted
  THEN UNCHANGED <<phase, reply>>
  ELSE IF call.op \in SetOps
  THEN phase' = "rest" /\ UNCHANGED reply
  ELSE Return(Reply(out', call.op = "Occurrences", "none"))

-----------------------------------------------------------------------------
\* Occurrences: one occurrence more than the limit proves the truncation.
Collect ==
  /\ call.op = "Occurrences"
  /\ Yield
  /\ IF Len(out) = call.limit
     THEN UNCHANGED out /\ Return(Reply(out, FALSE, "none"))
     ELSE out' = Append(out, Due) /\ Continue
  /\ UNCHANGED explicit

\* Between: occurrences before the window are walked over.
CollectInWindow ==
  /\ call.op = "Between"
  /\ Yield
  /\ IF Due >= call.end
     THEN UNCHANGED out /\ Return(Reply(out, FALSE, "none"))
     ELSE /\ out' = IF Due >= call.start THEN Append(out, Due) ELSE out
          /\ Continue
  /\ UNCHANGED explicit

\* Slip: `after` itself may be returned.
SeekFrom ==
  /\ call.op = "NextOccurrence"
  /\ OccurrenceDue
  /\ pending' = Tail(pending)
  /\ emitted' = emitted + 1
  /\ IF r.count > 0 /\ emitted' > r.count
     THEN Return(Reply(<<>>, FALSE, "none"))
     ELSE IF Due >= call.after THEN Return(Reply(<<Due>>, FALSE, "none"))
     ELSE UNCHANGED <<phase, reply>>
  /\ UNCHANGED <<call, base, produced, empty, explicit, out>>

\* The loop of NextOccurrence, which has no callback: it counts up to the
\* first occurrence after `after`.
Seek ==
  /\ call.op = "NextOccurrence"
  /\ OccurrenceDue
  /\ pending' = Tail(pending)
  /\ emitted' = emitted + 1
  /\ IF r.count > 0 /\ emitted' > r.count
     THEN Return(Reply(<<>>, FALSE, "none"))
     ELSE IF Due > call.after THEN Return(Reply(<<Due>>, FALSE, "none"))
     ELSE UNCHANGED <<phase, reply>>
  /\ UNCHANGED <<call, base, produced, empty, explicit, out>>

\* Set.Occurrences appends the times that no EXDATE names, up to the limit.
Emit(times) ==
  out \o SelectSeq(times, LAMBDA t : ~Excluded(t))

Truncates(times) == Len(Emit(times)) > call.limit

\* Slip: an explicit occurrence that is also the rule's is emitted
\* again.
MergeAgain ==
  /\ call.op = "Set.Occurrences"
  /\ Yield
  /\ explicit' = SelectSeq(explicit, LAMBDA t : t >= Due)
  /\ LET times == Append(SelectSeq(explicit, LAMBDA t : t < Due), Due)
     IN  IF Truncates(times)
         THEN /\ out' = SubSeq(Emit(times), 1, call.limit)
              /\ Return(Reply(out', FALSE, "none"))
         ELSE out' = Emit(times) /\ Continue

\* It merges the explicit occurrences in front of the one that is due, which
\* may itself be among them.
Merge ==
  /\ call.op = "Set.Occurrences"
  /\ Yield
  /\ explicit' = SelectSeq(explicit, LAMBDA t : t > Due)
  /\ LET times == Append(SelectSeq(explicit, LAMBDA t : t < Due), Due)
     IN  IF Truncates(times)
         THEN /\ out' = SubSeq(Emit(times), 1, call.limit)
              /\ Return(Reply(out', FALSE, "none"))
         ELSE out' = Emit(times) /\ Continue

MergeRest ==
  /\ call.op = "Set.Occurrences" /\ phase = "rest"
  /\ out' = SubSeq(Emit(explicit), 1,
                   IF Truncates(explicit) THEN call.limit
                                          ELSE Len(Emit(explicit)))
  /\ Return(Reply(out', ~Truncates(explicit), "none"))
  /\ UNCHANGED <<call, walk, explicit>>

\* Set.Between collects up to the window's end and filters at the end.
CollectUntilEnd ==
  /\ call.op = "Set.Between"
  /\ Yield
  /\ IF Due >= call.end
     THEN phase' = "rest" /\ UNCHANGED <<out, reply>>
     ELSE out' = Append(out, Due) /\ Continue
  /\ UNCHANGED explicit

FilterWindow ==
  /\ call.op = "Set.Between" /\ phase = "rest"
  /\ Return(Reply(SortDedupe(SelectSeq(out \o explicit, LAMBDA t :
                    call.start <= t /\ t < call.end /\ ~Excluded(t))),
                  FALSE, "none"))
  /\ UNCHANGED <<call, walk, explicit, out>>

Returned == phase = "returned" /\ UNCHANGED vars

Next ==
  \/ RefuseUnbounded \/ RefuseRule \/ ReturnNothing \/ Begin
  \/ ExpandPeriod \/ GiveUp \/ NextPeriod \/ SkipEarly \/ Terminate
  \/ Collect \/ CollectInWindow \/ Seek \/ Merge \/ MergeRest
  \/ CollectUntilEnd \/ FilterWindow \/ Returned

Spec == Init /\ [][Next]_vars

-----------------------------------------------------------------------------
Answered(ops) ==
  /\ call.op \in ops /\ phase = "returned" /\ reply.err = "none"
  /\ ~NothingWanted

\* The end of the last period that was expanded: a rule that ended by COUNT
\* has no occurrence after it.
LastPeriodEnd == IF HasRule THEN base + LongestPeriod(r) ELSE dtstart

\* The times the call is about, up to hi: those of the rule, and those a Set
\* adds and excludes.
TimesOf(rule, hi) ==
  LET named == IF HasRule THEN RuleTimes(rule, dtstart, hi) ELSE {}
      set  == {t \in ToSet(ExplicitOccurrences) : t <= hi}
  IN  IF call.op \in SetOps
      THEN {t \in named \cup set : ~Excluded(t)}
      ELSE named

Times(hi) == TimesOf(r, hi)

\* All of them, for a call that ended by COUNT or UNTIL.
AllTimes ==
  LET ends == {LastPeriodEnd, r.until} \cup ToSet(ExplicitOccurrences)
  IN  Times(CHOOSE hi \in ends : \A t \in ends : t <= hi)

\* The two rules of which walk returns something else.  A time that is named twice
\* comes twice and COUNT counts it twice, against "the same instant twice" of
\* rrule/set.go:91; only Set.Between takes it for one.  And a yearly rule of weeks is
\* expanded from the calendar year of DTSTART, so a DTSTART in a week of another
\* year is no occurrence, against rrule/next.go:96.
NamedOnce ==
  \/ r.count = 0 /\ call.op \in {"Set.Between", "NextOccurrence"}
  \/ ~NamesTwice(r, dtstart, LastPeriodEnd)

AsPromised == HasRule => NamedOnce /\ ~StartsInAnothersWeek(r, dtstart)

\* Chronological, no time twice.
InOrder(occs) == \A i \in 1..(Len(occs) - 1) : occs[i] < occs[i + 1]

\* `whole` are the times of the series.
IsPrefixOf(occs, whole) ==
  /\ Len(occs) = call.limit
  /\ ToSet(occs) = {t \in whole : t <= Last(occs)}
  /\ r.count > 0 \/ r.until # ZeroTime \/ ~HasRule => ToSet(occs) # whole

ReplyFits(whole) ==
  /\ InOrder(reply.occs)
  /\ IF reply.complete
     THEN ToSet(reply.occs) = whole
     ELSE IsPrefixOf(reply.occs, whole)

\* Occurrences and Set.Occurrences return the first times of the series, as
\* many as asked for, and say "complete" exactly when they are all of them:
\* whatever the BY-* filters, an INTERVAL, COUNT, UNTIL, EXDATEs in front of
\* the limit and RDATEs between, before and behind the rule's times, in whatever
\* order the lists of the rule and the Set are.  No time comes twice.
PrefixOfSeries == Answered(LimitOps) /\ AsPromised => ReplyFits(AllTimes)

\* Between and Set.Between return the times in their window, start included
\* and end excluded, in chronological order.
ExactlyTheWindow ==
  Answered(WindowOps) /\ AsPromised =>
    /\ InOrder(reply.occs)
    /\ ToSet(reply.occs) = {t \in Times(call.end - 1) : t >= call.start}

IsLeastOf(occs, later) ==
  IF occs = <<>> THEN later = {} ELSE {t \in later : t <= occs[1]} = {occs[1]}

\* NextOccurrence returns the least time of the series after `after`, which
\* may lie before DTSTART, on an occurrence or between two; it returns none
\* only when COUNT or UNTIL leaves none.
NextIsLeastAfter ==
  Answered({"NextOccurrence"}) /\ AsPromised =>
    IsLeastOf(reply.occs, {t \in AllTimes : t > call.after})

\* Of every rule, those that are not AsPromised too: what is returned are times of
\* the series, in order, and none is left out between the first and the last of
\* them.  What a Set adds behind the end that COUNT sets is not compared.
NoneLeftOut ==
  Answered(LimitOps \cup WindowOps \cup {"NextOccurrence"}) /\ reply.occs # <<>>
  /\ (call.op \in SetOps => r.count = 0)
  =>
    LET occs == reply.occs
    IN  /\ \A i \in 1..(Len(occs) - 1) : occs[i] <= occs[i + 1]
        /\ ToSet(occs) = {t \in TimesOf([r EXCEPT !.count = 0], Last(occs)) : t >= Head(occs)}

\* The period of a base: of a rule that names weeks the calendar year is stepped.
BasePeriod == IF r.freq = "YEARLY" THEN Year(Date(base)) ELSE Period(r, base)

\* A search that walk abandons was starved: the rule names no time in the
\* last MaxIterations periods walk looked at.  NextOccurrence spends its
\* budget on all periods since DTSTART and abandons only searches that have
\* not come past `after`.
CapMeansStarved ==
  phase = "returned" /\ reply.err = "ErrIterationCap" =>
    LET first == IF call.op = "NextOccurrence" THEN 0
                 ELSE BasePeriod - MaxIterations * r.interval
    IN  \A t \in Series(r, dtstart, base) :
          /\ Period(r, t) \in first .. BasePeriod - 1
          => call.op = "NextOccurrence" /\ t <= call.after
=============================================================================
