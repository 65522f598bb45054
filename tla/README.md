# A verification development for vstar

`vstar` is a Go library for iCalendar (RFC 5545) and vCard (RFC 6350) data with
an integrity hash on every component and an append-only ledger of status
changes. This directory holds TLA+ modules that model it, TLC configurations
that check them on small instances, and TLAPS proofs of the results that hold
for every instance. Source paths below are relative to `src/`.

Check a run with `tlc -config MCx.cfg MCx.tla`, a proof with `tlapm X_proofs.tla`.

## 1. The system

| component | state it keeps | operations | what makes it correct |
|---|---|---|---|
| supersession ledger (`supersession`, `calendar.go`) | an append-only slice of components shared by writers | `Supersedes` builds an entry for a target it has verified, `Calendar.Append`, `Superseded` projects the current status | no entry for a tampered target; the answer is the latest decision by DTSTAMP, whatever the order of appends; a tie goes to the later entry of the slice |
| hashing (`hashing`) | `X-VSTAR-HASH` in the component | `SetXVSTAR`, `VerifyXVSTAR`, digests | the hash covers everything but itself, at every depth |
| helpers (`helpers`) | the component | constructors, some thirty getters and mutators | a mutator applies completely and restamps, or changes nothing; values stay in the validator's vocabularies; revisions only grow |
| containers (`component.go`, `property.go`, `card.go`) | a slice of properties, whose array copies share | `Get`, `Set`, `Add`, `Remove` | a change through one copy leaves the others alone, but for what both were added to |
| line scanner (`codec/internal/contentline`) | pending line, whether a line was seen, whether input ended | `Next` | unfolding: no line lost, doubled, split or glued, also when the reader fails |
| batch codecs (`codec/rfc5545`, `codec/rfc6350`) | a call's own stack | `Parse`, `EncodeComponent`, `EncodeCard` | accepts exactly well-nested documents with one supported version |
| stream parsers (`codec/stream`) | the header read or not, one buffered line, the scanner | `Header`, `Next` | the same answer as the batch parser, incrementally; every call returns |
| stream encoders (`codec/stream`) | header written or not, closed or not, a `bufio.Writer` | `SetHeader`, `Encode`, `Close` | what reaches the sink is the beginning of one document, which a reader can use whenever the writer stopped |
| content lines (`codec/rfc5545`, `codec/rfc6350`) | none | quote, escape, fold, and back | what is written is read as it was meant, and no line is too long |
| validator (`validate`), extensions (`ext`) | none | `Validate`, `ValidateComponent`, `ScopeOf`, `SystemName`, ... | accepts what the library itself writes; verdicts depend on what a component says and not on how it is spelled |
| wire times (`time.go`, `date.go`, `time_tzid.go`) | none | format, parse, resolve a TZID through a VTIMEZONE | instants survive a round trip |
| canonical form (`canonical`) | none | `Component`, `Calendar`, `Card` | equal contents have equal bytes, whatever their order and spelling, and others have not |
| recurrence (`rrule`) | a walk: current period, count, empty periods in a row | `NextOccurrence`, `Occurrences`, `Between`, `Set.Occurrences`, `Set.Between`, `SetFromComponent`, `ParseRecurrenceID` | exactly the times the rule names, in order; gives up only when starved; an exception that cannot be read refuses the set |
| durations and triggers (`duration`, `helpers/alarm.go`) | none | parse, format, `FromSigned`, `AddTo`, `AlarmFiresAt`, `AlarmRepeatCycle` | a trigger keeps its units and its anchor when it is written again; no silent overflow |
| diff (`diff`) | none | `OfCalendar`, `OfComponent`, `OfCard`, `Calendar`, ... | empty exactly when equal |
| types and codes, fixture tools | tables, files | | |

**How they interact.** A helper calls a container operation and then
`hashing.SetXVSTAR`; hashing strips the stored hash and asks the canonical form
for bytes. `Supersedes` calls `VerifyXVSTAR`, then builds its entry with a
constructor and restamps it; the entry travels to the ledger by a caller's
`Append`, any time later, and `Superseded` and the validator read the ledger.
The stream parsers pull physical lines through the scanner from an `io.Reader`
and share the content-line parser with the batch codec; the stream encoders push
lines through `bufio.Writer` to an `io.Writer`, and what that has accepted when
the process ends is all a later reader gets. The validator parses rules,
durations and triggers with the packages that own them. The canonical form resolves wall times
through the VTIMEZONE components of the calendar, as the readers of instants do
that alarms are anchored to; the diff compares what the canonical form prepares,
but on its own path.

**What is hard.** The library starts no goroutine and takes no lock, so every
interleaving is the caller's: writers that build entries and append them later
in another order, a ledger that grows while it is walked, copies of a component
in two goroutines that share one array. Readers and sinks fail in the middle and
callers call again, on a parser or an encoder with flags of its own about what
is behind it. Data outlives the hash computed over it. One-second timestamps
decide order and identity. Counters reach the ends of `int`. The hazards of
`PROJECT.json` list these at their lines.

## 2. Modules

| module | models | variables | actions |
|---|---|---|---|
| `LedgerEntry` | pure operators: wire times, entries, hashing, matching, `Superseded`, the ledger checks of the validator | - | - |
| `Supersession` | writers, targets and the ledger | `target`, `draft`, `refused`, `ledger`, `stamped` (history) | `Edit`, `Restamp`, `StripHash`, `Supersedes`, `RefuseCorrupted`, `Publish`, `PublishTarget`, `Abandon`, `AppendForeign` |
| `Projection` | abstract: a question answered in one step from the slice it was asked of | `ledger`, `asked`, `upto`, `answer` | `Ask`, `Answer`, `Grow` |
| `LedgerScan` | the loop of `Superseded`, an entry a step, while the ledger grows; implements `Projection` | `scanned`, the ledger, `asked`, `upto`, `answer`; adds `position` and the best candidate | `Call`, `ReturnNoUID`, `Skip`, `Take`, `Keep`, `Return`, `Grow` |
| `Helpers` | one component with an optional nested alarm, all mutators, raw edits; the validator's domain and schedule checks | `c` | one `Call...` per helper, `AlarmCall`, `EditOther`, `EditAlarm`, `AttachAlarm`, `WriteRevision`, `AddCategoriesLine`, `Stamp` |
| `PropertySlices` | two goroutines, component values as slice headers over shared arrays; the helpers as their separate reads and writes | heap, headers, each goroutine's position | one action per access of `IncrementSequence`, `AddRelatedTo`, `Set`, `Add`, `SetXVSTAR` |
| `LineScanner` | the unfolding scanner over any physical lines, or those of a document that was written | `wire`, `hasPend`, `pending`, `scanning`, `done`, `taken` (the octets a failed read took of the line it failed in), ... | `Call`, `ReadFold`, `ReadFresh`, `ReadEOF`, `ReadError` |
| `CalendarLines` | the batch parser as a fold over logical lines | - | - |
| `ContentLine` | content lines of both codecs, octet by octet: parameters, quoting, escapes, folds, and the grammar that reads them | - | - |
| `WireRoundTrip` | an encoder, the scanner and the parser of one codec in a row | those of `LineScanner` | those of `LineScanner` |
| `CalendarStream` | `VCalendarParser` and its reader, run next to the batch parser | the parser's flags, the block stack, what was yielded and the lines it was built from | `CallHeader`, `CallNext`, and one per kind of line in each of the three loops |
| `Cards` | a card, the lines `rfc6350.Encode` writes for it, `helpers.NewCard` | - | - |
| `CardStream` | `VCardParser` next to the batch card parser, on arbitrary lines or those of a text | the card in progress, the source of lines, both parsers' results; `failures` (history) | `Call`, `ReadBegin`, `ReadStray`, `ReadProperty`, `ReadNestedOrGarbled`, `ReadEnd`, `ReadEOF`, `ReadError` |
| `StreamEncoder` | both stream encoders, `bufio.Writer`, a sink that fails | the encoder's flags, buffer, sticky error, wire | `SetHeader`, `Encode`, `Close`, buffering and flushing one line at a time |
| `CardExchange` | composes the two: a `StreamEncoder` whose process may end at any moment, and a `CardStream` that reads what its sink had accepted | those of both | `Write`, `Stop`, `NextCall`, `ReadLine` |
| `Gregorian` | Go's `time` as `rrule` uses it, in UTC (external) | - | - |
| `RecurrenceExpansion` | what one FREQ period of a rule expands to, and the step to the next | - | - |
| `RecurrenceSeries` | reference: the times a rule names, as a set, by a predicate on days, hours or minutes | - | - |
| `RecurrenceWalk` | a call of one of the five evaluators, a period or an occurrence a step | the period's base, its pending occurrences, the empty periods, the count, the merge of a Set, the result | refusals, `Begin`, `ExpandPeriod`, `GiveUp`, `NextPeriod`, `SkipEarly`, `Terminate`, and per evaluator what it does with an occurrence and at the end |
| `RuleParts` | `ParseRRule` and `Rule.String`: a wire is a sequence of parts | - | - |
| `CalendarData` | calendars as data: properties, parameters, components, the containers and `Property.Equal` | - | - |
| `Zones` | the rules of a VTIMEZONE, `ParseTimeWithTZID`, the readers and setters of instants and dates; reference: the offset in effect by the latest onset in two years | - | - |
| `RecurrenceSets` | the lists of RDATE and EXDATE, `SetFromComponent`, RECURRENCE-ID | - | - |
| `Durations` | durations and their length in seconds, triggers, `EventEnd`, `AlarmFiresAt`, `AlarmRepeatCycle` | - | - |
| `CanonicalForm` | `canonical.Calendar` and the order and capitals of the encoder | - | - |
| `ComponentDiff` | `diff.OfCalendar` | - | - |
| `Validation` | `validate.ValidateComponent`, every check; `hashing.Component` and its readers; the scopes of `ext` | - | - |
| `CardDocuments` | cards and what they were saved as; `canonical.Card`, `hashing.Card`, `diff.OfCard` | `savedCards`, `cards`, `cardEdits` | `SetOnCard`, `AddToCard`, `RemoveFromCard`, `AssignField`, `MoveOnCard`, `RecaseOnCard` |
| `Documents` | a calendar and what it was saved as, edited through the containers and by other programs, or the cards of `CardDocuments`; reference: what a document says | adds `base`, `doc`, `edits`, `respelled` | `MoveProperty`, `MoveParam`, `MoveComponent`, `Recase`, `Respell`, `Rehash`, `RehashNested`, `SetOne`, `SetDate`, `SetTime`, `Postpone`, `SetNested`, `AddOne`, `RemoveName`, `ExtendRule`, `AppendComponent`, `DropComponent`, `DropNested` |

Each `..._proofs` module extends the module it is named for with its theorems,
and each `MC...` module extends the module it is named for with the small sets its
configurations use. A definition marked "Slip" is a plausible mistake in the
operator below it; it is used to see that each property notices such a mistake,
and by nothing else.

### Correspondence and abstractions

* Data is reduced to what the properties tell apart. A hash is the content it
  was computed from, so SHA-256 is taken as collision free and the canonical
  form as faithful; `LedgerEntry!Content` and `Helpers!Content` strip what
  `hashing.go` strips.
* Instants are ticks, several to a second; `FormatTime` rounds down to the
  second and years past 9999 render to text that `ParseTime` rejects, as in
  `time.go`. A zero time is `ZeroTime`; in `Helpers` it removes the property, as
  `setOrClearTime` does.
* The ledger's statuses and UIDs are model values, and what `strings.TrimSpace`
  makes of one is a constant function, `Trimmed`: the validator trims where the
  projection does not, so a blank status and a padded UID are values of their own.
* A CATEGORIES value is the sequence of the pieces between its commas, each a
  label that may have space around it or be nothing, and a component has any
  number of CATEGORIES lines; `LabelsOf` splits and trims as `categories.go` does.
* `Helpers` writes Go's `int` with its width (`MaxInt`, addition wraps in
  `Successor`).
* `PropertySlices` follows Go's slice rules: `append` writes in place while the
  capacity lasts and otherwise copies to a new array; `Set` always builds a new
  array. Two unsynchronised accesses interleave at the granularity of one read
  or one write of a slice header or of a property.
* `ContentLine` is the one module that spells: a text is a sequence of octets, of
  which those the grammar tells apart have names and the others are letters. The
  limit of 75 octets is a constant, so that short lines fold. UTF-8 sequences,
  which both encoders may cut at a fold and the scanner glues again, are octets
  like others.
* In the streams a line is a model value of its kind: BEGIN, END, a property
  with the values that matter, or a line the content-line parser rejects. The
  lines are chosen as they are read, so every input of at most `MaxLines` lines
  is covered, ended or broken off anywhere.
* `CalendarStream` and `CardStream` carry the batch parser as a fold over the
  lines read so far, which turns "the same as the batch parser" into an
  invariant. A reader that fails does so between two lines of `CalendarStream`
  and `CardStream`, and between or inside two physical lines of `LineScanner`,
  which drops what it was given of the line: the rest is then a physical line.
* In the recurrence modules a time is a number of seconds and the calendar is
  the real one; all arithmetic of `rrule` on dates is written out, so a leap
  day, week 53 or the second 60 behave as in the code. Locations other than UTC
  and nanoseconds, which every candidate takes from DTSTART, are left out. A
  list of a rule is a sequence, because its order and repetitions reach the
  expansion.
* A value of a property is a pair: how it is written (a UTC time, a wall time, a
  date, an offset, a duration, a rule, a text) and what. A duration is its
  fields before and behind the T, in any order and number, a rule its parts, a
  list of times its elements and a number the digits it is written with, so the
  parsers have something to reject. A
  text is a name, its normal form a constant function, and the order of bytes a
  constant sequence. An optional value is a set with at most one element.
  Components nest one deep, as VALARM, STANDARD and DAYLIGHT do. Left out:
  PRODID, escaping, folding, and the order of a diff's report. An extension name
  is the sequence of the texts between its hyphens. `RecurrenceSets` and
  `Validation` say whether a value is accepted and what is reported, not the
  wording, the severity or the path.
* A flush of `StreamEncoder` is accepted by whole lines. A line that is cut in
  the middle stands inside a block that is never closed, or is a BEGIN that
  begins nothing, so it adds no card and no other kind of error.
* A time read from a zone carries a fixed offset in the code, so adding days to
  it adds multiples of 24 hours; `AddTo` is written for that.
* External code is modelled by how the library uses it: `io.Reader` and
  `io.Writer` that fail, `bufio.Writer` with its sticky error, `append`.

## 3. Runs

| run | bounds | what it shows |
|---|---|---|
| `supersession` | 1 writer, 1 target with a UID and one without, 2 bodies, 5 instants, a status, a blank and an empty one, 3 foreign entries, 2 entries in the ledger | a target edited behind its hash never gets an entry; only entries of one second depend on the order of appends; a late append never undoes a later decision; the library's own entries, with a status that is not blank and for a UID without space around it, get no diagnostic once their target is there; a UID collision only ties; verdicts only heal |
| `ledger_scan` | 3 entries out of all kinds the loop distinguishes | the loop implements `Projection`, and its best candidate is the latest of what it has seen |
| `helpers` | VTODO, VEVENT, VJOURNAL, VFREEBUSY, both sides of each numeric limit; on the VFREEBUSY, which has the fewest other properties, up to 2 CATEGORIES lines of up to 2 labels, from values with space around a label and with a comma | helpers restamp or change nothing; values stay in the validator's domains; revisions advance; the parent's hash goes stale exactly when its alarm changed; `AddCategory` keeps the labels that `Categories` lists in front and in order, lists every label of its value, and adds one label without space around it once |
| `property_slices` | 2 goroutines with a copy each, 3 calls, each of any helper, so both may append | all that a call on one copy can change in another is the uid of a RELATED-TO and the hash, and only where both copies were added to |
| `line_scanner` | any 5 physical lines with 1 reader failure, between lines or inside one; documents of either codec with a limit of 4 octets, values and parameters of up to 3 octets that include every separator, quotes, backslashes, CR and LF, names with a group and with an empty one | what was returned plus what is pending is the unfolding of the lines as the reader gave them; at io.EOF it is all of it; io.EOF comes; what an encoder wrote is read as it was meant, but for the octets an encoder drops and where no failed read took octets with it, and no line is too long |
| `calendar_stream` | 7 lines, 2 block types, retries, `Header` first or not | up to the first error the stream is the batch parser; the first error is the batch parser's; what is yielded, after errors too, is one well-formed block of the input; every call returns |
| `card_exchange` | buffer of 4 lines, 6 calls, both kinds, a card with and without a KIND and one without UID, an end of the process anywhere; any 5 lines, UID grouped or not, 1 reader failure, retries | the wire holds a prefix of one document, acknowledged components are on it, after `Close` it is complete; the cards come back whole and in order, an end in the middle of one costs that one; the two parsers agree on cards without groups; intact cards behind a bad one or a failed read survive, with the UID they were given; io.EOF comes |
| `recurrence` | 26 rules, each without a bound, with UNTIL and most with COUNT=3; 3 anchors; 13 arguments; a budget of 4 periods | every evaluator returns the times the reference names: the first ones up to the limit, those in the window, the next one; in order and once, except for rules that name a time twice and a DTSTART in a week of another year, of which what is returned is in order and without gaps; a search is abandoned only after 4 empty periods |
| `documents` | 2 edits of a calendar with a zone, an event and a todo with 3 alarms, of the event without the zone, of a series with exceptions and an override, of a finished todo with extensions, of 7 wall times around the onsets and the new year, and of a parsed and a constructed card; dates that are none, a day, no day of their month, or too wide to write | the canonical form is equal exactly when the content is; the diff is empty exactly when the form is equal, unless something was spelled in another way; alarms fire at the same instant in the canonical document, as the code computes it, and repeat as often; an accepted rule, list of times or RECURRENCE-ID is read back from what is written, and a rule does not depend on the order of its parts; a trigger is read back, but for the sign of nothing, and its length comes back from `FromSigned`; a recurrence set that is accepted has every exception its component writes and is the set of the canonical form; an event of days ends off its wall clock by the change of offset; the validator and `ext` say the same of a component and of its canonical form, an alarm whose lengths the validator accepts can be repeated unless its count is too large for an int, and the stored hash is called wrong exactly when the content is another |

The bounds are enough for the cases that decide: two entries make a tie or an
order against their DTSTAMPs, a third (`ledger_scan`) stands between a tie and
the winner. One writer stands for several: an entry is appended any time after
it was built, so the decisions it records reach the ledger in every order, and
a second pending entry adds nothing the ledger can see. 7 lines hold a header
and two nested blocks, 5 lines a bad card and an intact one behind it, and the
encoder's texts longer sequences of cards; a 4-line buffer fills in the middle
of an item and of the header, so that a process that ends leaves cuts inside
and between cards; the scanner's state
depends on one previous line. `Helpers` reaches every combination of the
properties its types carry; numbers are the values next to the limits. The
anchors of `recurrence` are a leap day, the last day of a year that is a
Sunday, and a January 1st in week 53 of the year before; its rules use every
filter, positions from both ends, intervals and unordered lists, and with a
budget of 4 some calls starve and others, like February 29th from a leap year
to the next, do not. Three of its rules name a time twice, two others begin in a
week of another year. In `documents` one edit shows whether a difference is seen
and two whether they cancel or hide each other: a name in small letters and a
new value under it, a duplicate part of a rule, a moved component and a stale
hash. All order matters at neighbours, which the `Move` actions swap.

`CHECK_DEADLOCK FALSE` stands where the system may stop: the ledger is full
(`Supersession`), the caller has its io.EOF (`LineScanner`, `CalendarStream`,
`CardExchange`), the caller has made its calls (`CardExchange`,
`PropertySlices`), the editors have made their edits (`Documents`).

### Disagreements found

Each of these runs checks one property that a comment of the code states, and
TLC finds it violated; the quotes and lines are in `PROJECT.json`.

* `calendar_stream_header`: an error met by `Header` is not surfaced by the next
  `Next`.
* `constructed_card`: a card made by `helpers.NewCard` and written by an encoder
  is refused by both parsers, because its VERSION is a property of its own and
  the encoder writes another.
* `southern_zone`: in a zone whose daylight time spans the new year, no wall time
  is ever read with the daylight offset, because `selectActiveRule` looks for it
  between the two onsets of one year.

At six places the code does less than a comment says, and a property of a passing
run states what does hold there, of the very case:

| the comment | what the code does | what holds |
|---|---|---|
| duration/trigger.go:265, "keeps its wall-clock end across a DST transition" | `EventEnd`, and `Resolve`, add 24 hours for a day, because a time read from a zone has a fixed offset | `EndMissesByTheChange`: the end is off the clock by the change of offset, and by nothing else |
| validate/supersession.go:56, "must resolve to a component in the same Calendar" | `Superseded` reports the status that an entry gives a UID with space around it; the validator trims one side of the comparison and calls the entry an orphan | `CleanOnceResolvable`, where trimming changes nothing |
| helpers/categories.go:69, "if not already present", "appends" | `AddCategory` with `"a,b"` or `" a"` adds it again on every call; of two CATEGORIES lines it drops the labels of the second | `CategoriesAccumulate`: what `Categories` lists stays, and one plain label is added once |
| component.go:63, "without touching existing properties of the same name" | `AddRelatedTo` on two copies: the second overwrites what the first appended | `OnlyAdditionsCollide`: nothing else of a copy is touched |
| rrule/set.go:91, "never sees the same instant twice" | a time that the rule names twice (BYYEARDAY=366,-1) comes twice, and COUNT counts it twice, except in `Set.Between` | `NoneLeftOut`: repetition is all that is wrong |
| rrule/next.go:96, "the first occurrence of a rule is `dtstart` itself" | a DTSTART in week 53 of the year before its own is no occurrence of BYWEEKNO=53 | `NoneLeftOut`: only the beginning is missing |

Other disagreements bound what the passing properties say, and are noted at
their hazards. `IncrementSequence` at the largest `int` wraps to a negative
revision; two goroutines that increment one component can lose an increment.
`Next` after an error inside a block can yield a nested component; a second
`Close` after a failed one writes on instead of returning `ErrAlreadyClosed`; a
group on VERSION, UID or KIND counts in one card parser and not in the other; an
empty VERSION line of a card does not count as one. A reader that fails inside a
physical line takes the beginning of it along, and a caller who goes on after the
error reads what is left as a line of its own, or as a fold of the line before.
`NextOccurrence` spends its budget on all periods since DTSTART, so it abandons
a minutely rule after 69 days although it fires every minute.
`Duration.String` promises to round-trip "byte for byte" but for a plus sign, and
also drops leading zeros, units of zero and the sign of nothing. The diff keeps
one of several components with one type and UID, so a change to an event whose
override follows it goes unreported. Components are sorted by UIDs that are not
normalised yet, so the canonical form of a canonical form can be another one.
`canonical.Card` writes the VERSION of a constructed card twice, too, and keeps
RDATE and EXDATE lists as they were written, so two orders of one list have two
canonical forms. `OfCard` looks at properties only: two cards whose UID fields
differ have an empty diff although `diff.Card` calls them different.
`ScopeOf("X--FOO")` is the scope of a system with an empty name, which
`SystemName` refuses and the comment at ext/extensions.go:119-120 excludes.
A REPEAT of 20 digits passes the validator and is refused by
`AlarmRepeatCycle`, which in turn reads `01` and `+1`, refused by the validator.
`Validate` never looks into an event's alarms, so a TRIGGER is checked only on a
VALARM that is passed on its own. `SetDue` sets DUE on any type. The iCalendar
encoder drops the CR of a text and the quotes of a parameter; the vCard encoder
drops the dot of a name that begins with one, and a parameter with a quote and a
separator is written so that it cannot be read; a property built by hand whose
name begins with a space, or whose URI value has a line break, is read as
something else. `UNTIL=00010101T000000Z` is accepted and taken for no UNTIL;
which error a rule with two mistakes gets depends on the order of its parts.

## 4. Fairness and liveness

The library runs in its caller's goroutine: once called, a loop takes its next
step. So `LedgerScan` assumes weak fairness of the loop, as `Projection` does of the
answer, and the stream modules
weak fairness of reading while a call is in progress; that the reader delivers
or ends is what `io.Reader` promises. In `CardExchange` the writer has no
fairness at all, it may stop for good at any step; the reader of a text has.
Only `ReachesEOF` and `RetriesReachEOF`
also assume a caller that calls again until io.EOF (`WF(Call)`), because they
are about that caller. No fairness is assumed of writers, of appends or of
failures. Liveness is checked by TLC only.

## 5. Proofs

All theorems hold for every value of the constants that satisfies the named
assumptions of the modules (`LedgerAssumption`, `HelpersAssumption`,
`ShapeAssumption`, `StreamAssumption`, `CardAssumption`, `EncoderAssumption`,
`ScannerAssumption`, `ScanAssumption`, `SlicesAssumption`, `LimitAssumption`,
`CategoriesAssumption`),
which say that the special values are distinct from the data and that numbers are numbers: for any
number of entries, lines, octets, items, calls and goroutines, and buffers of any
size. For `Documents`, `CapitalsAssumption` says that a name in capitals, as the
library writes them, is not another spelling of something else, and
`TypesAssumption` that the documents to begin with and the properties that
editors write are shaped like the Go types: a property has a list of parameters,
a list of times has elements, a number digits. `NormalAssumption` says that a text
NFC changes, or makes, is none of the words the library looks for, even in
capitals: NFC leaves ASCII alone and of its letters makes K only, from the
Kelvin sign. `OrderAssumption` says that texts have an order, and that having no
key to be sorted by, which comes last, is not a text: an empty TZID is one. `CapitalAssumption`
says that capitals are capitals: no letter is a separator, and a capital has no
capital of its own. `DraftsAssumption` is what
the encoders leave to their caller and do not check: names are not empty, as
they are written too, hold no separator and do not begin with a space; a value that no encoder escapes has
no line break, and a parameter of a card no quote. A theorem that needs more says
so in its ASSUME; each of these hypotheses is a limit of the code, listed with
its theorem below.

* `Supersession_proofs`. The inductive invariant `IInv` joins the types, what an
  entry of the library looks like (in the ledger or still a draft), that a UID
  of the library names the target and the second it was built at, and that a
  target's hash, when there, is of the content it had when last stamped. The
  history variable is why it is needed: that a stored hash matches says nothing
  unless the hash is known to be of a stamped content. From it follow
  `TamperedTargetsRefused`, `OwnJournalsClean` (of a status that is not blank and
  a UID that trimming leaves alone, whatever it makes of others), `CollisionsTie`,
  `LaterDecisionsPrevail` (with lemmas on the maximum by second over a ledger
  with one more entry), `VerdictsOnlyHeal` and `OrderBreaksTiesOnly`: a
  permutation of the ledger has the same latest second, so a different answer
  needs two entries of that second.
  The loop of `Superseded` is proved there too. `LoopInvariant`: the candidate is
  the latest of the entries before `position`, by DTSTAMP and then by place.
  `ScanRefinesProjection`: with it, every step of the loop maps to a step of
  `Projection` or leaves it alone - a return is `Answer`, because at the end "seen"
  is the slice. Its fairness part, the reader's answer, stays with TLC
  (`ImplementsProjection`).
* `Helpers_proofs`. `TypeCorrect` and `HelpersStamp`: every mutator's result is
  its argument or a stamped component. The argument is that stamping writes only
  the hash and that `Content` does not look at the hash, at either depth.
  `SchedulesLostOnPurpose` and `AlarmChangesShow` compare the two sides of a
  step. `ValuesInDomain` (the invariant is that the validator accepts the
  component's values, and that PERCENT-COMPLETE, COMPLETED, PRIORITY, TRANSP and
  CLASS, whose setters look at the type, stand on a type that has them; `SetDue`
  looks at none) and `RevisionsAdvance` hold where no increment can start from the
  largest int, where it wraps around; the second also where other programs write
  no revision beyond an int, which the code reads as 0.
  `AddedCategoriesListed` has no hypothesis: on components with any number of
  CATEGORIES lines, and for values with any commas and spaces, `AddCategory` keeps
  what `Categories` lists as a prefix.
* `WireRoundTrip_proofs`, in three arguments. The scanner: `Unfolds`. What is
  pending is the text of a logical line that begins at some physical line and
  runs to the end of what was read, and what was returned are the lines before
  it; the lemmas say how the unfolding changes with a fold, a blank or another
  line. Of a physical line that a read failed in, what the reader gave afterwards
  is the line. The invariant `ScannerInv` ties `hasPend` to a break in the input, which
  is why a fold behind a blank line begins a line of its own, and `done` to the
  end of the reader. One line: `EscapesAreRead` goes through a text octet by
  octet, and `ParseReads` through the parts of a line; splitting outside quotes
  distributes over concatenation when what stands before closes its quotes
  (`Balanced`), which every part an encoder writes does. The wire: chunk by
  chunk and line by line, the wire that an encoder has written so far splits into
  physical lines that unfold to the content lines so far (`Sent`), and while a
  line is being written, to the line as far as it goes (`Going`).
  `WrittenIsRead` puts the three together, for readers that fail between physical
  lines as often as they like; a failure inside one loses octets, and the error
  that was returned is all that says so.
* `CalendarStream_proofs`. `StaysInStep`, the inductive invariant: until a call
  fails the block stack, the components and the PRODID are those of the batch
  parser, which has read one line more while a line is pending. It gives
  `StreamsIncrementally` and, because a step that fails leaves a batch parser
  that fails on the same line, `FirstErrorShared`. `YieldsBlocks` needs no such
  agreement and holds after errors: the lines since the outermost BEGIN, folded
  by the batch parser, make the blocks that are open.
* `CardExchange_proofs`, in five parts. `WireIsOneDocument` and `PromisesKept`:
  wire, buffer and the lines still to be written are one document with the
  items in hand, unless the buffer has its sticky error, after which nothing is
  accepted. `StreamAgreesWithBatch`, where nobody groups VERSION: the stream
  takes a grouped VERSION for one and the batch parser does not.
  `BadCardsCostThemselves`: as long as a block may still become an intact one,
  the parser is in it and holds what it has said so far, whatever came before,
  errors of the reader included (`SurviveReadError`); one inside the block ends it.
  `ReaderGetsTheCards` joins the two halves: what was read is a prefix of a
  document, and the parser stands at one position in one of its cards. Its cards
  have no VERSION property, as `NewCard` gives them: those are refused (see
  `constructed_card`).
* `PropertySlices_proofs`. `AdditionsAloneCollide`, for any number of goroutines
  of which each has a copy of its own and every one may append. The invariant says that the only array two copies can share is the one they
  began with, that each of them finds there the properties it was constructed
  with and behind them nothing but RELATED-TOs, and that a call under way will
  make of its copy what the caller expects, but for what collided.
* `Documents_proofs`. The inductive invariant is `TypeOK` (`TypeCorrect`): edits
  insert, replace, reorder and drop properties, but leave each with parameters
  and a value of a shape its readers count on. On such a document
  `TriggersAreReadBack`: a duration has one amount per unit, `DurationString`
  writes each unit that is not zero in the order the grammar wants, and so what
  is read has the same amounts; only the sign of nothing is not written.
  `FromSigned` divides seconds into days, hours, minutes and seconds, which add up
  to them again. `RecurrenceIsReadBack`: an accepted rule has no key twice
  (`Duplicate`) and every key sets a field of its own, so what a rule says of a
  field is one part wherever that stands, which is why the order of parts does
  not matter and why the parts that `String` writes in its own order, less those
  a reader would supply, are read as the same rule. A list of times is
  written in ascending order and loses only repetitions. `Ascending` and
  `Picked`, on which sorting and selecting are built, list a finite set of numbers
  in order: their lemmas need induction on its size.
  `CanonicalKeepsRecurrence` and `CanonicalKeepsAlarmTimes` are about the
  canonical form. Both rest on sorting being stable: what a name finds, the
  first, the last or all of it, is found in the sorted component too, prepared and
  in the order it was written in (`GetPrepared`, `FoundStays`). Preparing leaves
  rules, lists, lengths and instants as they are. For alarms, a wall time with a
  zone becomes the instant it is read as, and loses the zone; one without an
  instant keeps its zone, and has no instant in the canonical calendar either:
  the zones are sorted among the components, but those of one name keep their
  order (`ZonesSorted`), so the same zone is found, prepared (`FindStays`), and
  it has readable rules only if it had them before (`ZoneLoads`). The theorem
  assumes that no zone is named in two normal forms (`ZonesNormal`): the code
  looks a zone up by the name as it is written and normalises afterwards, so two
  spellings of one name meet in the canonical form only, where an alarm gets an
  anchor that it did not have.
  `CanonicalKeepsVerdicts`: a finding other than one about the hash is at a
  property, which the canonical form writes again and judges the same
  (`FindingsStay`), or says that one is missing or has none of the words of a
  vocabulary, and a word has one normal form (`WordsStay`). No hypothesis is
  needed here, because no check reads a time in a
  zone. The digits that `checkDuration`
  accepts are the number `strconv.Atoi` reads, with no zero in front
  (`SignificantIs`), so the only alarm it accepts that cannot be repeated has one
  length alone or too large a count.
* `SequenceLemmas` has what the others need of sequences. `SetInduction` is
  induction over the naturals with a set for the predicate, so that what a
  recursive function or a fold does is proved for every length.

Only model-checked: liveness (`ReachesEOF`, `RetriesReachEOF`, and
`EveryCallReturns` of `calendar_stream`, the fairness of `ImplementsProjection`), which is out of the
prover's reach; the five properties of `RecurrenceWalk`, which compare the
expansion of a rule with the real calendar and fold and sort with operators for
arguments, which the provers cannot expand; and `EqualIffSameContent` and
`DiffMatchesEqual` of `Documents`, which compare the canonical forms of two
documents and are true of the tables the run gives them, not of all: a component
may have a parameter twice, or two components one UID, and two documents with
the same form have the same content because of the names and keys they hold and
the order in which those are sorted.
Only proved: the type invariants the other proofs need, `StaysInStep`, and
`SchedulesLostOnPurpose`.

## 6. Not modelled, and the plan

Left out for good: the fixture generators and comparers (`cmd`, `tools`), which
are sequential file I/O around the library; constant tables and generated codes;
SHA-256; the rendering of a diff; wording.

Planned, in this order:

1. Proofs: what `RecurrenceWalk` does with the occurrences of a period, for any
   expansion.
2. Durations whose seconds or nanoseconds overflow an `int64`.
3. Recurrence in zones with daylight time.
