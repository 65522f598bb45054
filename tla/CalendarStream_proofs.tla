------------------------- MODULE CalendarStream_proofs -------------------------
(***************************************************************************)
(* The streaming calendar parser against the batch parser, for any lines,  *)
(* any number of them, and any caller: until its first error it has read   *)
(* what the batch parser has read, its first error is one of the batch     *)
(* parser, and what it returns, after errors too, are whole blocks of the  *)
(* input.                                                                  *)
(***************************************************************************)
EXTENDS CalendarStream, SequenceLemmas

-----------------------------------------------------------------------------
(* The batch parser inside a calendar. *)

\* b stands inside a calendar, or just past it, with the properties behind it
\* that amount to id, the components made below it, and the blocks st open.
Calendar(root, made, id) ==
  /\ root = [type |-> "VCALENDAR", props |-> root.props, sub |-> made]
  /\ root.props \in Seq(PropertyLines)
  /\ ProdIDOf(root.props) = id
  /\ \A k \in DOMAIN root.props :
       root.props[k].kind = "VERSION" => root.props[k].value = Supported
  /\ IsSeq(made)

Mirrors(b, phase, st, made, id) ==
  /\ b = [phase |-> phase, stack |-> b.stack]
  /\ IsSeq(b.stack) /\ IsSeq(st)
  /\ Len(b.stack) = Len(st) + 1
  /\ \A k \in 1..Len(st) : b.stack[k + 1] = st[k]
  /\ Calendar(Root(b), made, id)

\* The block a line opens, if it opens one.
Opened(line) == IF line.kind = "BEGIN" THEN <<Block(line.value)>> ELSE <<>>

Mismatch(line) == line.kind = "END" /\ line.value # "VCALENDAR"

Closing == [kind |-> "END", value |-> "VCALENDAR"]

\* Before the first line of the input.
Untouched ==
  /\ batch = BatchStart /\ pending = NoLine /\ ~done
  /\ stack = <<>> /\ yielded = <<>> /\ prodid = NoProdID

\* In step with the batch parser, which is one line ahead of a pending line.
InStep ==
  IF pending = NoLine
  THEN Mirrors(batch, IF done THEN "closed" ELSE "open", stack, yielded, prodid)
  ELSE /\ pending \in BlockLines
       /\ stack = <<>> /\ yielded = <<>> /\ ~done
       /\ IF Mismatch(pending)
          THEN batch = BatchFailed
          ELSE Mirrors(batch, IF pending = Closing THEN "closed" ELSE "open",
                       Opened(pending), <<>>, prodid)

\* Where the loops are, as long as no call met an error.
Located ==
  /\ pc = "header" => ~done /\ stack = <<>> /\ yielded = <<>> /\ pending = NoLine
  /\ pc = "top" => ~done /\ stack = <<>>
  /\ pc = "idle" => stack = <<>>
  /\ pc = "block" => ~done /\ stack # <<>> /\ pending = NoLine
  /\ done => pending = NoLine
  /\ pc \in {"idle", "top"} /\ pending = NoLine /\ ~done => yielded # <<>>

SyncInv ==
  /\ pc \in {"idle", "first", "header", "top", "block"}
  /\ headerRead \in BOOLEAN
  /\ pc # "idle" => headerRead
  /\ ~failed =>
       IF ~headerRead \/ pc = "first"
       THEN Untouched
       ELSE InStep /\ Located

\* The lines of a block make the blocks that are open, inside a calendar that
\* has nothing else yet.
Inside == [phase |-> "open", stack |-> <<Block("VCALENDAR")>>]

ParseFold(lines) == FoldLeft(ParseBlock, Inside, lines)

BlockInv ==
  /\ block \in Seq(Lines)
  /\ pc = "block" =>
       /\ stack # <<>>
       /\ Mirrors(ParseFold(block), "open", stack, <<>>, NoProdID)
  /\ result = "component" /\ pc = "idle" =>
       /\ yielded # <<>>
       /\ Mirrors(ParseFold(block), "open", <<>>, <<Last(yielded)>>, NoProdID)
  /\ IsSeq(yielded)

-----------------------------------------------------------------------------
(* The kinds of lines. *)

LEMMA LineKinds ==
  /\ \A line \in BlockLines :
       line.kind \in {"BEGIN", "END"} /\ line.value \in Names /\ line # Garbled
         /\ line # NoLine
  /\ \A line \in PropertyLines :
       line.kind \in {"VERSION", "PRODID", "X"} /\ line # Garbled
         /\ line \notin BlockLines
  /\ Garbled.kind = "garbled" /\ Garbled \notin BlockLines
  /\ BeginCalendar \in BlockLines /\ Closing \in BlockLines
  /\ Lines = BlockLines \cup PropertyLines \cup {Garbled}
BY DEF BlockLines, PropertyLines, Garbled, BeginCalendar, Closing, Names, Lines, NoLine

\* A block line is its kind and its name.
LEMMA BlockLineIs ==
  ASSUME NEW line \in BlockLines
  PROVE  line = [kind |-> line.kind, value |-> line.value]
BY DEF BlockLines

LEMMA NamedLines ==
  ASSUME NEW type \in Names
  PROVE  /\ [kind |-> "BEGIN", value |-> type] \in BlockLines
         /\ [kind |-> "END", value |-> type] \in BlockLines
         /\ [kind |-> "BEGIN", value |-> type].kind = "BEGIN"
         /\ [kind |-> "BEGIN", value |-> type].value = type
         /\ [kind |-> "END", value |-> type].kind = "END"
         /\ [kind |-> "END", value |-> type].value = type
BY DEF BlockLines

-----------------------------------------------------------------------------
(* PRODID. *)

\* The last PRODID counts.
LEMMA ProdIDOfAppend ==
  ASSUME NEW props \in Seq(PropertyLines), NEW line \in PropertyLines
  PROVE  ProdIDOf(Append(props, line)) =
           IF line.kind = "PRODID" THEN line.value ELSE ProdIDOf(props)
<1> DEFINE n == Len(props)
           more == Append(props, line)
           At(s) == {k \in DOMAIN s : s[k].kind = "PRODID"}
           Greatest(T) == CHOOSE k \in T : \A j \in T : j <= k
<1>1. /\ n \in Nat /\ DOMAIN props = 1..n /\ DOMAIN more = 1..n + 1
      /\ more[n + 1] = line /\ \A k \in 1..n : more[k] = props[k]
  OBVIOUS
<1>2. \A s : ProdIDOf(s) = IF At(s) = {} THEN NoProdID ELSE s[Greatest(At(s))].value
  BY DEF ProdIDOf
<1> HIDE DEF more
<1>3. CASE line.kind = "PRODID"
  <2>1. n + 1 \in At(more) /\ \A j \in At(more) : j <= n + 1 /\ j \in Int
    BY <1>1, <1>3
  <2>2. \A k \in At(more) : (\A j \in At(more) : j <= k) => k = n + 1
    BY <1>1, <2>1
  <2>3. Greatest(At(more)) = n + 1
    BY <2>1, <2>2
  <2> HIDE DEF Greatest, At
  <2>4. At(more) # {}
    BY <2>1
  <2>5. ProdIDOf(more) = more[n + 1].value
    BY <1>2, <2>3, <2>4
  <2> QED BY <1>1, <1>3, <2>5 DEF more
<1>4. CASE line.kind # "PRODID"
  <2>1. At(more) = At(props)
    <3>1. \A k \in 1..n + 1 : k \in 1..n \/ k = n + 1
      BY <1>1
    <3>2. 1..n \subseteq 1..n + 1
      BY <1>1
    <3> QED BY <1>1, <1>4, <3>1, <3>2
  <2>2. CASE At(props) = {}
    BY <1>2, <1>4, <2>1, <2>2 DEF more
  <2>3. CASE At(props) # {}
    <3>1. At(props) \in SUBSET (1..n)
      BY <1>1
    <3>2. \E k \in At(props) : \A j \in At(props) : j <= k
      <4> HIDE DEF At
      <4> QED BY <1>1, <2>3, <3>1, GreatestUpTo
    <3>3. Greatest(At(props)) \in At(props)
      <4> HIDE DEF At
      <4> QED BY <3>2
    <3>4. more[Greatest(At(props))] = props[Greatest(At(props))]
      <4> HIDE DEF Greatest, At
      <4> QED BY <1>1, <3>1, <3>3
    <3> HIDE DEF Greatest, At
    <3> QED BY <1>2, <1>4, <2>1, <2>3, <3>4 DEF more
  <2> QED BY <2>2, <2>3
<1> QED BY <1>3, <1>4

LEMMA ProdIDOfNone == ProdIDOf(<<>>) = NoProdID
BY DEF ProdIDOf

-----------------------------------------------------------------------------
(* The batch parser's steps on a mirrored stack. *)

LEMMA MirrorsFacts ==
  ASSUME NEW b, NEW phase, NEW st, NEW made, NEW id,
         Mirrors(b, phase, st, made, id)
  PROVE  /\ b.phase = phase /\ b.stack # <<>>
         /\ Len(st) \in Nat /\ Len(b.stack) = Len(st) + 1
         /\ st = <<>> <=> Len(st) = 0
         /\ Len(b.stack) = 1 <=> st = <<>>
         /\ st # <<>> => Innermost(b.stack) = Innermost(st)
         /\ st = <<>> => Innermost(b.stack) = Root(b)
         /\ Root(b).type = "VCALENDAR" /\ Root(b).sub = made
<1>1. b.phase = phase
  BY DEF Mirrors
<1>2. /\ Len(st) \in Nat /\ Len(b.stack) = Len(st) + 1
      /\ st = <<>> <=> Len(st) = 0
      /\ Len(b.stack) = 1 <=> st = <<>>
      /\ b.stack # <<>>
  BY IsSeqProperties DEF Mirrors
<1>3. ASSUME st # <<>> PROVE Innermost(b.stack) = Innermost(st)
  <2>1. Len(st) \in 1..Len(st)
    BY <1>2, <1>3
  <2> QED BY <1>2, <2>1 DEF Mirrors, Innermost
<1>4. ASSUME st = <<>> PROVE Innermost(b.stack) = Root(b)
  BY <1>2, <1>4 DEF Innermost, Root
<1>5. Root(b).type = "VCALENDAR" /\ Root(b).sub = made
  BY DEF Mirrors, Calendar
<1> QED BY <1>1, <1>2, <1>3, <1>4, <1>5

LEMMA StackReplaced ==
  ASSUME NEW b, NEW phase, b = [phase |-> phase, stack |-> b.stack], NEW v
  PROVE  /\ [b EXCEPT !.stack = v] = [phase |-> phase, stack |-> v]
         /\ [b EXCEPT !.stack = v].stack = v
         /\ [b EXCEPT !.stack = v].phase = phase
OBVIOUS

LEMMA OuterIsSeq ==
  ASSUME NEW s, IsSeq(s), Len(s) # 0
  PROVE  /\ IsSeq(Outer(s)) /\ Len(Outer(s)) = Len(s) - 1
         /\ \A k \in 1..Len(s) - 1 : Outer(s)[k] = s[k]
BY IsSeqInit DEF Outer

LEMMA MirrorsPush ==
  ASSUME NEW b, NEW phase, NEW st, NEW made, NEW id, NEW x,
         Mirrors(b, phase, st, made, id)
  PROVE  Mirrors([b EXCEPT !.stack = Append(@, x)], phase, Append(st, x), made, id)
<1> DEFINE c == [b EXCEPT !.stack = Append(@, x)]
           s == Append(st, x)
<1>1. Len(st) \in Nat /\ Len(b.stack) = Len(st) + 1
  BY MirrorsFacts
<1>2. c = [phase |-> phase, stack |-> c.stack] /\ c.stack = Append(b.stack, x)
  BY StackReplaced DEF Mirrors
<1>3. /\ IsSeq(c.stack) /\ Len(c.stack) = Len(b.stack) + 1
      /\ \A k \in 1..Len(b.stack) : c.stack[k] = b.stack[k]
      /\ c.stack[Len(b.stack) + 1] = x
  BY <1>2, IsSeqAppend DEF Mirrors
<1>4. /\ IsSeq(s) /\ Len(s) = Len(st) + 1
      /\ \A k \in 1..Len(st) : s[k] = st[k]
      /\ s[Len(st) + 1] = x
  BY IsSeqAppend DEF Mirrors
<1> HIDE DEF c, s
<1>5. ASSUME NEW k \in 1..Len(s) PROVE c.stack[k + 1] = s[k]
  <2>1. CASE k = Len(st) + 1
    BY <1>1, <1>3, <1>4, <2>1
  <2>2. CASE k # Len(st) + 1
    <3>1. k \in 1..Len(st) /\ k + 1 \in 1..Len(b.stack)
      BY <1>1, <1>4, <2>2
    <3> QED BY <1>3, <1>4, <3>1 DEF Mirrors
  <2> QED BY <2>1, <2>2
<1>6. Root(c) = Root(b)
  BY <1>1, <1>3 DEF Root
<1>7. Mirrors(c, phase, s, made, id)
  BY <1>1, <1>2, <1>3, <1>4, <1>5, <1>6 DEF Mirrors
<1> QED BY <1>7 DEF c, s

LEMMA MirrorsPop ==
  ASSUME NEW b, NEW phase, NEW st, NEW made, NEW id, st # <<>>,
         Mirrors(b, phase, st, made, id)
  PROVE  Mirrors([b EXCEPT !.stack = Outer(@)], phase, Outer(st), made, id)
<1> DEFINE c == [b EXCEPT !.stack = Outer(@)]
           s == Outer(st)
<1>1. Len(st) \in Nat \ {0} /\ Len(b.stack) = Len(st) + 1
  BY MirrorsFacts
<1>2. c = [phase |-> phase, stack |-> c.stack] /\ c.stack = Outer(b.stack)
  BY DEF Mirrors
<1>3. /\ IsSeq(c.stack) /\ Len(c.stack) = Len(b.stack) - 1
      /\ \A k \in 1..Len(b.stack) - 1 : c.stack[k] = b.stack[k]
  BY <1>1, <1>2, OuterIsSeq DEF Mirrors
<1>4. /\ IsSeq(s) /\ Len(s) = Len(st) - 1
      /\ \A k \in 1..Len(st) - 1 : s[k] = st[k]
  BY <1>1, OuterIsSeq DEF Mirrors
<1> HIDE DEF c, s
<1>5. ASSUME NEW k \in 1..Len(s) PROVE c.stack[k + 1] = s[k]
  <2>1. k \in 1..Len(st) /\ k \in 1..Len(st) - 1 /\ k + 1 \in 1..Len(b.stack) - 1
    BY <1>1, <1>4
  <2> QED BY <1>3, <1>4, <2>1 DEF Mirrors
<1>6. Root(c) = Root(b)
  <2>1. 1 \in 1..Len(b.stack) - 1
    BY <1>1
  <2> QED BY <1>3, <2>1 DEF Root
<1>7. Mirrors(c, phase, s, made, id)
  BY <1>1, <1>2, <1>3, <1>4, <1>5, <1>6 DEF Mirrors
<1> QED BY <1>7 DEF c, s

\* Another innermost block.
LEMMA MirrorsReplace ==
  ASSUME NEW b, NEW phase, NEW st, NEW made, NEW id, NEW x, st # <<>>,
         Mirrors(b, phase, st, made, id)
  PROVE  Mirrors([b EXCEPT !.stack = OnInnermost(@, x)], phase,
                 OnInnermost(st, x), made, id)
<1> DEFINE c == [b EXCEPT !.stack = Outer(@)]
<1>1. Mirrors(c, phase, Outer(st), made, id)
  BY MirrorsPop
<1>2. [c EXCEPT !.stack = Append(@, x)] = [b EXCEPT !.stack = OnInnermost(@, x)]
  BY DEF Mirrors, OnInnermost
<1> HIDE DEF c
<1>3. Mirrors([c EXCEPT !.stack = Append(@, x)], phase, Append(Outer(st), x), made, id)
  BY <1>1, MirrorsPush
<1> QED BY <1>2, <1>3 DEF OnInnermost

\* Another calendar, when no block is open in it.
LEMMA MirrorsRoot ==
  ASSUME NEW b, NEW phase, NEW made, NEW id, NEW root, NEW more, NEW other,
         Mirrors(b, phase, <<>>, made, id), Calendar(root, more, other)
  PROVE  Mirrors([b EXCEPT !.stack = OnInnermost(@, root)], phase, <<>>, more, other)
<1> DEFINE c == [b EXCEPT !.stack = OnInnermost(@, root)]
<1>1. Len(<<>>) = 0 /\ Len(b.stack) = 1 /\ IsSeq(b.stack)
  BY MirrorsFacts DEF Mirrors
<1>2. c = [phase |-> phase, stack |-> c.stack] /\ c.stack = OnInnermost(b.stack, root)
  BY DEF Mirrors
<1>3. IsSeq(Outer(b.stack)) /\ Len(Outer(b.stack)) = 0
  <2>1. Len(b.stack) # 0 /\ Len(b.stack) - 1 = 0
    BY <1>1
  <2> QED BY <1>1, <2>1, OuterIsSeq
<1>4. IsSeq(c.stack) /\ Len(c.stack) = 1 /\ c.stack[1] = root
  BY <1>2, <1>3, IsSeqAppend DEF OnInnermost
<1> HIDE DEF c
<1>5. Mirrors(c, phase, <<>>, more, other)
  BY <1>1, <1>2, <1>4, IsSeqShort DEF Mirrors, Root
<1> QED BY <1>5 DEF c

-----------------------------------------------------------------------------
(* The batch parser's steps, one kind of line at a time. *)

LEMMA ParseBlockIs ==
  ASSUME NEW b, NEW line
  PROVE  /\ line = Garbled => ParseBlock(b, line) = BatchFailed
         /\ line \in PropertyLines =>
              ParseBlock(b, line) = [b EXCEPT !.stack = AddProp(@, line)]
         /\ line \in BlockLines /\ line.kind = "BEGIN" =>
              ParseBlock(b, line) = [b EXCEPT !.stack = Append(@, Block(line.value))]
         /\ line \in BlockLines /\ line.kind = "END" =>
              ParseBlock(b, line) =
                IF ~Closes(line, b.stack)
                THEN BatchFailed
                ELSE IF Len(b.stack) = 1
                     THEN [b EXCEPT !.phase = "closed"]
                     ELSE [b EXCEPT !.stack = AddChild(Outer(@), Innermost(@))]
<1>1. line = Garbled => ParseBlock(b, line) = BatchFailed
  BY LineKinds DEF ParseBlock
<1>2. ASSUME line \in PropertyLines
      PROVE  ParseBlock(b, line) = [b EXCEPT !.stack = AddProp(@, line)]
  <2>1. line # Garbled /\ line.kind # "BEGIN" /\ line.kind # "END"
    BY <1>2, LineKinds
  <2> QED BY <2>1 DEF ParseBlock
<1>3. ASSUME line \in BlockLines, line.kind = "BEGIN"
      PROVE  ParseBlock(b, line) = [b EXCEPT !.stack = Append(@, Block(line.value))]
  <2>1. line # Garbled
    BY <1>3, LineKinds
  <2> QED BY <1>3, <2>1 DEF ParseBlock
<1>4. ASSUME line \in BlockLines, line.kind = "END"
      PROVE  ParseBlock(b, line) =
                IF ~Closes(line, b.stack)
                THEN BatchFailed
                ELSE IF Len(b.stack) = 1
                     THEN [b EXCEPT !.phase = "closed"]
                     ELSE [b EXCEPT !.stack = AddChild(Outer(@), Innermost(@))]
  <2>1. line # Garbled /\ line.kind # "BEGIN"
    BY <1>4, LineKinds
  <2> QED BY <1>4, <2>1 DEF ParseBlock
<1> QED BY <1>1, <1>2, <1>3, <1>4

\* A BEGIN opens a block.
LEMMA ParseBegin ==
  ASSUME NEW b, NEW phase, NEW st, NEW made, NEW id, Mirrors(b, phase, st, made, id),
         NEW line \in BlockLines, line.kind = "BEGIN"
  PROVE  Mirrors(ParseBlock(b, line), phase, Append(st, Block(line.value)), made, id)
BY ParseBlockIs, MirrorsPush

\* A property goes to the innermost open block.
LEMMA ParseProperty ==
  ASSUME NEW b, NEW phase, NEW st, NEW made, NEW id, Mirrors(b, phase, st, made, id),
         st # <<>>, NEW line \in PropertyLines
  PROVE  Mirrors(ParseBlock(b, line), phase, AddProp(st, line), made, id)
<1> DEFINE x == [Innermost(st) EXCEPT !.props = Append(@, line)]
<1>1. Innermost(b.stack) = Innermost(st)
  BY MirrorsFacts
<1>2. ParseBlock(b, line) = [b EXCEPT !.stack = AddProp(@, line)]
  BY ParseBlockIs
<1>3. AddProp(b.stack, line) = OnInnermost(b.stack, x)
  BY <1>1 DEF AddProp
<1>4. AddProp(st, line) = OnInnermost(st, x)
  BY DEF AddProp
<1> HIDE DEF x
<1>5. ParseBlock(b, line) = [b EXCEPT !.stack = OnInnermost(@, x)]
  BY <1>2, <1>3
<1> QED BY <1>4, <1>5, MirrorsReplace

\* Or to the calendar, if no block is open.
LEMMA ParseCalendarProperty ==
  ASSUME NEW b, NEW phase, NEW made, NEW id, Mirrors(b, phase, <<>>, made, id),
         NEW line \in PropertyLines
  PROVE  /\ Root(ParseBlock(b, line)).props = Append(Root(b).props, line)
         /\ Root(ParseBlock(b, line)).sub = made
         /\ Root(b).props \in Seq(PropertyLines)
         /\ (line.kind = "VERSION" => line.value = Supported)
              => Mirrors(ParseBlock(b, line), phase, <<>>, made,
                         IF line.kind = "PRODID" THEN line.value ELSE id)
<1> DEFINE root == [Root(b) EXCEPT !.props = Append(@, line)]
           next == IF line.kind = "PRODID" THEN line.value ELSE id
           c == [b EXCEPT !.stack = OnInnermost(@, root)]
<1>1. Calendar(Root(b), made, id) /\ Innermost(b.stack) = Root(b)
  BY MirrorsFacts DEF Mirrors
<1>2. /\ Root(b).props \in Seq(PropertyLines)
      /\ Root(b) = [type |-> "VCALENDAR", props |-> Root(b).props, sub |-> made]
  BY <1>1 DEF Calendar
<1>3. /\ root.props = Append(Root(b).props, line) /\ root.sub = made
      /\ root = [type |-> "VCALENDAR", props |-> root.props, sub |-> made]
  <2>1. root = [type |-> "VCALENDAR", props |-> Append(Root(b).props, line), sub |-> made]
    BY <1>2
  <2> HIDE DEF root
  <2> QED BY <2>1
<1>4. ParseBlock(b, line) = c
  BY <1>1, ParseBlockIs DEF AddProp
<1>5. Root(c) = root
  <2>1. c.stack = OnInnermost(b.stack, root)
    BY StackReplaced DEF Mirrors
  <2>2. IsSeq(b.stack) /\ Len(b.stack) = 1
    BY MirrorsFacts DEF Mirrors
  <2>3. IsSeq(Outer(b.stack)) /\ Len(Outer(b.stack)) = 0
    <3>1. Len(b.stack) # 0 /\ Len(b.stack) - 1 = 0
      BY <2>2
    <3> QED BY <2>2, <3>1, OuterIsSeq
  <2> HIDE DEF root, c
  <2> QED BY <2>1, <2>3, IsSeqAppend DEF OnInnermost, Root
<1> HIDE DEF root
<1>6. ASSUME line.kind = "VERSION" => line.value = Supported
      PROVE  Calendar(root, made, next)
  <2>1. root.props \in Seq(PropertyLines)
    BY <1>2, <1>3
  <2>2. ProdIDOf(root.props) = next
    BY <1>1, <1>2, <1>3, ProdIDOfAppend DEF Calendar
  <2>3. ASSUME NEW k \in DOMAIN root.props, root.props[k].kind = "VERSION"
        PROVE  root.props[k].value = Supported
    <3>1. CASE k = Len(Root(b).props) + 1
      BY <1>2, <1>3, <1>6, <2>3, <3>1
    <3>2. CASE k # Len(Root(b).props) + 1
      <4>1. k \in DOMAIN Root(b).props /\ root.props[k] = Root(b).props[k]
        BY <1>2, <1>3, <3>2
      <4> QED BY <1>1, <2>3, <4>1 DEF Calendar
    <3> QED BY <3>1, <3>2
  <2> QED BY <1>1, <1>3, <2>1, <2>2, <2>3 DEF Calendar
<1>7. ASSUME line.kind = "VERSION" => line.value = Supported
      PROVE  Mirrors(c, phase, <<>>, made, next)
  BY <1>6, <1>7, MirrorsRoot
<1> QED BY <1>2, <1>3, <1>4, <1>5, <1>7

\* An END closes the innermost open block, if it names it, into the one around.
LEMMA ParseEnd ==
  ASSUME NEW b, NEW phase, NEW st, NEW made, NEW id, Mirrors(b, phase, st, made, id),
         st # <<>>, NEW line \in BlockLines, line.kind = "END"
  PROVE  /\ ~Closes(line, st) => ParseBlock(b, line) = BatchFailed
         /\ Closes(line, st) /\ Len(st) # 1 =>
              Mirrors(ParseBlock(b, line), phase,
                      AddChild(Outer(st), Innermost(st)), made, id)
         /\ Closes(line, st) /\ Len(st) = 1 =>
              Mirrors(ParseBlock(b, line), phase, <<>>, Append(made, st[1]), id)
<1> DEFINE c == [b EXCEPT !.stack = Outer(@)]
           d == [b EXCEPT !.stack = AddChild(Outer(@), Innermost(@))]
<1>1. /\ Innermost(b.stack) = Innermost(st) /\ Len(b.stack) # 1
      /\ Closes(line, b.stack) <=> Closes(line, st)
  BY MirrorsFacts DEF Closes
<1>2. /\ ~Closes(line, st) => ParseBlock(b, line) = BatchFailed
      /\ Closes(line, st) => ParseBlock(b, line) = d
  BY <1>1, ParseBlockIs
<1>3. Mirrors(c, phase, Outer(st), made, id) /\ c.stack = Outer(b.stack)
  BY MirrorsPop, StackReplaced DEF Mirrors
<1>4. \A x : [c EXCEPT !.stack = OnInnermost(@, x)]
               = [b EXCEPT !.stack = OnInnermost(Outer(@), x)]
  BY DEF Mirrors
<1>5. IsSeq(Outer(st)) /\ Len(Outer(st)) = Len(st) - 1 /\ Len(st) \in Nat
  BY MirrorsFacts, OuterIsSeq DEF Mirrors
<1>6. d = [c EXCEPT !.stack = OnInnermost(@,
              [Innermost(c.stack) EXCEPT !.sub = Append(@, Innermost(st))])]
  BY <1>1, <1>3, <1>4 DEF AddChild
<1> HIDE DEF c, d
<1>7. CASE Len(st) # 1
  <2> DEFINE x == [Innermost(Outer(st)) EXCEPT !.sub = Append(@, Innermost(st))]
  <2>1. Outer(st) # <<>>
    BY <1>5, <1>7, IsSeqProperties
  <2>2. Innermost(c.stack) = Innermost(Outer(st))
    BY <1>3, <2>1, MirrorsFacts
  <2>3. d = [c EXCEPT !.stack = OnInnermost(@, x)]
    BY <1>6, <2>2
  <2>4. AddChild(Outer(st), Innermost(st)) = OnInnermost(Outer(st), x)
    BY DEF AddChild
  <2> HIDE DEF x
  <2>5. Mirrors(d, phase, AddChild(Outer(st), Innermost(st)), made, id)
    BY <1>3, <2>1, <2>3, <2>4, MirrorsReplace
  <2> QED BY <1>2, <1>7, <2>5
<1>8. CASE Len(st) = 1
  <2> DEFINE root == [Root(c) EXCEPT !.sub = Append(@, Innermost(st))]
  <2>1. Outer(st) = <<>> /\ Innermost(st) = st[1]
    BY <1>5, <1>8, IsSeqProperties DEF Innermost
  <2>2. Mirrors(c, phase, <<>>, made, id)
    BY <1>3, <2>1
  <2>3. Innermost(c.stack) = Root(c) /\ Calendar(Root(c), made, id)
    BY <2>2, MirrorsFacts DEF Mirrors
  <2>4. root = [type |-> "VCALENDAR", props |-> Root(c).props,
                sub |-> Append(made, st[1])]
    BY <2>1, <2>3 DEF Calendar
  <2>5. d = [c EXCEPT !.stack = OnInnermost(@, root)]
    BY <1>6, <2>3
  <2> HIDE DEF root
  <2>6. Calendar(root, Append(made, st[1]), id)
    BY <2>3, <2>4, IsSeqAppend DEF Calendar
  <2>7. Mirrors(d, phase, <<>>, Append(made, st[1]), id)
    BY <2>2, <2>5, <2>6, MirrorsRoot
  <2> QED BY <1>2, <1>8, <2>7
<1> QED BY <1>2, <1>7, <1>8

\* Or the calendar.
LEMMA ParseCalendarEnd ==
  ASSUME NEW b, NEW phase, NEW made, NEW id, Mirrors(b, phase, <<>>, made, id),
         NEW line \in BlockLines, line.kind = "END"
  PROVE  /\ line.value # "VCALENDAR" => ParseBlock(b, line) = BatchFailed
         /\ line.value = "VCALENDAR" =>
              Mirrors(ParseBlock(b, line), "closed", <<>>, made, id)
<1> DEFINE c == [b EXCEPT !.phase = "closed"]
<1>1. /\ Innermost(b.stack).type = "VCALENDAR" /\ Len(b.stack) = 1
  BY MirrorsFacts
<1>2. /\ line.value # "VCALENDAR" => ParseBlock(b, line) = BatchFailed
      /\ line.value = "VCALENDAR" => ParseBlock(b, line) = c
  BY <1>1, ParseBlockIs DEF Closes
<1>3. c = [phase |-> "closed", stack |-> c.stack] /\ c.stack = b.stack
  BY DEF Mirrors
<1> HIDE DEF c
<1>4. Mirrors(c, "closed", <<>>, made, id)
  BY <1>3 DEF Mirrors, Root
<1> QED BY <1>2, <1>4

LEMMA StepIsParse ==
  ASSUME NEW b, NEW st, NEW made, NEW id, Mirrors(b, "open", st, made, id), NEW line
  PROVE  BatchStep(b, line) = ParseBlock(b, line)
BY MirrorsFacts DEF BatchStep

-----------------------------------------------------------------------------
(* The stream keeps in step. *)

LEMMA InsideMirrors == Mirrors(Inside, "open", <<>>, <<>>, NoProdID)
<1> DEFINE root == Block("VCALENDAR")
<1>1. root.props = <<>> /\ root = [type |-> "VCALENDAR", props |-> root.props, sub |-> <<>>]
  BY DEF Block
<1> HIDE DEF root
<1>2. Calendar(root, <<>>, NoProdID)
  <2>1. root.props \in Seq(PropertyLines)
    BY <1>1
  <2>2. ProdIDOf(root.props) = NoProdID
    BY <1>1, ProdIDOfNone
  <2>3. DOMAIN root.props = {}
    BY <1>1
  <2> QED BY <1>1, <2>1, <2>2, <2>3, IsSeqShort DEF Calendar
<1>3. Inside = [phase |-> "open", stack |-> <<root>>] /\ Inside.stack = <<root>>
  BY DEF Inside, root
<1>4. IsSeq(<<root>>) /\ IsSeq(<<>>) /\ Len(<<root>>) = 1 /\ <<root>>[1] = root
        /\ Len(<<>>) = 0
  BY IsSeqShort
<1> QED BY <1>2, <1>3, <1>4 DEF Mirrors, Root

LEMMA OnlyOne ==
  ASSUME NEW x
  PROVE  Append(<<>>, x) = <<x>> /\ <<x>> # <<>>
OBVIOUS

\* After an error nothing is left to keep.
LEMMA FailKeepsSync ==
  ASSUME SyncInv, NEW error, Fail(error), UNCHANGED headerRead
  PROVE  SyncInv'
BY DEF SyncInv, Fail, Return

LEMMA CallsKeepSync ==
  ASSUME SyncInv, CallHeader \/ CallNext
  PROVE  SyncInv'
<1>1. UNCHANGED <<prodid, pending, done, stack, yielded, failed, batch>>
  BY DEF CallHeader, CallNext, past, reader
<1>2. /\ pc = "idle" /\ pc' \in {"idle", "first", "top"} /\ headerRead' \in BOOLEAN
      /\ pc' # "idle" => headerRead'
      /\ headerRead => headerRead' /\ pc' # "first"
      /\ ~headerRead => ~headerRead' \/ pc' = "first" \/ done
      /\ pc' = "top" => ~done
  BY DEF SyncInv, CallHeader, CallNext
<1>3. ASSUME ~failed, ~headerRead PROVE Untouched' /\ (~headerRead' \/ pc' = "first")
  BY <1>1, <1>2, <1>3 DEF SyncInv, Untouched
<1>4. ASSUME ~failed, headerRead PROVE InStep' /\ Located'
  <2>1. InStep /\ Located
    BY <1>2, <1>4 DEF SyncInv
  <2>2. InStep'
    BY <1>1, <2>1 DEF InStep
  <2>3. Located'
    BY <1>1, <1>2, <1>4, <2>1 DEF Located
  <2> QED BY <2>2, <2>3
<1> QED BY <1>1, <1>2, <1>3, <1>4 DEF SyncInv

LEMMA ReadFirstKeepsSync ==
  ASSUME SyncInv, ReadFirst
  PROVE  SyncInv'
<1>1. PICK line \in Lines :
        /\ Deliver(line)
        /\ IF line = BeginCalendar
           THEN pc' = "header" /\ UNCHANGED <<method, stack, block, result, past>>
           ELSE Fail("malformed")
  BY DEF ReadFirst
<1>2. UNCHANGED parser /\ pc = "first" /\ batch' = BatchStep(batch, line)
  BY <1>1 DEF ReadFirst, Deliver
<1>3. CASE line # BeginCalendar
  BY <1>1, <1>2, <1>3, FailKeepsSync DEF parser
<1>4. CASE line = BeginCalendar
  <2>1. pc' = "header" /\ UNCHANGED <<stack, yielded, failed, parser>>
    BY <1>1, <1>2, <1>4 DEF past
  <2>2. ASSUME ~failed PROVE InStep' /\ Located'
    <3>1. Untouched
      BY <1>2, <2>2 DEF SyncInv
    <3>2. batch' = Inside
      BY <1>2, <1>4, <3>1 DEF Untouched, BatchStart, BatchStep, Inside
    <3>3. /\ pending' = NoLine /\ ~done' /\ stack' = <<>> /\ yielded' = <<>>
          /\ prodid' = NoProdID
      BY <2>1, <3>1 DEF Untouched, parser
    <3>4. InStep'
      BY <3>2, <3>3, InsideMirrors DEF InStep
    <3> QED BY <2>1, <3>3, <3>4 DEF Located
  <2> QED BY <1>2, <2>1, <2>2 DEF SyncInv, parser
<1> QED BY <1>3, <1>4

LEMMA HeaderBoundaryKeepsSync ==
  ASSUME SyncInv, ReadHeaderBoundary
  PROVE  SyncInv'
<1>1. PICK line \in BlockLines : Deliver(line) /\ pending' = line
  BY DEF ReadHeaderBoundary
<1>2. /\ pc = "header" /\ pc' \in {"idle", "top"}
      /\ stack' = <<>> \/ stack' = stack
      /\ UNCHANGED <<headerRead, prodid, done, yielded, failed>>
      /\ batch' = BatchStep(batch, line)
  BY <1>1 DEF ReadHeaderBoundary, HeaderDone, Return, past, Deliver
<1>3. ASSUME ~failed PROVE InStep' /\ Located'
  <2>1. /\ ~done /\ stack = <<>> /\ yielded = <<>> /\ pending = NoLine
        /\ Mirrors(batch, "open", <<>>, <<>>, prodid)
    BY <1>2, <1>3 DEF SyncInv, InStep, Located
  <2>2. batch' = ParseBlock(batch, line)
    BY <1>2, <2>1, StepIsParse
  <2>3. pending' # NoLine /\ line.kind \in {"BEGIN", "END"}
    BY <1>1, LineKinds
  <2>4. Located'
    BY <1>2, <2>1, <2>3 DEF Located
  <2>5. CASE line.kind = "BEGIN"
    <3>1. ~Mismatch(line) /\ line # Closing
            /\ Opened(line) = Append(<<>>, Block(line.value))
      BY <2>5, OnlyOne DEF Mismatch, Closing, Opened
    <3>2. Mirrors(batch', "open", Opened(line), <<>>, prodid)
      BY <2>1, <2>2, <2>5, <3>1, ParseBegin
    <3> QED BY <1>1, <1>2, <2>1, <2>3, <2>4, <3>1, <3>2 DEF InStep
  <2>6. CASE line.kind = "END" /\ line.value # "VCALENDAR"
    <3>1. Mismatch(line) /\ batch' = BatchFailed
      BY <2>1, <2>2, <2>6, ParseCalendarEnd DEF Mismatch
    <3> QED BY <1>1, <1>2, <2>1, <2>3, <2>4, <3>1 DEF InStep
  <2>7. CASE line.kind = "END" /\ line.value = "VCALENDAR"
    <3>1. ~Mismatch(line) /\ line = Closing /\ Opened(line) = <<>>
      BY <2>7, BlockLineIs DEF Mismatch, Closing, Opened
    <3>2. Mirrors(batch', "closed", <<>>, <<>>, prodid)
      BY <2>1, <2>2, <2>7, ParseCalendarEnd
    <3> QED BY <1>1, <1>2, <2>1, <2>3, <2>4, <3>1, <3>2 DEF InStep
  <2> QED BY <2>3, <2>5, <2>6, <2>7
<1> QED BY <1>2, <1>3 DEF SyncInv

LEMMA HeaderPropertyKeepsSync ==
  ASSUME SyncInv, ReadHeaderProperty
  PROVE  SyncInv'
<1>1. PICK line \in PropertyLines :
        /\ Deliver(line)
        /\ IF line.kind = "VERSION" /\ line.value # Supported
           THEN Fail("version")
           ELSE UNCHANGED <<call, past>>
        /\ prodid' = IF line.kind = "PRODID" THEN line.value ELSE prodid
  BY DEF ReadHeaderProperty
<1>2. /\ pc = "header" /\ UNCHANGED <<headerRead, pending, done>>
      /\ batch' = BatchStep(batch, line)
  BY <1>1 DEF ReadHeaderProperty, Deliver
<1>3. CASE line.kind = "VERSION" /\ line.value # Supported
  BY <1>1, <1>2, <1>3, FailKeepsSync
<1>4. CASE ~(line.kind = "VERSION" /\ line.value # Supported)
  <2>1. UNCHANGED <<pc, stack, yielded, failed>>
    BY <1>1, <1>4 DEF call, past
  <2>2. ASSUME ~failed PROVE InStep' /\ Located'
    <3>1. /\ ~done /\ stack = <<>> /\ yielded = <<>> /\ pending = NoLine
          /\ Mirrors(batch, "open", <<>>, <<>>, prodid)
      BY <1>2, <2>2 DEF SyncInv, InStep, Located
    <3>2. batch' = ParseBlock(batch, line)
      BY <1>2, <3>1, StepIsParse
    <3>3. Mirrors(batch', "open", <<>>, <<>>, prodid')
      BY <1>1, <1>4, <3>1, <3>2, ParseCalendarProperty
    <3>4. InStep'
      BY <1>2, <2>1, <3>1, <3>3 DEF InStep
    <3> QED BY <1>2, <2>1, <3>1, <3>4 DEF Located
  <2> QED BY <1>2, <2>1, <2>2 DEF SyncInv
<1> QED BY <1>3, <1>4

\* A stack with another innermost block, or with one block put into the one
\* around it, is not empty.
LEMMA OnInnermostIsSome ==
  ASSUME NEW st, IsSeq(st), st # <<>>, NEW x
  PROVE  OnInnermost(st, x) # <<>>
<1>1. Len(st) \in Nat /\ Len(st) # 0
  BY IsSeqProperties
<1>2. IsSeq(Outer(st))
  BY <1>1, OuterIsSeq
<1>3. IsSeq(OnInnermost(st, x)) /\ Len(OnInnermost(st, x)) = Len(Outer(st)) + 1
  BY <1>2, IsSeqAppend DEF OnInnermost
<1> QED BY <1>2, <1>3, IsSeqProperties

LEMMA AddChildIsSome ==
  ASSUME NEW st, IsSeq(st), st # <<>>, Len(st) # 1, NEW x
  PROVE  AddChild(Outer(st), x) # <<>>
<1>1. Len(st) \in Nat /\ Len(st) # 0
  BY IsSeqProperties
<1>2. IsSeq(Outer(st)) /\ Len(Outer(st)) = Len(st) - 1
  BY <1>1, OuterIsSeq
<1>3. Outer(st) # <<>>
  BY <1>1, <1>2, IsSeqProperties
<1> QED BY <1>2, <1>3, OnInnermostIsSome DEF AddChild

\* The scanner's errors and the garbled lines leave the parser as it is.
LEMMA ErrorsKeepSync ==
  ASSUME SyncInv,
         \/ ScannerEOF \/ ScannerError \/ ReadGarbledHeader
         \/ TopOther \/ BlockGarbled
  PROVE  SyncInv'
<1>1. /\ Fail("malformed") \/ Fail("unclosed") \/ Fail("io")
      /\ UNCHANGED headerRead
  BY DEF ScannerEOF, ScannerError, ReadGarbledHeader, TopOther, BlockGarbled, parser
<1> QED BY <1>1, FailKeepsSync

\* The line after the header or after a component takes the batch parser from
\* where it is, or has taken it there when it was pending.
LEMMA TopLineIsParsed ==
  ASSUME SyncInv, ~failed, pc = "top", NEW line \in BlockLines, TopLine(line)
  PROVE  /\ ~done /\ stack = <<>> /\ pending' = NoLine
         /\ line.kind = "BEGIN" =>
              Mirrors(batch', "open", <<Block(line.value)>>, yielded, prodid)
         /\ line = Closing => Mirrors(batch', "closed", <<>>, yielded, prodid)
         /\ Mismatch(line) => batch' = BatchFailed
<1>1. InStep /\ ~done /\ stack = <<>>
  BY DEF SyncInv, Located
<1>2. CASE pending # NoLine
  <2>1. /\ line = pending /\ pending' = NoLine /\ batch' = batch /\ yielded = <<>>
        /\ IF Mismatch(line)
           THEN batch = BatchFailed
           ELSE Mirrors(batch, IF line = Closing THEN "closed" ELSE "open",
                        Opened(line), <<>>, prodid)
    BY <1>1, <1>2 DEF TopLine, reader, InStep
  <2>2. line.kind = "BEGIN" =>
          line # Closing /\ ~Mismatch(line) /\ Opened(line) = <<Block(line.value)>>
    BY DEF Closing, Mismatch, Opened
  <2>3. line = Closing => ~Mismatch(line) /\ Opened(line) = <<>>
    BY DEF Closing, Mismatch, Opened
  <2> QED BY <1>1, <2>1, <2>2, <2>3
<1>3. CASE pending = NoLine
  <2>1. Mirrors(batch, "open", <<>>, yielded, prodid)
    BY <1>1, <1>3 DEF InStep
  <2>2. batch' = BatchStep(batch, line) /\ pending' = NoLine
    BY <1>3 DEF TopLine, Deliver
  <2>3. batch' = ParseBlock(batch, line)
    BY <2>1, <2>2, StepIsParse
  <2>4. line.kind = "BEGIN" =>
          Mirrors(batch', "open", <<Block(line.value)>>, yielded, prodid)
    BY <2>1, <2>3, ParseBegin, OnlyOne
  <2>5. line = Closing => Mirrors(batch', "closed", <<>>, yielded, prodid)
    BY <2>1, <2>3, ParseCalendarEnd DEF Closing
  <2>6. Mismatch(line) => batch' = BatchFailed
    BY <2>1, <2>3, ParseCalendarEnd DEF Mismatch
  <2> QED BY <1>1, <2>2, <2>4, <2>5, <2>6
<1> QED BY <1>2, <1>3

LEMMA TopBeginKeepsSync ==
  ASSUME SyncInv, TopBegin
  PROVE  SyncInv'
<1>1. PICK line \in BlockLines :
        line.kind = "BEGIN" /\ TopLine(line) /\ stack' = <<Block(line.value)>>
  BY DEF TopBegin
<1>2. /\ pc = "top" /\ pc' = "block"
      /\ UNCHANGED <<headerRead, prodid, done, yielded, failed>>
  BY DEF TopBegin
<1>3. ASSUME ~failed PROVE InStep' /\ Located'
  <2>1. /\ ~done /\ pending' = NoLine
        /\ Mirrors(batch', "open", <<Block(line.value)>>, yielded, prodid)
    BY <1>1, <1>2, <1>3, TopLineIsParsed
  <2>2. InStep'
    BY <1>1, <1>2, <2>1 DEF InStep
  <2>3. stack' # <<>>
    BY <1>1, OnlyOne
  <2> QED BY <1>2, <2>1, <2>2, <2>3 DEF Located
<1> QED BY <1>2, <1>3 DEF SyncInv

LEMMA TopEndKeepsSync ==
  ASSUME SyncInv, TopEnd
  PROVE  SyncInv'
<1>1. PICK line \in BlockLines :
        /\ line.kind = "END"
        /\ TopLine(line)
        /\ IF line.value = "VCALENDAR"
           THEN done' = TRUE /\ Return("EOF") /\ UNCHANGED past
           ELSE UNCHANGED done /\ Fail("malformed")
  BY DEF TopEnd
<1>2. pc = "top" /\ UNCHANGED <<headerRead, prodid>>
  BY DEF TopEnd
<1>3. CASE line.value # "VCALENDAR"
  BY <1>1, <1>2, <1>3, FailKeepsSync
<1>4. CASE line.value = "VCALENDAR"
  <2>1. /\ done' = TRUE /\ pc' = "idle" /\ stack' = <<>>
        /\ UNCHANGED <<yielded, failed>>
    BY <1>1, <1>4 DEF Return, past
  <2>2. ASSUME ~failed PROVE InStep' /\ Located'
    <3>1. line = Closing
      BY <1>1, <1>4, BlockLineIs DEF Closing
    <3>2. pending' = NoLine /\ Mirrors(batch', "closed", <<>>, yielded, prodid)
      BY <1>1, <1>2, <2>2, <3>1, TopLineIsParsed
    <3>3. InStep'
      BY <1>2, <2>1, <3>2 DEF InStep
    <3> QED BY <2>1, <3>2, <3>3 DEF Located
  <2> QED BY <1>2, <2>1, <2>2 DEF SyncInv
<1> QED BY <1>3, <1>4

\* Inside a block the batch parser takes the same line.
LEMMA BlockLineIsParsed ==
  ASSUME SyncInv, ~failed, pc = "block", NEW line, Deliver(line)
  PROVE  /\ InStep /\ Located /\ ~done /\ pending = NoLine /\ stack # <<>>
         /\ Mirrors(batch, "open", stack, yielded, prodid)
         /\ batch' = ParseBlock(batch, line)
<1>1. /\ InStep /\ Located /\ ~done /\ pending = NoLine /\ stack # <<>>
  BY DEF SyncInv, Located
<1>2. Mirrors(batch, "open", stack, yielded, prodid)
  BY <1>1 DEF InStep
<1> QED BY <1>1, <1>2, StepIsParse DEF Deliver

LEMMA BlockBeginKeepsSync ==
  ASSUME SyncInv, BlockBegin
  PROVE  SyncInv'
<1>1. PICK type \in Names :
        /\ Deliver([kind |-> "BEGIN", value |-> type])
        /\ stack' = Append(stack, Block(type))
  BY DEF BlockBegin
<1>2. /\ pc = "block" /\ UNCHANGED <<headerRead, pending, prodid, done, pc, yielded, failed>>
  BY DEF BlockBegin, parser, past
<1> DEFINE line == [kind |-> "BEGIN", value |-> type]
<1>3. line \in BlockLines /\ line.kind = "BEGIN" /\ line.value = type
  BY NamedLines
<1> HIDE DEF line
<1>4. Deliver(line)
  BY <1>1 DEF line
<1>5. ASSUME ~failed PROVE InStep' /\ Located'
  <2>1. /\ ~done /\ pending = NoLine /\ stack # <<>>
        /\ Mirrors(batch, "open", stack, yielded, prodid)
        /\ batch' = ParseBlock(batch, line)
    BY <1>2, <1>4, <1>5, BlockLineIsParsed
  <2>2. Mirrors(batch', "open", stack', yielded, prodid)
    BY <1>1, <1>3, <2>1, ParseBegin
  <2>3. stack' # <<>>
    <3>1. IsSeq(stack) /\ Len(stack) \in Nat
      BY <2>1, MirrorsFacts DEF Mirrors
    <3> QED BY <1>1, <3>1, IsSeqAppend, IsSeqProperties
  <2>4. InStep'
    BY <1>2, <2>1, <2>2 DEF InStep
  <2> QED BY <1>2, <2>1, <2>3, <2>4 DEF Located
<1> QED BY <1>2, <1>5 DEF SyncInv

LEMMA BlockEndKeepsSync ==
  ASSUME SyncInv, BlockEnd
  PROVE  SyncInv'
<1>1. PICK type \in Names :
        LET line == [kind |-> "END", value |-> type] IN
        /\ Deliver(line)
        /\ IF ~Closes(line, stack)
           THEN Fail("malformed")
           ELSE IF Len(stack) = 1
                THEN Yield(stack[1], line)
                ELSE /\ stack' = AddChild(Outer(stack), Innermost(stack))
                     /\ block' = Append(block, line)
                     /\ UNCHANGED <<pc, method, result, past>>
  BY DEF BlockEnd
<1> DEFINE line == [kind |-> "END", value |-> type]
<1>2. pc = "block" /\ UNCHANGED <<headerRead, pending, prodid, done>>
  BY DEF BlockEnd, parser
<1>3. line \in BlockLines /\ line.kind = "END" /\ line.value = type
  BY NamedLines
<1> HIDE DEF line
<1>4. /\ Deliver(line)
      /\ ~Closes(line, stack) => Fail("malformed")
      /\ Closes(line, stack) /\ Len(stack) = 1 => Yield(stack[1], line)
      /\ Closes(line, stack) /\ Len(stack) # 1 =>
           /\ stack' = AddChild(Outer(stack), Innermost(stack))
           /\ UNCHANGED <<pc, yielded, failed>>
  BY <1>1 DEF line, past
<1>5. CASE ~Closes(line, stack)
  BY <1>2, <1>4, <1>5, FailKeepsSync
<1>6. CASE Closes(line, stack) /\ Len(stack) = 1
  <2>1. /\ pc' = "idle" /\ stack' = <<>> /\ yielded' = Append(yielded, stack[1])
        /\ UNCHANGED failed
    BY <1>4, <1>6 DEF Yield
  <2>2. ASSUME ~failed PROVE InStep' /\ Located'
    <3>1. /\ ~done /\ pending = NoLine /\ stack # <<>>
          /\ Mirrors(batch, "open", stack, yielded, prodid)
          /\ batch' = ParseBlock(batch, line)
      BY <1>2, <1>4, <2>2, BlockLineIsParsed
    <3>2. Mirrors(batch', "open", <<>>, yielded', prodid)
      BY <1>3, <1>6, <2>1, <3>1, ParseEnd
    <3>3. InStep'
      BY <1>2, <2>1, <3>1, <3>2 DEF InStep
    <3>4. yielded' # <<>>
      <4>1. IsSeq(yielded)
        BY <3>1 DEF Mirrors, Calendar
      <4> QED BY <2>1, <4>1, IsSeqAppend, IsSeqProperties
    <3> QED BY <1>2, <2>1, <3>1, <3>3, <3>4 DEF Located
  <2> QED BY <1>2, <2>1, <2>2 DEF SyncInv
<1>7. CASE Closes(line, stack) /\ Len(stack) # 1
  <2>1. /\ stack' = AddChild(Outer(stack), Innermost(stack))
        /\ UNCHANGED <<pc, yielded, failed>>
    BY <1>4, <1>7
  <2>2. ASSUME ~failed PROVE InStep' /\ Located'
    <3>1. /\ ~done /\ pending = NoLine /\ stack # <<>>
          /\ Mirrors(batch, "open", stack, yielded, prodid)
          /\ batch' = ParseBlock(batch, line)
      BY <1>2, <1>4, <2>2, BlockLineIsParsed
    <3>2. Mirrors(batch', "open", stack', yielded, prodid)
      BY <1>3, <1>7, <2>1, <3>1, ParseEnd
    <3>3. InStep'
      BY <1>2, <2>1, <3>1, <3>2 DEF InStep
    <3>4. stack' # <<>>
      BY <1>7, <2>1, <3>1, AddChildIsSome DEF Mirrors
    <3> QED BY <1>2, <2>1, <3>1, <3>3, <3>4 DEF Located
  <2> QED BY <1>2, <2>1, <2>2 DEF SyncInv
<1> QED BY <1>5, <1>6, <1>7

LEMMA BlockPropertyKeepsSync ==
  ASSUME SyncInv, BlockProperty
  PROVE  SyncInv'
<1>1. PICK line \in PropertyLines : Deliver(line) /\ stack' = AddProp(stack, line)
  BY DEF BlockProperty
<1>2. pc = "block" /\ UNCHANGED <<headerRead, pending, prodid, done, pc, yielded, failed>>
  BY DEF BlockProperty, parser, past
<1>3. ASSUME ~failed PROVE InStep' /\ Located'
  <2>1. /\ ~done /\ pending = NoLine /\ stack # <<>>
        /\ Mirrors(batch, "open", stack, yielded, prodid)
        /\ batch' = ParseBlock(batch, line)
    BY <1>1, <1>2, <1>3, BlockLineIsParsed
  <2>2. Mirrors(batch', "open", stack', yielded, prodid)
    BY <1>1, <2>1, ParseProperty
  <2>3. InStep'
    BY <1>2, <2>1, <2>2 DEF InStep
  <2>4. stack' # <<>>
    BY <1>1, <2>1, OnInnermostIsSome DEF AddProp, Mirrors
  <2> QED BY <1>2, <2>1, <2>3, <2>4 DEF Located
<1> QED BY <1>2, <1>3 DEF SyncInv

-----------------------------------------------------------------------------
(* The invariant. *)

LEMMA SyncInit == Init => SyncInv
BY DEF Init, SyncInv, Untouched

LEMMA SyncStutter ==
  ASSUME SyncInv, UNCHANGED vars
  PROVE  SyncInv'
<1>1. /\ UNCHANGED <<pc, headerRead, failed, batch, pending, done, stack,
                     yielded, prodid>>
  BY DEF vars, parser, call, past, reader
<1>2. (Untouched <=> Untouched') /\ (InStep <=> InStep') /\ (Located <=> Located')
  BY <1>1 DEF Untouched, InStep, Located
<1> QED BY <1>1, <1>2 DEF SyncInv

LEMMA SyncStep == SyncInv /\ [Next]_vars => SyncInv'
<1> SUFFICES ASSUME SyncInv, [Next]_vars PROVE SyncInv'
  OBVIOUS
<1>1. CASE CallHeader \/ CallNext
  BY <1>1, CallsKeepSync
<1>2. CASE \/ ScannerEOF \/ ScannerError \/ ReadGarbledHeader
           \/ TopOther \/ BlockGarbled
  BY <1>2, ErrorsKeepSync
<1>3. CASE ReadFirst
  BY <1>3, ReadFirstKeepsSync
<1>4. CASE ReadHeaderBoundary
  BY <1>4, HeaderBoundaryKeepsSync
<1>5. CASE ReadHeaderProperty
  BY <1>5, HeaderPropertyKeepsSync
<1>6. CASE TopBegin
  BY <1>6, TopBeginKeepsSync
<1>7. CASE TopEnd
  BY <1>7, TopEndKeepsSync
<1>8. CASE BlockBegin
  BY <1>8, BlockBeginKeepsSync
<1>9. CASE BlockEnd
  BY <1>9, BlockEndKeepsSync
<1>10. CASE BlockProperty
  BY <1>10, BlockPropertyKeepsSync
<1>11. CASE UNCHANGED vars
  BY <1>11, SyncStutter
<1> QED BY <1>1, <1>2, <1>3, <1>4, <1>5, <1>6, <1>7, <1>8, <1>9, <1>10, <1>11
        DEF Next, Read

\* A stream without an error so far is in step with the batch parser, which is
\* at most the pending line ahead of it.
THEOREM StaysInStep == Spec => []SyncInv
<1>1. SyncInv /\ [Next]_vars => SyncInv'
  BY SyncStep
<1> QED BY SyncInit, <1>1, PTL DEF Spec

\* codec/stream against codec/rfc5545: until a call meets an error, what Next
\* returned, the blocks it has open and the PRODID it read are those of the
\* batch parser on the same lines, and at io.EOF the batch parser accepts.
THEOREM StreamsIncrementally == Spec => []StreamIsIncrementalBatch
<1>1. ASSUME SyncInv PROVE StreamIsIncrementalBatch
  <2> SUFFICES ASSUME ~failed, headerRead, pc # "first", pending = NoLine
               PROVE  /\ batch.phase = IF done THEN "closed" ELSE "open"
                      /\ Root(batch).sub = yielded
                      /\ Tail(batch.stack) = stack
                      /\ ProdIDOf(Root(batch).props) = prodid
                      /\ done => BatchAccepts(batch)
    BY DEF StreamIsIncrementalBatch
  <2>1. Mirrors(batch, IF done THEN "closed" ELSE "open", stack, yielded, prodid)
    BY <1>1 DEF SyncInv, InStep
  <2>2. /\ batch.phase = IF done THEN "closed" ELSE "open"
        /\ Root(batch).sub = yielded /\ batch.stack # <<>>
        /\ Len(stack) \in Nat /\ Len(batch.stack) = Len(stack) + 1
    BY <2>1, MirrorsFacts
  <2>3. ProdIDOf(Root(batch).props) = prodid
    BY <2>1 DEF Mirrors, Calendar
  <2>4. Tail(batch.stack) = stack
    <3>1. IsSeq(batch.stack) /\ IsSeq(stack)
      BY <2>1 DEF Mirrors
    <3>2. /\ IsSeq(Tail(batch.stack)) /\ Len(Tail(batch.stack)) = Len(stack)
          /\ \A k \in 1..Len(stack) : Tail(batch.stack)[k] = batch.stack[k + 1]
      BY <2>2, <3>1, IsSeqTail
    <3>3. \A k \in 1..Len(stack) : batch.stack[k + 1] = stack[k]
      BY <2>1 DEF Mirrors
    <3> QED BY <3>1, <3>2, <3>3, IsSeqEqual
  <2>5. done => BatchAccepts(batch)
    BY <2>1, <2>2 DEF BatchAccepts, Mirrors, Calendar
  <2> QED BY <2>2, <2>3, <2>4, <2>5
<1> QED BY StaysInStep, <1>1, PTL

-----------------------------------------------------------------------------
(* The first error. *)

\* What the first error may be.
BatchErrs ==
  \/ batch'.phase = "failed"
  \/ \E k \in DOMAIN Root(batch').props :
       Root(batch').props[k].kind = "VERSION"
         /\ Root(batch').props[k].value # Supported
  \/ /\ Root(batch').sub # <<>>
     /\ Root(batch').props # Root(batch).props

\* The batch parser has not closed the calendar where the stream reads a line.
LEMMA ReadsOpen ==
  ASSUME SyncInv, ~failed, pc # "idle", pc = "top" => pending = NoLine
  PROVE  batch.phase # "closed"
<1>1. headerRead
  BY DEF SyncInv
<1>2. CASE pc = "first"
  BY <1>1, <1>2 DEF SyncInv, Untouched, BatchStart
<1>3. CASE pc # "first"
  <2>1. InStep /\ Located
    BY <1>1, <1>3 DEF SyncInv
  <2>2. ~done /\ pending = NoLine
    BY <1>3, <2>1 DEF SyncInv, Located
  <2>3. Mirrors(batch, "open", stack, yielded, prodid)
    BY <2>1, <2>2 DEF InStep
  <2> QED BY <2>3, MirrorsFacts
<1> QED BY <1>2, <1>3

LEMMA ScannerErrs ==
  ASSUME SyncInv, ~failed, ScannerEOF \/ ScannerError
  PROVE  BatchErrs
<1>1. CASE ScannerEOF
  <2>1. batch' = BatchEOF(batch) /\ batch.phase # "closed"
    BY <1>1, ReadsOpen DEF ScannerEOF, End
  <2> QED BY <2>1 DEF BatchErrs, BatchEOF, BatchFailed
<1>2. CASE ScannerError
  BY <1>2 DEF ScannerError, Break, BatchErrs, BatchFailed
<1> QED BY <1>1, <1>2

LEMMA ReadFirstErrs ==
  ASSUME SyncInv, ~failed, ReadFirst, failed'
  PROVE  BatchErrs
<1>1. PICK line \in Lines :
        /\ Deliver(line)
        /\ IF line = BeginCalendar
           THEN pc' = "header" /\ UNCHANGED <<method, stack, block, result, past>>
           ELSE Fail("malformed")
  BY DEF ReadFirst
<1>2. line # BeginCalendar
  BY <1>1 DEF past
<1>3. batch.phase = "first"
  BY DEF ReadFirst, SyncInv, Untouched, BatchStart
<1>4. batch' = BatchFailed
  BY <1>1, <1>2, <1>3 DEF Deliver, BatchStep
<1> QED BY <1>4 DEF BatchErrs, BatchFailed

LEMMA HeaderErrs ==
  ASSUME SyncInv, ~failed, ReadHeaderProperty \/ ReadGarbledHeader, failed'
  PROVE  BatchErrs
<1>1. Mirrors(batch, "open", <<>>, <<>>, prodid)
  <2>1. pc = "header"
    BY DEF ReadHeaderProperty, ReadGarbledHeader
  <2>2. /\ ~done /\ stack = <<>> /\ yielded = <<>> /\ pending = NoLine /\ InStep
    BY <2>1 DEF SyncInv, Located
  <2> QED BY <2>2 DEF InStep
<1>2. CASE ReadHeaderProperty
  <2>1. PICK line \in PropertyLines :
          /\ Deliver(line)
          /\ IF line.kind = "VERSION" /\ line.value # Supported
             THEN Fail("version")
             ELSE UNCHANGED <<call, past>>
    BY <1>2 DEF ReadHeaderProperty
  <2>2. line.kind = "VERSION" /\ line.value # Supported
    BY <2>1 DEF past
  <2>3. batch' = ParseBlock(batch, line)
    BY <1>1, <2>1, StepIsParse DEF Deliver
  <2>4. /\ Root(batch').props = Append(Root(batch).props, line)
        /\ Root(batch).props \in Seq(PropertyLines)
    BY <1>1, <2>3, ParseCalendarProperty
  <2> DEFINE k == Len(Root(batch).props) + 1
  <2>5. k \in DOMAIN Root(batch').props /\ Root(batch').props[k] = line
    BY <2>4
  <2> QED BY <2>2, <2>5 DEF BatchErrs
<1>3. CASE ReadGarbledHeader
  <2>1. batch' = ParseBlock(batch, Garbled)
    BY <1>1, <1>3, StepIsParse DEF ReadGarbledHeader, Deliver
  <2> QED BY <2>1, ParseBlockIs DEF BatchErrs, BatchFailed
<1> QED BY <1>2, <1>3

LEMMA TopErrs ==
  ASSUME SyncInv, ~failed, TopEnd \/ TopOther, failed'
  PROVE  BatchErrs
<1>1. CASE TopEnd
  <2>1. PICK line \in BlockLines :
          /\ line.kind = "END"
          /\ TopLine(line)
          /\ line.value = "VCALENDAR" => UNCHANGED past
    BY <1>1 DEF TopEnd
  <2>2. Mismatch(line)
    BY <2>1 DEF Mismatch, past
  <2>3. batch' = BatchFailed
    BY <1>1, <2>1, <2>2, TopLineIsParsed DEF TopEnd
  <2> QED BY <2>3 DEF BatchErrs, BatchFailed
<1>2. CASE TopOther
  <2>1. PICK line \in PropertyLines \cup {Garbled} : TopLine(line)
    BY <1>2 DEF TopOther
  <2>2. pc = "top" /\ InStep /\ Located
    BY <1>2 DEF TopOther, SyncInv
  <2>3. pending = NoLine
    <3>1. line \notin BlockLines
      BY LineKinds
    <3> QED BY <2>1, <2>2, <3>1 DEF TopLine, InStep
  <2>4. ~done /\ stack = <<>> /\ yielded # <<>>
    BY <2>2, <2>3 DEF Located
  <2>5. Mirrors(batch, "open", <<>>, yielded, prodid)
    BY <2>2, <2>3, <2>4 DEF InStep
  <2>6. batch' = ParseBlock(batch, line)
    BY <2>1, <2>3, <2>5, StepIsParse DEF TopLine, Deliver
  <2>7. CASE line = Garbled
    BY <2>6, <2>7, ParseBlockIs DEF BatchErrs, BatchFailed
  <2>8. CASE line \in PropertyLines
    <3>1. /\ Root(batch').props = Append(Root(batch).props, line)
          /\ Root(batch').sub = yielded
          /\ Root(batch).props \in Seq(PropertyLines)
      BY <2>5, <2>6, <2>8, ParseCalendarProperty
    <3>2. Len(Root(batch').props) # Len(Root(batch).props)
      BY <3>1
    <3> QED BY <2>4, <3>1, <3>2 DEF BatchErrs
  <2> QED BY <2>1, <2>7, <2>8
<1> QED BY <1>1, <1>2

LEMMA BlockErrs ==
  ASSUME SyncInv, ~failed, BlockEnd \/ BlockGarbled, failed'
  PROVE  BatchErrs
<1>1. CASE BlockEnd
  <2>1. PICK type \in Names :
          /\ Deliver([kind |-> "END", value |-> type])
          /\ Closes([kind |-> "END", value |-> type], stack) => UNCHANGED failed
    BY <1>1 DEF BlockEnd, Yield, past
  <2> DEFINE line == [kind |-> "END", value |-> type]
  <2>2. line \in BlockLines /\ line.kind = "END"
    BY NamedLines
  <2> HIDE DEF line
  <2>3. Deliver(line) /\ ~Closes(line, stack)
    BY <2>1 DEF line
  <2>4. batch' = BatchFailed
    BY <1>1, <2>2, <2>3, BlockLineIsParsed, ParseEnd DEF BlockEnd
  <2> QED BY <2>4 DEF BatchErrs, BatchFailed
<1>2. CASE BlockGarbled
  <2>1. batch' = ParseBlock(batch, Garbled)
    BY <1>2, BlockLineIsParsed DEF BlockGarbled
  <2> QED BY <2>1, ParseBlockIs DEF BatchErrs, BatchFailed
<1> QED BY <1>1, <1>2

\* The first error a stream reports is one rfc5545.Parse reports on the same
\* input - it has failed there too, or has a VERSION it will refuse - save for
\* a calendar-level property behind a component, which only Parse allows.
THEOREM FirstErrorShared == Spec => FirstErrorIsBatchError
<1>1. SyncInv /\ [Next]_vars => (failed' /\ ~failed => BatchErrs)
  <2> SUFFICES ASSUME SyncInv, [Next]_vars, failed', ~failed PROVE BatchErrs
    OBVIOUS
  <2>1. \/ ScannerEOF \/ ScannerError \/ ReadFirst
        \/ ReadHeaderProperty \/ ReadGarbledHeader
        \/ TopEnd \/ TopOther \/ BlockEnd \/ BlockGarbled
    BY DEF Next, Read, CallHeader, CallNext, ReadHeaderBoundary, HeaderDone, TopBegin,
           BlockBegin, BlockProperty, past, vars
  <2> QED BY <2>1, ScannerErrs, ReadFirstErrs, HeaderErrs, TopErrs, BlockErrs
<1>2. SyncInv /\ [Next]_vars =>
        [failed' /\ ~failed =>
           \/ batch'.phase = "failed"
           \/ \E k \in DOMAIN Root(batch').props :
                Root(batch').props[k].kind = "VERSION"
                  /\ Root(batch').props[k].value # Supported
           \/ /\ Root(batch').sub # <<>>
              /\ Root(batch').props # Root(batch).props]_vars
  BY <1>1 DEF BatchErrs
<1> QED BY StaysInStep, <1>2, PTL DEF Spec, FirstErrorIsBatchError

-----------------------------------------------------------------------------
(* Parsing the lines of a block one after the other. *)

\* The function a left fold over the lines chooses.
Folds(h, lines) ==
  h = [s \in SUBSET DOMAIN lines |->
         IF s = {}
         THEN Inside
         ELSE ParseBlock(h[s \ {Max(s)}], lines[Max(s)])]

LEMMA ParseFoldIs ==
  ASSUME NEW lines
  PROVE  ParseFold(lines) = (CHOOSE h : Folds(h, lines))[DOMAIN lines]
BY DEF ParseFold, FoldLeft, MapThenFoldSet, Folds

LEMMA FoldsAt ==
  ASSUME NEW h, NEW lines, Folds(h, lines), NEW s \in SUBSET DOMAIN lines
  PROVE  h[s] = IF s = {}
                THEN Inside
                ELSE ParseBlock(h[s \ {Max(s)}], lines[Max(s)])
<1> DEFINE g == [r \in SUBSET DOMAIN lines |->
                   IF r = {}
                   THEN Inside
                   ELSE ParseBlock(h[r \ {Max(r)}], lines[Max(r)])]
<1>1. h = g
  BY DEF Folds
<1>2. g[s] = IF s = {}
             THEN Inside
             ELSE ParseBlock(h[s \ {Max(s)}], lines[Max(s)])
  OBVIOUS
<1> HIDE DEF g
<1> QED BY <1>1, <1>2

LEMMA FoldsExists ==
  ASSUME NEW lines \in Seq(Lines)
  PROVE  \E h : Folds(h, lines)
<1> DEFINE Holds == {n \in Nat : \A t \in Seq(Lines) :
                                    Len(t) = n => \E h : Folds(h, t)}
<1>1. 0 \in Holds
  <2>1. ASSUME NEW t \in Seq(Lines), Len(t) = 0
        PROVE  Folds([s \in {{}} |-> Inside], t)
    <3>1. SUBSET DOMAIN t = {{}}
      BY <2>1
    <3> QED BY <3>1 DEF Folds
  <2> QED BY <2>1
<1>2. ASSUME NEW n \in Nat, n \in Holds
      PROVE  n + 1 \in Holds
  <2>1. ASSUME NEW t \in Seq(Lines), Len(t) = n + 1
        PROVE  \E h : Folds(h, t)
    <3> DEFINE front == SubSeq(t, 1, n)
    <3>1. front \in Seq(Lines) /\ Len(front) = n /\ DOMAIN front = 1..n
            /\ \A k \in 1..n : front[k] = t[k]
      BY <2>1
    <3>2. DOMAIN t = 1..n + 1
      BY <2>1
    <3> HIDE DEF front
    <3>3. PICK g : Folds(g, front)
      BY <1>2, <3>1
    <3>4. ASSUME NEW s \in SUBSET (1..n)
          PROVE  g[s] = IF s = {}
                        THEN Inside
                        ELSE ParseBlock(g[s \ {Max(s)}], front[Max(s)])
      <4>1. s \in SUBSET DOMAIN front
        BY <3>1
      <4> QED BY <3>3, <4>1, FoldsAt
    <3> DEFINE At(s) == IF n + 1 \in s
                        THEN ParseBlock(g[s \ {n + 1}], t[n + 1])
                        ELSE g[s]
               h == [s \in SUBSET (1..n + 1) |-> At(s)]
    <3>5. ASSUME NEW s \in SUBSET (1..n + 1)
          PROVE  h[s] = IF s = {}
                        THEN Inside
                        ELSE ParseBlock(h[s \ {Max(s)}], t[Max(s)])
      <4>1. h[s] = At(s) /\ h[s \ {Max(s)}] = At(s \ {Max(s)})
        <5> HIDE DEF At
        <5> QED OBVIOUS
      <4> HIDE DEF h
      <4>2. CASE s = {}
        BY <3>4, <4>1, <4>2
      <4>3. CASE n + 1 \in s
        <5>1. Max(s) = n + 1 /\ s # {}
          BY <4>3, MaxUpTo
        <5>2. At(s) = ParseBlock(g[s \ {n + 1}], t[n + 1])
          BY <4>3
        <5>3. At(s \ {n + 1}) = g[s \ {n + 1}]
          OBVIOUS
        <5> QED BY <4>1, <5>1, <5>2, <5>3
      <4>4. CASE s # {} /\ n + 1 \notin s
        <5>1. s \in SUBSET (1..n)
          BY <4>4
        <5>2. Max(s) \in 1..n
          BY <4>4, <5>1, MaxUpTo
        <5>3. At(s) = g[s] /\ At(s \ {Max(s)}) = g[s \ {Max(s)}]
          BY <4>4
        <5>4. g[s] = ParseBlock(g[s \ {Max(s)}], t[Max(s)])
          BY <3>1, <3>4, <4>4, <5>1, <5>2
        <5> QED BY <4>1, <4>4, <5>3, <5>4
      <4> QED BY <4>2, <4>3, <4>4
    <3>6. h = [s \in SUBSET (1..n + 1) |-> h[s]]
      <4> HIDE DEF At
      <4> QED OBVIOUS
    <3> HIDE DEF h
    <3>7. h = [s \in SUBSET (1..n + 1) |->
                 IF s = {}
                 THEN Inside
                 ELSE ParseBlock(h[s \ {Max(s)}], t[Max(s)])]
      BY <3>5, <3>6
    <3>8. Folds(h, t)
      BY <3>2, <3>7 DEF Folds
    <3> QED BY <3>8
  <2> QED BY <2>1
<1>3. Nat \subseteq Holds
  <2> HIDE DEF Holds
  <2> QED BY <1>1, <1>2, SetInduction
<1>4. Len(lines) \in Nat
  OBVIOUS
<1> QED BY <1>3, <1>4

\* What the first n lines make depends on them only.
LEMMA FoldsAgree ==
  ASSUME NEW s \in Seq(Lines), NEW t \in Seq(Lines),
         NEW n \in Nat, n <= Len(s), n <= Len(t), \A k \in 1..n : s[k] = t[k],
         NEW g, NEW h, Folds(g, s), Folds(h, t)
  PROVE  g[1..n] = h[1..n]
<1> DEFINE Holds == {k \in Nat : k <= n => g[1..k] = h[1..k]}
<1>1. 0 \in Holds
  <2>1. 1..0 = {}
    OBVIOUS
  <2>2. g[{}] = Inside /\ h[{}] = Inside
    BY FoldsAt
  <2> QED BY <2>1, <2>2
<1>2. ASSUME NEW k \in Nat, k \in Holds PROVE k + 1 \in Holds
  <2> SUFFICES ASSUME k + 1 <= n PROVE g[1..k + 1] = h[1..k + 1]
    OBVIOUS
  <2>1. g[1..k] = h[1..k]
    BY <1>2
  <2>2. /\ 1..k + 1 \in SUBSET DOMAIN s /\ 1..k + 1 \in SUBSET DOMAIN t
        /\ 1..k + 1 # {} /\ k + 1 \in 1..n
    <3>1. /\ DOMAIN s = 1..Len(s) /\ DOMAIN t = 1..Len(t)
          /\ k + 1 <= Len(s) /\ k + 1 <= Len(t)
          /\ Len(s) \in Nat /\ Len(t) \in Nat
      OBVIOUS
    <3>2. k + 1 \in 1..k + 1 /\ k + 1 \in 1..n
      OBVIOUS
    <3>3. 1..k + 1 \subseteq 1..Len(s) /\ 1..k + 1 \subseteq 1..Len(t)
      BY <3>1
    <3> QED BY <3>1, <3>2, <3>3
  <2>3. Max(1..k + 1) = k + 1 /\ (1..k + 1) \ {k + 1} = 1..k
    BY MaxInitial
  <2> DEFINE all == 1..k + 1
  <2> HIDE DEF all
  <2>4. all \in SUBSET DOMAIN s /\ all \in SUBSET DOMAIN t /\ all # {}
    BY <2>2 DEF all
  <2>5. g[all] = ParseBlock(g[all \ {Max(all)}], s[Max(all)])
    BY <2>4, FoldsAt
  <2>6. h[all] = ParseBlock(h[all \ {Max(all)}], t[Max(all)])
    BY <2>4, FoldsAt
  <2>7. Max(all) = k + 1 /\ all \ {k + 1} = 1..k
    BY <2>3 DEF all
  <2>8. g[all] = h[all]
    BY <2>1, <2>2, <2>5, <2>6, <2>7
  <2> QED BY <2>8 DEF all
<1>3. Nat \subseteq Holds
  <2> HIDE DEF Holds
  <2> QED BY <1>1, <1>2, SetInduction
<1>4. n \in Holds
  <2> HIDE DEF Holds
  <2> QED BY <1>3
<1> QED BY <1>4

\* Parsing one line more is one step more.
LEMMA ParseFoldAppend ==
  /\ ParseFold(<<>>) = Inside
  /\ \A lines \in Seq(Lines), line \in Lines :
       ParseFold(Append(lines, line)) = ParseBlock(ParseFold(lines), line)
<1>1. ASSUME NEW lines \in Seq(Lines)
      PROVE  \E h : Folds(h, lines) /\ ParseFold(lines) = h[1..Len(lines)]
  <2> DEFINE h == CHOOSE f : Folds(f, lines)
  <2>1. Folds(h, lines)
    BY FoldsExists
  <2>2. DOMAIN lines = 1..Len(lines)
    OBVIOUS
  <2>3. ParseFold(lines) = h[1..Len(lines)]
    BY <2>2, ParseFoldIs
  <2> QED BY <2>1, <2>3
<1>2. ParseFold(<<>>) = Inside
  <2>1. <<>> \in Seq(Lines) /\ 1..Len(<<>>) = {}
    OBVIOUS
  <2>2. PICK h : Folds(h, <<>>) /\ ParseFold(<<>>) = h[{}]
    BY <1>1, <2>1
  <2> QED BY <2>2, FoldsAt
<1>3. ASSUME NEW lines \in Seq(Lines), NEW line \in Lines
      PROVE  ParseFold(Append(lines, line)) = ParseBlock(ParseFold(lines), line)
  <2> DEFINE more == Append(lines, line)
             n == Len(lines)
             all == 1..n + 1
  <2>1. /\ more \in Seq(Lines) /\ Len(more) = n + 1 /\ n \in Nat
        /\ DOMAIN more = 1..n + 1
        /\ \A k \in 1..n : more[k] = lines[k]
        /\ more[n + 1] = line
    OBVIOUS
  <2> HIDE DEF more, n
  <2>2. PICK g : Folds(g, lines) /\ ParseFold(lines) = g[1..n]
    BY <1>1 DEF n
  <2>3. PICK h : Folds(h, more) /\ ParseFold(more) = h[1..n + 1]
    BY <1>1, <2>1
  <2>4. g[1..n] = h[1..n]
    BY <2>1, <2>2, <2>3, FoldsAgree DEF n
  <2>5. Max(all) = n + 1 /\ all \ {n + 1} = 1..n
    BY <2>1, MaxInitial
  <2>6. all # {} /\ all \in SUBSET DOMAIN more
    BY <2>1
  <2> HIDE DEF all
  <2>7. h[all] = ParseBlock(h[all \ {Max(all)}], more[Max(all)])
    BY <2>3, <2>6, FoldsAt
  <2>8. ParseFold(more) = h[all]
    BY <2>3 DEF all
  <2>9. ParseFold(more) = ParseBlock(ParseFold(lines), line)
    BY <2>1, <2>2, <2>4, <2>5, <2>7, <2>8
  <2> QED BY <2>9 DEF more
<1> QED BY <1>2, <1>3

-----------------------------------------------------------------------------
(* Blocks are whole. *)

\* A call that returned nothing leaves no block behind.
NoneLeft == block' = <<>> /\ pc' = "idle" /\ result' # "component" /\ yielded' = yielded

LEMMA NoneLeftKeepsBlock ==
  ASSUME BlockInv, NoneLeft
  PROVE  BlockInv'
<1>1. <<>> \in Seq(Lines)
  OBVIOUS
<1> QED BY <1>1 DEF BlockInv, NoneLeft

LEMMA FailLeavesNone ==
  ASSUME NEW error, Fail(error), error # "component"
  PROVE  NoneLeft
BY DEF Fail, Return, NoneLeft

LEMMA OutsideKeepBlock ==
  ASSUME BlockInv,
         \/ CallHeader \/ CallNext
         \/ ScannerEOF \/ ScannerError
         \/ ReadFirst \/ ReadHeaderBoundary \/ ReadHeaderProperty
         \/ ReadGarbledHeader \/ TopEnd \/ TopOther \/ BlockGarbled
         \/ UNCHANGED vars
  PROVE  BlockInv'
<1>1. CASE CallHeader
  <2>1. /\ UNCHANGED <<block, yielded>> /\ pc' # "block" /\ result' # "component"
    BY <1>1 DEF CallHeader, past
  <2> QED BY <2>1 DEF BlockInv
<1>2. CASE CallNext
  <2>1. /\ block' = <<>> /\ yielded' = yielded /\ pc' # "block"
        /\ pc' = "idle" => result' # "component"
    BY <1>2 DEF CallNext, past
  <2>2. <<>> \in Seq(Lines)
    OBVIOUS
  <2> QED BY <2>1, <2>2 DEF BlockInv
<1>3. CASE Fail("malformed") \/ Fail("unclosed") \/ Fail("io") \/ Fail("version")
  BY <1>3, FailLeavesNone, NoneLeftKeepsBlock
<1>4. CASE UNCHANGED past /\ (Return("header") \/ Return("EOF"))
  BY <1>4, NoneLeftKeepsBlock DEF Return, NoneLeft, past
<1>5. CASE /\ UNCHANGED <<block, yielded>>
           /\ pc' \in {"header", "top"} \/ UNCHANGED <<pc, stack, result>>
  <2>1. CASE pc' \in {"header", "top"}
    BY <1>5, <2>1 DEF BlockInv
  <2>2. CASE UNCHANGED <<pc, stack, result>>
    BY <1>5, <2>2 DEF BlockInv
  <2> QED BY <1>5, <2>1, <2>2
<1>6. CASE ScannerEOF \/ ScannerError \/ ReadGarbledHeader \/ TopOther \/ BlockGarbled
  BY <1>3, <1>6 DEF ScannerEOF, ScannerError, ReadGarbledHeader, TopOther, BlockGarbled
<1>7. CASE ReadFirst
  BY <1>3, <1>5, <1>7 DEF ReadFirst, past
<1>8. CASE ReadHeaderBoundary
  BY <1>4, <1>5, <1>8 DEF ReadHeaderBoundary, HeaderDone, past
<1>9. CASE ReadHeaderProperty
  BY <1>3, <1>5, <1>9 DEF ReadHeaderProperty, call, past
<1>10. CASE TopEnd
  BY <1>3, <1>4, <1>10 DEF TopEnd
<1>11. CASE UNCHANGED vars
  BY <1>5, <1>11 DEF vars, call, past
<1> QED BY <1>1, <1>2, <1>6, <1>7, <1>8, <1>9, <1>10, <1>11

\* A line that keeps the block open is one more of its lines.
LEMMA OpenKeepsBlock ==
  ASSUME BlockInv, pc' = "block", stack' # <<>>, yielded' = yielded,
         NEW lines \in Seq(Lines), NEW line \in Lines, block' = Append(lines, line),
         Mirrors(ParseBlock(ParseFold(lines), line), "open", stack', <<>>, NoProdID)
  PROVE  BlockInv'
<1>1. block' \in Seq(Lines)
  OBVIOUS
<1>2. Mirrors(ParseFold(block'), "open", stack', <<>>, NoProdID)
  BY ParseFoldAppend
<1> QED BY <1>1, <1>2 DEF BlockInv

LEMMA TopBeginKeepsBlock ==
  ASSUME BlockInv, TopBegin
  PROVE  BlockInv'
<1>1. PICK line \in BlockLines :
        line.kind = "BEGIN" /\ stack' = <<Block(line.value)>> /\ block' = <<line>>
  BY DEF TopBegin
<1>2. pc' = "block" /\ yielded' = yielded
  BY DEF TopBegin
<1>3. /\ stack' = Append(<<>>, Block(line.value)) /\ stack' # <<>>
      /\ block' = Append(<<>>, line) /\ <<>> \in Seq(Lines) /\ line \in Lines
  BY <1>1, OnlyOne DEF Lines
<1>4. Mirrors(ParseBlock(ParseFold(<<>>), line), "open", stack', <<>>, NoProdID)
  BY <1>1, <1>3, ParseBegin, InsideMirrors, ParseFoldAppend
<1> QED BY <1>2, <1>3, <1>4, OpenKeepsBlock

LEMMA BlockBeginKeepsBlock ==
  ASSUME BlockInv, BlockBegin
  PROVE  BlockInv'
<1>1. PICK type \in Names :
        /\ stack' = Append(stack, Block(type))
        /\ block' = Append(block, [kind |-> "BEGIN", value |-> type])
  BY DEF BlockBegin
<1> DEFINE line == [kind |-> "BEGIN", value |-> type]
<1>2. line \in BlockLines /\ line.kind = "BEGIN" /\ line.value = type
  BY NamedLines
<1>3. block' = Append(block, line)
  BY <1>1
<1> HIDE DEF line
<1>4. /\ pc = "block" /\ pc' = "block" /\ yielded' = yielded /\ block \in Seq(Lines)
      /\ Mirrors(ParseFold(block), "open", stack, <<>>, NoProdID)
  BY DEF BlockBegin, past, BlockInv
<1>5. Mirrors(ParseBlock(ParseFold(block), line), "open", stack', <<>>, NoProdID)
  BY <1>1, <1>2, <1>4, ParseBegin
<1>6. stack' # <<>>
  <2>1. IsSeq(stack) /\ Len(stack) \in Nat
    BY <1>4, MirrorsFacts DEF Mirrors
  <2> QED BY <1>1, <2>1, IsSeqAppend, IsSeqProperties
<1>7. line \in Lines
  BY <1>2 DEF Lines
<1> QED BY <1>3, <1>4, <1>5, <1>6, <1>7, OpenKeepsBlock

LEMMA BlockPropertyKeepsBlock ==
  ASSUME BlockInv, BlockProperty
  PROVE  BlockInv'
<1>1. PICK line \in PropertyLines :
        stack' = AddProp(stack, line) /\ block' = Append(block, line)
  BY DEF BlockProperty
<1>2. /\ pc = "block" /\ pc' = "block" /\ yielded' = yielded /\ block \in Seq(Lines)
      /\ stack # <<>> /\ Mirrors(ParseFold(block), "open", stack, <<>>, NoProdID)
  BY DEF BlockProperty, past, BlockInv
<1>3. Mirrors(ParseBlock(ParseFold(block), line), "open", stack', <<>>, NoProdID)
  BY <1>1, <1>2, ParseProperty
<1>4. stack' # <<>>
  BY <1>1, <1>2, OnInnermostIsSome DEF AddProp, Mirrors
<1>5. line \in Lines
  BY DEF Lines
<1> QED BY <1>1, <1>2, <1>3, <1>4, <1>5, OpenKeepsBlock

LEMMA BlockEndKeepsBlock ==
  ASSUME BlockInv, BlockEnd
  PROVE  BlockInv'
<1>1. PICK type \in Names :
        LET line == [kind |-> "END", value |-> type] IN
        IF ~Closes(line, stack)
        THEN Fail("malformed")
        ELSE IF Len(stack) = 1
             THEN Yield(stack[1], line)
             ELSE /\ stack' = AddChild(Outer(stack), Innermost(stack))
                  /\ block' = Append(block, line)
                  /\ UNCHANGED <<pc, method, result, past>>
  BY DEF BlockEnd
<1> DEFINE line == [kind |-> "END", value |-> type]
<1>2. line \in BlockLines /\ line.kind = "END"
  BY NamedLines
<1>3. /\ ~Closes(line, stack) => Fail("malformed")
      /\ Closes(line, stack) /\ Len(stack) = 1 => Yield(stack[1], line)
      /\ Closes(line, stack) /\ Len(stack) # 1 =>
           /\ stack' = AddChild(Outer(stack), Innermost(stack))
           /\ block' = Append(block, line)
           /\ UNCHANGED <<pc, yielded>>
  BY <1>1 DEF past
<1> HIDE DEF line
<1>4. /\ pc = "block" /\ block \in Seq(Lines) /\ stack # <<>> /\ IsSeq(yielded)
      /\ Mirrors(ParseFold(block), "open", stack, <<>>, NoProdID)
  BY DEF BlockEnd, BlockInv
<1>5. line \in Lines
  BY <1>2 DEF Lines
<1>6. CASE ~Closes(line, stack)
  BY <1>3, <1>6, FailLeavesNone, NoneLeftKeepsBlock
<1>7. CASE Closes(line, stack) /\ Len(stack) = 1
  <2>1. /\ pc' = "idle" /\ block' = Append(block, line)
        /\ yielded' = Append(yielded, stack[1])
    BY <1>3, <1>7 DEF Yield
  <2>2. /\ IsSeq(yielded') /\ yielded' # <<>> /\ Last(yielded') = stack[1]
    <3>1. /\ IsSeq(yielded') /\ Len(yielded') = Len(yielded) + 1
          /\ yielded'[Len(yielded) + 1] = stack[1] /\ Len(yielded) \in Nat
      BY <1>4, <2>1, IsSeqAppend, IsSeqProperties
    <3> QED BY <3>1, IsSeqProperties DEF Last
  <2>3. Append(<<>>, stack[1]) = <<stack[1]>>
    BY OnlyOne
  <2>4. Mirrors(ParseBlock(ParseFold(block), line), "open", <<>>, <<stack[1]>>, NoProdID)
    BY <1>2, <1>4, <1>7, <2>3, ParseEnd
  <2>5. ParseFold(block') = ParseBlock(ParseFold(block), line) /\ block' \in Seq(Lines)
    BY <1>4, <1>5, <2>1, ParseFoldAppend
  <2> QED BY <2>1, <2>2, <2>4, <2>5 DEF BlockInv
<1>8. CASE Closes(line, stack) /\ Len(stack) # 1
  <2>1. /\ stack' = AddChild(Outer(stack), Innermost(stack))
        /\ block' = Append(block, line) /\ pc' = "block" /\ yielded' = yielded
    BY <1>3, <1>4, <1>8
  <2>2. Mirrors(ParseBlock(ParseFold(block), line), "open", stack', <<>>, NoProdID)
    BY <1>2, <1>4, <1>8, <2>1, ParseEnd
  <2>3. stack' # <<>>
    BY <1>4, <1>8, <2>1, AddChildIsSome DEF Mirrors
  <2> QED BY <1>4, <1>5, <2>1, <2>2, <2>3, OpenKeepsBlock
<1> QED BY <1>6, <1>7, <1>8

\* What Next returns, whatever errors came before, is what the batch parser
\* makes of one whole block of the input, from its BEGIN to its END.
THEOREM YieldsBlocks == Spec => []YieldedAreBlocks
<1>1. Init => BlockInv
  <2>1. <<>> \in Seq(Lines)
    OBVIOUS
  <2> QED BY <2>1, IsSeqShort DEF Init, BlockInv
<1>2. BlockInv /\ [Next]_vars => BlockInv'
  BY OutsideKeepBlock, TopBeginKeepsBlock, BlockBeginKeepsBlock, BlockEndKeepsBlock,
     BlockPropertyKeepsBlock DEF Next, Read
<1>3. ASSUME BlockInv PROVE YieldedAreBlocks
  <2> SUFFICES ASSUME result = "component", pc = "idle"
               PROVE  /\ ParseFold(block).phase = "open"
                      /\ Len(ParseFold(block).stack) = 1
                      /\ Root(ParseFold(block)).sub = <<Last(yielded)>>
    BY DEF YieldedAreBlocks, ParseFold, Inside
  <2>1. Mirrors(ParseFold(block), "open", <<>>, <<Last(yielded)>>, NoProdID)
    BY <1>3 DEF BlockInv
  <2> QED BY <2>1, MirrorsFacts
<1> QED BY <1>1, <1>2, <1>3, PTL DEF Spec
=============================================================================
