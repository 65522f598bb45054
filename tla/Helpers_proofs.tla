---------------------------- MODULE Helpers_proofs ----------------------------
(***************************************************************************)
(* A component stays a component whatever is called on it, and a helper    *)
(* changes nothing or leaves a hash that matches: for every vocabulary,    *)
(* every argument and every sequence of calls and raw edits.               *)
(***************************************************************************)
EXTENDS Helpers, SequenceLemmas, TLAPS

-----------------------------------------------------------------------------
(* Records of one shape. *)

LEMMA HashTyped ==
  ASSUME NEW S, NEW H, NEW G, NEW x \in Shape(S, H), NEW h \in G
  PROVE  [x EXCEPT !.hash = h] \in Shape(S, G)
BY DEF Shape

LEMMA HashField ==
  ASSUME NEW S, NEW H, NEW x \in Shape(S, H), NEW h
  PROVE  [x EXCEPT !.hash = h].hash = h
BY DEF Shape

LEMMA HashKeepsSub ==
  ASSUME NEW S, NEW H, NEW x \in Shape(S, H), NEW h
  PROVE  [x EXCEPT !.hash = h].sub = x.sub
BY DEF Shape

LEMMA HashForgotten ==
  ASSUME NEW S, NEW H, NEW x \in Shape(S, H), NEW h
  PROVE  Bare([x EXCEPT !.hash = h]) = Bare(x)
BY DEF Shape, Bare

LEMMA SubTyped ==
  ASSUME NEW S, NEW H, NEW T, NEW x \in Shape(S, H), NEW s \in T
  PROVE  [x EXCEPT !.sub = s] \in Shape(T, H)
BY DEF Shape

LEMMA SubKept ==
  ASSUME NEW S, NEW H, NEW x \in Shape(S, H)
  PROVE  x.sub \in S /\ x.hash \in H
BY DEF Shape

LEMMA ShapeGrows ==
  ASSUME NEW S, NEW H, NEW T, NEW G, S \subseteq T, H \subseteq G
  PROVE  Shape(S, H) \subseteq Shape(T, G)
BY DEF Shape

LEMMA BareTyped ==
  ASSUME NEW S, NEW H, NEW x \in Shape(S, H)
  PROVE  Bare(x) \in Shape(S, {NoValue}) /\ Bare(x).sub = x.sub
<1>1. Bare(x) = [x EXCEPT !.hash = NoValue]
  BY DEF Bare
<1> QED BY <1>1, HashTyped, HashKeepsSub

-----------------------------------------------------------------------------
(* Stamping. *)

\* What the stored hash stands for has no hash left at any depth.
LEMMA ContentTyped ==
  ASSUME NEW x \in Components
  PROVE  Content(x) \in Contents
<1>1. /\ Bare(x) \in Shape(Alarms \cup {NoValue}, {NoValue})
      /\ Bare(x).sub = x.sub
      /\ x.sub \in Alarms \cup {NoValue}
  BY BareTyped, SubKept DEF Components
<1>2. CASE x.sub = NoValue
  <2>1. Bare(x) \in Contents
    <3>1. Bare(x).sub = NoValue
      BY <1>1, <1>2
    <3> QED BY <1>1, <3>1 DEF Contents, Shape
  <2> QED BY <1>2, <2>1 DEF Content
<1>3. CASE x.sub # NoValue
  <2>1. Bare(x.sub) \in AlarmContents \cup {NoValue}
    BY <1>1, <1>3, BareTyped DEF Alarms, AlarmContents
  <2>2. Content(x) = [Bare(x) EXCEPT !.sub = Bare(x.sub)]
    BY <1>1, <1>3 DEF Content
  <2> QED BY <1>1, <2>1, <2>2, SubTyped DEF Contents
<1> QED BY <1>2, <1>3

LEMMA ContentsAreComponents == Contents \subseteq Components
<1>1. {NoValue} \subseteq AlarmContents \cup {NoValue}
  OBVIOUS
<1>2. AlarmContents \subseteq Alarms
  BY <1>1, ShapeGrows DEF AlarmContents, Alarms
<1>3. AlarmContents \cup {NoValue} \subseteq Alarms \cup {NoValue}
  BY <1>2
<1>4. {NoValue} \subseteq Contents \cup {NoValue}
  OBVIOUS
<1> QED BY <1>3, <1>4, ShapeGrows DEF Contents, Components

\* Stamping keeps the content, so the stamp matches.
LEMMA StampVerifies ==
  ASSUME NEW x \in Components
  PROVE  SetXVSTAR(x) \in Components /\ VerifyXVSTAR(SetXVSTAR(x))
<1>1. Content(x) \in Contents /\ Content(x) # NoValue
  BY ContentTyped, ContentsAreComponents, ShapeAssumption
<1>2. SetXVSTAR(x) = [x EXCEPT !.hash = Content(x)]
  BY DEF SetXVSTAR
<1>3. SetXVSTAR(x) \in Components
  BY <1>1, <1>2, HashTyped DEF Components
<1>4. SetXVSTAR(x).hash = Content(x)
  BY <1>2, HashField DEF Components
<1>5. SetXVSTAR(x).sub = x.sub
  BY <1>2, HashKeepsSub DEF Components
<1>6. Bare(SetXVSTAR(x)) = Bare(x)
  BY <1>2, HashForgotten DEF Components
<1>7. Content(SetXVSTAR(x)) = Content(x)
  BY <1>5, <1>6 DEF Content
<1> QED BY <1>1, <1>3, <1>4, <1>7 DEF VerifyXVSTAR

LEMMA AlarmStampTyped ==
  ASSUME NEW a \in Alarms
  PROVE  SetXVSTAR(a) \in Alarms
<1>1. a.sub = NoValue /\ Bare(a) \in AlarmContents
  BY SubKept, BareTyped DEF Alarms, AlarmContents
<1>2. Content(a) \in AlarmContents \cup {NoValue}
  BY <1>1 DEF Content
<1> QED BY <1>2, HashTyped DEF SetXVSTAR, Alarms

-----------------------------------------------------------------------------
(* What the helpers write, one property at a time. *)

LEMMA WordsTyped ==
  ASSUME NEW S, NEW H, NEW x \in Shape(S, H), NEW w \in Words \cup {"COMPLETED"}
  PROVE  /\ [x EXCEPT !.status = w] \in Shape(S, H)
         /\ w \in Words => [x EXCEPT !.class = w] \in Shape(S, H)
         /\ w \in Words => [x EXCEPT !.transp = w] \in Shape(S, H)
<1>1. [x EXCEPT !.status = w] \in Shape(S, H)
  BY DEF Shape
<1>2. ASSUME w \in Words PROVE [x EXCEPT !.class = w] \in Shape(S, H)
  BY <1>2 DEF Shape
<1>3. ASSUME w \in Words PROVE [x EXCEPT !.transp = w] \in Shape(S, H)
  BY <1>3 DEF Shape
<1> QED BY <1>1, <1>2, <1>3

LEMMA NumbersTyped ==
  ASSUME NEW S, NEW H, NEW x \in Shape(S, H), NEW n \in Int \cup {NoValue}
  PROVE  /\ [x EXCEPT !.sequence = n] \in Shape(S, H)
         /\ [x EXCEPT !.priority = n] \in Shape(S, H)
         /\ [x EXCEPT !.percent = n] \in Shape(S, H)
<1>1. [x EXCEPT !.sequence = n] \in Shape(S, H)
  BY DEF Shape
<1>2. [x EXCEPT !.priority = n] \in Shape(S, H)
  BY DEF Shape
<1>3. [x EXCEPT !.percent = n] \in Shape(S, H)
  BY DEF Shape
<1> QED BY <1>1, <1>2, <1>3

LEMMA TimesTyped ==
  ASSUME NEW S, NEW H, NEW x \in Shape(S, H), NEW t \in Instants
  PROVE  /\ TimeProp(t) \in Nat \cup {NoValue}
         /\ [x EXCEPT !.due = TimeProp(t)] \in Shape(S, H)
         /\ [x EXCEPT !.completed = TimeProp(t)] \in Shape(S, H)
<1>1. TimeProp(t) \in Nat \cup {NoValue}
  BY HelpersAssumption DEF TimeProp
<1>2. [x EXCEPT !.due = TimeProp(t)] \in Shape(S, H)
  BY <1>1 DEF Shape
<1>3. [x EXCEPT !.completed = TimeProp(t)] \in Shape(S, H)
  BY <1>1 DEF Shape
<1> QED BY <1>1, <1>2, <1>3

LEMMA LinesTyped ==
  ASSUME NEW S, NEW H, NEW x \in Shape(S, H)
  PROVE  /\ x.categories \in Seq(Seq(Tokens))
         /\ x.related \in Seq(Uids)
         /\ \A lines \in Seq(Seq(Tokens)) :
              [x EXCEPT !.categories = lines] \in Shape(S, H)
         /\ \A uids \in Seq(Uids) : [x EXCEPT !.related = uids] \in Shape(S, H)
<1>1. x.categories \in Seq(Seq(Tokens)) /\ x.related \in Seq(Uids)
  BY DEF Shape
<1>2. ASSUME NEW lines \in Seq(Seq(Tokens))
      PROVE  [x EXCEPT !.categories = lines] \in Shape(S, H)
  BY DEF Shape
<1>3. ASSUME NEW uids \in Seq(Uids)
      PROVE  [x EXCEPT !.related = uids] \in Shape(S, H)
  BY DEF Shape
<1> QED BY <1>1, <1>2, <1>3

\* The labels a reader gets: not empty, no space around them.
PlainTokens == {token \in Tokens : token.label # "" /\ ~token.padded}

\* What one token of a value contributes to its labels.
LabelOf(token) == IF token.label = "" THEN <<>> ELSE <<Trim(token)>>

LEMMA LabelOfTyped ==
  ASSUME NEW token \in Tokens
  PROVE  /\ LabelOf(token) \in Seq(PlainTokens)
         /\ token \in PlainTokens => LabelOf(token) = <<token>>
<1>1. CASE token.label = ""
  <2>1. token \notin PlainTokens
    BY <1>1 DEF PlainTokens
  <2>2. LabelOf(token) = <<>>
    BY <1>1 DEF LabelOf
  <2>3. <<>> \in Seq(PlainTokens)
    OBVIOUS
  <2> QED BY <2>1, <2>2, <2>3
<1>2. CASE token.label # ""
  <2>1. Trim(token) \in PlainTokens
    BY <1>2 DEF Trim, Tokens, PlainTokens
  <2>2. token \in PlainTokens => Trim(token) = token
    BY DEF Trim, Tokens, PlainTokens
  <2>3. LabelOf(token) = <<Trim(token)>>
    BY <1>2 DEF LabelOf
  <2>4. \A y \in PlainTokens : <<y>> \in Seq(PlainTokens)
    OBVIOUS
  <2> QED BY <2>1, <2>2, <2>3, <2>4
<1> QED BY <1>1, <1>2

\* Token by token: labels are read off a value from left to right.
LEMMA LabelsOfAppend ==
  /\ LabelsOf(<<>>) = <<>>
  /\ \A value \in Seq(Tokens) : LabelsOf(value) \in Seq(PlainTokens)
  /\ \A value \in Seq(Tokens), token \in Tokens :
       LabelsOf(Append(value, token)) = LabelsOf(value) \o LabelOf(token)
<1> DEFINE Pieces(v) == [k \in DOMAIN v |-> LabelOf(v[k])]
<1>1. ASSUME NEW v PROVE LabelsOf(v) = FlattenSeq(Pieces(v))
  BY DEF LabelsOf, LabelOf
<1>2. ASSUME NEW v \in Seq(Tokens)
      PROVE  Pieces(v) \in Seq(Seq(PlainTokens)) /\ Len(Pieces(v)) = Len(v)
  <2>1. DOMAIN v = 1..Len(v) /\ Len(v) \in Nat /\ \A k \in 1..Len(v) : v[k] \in Tokens
    BY <1>2
  <2>2. \A k \in 1..Len(v) : LabelOf(v[k]) \in Seq(PlainTokens)
    BY <2>1, LabelOfTyped
  <2> QED BY <2>1, <2>2
<1>3. Pieces(<<>>) = <<>>
  OBVIOUS
<1>4. ASSUME NEW v \in Seq(Tokens), NEW token \in Tokens
      PROVE  Pieces(Append(v, token)) = Append(Pieces(v), LabelOf(token))
  <2> DEFINE more == Append(v, token)
             p == Pieces(v)
             q == Append(p, LabelOf(token))
  <2>1. /\ more \in Seq(Tokens) /\ Len(more) = Len(v) + 1 /\ Len(v) \in Nat
        /\ DOMAIN more = 1..Len(v) + 1 /\ DOMAIN v = 1..Len(v)
        /\ more[Len(v) + 1] = token /\ \A k \in 1..Len(v) : more[k] = v[k]
    OBVIOUS
  <2>2. p \in Seq(Seq(PlainTokens)) /\ Len(p) = Len(v)
        /\ LabelOf(token) \in Seq(PlainTokens)
    BY <1>2, LabelOfTyped
  <2>3. \A k \in 1..Len(v) : p[k] = LabelOf(v[k])
    BY <2>1
  <2>4. \A k \in 1..Len(v) + 1 : Pieces(more)[k] = LabelOf(more[k])
    BY <2>1
  <2>5. Pieces(more) \in Seq(Seq(PlainTokens)) /\ Len(Pieces(more)) = Len(v) + 1
    BY <1>2, <2>1
  <2> HIDE DEF more, p, Pieces
  <2>6. q \in Seq(Seq(PlainTokens)) /\ Len(q) = Len(v) + 1
        /\ q[Len(v) + 1] = LabelOf(token) /\ \A k \in 1..Len(v) : q[k] = p[k]
    BY <2>1, <2>2
  <2>7. \A k \in 1..Len(v) + 1 : Pieces(more)[k] = q[k]
    BY <2>1, <2>3, <2>4, <2>6
  <2> HIDE DEF q
  <2>8. Pieces(more) = q
    BY <2>1, <2>5, <2>6, <2>7
  <2> QED BY <2>8 DEF more, q, p
<1> HIDE DEF Pieces
<1>5. LabelsOf(<<>>) = <<>>
  BY <1>1, <1>3, FlattenAppend
<1>6. \A value \in Seq(Tokens) : LabelsOf(value) \in Seq(PlainTokens)
  BY <1>1, <1>2, FlattenAppend
<1>7. ASSUME NEW value \in Seq(Tokens), NEW token \in Tokens
      PROVE  LabelsOf(Append(value, token)) = LabelsOf(value) \o LabelOf(token)
  <2>1. LabelsOf(Append(value, token)) = FlattenSeq(Append(Pieces(value), LabelOf(token)))
    BY <1>1, <1>4
  <2> QED BY <1>1, <1>2, <2>1, LabelOfTyped, FlattenAppend
<1> QED BY <1>5, <1>6, <1>7

LEMMA CategoriesTyped ==
  ASSUME NEW S, NEW H, NEW x \in Shape(S, H)
  PROVE  Categories(x) \in Seq(PlainTokens) /\ Categories(x) \in Seq(Tokens)
<1>1. x.categories \in Seq(Seq(Tokens))
  BY LinesTyped
<1>2. Categories(x) \in Seq(PlainTokens)
  <2>1. CASE x.categories = <<>>
    BY <2>1 DEF Categories
  <2>2. CASE x.categories # <<>>
    <3>1. x.categories[1] \in Seq(Tokens)
      BY <1>1, <2>2
    <3> QED BY <2>2, <3>1, LabelsOfAppend DEF Categories
  <2> QED BY <2>1, <2>2
<1>3. PlainTokens \subseteq Tokens
  BY DEF PlainTokens
<1> QED BY <1>2, <1>3

LEMMA AddedCategoryTyped ==
  ASSUME NEW S, NEW H, NEW x \in Shape(S, H), NEW value \in Seq(Tokens)
  PROVE  [x EXCEPT !.categories = <<Categories(x) \o value>>] \in Shape(S, H)
<1>1. Categories(x) \o value \in Seq(Tokens)
  BY CategoriesTyped
<1>2. <<Categories(x) \o value>> \in Seq(Seq(Tokens))
  BY <1>1
<1> QED BY <1>2, LinesTyped

LEMMA SetCategoriesTyped ==
  ASSUME NEW S, NEW H, NEW x \in Shape(S, H),
         NEW y, NEW line \in CategoryLists(y)
  PROVE  [x EXCEPT !.categories = IF line = <<>> THEN <<>> ELSE <<line>>]
           \in Shape(S, H)
<1>1. line \in Seq(Tokens)
  <2>1. CASE line = <<>>
    BY <2>1
  <2>2. CASE line # <<>>
    <3>1. PICK l \in Labels : line = <<[label |-> l, padded |-> FALSE]>>
      BY <2>2 DEF CategoryLists
    <3> DEFINE k == [label |-> l, padded |-> FALSE]
    <3>2. k \in Tokens
      BY DEF Tokens
    <3> HIDE DEF k
    <3>3. <<k>> \in Seq(Tokens)
      BY <3>2
    <3> QED BY <3>1, <3>3 DEF k
  <2> QED BY <2>1, <2>2
<1>2. (IF line = <<>> THEN <<>> ELSE <<line>>) \in Seq(Seq(Tokens))
  BY <1>1
<1> QED BY <1>2, LinesTyped

LEMMA AddedUidTyped ==
  ASSUME NEW S, NEW H, NEW x \in Shape(S, H), NEW uid \in Uids
  PROVE  [x EXCEPT !.related = Append(@, uid)] \in Shape(S, H)
<1>1. Append(x.related, uid) \in Seq(Uids)
  BY LinesTyped
<1> QED BY <1>1, LinesTyped

LEMMA SuccessorTyped ==
  ASSUME NEW x \in Components
  PROVE  Sequence(x) \in 0..MaxInt /\ Successor(Sequence(x)) \in Int
<1>1. Sequence(x) \in 0..MaxInt
  BY HelpersAssumption DEF Sequence
<1> QED BY <1>1, HelpersAssumption DEF Successor

-----------------------------------------------------------------------------
(* The calls. *)

\* Each helper stamps a component it changed, as its last step, or returns the
\* one it was given.
LEMMA HelperResult ==
  ASSUME c \in Components, HelperCall
  PROVE  c' \in Components /\ (c' = c \/ VerifyXVSTAR(c'))
<1>1. CASE CallSetStatus \/ CallSetEventStatus \/ CallSetJournalStatus
  <2>1. PICK s \in Words : \/ c' = SetStatus(c, s)
                           \/ c' = SetEventStatus(c, s)
                           \/ c' = SetJournalStatus(c, s)
    BY <1>1 DEF CallSetStatus, CallSetEventStatus, CallSetJournalStatus
  <2>2. [c EXCEPT !.status = s] \in Components
    BY WordsTyped DEF Components
  <2>3. c' = c \/ c' = SetXVSTAR([c EXCEPT !.status = s])
    BY <2>1 DEF SetStatus, SetEventStatus, SetJournalStatus
  <2> QED BY <2>2, <2>3, StampVerifies
<1>2. CASE CallComplete
  <2>1. PICK t \in Instants : c' = Complete(c, t)
    BY <1>2 DEF CallComplete
  <2> DEFINE a == [c EXCEPT !.status = "COMPLETED"]
             b == [a EXCEPT !.completed = TimeProp(t)]
             d == [b EXCEPT !.percent = 100]
  <2>2. d \in Components
    <3>1. a \in Components
      BY WordsTyped DEF Components
    <3> HIDE DEF a
    <3>2. b \in Components
      BY <3>1, TimesTyped DEF Components
    <3> HIDE DEF b
    <3>3. 100 \in Int \cup {NoValue}
      OBVIOUS
    <3> QED BY <3>2, <3>3, NumbersTyped DEF Components
  <2>3. c' = c \/ c' = SetXVSTAR(d)
    BY <2>1 DEF Complete
  <2> HIDE DEF d
  <2> QED BY <2>2, <2>3, StampVerifies
<1>3. CASE CallSetClass \/ CallSetTransp
  <2>1. PICK v \in Words : c' = SetClass(c, v) \/ c' = SetTransp(c, v)
    BY <1>3 DEF CallSetClass, CallSetTransp
  <2>2. /\ [c EXCEPT !.class = v] \in Components
        /\ [c EXCEPT !.transp = v] \in Components
    BY WordsTyped DEF Components
  <2>3. \/ c' = c
        \/ c' = SetXVSTAR([c EXCEPT !.class = v])
        \/ c' = SetXVSTAR([c EXCEPT !.transp = v])
    BY <2>1 DEF SetClass, SetTransp
  <2> QED BY <2>2, <2>3, StampVerifies
<1>4. CASE CallSetSequence \/ CallSetPriority \/ CallSetPercent
  <2>1. PICK n \in Revisions \cup Priorities \cup Percents :
          \/ c' = SetSequence(c, n)
          \/ c' = SetPriority(c, n)
          \/ c' = SetPercentComplete(c, n)
    BY <1>4 DEF CallSetSequence, CallSetPriority, CallSetPercent
  <2>2. n \in Int
    BY HelpersAssumption
  <2>3. /\ [c EXCEPT !.sequence = n] \in Components
        /\ [c EXCEPT !.priority = n] \in Components
        /\ [c EXCEPT !.percent = n] \in Components
    BY <2>2, NumbersTyped DEF Components
  <2>4. \/ c' = c
        \/ c' = SetXVSTAR([c EXCEPT !.sequence = n])
        \/ c' = SetXVSTAR([c EXCEPT !.priority = n])
        \/ c' = SetXVSTAR([c EXCEPT !.percent = n])
    BY <2>1 DEF SetSequence, SetPriority, SetPercentComplete
  <2> QED BY <2>3, <2>4, StampVerifies
<1>5. CASE CallIncrementSequence
  <2>1. [c EXCEPT !.sequence = Successor(Sequence(c))] \in Components
    BY SuccessorTyped, NumbersTyped DEF Components
  <2>2. c' = c \/ c' = SetXVSTAR([c EXCEPT !.sequence = Successor(Sequence(c))])
    BY <1>5 DEF CallIncrementSequence, IncrementSequence
  <2> QED BY <2>1, <2>2, StampVerifies
<1>6. CASE CallRemovePriority \/ CallRemovePercent
  <2>1. /\ [c EXCEPT !.priority = NoValue] \in Components
        /\ [c EXCEPT !.percent = NoValue] \in Components
    BY NumbersTyped DEF Components
  <2>2. \/ c' = SetXVSTAR([c EXCEPT !.priority = NoValue])
        \/ c' = SetXVSTAR([c EXCEPT !.percent = NoValue])
    BY <1>6 DEF CallRemovePriority, CallRemovePercent, RemovePriority,
                RemovePercentComplete
  <2> QED BY <2>1, <2>2, StampVerifies
<1>7. CASE CallSetDue
  <2>1. PICK t \in Instants : c' = SetXVSTAR([c EXCEPT !.due = TimeProp(t)])
    BY <1>7 DEF CallSetDue, SetDue
  <2>2. [c EXCEPT !.due = TimeProp(t)] \in Components
    BY TimesTyped DEF Components
  <2> QED BY <2>1, <2>2, StampVerifies
<1>8. CASE CallSetCategories
  <2>1. PICK line \in CategoryLists(c) : c' = SetCategories(c, line)
    BY <1>8 DEF CallSetCategories
  <2>2. [c EXCEPT !.categories = IF line = <<>> THEN <<>> ELSE <<line>>]
          \in Components
    BY SetCategoriesTyped DEF Components
  <2> QED BY <2>1, <2>2, StampVerifies DEF SetCategories
<1>9. CASE CallAddCategory
  <2>1. PICK value \in Seq(Tokens) : c' = AddCategory(c, value)
    BY <1>9, CategoriesAssumption DEF CallAddCategory, AddableTo
  <2>2. [c EXCEPT !.categories = <<Categories(c) \o value>>] \in Components
    BY AddedCategoryTyped DEF Components
  <2>3. \/ c' = c
        \/ c' = SetXVSTAR([c EXCEPT !.categories = <<Categories(c) \o value>>])
    BY <2>1 DEF AddCategory
  <2> QED BY <2>2, <2>3, StampVerifies
<1>10. CASE CallAddRelatedTo
  <2>1. PICK uid \in Uids : c' = SetXVSTAR([c EXCEPT !.related = Append(@, uid)])
    BY <1>10 DEF CallAddRelatedTo, AddRelatedTo
  <2>2. [c EXCEPT !.related = Append(@, uid)] \in Components
    BY AddedUidTyped DEF Components
  <2> QED BY <2>1, <2>2, StampVerifies
<1> QED
  BY <1>1, <1>2, <1>3, <1>4, <1>5, <1>6, <1>7, <1>8, <1>9, <1>10 DEF HelperCall
\* So does each of them called on a nested alarm, where there is one to change.
LEMMA AlarmResult ==
  ASSUME NEW a \in Alarms, NEW b \in AlarmCalls(a)
  PROVE  b \in Alarms
<1> DEFINE H == AlarmContents \cup {NoValue}
<1>1. a \in Shape({NoValue}, H)
  BY DEF Alarms
<1>2. CASE b \in {RemovePriority(a), RemovePercentComplete(a)}
  <2>1. NoValue \in Int \cup {NoValue}
    OBVIOUS
  <2>2. /\ [a EXCEPT !.priority = NoValue] \in Alarms
        /\ [a EXCEPT !.percent = NoValue] \in Alarms
    BY <1>1, <2>1, NumbersTyped DEF Alarms
  <2> QED
    BY <1>2, <2>2, AlarmStampTyped DEF RemovePriority, RemovePercentComplete
<1>3. CASE b \in {SetDue(a, t) : t \in Instants}
  <2>1. PICK t \in Instants : b = SetXVSTAR([a EXCEPT !.due = TimeProp(t)])
    BY <1>3 DEF SetDue
  <2>2. [a EXCEPT !.due = TimeProp(t)] \in Alarms
    BY <1>1, TimesTyped DEF Alarms
  <2> QED BY <2>1, <2>2, AlarmStampTyped
<1>4. CASE b \in {SetCategories(a, line) : line \in CategoryLists(a)}
  <2>1. PICK line \in CategoryLists(a) : b = SetCategories(a, line)
    BY <1>4
  <2>2. [a EXCEPT !.categories = IF line = <<>> THEN <<>> ELSE <<line>>]
          \in Alarms
    BY <1>1, SetCategoriesTyped DEF Alarms
  <2> QED BY <2>1, <2>2, AlarmStampTyped DEF SetCategories
<1>5. CASE b \in {AddCategory(a, value) : value \in AddableTo(a)}
  <2>1. PICK value \in Seq(Tokens) : b = AddCategory(a, value)
    BY <1>5, CategoriesAssumption DEF AddableTo
  <2>2. [a EXCEPT !.categories = <<Categories(a) \o value>>] \in Alarms
    BY <1>1, AddedCategoryTyped DEF Alarms
  <2>3. \/ b = a
        \/ b = SetXVSTAR([a EXCEPT !.categories = <<Categories(a) \o value>>])
    BY <2>1 DEF AddCategory
  <2> QED BY <2>2, <2>3, AlarmStampTyped
<1>6. CASE b \in {AddRelatedTo(a, uid) :
                     uid \in {u \in Uids : Len(a.related) < MaxLines[a.type]}}
  <2>1. PICK uid \in Uids : b = SetXVSTAR([a EXCEPT !.related = Append(@, uid)])
    BY <1>6 DEF AddRelatedTo
  <2>2. [a EXCEPT !.related = Append(@, uid)] \in Alarms
    BY <1>1, AddedUidTyped DEF Alarms
  <2> QED BY <2>1, <2>2, AlarmStampTyped
<1> QED BY <1>2, <1>3, <1>4, <1>5, <1>6 DEF AlarmCalls

-----------------------------------------------------------------------------
(* Constructors and raw edits. *)

LEMMA BlankTyped ==
  ASSUME NEW type \in CompTypes, NEW S, NEW H, NoValue \in S, NoValue \in H
  PROVE  Blank(type) \in Shape(S, H)
BY DEF Blank, Shape

LEMMA SpanTyped ==
  ASSUME NEW S, NEW H, NEW x \in Shape(S, H), NEW t \in Instants
  PROVE  /\ [x EXCEPT !.start = TimeProp(t)] \in Shape(S, H)
         /\ [x EXCEPT !.end = TimeProp(t)] \in Shape(S, H)
<1>1. TimeProp(t) \in Nat \cup {NoValue}
  BY HelpersAssumption DEF TimeProp
<1>2. [x EXCEPT !.start = TimeProp(t)] \in Shape(S, H)
  BY <1>1 DEF Shape
<1>3. [x EXCEPT !.end = TimeProp(t)] \in Shape(S, H)
  BY <1>1 DEF Shape
<1> QED BY <1>2, <1>3

LEMMA NewAlarmTyped == NewAlarm \in Alarms
<1>1. "VALARM" \in CompTypes
  BY DEF CompTypes
<1>2. Blank("VALARM") \in Alarms
  BY <1>1, BlankTyped DEF Alarms
<1> QED BY <1>2, AlarmStampTyped DEF NewAlarm

LEMMA ConstructedTyped == Constructed \subseteq Components
<1> SUFFICES ASSUME NEW x \in Constructed PROVE x \in Components
  OBVIOUS
<1>1. \A type \in CompTypes : Blank(type) \in Components
  BY BlankTyped DEF Components
<1>2. CASE x \in {NewTodo(t) : t \in Instants}
  <2>1. PICK t \in Instants :
          x = SetXVSTAR([Blank("VTODO") EXCEPT !.due = TimeProp(t)])
    BY <1>2 DEF NewTodo
  <2>2. Blank("VTODO") \in Components
    BY <1>1 DEF CompTypes
  <2>3. [Blank("VTODO") EXCEPT !.due = TimeProp(t)] \in Components
    BY <2>2, TimesTyped DEF Components
  <2> QED BY <2>1, <2>3, StampVerifies
<1>3. CASE x \in {NewJournal(t) : t \in Instants}
  <2>1. PICK t \in Instants :
          x = SetXVSTAR([Blank("VJOURNAL") EXCEPT !.start = TimeProp(t)])
    BY <1>3 DEF NewJournal
  <2>2. Blank("VJOURNAL") \in Components
    BY <1>1 DEF CompTypes
  <2>3. [Blank("VJOURNAL") EXCEPT !.start = TimeProp(t)] \in Components
    BY <2>2, SpanTyped DEF Components
  <2> QED BY <2>1, <2>3, StampVerifies
<1>4. CASE x \in {NewSpan(type, t, u) : type \in {"VEVENT", "VFREEBUSY"},
                                       t \in Instants, u \in Instants}
  <2>1. PICK type \in {"VEVENT", "VFREEBUSY"}, t \in Instants, u \in Instants :
          x = NewSpan(type, t, u)
    BY <1>4
  <2> DEFINE a == [Blank(type) EXCEPT !.start = TimeProp(t)]
             b == [a EXCEPT !.end = TimeProp(u)]
  <2>2. Blank(type) \in Components
    BY <1>1 DEF CompTypes
  <2>3. a \in Components
    BY <2>2, SpanTyped DEF Components
  <2>4. x = SetXVSTAR(b)
    BY <2>1 DEF NewSpan
  <2> HIDE DEF a
  <2>5. b \in Components
    BY <2>3, SpanTyped DEF Components
  <2> QED BY <2>4, <2>5, StampVerifies
<1>5. CASE x = NewAlarm
  <2>1. "VALARM" \in CompTypes
    BY DEF CompTypes
  <2> QED BY <1>1, <1>5, <2>1, StampVerifies DEF NewAlarm
<1> QED BY <1>2, <1>3, <1>4, <1>5 DEF Constructed

LEMMA OtherTyped ==
  ASSUME NEW S, NEW H, NEW x \in Shape(S, H), NEW o \in Others
  PROVE  [x EXCEPT !.other = o] \in Shape(S, H)
BY DEF Shape

LEMMA RawEditTyped ==
  ASSUME TypeOK, RawEdit
  PROVE  TypeOK'
<1>1. c \in Components
  BY DEF TypeOK
<1>2. CASE EditOther
  BY <1>1, <1>2, OtherTyped DEF EditOther, Components, TypeOK
<1>3. CASE EditAlarm
  <2>1. PICK o \in Others : c' = [c EXCEPT !.sub = [@ EXCEPT !.other = o]]
    BY <1>3 DEF EditAlarm
  <2>2. c.sub \in Alarms
    BY <1>1, <1>3, SubKept DEF EditAlarm, Components
  <2>3. [c.sub EXCEPT !.other = o] \in Alarms \cup {NoValue}
    BY <2>2, OtherTyped DEF Alarms
  <2> QED BY <1>1, <2>1, <2>3, SubTyped DEF Components, TypeOK
<1>4. CASE AttachAlarm
  <2>1. NewAlarm \in Alarms \cup {NoValue}
    BY NewAlarmTyped
  <2> QED BY <1>1, <1>4, <2>1, SubTyped DEF AttachAlarm, Components, TypeOK
<1>5. CASE WriteRevision
  <2>1. PICK n \in WireRevisions : c' = [c EXCEPT !.sequence = n]
    BY <1>5 DEF WriteRevision
  <2>2. n \in Int \cup {NoValue}
    BY HelpersAssumption
  <2> QED BY <1>1, <2>1, <2>2, NumbersTyped DEF Components, TypeOK
<1>6. CASE AddCategoriesLine
  <2>1. PICK value \in Seq(Tokens) :
          c' = [c EXCEPT !.categories = Append(c.categories, value)]
    BY <1>6, CategoriesAssumption DEF AddCategoriesLine
  <2>2. c.categories \in Seq(Seq(Tokens))
    BY <1>1, LinesTyped DEF Components
  <2>3. Append(c.categories, value) \in Seq(Seq(Tokens))
    BY <2>2
  <2> QED BY <1>1, <2>1, <2>3, LinesTyped DEF Components, TypeOK
<1> QED BY <1>2, <1>3, <1>4, <1>5, <1>6 DEF RawEdit

-----------------------------------------------------------------------------
(* What a stamp leaves alone, and the values the validator accepts. *)

LEMMA StampKeeps ==
  ASSUME NEW S, NEW H, NEW x \in Shape(S, H)
  PROVE  /\ SetXVSTAR(x).type = x.type
         /\ SetXVSTAR(x).status = x.status
         /\ SetXVSTAR(x).completed = x.completed
         /\ SetXVSTAR(x).percent = x.percent
         /\ SetXVSTAR(x).sequence = x.sequence
         /\ SetXVSTAR(x).priority = x.priority
         /\ SetXVSTAR(x).class = x.class
         /\ SetXVSTAR(x).transp = x.transp
         /\ SetXVSTAR(x).due = x.due
         /\ SetXVSTAR(x).start = x.start
         /\ SetXVSTAR(x).end = x.end
         /\ SetXVSTAR(x).categories = x.categories
         /\ SetXVSTAR(x).sub = x.sub
BY DEF SetXVSTAR, Shape

\* InDomain with the validator's four rules spelt out, for any component.
Accepted(x) ==
  /\ x.type \in {"VTODO", "VEVENT", "VJOURNAL"}
       => x.status \in StatusesOf(x.type) \cup {NoValue}
  /\ x.class \in Classes \cup {NoValue}
  /\ x.transp \in Transps \cup {NoValue}
  /\ x.priority \in 0..9 \cup {NoValue}
  /\ x.percent \in 0..100 \cup {NoValue}
  /\ x.sequence \in Nat \cup {NoValue}
  /\ x.percent # NoValue \/ x.completed # NoValue => x.type = "VTODO"
  /\ x.priority # NoValue => x.type \in {"VTODO", "VEVENT"}
  /\ x.transp # NoValue => x.type = "VEVENT"
  /\ x.class # NoValue => CarriesSequence(x)

LEMMA AcceptedInDomain ==
  ASSUME Accepted(c)
  PROVE  InDomain
<1>1. VocabularyDiagnostics(c) = {}
  BY DEF Accepted, VocabularyDiagnostics
<1> QED BY <1>1 DEF Accepted, InDomain

\* Only these fields count.
LEMMA AcceptedSame ==
  ASSUME NEW x, NEW y, Accepted(x),
         y.type = x.type, y.status = x.status, y.completed = x.completed,
         y.percent = x.percent, y.sequence = x.sequence,
         y.priority = x.priority, y.class = x.class, y.transp = x.transp
  PROVE  Accepted(y)
BY DEF Accepted, CarriesSequence

LEMMA StampAccepted ==
  ASSUME NEW x \in Components, Accepted(x)
  PROVE  Accepted(SetXVSTAR(x))
<1>1. x \in Shape(Alarms \cup {NoValue}, Contents \cup {NoValue})
  BY DEF Components
<1> QED BY <1>1, StampKeeps, AcceptedSame

\* Every write of a helper is one the validator accepts, on its own type.
LEMMA WordsAccepted ==
  ASSUME NEW x \in Components, Accepted(x), NEW w
  PROVE  /\ x.type \in {"VTODO", "VEVENT", "VJOURNAL"} /\ w \in StatusesOf(x.type)
              => Accepted([x EXCEPT !.status = w])
         /\ CarriesSequence(x) /\ w \in Classes => Accepted([x EXCEPT !.class = w])
         /\ x.type = "VEVENT" /\ w \in Transps => Accepted([x EXCEPT !.transp = w])
<1>1. x \in Shape(Alarms \cup {NoValue}, Contents \cup {NoValue})
  BY DEF Components
<1>2. ASSUME x.type \in {"VTODO", "VEVENT", "VJOURNAL"}, w \in StatusesOf(x.type)
      PROVE  Accepted([x EXCEPT !.status = w])
  <2> DEFINE y == [x EXCEPT !.status = w]
  <2>1. /\ y.status = w /\ y.type = x.type /\ y.completed = x.completed
        /\ y.percent = x.percent /\ y.sequence = x.sequence
        /\ y.priority = x.priority /\ y.class = x.class /\ y.transp = x.transp
    BY <1>1 DEF Shape
  <2> HIDE DEF y
  <2>2. Accepted(y)
    BY <1>2, <2>1 DEF Accepted, CarriesSequence
  <2> QED BY <2>2 DEF y
<1>3. ASSUME CarriesSequence(x), w \in Classes
      PROVE  Accepted([x EXCEPT !.class = w])
  <2> DEFINE y == [x EXCEPT !.class = w]
  <2>1. /\ y.class = w /\ y.type = x.type /\ y.completed = x.completed
        /\ y.percent = x.percent /\ y.sequence = x.sequence
        /\ y.priority = x.priority /\ y.status = x.status /\ y.transp = x.transp
    BY <1>1 DEF Shape
  <2> HIDE DEF y
  <2>2. Accepted(y)
    BY <1>3, <2>1 DEF Accepted, CarriesSequence
  <2> QED BY <2>2 DEF y
<1>4. ASSUME x.type = "VEVENT", w \in Transps
      PROVE  Accepted([x EXCEPT !.transp = w])
  <2> DEFINE y == [x EXCEPT !.transp = w]
  <2>1. /\ y.transp = w /\ y.type = x.type /\ y.completed = x.completed
        /\ y.percent = x.percent /\ y.sequence = x.sequence
        /\ y.priority = x.priority /\ y.class = x.class /\ y.status = x.status
    BY <1>1 DEF Shape
  <2> HIDE DEF y
  <2>2. Accepted(y)
    BY <1>4, <2>1 DEF Accepted, CarriesSequence
  <2> QED BY <2>2 DEF y
<1> QED BY <1>2, <1>3, <1>4

LEMMA NumbersAccepted ==
  ASSUME NEW x \in Components, Accepted(x), NEW n
  PROVE  /\ n \in Nat => Accepted([x EXCEPT !.sequence = n])
         /\ (x.type \in {"VTODO", "VEVENT"} /\ n \in 0..9) \/ n = NoValue
              => Accepted([x EXCEPT !.priority = n])
         /\ (x.type = "VTODO" /\ n \in 0..100) \/ n = NoValue
              => Accepted([x EXCEPT !.percent = n])
<1>1. x \in Shape(Alarms \cup {NoValue}, Contents \cup {NoValue})
  BY DEF Components
<1>2. ASSUME n \in Nat PROVE Accepted([x EXCEPT !.sequence = n])
  <2> DEFINE y == [x EXCEPT !.sequence = n]
  <2>1. /\ y.sequence = n /\ y.type = x.type /\ y.completed = x.completed
        /\ y.percent = x.percent /\ y.status = x.status
        /\ y.priority = x.priority /\ y.class = x.class /\ y.transp = x.transp
    BY <1>1 DEF Shape
  <2> HIDE DEF y
  <2>2. Accepted(y)
    BY <1>2, <2>1 DEF Accepted, CarriesSequence
  <2> QED BY <2>2 DEF y
<1>3. ASSUME (x.type \in {"VTODO", "VEVENT"} /\ n \in 0..9) \/ n = NoValue
      PROVE  Accepted([x EXCEPT !.priority = n])
  <2> DEFINE y == [x EXCEPT !.priority = n]
  <2>1. /\ y.priority = n /\ y.type = x.type /\ y.completed = x.completed
        /\ y.percent = x.percent /\ y.sequence = x.sequence
        /\ y.status = x.status /\ y.class = x.class /\ y.transp = x.transp
    BY <1>1 DEF Shape
  <2> HIDE DEF y
  <2>2. Accepted(y)
    BY <1>3, <2>1 DEF Accepted, CarriesSequence
  <2> QED BY <2>2 DEF y
<1>4. ASSUME (x.type = "VTODO" /\ n \in 0..100) \/ n = NoValue
      PROVE  Accepted([x EXCEPT !.percent = n])
  <2> DEFINE y == [x EXCEPT !.percent = n]
  <2>1. /\ y.percent = n /\ y.type = x.type /\ y.completed = x.completed
        /\ y.status = x.status /\ y.sequence = x.sequence
        /\ y.priority = x.priority /\ y.class = x.class /\ y.transp = x.transp
    BY <1>1 DEF Shape
  <2> HIDE DEF y
  <2>2. Accepted(y)
    BY <1>4, <2>1 DEF Accepted, CarriesSequence
  <2> QED BY <2>2 DEF y
<1> QED BY <1>2, <1>3, <1>4

\* The writes the validator's vocabulary rules do not look at.
LEMMA OthersAccepted ==
  ASSUME NEW x \in Components, Accepted(x), NEW v
  PROVE  /\ Accepted([x EXCEPT !.due = v])
         /\ Accepted([x EXCEPT !.start = v])
         /\ Accepted([x EXCEPT !.end = v])
         /\ Accepted([x EXCEPT !.categories = v])
         /\ Accepted([x EXCEPT !.related = v])
         /\ Accepted([x EXCEPT !.other = v])
         /\ Accepted([x EXCEPT !.sub = v])
         /\ x.type = "VTODO" => Accepted([x EXCEPT !.completed = v])
<1>1. x \in Shape(Alarms \cup {NoValue}, Contents \cup {NoValue})
  BY DEF Components
<1>2. \A y \in {[x EXCEPT !.due = v], [x EXCEPT !.start = v], [x EXCEPT !.end = v],
                [x EXCEPT !.categories = v], [x EXCEPT !.related = v],
                [x EXCEPT !.other = v], [x EXCEPT !.sub = v]} :
        /\ y.type = x.type /\ y.status = x.status /\ y.completed = x.completed
        /\ y.percent = x.percent /\ y.sequence = x.sequence
        /\ y.priority = x.priority /\ y.class = x.class /\ y.transp = x.transp
  BY <1>1 DEF Shape
<1>3. \A y \in {[x EXCEPT !.due = v], [x EXCEPT !.start = v], [x EXCEPT !.end = v],
                [x EXCEPT !.categories = v], [x EXCEPT !.related = v],
                [x EXCEPT !.other = v], [x EXCEPT !.sub = v]} : Accepted(y)
  BY <1>2, AcceptedSame
<1>4. ASSUME x.type = "VTODO" PROVE Accepted([x EXCEPT !.completed = v])
  <2> DEFINE y == [x EXCEPT !.completed = v]
  <2>1. /\ y.completed = v /\ y.type = x.type /\ y.status = x.status
        /\ y.percent = x.percent /\ y.sequence = x.sequence
        /\ y.priority = x.priority /\ y.class = x.class /\ y.transp = x.transp
    BY <1>1 DEF Shape
  <2> HIDE DEF y
  <2>2. Accepted(y)
    BY <1>4, <2>1 DEF Accepted, CarriesSequence
  <2> QED BY <2>2 DEF y
<1> QED BY <1>3, <1>4

-----------------------------------------------------------------------------
(* The theorems. *)

\* A component keeps its shape: every property one of the values its writers
\* can leave, its alarm an alarm, its stored hash the hash of some content.
THEOREM TypeCorrect == Spec => []TypeOK
<1>1. Init => TypeOK
  BY ConstructedTyped DEF Init, TypeOK
<1>2. TypeOK /\ [Next]_c => TypeOK'
  <2> SUFFICES ASSUME TypeOK, [Next]_c PROVE TypeOK'
    OBVIOUS
  <2>1. c \in Components
    BY DEF TypeOK
  <2>2. CASE HelperCall
    BY <2>1, <2>2, HelperResult DEF TypeOK
  <2>3. CASE AlarmCall
    <3>1. c.sub \in Alarms
      BY <2>1, <2>3, SubKept DEF AlarmCall, Components
    <3>2. PICK a \in AlarmCalls(c.sub) : c' = [c EXCEPT !.sub = a]
      BY <2>3 DEF AlarmCall
    <3>3. a \in Alarms \cup {NoValue}
      BY <3>1, AlarmResult
    <3> QED BY <2>1, <3>2, <3>3, SubTyped DEF Components, TypeOK
  <2>4. CASE RawEdit
    BY <2>4, RawEditTyped
  <2>5. CASE Stamp
    BY <2>1, <2>5, StampVerifies DEF Stamp, TypeOK
  <2>6. CASE UNCHANGED c
    BY <2>1, <2>6 DEF TypeOK
  <2> QED BY <2>2, <2>3, <2>4, <2>5, <2>6 DEF Next
<1> QED BY <1>1, <1>2, PTL DEF Spec

\* No helper returns a half-applied change or a change it forgot to restamp:
\* it returns its argument, or a component whose stored hash matches it, even
\* when the argument's hash was stale.
THEOREM HelpersStamp == Spec => NothingOrStamped
<1>1. TypeOK /\ [Next]_c => [HelperCall => c' = c \/ VerifyXVSTAR(c')]_c
  BY HelperResult DEF TypeOK
<1> QED BY <1>1, TypeCorrect, PTL DEF Spec, NothingOrStamped

-----------------------------------------------------------------------------
(* Values in their domains. *)

LEMMA ConstructedAccepted ==
  ASSUME NEW x \in Constructed
  PROVE  Accepted(x)
<1>1. ASSUME NEW type \in CompTypes PROVE Accepted(Blank(type))
  BY <1>1 DEF Blank, Accepted
<1>2. \A type \in CompTypes : Blank(type) \in Components
  BY BlankTyped DEF Components
<1>3. CASE x \in {NewTodo(t) : t \in Instants}
  <2>1. PICK t \in Instants :
          x = SetXVSTAR([Blank("VTODO") EXCEPT !.due = TimeProp(t)])
    BY <1>3 DEF NewTodo
  <2>2. Blank("VTODO") \in Components /\ Accepted(Blank("VTODO"))
    BY <1>1, <1>2 DEF CompTypes
  <2>3. [Blank("VTODO") EXCEPT !.due = TimeProp(t)] \in Components
    BY <2>2, TimesTyped DEF Components
  <2> QED BY <2>1, <2>2, <2>3, OthersAccepted, StampAccepted
<1>4. CASE x \in {NewJournal(t) : t \in Instants}
  <2>1. PICK t \in Instants :
          x = SetXVSTAR([Blank("VJOURNAL") EXCEPT !.start = TimeProp(t)])
    BY <1>4 DEF NewJournal
  <2>2. Blank("VJOURNAL") \in Components /\ Accepted(Blank("VJOURNAL"))
    BY <1>1, <1>2 DEF CompTypes
  <2>3. [Blank("VJOURNAL") EXCEPT !.start = TimeProp(t)] \in Components
    BY <2>2, SpanTyped DEF Components
  <2> QED BY <2>1, <2>2, <2>3, OthersAccepted, StampAccepted
<1>5. CASE x \in {NewSpan(type, t, u) : type \in {"VEVENT", "VFREEBUSY"},
                                       t \in Instants, u \in Instants}
  <2>1. PICK type \in {"VEVENT", "VFREEBUSY"}, t \in Instants, u \in Instants :
          x = NewSpan(type, t, u)
    BY <1>5
  <2> DEFINE a == [Blank(type) EXCEPT !.start = TimeProp(t)]
             b == [a EXCEPT !.end = TimeProp(u)]
  <2>2. Blank(type) \in Components /\ Accepted(Blank(type))
    BY <1>1, <1>2 DEF CompTypes
  <2>3. a \in Components /\ Accepted(a)
    BY <2>2, SpanTyped, OthersAccepted DEF Components
  <2>4. x = SetXVSTAR(b)
    BY <2>1 DEF NewSpan
  <2> HIDE DEF a
  <2>5. b \in Components /\ Accepted(b)
    BY <2>3, SpanTyped, OthersAccepted DEF Components
  <2> QED BY <2>4, <2>5, StampAccepted
<1>6. CASE x = NewAlarm
  <2>1. "VALARM" \in CompTypes
    BY DEF CompTypes
  <2> QED BY <1>1, <1>2, <1>6, <2>1, StampAccepted DEF NewAlarm
<1> QED BY <1>3, <1>4, <1>5, <1>6 DEF Constructed

\* A revision that is incremented stays clear of the largest int.
LEMMA RevisionSucceeds ==
  ASSUME MaxRevision < MaxInt, c \in Components, Sequence(c) <= MaxRevision
  PROVE  Successor(Sequence(c)) = Sequence(c) + 1 /\ Sequence(c) + 1 \in Nat
<1>1. Sequence(c) \in 0..MaxInt
  BY SuccessorTyped
<1> QED BY <1>1, HelpersAssumption DEF Successor

LEMMA HelperAccepted ==
  ASSUME MaxRevision < MaxInt, c \in Components, Accepted(c), HelperCall
  PROVE  Accepted(c')
<1>1. CASE CallSetStatus \/ CallSetEventStatus \/ CallSetJournalStatus
  <2>1. PICK s \in Words : \/ c' = SetStatus(c, s)
                           \/ c' = SetEventStatus(c, s)
                           \/ c' = SetJournalStatus(c, s)
    BY <1>1 DEF CallSetStatus, CallSetEventStatus, CallSetJournalStatus
  <2>2. [c EXCEPT !.status = s] \in Components
    BY WordsTyped DEF Components
  <2>3. \/ c' = c
        \/ /\ c' = SetXVSTAR([c EXCEPT !.status = s])
           /\ c.type \in {"VTODO", "VEVENT", "VJOURNAL"}
           /\ s \in StatusesOf(c.type)
    BY <2>1 DEF SetStatus, SetEventStatus, SetJournalStatus, StatusesOf
  <2> QED BY <2>2, <2>3, WordsAccepted, StampAccepted
<1>2. CASE CallComplete
  <2>1. PICK t \in Instants : c' = Complete(c, t)
    BY <1>2 DEF CallComplete
  <2> DEFINE a == [c EXCEPT !.status = "COMPLETED"]
             b == [a EXCEPT !.completed = TimeProp(t)]
             d == [b EXCEPT !.percent = 100]
  <2>2. ASSUME c.type = "VTODO" PROVE d \in Components /\ Accepted(d)
    <3>1. a \in Components /\ a.type = "VTODO"
      <4>1. a \in Components
        BY WordsTyped DEF Components
      <4>2. a.type = c.type
        BY DEF Components, Shape
      <4> QED BY <4>1, <4>2, <2>2
    <3>2. Accepted(a)
      <4>1. "COMPLETED" \in StatusesOf(c.type)
        BY <2>2, HelpersAssumption DEF StatusesOf
      <4> QED BY <4>1, <2>2, WordsAccepted
    <3> HIDE DEF a
    <3>3. b \in Components /\ Accepted(b)
      BY <3>1, <3>2, TimesTyped, OthersAccepted DEF Components
    <3>4. b.type = "VTODO"
      BY <3>1 DEF Components, Shape
    <3> HIDE DEF b
    <3>5. 100 \in Int \cup {NoValue} /\ 100 \in 0..100
      OBVIOUS
    <3>6. d \in Components
      BY <3>3, <3>5, NumbersTyped DEF Components
    <3>7. Accepted(d)
      BY <3>3, <3>4, <3>5, NumbersAccepted
    <3> QED BY <3>6, <3>7
  <2>3. c' = c \/ (c.type = "VTODO" /\ c' = SetXVSTAR(d))
    BY <2>1 DEF Complete
  <2> HIDE DEF d
  <2> QED BY <2>2, <2>3, StampAccepted
<1>3. CASE CallSetClass \/ CallSetTransp
  <2>1. PICK v \in Words : c' = SetClass(c, v) \/ c' = SetTransp(c, v)
    BY <1>3 DEF CallSetClass, CallSetTransp
  <2>2. /\ [c EXCEPT !.class = v] \in Components
        /\ [c EXCEPT !.transp = v] \in Components
    BY WordsTyped DEF Components
  <2>3. \/ c' = c
        \/ /\ c' = SetXVSTAR([c EXCEPT !.class = v])
           /\ CarriesSequence(c) /\ v \in Classes
        \/ /\ c' = SetXVSTAR([c EXCEPT !.transp = v])
           /\ c.type = "VEVENT" /\ v \in Transps
    BY <2>1 DEF SetClass, SetTransp, CarriesSequence
  <2> QED BY <2>2, <2>3, WordsAccepted, StampAccepted
<1>4. CASE CallSetSequence \/ CallSetPriority \/ CallSetPercent
  <2>1. PICK n \in Revisions \cup Priorities \cup Percents :
          \/ c' = SetSequence(c, n)
          \/ c' = SetPriority(c, n)
          \/ c' = SetPercentComplete(c, n)
    BY <1>4 DEF CallSetSequence, CallSetPriority, CallSetPercent
  <2>2. n \in Int
    BY HelpersAssumption
  <2>3. /\ [c EXCEPT !.sequence = n] \in Components
        /\ [c EXCEPT !.priority = n] \in Components
        /\ [c EXCEPT !.percent = n] \in Components
    BY <2>2, NumbersTyped DEF Components
  <2>4. \/ c' = c
        \/ /\ c' = SetXVSTAR([c EXCEPT !.sequence = n])
           /\ n \in Nat
        \/ /\ c' = SetXVSTAR([c EXCEPT !.priority = n])
           /\ c.type \in {"VTODO", "VEVENT"} /\ n \in 0..9
        \/ /\ c' = SetXVSTAR([c EXCEPT !.percent = n])
           /\ c.type = "VTODO" /\ n \in 0..100
    BY <2>1, <2>2 DEF SetSequence, SetPriority, SetPercentComplete
  <2> QED BY <2>3, <2>4, NumbersAccepted, StampAccepted
<1>5. CASE CallIncrementSequence
  <2>1. [c EXCEPT !.sequence = Successor(Sequence(c))] \in Components
    BY SuccessorTyped, NumbersTyped DEF Components
  <2>2. c' = c \/ c' = SetXVSTAR([c EXCEPT !.sequence = Successor(Sequence(c))])
    BY <1>5 DEF CallIncrementSequence, IncrementSequence
  <2>3. Successor(Sequence(c)) \in Nat
    BY <1>5, RevisionSucceeds DEF CallIncrementSequence
  <2> QED BY <2>1, <2>2, <2>3, NumbersAccepted, StampAccepted
<1>6. CASE CallRemovePriority \/ CallRemovePercent
  <2>1. /\ [c EXCEPT !.priority = NoValue] \in Components
        /\ [c EXCEPT !.percent = NoValue] \in Components
    BY NumbersTyped DEF Components
  <2>2. \/ c' = SetXVSTAR([c EXCEPT !.priority = NoValue])
        \/ c' = SetXVSTAR([c EXCEPT !.percent = NoValue])
    BY <1>6 DEF CallRemovePriority, CallRemovePercent, RemovePriority,
                RemovePercentComplete
  <2> QED BY <2>1, <2>2, NumbersAccepted, StampAccepted
<1>7. CASE CallSetDue
  <2>1. PICK t \in Instants : c' = SetXVSTAR([c EXCEPT !.due = TimeProp(t)])
    BY <1>7 DEF CallSetDue, SetDue
  <2>2. [c EXCEPT !.due = TimeProp(t)] \in Components
    BY TimesTyped DEF Components
  <2> QED BY <2>1, <2>2, OthersAccepted, StampAccepted
<1>8. CASE CallSetCategories
  <2>1. PICK line \in CategoryLists(c) : c' = SetCategories(c, line)
    BY <1>8 DEF CallSetCategories
  <2>2. [c EXCEPT !.categories = IF line = <<>> THEN <<>> ELSE <<line>>]
          \in Components
    BY SetCategoriesTyped DEF Components
  <2> QED BY <2>1, <2>2, OthersAccepted, StampAccepted DEF SetCategories
<1>9. CASE CallAddCategory
  <2>1. PICK value \in Seq(Tokens) : c' = AddCategory(c, value)
    BY <1>9, CategoriesAssumption DEF CallAddCategory, AddableTo
  <2>2. [c EXCEPT !.categories = <<Categories(c) \o value>>] \in Components
    BY AddedCategoryTyped DEF Components
  <2>3. \/ c' = c
        \/ c' = SetXVSTAR([c EXCEPT !.categories = <<Categories(c) \o value>>])
    BY <2>1 DEF AddCategory
  <2> QED BY <2>2, <2>3, OthersAccepted, StampAccepted
<1>10. CASE CallAddRelatedTo
  <2>1. PICK uid \in Uids : c' = SetXVSTAR([c EXCEPT !.related = Append(@, uid)])
    BY <1>10 DEF CallAddRelatedTo, AddRelatedTo
  <2>2. [c EXCEPT !.related = Append(@, uid)] \in Components
    BY AddedUidTyped DEF Components
  <2> QED BY <2>1, <2>2, OthersAccepted, StampAccepted
<1> QED
  BY <1>1, <1>2, <1>3, <1>4, <1>5, <1>6, <1>7, <1>8, <1>9, <1>10 DEF HelperCall

LEMMA RawEditAccepted ==
  ASSUME c \in Components, Accepted(c), RawEdit
  PROVE  Accepted(c')
<1>1. CASE EditOther
  BY <1>1, OthersAccepted DEF EditOther
<1>2. CASE EditAlarm
  BY <1>2, OthersAccepted DEF EditAlarm
<1>3. CASE AttachAlarm
  BY <1>3, OthersAccepted DEF AttachAlarm
<1>4. CASE WriteRevision
  BY <1>4, NumbersAccepted, HelpersAssumption DEF WriteRevision
<1>5. CASE AddCategoriesLine
  BY <1>5, OthersAccepted DEF AddCategoriesLine
<1> QED BY <1>1, <1>2, <1>3, <1>4, <1>5 DEF RawEdit

\* Short of the largest int, where an increment wraps around, no sequence of
\* calls and raw edits brings a component with a value the validator rejects, or
\* with PERCENT-COMPLETE, COMPLETED, PRIORITY, TRANSP or CLASS on a type their
\* setters refuse. (DUE has no such gate.)
THEOREM ValuesInDomain ==
  ASSUME MaxRevision < MaxInt
  PROVE  Spec => []InDomain
<1> DEFINE Inv == TypeOK /\ Accepted(c)
<1>1. Init => Inv
  BY ConstructedTyped, ConstructedAccepted DEF Init, TypeOK
<1>2. Inv /\ TypeOK' /\ [Next]_c => Inv'
  <2> SUFFICES ASSUME Inv, TypeOK', [Next]_c PROVE Accepted(c')
    OBVIOUS
  <2>1. c \in Components
    BY DEF TypeOK
  <2>2. CASE HelperCall
    BY <2>1, <2>2, HelperAccepted
  <2>3. CASE AlarmCall
    BY <2>1, <2>3, OthersAccepted DEF AlarmCall
  <2>4. CASE RawEdit
    BY <2>1, <2>4, RawEditAccepted
  <2>5. CASE Stamp
    BY <2>1, <2>5, StampAccepted DEF Stamp
  <2>6. CASE UNCHANGED c
    BY <2>6
  <2> QED BY <2>2, <2>3, <2>4, <2>5, <2>6 DEF Next
<1>3. Inv => InDomain
  BY AcceptedInDomain
<1> QED BY <1>1, <1>2, <1>3, TypeCorrect, PTL DEF Spec

-----------------------------------------------------------------------------
(* What a call may change. *)

\* What the schedule of a component depends on.
SameSpan(y, x) ==
  y.type = x.type /\ y.start = x.start /\ y.end = x.end

SameSchedule(y, x) ==
  SameSpan(y, x) /\ y.completed = x.completed /\ y.status = x.status /\ y.due = x.due

SameLines(y, x) == y.sequence = x.sequence /\ y.categories = x.categories

\* A component with another value in one field, stamped.
LEMMA StampedField ==
  ASSUME NEW x \in Components, NEW v
  PROVE  /\ LET y == SetXVSTAR([x EXCEPT !.class = v])
            IN  SameSchedule(y, x) /\ SameLines(y, x)
         /\ LET y == SetXVSTAR([x EXCEPT !.transp = v])
            IN  SameSchedule(y, x) /\ SameLines(y, x)
         /\ LET y == SetXVSTAR([x EXCEPT !.priority = v])
            IN  SameSchedule(y, x) /\ SameLines(y, x)
         /\ LET y == SetXVSTAR([x EXCEPT !.percent = v])
            IN  SameSchedule(y, x) /\ SameLines(y, x)
         /\ LET y == SetXVSTAR([x EXCEPT !.related = v])
            IN  SameSchedule(y, x) /\ SameLines(y, x)
         /\ LET y == SetXVSTAR([x EXCEPT !.sequence = v])
            IN  SameSchedule(y, x) /\ y.sequence = v /\ y.categories = x.categories
         /\ LET y == SetXVSTAR([x EXCEPT !.categories = v])
            IN  SameSchedule(y, x) /\ y.sequence = x.sequence /\ y.categories = v
         /\ LET y == SetXVSTAR([x EXCEPT !.due = v])
            IN  /\ SameSpan(y, x) /\ SameLines(y, x) /\ y.due = v
                /\ y.status = x.status /\ y.completed = x.completed
         /\ LET y == SetXVSTAR([x EXCEPT !.status = v])
            IN  /\ SameSpan(y, x) /\ SameLines(y, x) /\ y.status = v
                /\ y.due = x.due /\ y.completed = x.completed
BY DEF Components, Shape, SetXVSTAR, SameSpan, SameSchedule, SameLines

LEMMA SameAsItself ==
  ASSUME NEW x
  PROVE  SameSpan(x, x) /\ SameSchedule(x, x) /\ SameLines(x, x)
BY DEF SameSpan, SameSchedule, SameLines

LEMMA CompletedFields ==
  ASSUME NEW x \in Components, x.type = "VTODO", NEW t
  PROVE  /\ SameSpan(Complete(x, t), x) /\ SameLines(Complete(x, t), x)
         /\ Complete(x, t).due = x.due
         /\ Complete(x, t).status = "COMPLETED"
         /\ Complete(x, t).completed = TimeProp(t)
BY DEF Components, Shape, SetXVSTAR, Complete, SameSpan, SameLines

\* No helper moves a component to another type or touches DTSTART or DTEND;
\* the other fields the properties below read change only as listed here.
LEMMA HelperEffects ==
  ASSUME c \in Components, HelperCall
  PROVE  /\ SameSpan(c', c)
         /\ \/ c'.sequence = c.sequence
            \/ c'.sequence \in Revisions \cap Nat
            \/ CallIncrementSequence /\ c'.sequence = Successor(Sequence(c))
         /\ \/ SameSchedule(c', c)
            \/ c'.completed = c.completed /\ c'.due = c.due
            \/ c.type = "VTODO" /\ \E t \in Instants : c' = Complete(c, t)
            \/ \E t \in Instants : c' = SetDue(c, t)
<1>1. CASE CallSetStatus \/ CallSetEventStatus \/ CallSetJournalStatus
  <2>1. PICK s \in Words : \/ c' = SetStatus(c, s)
                           \/ c' = SetEventStatus(c, s)
                           \/ c' = SetJournalStatus(c, s)
    BY <1>1 DEF CallSetStatus, CallSetEventStatus, CallSetJournalStatus
  <2>2. c' = c \/ c' = SetXVSTAR([c EXCEPT !.status = s])
    BY <2>1 DEF SetStatus, SetEventStatus, SetJournalStatus
  <2>3. /\ SameSpan(c', c) /\ SameLines(c', c)
        /\ c'.due = c.due /\ c'.completed = c.completed
    <3>1. CASE c' = c
      BY <3>1, SameAsItself
    <3>2. CASE c' = SetXVSTAR([c EXCEPT !.status = s])
      BY <3>2, StampedField
    <3> QED BY <2>2, <3>1, <3>2
  <2> QED BY <2>3 DEF SameLines
<1>2. CASE CallComplete
  <2>1. PICK t \in Instants : c' = Complete(c, t)
    BY <1>2 DEF CallComplete
  <2>2. c' = c \/ c.type = "VTODO"
    BY <2>1 DEF Complete
  <2>3. CASE c' = c
    BY <2>3, SameAsItself DEF SameLines
  <2>4. CASE c.type = "VTODO"
    <3>1. SameSpan(c', c) /\ SameLines(c', c)
      BY <2>1, <2>4, CompletedFields
    <3> QED BY <2>1, <2>4, <3>1 DEF SameLines
  <2> QED BY <2>2, <2>3, <2>4
<1>3. CASE CallSetClass \/ CallSetTransp
  <2>1. PICK v \in Words : c' = SetClass(c, v) \/ c' = SetTransp(c, v)
    BY <1>3 DEF CallSetClass, CallSetTransp
  <2>2. \/ c' = c
        \/ c' = SetXVSTAR([c EXCEPT !.class = v])
        \/ c' = SetXVSTAR([c EXCEPT !.transp = v])
    BY <2>1 DEF SetClass, SetTransp
  <2>3. SameSchedule(c', c) /\ SameLines(c', c)
    BY <2>2, StampedField, SameAsItself
  <2> QED BY <2>3 DEF SameSchedule, SameLines
<1>4. CASE CallSetSequence
  <2>1. PICK n \in Revisions : c' = SetSequence(c, n)
    BY <1>4 DEF CallSetSequence
  <2>2. c' = c \/ (n \in Nat /\ c' = SetXVSTAR([c EXCEPT !.sequence = n]))
    BY <2>1, HelpersAssumption DEF SetSequence
  <2>3. CASE c' = c
    BY <2>3, SameAsItself DEF SameLines
  <2>4. CASE n \in Nat /\ c' = SetXVSTAR([c EXCEPT !.sequence = n])
    <3>1. SameSchedule(c', c) /\ c'.sequence = n /\ c'.categories = c.categories
      BY <2>4, StampedField
    <3> QED BY <2>1, <2>4, <3>1 DEF SameSchedule
  <2> QED BY <2>2, <2>3, <2>4
<1>5. CASE CallSetPriority \/ CallSetPercent
  <2>1. PICK n \in Priorities \cup Percents :
          \/ c' = SetPriority(c, n)
          \/ c' = SetPercentComplete(c, n)
    BY <1>5 DEF CallSetPriority, CallSetPercent
  <2>2. \/ c' = c
        \/ c' = SetXVSTAR([c EXCEPT !.priority = n])
        \/ c' = SetXVSTAR([c EXCEPT !.percent = n])
    BY <2>1 DEF SetPriority, SetPercentComplete
  <2>3. SameSchedule(c', c) /\ SameLines(c', c)
    BY <2>2, StampedField, SameAsItself
  <2> QED BY <2>3 DEF SameSchedule, SameLines
<1>6. CASE CallIncrementSequence
  <2>1. c' = c \/ c' = SetXVSTAR([c EXCEPT !.sequence = Successor(Sequence(c))])
    BY <1>6 DEF CallIncrementSequence, IncrementSequence
  <2>2. CASE c' = c
    BY <2>2, SameAsItself DEF SameLines
  <2>3. CASE c' = SetXVSTAR([c EXCEPT !.sequence = Successor(Sequence(c))])
    <3>1. /\ SameSchedule(c', c) /\ c'.sequence = Successor(Sequence(c))
          /\ c'.categories = c.categories
      BY <2>3, StampedField
    <3> QED BY <1>6, <3>1 DEF SameSchedule
  <2> QED BY <2>1, <2>2, <2>3
<1>7. CASE CallRemovePriority \/ CallRemovePercent
  <2>1. \/ c' = SetXVSTAR([c EXCEPT !.priority = NoValue])
        \/ c' = SetXVSTAR([c EXCEPT !.percent = NoValue])
    BY <1>7 DEF CallRemovePriority, CallRemovePercent, RemovePriority,
                RemovePercentComplete
  <2>3. SameSchedule(c', c) /\ SameLines(c', c)
    BY <2>1, StampedField, SameAsItself
  <2> QED BY <2>3 DEF SameSchedule, SameLines
<1>8. CASE CallSetDue
  <2>1. PICK t \in Instants : c' = SetDue(c, t)
    BY <1>8 DEF CallSetDue
  <2>2. c' = SetXVSTAR([c EXCEPT !.due = TimeProp(t)])
    BY <2>1 DEF SetDue
  <2>3. SameSpan(c', c) /\ SameLines(c', c)
    BY <2>2, StampedField
  <2> QED BY <2>1, <2>3 DEF SameLines
<1>9. CASE CallSetCategories
  <2>1. PICK line \in CategoryLists(c) : c' = SetCategories(c, line)
    BY <1>9 DEF CallSetCategories
  <2> DEFINE lines == IF line = <<>> THEN <<>> ELSE <<line>>
  <2>2. c' = SetXVSTAR([c EXCEPT !.categories = lines])
    BY <2>1 DEF SetCategories
  <2>3. Len(lines) \in 0..1
    OBVIOUS
  <2> HIDE DEF lines
  <2>4. /\ SameSchedule(c', c) /\ c'.sequence = c.sequence
        /\ c'.categories = lines
    BY <2>2, StampedField
  <2> QED BY <2>3, <2>4 DEF SameSchedule
<1>10. CASE CallAddCategory
  <2>1. PICK value \in Seq(Tokens) : c' = AddCategory(c, value)
    BY <1>10, CategoriesAssumption DEF CallAddCategory, AddableTo
  <2> DEFINE lines == <<Categories(c) \o value>>
  <2>2. c' = c \/ c' = SetXVSTAR([c EXCEPT !.categories = lines])
    BY <2>1 DEF AddCategory
  <2>3. Len(lines) \in 0..1
    OBVIOUS
  <2> HIDE DEF lines
  <2>4. CASE c' = c
    BY <2>4, SameAsItself DEF SameLines
  <2>5. CASE c' = SetXVSTAR([c EXCEPT !.categories = lines])
    <3>1. /\ SameSchedule(c', c) /\ c'.sequence = c.sequence
          /\ c'.categories = lines
      BY <2>5, StampedField
    <3> QED BY <2>3, <3>1 DEF SameSchedule
  <2> QED BY <2>2, <2>4, <2>5
<1>11. CASE CallAddRelatedTo
  <2>1. PICK uid \in Uids :
          c' = SetXVSTAR([c EXCEPT !.related = Append(c.related, uid)])
    BY <1>11 DEF CallAddRelatedTo, AddRelatedTo
  <2>3. SameSchedule(c', c) /\ SameLines(c', c)
    BY <2>1, StampedField, SameAsItself
  <2> QED BY <2>3 DEF SameSchedule, SameLines
<1> QED
  BY <1>1, <1>2, <1>3, <1>4, <1>5, <1>6, <1>7, <1>8, <1>9, <1>10, <1>11
  DEF HelperCall

\* Callers' edits, alarms and stamps reach the revision only through
\* WriteRevision, and no field the schedule depends on.
LEMMA OtherEffects ==
  ASSUME c \in Components, AlarmCall \/ RawEdit \/ Stamp \/ UNCHANGED c
  PROVE  /\ SameSchedule(c', c)
         /\ \/ c'.sequence = c.sequence
            \/ c'.sequence \in WireRevisions
<1>1. ASSUME NEW v
      PROVE  /\ SameSchedule([c EXCEPT !.sub = v], c)
             /\ [c EXCEPT !.sub = v].sequence = c.sequence
             /\ [c EXCEPT !.sub = v].categories = c.categories
             /\ SameSchedule([c EXCEPT !.other = v], c)
             /\ [c EXCEPT !.other = v].sequence = c.sequence
             /\ [c EXCEPT !.other = v].categories = c.categories
             /\ SameSchedule([c EXCEPT !.sequence = v], c)
             /\ [c EXCEPT !.sequence = v].sequence = v
             /\ [c EXCEPT !.sequence = v].categories = c.categories
             /\ SameSchedule([c EXCEPT !.categories = v], c)
             /\ [c EXCEPT !.categories = v].sequence = c.sequence
             /\ [c EXCEPT !.categories = v].categories = v
  BY DEF Components, Shape, SameSchedule, SameSpan
<1>2. CASE AlarmCall \/ AttachAlarm \/ EditAlarm
  <2>1. PICK v : c' = [c EXCEPT !.sub = v]
    BY <1>2 DEF AlarmCall, AttachAlarm, EditAlarm
  <2>2. SameSchedule(c', c) /\ c'.sequence = c.sequence
          /\ c'.categories = c.categories
    BY <1>1, <2>1
  <2> QED BY <2>2
<1>3. CASE EditOther
  <2>1. PICK v : c' = [c EXCEPT !.other = v]
    BY <1>3 DEF EditOther
  <2>2. SameSchedule(c', c) /\ c'.sequence = c.sequence
          /\ c'.categories = c.categories
    BY <1>1, <2>1
  <2> QED BY <2>2
<1>4. CASE WriteRevision
  <2>1. PICK n \in WireRevisions : c' = [c EXCEPT !.sequence = n]
    BY <1>4 DEF WriteRevision
  <2>2. SameSchedule(c', c) /\ c'.sequence = n /\ c'.categories = c.categories
    BY <1>1, <2>1
  <2> QED BY <2>2
<1>5. CASE AddCategoriesLine
  <2>1. PICK line : c' = [c EXCEPT !.categories = Append(c.categories, line)]
    BY <1>5 DEF AddCategoriesLine
  <2>2. /\ SameSchedule(c', c) /\ c'.sequence = c.sequence
        /\ c'.categories = Append(c.categories, line)
    BY <1>1, <2>1
  <2> QED BY <1>5, <2>2 DEF AddCategoriesLine
<1>6. CASE Stamp
  <2>1. c \in Shape(Alarms \cup {NoValue}, Contents \cup {NoValue})
    BY DEF Components
  <2>2. c' = SetXVSTAR(c)
    BY <1>6 DEF Stamp
  <2>3. SameSchedule(c', c) /\ SameLines(c', c)
    BY <2>1, <2>2, StampKeeps DEF SameSchedule, SameSpan, SameLines
  <2> QED BY <2>3 DEF SameLines
<1>7. CASE UNCHANGED c
  BY <1>7, SameAsItself
<1> QED BY <1>2, <1>3, <1>4, <1>5, <1>6, <1>7 DEF RawEdit

\* A constructor writes no SEQUENCE and no CATEGORIES.
LEMMA ConstructedFields ==
  ASSUME NEW x \in Constructed
  PROVE  x.sequence = NoValue /\ x.categories = <<>>
<1> DEFINE Plain(y) == y.sequence = NoValue /\ y.categories = <<>>
<1>1. \A type \in CompTypes : Blank(type) \in Components /\ Plain(Blank(type))
  <2>1. \A type \in CompTypes : Plain(Blank(type))
    BY DEF Blank
  <2> QED BY <2>1, BlankTyped DEF Components
<1>2. ASSUME NEW y \in Components, NEW v, Plain(y)
      PROVE  /\ Plain([y EXCEPT !.due = v])
             /\ Plain([y EXCEPT !.start = v])
             /\ Plain([y EXCEPT !.end = v])
  BY <1>2 DEF Components, Shape
<1>3. ASSUME NEW y \in Components, Plain(y)
      PROVE  Plain(SetXVSTAR(y))
  BY <1>3, StampKeeps DEF Components
<1> HIDE DEF Plain
<1>4. CASE x \in {NewTodo(t) : t \in Instants}
  <2>1. PICK t \in Instants :
          x = SetXVSTAR([Blank("VTODO") EXCEPT !.due = TimeProp(t)])
    BY <1>4 DEF NewTodo
  <2>2. Blank("VTODO") \in Components /\ Plain(Blank("VTODO"))
    BY <1>1 DEF CompTypes
  <2>3. [Blank("VTODO") EXCEPT !.due = TimeProp(t)] \in Components
    BY <2>2, TimesTyped DEF Components
  <2>4. Plain(x)
    BY <1>2, <1>3, <2>1, <2>2, <2>3
  <2> QED BY <2>4 DEF Plain
<1>5. CASE x \in {NewJournal(t) : t \in Instants}
  <2>1. PICK t \in Instants :
          x = SetXVSTAR([Blank("VJOURNAL") EXCEPT !.start = TimeProp(t)])
    BY <1>5 DEF NewJournal
  <2>2. Blank("VJOURNAL") \in Components /\ Plain(Blank("VJOURNAL"))
    BY <1>1 DEF CompTypes
  <2>3. [Blank("VJOURNAL") EXCEPT !.start = TimeProp(t)] \in Components
    BY <2>2, SpanTyped DEF Components
  <2>4. Plain(x)
    BY <1>2, <1>3, <2>1, <2>2, <2>3
  <2> QED BY <2>4 DEF Plain
<1>6. CASE x \in {NewSpan(type, t, u) : type \in {"VEVENT", "VFREEBUSY"},
                                       t \in Instants, u \in Instants}
  <2>1. PICK type \in {"VEVENT", "VFREEBUSY"}, t \in Instants, u \in Instants :
          x = NewSpan(type, t, u)
    BY <1>6
  <2> DEFINE a == [Blank(type) EXCEPT !.start = TimeProp(t)]
             b == [a EXCEPT !.end = TimeProp(u)]
  <2>2. Blank(type) \in Components /\ Plain(Blank(type))
    BY <1>1 DEF CompTypes
  <2>3. a \in Components /\ Plain(a)
    BY <1>2, <2>2, SpanTyped DEF Components
  <2>4. x = SetXVSTAR(b)
    BY <2>1 DEF NewSpan
  <2> HIDE DEF a
  <2>5. b \in Components /\ Plain(b)
    BY <1>2, <2>3, SpanTyped DEF Components
  <2>6. Plain(x)
    BY <1>3, <2>4, <2>5
  <2> QED BY <2>6 DEF Plain
<1>7. CASE x = NewAlarm
  <2>1. "VALARM" \in CompTypes
    BY DEF CompTypes
  <2>2. Plain(x)
    BY <1>1, <1>3, <1>7, <2>1 DEF NewAlarm
  <2> QED BY <2>2 DEF Plain
<1> QED BY <1>4, <1>5, <1>6, <1>7 DEF Constructed

-----------------------------------------------------------------------------
(* Revisions. *)

\* An increment moves the revision strictly forward, for every int the revision
\* can be short of the largest one.
THEOREM RevisionsAdvance ==
  ASSUME MaxRevision < MaxInt, WireRevisions \subseteq 0..MaxInt
  PROVE  Spec => RevisionAdvances
<1> DEFINE Inv == c.sequence \in (0..MaxInt) \cup {NoValue}
<1>1. Init => Inv
  BY ConstructedFields DEF Init
<1>2. TypeOK /\ Inv /\ [Next]_c => Inv'
  <2> SUFFICES ASSUME TypeOK, Inv, [Next]_c PROVE Inv'
    OBVIOUS
  <2>1. c \in Components
    BY DEF TypeOK
  <2>2. CASE HelperCall
    <3>1. CASE c'.sequence = c.sequence
      BY <3>1
    <3>2. CASE c'.sequence \in Revisions \cap Nat
      BY <3>2, HelpersAssumption
    <3>3. CASE CallIncrementSequence /\ c'.sequence = Successor(Sequence(c))
      <4>1. Sequence(c) \in 0..MaxInt /\ Sequence(c) <= MaxRevision
        BY <2>1, <3>3, SuccessorTyped DEF CallIncrementSequence
      <4>2. c'.sequence = Sequence(c) + 1
        BY <2>1, <3>3, <4>1, RevisionSucceeds
      <4> QED BY <4>1, <4>2, HelpersAssumption
    <3> QED BY <2>1, <2>2, <3>1, <3>2, <3>3, HelperEffects
  <2>3. CASE AlarmCall \/ RawEdit \/ Stamp \/ UNCHANGED c
    <3>1. c'.sequence = c.sequence \/ c'.sequence \in WireRevisions
      BY <2>1, <2>3, OtherEffects
    <3> QED BY <3>1
  <2> QED BY <2>2, <2>3 DEF Next
<1>3. TypeOK /\ Inv
        => [CallIncrementSequence /\ CarriesSequence(c) => Revision(c') > Revision(c)]_c
  <2> SUFFICES ASSUME c \in Components, Inv, CallIncrementSequence, CarriesSequence(c)
               PROVE  Revision(c') > Revision(c)
    BY DEF TypeOK
  <2>1. Sequence(c) = Revision(c) /\ Sequence(c) \in 0..MaxInt
    BY SuccessorTyped DEF Sequence, Revision
  <2>2. c' = SetXVSTAR([c EXCEPT !.sequence = Sequence(c) + 1])
    BY RevisionSucceeds DEF CallIncrementSequence, IncrementSequence
  <2>3. c'.sequence = Sequence(c) + 1
    BY <2>2, StampedField
  <2>4. Sequence(c) + 1 # NoValue
    BY <2>1, HelpersAssumption
  <2> QED BY <2>1, <2>3, <2>4 DEF Revision
<1> QED BY <1>1, <1>2, <1>3, TypeCorrect, PTL DEF Spec, RevisionAdvances

-----------------------------------------------------------------------------
(* Schedules. *)

\* The diagnostics follow from the fields SameSchedule compares.
LEMMA ScheduleFollows ==
  ASSUME NEW x, NEW y, SameSchedule(y, x)
  PROVE  ScheduleDiagnostics(y) = ScheduleDiagnostics(x)
BY DEF SameSchedule, SameSpan, ScheduleDiagnostics

\* For every type but VTODO they follow from type, DTSTART and DTEND.
LEMMA SpanSchedule ==
  ASSUME NEW x, NEW y, SameSpan(y, x), x.type # "VTODO"
  PROVE  ScheduleDiagnostics(y) = ScheduleDiagnostics(x)
BY DEF SameSpan, ScheduleDiagnostics

LEMMA TodoSchedule ==
  ASSUME NEW x, x.type = "VTODO"
  PROVE  ScheduleDiagnostics(x) = {}
           <=> x.due # NoValue \/ (x.status = "COMPLETED" /\ x.completed # NoValue)
BY DEF ScheduleDiagnostics

\* A component becomes unscheduled only by the three calls that say so.
THEOREM SchedulesLostOnPurpose == Spec => UnscheduledOnPurpose
<1>1. TypeOK /\ [Next]_c =>
        [ScheduleDiagnostics(c') # {} /\ ScheduleDiagnostics(c) = {} =>
           \/ c' = SetDue(c, ZeroTime)
           \/ c.due = NoValue /\ c' = Complete(c, ZeroTime)
           \/ c.due = NoValue /\ c'.status # "COMPLETED"]_c
  <2> SUFFICES ASSUME TypeOK, [Next]_c,
                      ScheduleDiagnostics(c') # {}, ScheduleDiagnostics(c) = {}
               PROVE  \/ c' = SetDue(c, ZeroTime)
                      \/ c.due = NoValue /\ c' = Complete(c, ZeroTime)
                      \/ c.due = NoValue /\ c'.status # "COMPLETED"
    OBVIOUS
  <2>1. c \in Components
    BY DEF TypeOK
  <2>2. HelperCall
    BY <2>1, OtherEffects, ScheduleFollows DEF Next
  <2>3. SameSpan(c', c)
    BY <2>1, <2>2, HelperEffects
  <2>4. c.type = "VTODO" /\ c'.type = "VTODO"
    BY <2>3, SpanSchedule DEF SameSpan
  <2>5. c.due # NoValue \/ (c.status = "COMPLETED" /\ c.completed # NoValue)
    BY <2>4, TodoSchedule
  <2>6. c'.due = NoValue /\ ~(c'.status = "COMPLETED" /\ c'.completed # NoValue)
    BY <2>4, TodoSchedule
  <2>7. \A t \in Instants : TimeProp(t) = NoValue => t = ZeroTime
    BY HelpersAssumption DEF TimeProp
  <2>8. CASE SameSchedule(c', c)
    BY <2>8, ScheduleFollows
  <2>9. CASE c'.completed = c.completed /\ c'.due = c.due
    BY <2>5, <2>6, <2>9
  <2>10. CASE \E t \in Instants : c' = Complete(c, t)
    <3>1. PICK t \in Instants : c' = Complete(c, t)
      BY <2>10
    <3>2. /\ c'.due = c.due /\ c'.status = "COMPLETED"
          /\ c'.completed = TimeProp(t)
      BY <2>1, <2>4, <3>1, CompletedFields
    <3> QED BY <2>6, <2>7, <3>1, <3>2
  <2>11. CASE \E t \in Instants : c' = SetDue(c, t)
    <3>1. PICK t \in Instants : c' = SetDue(c, t)
      BY <2>11
    <3>2. c' = SetXVSTAR([c EXCEPT !.due = TimeProp(t)])
      BY <3>1 DEF SetDue
    <3>3. c'.due = TimeProp(t)
      BY <2>1, <3>2, StampedField
    <3> QED BY <2>6, <2>7, <3>1, <3>3
  <2> QED BY <2>1, <2>2, <2>8, <2>9, <2>10, <2>11, HelperEffects
<1> QED BY <1>1, TypeCorrect, PTL DEF Spec, UnscheduledOnPurpose

-----------------------------------------------------------------------------
(* Nested alarms. *)

LEMMA AlarmsAreComponents == Alarms \subseteq Components
<1>1. {NoValue} \subseteq Alarms \cup {NoValue}
  OBVIOUS
<1>2. AlarmContents \subseteq Contents
  <2>1. {NoValue} \subseteq AlarmContents \cup {NoValue}
    OBVIOUS
  <2> QED BY <2>1, ShapeGrows DEF AlarmContents, Contents
<1>3. AlarmContents \cup {NoValue} \subseteq Contents \cup {NoValue}
  BY <1>2
<1> QED BY <1>1, <1>3, ShapeGrows DEF Alarms, Components

\* What the stored hash of a component with an alarm stands for: its own
\* properties and those of the alarm, neither with a hash.
LEMMA ContentOfParent ==
  ASSUME NEW x \in Components, x.sub # NoValue
  PROVE  Content(x) = [Bare(x) EXCEPT !.sub = Bare(x.sub)]
           /\ Content(x).sub = Bare(x.sub)
<1>1. Content(x) = [Bare(x) EXCEPT !.sub = Bare(Bare(x).sub)]
  BY DEF Content
<1>2. /\ Bare(x) \in Shape(Alarms \cup {NoValue}, {NoValue})
      /\ Bare(x).sub = x.sub
  BY BareTyped DEF Components
<1>3. Content(x) = [Bare(x) EXCEPT !.sub = Bare(x.sub)]
  BY <1>1, <1>2
<1>4. [Bare(x) EXCEPT !.sub = Bare(x.sub)].sub = Bare(x.sub)
  BY <1>2 DEF Shape
<1> QED BY <1>3, <1>4

\* With another alarm and the same hash, it verifies exactly when the alarm's
\* own content is the same.
LEMMA ReplacedAlarm ==
  ASSUME NEW x \in Components, x.sub # NoValue, VerifyXVSTAR(x),
         NEW a \in Alarms
  PROVE  LET y == [x EXCEPT !.sub = a]
         IN  y.sub = a /\ (VerifyXVSTAR(y) <=> Bare(a) = Bare(x.sub))
<1> DEFINE y == [x EXCEPT !.sub = a]
<1>1. y \in Components /\ y.sub = a /\ y.hash = x.hash
  <2>1. y \in Components
    BY SubTyped DEF Components
  <2>2. y.sub = a /\ y.hash = x.hash
    BY DEF Components, Shape
  <2> QED BY <2>1, <2>2
<1>2. [Bare(y) EXCEPT !.sub = Bare(a)] = [Bare(x) EXCEPT !.sub = Bare(a)]
  BY DEF Bare, Components, Shape
<1> HIDE DEF y
<1>3. a # NoValue
  BY AlarmsAreComponents, ShapeAssumption
<1>4. Content(y) = [Bare(x) EXCEPT !.sub = Bare(a)] /\ Content(y).sub = Bare(a)
  BY <1>1, <1>2, <1>3, ContentOfParent
<1>5. /\ Content(x) = [Bare(x) EXCEPT !.sub = Bare(x.sub)]
      /\ Content(x).sub = Bare(x.sub)
  BY ContentOfParent
<1>6. x.hash = Content(x) /\ x.hash # NoValue
  BY DEF VerifyXVSTAR
<1>7. VerifyXVSTAR(y) <=> Content(x) = Content(y)
  BY <1>1, <1>6 DEF VerifyXVSTAR
<1>8. Content(x) = Content(y) <=> Bare(a) = Bare(x.sub)
  BY <1>4, <1>5
<1>9. y.sub = a /\ (VerifyXVSTAR(y) <=> Bare(a) = Bare(x.sub))
  BY <1>1, <1>7, <1>8
<1> QED BY <1>9 DEF y

\* A helper called on a nested alarm makes the parent's hash stale when it
\* changes a property of the alarm, and only then.
THEOREM AlarmChangesShow == Spec => AlarmChangeShowsInParent
<1>1. TypeOK =>
        [AlarmCall /\ VerifyXVSTAR(c) =>
           (VerifyXVSTAR(c') <=> Bare(c'.sub) = Bare(c.sub))]_c
  <2> SUFFICES ASSUME c \in Components, AlarmCall, VerifyXVSTAR(c)
               PROVE  VerifyXVSTAR(c') <=> Bare(c'.sub) = Bare(c.sub)
    BY DEF TypeOK
  <2>1. c.sub # NoValue /\ c.sub \in Alarms
    BY SubKept DEF AlarmCall, Components
  <2>2. PICK a \in AlarmCalls(c.sub) : c' = [c EXCEPT !.sub = a]
    BY DEF AlarmCall
  <2>3. a \in Alarms
    BY <2>1, AlarmResult
  <2> QED BY <2>1, <2>2, <2>3, ReplacedAlarm
<1> QED BY <1>1, TypeCorrect, PTL DEF Spec, AlarmChangeShowsInParent

-----------------------------------------------------------------------------
(* Categories. *)

LEMMA LabelsOfOne ==
  ASSUME NEW token \in Tokens
  PROVE  LabelsOf(<<token>>) = LabelOf(token)
<1> DEFINE none == <<>>
<1>1. none \in Seq(Tokens) /\ Append(none, token) = <<token>>
  OBVIOUS
<1>2. LabelOf(token) \in Seq(PlainTokens)
  BY LabelOfTyped
<1>3. none \o LabelOf(token) = LabelOf(token)
  BY <1>2
<1>4. LabelsOf(none) = none
  BY LabelsOfAppend
<1> HIDE DEF none
<1> QED BY <1>1, <1>3, <1>4, LabelsOfAppend

\* The labels of a line joined from two are those of the first, then those of
\* the second.
LEMMA LabelsOfJoined ==
  ASSUME NEW s \in Seq(Tokens), NEW t \in Seq(Tokens)
  PROVE  LabelsOf(s \o t) = LabelsOf(s) \o LabelsOf(t)
<1> DEFINE T == {n \in Nat : \A u \in Seq(Tokens) :
                   Len(u) = n => LabelsOf(s \o u) = LabelsOf(s) \o LabelsOf(u)}
<1>1. 0 \in T
  <2> SUFFICES ASSUME NEW u \in Seq(Tokens), Len(u) = 0
               PROVE  LabelsOf(s \o u) = LabelsOf(s) \o LabelsOf(u)
    OBVIOUS
  <2>1. u = <<>> /\ s \o u = s
    OBVIOUS
  <2>2. LabelsOf(s) \in Seq(PlainTokens) /\ LabelsOf(u) = <<>>
    BY <2>1, LabelsOfAppend
  <2> QED BY <2>1, <2>2
<1>2. ASSUME NEW n \in Nat, n \in T PROVE n + 1 \in T
  <2> SUFFICES ASSUME NEW u \in Seq(Tokens), Len(u) = n + 1
               PROVE  LabelsOf(s \o u) = LabelsOf(s) \o LabelsOf(u)
    OBVIOUS
  <2> DEFINE v == SubSeq(u, 1, n)
             token == u[n + 1]
  <2>1. v \in Seq(Tokens) /\ Len(v) = n /\ token \in Tokens /\ u = Append(v, token)
    OBVIOUS
  <2>2. LabelsOf(s \o v) = LabelsOf(s) \o LabelsOf(v)
    BY <1>2, <2>1
  <2> HIDE DEF v, token, T
  <2>3. s \o v \in Seq(Tokens) /\ s \o Append(v, token) = Append(s \o v, token)
    BY <2>1
  <2>4. LabelsOf(s \o u) = LabelsOf(s \o v) \o LabelOf(token)
    BY <2>1, <2>3, LabelsOfAppend
  <2>5. LabelsOf(u) = LabelsOf(v) \o LabelOf(token)
    BY <2>1, LabelsOfAppend
  <2>6. /\ LabelsOf(s) \in Seq(PlainTokens) /\ LabelsOf(v) \in Seq(PlainTokens)
        /\ LabelOf(token) \in Seq(PlainTokens)
    BY <2>1, LabelsOfAppend, LabelOfTyped
  <2>7. \A p, q, r \in Seq(PlainTokens) : (p \o q) \o r = p \o (q \o r)
    OBVIOUS
  <2> QED BY <2>2, <2>4, <2>5, <2>6, <2>7
<1> HIDE DEF T
<1>3. Nat \subseteq T
  BY <1>1, <1>2, SetInduction
<1>4. Len(t) \in T
  BY <1>3
<1> QED BY <1>4 DEF T

\* Labels are read back as they are.
LEMMA PlainLabelsKept ==
  ASSUME NEW t \in Seq(PlainTokens)
  PROVE  LabelsOf(t) = t
<1> DEFINE T == {n \in Nat : \A u \in Seq(PlainTokens) : Len(u) = n => LabelsOf(u) = u}
<1>1. 0 \in T
  <2> SUFFICES ASSUME NEW u \in Seq(PlainTokens), Len(u) = 0 PROVE LabelsOf(u) = u
    OBVIOUS
  <2>1. u = <<>>
    OBVIOUS
  <2> QED BY <2>1, LabelsOfAppend
<1>2. ASSUME NEW n \in Nat, n \in T PROVE n + 1 \in T
  <2> SUFFICES ASSUME NEW u \in Seq(PlainTokens), Len(u) = n + 1
               PROVE  LabelsOf(u) = u
    OBVIOUS
  <2> DEFINE v == SubSeq(u, 1, n)
             token == u[n + 1]
  <2>1. v \in Seq(PlainTokens) /\ Len(v) = n /\ token \in PlainTokens
        /\ u = Append(v, token)
    OBVIOUS
  <2>2. LabelsOf(v) = v
    BY <1>2, <2>1
  <2> HIDE DEF v, token, T
  <2>3. v \in Seq(Tokens) /\ token \in Tokens
    <3>1. PlainTokens \subseteq Tokens
      BY DEF PlainTokens
    <3> QED BY <2>1, <3>1
  <2>4. LabelOf(token) = <<token>>
    BY <2>1, <2>3, LabelOfTyped
  <2>5. LabelsOf(u) = v \o <<token>>
    BY <2>1, <2>2, <2>3, <2>4, LabelsOfAppend
  <2>6. v \o <<token>> = Append(v, token)
    BY <2>1
  <2> QED BY <2>1, <2>5, <2>6
<1> HIDE DEF T
<1>3. Nat \subseteq T
  BY <1>1, <1>2, SetInduction
<1>4. Len(t) \in T
  BY <1>3
<1> QED BY <1>4 DEF T

\* A category added to any component, whatever its CATEGORIES lines.
LEMMA CategoryAdded ==
  ASSUME NEW x \in Components, NEW value \in Seq(Tokens)
  PROVE  LET once == AddCategory(x, value) IN
         /\ IsPrefix(Categories(x), Categories(once))
         /\ TokensOf(LabelsOf(value)) \subseteq TokensOf(Categories(once))
         /\ PlainLabel(value) => AddCategory(once, value) = once
<1> DEFINE had == Categories(x)
           once == AddCategory(x, value)
<1>1. had \in Seq(PlainTokens) /\ had \in Seq(Tokens)
  BY CategoriesTyped DEF Components
<1>2. IsPrefix(had, had)
  BY <1>1, PrefixIs
<1>3. CASE value = NoCategory
  <2> DEFINE nothing == [label |-> "", padded |-> FALSE]
  <2>1. once = x
    BY <1>3 DEF AddCategory
  <2>2. nothing \in Tokens /\ nothing.label = ""
    BY DEF Tokens
  <2> HIDE DEF nothing
  <2>3. value = <<nothing>>
    BY <1>3 DEF NoCategory, nothing
  <2>4. LabelsOf(value) = <<>>
    BY <2>2, <2>3, LabelsOfOne DEF LabelOf
  <2>5. TokensOf(LabelsOf(value)) = {}
    BY <2>4 DEF TokensOf
  <2> QED BY <1>2, <2>1, <2>5
<1>4. CASE Listed(x, value)
  <2>1. once = x
    BY <1>4 DEF AddCategory
  <2>2. PICK token \in TokensOf(had) : value = <<token>>
    BY <1>4 DEF Listed
  <2>3. token \in PlainTokens
    BY <1>1, <2>2 DEF TokensOf
  <2>4. LabelsOf(value) = value
    <3>1. <<token>> \in Seq(PlainTokens)
      BY <2>3
    <3> QED BY <2>2, <3>1, PlainLabelsKept
  <2>5. TokensOf(LabelsOf(value)) = {token}
    <3>1. DOMAIN value = {1} /\ value[1] = token
      BY <2>2
    <3> QED BY <2>4, <3>1 DEF TokensOf
  <2> QED BY <1>2, <2>1, <2>2, <2>5
<1>5. CASE value # NoCategory /\ ~Listed(x, value)
  <2> DEFINE line == had \o value
  <2>1. once = SetXVSTAR([x EXCEPT !.categories = <<line>>])
    BY <1>5 DEF AddCategory
  <2>2. line \in Seq(Tokens)
    BY <1>1
  <2>3. LabelsOf(line) = had \o LabelsOf(value)
    BY <1>1, LabelsOfJoined, PlainLabelsKept
  <2>4. LabelsOf(value) \in Seq(PlainTokens)
    BY LabelsOfAppend
  <2> HIDE DEF line, once, had
  <2>5. once.categories = <<line>>
    BY <2>1, StampedField
  <2>6. Categories(once) = had \o LabelsOf(value)
    <3>1. once.categories # <<>> /\ once.categories[1] = line
      BY <2>5
    <3> QED BY <2>3, <3>1 DEF Categories
  <2>7. IsPrefix(had, Categories(once))
    BY <1>1, <2>4, <2>6, PrefixConcat
  <2>8. TokensOf(LabelsOf(value)) \subseteq TokensOf(Categories(once))
    <3> DEFINE labels == LabelsOf(value)
    <3>1. \A k \in DOMAIN labels :
            Len(had) + k \in DOMAIN (had \o labels) /\ (had \o labels)[Len(had) + k] = labels[k]
      BY <1>1, <2>4
    <3> HIDE DEF labels
    <3> QED BY <2>6, <3>1 DEF TokensOf, labels
  <2>9. ASSUME PlainLabel(value) PROVE AddCategory(once, value) = once
    <3>1. Len(value) = 1 /\ LabelsOf(value) = value
      BY <2>9 DEF PlainLabel
    <3>2. value = <<value[1]>> /\ 1 \in DOMAIN value
      BY <3>1
    <3>3. value[1] \in TokensOf(Categories(once))
      BY <2>8, <3>1, <3>2 DEF TokensOf
    <3>4. Listed(once, value)
      BY <3>2, <3>3 DEF Listed
    <3> QED BY <3>4 DEF AddCategory
  <2> QED BY <2>7, <2>8, <2>9 DEF had, once
<1> QED BY <1>3, <1>4, <1>5

\* AddCategory appends to what Categories lists, on any component and for any
\* value, and a label given without space around it is added once.
THEOREM AddedCategoriesListed == Spec => []CategoriesAccumulate
<1>1. TypeOK => CategoriesAccumulate
  BY CategoryAdded, CategoriesAssumption DEF TypeOK, CategoriesAccumulate
<1> QED BY <1>1, TypeCorrect, PTL
=============================================================================
