-------------------------- MODULE WireRoundTrip_proofs --------------------------
(***************************************************************************)
(* A document is read as it was meant.                                     *)
(*                                                                         *)
(* Three arguments meet here.  What a codec makes of one property, its     *)
(* parser undoes: escapes, names and parameters, quotes.  The scanner      *)
(* unfolds every input, of any length and over any reader: what it         *)
(* returned and what it holds back are the logical lines of what it read.  *)
(* And the physical lines an encoder writes unfold to its content lines.   *)
(***************************************************************************)
EXTENDS WireRoundTrip, SequenceLemmas, FiniteSetTheorems

\* The provers do not know a character written out to be a STRING.
Alphabet == STRING \cup {"\\", "n", ",", ";", ":", "=", DQ, LF, CR, SP}

Words == Seq(Alphabet)

LEMMA Marks ==
  /\ {"\\", "n", ",", ";", ":", "=", DQ, LF, CR, SP} \subseteq Alphabet
  /\ STRING \subseteq Alphabet
BY DEF Alphabet

LEMMA ShortWords ==
  /\ <<>> \in Words
  /\ \A x \in Alphabet : <<x>> \in Words
  /\ \A x, y \in Alphabet : <<x, y>> \in Words
<1>1. \A S : <<>> \in Seq(S)
  OBVIOUS
<1>2. ASSUME NEW S, NEW x \in S, NEW y \in S
      PROVE  <<x>> \in Seq(S) /\ <<x, y>> \in Seq(S)
  OBVIOUS
<1> QED BY <1>1, <1>2 DEF Words

-----------------------------------------------------------------------------
(* TEXT values. *)

\* The octets of a text that are kept: the calendar's encoder drops CR.
KeptOctet(codec, octet) == IF codec = "ical" /\ octet = CR THEN <<>> ELSE <<octet>>

KeptText(codec, text) == IF codec = "ical" THEN Without(text, CR) ELSE text

LEMMA OneOrTwo ==
  ASSUME NEW S, NEW x \in S, NEW y \in S
  PROVE  /\ <<>> \in Seq(S) /\ <<x>> \in Seq(S) /\ <<x, y>> \in Seq(S)
         /\ Len(<<>>) = 0 /\ Len(<<x>>) = 1 /\ Len(<<x, y>>) = 2
         /\ <<x>>[1] = x /\ <<x, y>>[1] = x /\ <<x, y>>[2] = y
         /\ \A s \in Seq(S) : s \o <<>> = s /\ <<>> \o s = s /\ s \o <<x>> = Append(s, x)
OBVIOUS

LEMMA KeptIsText ==
  ASSUME NEW codec \in {"ical", "vcard"}, NEW text \in Words
  PROVE  LET q == [i \in DOMAIN text |-> KeptOctet(codec, text[i])]
         IN  /\ q \in Seq(Words) /\ Len(q) = Len(text)
             /\ KeptText(codec, text) = FlattenSeq(q)
             /\ KeptText(codec, text) \in Words
<1> DEFINE n == Len(text)
           q == [i \in DOMAIN text |-> KeptOctet(codec, text[i])]
<1>1. n \in Nat /\ DOMAIN text = 1..n /\ \A i \in 1..n : text[i] \in Alphabet
  BY LenProperties, ElementOfSeq DEF Words
<1>2. \A i \in 1..n : q[i] = KeptOctet(codec, text[i])
  BY <1>1
<1>3. \A i \in 1..n : q[i] \in Seq(Alphabet)
  <2> TAKE i \in 1..n
  <2>1. text[i] \in Alphabet
    BY <1>1
  <2> QED BY <1>2, <2>1, OneOrTwo DEF KeptOctet
<1>4. q = [i \in 1..n |-> q[i]]
  BY <1>1
<1> HIDE DEF q
<1>5. q \in Seq(Seq(Alphabet)) /\ Len(q) = n
  BY <1>1, <1>3, <1>4, PiecesOf
<1>6. KeptText(codec, text) = FlattenSeq(q)
  <2>1. CASE codec = "ical"
    <3>1. q = [i \in DOMAIN text |-> IF text[i] = CR THEN <<>> ELSE <<text[i]>>]
      BY <2>1 DEF q, KeptOctet
    <3> QED BY <2>1, <3>1 DEF KeptText, Without
  <2>2. CASE codec = "vcard"
    <3> DEFINE F(j) == FlattenSeq(SubSeq(q, 1, j))
               T == {j \in Nat : j <= n => F(j) = SubSeq(text, 1, j)}
    <3>1. F(0) = <<>> /\ F(n) = FlattenSeq(q)
          /\ \A j \in 0..n : j # n => F(j + 1) = F(j) \o q[j + 1]
      BY <1>5, FlattenUpTo
    <3> HIDE DEF F
    <3>2. 0 \in T
      <4>1. SubSeq(text, 1, 0) \in Seq(Alphabet) /\ Len(SubSeq(text, 1, 0)) = 0
        BY <1>1, CutInTwo DEF Words
      <4>2. SubSeq(text, 1, 0) = <<>>
        BY <4>1, EmptySeq
      <4> QED BY <3>1, <4>2
    <3>3. ASSUME NEW j \in Nat, j \in T PROVE j + 1 \in T
      <4> SUFFICES ASSUME j + 1 <= n PROVE F(j + 1) = SubSeq(text, 1, j + 1)
        OBVIOUS
      <4>1. j \in 0..n /\ j # n /\ j + 1 \in 1..n
        <5> HIDE DEF n
        <5> QED BY <1>1
      <4>2. F(j) = SubSeq(text, 1, j)
        BY <3>3, <4>1
      <4>3. SubSeq(text, 1, j) \in Seq(Alphabet)
            /\ SubSeq(text, 1, j + 1) = Append(SubSeq(text, 1, j), text[j + 1])
        BY <4>1, CutInTwo, CutFurther DEF Words
      <4>4. q[j + 1] = <<text[j + 1]>>
        BY <1>2, <2>2, <4>1 DEF KeptOctet
      <4>5. \A s \in Seq(Alphabet), x \in Alphabet : s \o <<x>> = Append(s, x)
        OBVIOUS
      <4>6. text[j + 1] \in Alphabet
        BY <1>1, <4>1
      <4> QED BY <3>1, <4>1, <4>2, <4>3, <4>4, <4>5, <4>6
    <3>4. Nat \subseteq T
      <4> HIDE DEF T
      <4> QED BY <3>2, <3>3, SetInduction
    <3>5. SubSeq(text, 1, n) = text
      BY <1>1 DEF Words
    <3>6. F(n) = SubSeq(text, 1, n)
      <4>1. n \in T /\ n <= n
        <5> HIDE DEF T
        <5> QED BY <1>1, <3>4
      <4> HIDE DEF F
      <4> QED BY <4>1
    <3>7. KeptText(codec, text) = text
      BY <2>2 DEF KeptText
    <3> HIDE DEF F
    <3> QED BY <3>1, <3>5, <3>6, <3>7
  <2> QED BY <2>1, <2>2
<1>7. FlattenSeq(q) \in Words
  BY <1>5, FlattenAppend DEF Words
<1> QED BY <1>5, <1>6, <1>7 DEF Words, q

\* What unescapeText has read of a text, position by position.
Unescapes(f, codec, text) ==
  f = [i \in 0..Len(text) |->
        IF i = 0
        THEN [text |-> <<>>, escape |-> FALSE]
        ELSE IF f[i - 1].escape
        THEN [text |-> f[i - 1].text \o Unescaped(codec, text[i]), escape |-> FALSE]
        ELSE IF text[i] = "\\"
        THEN [text |-> f[i - 1].text, escape |-> TRUE]
        ELSE [text |-> Append(f[i - 1].text, text[i]), escape |-> FALSE]]

\* The state between two octets.
UnescapeState == [text : Words, escape : BOOLEAN]

UnescapeStep(codec, read, octet) ==
  IF read.escape
  THEN [text |-> read.text \o Unescaped(codec, octet), escape |-> FALSE]
  ELSE IF octet = "\\"
  THEN [text |-> read.text, escape |-> TRUE]
  ELSE [text |-> Append(read.text, octet), escape |-> FALSE]

LEMMA UnescapeStepTyped ==
  ASSUME NEW codec \in {"ical", "vcard"}, NEW read \in UnescapeState, NEW octet \in Alphabet
  PROVE  UnescapeStep(codec, read, octet) \in UnescapeState
<1>1. read.text \in Seq(Alphabet)
  BY DEF UnescapeState, Words
<1>2. Unescaped(codec, octet) \in Seq(Alphabet)
  <2>1. LF \in Alphabet /\ "\\" \in Alphabet
    BY Marks
  <2>2. \A x, y \in Alphabet : <<x>> \in Seq(Alphabet) /\ <<x, y>> \in Seq(Alphabet)
    OBVIOUS
  <2>3. Unescaped(codec, octet) \in {<<LF>>, <<octet>>, <<"\\", octet>>}
    BY DEF Unescaped
  <2> QED BY <2>1, <2>2, <2>3
<1>3. /\ read.text \o Unescaped(codec, octet) \in Words
      /\ Append(read.text, octet) \in Words
  <2>1. \A s, t \in Seq(Alphabet) : s \o t \in Seq(Alphabet)
    OBVIOUS
  <2> QED BY <1>1, <1>2, <2>1, AppendProperties DEF Words
<1> QED BY <1>1, <1>3 DEF UnescapeStep, UnescapeState, Words

LEMMA UnescapeReads ==
  ASSUME NEW codec \in {"ical", "vcard"}, NEW text \in Words
  PROVE  \E f : /\ f[0] = [text |-> <<>>, escape |-> FALSE]
                /\ \A i \in 1..Len(text) : f[i] = UnescapeStep(codec, f[i - 1], text[i])
                /\ UnescapeText(codec, text) =
                     IF f[Len(text)].escape THEN Append(f[Len(text)].text, "\\")
                     ELSE f[Len(text)].text
<1> DEFINE n == Len(text)
           V == UnescapeState
           base == [text |-> <<>>, escape |-> FALSE]
           step == [i \in 1..n |-> [v \in V |-> UnescapeStep(codec, v, text[i])]]
<1>1. n \in Nat /\ \A i \in 1..n : text[i] \in Alphabet
  BY LenProperties, ElementOfSeq DEF Words
<1>2. base \in V
  <2>1. <<>> \in Words
    BY DEF Words
  <2> QED BY <2>1 DEF UnescapeState
<1>3. step \in [1..n -> [V -> V]]
  <2>1. \A i \in 1..n : \A v \in V : UnescapeStep(codec, v, text[i]) \in V
    BY <1>1, UnescapeStepTyped
  <2> HIDE DEF V
  <2> QED BY <2>1
<1>4. PICK g \in [0..n -> V] : g[0] = base /\ \A i \in 1..n : g[i] = step[i][g[i - 1]]
  <2> HIDE DEF n, V, base, step
  <2> QED BY <1>1, <1>2, <1>3, RecursionExists
<1>5. g[0] = base /\ DOMAIN g = 0..n /\ \A i \in 1..n : g[i] = step[i][g[i - 1]]
  <2> HIDE DEF V, base, step
  <2> QED BY <1>4
<1>6. \A i \in 0..n : g[i] \in V
  <2> HIDE DEF V, base, step
  <2> QED BY <1>4
<1>7. Unescapes(g, codec, text)
  <2>1. \A i \in 1..n : g[i] = UnescapeStep(codec, g[i - 1], text[i])
    <3> TAKE i \in 1..n
    <3>1. i - 1 \in 0..n
      BY <1>1
    <3>2. g[i - 1] \in V
      BY <1>6, <3>1
    <3> HIDE DEF V
    <3> QED BY <1>5, <3>2
  <2> DEFINE rhs == [i \in 0..n |->
                IF i = 0
                THEN [text |-> <<>>, escape |-> FALSE]
                ELSE IF g[i - 1].escape
                THEN [text |-> g[i - 1].text \o Unescaped(codec, text[i]), escape |-> FALSE]
                ELSE IF text[i] = "\\"
                THEN [text |-> g[i - 1].text, escape |-> TRUE]
                ELSE [text |-> Append(g[i - 1].text, text[i]), escape |-> FALSE]]
  <2>2. \A i \in 0..n : g[i] = rhs[i]
    <3> TAKE i \in 0..n
    <3>1. CASE i = 0
      BY <1>5, <3>1
    <3>2. CASE i # 0
      <4>1. i \in 1..n
        BY <3>2
      <4> QED BY <2>1, <3>2, <4>1 DEF UnescapeStep
    <3> QED BY <3>1, <3>2
  <2>3. g = [i \in 0..n |-> g[i]]
    <3> HIDE DEF base, step, V
    <3> QED BY <1>4
  <2>4. g = rhs
    <3>1. rhs = [i \in 0..n |-> rhs[i]]
      OBVIOUS
    <3> HIDE DEF rhs
    <3> QED BY <2>2, <2>3, <3>1
  <2> QED BY <2>4 DEF Unescapes
<1> DEFINE f == CHOOSE h : Unescapes(h, codec, text)
<1>8. Unescapes(f, codec, text)
  BY <1>7
<1>9. UnescapeText(codec, text) =
        IF f[n].escape THEN Append(f[n].text, "\\") ELSE f[n].text
  BY DEF UnescapeText, Unescapes
<1> HIDE DEF f
<1>10. f[0] = base /\ \A i \in 1..n : f[i] = UnescapeStep(codec, f[i - 1], text[i])
  <2> DEFINE rhs == [i \in 0..n |->
                IF i = 0
                THEN [text |-> <<>>, escape |-> FALSE]
                ELSE IF f[i - 1].escape
                THEN [text |-> f[i - 1].text \o Unescaped(codec, text[i]), escape |-> FALSE]
                ELSE IF text[i] = "\\"
                THEN [text |-> f[i - 1].text, escape |-> TRUE]
                ELSE [text |-> Append(f[i - 1].text, text[i]), escape |-> FALSE]]
  <2>1. f = rhs
    BY <1>8 DEF Unescapes
  <2>2. rhs[0] = base
    BY <1>1
  <2>3. \A i \in 1..n : rhs[i] = UnescapeStep(codec, f[i - 1], text[i])
    <3> TAKE i \in 1..n
    <3>1. i \in 0..n /\ i # 0
      BY <1>1
    <3> QED BY <3>1 DEF UnescapeStep
  <2> HIDE DEF rhs, base
  <2> QED BY <2>1, <2>2, <2>3
<1> HIDE DEF base
<1> QED BY <1>9, <1>10 DEF base

\* What EscapeText writes, octet by octet.
LEMMA EscapeIsText ==
  ASSUME NEW codec \in {"ical", "vcard"}, NEW text \in Words
  PROVE  LET q == [i \in DOMAIN text |-> Escaped(codec, text[i])]
         IN  /\ q \in Seq(Words) /\ Len(q) = Len(text)
             /\ \A i \in 1..Len(text) : q[i] = Escaped(codec, text[i])
             /\ EscapeText(codec, text) = FlattenSeq(q)
             /\ EscapeText(codec, text) \in Words
<1> DEFINE n == Len(text)
           q == [i \in DOMAIN text |-> Escaped(codec, text[i])]
<1>1. n \in Nat /\ DOMAIN text = 1..n /\ \A i \in 1..n : text[i] \in Alphabet
  BY LenProperties, ElementOfSeq DEF Words
<1>2. \A i \in 1..n : q[i] = Escaped(codec, text[i])
  BY <1>1
<1>3. \A i \in 1..n : q[i] \in Seq(Alphabet)
  <2> TAKE i \in 1..n
  <2>1. text[i] \in Alphabet /\ "\\" \in Alphabet /\ "n" \in Alphabet
    BY <1>1, Marks
  <2>2. \/ q[i] = <<"\\", text[i]>> \/ q[i] = <<"\\", "n">>
        \/ q[i] = <<>> \/ q[i] = <<text[i]>>
    <3> DEFINE o == text[i]
    <3>1. q[i] = Escaped(codec, o)
      BY <1>2
    <3> HIDE DEF o, q
    <3>2. CASE o \in {"\\", ",", ";"}
      BY <3>1, <3>2 DEF Escaped, o, LF, CR
    <3>3. CASE o = LF
      BY <3>1, <3>3 DEF Escaped, o, LF, CR
    <3>4. CASE codec = "ical" /\ o = CR
      BY <3>1, <3>4 DEF Escaped, o, LF, CR
    <3>5. CASE o \notin {"\\", ",", ";", LF} /\ ~(codec = "ical" /\ o = CR)
      BY <3>1, <3>5 DEF Escaped, o
    <3> QED BY <3>2, <3>3, <3>4, <3>5
  <2> QED BY <2>1, <2>2, ShortWords DEF Words
<1>4. q = [i \in 1..n |-> q[i]]
  BY <1>1
<1>5. EscapeText(codec, text) = FlattenSeq(q)
  BY DEF EscapeText
<1> HIDE DEF q
<1>6. q \in Seq(Seq(Alphabet)) /\ Len(q) = n
  BY <1>1, <1>3, <1>4, PiecesOf
<1>7. FlattenSeq(q) \in Words
  BY <1>6, FlattenAppend DEF Words
<1> QED BY <1>2, <1>5, <1>6, <1>7 DEF Words, q

\* Reading a character, after a backslash or not.
LEMMA UnescapeOne ==
  ASSUME NEW codec \in {"ical", "vcard"}, NEW text, NEW octet
  PROVE  LET plain == [text |-> text, escape |-> FALSE]
             escaped == [text |-> text, escape |-> TRUE]
         IN  /\ UnescapeStep(codec, plain, "\\") = escaped
             /\ octet # "\\" =>
                  UnescapeStep(codec, plain, octet) =
                    [text |-> Append(text, octet), escape |-> FALSE]
             /\ octet \in {"\\", ",", ";"} =>
                  UnescapeStep(codec, escaped, octet) =
                    [text |-> text \o <<octet>>, escape |-> FALSE]
             /\ UnescapeStep(codec, escaped, "n") =
                  [text |-> text \o <<LF>>, escape |-> FALSE]
<1> DEFINE plain == [text |-> text, escape |-> FALSE]
           escaped == [text |-> text, escape |-> TRUE]
<1>1. /\ plain.escape = FALSE /\ plain.text = text
      /\ escaped.escape = TRUE /\ escaped.text = text
  OBVIOUS
<1> HIDE DEF plain, escaped
<1>2. UnescapeStep(codec, plain, "\\") = escaped
  BY <1>1 DEF UnescapeStep, escaped
<1>3. octet # "\\" =>
        UnescapeStep(codec, plain, octet) = [text |-> Append(text, octet), escape |-> FALSE]
  BY <1>1 DEF UnescapeStep
<1>4. UnescapeStep(codec, escaped, "n") = [text |-> text \o <<LF>>, escape |-> FALSE]
  <2>1. Unescaped(codec, "n") = <<LF>>
    BY DEF Unescaped
  <2> QED BY <1>1, <2>1 DEF UnescapeStep
<1>5. ASSUME octet \in {"\\", ",", ";"}
      PROVE  UnescapeStep(codec, escaped, octet) = [text |-> text \o <<octet>>, escape |-> FALSE]
  <2>1. Unescaped(codec, octet) = <<octet>>
    BY <1>5 DEF Unescaped
  <2> QED BY <1>1, <2>1 DEF UnescapeStep
<1> QED BY <1>2, <1>3, <1>4, <1>5 DEF plain, escaped

\* Whatever separators, backslashes and line breaks a text holds, its escapes
\* are read back: nothing is lost but the CR a calendar does not write.
THEOREM EscapesAreRead ==
  ASSUME NEW codec \in {"ical", "vcard"}, NEW text \in Words
  PROVE  UnescapeText(codec, EscapeText(codec, text)) = KeptText(codec, text)
<1> DEFINE n == Len(text)
           q == [i \in DOMAIN text |-> Escaped(codec, text[i])]
           kq == [i \in DOMAIN text |-> KeptOctet(codec, text[i])]
           w == EscapeText(codec, text)
           W(i) == FlattenSeq(SubSeq(q, 1, i))
           K(i) == FlattenSeq(SubSeq(kq, 1, i))
<1>1. n \in Nat /\ \A i \in 1..n : text[i] \in Alphabet /\ i \in DOMAIN text
  BY LenProperties, ElementOfSeq DEF Words
<1>2. /\ q \in Seq(Words) /\ Len(q) = n
      /\ \A i \in 1..n : q[i] = Escaped(codec, text[i])
      /\ w = FlattenSeq(q) /\ w \in Words
  BY EscapeIsText
<1>3. /\ kq \in Seq(Words) /\ Len(kq) = n /\ KeptText(codec, text) = FlattenSeq(kq)
      /\ \A i \in 1..n : kq[i] = KeptOctet(codec, text[i])
  BY <1>1, KeptIsText
<1> HIDE DEF w, q, kq
<1>4. PICK f : /\ f[0] = [text |-> <<>>, escape |-> FALSE]
               /\ \A i \in 1..Len(w) : f[i] = UnescapeStep(codec, f[i - 1], w[i])
               /\ UnescapeText(codec, w) =
                    IF f[Len(w)].escape THEN Append(f[Len(w)].text, "\\") ELSE f[Len(w)].text
  BY <1>2, UnescapeReads
<1>5. /\ W(0) = <<>> /\ W(n) = w
      /\ \A i \in 0..n : W(i) \in Words
      /\ \A i \in 0..n : i # n => W(i + 1) = W(i) \o q[i + 1]
  BY <1>2, FlattenUpTo DEF Words
<1>6. /\ K(0) = <<>> /\ K(n) = KeptText(codec, text)
      /\ \A i \in 0..n : K(i) \in Words
      /\ \A i \in 0..n : i # n => K(i + 1) = K(i) \o kq[i + 1]
  BY <1>3, FlattenUpTo DEF Words
<1>7. \A i \in 0..n : Len(W(i)) <= Len(w) /\ \A k \in 1..Len(W(i)) : w[k] = W(i)[k]
  BY <1>2, FlattenBegins DEF Words
<1> HIDE DEF W, K
<1> DEFINE T == {i \in Nat : i <= n => f[Len(W(i))] = [text |-> K(i), escape |-> FALSE]}
<1>8. 0 \in T
  <2>1. Len(<<>>) = 0
    OBVIOUS
  <2> QED BY <1>4, <1>5, <1>6, <2>1
<1>9. ASSUME NEW i \in Nat, i \in T PROVE i + 1 \in T
  <2> SUFFICES ASSUME i + 1 <= n
               PROVE  f[Len(W(i + 1))] = [text |-> K(i + 1), escape |-> FALSE]
    OBVIOUS
  <2> DEFINE o == text[i + 1]
             m == Len(W(i))
  <2>1. i \in 0..n /\ i # n /\ i + 1 \in 0..n /\ i + 1 \in 1..n /\ i <= n
    <3> HIDE DEF n
    <3> QED BY <1>1
  <2>2. f[m] = [text |-> K(i), escape |-> FALSE]
    BY <1>9, <2>1
  <2>3. /\ W(i + 1) = W(i) \o Escaped(codec, o) /\ W(i) \in Words /\ W(i + 1) \in Words
        /\ K(i + 1) = K(i) \o KeptOctet(codec, o) /\ K(i) \in Words
    BY <1>2, <1>3, <1>5, <1>6, <2>1
  <2>4. m \in Nat /\ Len(W(i + 1)) <= Len(w) /\ Len(w) \in Nat
        /\ \A k \in 1..Len(W(i + 1)) : w[k] = W(i + 1)[k]
    BY <1>2, <1>7, <2>1, <2>3, LenProperties DEF Words
  <2>5. o \in Alphabet
    BY <1>1, <2>1
  <2> HIDE DEF o, n
  <2>6. ASSUME NEW x \in Alphabet, NEW y \in Alphabet, W(i + 1) = W(i) \o <<x, y>>
        PROVE  /\ Len(W(i + 1)) = m + 2
               /\ f[m + 1] = UnescapeStep(codec, f[m], x)
               /\ f[m + 2] = UnescapeStep(codec, f[m + 1], y)
    <3>1. \A s \in Seq(Alphabet) : /\ Len(s \o <<x, y>>) = Len(s) + 2
                                   /\ (s \o <<x, y>>)[Len(s) + 1] = x
                                   /\ (s \o <<x, y>>)[Len(s) + 2] = y
      OBVIOUS
    <3>2. Len(W(i + 1)) = m + 2 /\ W(i + 1)[m + 1] = x /\ W(i + 1)[m + 2] = y
      BY <2>3, <2>6, <3>1 DEF Words
    <3> HIDE DEF m
    <3>3. /\ m + 1 \in 1..Len(w) /\ m + 2 \in 1..Len(w)
          /\ m + 1 \in 1..Len(W(i + 1)) /\ m + 2 \in 1..Len(W(i + 1))
          /\ (m + 1) - 1 = m /\ (m + 2) - 1 = m + 1
      BY <2>4, <3>2
    <3>4. w[m + 1] = x /\ w[m + 2] = y
      BY <2>4, <3>2, <3>3
    <3>5. f[m + 1] = UnescapeStep(codec, f[(m + 1) - 1], w[m + 1])
          /\ f[m + 2] = UnescapeStep(codec, f[(m + 2) - 1], w[m + 2])
      BY <1>4, <3>3
    <3> QED BY <3>2, <3>3, <3>4, <3>5
  <2>7. ASSUME NEW x \in Alphabet, W(i + 1) = W(i) \o <<x>>
        PROVE  Len(W(i + 1)) = m + 1 /\ f[m + 1] = UnescapeStep(codec, f[m], x)
    <3>1. \A s \in Seq(Alphabet) : /\ Len(s \o <<x>>) = Len(s) + 1
                                   /\ (s \o <<x>>)[Len(s) + 1] = x
      OBVIOUS
    <3>2. Len(W(i + 1)) = m + 1 /\ W(i + 1)[m + 1] = x
      BY <2>3, <2>7, <3>1 DEF Words
    <3> HIDE DEF m
    <3>3. m + 1 \in 1..Len(w) /\ m + 1 \in 1..Len(W(i + 1)) /\ (m + 1) - 1 = m
      BY <2>4, <3>2
    <3>4. f[m + 1] = UnescapeStep(codec, f[(m + 1) - 1], w[m + 1]) /\ w[m + 1] = x
      BY <1>4, <2>4, <3>2, <3>3
    <3> QED BY <3>2, <3>3, <3>4
  <2>8. CASE o \in {"\\", ",", ";"}
    <3>1. Escaped(codec, o) = <<"\\", o>> /\ KeptOctet(codec, o) = <<o>>
      BY <2>8 DEF Escaped, KeptOctet, CR, LF
    <3>2. /\ Len(W(i + 1)) = m + 2
          /\ f[m + 1] = UnescapeStep(codec, f[m], "\\")
          /\ f[m + 2] = UnescapeStep(codec, f[m + 1], o)
      BY <2>3, <2>5, <2>6, <3>1, Marks
    <3>3. UnescapeStep(codec, [text |-> K(i), escape |-> FALSE], "\\") =
            [text |-> K(i), escape |-> TRUE]
      BY UnescapeOne
    <3>4. UnescapeStep(codec, [text |-> K(i), escape |-> TRUE], o) =
            [text |-> K(i) \o <<o>>, escape |-> FALSE]
      BY <2>8, UnescapeOne
    <3> QED BY <2>2, <2>3, <3>1, <3>2, <3>3, <3>4
  <2>9. CASE o = LF
    <3>1. Escaped(codec, o) = <<"\\", "n">> /\ KeptOctet(codec, o) = <<LF>>
      BY <2>9 DEF Escaped, KeptOctet, CR, LF
    <3>2. /\ Len(W(i + 1)) = m + 2
          /\ f[m + 1] = UnescapeStep(codec, f[m], "\\")
          /\ f[m + 2] = UnescapeStep(codec, f[m + 1], "n")
      BY <2>3, <2>6, <3>1, Marks
    <3>3. UnescapeStep(codec, [text |-> K(i), escape |-> FALSE], "\\") =
            [text |-> K(i), escape |-> TRUE]
      BY UnescapeOne
    <3>4. UnescapeStep(codec, [text |-> K(i), escape |-> TRUE], "n") =
            [text |-> K(i) \o <<LF>>, escape |-> FALSE]
      BY UnescapeOne
    <3> QED BY <2>2, <2>3, <3>1, <3>2, <3>3, <3>4
  <2>10. CASE codec = "ical" /\ o = CR
    <3>1. Escaped(codec, o) = <<>> /\ KeptOctet(codec, o) = <<>>
      BY <2>10 DEF Escaped, KeptOctet, CR, LF
    <3>2. \A s \in Seq(Alphabet) : s \o <<>> = s
      OBVIOUS
    <3>3. W(i + 1) = W(i) /\ K(i + 1) = K(i)
      BY <2>3, <3>1, <3>2 DEF Words
    <3> QED BY <2>2, <3>3
  <2>11. CASE o \notin {"\\", ",", ";", LF} /\ ~(codec = "ical" /\ o = CR)
    <3>1. Escaped(codec, o) = <<o>> /\ KeptOctet(codec, o) = <<o>>
      BY <2>11 DEF Escaped, KeptOctet
    <3>2. Len(W(i + 1)) = m + 1 /\ f[m + 1] = UnescapeStep(codec, f[m], o)
      BY <2>3, <2>5, <2>7, <3>1
    <3>3. \A s \in Seq(Alphabet), x \in Alphabet : s \o <<x>> = Append(s, x)
      OBVIOUS
    <3>4. K(i + 1) = Append(K(i), o)
      BY <2>3, <2>5, <3>1, <3>3 DEF Words
    <3>5. UnescapeStep(codec, [text |-> K(i), escape |-> FALSE], o) =
            [text |-> Append(K(i), o), escape |-> FALSE]
      BY <2>11, UnescapeOne
    <3> QED BY <2>2, <3>2, <3>4, <3>5
  <2> QED BY <2>8, <2>9, <2>10, <2>11
<1>10. Nat \subseteq T
  <2> HIDE DEF T
  <2> QED BY <1>8, <1>9, SetInduction
<1>11. f[Len(w)] = [text |-> K(n), escape |-> FALSE]
  <2>1. n \in T /\ n <= n
    <3> HIDE DEF T
    <3> QED BY <1>1, <1>10
  <2> QED BY <1>5, <2>1
<1>12. f[Len(w)].escape = FALSE /\ f[Len(w)].text = K(n)
  BY <1>11
<1> QED BY <1>4, <1>6, <1>12 DEF w

-----------------------------------------------------------------------------
(* Splitting at given places. *)

\* The last cut before a place, 0 without one.
LastCut(cuts, end) == Max({0} \cup {i \in cuts : i < end})

\* The pieces that end at a cut, and what follows the last.
ClosedAt(s, cuts) ==
  [end \in 1..Len(s) |->
    IF end \in cuts THEN <<SubSeq(s, LastCut(cuts, end) + 1, end - 1)>> ELSE <<>>]

Closed(s, cuts) == FlattenSeq(ClosedAt(s, cuts))

Open(s, cuts) == SubSeq(s, LastCut(cuts, Len(s) + 1) + 1, Len(s))

LEMMA LastCutIs ==
  ASSUME NEW n \in Nat, NEW cuts \in SUBSET (1..n), NEW end \in Nat \ {0}
  PROVE  /\ LastCut(cuts, end) \in 0..n /\ LastCut(cuts, end) < end
         /\ \A i \in cuts \cup {0} :
              i < end /\ (\A j \in cuts : j < end => j <= i) => LastCut(cuts, end) = i
<1> DEFINE T == {i \in cuts : i < end}
           U == {0} \cup T
<1>1. U \in SUBSET Nat /\ T \in SUBSET (1..n)
  <2>1. \A i \in T : i \in 1..n
    OBVIOUS
  <2>2. \A i \in U : i \in Nat
    BY <2>1
  <2> HIDE DEF T, U
  <2> QED BY <2>1, <2>2
<1>2. PICK x \in U : \A y \in U : y <= x
  <2>1. CASE T = {}
    BY <2>1
  <2>2. CASE T # {}
    <3>1. PICK x \in T : \A y \in T : y <= x
      <4> HIDE DEF T
      <4> QED BY <1>1, <2>2, GreatestUpTo
    <3>2. x \in U /\ \A y \in U : y <= x
      BY <3>1
    <3> QED BY <3>2
  <2> QED BY <2>1, <2>2
<1>3. LastCut(cuts, end) = Max(U)
  BY DEF LastCut
<1>4. Max(U) = x
  <2> HIDE DEF U
  <2> QED BY <1>1, <1>2, MaxIs
<1>5. x \in 0..n /\ x < end
  BY <1>2
<1>6. ASSUME NEW i \in cuts \cup {0}, i < end, \A j \in cuts : j < end => j <= i
      PROVE  Max(U) = i
  <2>1. i \in U /\ \A y \in U : y <= i
    BY <1>6
  <2> HIDE DEF U
  <2> QED BY <1>1, <2>1, MaxIs
<1> QED BY <1>3, <1>4, <1>5, <1>6

\* The pieces that Closed puts together.
LEMMA ClosedTyped ==
  ASSUME NEW S, NEW s \in Seq(S), NEW cuts \in SUBSET (1..Len(s))
  PROVE  LET q == ClosedAt(s, cuts)
         IN  /\ q \in Seq(Seq(Seq(S))) /\ Len(q) = Len(s) /\ Len(s) \in Nat
             /\ \A end \in 1..Len(s) :
                  /\ q[end] = IF end \in cuts
                              THEN <<SubSeq(s, LastCut(cuts, end) + 1, end - 1)>> ELSE <<>>
                  /\ LastCut(cuts, end) + 1 \in Nat \ {0} /\ end - 1 \in 0..Len(s)
                  /\ SubSeq(s, LastCut(cuts, end) + 1, end - 1) \in Seq(S)
             /\ Closed(s, cuts) = FlattenSeq(q)
             /\ Closed(s, cuts) \in Seq(Seq(S)) /\ Open(s, cuts) \in Seq(S)
<1> DEFINE n == Len(s)
           q == ClosedAt(s, cuts)
<1>1. n \in Nat
  BY LenProperties
<1>2. ASSUME NEW a \in Nat, NEW b \in 0..n PROVE SubSeq(s, a + 1, b) \in Seq(S)
  <2>1. \A i \in a + 1..b : i \in 1..n
    BY <1>1
  <2>2. \A i \in a + 1..b : s[i] \in S
    BY <2>1, ElementOfSeq
  <2>3. a + 1 \in Int /\ b \in Int
    BY <1>1
  <2> QED BY <2>2, <2>3, SubSeqProperties
<1>3. \A end \in Nat \ {0} : LastCut(cuts, end) \in 0..n
  BY <1>1, LastCutIs
<1>4. \A end \in 1..n : /\ LastCut(cuts, end) + 1 \in Nat \ {0} /\ end - 1 \in 0..n
                        /\ SubSeq(s, LastCut(cuts, end) + 1, end - 1) \in Seq(S)
  <2> TAKE end \in 1..n
  <2>1. LastCut(cuts, end) \in Nat /\ end - 1 \in 0..n
    BY <1>1, <1>3
  <2> QED BY <1>2, <2>1
<1>5. \A end \in 1..n : q[end] = IF end \in cuts
                                 THEN <<SubSeq(s, LastCut(cuts, end) + 1, end - 1)>> ELSE <<>>
  BY DEF ClosedAt
<1>6. \A end \in 1..n : q[end] \in Seq(Seq(S))
  <2> TAKE end \in 1..n
  <2> DEFINE x == SubSeq(s, LastCut(cuts, end) + 1, end - 1)
  <2>1. x \in Seq(S) /\ (q[end] = <<x>> \/ q[end] = <<>>)
    BY <1>4, <1>5
  <2> HIDE DEF q, x
  <2>2. \A y \in Seq(S) : <<y>> \in Seq(Seq(S))
    OBVIOUS
  <2>3. <<>> \in Seq(Seq(S))
    OBVIOUS
  <2> QED BY <2>1, <2>2, <2>3
<1>7. q = [end \in 1..n |-> q[end]]
  BY DEF ClosedAt
<1>8. Closed(s, cuts) = FlattenSeq(q)
  BY DEF Closed
<1>9. Open(s, cuts) \in Seq(S)
  <2>1. n + 1 \in Nat \ {0} /\ n \in 0..n
    BY <1>1
  <2>2. LastCut(cuts, n + 1) \in Nat
    BY <1>3, <2>1
  <2> QED BY <1>2, <2>1, <2>2 DEF Open
<1> HIDE DEF q
<1>10. q \in Seq(Seq(Seq(S))) /\ Len(q) = n
  BY <1>1, <1>6, <1>7, PiecesOf
<1>11. FlattenSeq(q) \in Seq(Seq(S))
  BY <1>10, FlattenAppend
<1> QED BY <1>1, <1>4, <1>5, <1>8, <1>9, <1>10, <1>11 DEF q

\* A text is its pieces and what follows them.
LEMMA SplitIs ==
  ASSUME NEW S, NEW s \in Seq(S), NEW cuts \in SUBSET (1..Len(s))
  PROVE  SplitAt(s, cuts) = Append(Closed(s, cuts), Open(s, cuts))
<1> DEFINE n == Len(s)
           q == ClosedAt(s, cuts)
           r == [end \in 1..n + 1 |->
                   IF end \in cuts \cup {n + 1}
                   THEN <<SubSeq(s, LastCut(cuts, end) + 1, end - 1)>> ELSE <<>>]
<1>1. /\ q \in Seq(Seq(Seq(S))) /\ Len(q) = n /\ n \in Nat
      /\ \A end \in 1..n : q[end] = IF end \in cuts
                              THEN <<SubSeq(s, LastCut(cuts, end) + 1, end - 1)>> ELSE <<>>
      /\ Closed(s, cuts) = FlattenSeq(q)
      /\ Closed(s, cuts) \in Seq(Seq(S)) /\ Open(s, cuts) \in Seq(S)
  BY ClosedTyped
<1>2. SplitAt(s, cuts) = FlattenSeq(r)
  BY DEF SplitAt, LastCut
<1>3. /\ \A end \in 1..n : r[end] = q[end]
      /\ r[n + 1] = <<Open(s, cuts)>>
  <2>1. \A end \in 1..n : end \in 1..n + 1 /\ (end \in cuts \cup {n + 1} <=> end \in cuts)
    BY <1>1
  <2>2. n + 1 \in 1..n + 1 /\ (n + 1) - 1 = n
    BY <1>1
  <2>3. r[n + 1] = <<SubSeq(s, LastCut(cuts, n + 1) + 1, n)>>
    BY <2>2
  <2> QED BY <1>1, <2>1, <2>3 DEF Open
<1>4. <<Open(s, cuts)>> \in Seq(Seq(S))
  <2>1. \A y \in Seq(S) : <<y>> \in Seq(Seq(S))
    OBVIOUS
  <2> QED BY <1>1, <2>1
<1>5. r = Append(q, <<Open(s, cuts)>>)
  <2> DEFINE x == <<Open(s, cuts)>>
             a == Append(q, x)
  <2> HIDE DEF q, x
  <2>1. /\ a \in Seq(Seq(Seq(S))) /\ Len(a) = n + 1
        /\ \A i \in 1..n : a[i] = q[i]
        /\ a[n + 1] = x
    BY <1>1, <1>4, AppendProperties DEF x
  <2>2. a = [i \in 1..n + 1 |-> a[i]] /\ r = [i \in 1..n + 1 |-> r[i]]
    <3>1. r = [i \in 1..n + 1 |-> r[i]]
      OBVIOUS
    <3> HIDE DEF a
    <3> QED BY <2>1, <3>1
  <2>3. \A i \in 1..n + 1 : a[i] = r[i]
    <3>1. \A i \in 1..n + 1 : i \in 1..n \/ i = n + 1
      BY <1>1
    <3> HIDE DEF a, r
    <3> QED BY <1>3, <2>1, <3>1 DEF x
  <2> HIDE DEF a, r
  <2>4. r = a
    BY <2>2, <2>3
  <2> QED BY <2>4 DEF a, x
<1> HIDE DEF q, r
<1>6. FlattenSeq(r) = FlattenSeq(q) \o <<Open(s, cuts)>>
  BY <1>1, <1>4, <1>5, FlattenAppend
<1>7. \A p \in Seq(Seq(S)), y \in Seq(S) : p \o <<y>> = Append(p, y)
  OBVIOUS
<1> QED BY <1>1, <1>2, <1>6, <1>7

\* More text behind changes no piece.
LEMMA ClosedKept ==
  ASSUME NEW S, NEW s \in Seq(S), NEW t \in Seq(S), NEW cuts \in SUBSET (1..Len(s))
  PROVE  Closed(s \o t, cuts) = Closed(s, cuts)
<1> DEFINE n == Len(s)
           u == s \o t
           q == ClosedAt(s, cuts)
           r == ClosedAt(u, cuts)
<1>1. /\ q \in Seq(Seq(Seq(S))) /\ Len(q) = n /\ n \in Nat
      /\ \A end \in 1..n :
           /\ q[end] = IF end \in cuts
                       THEN <<SubSeq(s, LastCut(cuts, end) + 1, end - 1)>> ELSE <<>>
           /\ LastCut(cuts, end) + 1 \in Nat \ {0} /\ end - 1 \in 0..n
      /\ Closed(s, cuts) = FlattenSeq(q)
  BY ClosedTyped
<1>2. /\ u \in Seq(S) /\ Len(u) \in Nat /\ n <= Len(u)
      /\ \A a \in Nat \ {0}, b \in 0..n : SubSeq(u, a, b) = SubSeq(s, a, b)
  BY CutConcat
<1>3. cuts \in SUBSET (1..Len(u))
  BY <1>1, <1>2
<1>4. /\ r \in Seq(Seq(Seq(S))) /\ Len(r) = Len(u)
      /\ \A end \in 1..Len(u) :
           r[end] = IF end \in cuts
                    THEN <<SubSeq(u, LastCut(cuts, end) + 1, end - 1)>> ELSE <<>>
      /\ Closed(u, cuts) = FlattenSeq(r)
  <2> HIDE DEF u
  <2> QED BY <1>2, <1>3, ClosedTyped
<1> HIDE DEF q, r, u
<1>5. \A end \in 1..n : r[end] = q[end]
  <2> TAKE end \in 1..n
  <2>1. end \in 1..Len(u)
    BY <1>1, <1>2
  <2> QED BY <1>1, <1>2, <1>4, <2>1
<1>6. \A end \in n + 1..Len(r) : r[end] = <<>>
  <2>1. \A end \in n + 1..Len(r) : end \in 1..Len(u) /\ end \notin cuts
    BY <1>1, <1>2, <1>4
  <2> QED BY <1>4, <2>1
<1>7. n \in 0..Len(r)
  BY <1>1, <1>2, <1>4
<1>8. FlattenSeq(r) = FlattenSeq(SubSeq(r, 1, n))
  BY <1>4, <1>6, <1>7, FlattenFront
<1>9. SubSeq(r, 1, n) = q
  <2> DEFINE f == SubSeq(r, 1, n)
  <2>1. f \in Seq(Seq(Seq(S))) /\ Len(f) = n
    BY <1>4, <1>7, CutInTwo
  <2>2. \A i \in 1..n : f[i] = r[i]
    <3>1. IsSeq(r)
      BY <1>4, SeqIsSeq
    <3> QED BY <1>7, <3>1, IsSeqCut
  <2> HIDE DEF f
  <2>3. \A i \in 1..Len(f) : f[i] = q[i]
    BY <1>5, <2>1, <2>2
  <2>4. f = q
    BY <1>1, <2>1, <2>3, SeqEqual
  <2> QED BY <2>4 DEF f
<1> QED BY <1>1, <1>4, <1>8, <1>9 DEF u

\* A cut right behind a text closes what was open.
LEMMA ClosedNext ==
  ASSUME NEW S, NEW s \in Seq(S), NEW x \in S, NEW cuts \in SUBSET (1..Len(s))
  PROVE  Closed(Append(s, x), cuts \cup {Len(s) + 1}) = Append(Closed(s, cuts), Open(s, cuts))
<1> DEFINE n == Len(s)
           u == Append(s, x)
           more == cuts \cup {n + 1}
           q == ClosedAt(s, cuts)
           r == ClosedAt(u, more)
<1>1. /\ q \in Seq(Seq(Seq(S))) /\ Len(q) = n /\ n \in Nat
      /\ \A end \in 1..n :
           /\ q[end] = IF end \in cuts
                       THEN <<SubSeq(s, LastCut(cuts, end) + 1, end - 1)>> ELSE <<>>
           /\ LastCut(cuts, end) + 1 \in Nat \ {0} /\ end - 1 \in 0..n
      /\ Closed(s, cuts) = FlattenSeq(q)
      /\ Closed(s, cuts) \in Seq(Seq(S)) /\ Open(s, cuts) \in Seq(S)
  BY ClosedTyped
<1>2. /\ u \in Seq(S) /\ Len(u) = n + 1
      /\ \A a \in Nat \ {0}, b \in 0..n : SubSeq(u, a, b) = SubSeq(s, a, b)
  <2>1. <<x>> \in Seq(S) /\ u = s \o <<x>>
    BY AppendIsConcat
  <2>2. \A a \in Nat \ {0}, b \in 0..n : SubSeq(s \o <<x>>, a, b) = SubSeq(s, a, b)
    <3> DEFINE t == <<x>>
    <3>1. t \in Seq(S)
      BY <2>1
    <3> HIDE DEF t
    <3>2. \A a \in Nat \ {0}, b \in 0..n : SubSeq(s \o t, a, b) = SubSeq(s, a, b)
      BY <3>1, CutConcat
    <3> QED BY <3>2 DEF t
  <2> QED BY <2>1, <2>2, AppendProperties
<1>3. more \in SUBSET (1..Len(u))
  <2>1. \A i \in more : i \in 1..n + 1
    BY <1>1
  <2> HIDE DEF more, u
  <2> QED BY <1>2, <2>1
<1>4. /\ r \in Seq(Seq(Seq(S))) /\ Len(r) = n + 1
      /\ \A end \in 1..n + 1 :
           r[end] = IF end \in more
                    THEN <<SubSeq(u, LastCut(more, end) + 1, end - 1)>> ELSE <<>>
      /\ Closed(u, more) = FlattenSeq(r)
  <2> HIDE DEF u, more
  <2>1. /\ r \in Seq(Seq(Seq(S))) /\ Len(r) = Len(u)
        /\ \A end \in 1..Len(u) :
             r[end] = IF end \in more
                      THEN <<SubSeq(u, LastCut(more, end) + 1, end - 1)>> ELSE <<>>
        /\ Closed(u, more) = FlattenSeq(r)
    <3>1. u \in Seq(S)
      BY <1>2
    <3>2. \A v \in Seq(S) : \A at \in SUBSET (1..Len(v)) :
             /\ ClosedAt(v, at) \in Seq(Seq(Seq(S))) /\ Len(ClosedAt(v, at)) = Len(v)
             /\ \A end \in 1..Len(v) :
                  ClosedAt(v, at)[end] =
                    IF end \in at THEN <<SubSeq(v, LastCut(at, end) + 1, end - 1)>> ELSE <<>>
             /\ Closed(v, at) = FlattenSeq(ClosedAt(v, at))
      BY ClosedTyped
    <3> QED BY <1>3, <3>1, <3>2
  <2> HIDE DEF r
  <2> QED BY <1>2, <2>1
<1>5. \A end \in 1..n + 1 : LastCut(more, end) = LastCut(cuts, end)
  <2> TAKE end \in 1..n + 1
  <2>1. {i \in more : i < end} = {i \in cuts : i < end}
    BY <1>1
  <2> QED BY <2>1 DEF LastCut
<1>6. LastCut(cuts, n + 1) \in Nat
  <2>1. n + 1 \in Nat \ {0}
    BY <1>1
  <2>2. LastCut(cuts, n + 1) \in 0..n
    BY <1>1, <2>1, LastCutIs
  <2> QED BY <2>2
<1> HIDE DEF q, r, u
<1>7. \A end \in 1..n : r[end] = q[end]
  <2> TAKE end \in 1..n
  <2>1. end \in 1..n + 1 /\ (end \in more <=> end \in cuts)
    BY <1>1
  <2> HIDE DEF more, n
  <2>2. LastCut(more, end) = LastCut(cuts, end)
    BY <1>5, <2>1
  <2>3. SubSeq(u, LastCut(cuts, end) + 1, end - 1) = SubSeq(s, LastCut(cuts, end) + 1, end - 1)
    BY <1>1, <1>2
  <2>4. r[end] = IF end \in cuts
                 THEN <<SubSeq(u, LastCut(cuts, end) + 1, end - 1)>> ELSE <<>>
    BY <1>4, <2>1, <2>2
  <2> QED BY <1>1, <2>3, <2>4
<1>8. r[n + 1] = <<Open(s, cuts)>>
  <2>1. n + 1 \in 1..n + 1 /\ n + 1 \in more /\ (n + 1) - 1 = n
        /\ n \in 0..n /\ LastCut(cuts, n + 1) + 1 \in Nat \ {0}
    BY <1>1, <1>6
  <2>2. r[n + 1] = <<SubSeq(u, LastCut(cuts, n + 1) + 1, n)>>
    <3> HIDE DEF more, n
    <3> QED BY <1>4, <1>5, <2>1
  <2>3. SubSeq(u, LastCut(cuts, n + 1) + 1, n) = SubSeq(s, LastCut(cuts, n + 1) + 1, n)
    BY <1>2, <2>1
  <2> QED BY <2>2, <2>3 DEF Open
<1> DEFINE o == <<Open(s, cuts)>>
<1>9. o \in Seq(Seq(S))
  <2>1. \A y \in Seq(S) : <<y>> \in Seq(Seq(S))
    OBVIOUS
  <2> QED BY <1>1, <2>1
<1> HIDE DEF o
<1>10. r = Append(q, o)
  <2> DEFINE a == Append(q, o)
  <2>1. /\ a \in Seq(Seq(Seq(S))) /\ Len(a) = n + 1
        /\ \A i \in 1..n : a[i] = q[i]
        /\ a[n + 1] = o
    BY <1>1, <1>9, AppendProperties
  <2> HIDE DEF a
  <2>2. \A i \in 1..Len(r) : r[i] = a[i]
    <3>1. \A i \in 1..Len(r) : i \in 1..n \/ i = n + 1
      BY <1>1, <1>4
    <3>2. r[n + 1] = o
      BY <1>8 DEF o
    <3> QED BY <1>7, <2>1, <3>1, <3>2
  <2>3. r = a
    BY <1>4, <2>1, <2>2, SeqEqual
  <2> QED BY <2>3 DEF a
<1>11. FlattenSeq(r) = FlattenSeq(q) \o o
  BY <1>1, <1>9, <1>10, FlattenAppend
<1>12. \A p \in Seq(Seq(S)), y \in Seq(S) : p \o <<y>> = Append(p, y)
  OBVIOUS
<1>13. Closed(s, cuts) \o o = Append(Closed(s, cuts), Open(s, cuts))
  BY <1>1, <1>12 DEF o
<1> QED BY <1>1, <1>4, <1>11, <1>13 DEF u

\* What follows the last cut.
LEMMA OpenIs ==
  ASSUME NEW S, NEW s \in Seq(S), NEW t \in Seq(S), NEW cuts \in SUBSET (1..Len(s)),
         s = <<>> \/ Len(s) \in cuts
  PROVE  Open(s \o t, cuts) = t
<1> DEFINE n == Len(s)
           u == s \o t
<1>1. /\ Len(u) = n + Len(t) /\ n \in Nat /\ Len(t) \in Nat
      /\ SubSeq(u, n + 1, Len(u)) = t
  BY CutConcat
<1>2. n \in cuts \cup {0}
  <2>1. s = <<>> => n = 0
    OBVIOUS
  <2> QED BY <2>1
<1> HIDE DEF u
<1>3. Len(u) + 1 \in Nat \ {0} /\ n < Len(u) + 1
  BY <1>1
<1>4. \A j \in cuts : j <= n
  BY <1>1
<1>5. LastCut(cuts, Len(u) + 1) = n
  <2>1. \A i \in cuts \cup {0} :
          i < Len(u) + 1 /\ (\A j \in cuts : j < Len(u) + 1 => j <= i)
            => LastCut(cuts, Len(u) + 1) = i
    <3> HIDE DEF n
    <3>1. cuts \in SUBSET (1..n)
      BY DEF n
    <3> QED BY <1>1, <1>3, <3>1, LastCutIs
  <2> QED BY <1>2, <1>3, <1>4, <2>1
<1>6. Open(u, cuts) = SubSeq(u, n + 1, Len(u))
  BY <1>5 DEF Open
<1> QED BY <1>1, <1>6 DEF u

\* A text without cuts is one piece.
LEMMA SplitWhole ==
  ASSUME NEW S, NEW s \in Seq(S)
  PROVE  Closed(<<>>, {}) = <<>> /\ SplitAt(s, {}) = <<s>>
<1>1. <<>> \in Seq(S) /\ Len(<<>>) = 0 /\ {} \in SUBSET (1..0) /\ <<>> \o s = s
  OBVIOUS
<1> DEFINE q == ClosedAt(<<>>, {})
<1>2. Closed(<<>>, {}) = <<>>
  <2>1. q = <<>>
    BY <1>1 DEF ClosedAt
  <2>2. Closed(<<>>, {}) = FlattenSeq(q)
    BY DEF Closed
  <2> HIDE DEF q
  <2> QED BY <2>1, <2>2, FlattenAppend
<1>3. Closed(s, {}) = <<>>
  <2>1. Closed(<<>> \o s, {}) = Closed(<<>>, {})
    BY <1>1, ClosedKept
  <2> QED BY <1>1, <1>2, <2>1
<1>4. Open(s, {}) = s
  <2>1. Open(<<>> \o s, {}) = s
    BY <1>1, OpenIs
  <2> QED BY <1>1, <2>1
<1>5. SplitAt(s, {}) = Append(<<>>, s)
  <2>1. {} \in SUBSET (1..Len(s))
    OBVIOUS
  <2> QED BY <1>3, <1>4, <2>1, SplitIs
<1> QED BY <1>2, <1>5

\* A text, and the same with one octet more where it is cut.
CutBehind(s, cuts, x, u, more) ==
  /\ cuts \in SUBSET (1..Len(s))
  /\ u = Append(s, x) /\ more = cuts \cup {Len(s) + 1}

\* A separator and what is behind it are a further piece.
LEMMA SplitGrows ==
  ASSUME NEW S, NEW s \in Seq(S), NEW x \in S, NEW t \in Seq(S),
         NEW cuts, NEW u, NEW more, CutBehind(s, cuts, x, u, more)
  PROVE  SplitAt(u \o t, more) = Append(SplitAt(s, cuts), t)
<1> USE DEF CutBehind
<1>1. u \in Seq(S) /\ Len(u) = Len(s) + 1 /\ Len(s) \in Nat
  BY AppendProperties, LenProperties
<1>2. Closed(u, more) = SplitAt(s, cuts)
  <2>1. Closed(Append(s, x), cuts \cup {Len(s) + 1}) = SplitAt(s, cuts)
    BY ClosedNext, SplitIs, SMTT(60)
  <2> QED BY <2>1
<1>3. more \in SUBSET (1..Len(u)) /\ Len(u) \in more
  <2>1. \A i \in more : i \in 1..Len(u)
    BY <1>1
  <2>2. Len(u) \in more
    BY <1>1
  <2> QED BY <2>1, <2>2
<1>4. u \o t \in Seq(S) /\ more \in SUBSET (1..Len(u \o t))
  <2>1. Len(u \o t) = Len(u) + Len(t) /\ u \o t \in Seq(S) /\ Len(u) \in Nat /\ Len(t) \in Nat
    BY <1>1, CutConcat
  <2> QED BY <1>3, <2>1
<1>5. Closed(u \o t, more) = Closed(u, more) /\ Open(u \o t, more) = t
  BY <1>1, <1>3, ClosedKept, OpenIs
<1>6. SplitAt(u \o t, more) = Append(Closed(u \o t, more), Open(u \o t, more))
  BY <1>4, SplitIs
<1> QED BY <1>2, <1>5, <1>6

-----------------------------------------------------------------------------
(* Folding. *)

LEMMA BeforeGrows ==
  /\ Before(1) = 0
  /\ \A n \in Nat \ {0} :
       /\ Before(n) \in Nat /\ Before(n) >= n - 1
       /\ Before(n + 1) = Before(n) + IF n = 1 THEN Limit ELSE Limit - 1
<1>1. Limit \in Nat /\ Limit >= 2
  BY LimitAssumption
<1>2. Before(1) = 0 /\ Before(2) = Limit
  <2>1. 0 * (Limit - 1) = 0
    BY <1>1
  <2> QED BY <1>1, <2>1 DEF Before
<1>3. ASSUME NEW n \in Nat, n >= 2 PROVE Before(n + 1) = Before(n) + (Limit - 1)
  <2>1. \A a, b \in Int : (a + 1) * b = a * b + b
    OBVIOUS
  <2>2. (n + 1) - 2 = (n - 2) + 1 /\ n - 2 \in Int /\ Limit - 1 \in Int
    BY <1>1
  <2>3. ((n + 1) - 2) * (Limit - 1) = (n - 2) * (Limit - 1) + (Limit - 1)
    BY <2>1, <2>2
  <2>4. (n - 2) * (Limit - 1) \in Int
    BY <2>2
  <2>5. Before(n + 1) = Limit + ((n + 1) - 2) * (Limit - 1)
        /\ Before(n) = Limit + (n - 2) * (Limit - 1)
    BY <1>3 DEF Before
  <2> DEFINE x == (n - 2) * (Limit - 1)
             y == ((n + 1) - 2) * (Limit - 1)
  <2>6. y = x + (Limit - 1) /\ x \in Int /\ Before(n + 1) = Limit + y /\ Before(n) = Limit + x
    BY <2>3, <2>4, <2>5
  <2> HIDE DEF x, y
  <2> QED BY <1>1, <2>6
<1> DEFINE T == {n \in Nat : Before(n + 1) \in Nat /\ Before(n + 1) >= n}
<1>4. 0 \in T
  BY <1>2
<1>5. ASSUME NEW n \in Nat, n \in T PROVE n + 1 \in T
  <2>1. CASE n = 0
    BY <1>1, <1>2, <2>1
  <2>2. CASE n # 0
    <3>1. n + 1 \in Nat /\ n + 1 >= 2
      BY <2>2
    <3>2. Before((n + 1) + 1) = Before(n + 1) + (Limit - 1)
      BY <1>3, <3>1
    <3>3. Before(n + 1) \in Nat /\ Before(n + 1) >= n
      BY <1>5
    <3> QED BY <1>1, <3>2, <3>3
  <2> QED BY <2>1, <2>2
<1>6. Nat \subseteq T
  <2> HIDE DEF T
  <2> QED BY <1>4, <1>5, SetInduction
<1>7. ASSUME NEW n \in Nat \ {0}
      PROVE  /\ Before(n) \in Nat /\ Before(n) >= n - 1
             /\ Before(n + 1) = Before(n) + IF n = 1 THEN Limit ELSE Limit - 1
  <2>1. n - 1 \in T
    <3> HIDE DEF T
    <3> QED BY <1>6
  <2>2. (n - 1) + 1 = n
    OBVIOUS
  <2>3. Before(n) \in Nat /\ Before(n) >= n - 1
    BY <2>1, <2>2
  <2>4. CASE n = 1
    BY <1>1, <1>2, <2>3, <2>4
  <2>5. CASE n # 1
    <3>1. n >= 2
      BY <2>5
    <3> QED BY <1>3, <2>3, <2>5, <3>1
  <2> QED BY <2>4, <2>5
<1> QED BY <1>2, <1>7

LEMMA BeforeAscends ==
  ASSUME NEW a \in Nat \ {0}, NEW b \in Nat, a <= b
  PROVE  Before(a) <= Before(b)
<1> DEFINE T == {n \in Nat : Before(a) <= Before(a + n)}
<1>1. 0 \in T
  BY BeforeGrows
<1>2. ASSUME NEW n \in Nat, n \in T PROVE n + 1 \in T
  <2>1. a + n \in Nat \ {0} /\ a + (n + 1) = (a + n) + 1
    OBVIOUS
  <2>2. Before(a + n) <= Before((a + n) + 1)
    BY <2>1, BeforeGrows, LimitAssumption
  <2>3. Before(a) \in Nat /\ Before(a + n) \in Nat /\ Before((a + n) + 1) \in Nat
    BY <2>1, BeforeGrows
  <2>4. Before(a) <= Before(a + n)
    BY <1>2
  <2> QED BY <2>1, <2>2, <2>3, <2>4
<1>3. Nat \subseteq T
  <2> HIDE DEF T
  <2> QED BY <1>1, <1>2, SetInduction
<1>4. b - a \in Nat /\ a + (b - a) = b
  OBVIOUS
<1>5. b - a \in T
  <2> HIDE DEF T
  <2> QED BY <1>3, <1>4
<1> QED BY <1>4, <1>5

\* The chunks of a line are numbered from 1 to where they reach its end.
LEMMA ChunksAre ==
  ASSUME NEW L \in Nat
  PROVE  LET chunks == {n \in 1..L : Before(n) < L}
         IN  \E c \in Nat : /\ Cardinality(chunks) = c
                            /\ \A n \in 1..c : Before(n) < L
                            /\ Before(c + 1) >= L
<1> DEFINE chunks == {n \in 1..L : Before(n) < L}
           T == {n \in Nat : Before(n + 1) >= L}
<1>1. L \in T
  <2>1. L + 1 \in Nat \ {0} /\ (L + 1) - 1 = L
    OBVIOUS
  <2>2. Before(L + 1) >= (L + 1) - 1
    BY <2>1, BeforeGrows
  <2> QED BY <2>1, <2>2
<1>2. PICK c \in T : \A n \in T : c <= n
  <2>1. T \in SUBSET Nat /\ T # {}
    BY <1>1
  <2> HIDE DEF T
  <2> QED BY <2>1, LeastNatural
<1>3. c \in Nat /\ Before(c + 1) >= L
  BY <1>2
<1>4. \A n \in 1..c : Before(n) < L
  <2> TAKE n \in 1..c
  <2>1. n - 1 \in Nat /\ ~(c <= n - 1) /\ (n - 1) + 1 = n /\ n \in Nat \ {0}
    BY <1>3
  <2>2. n - 1 \notin T
    BY <1>2, <2>1
  <2>3. ~(Before(n) >= L)
    BY <2>1, <2>2
  <2>4. Before(n) \in Nat
    BY <2>1, BeforeGrows
  <2> QED BY <2>3, <2>4
<1>5. chunks = 1..c
  <2>1. ASSUME NEW n \in chunks PROVE n \in 1..c
    <3>1. n \in 1..L /\ Before(n) < L
      OBVIOUS
    <3>2. ASSUME c + 1 <= n PROVE FALSE
      <4>1. Before(c + 1) <= Before(n)
        BY <1>3, <3>1, <3>2, BeforeAscends
      <4>2. Before(c + 1) \in Nat /\ Before(n) \in Nat
        BY <1>3, <3>1, BeforeGrows
      <4> QED BY <1>3, <3>1, <4>1, <4>2
    <3> QED BY <1>3, <3>1, <3>2
  <2>2. ASSUME NEW n \in 1..c PROVE n \in chunks
    <3>1. n \in Nat \ {0} /\ Before(n) < L
      BY <1>3, <1>4
    <3>2. Before(n) \in Nat /\ Before(n) >= n - 1
      BY <3>1, BeforeGrows
    <3>3. n \in 1..L
      BY <3>1, <3>2
    <3> QED BY <3>1, <3>3
  <2> HIDE DEF chunks
  <2> QED BY <2>1, <2>2
<1>6. Cardinality(1..c) = c
  <2>1. 1 \in Int /\ c \in Int /\ Cardinality(1..c) = IF 1 > c THEN 0 ELSE c - 1 + 1
    BY <1>3, FS_Interval
  <2> QED BY <1>3, <2>1
<1> HIDE DEF chunks
<1>7. Cardinality(chunks) = c
  BY <1>5, <1>6
<1> QED BY <1>3, <1>4, <1>7 DEF chunks

\* How far into a line its first n chunks reach; what the n-th takes of it, and
\* the n-th as it is written.
Reached(line, n) == IF n = 0 THEN 0 ELSE Min({Before(n + 1), Len(line)})

Body(line, n) == SubSeq(line, Before(n) + 1, Min({Before(n + 1), Len(line)}))

Chunk(line, n) == (IF n = 1 THEN <<>> ELSE <<SP>>) \o Body(line, n)

ChunksOf(line, c) == [n \in 1..c |-> Chunk(line, n) \o <<CR, LF>>]

LEMMA MinOfTwo ==
  ASSUME NEW a \in Nat, NEW b \in Nat
  PROVE  Min({a, b}) = IF a <= b THEN a ELSE b
<1> DEFINE m == IF a <= b THEN a ELSE b
<1>1. m \in {a, b} /\ \A y \in {a, b} : m <= y
  OBVIOUS
<1>2. Min({a, b}) \in {a, b} /\ \A y \in {a, b} : Min({a, b}) <= y
  <2> HIDE DEF m
  <2> QED BY <1>1 DEF Min
<1> QED BY <1>1, <1>2

\* A chunk takes up where the one before it ended; the last reaches the end.
LEMMA ChunkIs ==
  ASSUME NEW line \in Words, NEW c \in Nat, NEW n \in 1..c,
         \A k \in 1..c : Before(k) < Len(line)
  PROVE  /\ Reached(line, n - 1) = Before(n)
         /\ Reached(line, n) \in 1..Len(line) /\ Before(n) < Reached(line, n)
         /\ Reached(line, n) <= Before(n + 1)
         /\ Body(line, n) = SubSeq(line, Before(n) + 1, Reached(line, n))
         /\ Body(line, n) \in Words
         /\ Len(Body(line, n)) = Reached(line, n) - Before(n)
         /\ \A i \in 1..Len(Body(line, n)) :
              Before(n) + i \in 1..Len(line) /\ Body(line, n)[i] = line[Before(n) + i]
         /\ SubSeq(line, 1, Reached(line, n)) =
              SubSeq(line, 1, Reached(line, n - 1)) \o Body(line, n)
<1> DEFINE L == Len(line)
           a == Before(n)
           b == Reached(line, n)
<1>1. L \in Nat /\ n \in Nat \ {0} /\ line \in Seq(Alphabet)
  BY LenProperties DEF Words
<1>2. a \in Nat /\ Before(n + 1) \in Nat /\ a < Before(n + 1) /\ a < L
  <2>1. n + 1 \in Nat \ {0} /\ Limit \in Nat /\ Limit >= 2
    BY <1>1, LimitAssumption
  <2>2. a \in Nat /\ Before(n + 1) \in Nat
    BY <1>1, <2>1, BeforeGrows
  <2>3. Before(n + 1) = a + IF n = 1 THEN Limit ELSE Limit - 1
    BY <1>1, BeforeGrows
  <2> QED BY <2>1, <2>2, <2>3
<1>3. b = IF Before(n + 1) <= L THEN Before(n + 1) ELSE L
  <2>1. b = Min({Before(n + 1), L})
    BY <1>1 DEF Reached
  <2> QED BY <1>1, <1>2, <2>1, MinOfTwo
<1>4. b \in 1..L /\ a < b /\ b <= Before(n + 1)
  <2> HIDE DEF L, a, b
  <2> QED BY <1>1, <1>2, <1>3
<1>5. Reached(line, n - 1) = a
  <2>1. CASE n = 1
    BY <2>1, BeforeGrows DEF Reached
  <2>2. CASE n # 1
    <3>1. n - 1 # 0 /\ (n - 1) + 1 = n
      BY <1>1, <2>2
    <3>2. Reached(line, n - 1) = Min({a, L})
      BY <3>1 DEF Reached
    <3>3. Min({a, L}) = IF a <= L THEN a ELSE L
      BY <1>1, <1>2, MinOfTwo
    <3> HIDE DEF L, a
    <3> QED BY <1>1, <1>2, <3>2, <3>3
  <2> QED BY <2>1, <2>2
<1>6. Body(line, n) = SubSeq(line, a + 1, b)
  BY <1>1 DEF Body, Reached
<1> HIDE DEF L, a, b
<1>7. /\ SubSeq(line, a + 1, b) \in Seq(Alphabet)
      /\ Len(SubSeq(line, a + 1, b)) = b - a
      /\ \A i \in 1..b - a : SubSeq(line, a + 1, b)[i] = line[a + i] /\ a + i \in 1..L
  <2>1. a + 1 \in Int /\ b \in Int /\ a + 1 <= b /\ b - (a + 1) + 1 = b - a
        /\ \A i \in a + 1..b : i \in 1..L
    BY <1>1, <1>2, <1>4
  <2>2. \A i \in a + 1..b : line[i] \in Alphabet
    BY <1>1, <2>1, ElementOfSeq DEF L
  <2>3. /\ SubSeq(line, a + 1, b) \in Seq(Alphabet)
        /\ Len(SubSeq(line, a + 1, b)) = IF a + 1 <= b THEN b - (a + 1) + 1 ELSE 0
        /\ \A i \in 1..b - (a + 1) + 1 : SubSeq(line, a + 1, b)[i] = line[(a + 1) + i - 1]
    BY <2>1, <2>2, SubSeqProperties
  <2>4. \A i \in 1..b - a : (a + 1) + i - 1 = a + i /\ a + i \in 1..L
    BY <1>1, <1>2, <1>4
  <2> QED BY <2>1, <2>3, <2>4
<1>8. SubSeq(line, 1, b) = SubSeq(line, 1, a) \o SubSeq(line, a + 1, b)
  <2>1. 1 \in 1..Len(line) + 1 /\ a \in 1 - 1..Len(line) /\ b \in a..Len(line)
    BY <1>1, <1>2, <1>4 DEF L
  <2> QED BY <1>1, <2>1, ConcatAdjacentSubSeq
<1> QED BY <1>4, <1>5, <1>6, <1>7, <1>8 DEF a, b, L, Words

\* A line on the wire: its chunks, each on a physical line that is not empty
\* and not too long, the first as it is and the others behind a space.
LEMMA FoldsAre ==
  ASSUME NEW line \in Words, line # <<>>
  PROVE  \E c \in Nat \ {0} :
           /\ WriteFolded(line) = FlattenSeq(ChunksOf(line, c))
           /\ ChunksOf(line, c) \in Seq(Words) /\ Len(ChunksOf(line, c)) = c
           /\ \A n \in 1..c :
                /\ Before(n) < Len(line)
                /\ Chunk(line, n) \in Words /\ Chunk(line, n) # <<>>
                /\ Len(Chunk(line, n)) <= Limit
                /\ ChunksOf(line, c)[n] = Chunk(line, n) \o <<CR, LF>>
           /\ Reached(line, c) = Len(line)
<1> DEFINE L == Len(line)
           chunks == {n \in 1..L : Before(n) < L}
<1>1. L \in Nat /\ L # 0
  BY LenProperties, EmptySeq DEF Words
<1>2. PICK c \in Nat : /\ Cardinality(chunks) = c
                       /\ \A n \in 1..c : Before(n) < L
                       /\ Before(c + 1) >= L
  <2> HIDE DEF L
  <2> QED BY <1>1, ChunksAre
<1>3. c # 0
  BY <1>1, <1>2, BeforeGrows
<1>4. WriteFolded(line) = FlattenSeq(ChunksOf(line, c))
  <2>1. ChunksOf(line, c) =
          [n \in 1..c |->
             (IF n = 1 THEN <<>> ELSE <<SP>>)
               \o SubSeq(line, Before(n) + 1, Min({Before(n + 1), Len(line)})) \o <<CR, LF>>]
    BY DEF ChunksOf, Chunk, Body
  <2> QED BY <1>2, <2>1 DEF WriteFolded
<1>5. ASSUME NEW n \in 1..c
      PROVE  /\ Before(n) < L
             /\ Chunk(line, n) \in Words /\ Chunk(line, n) # <<>>
             /\ Len(Chunk(line, n)) <= Limit
  <2>1. /\ Body(line, n) \in Words
        /\ Len(Body(line, n)) = Reached(line, n) - Before(n)
        /\ Reached(line, n) \in 1..L /\ Before(n) < Reached(line, n)
        /\ Reached(line, n) <= Before(n + 1)
    BY <1>2, ChunkIs
  <2>2. n \in Nat \ {0} /\ Before(n) \in Nat
        /\ Before(n + 1) = Before(n) + IF n = 1 THEN Limit ELSE Limit - 1
    <3>1. n \in Nat \ {0}
      OBVIOUS
    <3> QED BY <3>1, BeforeGrows
  <2>3. Limit \in Nat /\ Limit >= 2
    BY LimitAssumption
  <2> DEFINE b == Body(line, n)
  <2> HIDE DEF b, L
  <2>4. <<SP>> \in Seq(Alphabet) /\ <<>> \in Seq(Alphabet) /\ Len(<<SP>>) = 1 /\ Len(<<>>) = 0
    BY Marks, ShortWords DEF Words
  <2>5. \A s, t \in Seq(Alphabet) : s \o t \in Seq(Alphabet) /\ Len(s \o t) = Len(s) + Len(t)
    OBVIOUS
  <2> DEFINE s == IF n = 1 THEN <<>> ELSE <<SP>>
  <2>6. s \in Seq(Alphabet) /\ Len(s) = IF n = 1 THEN 0 ELSE 1
    BY <2>4
  <2> HIDE DEF s
  <2>7. Chunk(line, n) = s \o b
    BY DEF Chunk, s, b
  <2>8. s \o b \in Seq(Alphabet) /\ Len(s \o b) = Len(s) + Len(b)
    BY <2>1, <2>5, <2>6 DEF b, Words
  <2>9. Len(b) \in Nat /\ Len(b) >= 1 /\ Len(s) + Len(b) <= Limit
    BY <1>1, <2>1, <2>2, <2>3, <2>6 DEF b
  <2>10. s \o b # <<>>
    BY <2>4, <2>6, <2>8, <2>9
  <2> QED BY <1>2, <2>7, <2>8, <2>9, <2>10 DEF Words
<1>6. /\ ChunksOf(line, c) \in Seq(Words) /\ Len(ChunksOf(line, c)) = c
      /\ \A n \in 1..c : ChunksOf(line, c)[n] = Chunk(line, n) \o <<CR, LF>>
  <2> DEFINE q == ChunksOf(line, c)
  <2>1. q = [n \in 1..c |-> q[n]] /\ \A n \in 1..c : q[n] = Chunk(line, n) \o <<CR, LF>>
    BY DEF ChunksOf
  <2> HIDE DEF q
  <2>2. <<CR, LF>> \in Seq(Alphabet)
    BY Marks, ShortWords DEF Words
  <2>3. \A s, t \in Seq(Alphabet) : s \o t \in Seq(Alphabet)
    OBVIOUS
  <2>4. \A n \in 1..c : q[n] \in Seq(Alphabet)
    BY <1>5, <2>1, <2>2, <2>3 DEF Words
  <2>5. q \in Seq(Seq(Alphabet)) /\ Len(q) = c
    BY <2>1, <2>4, PiecesOf
  <2> QED BY <2>1, <2>5 DEF q, Words
<1>7. Reached(line, c) = L
  <2>1. c + 1 \in Nat \ {0} /\ Before(c + 1) \in Nat
    <3>1. c + 1 \in Nat \ {0}
      OBVIOUS
    <3> QED BY <3>1, BeforeGrows
  <2>2. Reached(line, c) = Min({Before(c + 1), L})
    BY <1>3 DEF Reached
  <2>3. Min({Before(c + 1), L}) = IF Before(c + 1) <= L THEN Before(c + 1) ELSE L
    BY <1>1, <2>1, MinOfTwo
  <2> HIDE DEF L
  <2> QED BY <1>1, <1>2, <2>1, <2>2, <2>3
<1>8. c \in Nat \ {0}
  BY <1>3
<1> HIDE DEF chunks
<1> QED BY <1>4, <1>5, <1>6, <1>7, <1>8

-----------------------------------------------------------------------------
(* Quotes. *)

\* Every quote that opens closes.
Balanced(text) == ~Quoted(text, Len(text) + 1)

LEMMA QuotedNext ==
  ASSUME NEW text, NEW i \in Nat \ {0}
  PROVE  /\ ~Quoted(text, 1)
         /\ Quoted(text, i + 1) <=> ~(Quoted(text, i) <=> text[i] = DQ)
<1> DEFINE A == {j \in 1..i - 1 : text[j] = DQ}
           B == {j \in 1..(i + 1) - 1 : text[j] = DQ}
<1>1. IsFiniteSet(A) /\ Cardinality(A) \in Nat
  <2>1. IsFiniteSet(1..i - 1)
    BY FS_Interval
  <2>2. A \in SUBSET (1..i - 1)
    OBVIOUS
  <2> HIDE DEF A
  <2>3. IsFiniteSet(A)
    BY <2>1, <2>2, FS_Subset
  <2> QED BY <2>3, FS_CardinalityType
<1>2. ~Quoted(text, 1)
  <2>1. {j \in 1..1 - 1 : text[j] = DQ} = {}
    OBVIOUS
  <2>2. Cardinality({}) = 0
    BY FS_EmptySet
  <2>3. Cardinality({j \in 1..1 - 1 : text[j] = DQ}) = 0
    BY <2>1, <2>2
  <2> QED BY <2>3 DEF Quoted
<1>3. CASE text[i] = DQ
  <2>1. B = A \cup {i} /\ i \notin A
    BY <1>3
  <2> HIDE DEF A, B
  <2>2. Cardinality(B) = Cardinality(A) + 1
    BY <1>1, <2>1, FS_AddElement
  <2>3. \A m \in Nat : (m + 1) % 2 = 1 <=> m % 2 # 1
    OBVIOUS
  <2>4. Cardinality(B) % 2 = 1 <=> Cardinality(A) % 2 # 1
    BY <1>1, <2>2, <2>3
  <2> QED BY <1>2, <1>3, <2>4 DEF Quoted, A, B
<1>4. CASE text[i] # DQ
  <2>1. B = A
    BY <1>4
  <2> HIDE DEF A, B
  <2>2. Cardinality(B) % 2 = 1 <=> Cardinality(A) % 2 = 1
    BY <2>1
  <2> QED BY <1>2, <1>4, <2>2 DEF Quoted, A, B
<1> QED BY <1>3, <1>4

\* A text is quoted as it is alone, whatever comes behind it, and behind
\* whatever closes its quotes.
LEMMA QuotedConcat ==
  ASSUME NEW S, NEW s \in Seq(S), NEW t \in Seq(S)
  PROVE  /\ \A i \in 1..Len(s) + 1 : Quoted(s \o t, i) <=> Quoted(s, i)
         /\ Balanced(s) =>
              \A i \in 1..Len(t) + 1 : Quoted(s \o t, Len(s) + i) <=> Quoted(t, i)
<1> DEFINE u == s \o t
           n == Len(s)
           m == Len(t)
<1>1. /\ n \in Nat /\ m \in Nat
      /\ \A i \in 1..n : u[i] = s[i]
      /\ \A i \in 1..m : u[n + i] = t[i]
  BY CutConcat
<1> HIDE DEF u, n, m
<1>2. ASSUME NEW i \in 1..n + 1 PROVE Quoted(u, i) <=> Quoted(s, i)
  <2>1. \A j \in 1..i - 1 : j \in 1..n
    BY <1>1
  <2>2. {j \in 1..i - 1 : u[j] = DQ} = {j \in 1..i - 1 : s[j] = DQ}
    BY <1>1, <2>1
  <2> QED BY <2>2 DEF Quoted
<1>3. ASSUME ~Quoted(s, n + 1)
      PROVE  \A i \in 1..m + 1 : Quoted(u, n + i) <=> Quoted(t, i)
  <2> DEFINE T == {i \in Nat : i <= m => (Quoted(u, n + (i + 1)) <=> Quoted(t, i + 1))}
  <2>1. 0 \in T
    <3>1. ~Quoted(t, 1)
      BY QuotedNext
    <3>2. ~Quoted(u, n + 1)
      <4>1. n + 1 \in 1..n + 1
        BY <1>1
      <4> QED BY <1>2, <1>3, <4>1
    <3> QED BY <3>1, <3>2
  <2>2. ASSUME NEW i \in Nat, i \in T PROVE i + 1 \in T
    <3> SUFFICES ASSUME i + 1 <= m
                 PROVE  Quoted(u, n + ((i + 1) + 1)) <=> Quoted(t, (i + 1) + 1)
      OBVIOUS
    <3>1. /\ i <= m /\ i + 1 \in 1..m /\ i + 1 \in Nat \ {0} /\ n + (i + 1) \in Nat \ {0}
          /\ n + ((i + 1) + 1) = (n + (i + 1)) + 1
      BY <1>1
    <3>2. Quoted(u, n + (i + 1)) <=> Quoted(t, i + 1)
      BY <2>2, <3>1
    <3>3. u[n + (i + 1)] = t[i + 1]
      BY <1>1, <3>1
    <3>4. Quoted(t, (i + 1) + 1) <=> ~(Quoted(t, i + 1) <=> t[i + 1] = DQ)
      BY <3>1, QuotedNext
    <3>5. Quoted(u, (n + (i + 1)) + 1)
            <=> ~(Quoted(u, n + (i + 1)) <=> u[n + (i + 1)] = DQ)
      BY <3>1, QuotedNext
    <3> QED BY <3>1, <3>2, <3>3, <3>4, <3>5
  <2>3. Nat \subseteq T
    <3> HIDE DEF T
    <3> QED BY <2>1, <2>2, SetInduction
  <2> TAKE i \in 1..m + 1
  <2>4. i - 1 \in Nat /\ i - 1 <= m /\ (i - 1) + 1 = i
    BY <1>1
  <2>5. i - 1 \in T
    <3> HIDE DEF T
    <3> QED BY <2>3, <2>4
  <2> QED BY <2>4, <2>5
<1> QED BY <1>2, <1>3 DEF u, n, m, Balanced

\* What is outside quotes in two texts together, the first of which closes its
\* quotes.
LEMMA UnquotedConcat ==
  ASSUME NEW S, NEW s \in Seq(S), NEW t \in Seq(S), Balanced(s)
  PROVE  /\ Balanced(s \o t) <=> Balanced(t)
         /\ \A o : Unquoted(s \o t, o) =
                     Unquoted(s, o) \cup {Len(s) + i : i \in Unquoted(t, o)}
<1> DEFINE u == s \o t
           n == Len(s)
           m == Len(t)
<1>1. /\ n \in Nat /\ m \in Nat /\ Len(u) = n + m /\ u \in Seq(S)
      /\ \A i \in 1..n : u[i] = s[i]
      /\ \A i \in 1..m : u[n + i] = t[i]
  BY CutConcat
<1>2. /\ DOMAIN u = 1..n + m /\ DOMAIN s = 1..n /\ DOMAIN t = 1..m
  <2>1. DOMAIN s = 1..n /\ DOMAIN t = 1..m
    BY LenProperties
  <2> HIDE DEF u
  <2> QED BY <1>1, <2>1, LenProperties
<1>3. /\ \A i \in 1..n + 1 : Quoted(u, i) <=> Quoted(s, i)
      /\ \A i \in 1..m + 1 : Quoted(u, n + i) <=> Quoted(t, i)
  BY QuotedConcat
<1> HIDE DEF u, n, m
<1>4. Balanced(u) <=> Balanced(t)
  <2>1. m + 1 \in 1..m + 1 /\ n + (m + 1) = (n + m) + 1
    BY <1>1
  <2>2. Quoted(u, n + (m + 1)) <=> Quoted(t, m + 1)
    BY <1>3, <2>1
  <2> QED BY <1>1, <2>1, <2>2 DEF Balanced, m
<1>5. ASSUME NEW o
      PROVE  Unquoted(u, o) = Unquoted(s, o) \cup {n + i : i \in Unquoted(t, o)}
  <2>1. ASSUME NEW k \in Unquoted(u, o)
        PROVE  k \in Unquoted(s, o) \cup {n + i : i \in Unquoted(t, o)}
    <3>1. k \in 1..n + m /\ u[k] = o /\ ~Quoted(u, k)
      BY <1>2 DEF Unquoted
    <3>2. CASE k \in 1..n
      <4>1. k \in 1..n + 1
        BY <1>1, <3>2
      <4>2. s[k] = o /\ ~Quoted(s, k)
        BY <1>1, <1>3, <3>1, <3>2, <4>1
      <4> QED BY <1>2, <3>2, <4>2 DEF Unquoted
    <3>3. CASE k \notin 1..n
      <4>1. k - n \in 1..m /\ k - n \in 1..m + 1 /\ n + (k - n) = k
        BY <1>1, <3>1, <3>3
      <4>2. t[k - n] = o /\ ~Quoted(t, k - n)
        BY <1>1, <1>3, <3>1, <4>1
      <4>3. k - n \in Unquoted(t, o)
        BY <1>2, <4>1, <4>2 DEF Unquoted
      <4> QED BY <4>1, <4>3
    <3> QED BY <3>2, <3>3
  <2>2. ASSUME NEW k \in Unquoted(s, o) PROVE k \in Unquoted(u, o)
    <3>1. k \in 1..n /\ s[k] = o /\ ~Quoted(s, k) /\ k \in 1..n + 1 /\ k \in 1..n + m
      BY <1>1, <1>2 DEF Unquoted
    <3> QED BY <1>1, <1>2, <1>3, <3>1 DEF Unquoted
  <2>3. ASSUME NEW i \in Unquoted(t, o) PROVE n + i \in Unquoted(u, o)
    <3>1. i \in 1..m /\ t[i] = o /\ ~Quoted(t, i) /\ i \in 1..m + 1 /\ n + i \in 1..n + m
      BY <1>1, <1>2 DEF Unquoted
    <3>2. u[n + i] = o /\ ~Quoted(u, n + i)
      BY <1>1, <1>3, <3>1
    <3> QED BY <1>2, <3>1, <3>2 DEF Unquoted
  <2> QED BY <2>1, <2>2, <2>3
<1> QED BY <1>4, <1>5 DEF u, n

\* A text without quotes.
LEMMA PlainIs ==
  ASSUME NEW S, NEW s \in Seq(S), DQ \notin S
  PROVE  /\ Balanced(s)
         /\ \A i \in 1..Len(s) + 1 : ~Quoted(s, i)
         /\ \A o : Unquoted(s, o) = {i \in 1..Len(s) : s[i] = o}
<1>1. Len(s) \in Nat /\ DOMAIN s = 1..Len(s) /\ \A i \in 1..Len(s) : s[i] # DQ
  <2>1. \A i \in 1..Len(s) : s[i] \in S
    BY ElementOfSeq
  <2> QED BY <2>1, LenProperties
<1>2. ASSUME NEW i \in 1..Len(s) + 1 PROVE ~Quoted(s, i)
  <2>1. \A j \in 1..i - 1 : j \in 1..Len(s)
    BY <1>1
  <2>2. {j \in 1..i - 1 : s[j] = DQ} = {}
    BY <1>1, <2>1
  <2>3. Cardinality({}) = 0
    BY FS_EmptySet
  <2>4. Cardinality({j \in 1..i - 1 : s[j] = DQ}) = 0
    BY <2>2, <2>3
  <2> QED BY <2>4 DEF Quoted
<1>3. Len(s) + 1 \in 1..Len(s) + 1 /\ \A i \in 1..Len(s) : i \in 1..Len(s) + 1
  BY <1>1
<1> QED BY <1>1, <1>2, <1>3 DEF Balanced, Unquoted

\* A text in quotes.
LEMMA QuotedWhole ==
  ASSUME NEW S, NEW s \in Seq(S), DQ \notin S
  PROVE  LET w == <<DQ>> \o s \o <<DQ>>
         IN  Balanced(w) /\ \A o : o # DQ => Unquoted(w, o) = {}
<1> DEFINE R == S \cup {DQ}
           a == <<DQ>> \o s
           w == a \o <<DQ>>
           n == Len(s)
<1>1. <<DQ>> \in Seq(R) /\ Len(<<DQ>>) = 1 /\ <<DQ>>[1] = DQ
  <2>1. DQ \in R
    OBVIOUS
  <2> HIDE DEF R
  <2> QED BY <2>1
<1>2. s \in Seq(R)
  <2>1. S \subseteq R
    OBVIOUS
  <2> HIDE DEF R
  <2> QED BY <2>1, SeqMonotonic
<1> DEFINE d == <<DQ>>
<1> HIDE DEF R
<1>3. /\ a \in Seq(R) /\ Len(a) = 1 + n /\ n \in Nat /\ a[1] = DQ
      /\ \A i \in 1..n : a[1 + i] = s[i]
  <2>1. d \in Seq(R) /\ Len(d) = 1 /\ d[1] = DQ
    BY <1>1
  <2> HIDE DEF d
  <2>2. /\ d \o s \in Seq(R) /\ Len(d \o s) = Len(d) + Len(s) /\ Len(s) \in Nat
        /\ \A i \in 1..Len(d) : (d \o s)[i] = d[i]
        /\ \A i \in 1..Len(s) : (d \o s)[Len(d) + i] = s[i]
    BY <1>2, <2>1, CutConcat
  <2>3. 1 \in 1..Len(d)
    BY <2>1
  <2> QED BY <2>1, <2>2, <2>3 DEF d
<1>4. /\ w \in Seq(R) /\ Len(w) = n + 2
      /\ w[1] = DQ /\ w[n + 2] = DQ
      /\ \A i \in 1..n : w[1 + i] = s[i]
  <2>1. d \in Seq(R) /\ Len(d) = 1 /\ d[1] = DQ
    BY <1>1
  <2> HIDE DEF d, a
  <2>2. /\ a \o d \in Seq(R) /\ Len(a \o d) = Len(a) + Len(d)
        /\ \A i \in 1..Len(a) : (a \o d)[i] = a[i]
        /\ \A i \in 1..Len(d) : (a \o d)[Len(a) + i] = d[i]
    <3>1. a \in Seq(R)
      BY <1>3
    <3>2. \A x, y \in Seq(R) :
            /\ x \o y \in Seq(R) /\ Len(x \o y) = Len(x) + Len(y)
            /\ \A i \in 1..Len(x) : (x \o y)[i] = x[i]
            /\ \A i \in 1..Len(y) : (x \o y)[Len(x) + i] = y[i]
      BY CutConcat
    <3> HIDE DEF w
    <3> QED BY <2>1, <3>1, <3>2
  <2>3. 1 \in 1..Len(d) /\ 1 \in 1..Len(a) /\ \A i \in 1..n : 1 + i \in 1..Len(a)
    BY <1>3, <2>1
  <2>4. (a \o d)[n + 2] = DQ
    <3>1. (a \o d)[Len(a) + 1] = d[1] /\ Len(a) + 1 = n + 2
      BY <1>3, <2>2, <2>3
    <3> QED BY <2>1, <3>1
  <2> QED BY <1>3, <2>1, <2>2, <2>3, <2>4 DEF d
<1>5. \A i \in 1..n : s[i] # DQ
  <2>1. \A i \in 1..n : s[i] \in S
    BY ElementOfSeq
  <2> QED BY <2>1
<1> HIDE DEF w, a
<1>6. ASSUME NEW i \in 2..n + 2 PROVE Quoted(w, i)
  <2>1. \A j \in 1..i - 1 : w[j] = DQ <=> j = 1
    <3> TAKE j \in 1..i - 1
    <3>1. CASE j = 1
      BY <1>4, <3>1
    <3>2. CASE j # 1
      <4>1. j - 1 \in 1..n /\ 1 + (j - 1) = j
        BY <1>3, <3>2
      <4> QED BY <1>4, <1>5, <3>2, <4>1
    <3> QED BY <3>1, <3>2
  <2>2. 1 \in 1..i - 1
    BY <1>3
  <2>3. {j \in 1..i - 1 : w[j] = DQ} = {1}
    BY <2>1, <2>2
  <2>4. Cardinality({1}) = 1
    BY FS_Singleton
  <2>5. Cardinality({j \in 1..i - 1 : w[j] = DQ}) = 1
    BY <2>3, <2>4
  <2> QED BY <2>5 DEF Quoted
<1>7. Balanced(w)
  <2>1. n + 2 \in 2..n + 2 /\ n + 2 \in Nat \ {0}
    BY <1>3
  <2>2. Quoted(w, (n + 2) + 1) <=> ~(Quoted(w, n + 2) <=> w[n + 2] = DQ)
    BY <2>1, QuotedNext
  <2> QED BY <1>4, <1>6, <2>1, <2>2 DEF Balanced
<1>8. ASSUME NEW o, o # DQ PROVE Unquoted(w, o) = {}
  <2>1. ASSUME NEW k \in Unquoted(w, o) PROVE FALSE
    <3>1. k \in 1..n + 2 /\ w[k] = o /\ ~Quoted(w, k)
      BY <1>4, LenProperties DEF Unquoted
    <3>2. k # 1
      BY <1>4, <1>8, <3>1
    <3>3. k \in 2..n + 2
      BY <1>3, <3>1, <3>2
    <3> QED BY <1>6, <3>1, <3>3
  <2> QED BY <2>1
<1> QED BY <1>7, <1>8 DEF w, a

-----------------------------------------------------------------------------
(* Names, parameters and their parts. *)

\* A text that has none of some octets.
LEMMA HasNone ==
  ASSUME NEW S, NEW text \in Seq(S), NEW M, ~Has(text, M)
  PROVE  text \in Seq(S \ M)
<1>1. Len(text) \in Nat /\ DOMAIN text = 1..Len(text) /\ text = [i \in 1..Len(text) |-> text[i]]
  OBVIOUS
<1>2. \A i \in 1..Len(text) : text[i] \in S \ M
  <2> TAKE i \in 1..Len(text)
  <2>1. text[i] \in ToSet(text)
    BY <1>1 DEF ToSet
  <2> QED BY <2>1 DEF Has
<1>3. text \in [1..Len(text) -> S \ M]
  BY <1>1, <1>2
<1> QED BY <1>1, <1>3

\* The octets that separate the parts of a line.
Separators == {DQ, LF, SP, ";", ":", "="}

\* Capitals separate nothing, and stay as they are.
LEMMA UpperIs ==
  ASSUME NEW M \in SUBSET Separators, NEW t \in Seq(Alphabet \ M)
  PROVE  /\ Upper(t) \in Seq(Alphabet \ M) /\ Len(Upper(t)) = Len(t)
         /\ Upper(Upper(t)) = Upper(t)
         /\ \A i \in 1..Len(t) : t[i] # SP => Upper(t)[i] # SP
<1> DEFINE n == Len(t)
           u == Upper(t)
           C(x) == IF x \in DOMAIN Capital THEN Capital[x] ELSE x
<1>1. n \in Nat /\ DOMAIN t = 1..n /\ \A i \in 1..n : t[i] \in Alphabet \ M
  BY LenProperties, ElementOfSeq
<1>2. ASSUME NEW x \in Alphabet \ M
      PROVE  C(x) \in Alphabet \ M /\ C(C(x)) = C(x) /\ (x # SP => C(x) # SP)
  <2>1. CASE x \in DOMAIN Capital
    <3>1. /\ {x, Capital[x]} \cap {DQ, LF, SP, ";", ":", "="} = {}
          /\ Capital[x] \in STRING \ DOMAIN Capital
      BY <2>1, CapitalAssumption
    <3>2. Capital[x] \notin Separators
      BY <3>1 DEF Separators
    <3>3. Capital[x] \in Alphabet
      BY <3>1, Marks
    <3>4. SP \in Separators
      BY DEF Separators
    <3> QED BY <2>1, <3>1, <3>2, <3>3, <3>4
  <2>2. CASE x \notin DOMAIN Capital
    BY <2>2
  <2> QED BY <2>1, <2>2
<1>3. \A v : DOMAIN v = 1..n => Upper(v) = [i \in 1..n |-> C(v[i])]
  BY DEF Upper
<1> HIDE DEF C
<1>4. u = [i \in 1..n |-> C(t[i])]
  BY <1>1, <1>3
<1>5. u \in [1..n -> Alphabet \ M] /\ \A i \in 1..n : u[i] = C(t[i])
  <2> HIDE DEF u
  <2> QED BY <1>1, <1>2, <1>4
<1>6. u \in Seq(Alphabet \ M) /\ Len(u) = n
  <2> HIDE DEF u
  <2> QED BY <1>1, <1>5
<1>7. Upper(u) = u
  <2> HIDE DEF u
  <2>1. DOMAIN u = 1..n /\ u = [i \in 1..n |-> u[i]]
    BY <1>5
  <2>2. Upper(u) = [i \in 1..n |-> C(u[i])]
    BY <1>3, <2>1
  <2>3. \A i \in 1..n : C(u[i]) = u[i]
    BY <1>1, <1>2, <1>5
  <2> QED BY <2>1, <2>2, <2>3
<1>8. \A i \in 1..n : t[i] # SP => u[i] # SP
  BY <1>1, <1>2, <1>5
<1> QED BY <1>6, <1>7, <1>8

LEMMA GroupLengthIs ==
  ASSUME NEW S, NEW codec, NEW name \in Seq(S)
  PROVE  GroupLength(codec, name) \in 0..Len(name)
<1>1. Len(name) \in Nat /\ DOMAIN name = 1..Len(name)
  BY LenProperties
<1>2. CASE codec = "vcard" /\ Has(name, {"."})
  <2> DEFINE T == {i \in 1..Len(name) : name[i] = "."}
  <2>1. T \in SUBSET Nat /\ T # {}
    <3>1. PICK i \in DOMAIN name : name[i] = "."
      BY <1>2 DEF Has, ToSet
    <3>2. i \in T
      BY <1>1, <3>1
    <3> QED BY <1>1, <3>2
  <2>2. PICK i \in T : \A j \in T : i <= j
    <3> HIDE DEF T
    <3> QED BY <2>1, LeastNatural
  <2>3. i \in DOMAIN name /\ name[i] = "." /\ \A j \in 1..i - 1 : name[j] # "."
    <3>1. \A j \in 1..i - 1 : j \in 1..Len(name) /\ ~(i <= j)
      BY <1>1
    <3> QED BY <1>1, <2>2, <3>1
  <2>4. GroupLength(codec, name) =
          CHOOSE k \in DOMAIN name : name[k] = "." /\ \A j \in 1..k - 1 : name[j] # "."
    BY <1>2 DEF GroupLength
  <2>5. GroupLength(codec, name) \in DOMAIN name
    BY <2>3, <2>4
  <2> QED BY <1>1, <2>5
<1>3. CASE ~(codec = "vcard" /\ Has(name, {"."}))
  BY <1>1, <1>3 DEF GroupLength
<1> QED BY <1>2, <1>3

\* A name as it is written.
LEMMA NameIs ==
  ASSUME NEW codec \in {"ical", "vcard"}, NEW M \in SUBSET Separators,
         NEW name \in Seq(Alphabet \ M)
  PROVE  /\ WrittenName(codec, name) \in Seq(Alphabet \ M)
         /\ codec = "ical" => WrittenName(codec, name) = Upper(name)
<1> DEFINE S == Alphabet \ M
           g == GroupLength(codec, name)
           a == SubSeq(name, 1, g)
           b == SubSeq(name, g + 1, Len(name))
           group == IF g = 1 THEN <<>> ELSE a
           c == Upper(b)
<1> HIDE DEF S
<1>1. name \in Seq(S)
  BY DEF S
<1>2. g \in 0..Len(name)
  BY <1>1, GroupLengthIs
<1> HIDE DEF g
<1>3. /\ a \in Seq(S) /\ Len(a) = g /\ b \in Seq(S) /\ a \o b = name
  BY <1>1, <1>2, CutInTwo
<1> HIDE DEF a, b
<1>4. group \in Seq(S)
  BY <1>3
<1>5. c \in Seq(S)
  BY <1>3, UpperIs DEF S
<1>6. WrittenName(codec, name) = group \o c
  BY DEF WrittenName, a, b, g
<1> HIDE DEF c
<1>7. \A x \in Seq(S) : <<>> \o x = x
  OBVIOUS
<1>8. ASSUME codec = "ical" PROVE group \o c = Upper(name)
  <2>1. g = 0
    BY <1>8 DEF g, GroupLength
  <2>2. a = <<>>
    BY <1>3, <2>1, EmptySeq
  <2>3. b = name
    BY <1>3, <1>7, <2>2
  <2>4. group = <<>>
    BY <2>2
  <2> QED BY <1>5, <1>7, <2>3, <2>4 DEF c
<1> HIDE DEF group
<1>9. group \o c \in Seq(S)
  BY <1>4, <1>5
<1> QED BY <1>6, <1>8, <1>9 DEF S

LEMMA WithoutIs ==
  ASSUME NEW S, NEW text \in Seq(S), NEW octet
  PROVE  Without(text, octet) \in Seq(S \ {octet})
<1> DEFINE n == Len(text)
           R == S \ {octet}
           q == [i \in DOMAIN text |-> IF text[i] = octet THEN <<>> ELSE <<text[i]>>]
<1>1. n \in Nat /\ DOMAIN text = 1..n /\ \A i \in 1..n : text[i] \in S
  BY LenProperties, ElementOfSeq
<1>2. Without(text, octet) = FlattenSeq(q)
  BY DEF Without
<1>3. q = [i \in 1..n |-> q[i]]
  BY <1>1
<1>4. \A i \in 1..n : q[i] = IF text[i] = octet THEN <<>> ELSE <<text[i]>>
  BY <1>1
<1>5. \A i \in 1..n : text[i] # octet => text[i] \in R
  BY <1>1
<1> HIDE DEF q, R
<1>6. (\A x \in R : <<x>> \in Seq(R)) /\ <<>> \in Seq(R)
  OBVIOUS
<1>7. \A i \in 1..n : q[i] \in Seq(R)
  BY <1>4, <1>5, <1>6
<1>8. q \in Seq(Seq(R))
  BY <1>1, <1>3, <1>7, PiecesOf
<1>9. FlattenSeq(q) \in Seq(R)
  BY <1>8, FlattenAppend
<1> QED BY <1>2, <1>9 DEF R

\* The prover has no name for a semicolon.
Semi == ";"

LEMMA SemiIs ==
  /\ Semi \in Alphabet /\ Semi # DQ /\ Semi # LF /\ Semi # ":" /\ Semi # "="
  /\ {DQ, LF, Semi, ":", "="} \in SUBSET Separators /\ {DQ, LF, Semi, ":"} \in SUBSET Separators
<1>1. Semi # DQ /\ Semi # LF /\ Semi # ":" /\ Semi # "="
  BY DEF Semi, DQ, LF
<1>2. Semi \in Alphabet
  BY DEF Semi, Alphabet
<1>3. {DQ, LF, Semi, ":", "="} \in SUBSET Separators /\ {DQ, LF, Semi, ":"} \in SUBSET Separators
  BY DEF Semi, Separators
<1> QED BY <1>1, <1>2, <1>3

\* The octets a line may have, and those outside quotes.
Line == Alphabet \ {LF}

Plain == Line \ {DQ}

LEMMA LineConcat ==
  ASSUME NEW s \in Seq(Line), NEW t \in Seq(Line)
  PROVE  /\ s \o t \in Seq(Line) /\ Len(s \o t) = Len(s) + Len(t)
         /\ Len(s) \in Nat /\ Len(t) \in Nat
         /\ \A i \in 1..Len(s) : (s \o t)[i] = s[i]
         /\ \A i \in 1..Len(t) : (s \o t)[Len(s) + i] = t[i]
         /\ \A a \in Nat \ {0}, b \in 0..Len(s) :
              SubSeq(s \o t, a, b) = SubSeq(s, a, b) /\ SubSeq(s, a, b) \in Seq(Line)
         /\ SubSeq(s \o t, Len(s) + 1, Len(s \o t)) = t
         /\ SubSeq(s \o t, 1, Len(s)) = s
BY CutConcat

LEMMA LineQuotes ==
  ASSUME NEW s \in Seq(Line), NEW t \in Seq(Line)
  PROVE  /\ \A i \in 1..Len(s) + 1 : Quoted(s \o t, i) <=> Quoted(s, i)
         /\ Balanced(s) =>
              /\ Balanced(s \o t) <=> Balanced(t)
              /\ \A o : Unquoted(s \o t, o) =
                          Unquoted(s, o) \cup {Len(s) + i : i \in Unquoted(t, o)}
<1> DEFINE L == Line
<1>1. s \in Seq(L) /\ t \in Seq(L)
  OBVIOUS
<1> HIDE DEF L
<1>2. \A i \in 1..Len(s) + 1 : Quoted(s \o t, i) <=> Quoted(s, i)
  BY <1>1, QuotedConcat
<1>3. ASSUME Balanced(s)
      PROVE  /\ Balanced(s \o t) <=> Balanced(t)
             /\ \A o : Unquoted(s \o t, o) =
                         Unquoted(s, o) \cup {Len(s) + i : i \in Unquoted(t, o)}
  BY <1>1, <1>3, UnquotedConcat
<1> QED BY <1>2, <1>3

LEMMA PlainText ==
  ASSUME NEW s \in Seq(Plain)
  PROVE  /\ s \in Seq(Line) /\ Len(s) \in Nat
         /\ Balanced(s)
         /\ \A i \in 1..Len(s) + 1 : ~Quoted(s, i)
         /\ \A o : Unquoted(s, o) = {i \in 1..Len(s) : s[i] = o}
<1> DEFINE P == Plain
<1>1. s \in Seq(P) /\ DQ \notin P /\ P \subseteq Line
  BY DEF Plain
<1> HIDE DEF P
<1>2. s \in Seq(Line) /\ Len(s) \in Nat
  BY <1>1, SeqMonotonic, LenProperties
<1> QED BY <1>1, <1>2, PlainIs

LEMMA LineOne ==
  ASSUME NEW x \in Line
  PROVE  /\ <<x>> \in Seq(Line) /\ Len(<<x>>) = 1 /\ <<x>>[1] = x
         /\ x \in Plain => <<x>> \in Seq(Plain)
<1> DEFINE L == Line
           P == Plain
<1>1. x \in L
  OBVIOUS
<1> HIDE DEF L, P
<1>2. <<x>> \in Seq(L) /\ Len(<<x>>) = 1 /\ <<x>>[1] = x
  BY <1>1
<1>3. x \in P => <<x>> \in Seq(P)
  OBVIOUS
<1> QED BY <1>2, <1>3 DEF L, P

LEMMA LineAssociative ==
  /\ \A x, y, z \in Seq(Line) : (x \o y) \o z = x \o (y \o z)
  /\ \A x \in Seq(Line) : x \o <<>> = x /\ <<>> \o x = x
  /\ \A x \in Seq(Line), e \in Line : x \o <<e>> = Append(x, e)
<1>1. \A x, y, z \in Seq(Line) : (x \o y) \o z = x \o (y \o z)
  BY ConcatAssociative
<1>2. \A x \in Seq(Line) : x \o <<>> = x /\ <<>> \o x = x
  OBVIOUS
<1>3. \A x \in Seq(Line), e \in Line : x \o <<e>> = Append(x, e)
  OBVIOUS
<1> QED BY <1>1, <1>2, <1>3

\* What a codec keeps of a parameter's value.
Bare(codec, value) == IF codec = "ical" THEN Without(value, DQ) ELSE value

\* A parameter's value as it is written, in quotes or not.
LEMMA ValueIs ==
  ASSUME NEW codec \in {"ical", "vcard"}, NEW value \in Seq(Line),
         codec = "vcard" => value \in Seq(Plain)
  PROVE  LET w == WrittenParamValue(codec, value)
         IN  /\ w \in Seq(Line) /\ Balanced(w)
             /\ Unquoted(w, Semi) = {} /\ Unquoted(w, ":") = {}
             /\ StripQuotes(w) = Bare(codec, value)
<1> DEFINE w == WrittenParamValue(codec, value)
           bare == Bare(codec, value)
<1>1. bare \in Seq(Plain)
  BY WithoutIs DEF Bare, Plain
<1>2. w = IF Has(bare, {",", Semi, ":"}) THEN <<DQ>> \o bare \o <<DQ>> ELSE bare
  BY DEF WrittenParamValue, Bare, Semi
<1>3. DQ \in Line /\ Plain \subseteq Line /\ DQ \notin Plain
  <2>1. DQ # LF
    BY DEF DQ, LF, Semi
  <2> QED BY <2>1, Marks DEF Line, Plain
<1>4. bare \in Seq(Line)
  BY <1>1, <1>3, SeqMonotonic
<1> HIDE DEF bare, w
<1>5. Len(bare) \in Nat
  BY <1>1, LenProperties
<1>6. CASE Has(bare, {",", Semi, ":"})
  <2> DEFINE d == <<DQ>>
             a == d \o bare
  <2>1. d \in Seq(Line) /\ Len(d) = 1 /\ d[1] = DQ
    BY <1>3, LineOne
  <2>2. w = a \o d
    BY <1>2, <1>6
  <2>3. Balanced(w) /\ Unquoted(w, Semi) = {} /\ Unquoted(w, ":") = {}
    <3>1. Balanced(<<DQ>> \o bare \o <<DQ>>)
          /\ \A o : o # DQ => Unquoted(<<DQ>> \o bare \o <<DQ>>, o) = {}
      BY <1>1, <1>3, QuotedWhole
    <3>2. w = <<DQ>> \o bare \o <<DQ>>
      BY <1>2, <1>6
    <3>3. Semi # DQ /\ ":" # DQ
      BY SemiIs DEF DQ
    <3> QED BY <3>1, <3>2, <3>3
  <2> HIDE DEF d
  <2>4. /\ a \in Seq(Line) /\ Len(a) = 1 + Len(bare) /\ a[1] = DQ
        /\ SubSeq(a, 2, Len(a)) = bare
    <3>1. /\ d \o bare \in Seq(Line) /\ Len(d \o bare) = Len(d) + Len(bare)
          /\ \A i \in 1..Len(d) : (d \o bare)[i] = d[i]
          /\ SubSeq(d \o bare, Len(d) + 1, Len(d \o bare)) = bare
      BY <1>4, <2>1, LineConcat
    <3>2. 1 \in 1..Len(d)
      BY <2>1
    <3> QED BY <2>1, <3>1, <3>2
  <2> HIDE DEF a
  <2>5. /\ w \in Seq(Line) /\ Len(w) = Len(bare) + 2 /\ w[1] = DQ /\ w[Len(w)] = DQ
        /\ SubSeq(w, 2, Len(w) - 1) = SubSeq(a, 2, Len(a))
    <3>2. 1 \in 1..Len(d) /\ 1 \in 1..Len(a) /\ Len(a) \in 0..Len(a) /\ 2 \in Nat \ {0}
      BY <1>5, <2>1, <2>4
    <3>1. /\ a \o d \in Seq(Line) /\ Len(a \o d) = Len(a) + Len(d)
          /\ \A i \in 1..Len(a) : (a \o d)[i] = a[i]
          /\ \A i \in 1..Len(d) : (a \o d)[Len(a) + i] = d[i]
      BY <2>1, <2>4, LineConcat
    <3>6. \A s, t \in Seq(Line) : \A i \in Nat \ {0}, b \in 0..Len(s) :
            SubSeq(s \o t, i, b) = SubSeq(s, i, b)
      BY LineConcat
    <3>7. \A i \in Nat \ {0}, b \in 0..Len(a) : SubSeq(a \o d, i, b) = SubSeq(a, i, b)
      BY <2>1, <2>4, <3>6
    <3>3. Len(w) = Len(bare) + 2 /\ Len(w) - 1 = Len(a) /\ Len(a) + 1 = Len(w)
      BY <1>5, <2>1, <2>2, <2>4, <3>1
    <3>4. SubSeq(a \o d, 2, Len(a)) = SubSeq(a, 2, Len(a))
      BY <3>2, <3>7
    <3>5. w[1] = DQ /\ w[Len(w)] = DQ
      BY <2>1, <2>2, <2>4, <3>1, <3>2, <3>3
    <3> QED BY <2>2, <3>1, <3>3, <3>4, <3>5
  <2>6. StripQuotes(w) = bare
    BY <1>5, <2>4, <2>5 DEF StripQuotes, Last
  <2> QED BY <2>3, <2>5, <2>6 DEF w, bare
<1>7. CASE ~Has(bare, {",", Semi, ":"})
  <2>1. w = bare
    BY <1>2, <1>7
  <2>2. bare \in Seq(Plain \ {",", Semi, ":"})
    BY <1>1, <1>7, HasNone
  <2>3. \A i \in 1..Len(bare) : bare[i] \in Plain \ {",", Semi, ":"}
    BY <2>2, ElementOfSeq
  <2>4. Balanced(bare) /\ \A o : Unquoted(bare, o) = {i \in 1..Len(bare) : bare[i] = o}
    BY <1>1, PlainText
  <2>5. Unquoted(bare, Semi) = {} /\ Unquoted(bare, ":") = {}
    BY <2>3, <2>4
  <2>6. StripQuotes(bare) = bare
    <3>1. Len(bare) >= 2 => bare[1] # DQ
      <4>1. Len(bare) >= 2 => 1 \in 1..Len(bare)
        BY <1>5
      <4> QED BY <1>3, <2>3, <4>1
    <3> QED BY <3>1 DEF StripQuotes
  <2> QED BY <1>4, <2>1, <2>4, <2>5, <2>6 DEF w, bare
<1> QED BY <1>6, <1>7

\* A parameter as the parser sees it, without the separator before it.
Segment(codec, param) ==
  Upper(param.name) \o <<"=">> \o WrittenParamValue(codec, param.value)

ParamName == Alphabet \ {DQ, LF, Semi, ":", "="}

LEMMA SegmentIs ==
  ASSUME NEW codec \in {"ical", "vcard"}, NEW param,
         param.name \in Seq(ParamName), param.name # <<>>, param.value \in Seq(Line),
         codec = "vcard" => param.value \in Seq(Plain)
  PROVE  LET seg == Segment(codec, param)
         IN  /\ seg \in Seq(Line) /\ seg # <<>> /\ Balanced(seg)
             /\ Unquoted(seg, Semi) = {} /\ Unquoted(seg, ":") = {}
             /\ WrittenParam(codec, param) = <<Semi>> \o seg
             /\ ParseParam(codec, seg) =
                  {[name |-> Upper(param.name), value |-> Bare(codec, param.value)]}
<1> DEFINE u == Upper(param.name)
           e == <<"=">>
           w == WrittenParamValue(codec, param.value)
           a == u \o e
           seg == Segment(codec, param)
           n == Len(u)
<1>1. u \in Seq(ParamName) /\ n = Len(param.name)
  <2>1. {DQ, LF, Semi, ":", "="} \in SUBSET Separators
    BY SemiIs
  <2> QED BY <2>1, UpperIs DEF ParamName
<1>2. n \in Nat /\ n # 0
  BY <1>1, LenProperties, EmptySeq
<1>3. /\ w \in Seq(Line) /\ Balanced(w)
      /\ Unquoted(w, Semi) = {} /\ Unquoted(w, ":") = {}
      /\ StripQuotes(w) = Bare(codec, param.value)
  BY ValueIs
<1>4. ParamName \subseteq Plain /\ Plain \subseteq Line /\ "=" \in Plain /\ DQ \notin Plain
      /\ Semi \in Line
  <2>1. "=" # LF /\ "=" # DQ
    BY DEF DQ, LF
  <2>2. "=" \in Alphabet
    BY DEF Alphabet
  <2> QED BY <2>1, <2>2, SemiIs DEF ParamName, Plain, Line
<1>5. e \in Seq(Plain) /\ Len(e) = 1 /\ e[1] = "="
  BY <1>4, LineOne
<1>6. u \in Seq(Plain) /\ u \in Seq(Line) /\ e \in Seq(Line)
  <2>1. u \in Seq(Plain)
    BY <1>1, <1>4, SeqMonotonic
  <2> QED BY <1>5, <2>1, PlainText
<1>7. seg = a \o w
  BY DEF Segment
<1> HIDE DEF u, e, w, n
<1>8. /\ a \in Seq(Plain) /\ Len(a) = n + 1 /\ a[n + 1] = "="
      /\ \A i \in 1..n : a[i] = u[i]
      /\ SubSeq(a, 1, n) = u
  <2>1. /\ u \o e \in Seq(Plain) /\ Len(u \o e) = Len(u) + Len(e)
        /\ \A i \in 1..Len(u) : (u \o e)[i] = u[i]
        /\ \A i \in 1..Len(e) : (u \o e)[Len(u) + i] = e[i]
        /\ SubSeq(u \o e, 1, Len(u)) = u
    <3> DEFINE P == Plain
    <3>1. u \in Seq(P) /\ e \in Seq(P)
      BY <1>5, <1>6
    <3> HIDE DEF P
    <3>2. \A x, y \in Seq(P) :
            /\ x \o y \in Seq(P) /\ Len(x \o y) = Len(x) + Len(y)
            /\ \A i \in 1..Len(x) : (x \o y)[i] = x[i]
            /\ \A i \in 1..Len(y) : (x \o y)[Len(x) + i] = y[i]
            /\ SubSeq(x \o y, 1, Len(x)) = x
      BY CutConcat
    <3>3. /\ u \o e \in Seq(P) /\ Len(u \o e) = Len(u) + Len(e)
          /\ \A i \in 1..Len(u) : (u \o e)[i] = u[i]
          /\ \A i \in 1..Len(e) : (u \o e)[Len(u) + i] = e[i]
          /\ SubSeq(u \o e, 1, Len(u)) = u
      BY <3>1, <3>2
    <3> QED BY <3>3 DEF P
  <2>2. 1 \in 1..Len(e)
    BY <1>5
  <2> QED BY <1>5, <2>1, <2>2 DEF n
<1> HIDE DEF a
<1>9. a \in Seq(Line) /\ Balanced(a) /\ Unquoted(a, Semi) = {} /\ Unquoted(a, ":") = {}
      /\ \A i \in 1..Len(a) + 1 : ~Quoted(a, i)
  <2>1. a \in Seq(Line)
    BY <1>8, PlainText
  <2>2. /\ Balanced(a) /\ \A i \in 1..Len(a) + 1 : ~Quoted(a, i)
        /\ \A o : Unquoted(a, o) = {i \in 1..Len(a) : a[i] = o}
    BY <1>8, PlainText
  <2>3. \A i \in 1..Len(a) : a[i] # Semi /\ a[i] # ":"
    <3> TAKE i \in 1..Len(a)
    <3>1. CASE i \in 1..n
      <4>1. u[i] \in ParamName
        BY <1>1, <3>1, ElementOfSeq DEF n
      <4> QED BY <1>8, <3>1, <4>1 DEF ParamName
    <3>2. CASE i \notin 1..n
      <4>1. i = n + 1
        BY <1>2, <1>8, <3>2
      <4> QED BY <1>8, <4>1, SemiIs
    <3> QED BY <3>1, <3>2
  <2> QED BY <2>1, <2>2, <2>3
<1> HIDE DEF seg
<1>10. /\ seg \in Seq(Line) /\ Len(seg) = Len(a) + Len(w) /\ Len(w) \in Nat
       /\ \A i \in 1..Len(a) : seg[i] = a[i]
       /\ \A i \in Nat \ {0}, b \in 0..Len(a) : SubSeq(seg, i, b) = SubSeq(a, i, b)
       /\ SubSeq(seg, Len(a) + 1, Len(seg)) = w
  <2>1. \A s, t \in Seq(Line) :
          /\ s \o t \in Seq(Line) /\ Len(s \o t) = Len(s) + Len(t) /\ Len(t) \in Nat
          /\ \A i \in 1..Len(s) : (s \o t)[i] = s[i]
          /\ \A i \in Nat \ {0}, b \in 0..Len(s) : SubSeq(s \o t, i, b) = SubSeq(s, i, b)
          /\ SubSeq(s \o t, Len(s) + 1, Len(s \o t)) = t
    BY LineConcat
  <2>2. a \in Seq(Line) /\ w \in Seq(Line)
    BY <1>3, <1>9
  <2>3. /\ a \o w \in Seq(Line) /\ Len(a \o w) = Len(a) + Len(w) /\ Len(w) \in Nat
        /\ \A i \in 1..Len(a) : (a \o w)[i] = a[i]
        /\ SubSeq(a \o w, Len(a) + 1, Len(a \o w)) = w
    BY <2>1, <2>2
  <2>4. \A i \in Nat \ {0}, b \in 0..Len(a) : SubSeq(a \o w, i, b) = SubSeq(a, i, b)
    BY <2>1, <2>2
  <2> QED BY <1>7, <2>3, <2>4
<1>11. /\ Balanced(seg)
       /\ Unquoted(seg, Semi) = {} /\ Unquoted(seg, ":") = {}
  <2>1. /\ Balanced(a \o w) <=> Balanced(w)
        /\ \A o : Unquoted(a \o w, o) =
                    Unquoted(a, o) \cup {Len(a) + i : i \in Unquoted(w, o)}
    BY <1>3, <1>9, LineQuotes
  <2> QED BY <1>3, <1>7, <1>9, <2>1
<1>12. WrittenParam(codec, param) = <<Semi>> \o seg
  <2> DEFINE s == <<Semi>>
  <2>1. WrittenParam(codec, param) = ((s \o u) \o e) \o w
    BY DEF WrittenParam, u, e, w, Semi
  <2>2. s \in Seq(Line) /\ u \in Seq(Line) /\ e \in Seq(Line)
    BY <1>4, <1>6, LineOne
  <2> HIDE DEF s
  <2>5. \A x, y, z \in Seq(Line) : (x \o y) \o z = x \o (y \o z)
    BY ConcatAssociative
  <2>3. (s \o u) \o e = s \o a
    BY <2>2, <2>5 DEF a
  <2>4. (s \o a) \o w = s \o (a \o w)
    BY <1>3, <1>9, <2>2, <2>5
  <2> QED BY <1>7, <2>1, <2>3, <2>4 DEF s
<1>13. seg[n + 1] = "=" /\ ~Quoted(seg, n + 1) /\ n + 1 \in DOMAIN seg
       /\ DOMAIN seg = 1..Len(seg) /\ Len(seg) \in Nat
       /\ \A i \in DOMAIN seg : i < n + 1 => seg[i] # "="
  <2>1. n + 1 \in 1..Len(a) /\ n + 1 \in 1..Len(a) + 1 /\ n + 1 \in 1..Len(seg)
        /\ Len(seg) \in Nat
    BY <1>2, <1>8, <1>10
  <2>2. DOMAIN seg = 1..Len(seg)
    BY <1>10, LenProperties
  <2>3. ~Quoted(seg, n + 1)
    <3>1. \A i \in 1..Len(a) + 1 : Quoted(a \o w, i) <=> Quoted(a, i)
      BY <1>3, <1>9, LineQuotes
    <3> QED BY <1>7, <1>9, <2>1, <3>1
  <2>4. \A i \in DOMAIN seg : i < n + 1 => seg[i] # "="
    <3> TAKE i \in DOMAIN seg
    <3> HAVE i < n + 1
    <3>1. i \in 1..n /\ i \in 1..Len(a)
      BY <1>2, <1>8, <2>2
    <3>2. u[i] \in ParamName
      BY <1>1, <3>1, ElementOfSeq DEF n
    <3> QED BY <1>8, <1>10, <3>1, <3>2 DEF ParamName
  <2> QED BY <1>8, <1>10, <2>1, <2>2, <2>3, <2>4
<1> DEFINE signs == IF codec = "ical" THEN {i \in DOMAIN seg : seg[i] = "="}
                    ELSE Unquoted(seg, "=")
<1>14. First(signs) = {n + 1}
  <2>1. n + 1 \in signs /\ \A i \in signs : i \in DOMAIN seg /\ seg[i] = "="
    BY <1>13 DEF Unquoted
  <2> HIDE DEF signs
  <2>2. \A i \in signs : n + 1 <= i
    BY <1>2, <1>13, <2>1
  <2>3. ASSUME NEW i \in First(signs) PROVE i = n + 1
    <3>1. i \in signs /\ i <= n + 1
      BY <2>1 DEF First
    <3>2. n + 1 <= i /\ i \in Nat
      BY <1>13, <2>1, <2>2, <3>1
    <3> QED BY <1>2, <3>1, <3>2
  <2>4. n + 1 \in First(signs)
    BY <2>1, <2>2 DEF First
  <2> QED BY <2>3, <2>4
<1>15. ParseParam(codec, seg) = {[name |-> u, value |-> Bare(codec, param.value)]}
  <2>1. ParseParam(codec, seg) =
          {[name |-> SubSeq(seg, 1, i - 1),
            value |-> StripQuotes(SubSeq(seg, i + 1, Len(seg)))] : i \in First(signs) \ {1}}
    BY DEF ParseParam
  <2> HIDE DEF signs
  <2>2. First(signs) \ {1} = {n + 1}
    BY <1>2, <1>14
  <2>3. (n + 1) - 1 = n /\ (n + 1) + 1 = Len(a) + 1 /\ n \in 0..Len(a) /\ 1 \in Nat \ {0}
    BY <1>2, <1>8
  <2>4. SubSeq(seg, 1, n) = u
    BY <1>8, <1>10, <2>3
  <2>5. SubSeq(seg, (n + 1) + 1, Len(seg)) = w
    BY <1>10, <2>3
  <2> HIDE DEF signs
  <2>6. ParseParam(codec, seg) =
          {[name |-> SubSeq(seg, 1, (n + 1) - 1),
            value |-> StripQuotes(SubSeq(seg, (n + 1) + 1, Len(seg)))]}
    BY <2>1, <2>2
  <2> QED BY <1>3, <2>3, <2>4, <2>5, <2>6
<1>16. seg # <<>>
  <2>1. Len(<<>>) = 0
    OBVIOUS
  <2> QED BY <1>2, <1>8, <1>10, <2>1
<1> QED BY <1>10, <1>11, <1>12, <1>15, <1>16 DEF seg, u

LEMMA OneToOne == 1..1 = {1}
<1>1. \A i \in Int : i \in 1..1 <=> i = 1
  OBVIOUS
<1> QED BY <1>1

\* A segment behind a head: the head's own segments, and that one.
LEMMA SegmentAdded ==
  ASSUME NEW h \in Seq(Line), Balanced(h), Unquoted(h, ":") = {},
         NEW seg \in Seq(Line), Balanced(seg),
         Unquoted(seg, Semi) = {}, Unquoted(seg, ":") = {}
  PROVE  LET g == h \o (<<Semi>> \o seg)
         IN  /\ g \in Seq(Line) /\ Balanced(g) /\ Unquoted(g, ":") = {}
             /\ SplitUnquoted(g, Semi) = Append(SplitUnquoted(h, Semi), seg)
<1> DEFINE s == <<Semi>>
           t == s \o seg
           cuts == Unquoted(h, Semi)
<1>1. Semi \in Line /\ Semi \in Plain /\ Semi # ":"
  BY SemiIs DEF Line, Plain
<1>2. s \in Seq(Plain) /\ s \in Seq(Line) /\ Len(s) = 1 /\ s[1] = Semi
  BY <1>1, LineOne
<1> HIDE DEF s
<1>3. /\ Balanced(s) /\ Unquoted(s, Semi) = {1} /\ Unquoted(s, ":") = {}
  <2>1. Balanced(s) /\ \A o : Unquoted(s, o) = {i \in 1..Len(s) : s[i] = o}
    BY <1>2, PlainText
  <2>2. {i \in 1..Len(s) : s[i] = Semi} = {1} /\ {i \in 1..Len(s) : s[i] = ":"} = {}
    <3>1. 1..Len(s) = {1}
      BY <1>2, OneToOne
    <3> QED BY <1>1, <1>2, <3>1
  <2> QED BY <2>1, <2>2
<1>4. t \in Seq(Line) /\ Balanced(t) /\ Unquoted(t, Semi) = {1} /\ Unquoted(t, ":") = {}
  <2>1. s \o seg \in Seq(Line)
    BY <1>2, LineConcat
  <2>2. /\ Balanced(s \o seg) <=> Balanced(seg)
        /\ \A o : Unquoted(s \o seg, o) =
                    Unquoted(s, o) \cup {Len(s) + i : i \in Unquoted(seg, o)}
    BY <1>2, <1>3, LineQuotes
  <2> QED BY <1>3, <2>1, <2>2
<1> HIDE DEF t
<1>5. /\ h \o t \in Seq(Line) /\ Balanced(h \o t) /\ Unquoted(h \o t, ":") = {}
      /\ Unquoted(h \o t, Semi) = cuts \cup {Len(h) + 1}
  <2>1. h \o t \in Seq(Line)
    BY <1>4, LineConcat
  <2>2. /\ Balanced(h \o t) <=> Balanced(t)
        /\ \A o : Unquoted(h \o t, o) =
                    Unquoted(h, o) \cup {Len(h) + i : i \in Unquoted(t, o)}
    BY <1>4, LineQuotes
  <2>3. {Len(h) + i : i \in {1}} = {Len(h) + 1} /\ {Len(h) + i : i \in {}} = {}
    OBVIOUS
  <2> HIDE DEF cuts
  <2>4. Unquoted(h \o t, Semi) = cuts \cup {Len(h) + 1}
    BY <1>4, <2>2, <2>3 DEF cuts
  <2>5. Unquoted(h \o t, ":") = {}
    BY <1>4, <2>2, <2>3
  <2> QED BY <1>4, <2>1, <2>2, <2>4, <2>5
<1>6. cuts \in SUBSET (1..Len(h))
  <2>1. DOMAIN h = 1..Len(h)
    BY LenProperties
  <2> QED BY <2>1 DEF Unquoted
<1>7. h \o t = Append(h, Semi) \o seg
  <2>2. h \o t = (h \o s) \o seg
    BY <1>2, LineAssociative DEF t
  <2>3. h \o s = Append(h, Semi)
    BY <1>1, LineAssociative DEF s
  <2> QED BY <2>2, <2>3
<1>8. SplitAt(h \o t, cuts \cup {Len(h) + 1}) = Append(SplitAt(h, cuts), seg)
  <2> DEFINE L == Line
             u == Append(h, Semi)
             more == cuts \cup {Len(h) + 1}
  <2>1. h \in Seq(L) /\ seg \in Seq(L) /\ Semi \in L
    BY <1>1
  <2> HIDE DEF L, cuts
  <2>2. CutBehind(h, cuts, Semi, u, more)
    BY <1>6 DEF CutBehind
  <2> HIDE DEF u, more
  <2>3. SplitAt(u \o seg, more) = Append(SplitAt(h, cuts), seg)
    BY <2>1, <2>2, SplitGrows
  <2> QED BY <1>7, <2>3 DEF u, more
<1> QED BY <1>5, <1>8 DEF SplitUnquoted, t, s

\* The segments of a head are texts.
LEMMA SegmentsTyped ==
  ASSUME NEW h \in Seq(Line), NEW o
  PROVE  SplitUnquoted(h, o) \in Seq(Seq(Line))
<1> DEFINE cuts == Unquoted(h, o)
           L == Line
<1>1. cuts \in SUBSET (1..Len(h))
  <2>1. DOMAIN h = 1..Len(h)
    BY LenProperties
  <2> QED BY <2>1 DEF Unquoted
<1>2. h \in Seq(L)
  OBVIOUS
<1> HIDE DEF cuts, L
<1>3. SplitAt(h, cuts) = Append(Closed(h, cuts), Open(h, cuts))
  BY <1>1, <1>2, SplitIs
<1>4. Closed(h, cuts) \in Seq(Seq(L)) /\ Open(h, cuts) \in Seq(L)
  BY <1>1, <1>2, ClosedTyped
<1>5. Append(Closed(h, cuts), Open(h, cuts)) \in Seq(Seq(L))
  BY <1>4
<1> QED BY <1>3, <1>5 DEF SplitUnquoted, cuts, L

\* What an encoder needs of a parameter.
Sound(codec, param) ==
  /\ param.name \in Seq(ParamName) /\ param.name # <<>>
  /\ param.value \in Seq(Line)
  /\ codec = "vcard" => param.value \in Seq(Plain)

HeadOf(codec, name, params) ==
  name \o FlattenSeq([i \in DOMAIN params |-> WrittenParam(codec, params[i])])

LEMMA FlatParams ==
  ASSUME NEW codec \in {"ical", "vcard"}, NEW n \in Nat, NEW params,
         DOMAIN params = 1..n, \A i \in 1..n : Sound(codec, params[i])
  PROVE  LET q == [i \in DOMAIN params |-> WrittenParam(codec, params[i])]
         IN  q \in Seq(Seq(Line)) /\ Len(q) = n /\ FlattenSeq(q) \in Seq(Line)
<1> DEFINE L == Line
           q == [i \in DOMAIN params |-> WrittenParam(codec, params[i])]
<1>1. q = [i \in 1..n |-> q[i]] /\ \A i \in 1..n : q[i] = WrittenParam(codec, params[i])
  OBVIOUS
<1>2. \A i \in 1..n : WrittenParam(codec, params[i]) \in Seq(Line)
  <2> TAKE i \in 1..n
  <2>1. Sound(codec, params[i])
    OBVIOUS
  <2>2. /\ Segment(codec, params[i]) \in Seq(Line)
        /\ WrittenParam(codec, params[i]) = <<Semi>> \o Segment(codec, params[i])
    BY <2>1, SegmentIs DEF Sound
  <2>3. <<Semi>> \in Seq(Line)
    <3>1. Semi \in Line
      BY SemiIs DEF Line
    <3> QED BY <3>1, LineOne
  <2> QED BY <2>2, <2>3, LineConcat
<1> HIDE DEF q
<1>3. \A i \in 1..n : q[i] \in Seq(L)
  BY <1>1, <1>2
<1> HIDE DEF L
<1>4. q \in Seq(Seq(L)) /\ Len(q) = n
  BY <1>1, <1>3, PiecesOf
<1>5. FlattenSeq(q) \in Seq(L)
  BY <1>4, FlattenAppend
<1> QED BY <1>4, <1>5 DEF q, L

Naming == Plain \ {Semi, ":"}

SoundParams(codec, params, n) ==
  DOMAIN params = 1..n /\ \A i \in 1..n : Sound(codec, params[i])

HeadSplits(codec, name, params, n) ==
  LET h == HeadOf(codec, name, params)
      segs == SplitUnquoted(h, Semi)
  IN  /\ h \in Seq(Line) /\ Balanced(h) /\ Unquoted(h, ":") = {}
      /\ segs \in Seq(Seq(Line)) /\ Len(segs) = n + 1 /\ segs[1] = name
      /\ \A j \in 1..n : segs[j + 1] = Segment(codec, params[j])

\* The head of a line splits into the name and one segment for each parameter.
LEMMA HeadIs ==
  ASSUME NEW codec \in {"ical", "vcard"}, NEW name \in Seq(Naming), NEW n \in Nat,
         NEW params, SoundParams(codec, params, n)
  PROVE  HeadSplits(codec, name, params, n)
<1> USE DEF SoundParams
<1> DEFINE L == Line
           seg(i) == Segment(codec, params[i])
           q == [i \in DOMAIN params |-> WrittenParam(codec, params[i])]
           f(i) == FlattenSeq(SubSeq(q, 1, i))
           h(i) == name \o f(i)
           segs(i) == SplitUnquoted(h(i), Semi)
           P(i) == i \in 0..n =>
                     /\ h(i) \in Seq(L) /\ Balanced(h(i)) /\ Unquoted(h(i), ":") = {}
                     /\ segs(i) \in Seq(Seq(L)) /\ Len(segs(i)) = i + 1 /\ segs(i)[1] = name
                     /\ \A j \in 1..i : segs(i)[j + 1] = seg(j)
<1>1. \A i \in 1..n : /\ seg(i) \in Seq(Line) /\ Balanced(seg(i))
                      /\ Unquoted(seg(i), Semi) = {} /\ Unquoted(seg(i), ":") = {}
                      /\ WrittenParam(codec, params[i]) = <<Semi>> \o seg(i)
  <2> TAKE i \in 1..n
  <2>1. Sound(codec, params[i])
    OBVIOUS
  <2> QED BY <2>1, SegmentIs DEF Sound
<1>2. \A i \in 1..n : <<Semi>> \o seg(i) \in Seq(Line)
  <2>1. Semi \in Line
    BY SemiIs DEF Line
  <2>2. <<Semi>> \in Seq(Line)
    BY <2>1, LineOne
  <2> QED BY <1>1, <2>2, LineConcat
<1>3. /\ q = [i \in 1..n |-> q[i]]
      /\ \A i \in 1..n : q[i] = <<Semi>> \o seg(i)
  BY <1>1
<1> HIDE DEF seg, q
<1>4. q \in Seq(Seq(L)) /\ Len(q) = n
  <2>1. \A i \in 1..n : q[i] \in Seq(L)
    BY <1>2, <1>3
  <2> HIDE DEF L
  <2> QED BY <1>3, <2>1, PiecesOf
<1>5. /\ f(0) = <<>> /\ f(n) = FlattenSeq(q)
      /\ \A i \in 0..n : f(i) \in Seq(L)
      /\ \A i \in 0..n : i # n => f(i + 1) = f(i) \o q[i + 1]
  <2> HIDE DEF L
  <2> QED BY <1>4, FlattenUpTo
<1>6. name \in Seq(Plain) /\ name \in Seq(Line) /\ Balanced(name)
      /\ Unquoted(name, Semi) = {} /\ Unquoted(name, ":") = {}
  <2>1. name \in Seq(Plain)
    <3>1. Naming \subseteq Plain
      BY DEF Naming
    <3> QED BY <3>1, SeqMonotonic
  <2>2. \A i \in 1..Len(name) : name[i] \in Naming
    BY ElementOfSeq
  <2>3. name \in Seq(Line) /\ Balanced(name)
        /\ \A o : Unquoted(name, o) = {i \in 1..Len(name) : name[i] = o}
    BY <2>1, PlainText
  <2> QED BY <2>1, <2>2, <2>3 DEF Naming
<1> HIDE DEF f
<1>7. P(0)
  <2>1. h(0) = name
    <3>1. name \o <<>> = name
      BY <1>6, LineAssociative
    <3> QED BY <1>5, <3>1
  <2>2. SplitUnquoted(name, Semi) = <<name>>
    <3>1. name \in Seq(L)
      BY <1>6
    <3> HIDE DEF L
    <3>2. SplitAt(name, {}) = <<name>>
      BY <3>1, SplitWhole
    <3> QED BY <1>6, <3>2 DEF SplitUnquoted
  <2> DEFINE one == <<name>>
  <2>3. one \in Seq(Seq(L)) /\ Len(one) = 1 /\ one[1] = name
    <3> HIDE DEF L
    <3>1. \A x \in Seq(L) : <<x>> \in Seq(Seq(L))
      OBVIOUS
    <3>2. name \in Seq(L)
      BY <1>6 DEF L
    <3>3. <<name>> \in Seq(Seq(L))
      BY <3>1, <3>2
    <3> QED BY <3>3
  <2>4. segs(0) = one
    BY <2>1, <2>2
  <2> HIDE DEF h, segs, L, one
  <2>5. name \in Seq(L)
    BY <1>6 DEF L
  <2>6. \A j \in 1..0 : segs(0)[j + 1] = seg(j)
    OBVIOUS
  <2>7. segs(0) \in Seq(Seq(L)) /\ Len(segs(0)) = 0 + 1 /\ segs(0)[1] = name
    BY <2>3, <2>4
  <2> QED BY <1>6, <2>1, <2>5, <2>6, <2>7
<1>8. ASSUME NEW i \in Nat, P(i) PROVE P(i + 1)
  <2> SUFFICES ASSUME i + 1 \in 0..n
               PROVE  /\ h(i + 1) \in Seq(L) /\ Balanced(h(i + 1)) /\ Unquoted(h(i + 1), ":") = {}
                      /\ segs(i + 1) \in Seq(Seq(L)) /\ Len(segs(i + 1)) = (i + 1) + 1
                      /\ segs(i + 1)[1] = name
                      /\ \A j \in 1..i + 1 : segs(i + 1)[j + 1] = seg(j)
    OBVIOUS
  <2>1. i \in 0..n /\ i # n /\ i + 1 \in 1..n
    OBVIOUS
  <2>2. /\ h(i) \in Seq(L) /\ Balanced(h(i)) /\ Unquoted(h(i), ":") = {}
        /\ segs(i) \in Seq(Seq(L)) /\ Len(segs(i)) = i + 1 /\ segs(i)[1] = name
        /\ \A j \in 1..i : segs(i)[j + 1] = seg(j)
    BY <1>8, <2>1
  <2>3. f(i + 1) = f(i) \o (<<Semi>> \o seg(i + 1))
    BY <1>3, <1>5, <2>1
  <2>4. h(i + 1) = h(i) \o (<<Semi>> \o seg(i + 1))
    <3>1. \A x, y, z \in Seq(Line) : (x \o y) \o z = x \o (y \o z)
      BY ConcatAssociative
    <3>2. f(i) \in Seq(Line) /\ name \in Seq(Line) /\ <<Semi>> \o seg(i + 1) \in Seq(Line)
      BY <1>2, <1>5, <1>6, <2>1
    <3> DEFINE t == <<Semi>> \o seg(i + 1)
    <3>3. t \in Seq(Line) /\ f(i + 1) = f(i) \o t
      BY <2>3, <3>2
    <3> HIDE DEF t
    <3>4. (name \o f(i)) \o t = name \o (f(i) \o t)
      BY <3>1, <3>2, <3>3
    <3>5. h(i + 1) = h(i) \o t
      BY <3>3, <3>4
    <3> QED BY <3>5 DEF t
  <2>5. /\ h(i + 1) \in Seq(L) /\ Balanced(h(i + 1)) /\ Unquoted(h(i + 1), ":") = {}
        /\ segs(i + 1) = Append(segs(i), seg(i + 1))
    <3> DEFINE x == h(i)
               y == seg(i + 1)
    <3>1. x \in Seq(Line) /\ Balanced(x) /\ Unquoted(x, ":") = {}
      BY <2>2
    <3>2. y \in Seq(Line) /\ Balanced(y) /\ Unquoted(y, Semi) = {} /\ Unquoted(y, ":") = {}
      BY <1>1, <2>1
    <3> HIDE DEF x, y
    <3>3. /\ x \o (<<Semi>> \o y) \in Seq(Line) /\ Balanced(x \o (<<Semi>> \o y))
          /\ Unquoted(x \o (<<Semi>> \o y), ":") = {}
          /\ SplitUnquoted(x \o (<<Semi>> \o y), Semi) = Append(SplitUnquoted(x, Semi), y)
      BY <3>1, <3>2, SegmentAdded
    <3>4. h(i + 1) = x \o (<<Semi>> \o y)
      BY <2>4 DEF x, y
    <3>5. segs(i + 1) = Append(SplitUnquoted(x, Semi), y)
      BY <3>3, <3>4
    <3> HIDE DEF h
    <3> QED BY <3>3, <3>4, <3>5 DEF x, y
  <2>6. seg(i + 1) \in Seq(L)
    BY <1>1, <2>1
  <2> HIDE DEF h, segs, L
  <2>7. /\ Append(segs(i), seg(i + 1)) \in Seq(Seq(L))
        /\ Len(Append(segs(i), seg(i + 1))) = (i + 1) + 1
        /\ \A j \in 1..i + 1 : Append(segs(i), seg(i + 1))[j] = segs(i)[j]
        /\ Append(segs(i), seg(i + 1))[(i + 1) + 1] = seg(i + 1)
    BY <2>2, <2>6
  <2>8. \A j \in 1..i + 1 : segs(i + 1)[j + 1] = seg(j)
    <3> TAKE j \in 1..i + 1
    <3>1. CASE j = i + 1
      BY <2>5, <2>7, <3>1
    <3>2. CASE j # i + 1
      <4>1. j \in 1..i /\ j + 1 \in 1..i + 1
        BY <3>2
      <4> QED BY <2>2, <2>5, <2>7, <4>1
    <3> QED BY <3>1, <3>2
  <2>9. segs(i + 1)[1] = name
    <3>1. 1 \in 1..i + 1
      OBVIOUS
    <3>2. Append(segs(i), seg(i + 1))[1] = segs(i)[1]
      BY <2>7, <3>1
    <3> QED BY <2>2, <2>5, <3>2
  <2> QED BY <2>5, <2>7, <2>8, <2>9
<1> HIDE DEF P
<1>9. P(n)
  <2> DEFINE T == {i \in Nat : P(i)}
  <2>1. 0 \in T /\ \A i \in Nat : i \in T => i + 1 \in T
    BY <1>7, <1>8
  <2>2. Nat \subseteq T
    <3> HIDE DEF T
    <3> QED BY <2>1, SetInduction
  <2> QED BY <2>2
<1>10. HeadOf(codec, name, params) = h(n)
  BY <1>5 DEF HeadOf, q
<1>11. n \in 0..n
  OBVIOUS
<1> HIDE DEF h
<1> QED BY <1>9, <1>10, <1>11 DEF P, seg, HeadSplits

\* No escaped text breaks its line.
LEMMA EscapeIsLine ==
  ASSUME NEW codec \in {"ical", "vcard"}, NEW text \in Words
  PROVE  EscapeText(codec, text) \in Seq(Line)
<1> DEFINE L == Line
           n == Len(text)
           q == [i \in DOMAIN text |-> Escaped(codec, text[i])]
<1>1. n \in Nat /\ DOMAIN text = 1..n /\ \A i \in 1..n : text[i] \in Alphabet
  BY LenProperties, ElementOfSeq DEF Words
<1>2. ASSUME NEW octet \in Alphabet PROVE Escaped(codec, octet) \in Seq(Line)
  <2>1. /\ "\\" \in Line /\ "n" \in Line
        /\ octet # LF => octet \in Line
    <3>1. "\\" # LF /\ "n" # LF
      BY DEF LF, Semi
    <3> QED BY <3>1, Marks DEF Line
  <2>2. octet \in {"\\", ",", ";"} => octet # LF
    BY DEF LF, Semi
  <2>3. \A x, y \in Line : <<>> \in Seq(Line) /\ <<x>> \in Seq(Line) /\ <<x, y>> \in Seq(Line)
    BY OneOrTwo
  <2>4. CASE octet \in {"\\", ",", ";"}
    <3>1. Escaped(codec, octet) = <<"\\", octet>>
      BY <2>4 DEF Escaped, LF, CR
    <3> QED BY <2>1, <2>2, <2>3, <2>4, <3>1
  <2>5. CASE octet \notin {"\\", ",", ";"} /\ octet = LF
    <3>1. Escaped(codec, octet) = <<"\\", "n">>
      BY <2>5 DEF Escaped, LF, CR
    <3> QED BY <2>1, <2>3, <3>1
  <2>6. CASE octet \notin {"\\", ",", ";"} /\ octet # LF
    <3>1. Escaped(codec, octet) \in {<<>>, <<octet>>}
      BY <2>6 DEF Escaped
    <3> QED BY <2>1, <2>3, <2>6, <3>1
  <2> QED BY <2>4, <2>5, <2>6
<1>3. q = [i \in 1..n |-> q[i]] /\ \A i \in 1..n : q[i] = Escaped(codec, text[i])
  BY <1>1
<1>4. EscapeText(codec, text) = FlattenSeq(q)
  BY DEF EscapeText
<1> HIDE DEF q, n
<1>5. \A i \in 1..n : q[i] \in Seq(L)
  BY <1>1, <1>2, <1>3
<1> HIDE DEF L
<1>6. q \in Seq(Seq(L))
  BY <1>1, <1>3, <1>5, PiecesOf
<1>7. FlattenSeq(q) \in Seq(L)
  BY <1>6, FlattenAppend
<1> QED BY <1>4, <1>7 DEF L

-----------------------------------------------------------------------------
(* A line that was written is parsed into what was meant. *)

\* What the parser makes of a line's segments and its value.
ReadAs(codec, segments, value) ==
  LET name == segments[1]
      read == ParamSegments(codec, Tail(segments))
      params == [k \in DOMAIN read |-> ParseParam(codec, read[k])]
  IN  IF name = <<>> \/ {} \in Range(params) THEN {}
      ELSE {[name |-> name,
             params |-> [k \in DOMAIN params |-> CHOOSE p \in params[k] : TRUE],
             value |-> IF codec = "vcard" \/ TextProperty(name)
                       THEN UnescapeText(codec, value) ELSE value]}

\* A head, the first colon outside quotes, and a value.
Joined(h, v) == (h \o <<":">>) \o v

ColonReads(codec, h, v) ==
  LET line == Joined(h, v)
  IN  /\ line \in Seq(Line)
      /\ Len(line) = Len(h) + 1 + Len(v)
      /\ \A i \in 1..Len(h) : line[i] = h[i]
      /\ ParseContentLine(codec, line) = ReadAs(codec, SplitUnquoted(h, Semi), v)

LEMMA ParsedAtColon ==
  ASSUME NEW codec, NEW h \in Seq(Line), Balanced(h), Unquoted(h, ":") = {},
         NEW v \in Seq(Line)
  PROVE  ColonReads(codec, h, v)
<1> DEFINE s == <<":">>
           g == h \o s
           line == g \o v
           n == Len(h) + 1
<1>1. ":" \in Line /\ ":" \in Plain
  <2>1. ":" # DQ /\ ":" # LF
    BY DEF DQ, LF, Semi
  <2> QED BY <2>1, Marks DEF Line, Plain
<1>2. s \in Seq(Plain) /\ s \in Seq(Line) /\ Len(s) = 1 /\ s[1] = ":"
  BY <1>1, LineOne
<1> HIDE DEF s
<1>3. Balanced(s) /\ Unquoted(s, ":") = {1}
  <2>1. Balanced(s) /\ \A o : Unquoted(s, o) = {i \in 1..Len(s) : s[i] = o}
    BY <1>2, PlainText
  <2>2. {i \in 1..Len(s) : s[i] = ":"} = {1}
    BY <1>2, OneToOne
  <2> QED BY <2>1, <2>2
<1>4. /\ g \in Seq(Line) /\ Len(g) = n /\ Len(h) \in Nat /\ n \in Nat
      /\ \A i \in 1..Len(h) : g[i] = h[i]
      /\ SubSeq(g, 1, Len(h)) = h
  <2>1. /\ h \o s \in Seq(Line) /\ Len(h \o s) = Len(h) + Len(s) /\ Len(h) \in Nat
        /\ \A i \in 1..Len(h) : (h \o s)[i] = h[i]
        /\ SubSeq(h \o s, 1, Len(h)) = h
    BY <1>2, LineConcat
  <2> QED BY <1>2, <2>1
<1>5. Balanced(g) /\ Unquoted(g, ":") = {n}
  <2>1. /\ Balanced(h \o s) <=> Balanced(s)
        /\ \A o : Unquoted(h \o s, o) =
                    Unquoted(h, o) \cup {Len(h) + i : i \in Unquoted(s, o)}
    BY <1>2, LineQuotes
  <2>2. {Len(h) + i : i \in {1}} = {n}
    OBVIOUS
  <2> HIDE DEF n
  <2>3. Unquoted(h \o s, ":") = {n}
    BY <1>3, <2>1, <2>2
  <2> QED BY <1>3, <2>1, <2>3
<1> HIDE DEF g
<1>6. /\ line \in Seq(Line) /\ Len(line) = n + Len(v) /\ Len(v) \in Nat
      /\ \A i \in 1..n : line[i] = g[i]
      /\ \A a \in Nat \ {0}, b \in 0..n : SubSeq(line, a, b) = SubSeq(g, a, b)
      /\ SubSeq(line, n + 1, Len(line)) = v
  <2>1. \A x, y \in Seq(Line) :
          /\ x \o y \in Seq(Line) /\ Len(x \o y) = Len(x) + Len(y) /\ Len(y) \in Nat
          /\ \A i \in 1..Len(x) : (x \o y)[i] = x[i]
          /\ SubSeq(x \o y, Len(x) + 1, Len(x \o y)) = y
    BY LineConcat
  <2>2. \A x, y \in Seq(Line) : \A a \in Nat \ {0}, b \in 0..Len(x) :
          SubSeq(x \o y, a, b) = SubSeq(x, a, b)
    BY LineConcat
  <2>3. \A a \in Nat \ {0}, b \in 0..Len(g) : SubSeq(g \o v, a, b) = SubSeq(g, a, b)
    BY <1>4, <2>2
  <2>4. /\ g \o v \in Seq(Line) /\ Len(g \o v) = Len(g) + Len(v) /\ Len(v) \in Nat
        /\ \A i \in 1..Len(g) : (g \o v)[i] = g[i]
        /\ SubSeq(g \o v, Len(g) + 1, Len(g \o v)) = v
    BY <1>4, <2>1
  <2> QED BY <1>4, <2>3, <2>4
<1>7. Unquoted(line, ":") = {n} \cup {n + i : i \in Unquoted(v, ":")}
  <2>1. \A o : Unquoted(g \o v, o) = Unquoted(g, o) \cup {Len(g) + i : i \in Unquoted(v, o)}
    BY <1>4, <1>5, LineQuotes
  <2> QED BY <1>4, <1>5, <2>1
<1>8. First(Unquoted(line, ":")) = {n}
  <2> DEFINE colons == Unquoted(line, ":")
  <2>1. n \in colons /\ \A i \in colons : i \in Nat /\ n <= i
    <3>1. \A i \in Unquoted(v, ":") : i \in Nat
      <4>1. DOMAIN v = 1..Len(v)
        BY LenProperties
      <4> QED BY <4>1 DEF Unquoted
    <3> HIDE DEF line
    <3> QED BY <1>4, <1>7, <3>1
  <2> HIDE DEF colons, n
  <2>2. n \in First(colons)
    BY <2>1 DEF First
  <2>3. ASSUME NEW i \in First(colons) PROVE i = n
    <3>1. i \in colons /\ i <= n
      BY <2>1 DEF First
    <3> QED BY <1>4, <2>1, <3>1
  <2> QED BY <2>2, <2>3 DEF colons
<1>9. SubSeq(line, 1, n - 1) = h
  <2>1. n - 1 = Len(h) /\ Len(h) \in 0..n /\ 1 \in Nat \ {0}
    BY <1>4
  <2> HIDE DEF line, n
  <2> QED BY <1>4, <1>6, <2>1
<1>10. ParseContentLine(codec, line) =
         UNION {ReadAs(codec, SplitUnquoted(SubSeq(line, 1, colon - 1), Semi),
                       SubSeq(line, colon + 1, Len(line))) : colon \in First(Unquoted(line, ":"))}
  BY DEF ParseContentLine, ReadAs, Semi
<1>11. ParseContentLine(codec, line) = ReadAs(codec, SplitUnquoted(h, Semi), v)
  <2> DEFINE R(colon) == ReadAs(codec, SplitUnquoted(SubSeq(line, 1, colon - 1), Semi),
                                SubSeq(line, colon + 1, Len(line)))
  <2>1. R(n) = ReadAs(codec, SplitUnquoted(h, Semi), v)
    BY <1>6, <1>9
  <2>2. ParseContentLine(codec, line) = UNION {R(colon) : colon \in {n}}
    BY <1>8, <1>10
  <2> HIDE DEF R, line, n
  <2>3. UNION {R(colon) : colon \in {n}} = R(n)
    OBVIOUS
  <2> QED BY <2>1, <2>2, <2>3
<1>12. \A i \in 1..Len(h) : line[i] = h[i]
  <2>1. \A i \in 1..Len(h) : i \in 1..n
    BY <1>4
  <2> HIDE DEF line, n
  <2> QED BY <1>4, <1>6, <2>1
<1>13. Len(line) = Len(h) + 1 + Len(v)
  BY <1>4, <1>6
<1> HIDE DEF line
<1> QED BY <1>6, <1>11, <1>12, <1>13 DEF line, g, s, Joined, ColonReads

\* No segment behind the name is lost.
LEMMA SegmentsKept ==
  ASSUME NEW codec, NEW n \in Nat, NEW segs \in Seq(Seq(Line)), Len(segs) = n + 1,
         \A j \in 1..n : segs[j + 1] # <<>>
  PROVE  LET read == ParamSegments(codec, Tail(segs))
         IN  DOMAIN read = 1..n /\ \A j \in 1..n : read[j] = segs[j + 1]
<1> DEFINE T == Seq(Line)
           tail == Tail(segs)
<1>1. segs \in Seq(T)
  OBVIOUS
<1> HIDE DEF T
<1>2. segs # <<>>
  <2>1. Len(<<>>) = 0
    OBVIOUS
  <2> QED BY <2>1
<1>3. tail \in Seq(T) /\ Len(tail) = n /\ \A j \in 1..n : tail[j] = segs[j + 1]
  BY <1>1, <1>2
<1> HIDE DEF tail
<1>4. DOMAIN tail = 1..n
  BY <1>3
<1>5. tail # <<>> => Last(tail) # <<>>
  <2> SUFFICES ASSUME tail # <<>> PROVE Last(tail) # <<>>
    OBVIOUS
  <2>1. n # 0
    BY <1>3, EmptySeq
  <2>2. n \in 1..n
    BY <2>1
  <2>3. Last(tail) = segs[n + 1]
    BY <1>3, <2>2 DEF Last
  <2> QED BY <2>2, <2>3
<1>6. ParamSegments(codec, tail) = tail
  BY <1>5 DEF ParamSegments
<1> QED BY <1>3, <1>4, <1>6 DEF tail

\* A property, as the set a parser returns.
Reading(name, params, value) == {[name |-> name, params |-> params, value |-> value]}

\* The text of a value.
TextOf(codec, name, value) ==
  IF codec = "vcard" \/ TextProperty(name) THEN UnescapeText(codec, value) ELSE value

PairsRead(codec, read, pairs, n) ==
  /\ DOMAIN read = 1..n /\ pairs = [j \in 1..n |-> pairs[j]]
  /\ \A j \in 1..n : ParseParam(codec, read[j]) = {pairs[j]}

\* The segments and the value are read as the name, the parameters and the text.
LEMMA ReadAsIs ==
  ASSUME NEW codec \in {"ical", "vcard"}, NEW segs, NEW value, NEW n \in Nat,
         NEW read, NEW pairs,
         segs[1] # <<>>, read = ParamSegments(codec, Tail(segs)),
         PairsRead(codec, read, pairs, n)
  PROVE  ReadAs(codec, segs, value) = Reading(segs[1], pairs, TextOf(codec, segs[1], value))
<1> USE DEF PairsRead
<1> DEFINE params == [j \in DOMAIN read |-> ParseParam(codec, read[j])]
           text == IF codec = "vcard" \/ TextProperty(segs[1])
                   THEN UnescapeText(codec, value) ELSE value
           kept == [j \in DOMAIN params |-> CHOOSE p \in params[j] : TRUE]
<1>1. DOMAIN params = 1..n /\ \A j \in 1..n : params[j] = {pairs[j]}
  OBVIOUS
<1>2. ReadAs(codec, segs, value) =
        IF segs[1] = <<>> \/ {} \in Range(params) THEN {}
        ELSE {[name |-> segs[1], params |-> kept, value |-> text]}
  BY DEF ReadAs
<1> HIDE DEF params
<1>3. {} \notin Range(params)
  BY <1>1 DEF Range
<1>4. kept = pairs
  <2>1. ASSUME NEW j \in 1..n PROVE (CHOOSE p \in params[j] : TRUE) = pairs[j]
    <3>1. params[j] = {pairs[j]}
      BY <1>1
    <3>2. (CHOOSE p \in {pairs[j]} : TRUE) \in {pairs[j]}
      OBVIOUS
    <3> QED BY <3>1, <3>2
  <2> QED BY <1>1, <2>1
<1> HIDE DEF text, kept
<1>5. ReadAs(codec, segs, value) = {[name |-> segs[1], params |-> kept, value |-> text]}
  BY <1>2, <1>3
<1> QED BY <1>4, <1>5 DEF text, Reading, TextOf

\* What the parser makes of the line an encoder writes for a property.
LEMMA ParseReads ==
  ASSUME NEW codec \in {"ical", "vcard"}, NEW p, NEW n \in Nat,
         p.name \in Seq(Naming),
         WrittenName(codec, p.name) # <<>>, WrittenName(codec, p.name)[1] # SP,
         DOMAIN p.params = 1..n, \A i \in 1..n : Sound(codec, p.params[i]),
         p.value \in Words,
         codec = "vcard" \/ TextProperty(p.name) \/ p.value \in Seq(Line)
  PROVE  LET line == ContentLineOf(codec, p)
         IN  /\ line \in Seq(Line) /\ line # <<>> /\ line[1] # SP
             /\ ParseContentLine(codec, line) =
                  {[name |-> WrittenName(codec, p.name),
                    params |-> [i \in 1..n |-> [name |-> Upper(p.params[i].name),
                                                value |-> Bare(codec, p.params[i].value)]],
                    value |-> IF codec = "vcard" \/ TextProperty(p.name)
                              THEN KeptText(codec, p.value) ELSE p.value]}
<1> DEFINE name == WrittenName(codec, p.name)
           h == HeadOf(codec, name, p.params)
           text == codec = "vcard" \/ TextProperty(p.name)
           v == IF text THEN EscapeText(codec, p.value) ELSE p.value
           line == Joined(h, v)
           segs == SplitUnquoted(h, Semi)
           read == ParamSegments(codec, Tail(segs))
           pairs == [i \in 1..n |-> [name |-> Upper(p.params[i].name),
                                     value |-> Bare(codec, p.params[i].value)]]
<1>1. /\ name \in Seq(Naming) /\ name # <<>> /\ name[1] # SP
      /\ codec = "ical" => name = Upper(p.name)
  <2> DEFINE M == {DQ, LF, Semi, ":"}
  <2>1. Naming = Alphabet \ M
    BY DEF Naming, Plain, Line
  <2>2. M \in SUBSET Separators
    BY SemiIs
  <2>3. p.name \in Seq(Alphabet \ M)
    BY <2>1
  <2> HIDE DEF M
  <2> QED BY <2>1, <2>2, <2>3, NameIs
<1>2. codec = "ical" => (TextProperty(name) <=> TextProperty(p.name))
  <2> SUFFICES ASSUME codec = "ical" PROVE TextProperty(name) <=> TextProperty(p.name)
    OBVIOUS
  <2>1. p.name \in Seq(Alphabet \ {})
    <3>1. Naming \subseteq Alphabet \ {}
      BY DEF Naming, Plain, Line
    <3> QED BY <3>1, SeqMonotonic
  <2>2. Upper(Upper(p.name)) = Upper(p.name)
    <3>1. {} \in SUBSET Separators
      OBVIOUS
    <3> QED BY <2>1, <3>1, UpperIs
  <2> HIDE DEF name
  <2>3. Upper(name) = Upper(p.name)
    BY <1>1, <2>2
  <2> QED BY <2>3 DEF TextProperty
<1>3. ContentLineOf(codec, p) = line
  BY DEF ContentLineOf, HeadOf, Joined
<1>4. v \in Seq(Line)
  BY EscapeIsLine
<1> HIDE DEF name
<1>5. /\ h \in Seq(Line) /\ Balanced(h) /\ Unquoted(h, ":") = {}
      /\ segs \in Seq(Seq(Line)) /\ Len(segs) = n + 1 /\ segs[1] = name
      /\ \A j \in 1..n : segs[j + 1] = Segment(codec, p.params[j])
  <2>1. SoundParams(codec, p.params, n)
    BY DEF SoundParams
  <2>2. HeadSplits(codec, name, p.params, n)
    BY <1>1, <2>1, HeadIs
  <2> QED BY <2>2 DEF HeadSplits
<1> HIDE DEF v, segs
<1>6. \A j \in 1..n : /\ segs[j + 1] # <<>>
                      /\ ParseParam(codec, segs[j + 1]) = {pairs[j]}
  <2> TAKE j \in 1..n
  <2>1. Sound(codec, p.params[j])
    OBVIOUS
  <2>2. /\ Segment(codec, p.params[j]) # <<>>
        /\ ParseParam(codec, Segment(codec, p.params[j])) =
             {[name |-> Upper(p.params[j].name), value |-> Bare(codec, p.params[j].value)]}
    BY <2>1, SegmentIs DEF Sound
  <2> QED BY <1>5, <2>2
<1> HIDE DEF h, pairs
<1>7. DOMAIN read = 1..n /\ \A j \in 1..n : read[j] = segs[j + 1]
  <2>1. segs \in Seq(Seq(Line)) /\ Len(segs) = n + 1 /\ \A j \in 1..n : segs[j + 1] # <<>>
    BY <1>5, <1>6
  <2> QED BY <2>1, SegmentsKept
<1> HIDE DEF read
<1>8. ReadAs(codec, segs, v) =
        Reading(name, pairs, TextOf(codec, name, v))
  <2>1. pairs = [j \in 1..n |-> pairs[j]]
    BY DEF pairs
  <2>2. \A j \in 1..n : ParseParam(codec, read[j]) = {pairs[j]}
    BY <1>6, <1>7
  <2>3. segs[1] = name /\ segs[1] # <<>> /\ read = ParamSegments(codec, Tail(segs))
    BY <1>1, <1>5 DEF read
  <2>5. PairsRead(codec, read, pairs, n)
    BY <1>7, <2>1, <2>2 DEF PairsRead
  <2>4. ReadAs(codec, segs, v) = Reading(segs[1], pairs, TextOf(codec, segs[1], v))
    BY <2>3, <2>5, ReadAsIs
  <2> QED BY <2>3, <2>4
<1>9. TextOf(codec, name, v) =
        IF text THEN KeptText(codec, p.value) ELSE p.value
  <2>1. UnescapeText(codec, EscapeText(codec, p.value)) = KeptText(codec, p.value)
    BY EscapesAreRead
  <2>2. (codec = "vcard" \/ TextProperty(name)) <=> text
    BY <1>2
  <2>3. CASE text
    BY <2>1, <2>2, <2>3 DEF v, TextOf
  <2>4. CASE ~text
    BY <2>2, <2>4 DEF v, TextOf
  <2> QED BY <2>3, <2>4
<1>10. /\ line \in Seq(Line) /\ Len(line) = Len(h) + 1 + Len(v)
       /\ \A i \in 1..Len(h) : line[i] = h[i]
       /\ ParseContentLine(codec, line) = ReadAs(codec, segs, v)
  <2>1. ColonReads(codec, h, v)
    BY <1>4, <1>5, ParsedAtColon
  <2> QED BY <2>1 DEF ColonReads, segs
<1>11. Len(h) \in Nat /\ Len(v) \in Nat /\ Len(h) # 0 /\ h[1] # SP
  <2>1. Len(h) \in Nat /\ Len(v) \in Nat
    BY <1>4, <1>5, LenProperties
  <2> DEFINE f == FlattenSeq([i \in DOMAIN p.params |-> WrittenParam(codec, p.params[i])])
  <2>2. h = name \o f
    BY DEF h, HeadOf
  <2>3. Len(name) \in Nat /\ Len(name) # 0
    BY <1>1, LenProperties, EmptySeq
  <2>4. f \in Seq(Line) /\ name \in Seq(Line)
    <3>1. f \in Seq(Line)
      BY FlatParams
    <3>2. Naming \subseteq Line
      BY DEF Naming, Plain
    <3>3. name \in Seq(Line)
      BY <1>1, <3>2, SeqMonotonic
    <3> QED BY <3>1, <3>3
  <2> HIDE DEF f
  <2>5. Len(h) = Len(name) + Len(f) /\ Len(f) \in Nat /\ \A i \in 1..Len(name) : h[i] = name[i]
    BY <2>2, <2>4, LineConcat
  <2>6. 1 \in 1..Len(name)
    BY <2>3
  <2> QED BY <1>1, <2>1, <2>3, <2>5, <2>6
<1>12. line # <<>> /\ line[1] # SP
  <2>1. Len(line) # 0 /\ 1 \in 1..Len(h)
    BY <1>10, <1>11
  <2> HIDE DEF line
  <2>2. Len(<<>>) = 0
    OBVIOUS
  <2> QED BY <1>10, <1>11, <2>1, <2>2
<1> HIDE DEF line
<1>13. ParseContentLine(codec, line) =
         Reading(name, pairs, IF text THEN KeptText(codec, p.value) ELSE p.value)
  BY <1>8, <1>9, <1>10
<1> QED BY <1>3, <1>10, <1>12, <1>13 DEF pairs, name, Reading

-----------------------------------------------------------------------------
(* Lines and their unfolding. *)

Characters == Pieces \cup Alphabet

CharTexts == Seq(Characters)

Lines == [folded : BOOLEAN, text : CharTexts]

\* The texts a reader delivers.
Delivered == Seq(Pieces \cup (STRING \ {"EOF", "error"}))

\* What is left of a line has its octets.
LEMMA RestOfLine ==
  ASSUME NEW S, NEW line \in [folded : BOOLEAN, text : Seq(S)], NEW n \in Nat
  PROVE  Behind(line, n) \in [folded : BOOLEAN, text : Seq(S)]
<1> DEFINE from == IF line.folded THEN n ELSE n + 1
           rest == SubSeq(line.text, from, Len(line.text))
<1>1. line.text \in Seq(S)
  OBVIOUS
<1>2. ASSUME n # 0 PROVE rest \in Seq(S)
  <2>1. from \in Nat \ {0}
    BY <1>2
  <2> HIDE DEF from
  <2>2. Len(line.text) \in Nat
    BY <1>1
  <2> QED BY <1>1, <2>1, <2>2
<1>3. ASSUME n # 0 PROVE Physical(rest) \in [folded : BOOLEAN, text : Seq(S)]
  <2> HIDE DEF rest
  <2>1. rest # <<>> => Tail(rest) \in Seq(S)
    BY <1>2, <1>3
  <2> QED BY <1>2, <1>3, <2>1 DEF Physical
<1>4. n = 0 => Behind(line, n) = line
  BY DEF Behind
<1>5. n # 0 => Behind(line, n) = Physical(rest)
  BY DEF Behind
<1> QED BY <1>3, <1>4, <1>5

\* The lines the reader delivers.
LEMMA LinesDelivered ==
  ASSUME wire \in {Anything} \cup Written, taken \in Nat, NEW line \in Deliverable
  PROVE  line \in Lines /\ line.text \in Delivered
<1> DEFINE Spelling == STRING \ {"EOF", "error"}
           Clean == Pieces \cup Spelling
<1>0. Clean \subseteq Characters /\ Pieces \subseteq Clean /\ Spelling \subseteq Clean
  BY Marks DEF Characters
<1>1. CASE wire = Anything
  <2>1. line \in PhysicalLines
    BY <1>1 DEF Deliverable
  <2>2. <<>> \in Seq(Clean) /\ \A p \in Pieces : <<p>> \in Seq(Clean)
    <3>1. \A p \in Pieces : p \in Clean
      OBVIOUS
    <3> HIDE DEF Clean
    <3> QED BY <3>1
  <2>3. line.folded \in BOOLEAN /\ line = [folded |-> line.folded, text |-> line.text]
        /\ (line.text = <<>> \/ \E p \in Pieces : line.text = <<p>>)
    BY <2>1 DEF PhysicalLines
  <2>4. Seq(Clean) \subseteq CharTexts
    <3> HIDE DEF Clean
    <3> QED BY <1>0, SeqMonotonic DEF CharTexts
  <2>5. line.text \in Seq(Clean)
    BY <2>2, <2>3
  <2> HIDE DEF Clean
  <2>6. line \in Lines
    BY <2>3, <2>4, <2>5 DEF Lines
  <2> QED BY <2>5, <2>6 DEF Delivered, Clean
<1>2. CASE wire # Anything
  <2>1. wire \in Written /\ \E k \in DOMAIN wire.lines : line = Behind(wire.lines[k], taken)
    BY <1>2 DEF Deliverable, NextOfDocument
  <2>2. wire.lines \in Seq([folded : BOOLEAN, text : Seq(Spelling)])
    BY <2>1, ScannerAssumption
  <2>3. line \in [folded : BOOLEAN, text : Seq(Spelling)]
    <3> HIDE DEF Spelling
    <3>1. PICK k \in DOMAIN wire.lines : line = Behind(wire.lines[k], taken)
      BY <2>1
    <3>2. k \in 1..Len(wire.lines)
      BY <2>2, <3>1, LenProperties
    <3> DEFINE R == [folded : BOOLEAN, text : Seq(Spelling)]
    <3> HIDE DEF R
    <3>3. wire.lines \in Seq(R)
      BY <2>2 DEF R
    <3>4. wire.lines[k] \in R
      BY <3>2, <3>3, ElementOfSeq
    <3>5. Behind(wire.lines[k], taken) \in R
      BY <3>4, RestOfLine DEF R
    <3> QED BY <3>1, <3>5 DEF R
  <2>4. Seq(Spelling) \subseteq Seq(Clean) /\ Seq(Clean) \subseteq CharTexts
    <3> HIDE DEF Spelling, Clean
    <3> QED BY <1>0, SeqMonotonic DEF CharTexts
  <2> HIDE DEF Clean, Spelling
  <2>5. line \in Lines
    BY <2>3, <2>4 DEF Lines
  <2>6. line.text \in Seq(Clean)
    BY <2>3, <2>4
  <2> QED BY <2>5, <2>6 DEF Delivered, Clean, Spelling
<1> QED BY <1>1, <1>2

\* No text that is delivered is an error.
LEMMA TextsAreNoErrors ==
  /\ EOF \notin Delivered /\ Failure \notin Delivered
  /\ <<>> \in CharTexts /\ EOF # Failure /\ EOF # <<>>
  /\ \A s, t \in Delivered : s \o t \in Delivered
<1> DEFINE Clean == Pieces \cup (STRING \ {"EOF", "error"})
<1>1. "EOF" \notin Clean /\ "error" \notin Clean
  BY ScannerAssumption
<1>5. Delivered = Seq(Clean)
  BY DEF Delivered
<1> HIDE DEF Clean
<1>2. ASSUME NEW x, x \notin Clean PROVE <<x>> \notin Delivered
  <2>1. \A s \in Delivered : Len(s) = 1 => s[1] \in Clean
    <3> TAKE s \in Delivered
    <3> HAVE Len(s) = 1
    <3>1. 1 \in 1..Len(s) /\ s \in Seq(Clean)
      BY <1>5
    <3> QED BY <3>1, ElementOfSeq
  <2>2. Len(<<x>>) = 1 /\ <<x>>[1] = x
    OBVIOUS
  <2> QED BY <1>2, <2>1, <2>2
<1>3. <<>> \in CharTexts
  BY DEF CharTexts
<1>4. <<"EOF">> # <<"error">> /\ <<"EOF">> # <<>>
  OBVIOUS
<1>6. \A s, t \in Delivered : s \o t \in Delivered
  <2>1. \A s, t \in Seq(Clean) : s \o t \in Seq(Clean)
    OBVIOUS
  <2> QED BY <1>5, <2>1
<1> QED BY <1>1, <1>2, <1>3, <1>4, <1>6 DEF EOF, Failure

\* The pieces TextFrom puts together.
Parts(in, k) == [j \in DOMAIN in |-> IF j \in Extent(in, k) THEN in[j].text ELSE <<>>]

LEMMA PartsTyped ==
  ASSUME NEW in \in Seq(Lines), NEW k
  PROVE  /\ Parts(in, k) \in Seq(CharTexts) /\ Len(Parts(in, k)) = Len(in)
         /\ \A j \in 1..Len(in) :
              Parts(in, k)[j] = IF j \in Extent(in, k) THEN in[j].text ELSE <<>>
         /\ TextFrom(in, k) = FlattenSeq(Parts(in, k))
         /\ TextFrom(in, k) \in CharTexts
<1>1. DOMAIN in = 1..Len(in) /\ Len(in) \in Nat
  BY LenProperties
<1>2. \A j \in 1..Len(in) : in[j].text \in CharTexts
  <2>1. \A j \in 1..Len(in) : in[j] \in Lines
    BY ElementOfSeq
  <2> QED BY <2>1 DEF Lines
<1>3. \A j \in 1..Len(in) :
        Parts(in, k)[j] = IF j \in Extent(in, k) THEN in[j].text ELSE <<>>
  BY <1>1 DEF Parts
<1>4. \A j \in 1..Len(in) : Parts(in, k)[j] \in CharTexts
  BY <1>2, <1>3, TextsAreNoErrors
<1>5. Parts(in, k) = [j \in 1..Len(in) |-> Parts(in, k)[j]]
  BY <1>1 DEF Parts
<1>6. Parts(in, k) \in Seq(CharTexts) /\ Len(Parts(in, k)) = Len(in)
  <2> DEFINE p == Parts(in, k)
  <2> HIDE DEF p
  <2>1. \A j \in 1..Len(in) : p[j] \in CharTexts
    BY <1>4 DEF p
  <2>2. p = [j \in 1..Len(in) |-> p[j]]
    BY <1>5 DEF p
  <2>3. p \in [1..Len(in) -> CharTexts]
    BY <2>1, <2>2
  <2>4. p \in Seq(CharTexts) /\ Len(p) = Len(in)
    BY <1>1, <2>3
  <2> QED BY <2>4 DEF p
<1>7. TextFrom(in, k) = FlattenSeq(Parts(in, k))
  BY DEF TextFrom, Parts
<1>8. FlattenSeq(Parts(in, k)) \in CharTexts
  BY <1>6, FlattenAppend DEF CharTexts
<1> QED BY <1>3, <1>6, <1>7, <1>8

LEMMA LinesAtTyped ==
  ASSUME NEW in \in Seq(Lines)
  PROVE  /\ LinesAt(in) \in Seq(Seq(CharTexts)) /\ Len(LinesAt(in)) = Len(in)
         /\ \A k \in 1..Len(in) :
              LinesAt(in)[k] = IF Begins(in, k) /\ TextFrom(in, k) # <<>>
                               THEN <<TextFrom(in, k)>> ELSE <<>>
         /\ Unfolded(in) \in Seq(CharTexts)
<1>1. DOMAIN in = 1..Len(in) /\ Len(in) \in Nat
  BY LenProperties
<1>2. \A k \in 1..Len(in) :
        LinesAt(in)[k] = IF Begins(in, k) /\ TextFrom(in, k) # <<>>
                         THEN <<TextFrom(in, k)>> ELSE <<>>
  BY <1>1 DEF LinesAt
<1>3. \A t \in CharTexts : <<t>> \in Seq(CharTexts)
  OBVIOUS
<1>4. <<>> \in Seq(CharTexts)
  OBVIOUS
<1>5. \A k \in 1..Len(in) : LinesAt(in)[k] \in Seq(CharTexts)
  <2> TAKE k \in 1..Len(in)
  <2>1. TextFrom(in, k) \in CharTexts
    BY PartsTyped
  <2>2. LinesAt(in)[k] = <<TextFrom(in, k)>> \/ LinesAt(in)[k] = <<>>
    BY <1>2
  <2> QED BY <1>3, <1>4, <2>1, <2>2
<1>6. LinesAt(in) = [k \in 1..Len(in) |-> LinesAt(in)[k]]
  BY <1>1 DEF LinesAt
<1>7. LinesAt(in) \in Seq(Seq(CharTexts)) /\ Len(LinesAt(in)) = Len(in)
  <2> DEFINE p == LinesAt(in)
  <2> HIDE DEF p
  <2>1. \A j \in 1..Len(in) : p[j] \in Seq(CharTexts)
    BY <1>5 DEF p
  <2>2. p = [j \in 1..Len(in) |-> p[j]]
    BY <1>6 DEF p
  <2>3. p \in [1..Len(in) -> Seq(CharTexts)]
    BY <2>1, <2>2
  <2>4. p \in Seq(Seq(CharTexts)) /\ Len(p) = Len(in)
    BY <1>1, <2>3
  <2> QED BY <2>4 DEF p
<1>8. Unfolded(in) \in Seq(CharTexts)
  BY <1>7, FlattenAppend DEF Unfolded
<1> QED BY <1>2, <1>7, <1>8

\* A further line: a fold belongs to every line whose folds reach the end.
LEMMA PartsAppended ==
  ASSUME NEW in \in Seq(Lines), NEW line \in Lines, NEW k \in 1..Len(in)
  PROVE  TextFrom(Append(in, line), k) =
           IF line.folded /\ \A m \in k + 1..Len(in) : in[m].folded
           THEN TextFrom(in, k) \o line.text ELSE TextFrom(in, k)
<1> DEFINE n == Len(in)
           in2 == Append(in, line)
           reaches == line.folded /\ \A m \in k + 1..n : in[m].folded
           part == IF reaches THEN line.text ELSE <<>>
<1>1. n \in Nat /\ k \in Nat /\ 1 <= k /\ k <= n
  BY LenProperties
<1>2. /\ in2 \in Seq(Lines) /\ Len(in2) = n + 1
      /\ \A j \in 1..n : in2[j] = in[j]
      /\ in2[n + 1] = line
  BY <1>1, AppendProperties
<1> HIDE DEF in2
<1>3. \A j \in 1..n : j \in Extent(in2, k) <=> j \in Extent(in, k)
  <2> TAKE j \in 1..n
  <2>1. \A m \in k + 1..j : in2[m].folded <=> in[m].folded
    <3> TAKE m \in k + 1..j
    <3>1. m \in 1..n
      BY <1>1
    <3> QED BY <1>2, <3>1
  <2>2. j \in k..Len(in2) <=> j \in k..n
    BY <1>1, <1>2
  <2> QED BY <2>1, <2>2 DEF Extent
<1>4. n + 1 \in Extent(in2, k) <=> reaches
  <2>1. n + 1 \in k..Len(in2)
    BY <1>1, <1>2
  <2>2. n + 1 \in Extent(in2, k) <=> \A m \in k + 1..n + 1 : in2[m].folded
    BY <2>1 DEF Extent
  <2>3. \A m \in k + 1..n : m \in 1..n /\ m \in k + 1..n + 1
    BY <1>1
  <2>4. \A m \in k + 1..n + 1 : m = n + 1 \/ m \in k + 1..n
    BY <1>1
  <2>5. n + 1 \in k + 1..n + 1
    BY <1>1
  <2> QED BY <1>2, <2>2, <2>3, <2>4, <2>5
<1> HIDE DEF reaches
<1> DEFINE p == Parts(in, k)
           p2 == Parts(in2, k)
<1>5. /\ p \in Seq(CharTexts) /\ Len(p) = n
      /\ \A j \in 1..n : p[j] = IF j \in Extent(in, k) THEN in[j].text ELSE <<>>
  BY PartsTyped
<1>6. /\ p2 \in Seq(CharTexts) /\ Len(p2) = n + 1
      /\ \A j \in 1..n + 1 : p2[j] = IF j \in Extent(in2, k) THEN in2[j].text ELSE <<>>
  BY <1>2, PartsTyped
<1> HIDE DEF p, p2
<1>7. part \in CharTexts
  BY TextsAreNoErrors DEF Lines
<1>8. p2 = Append(p, part)
  <2> DEFINE a == Append(p, part)
  <2>1. /\ a \in Seq(CharTexts) /\ Len(a) = n + 1
        /\ \A j \in 1..n : a[j] = p[j]
        /\ a[n + 1] = part
    <3> HIDE DEF part
    <3> QED BY <1>1, <1>5, <1>7, AppendProperties
  <2>2. \A j \in 1..n : p2[j] = p[j]
    <3> TAKE j \in 1..n
    <3>1. j \in 1..n + 1
      BY <1>1
    <3> QED BY <1>2, <1>3, <1>5, <1>6, <3>1
  <2>3. p2[n + 1] = part
    <3>1. n + 1 \in 1..n + 1
      BY <1>1
    <3> QED BY <1>2, <1>4, <1>6, <3>1
  <2>4. \A j \in 1..n + 1 : p2[j] = a[j]
    <3> HIDE DEF a, part
    <3>1. \A j \in 1..n + 1 : j = n + 1 \/ j \in 1..n
      BY <1>1
    <3> QED BY <2>1, <2>2, <2>3, <3>1
  <2>5. p2 = [j \in 1..n + 1 |-> p2[j]] /\ a = [j \in 1..n + 1 |-> a[j]]
    <3> HIDE DEF a
    <3> QED BY <1>6, <2>1
  <2> HIDE DEF a
  <2>6. p2 = a
    BY <2>4, <2>5
  <2> QED BY <2>6 DEF a
<1>9. TextFrom(in2, k) = TextFrom(in, k) \o part
  <2>1. TextFrom(in2, k) = FlattenSeq(p2) /\ TextFrom(in, k) = FlattenSeq(p)
    BY <1>2, PartsTyped DEF p, p2
  <2>2. FlattenSeq(Append(p, part)) = FlattenSeq(p) \o part
    <3> HIDE DEF part
    <3> QED BY <1>5, <1>7, FlattenAppend DEF CharTexts
  <2> HIDE DEF part
  <2> QED BY <1>8, <2>1, <2>2
<1>10. TextFrom(in, k) \o <<>> = TextFrom(in, k)
  <2> DEFINE t == TextFrom(in, k)
  <2>1. t \in Seq(Characters)
    BY PartsTyped DEF CharTexts
  <2> HIDE DEF t
  <2>2. t \o <<>> = t
    BY <2>1
  <2> QED BY <2>2 DEF t
<1>11. CASE reaches
  BY <1>9, <1>11 DEF reaches, in2
<1>12. CASE ~reaches
  <2>1. TextFrom(in2, k) = TextFrom(in, k)
    BY <1>9, <1>10, <1>12
  <2> QED BY <1>12, <2>1 DEF reaches, in2
<1> QED BY <1>11, <1>12

\* The text that begins at the last line is that line's.
LEMMA TextOfLast ==
  ASSUME NEW in \in Seq(Lines), Len(in) # 0
  PROVE  TextFrom(in, Len(in)) = in[Len(in)].text
<1> DEFINE n == Len(in)
           p == Parts(in, n)
           x == in[n].text
<1>1. n \in Nat /\ n \in 1..n /\ n - 1 \in 0..n
  BY LenProperties
<1>2. Extent(in, n) = {n}
  <2>1. n..n = {n} /\ n + 1..n = {}
    BY <1>1
  <2> QED BY <2>1 DEF Extent
<1>3. /\ p \in Seq(CharTexts) /\ Len(p) = n
      /\ \A j \in 1..n : p[j] = IF j \in Extent(in, n) THEN in[j].text ELSE <<>>
      /\ TextFrom(in, n) = FlattenSeq(p)
  BY PartsTyped
<1>4. x \in CharTexts
  <2>1. in[n] \in Lines
    BY <1>1, ElementOfSeq
  <2> QED BY <2>1 DEF Lines
<1> DEFINE i == n - 1
<1>5. i \in 0..n /\ i # n /\ i + 1 = n /\ i \in Nat
  BY <1>1
<1> HIDE DEF p, i
<1>6. SubSeq(p, 1, n) = Append(SubSeq(p, 1, i), p[n])
  BY <1>3, <1>5, CutFurther
<1> DEFINE q == SubSeq(p, 1, i)
<1>7. q \in Seq(CharTexts) /\ Len(q) = i /\ \A j \in 1..i : q[j] = p[j]
  <2>1. q \in Seq(CharTexts) /\ Len(q) = i
    BY <1>3, <1>5, CutInTwo
  <2>2. IsSeq(p)
    BY <1>3, SeqIsSeq
  <2>3. \A j \in 1..i : q[j] = p[j]
    BY <1>3, <1>5, <2>2, IsSeqCut
  <2> QED BY <2>1, <2>3
<1>8. \A j \in 1..i : p[j] = <<>>
  <2>1. \A j \in 1..i : j \in 1..n /\ j # n
    BY <1>1, <1>5
  <2> QED BY <1>2, <1>3, <2>1
<1> HIDE DEF q
<1>9. FlattenSeq(q) = <<>>
  <2>1. FlattenSeq(q) = FlattenSeq(SubSeq(q, 1, 0))
    <3>1. 0 \in 0..Len(q) /\ \A j \in 0 + 1..Len(q) : q[j] = <<>>
      BY <1>5, <1>7, <1>8
    <3>2. q \in Seq(Seq(Characters))
      BY <1>7 DEF CharTexts
    <3> QED BY <3>1, <3>2, FlattenFront
  <2>2. SubSeq(q, 1, 0) = <<>>
    <3>1. SubSeq(q, 1, 0) \in Seq(CharTexts) /\ Len(SubSeq(q, 1, 0)) = 0
      BY <1>5, <1>7, CutInTwo
    <3> QED BY <3>1, EmptySeq
  <2> QED BY <2>1, <2>2, FlattenAppend
<1>10. p[n] = x
  <2>1. n \in Extent(in, n)
    BY <1>2
  <2> QED BY <1>1, <1>3, <2>1
<1>11. SubSeq(p, 1, n) = p
  BY <1>1, <1>3
<1>12. FlattenSeq(p) = FlattenSeq(q) \o x
  <2>1. p = Append(q, x)
    BY <1>6, <1>10, <1>11 DEF q
  <2> HIDE DEF x
  <2> QED BY <1>4, <1>7, <2>1, FlattenAppend DEF CharTexts
<1>13. <<>> \o x = x
  <2> HIDE DEF x
  <2>1. x \in Seq(Characters)
    BY <1>4 DEF CharTexts
  <2> QED BY <2>1
<1> QED BY <1>3, <1>9, <1>12, <1>13

\* One logical line runs to the end of what was read: it begins at k, the lines
\* behind k are folds, and the logical lines before it are over.
Running(in, k) ==
  /\ k \in 1..Len(in)
  /\ Begins(in, k)
  /\ \A m \in k + 1..Len(in) : in[m].folded

AtBreak(in) == in = <<>> \/ IsBlank(in[Len(in)])

Over(in, k) == FlattenSeq(SubSeq(LinesAt(in), 1, k - 1))

LEMMA RunningIsLast ==
  ASSUME NEW in \in Seq(Lines), NEW k, Running(in, k)
  PROVE  /\ Unfolded(in) = IF TextFrom(in, k) = <<>> THEN Over(in, k)
                           ELSE Append(Over(in, k), TextFrom(in, k))
         /\ Over(in, k) \in Seq(CharTexts)
         /\ \A j \in 1..Len(in) : j < k /\ Begins(in, j)
              => \E m \in j + 1..Len(in) : ~in[m].folded
         /\ ~IsBlank(in[Len(in)])
<1> DEFINE n == Len(in)
           p == LinesAt(in)
           i == k - 1
           t == TextFrom(in, k)
<1>1. n \in Nat /\ k \in 1..n /\ i \in 0..n /\ i # n /\ i + 1 = k /\ k \in 0..n
  BY LenProperties DEF Running
<1>2. /\ p \in Seq(Seq(CharTexts)) /\ Len(p) = n
      /\ \A j \in 1..n : p[j] = IF Begins(in, j) /\ TextFrom(in, j) # <<>>
                                THEN <<TextFrom(in, j)>> ELSE <<>>
  BY LinesAtTyped
<1>3. \A m \in k..n : ~IsBlank(in[m])
  <2>1. \A m \in k..n : m = k \/ m \in k + 1..n
    BY <1>1
  <2> QED BY <2>1 DEF Running, Begins, IsBlank
<1>4. \A j \in k + 1..n : ~Begins(in, j)
  <2> TAKE j \in k + 1..n
  <2>1. j # 1 /\ j - 1 \in k..n
    BY <1>1
  <2>2. in[j].folded
    BY DEF Running
  <2> QED BY <1>3, <2>1, <2>2 DEF Begins
<1>5. \A j \in k + 1..n : p[j] = <<>>
  <2>1. \A j \in k + 1..n : j \in 1..n
    BY <1>1
  <2> QED BY <1>2, <1>4, <2>1
<1> HIDE DEF p, i
<1>6. FlattenSeq(p) = FlattenSeq(SubSeq(p, 1, k))
  BY <1>1, <1>2, <1>5, FlattenFront
<1>7. SubSeq(p, 1, k) = Append(SubSeq(p, 1, i), p[k]) /\ p[k] \in Seq(CharTexts)
  <2>1. SubSeq(p, 1, i + 1) = Append(SubSeq(p, 1, i), p[i + 1]) /\ p[i + 1] \in Seq(CharTexts)
    BY <1>1, <1>2, CutFurther
  <2> QED BY <1>1, <2>1
<1>8. SubSeq(p, 1, i) \in Seq(Seq(CharTexts))
  BY <1>1, <1>2, CutInTwo
<1> DEFINE b == FlattenSeq(SubSeq(p, 1, i))
<1>9. FlattenSeq(SubSeq(p, 1, k)) = b \o p[k] /\ b \in Seq(CharTexts)
  BY <1>7, <1>8, FlattenAppend
<1>10. b = Over(in, k) /\ Unfolded(in) = FlattenSeq(p)
  BY DEF Over, Unfolded, p, i
<1> HIDE DEF b
<1>11. t \in CharTexts
  BY PartsTyped
<1> HIDE DEF t
<1>12. Begins(in, k) /\ p[k] = IF t # <<>> THEN <<t>> ELSE <<>>
  BY <1>1, <1>2 DEF Running, t
<1>13. Unfolded(in) = IF t = <<>> THEN b ELSE Append(b, t)
  <2>1. CASE t = <<>>
    <3>1. b \o <<>> = b
      BY <1>9
    <3> QED BY <1>6, <1>9, <1>10, <1>12, <2>1, <3>1
  <2>2. CASE t # <<>>
    <3>1. b \o <<t>> = Append(b, t)
      BY <1>9, <1>11
    <3> QED BY <1>6, <1>9, <1>10, <1>12, <2>2, <3>1
  <2> QED BY <2>1, <2>2
<1>14. ASSUME NEW j \in 1..n, j < k, Begins(in, j)
       PROVE  \E m \in j + 1..n : ~in[m].folded
  <2>1. CASE ~in[k].folded
    <3>1. k \in j + 1..n
      BY <1>1, <1>14
    <3> QED BY <2>1, <3>1
  <2>2. CASE in[k].folded
    <3>1. IsBlank(in[k - 1]) /\ k - 1 \in 1..n
      BY <1>1, <1>12, <1>14, <2>2 DEF Begins
    <3>2. j # k - 1
      BY <1>14, <3>1 DEF Begins
    <3>3. k - 1 \in j + 1..n
      BY <1>1, <1>14, <3>1, <3>2
    <3> QED BY <3>1, <3>3 DEF IsBlank
  <2> QED BY <2>1, <2>2
<1>15. ~IsBlank(in[n])
  <2>1. n \in k..n
    BY <1>1
  <2> QED BY <1>3, <2>1
<1> QED BY <1>9, <1>10, <1>13, <1>14, <1>15 DEF t

\* Where a line begins does not change when another is read.
LEMMA BeginsAppended ==
  ASSUME NEW in \in Seq(Lines), NEW line \in Lines
  PROVE  LET in2 == Append(in, line)
         IN  /\ in2 \in Seq(Lines) /\ Len(in2) = Len(in) + 1 /\ Len(in) \in Nat
             /\ \A j \in 1..Len(in) : in2[j] = in[j]
             /\ in2[Len(in) + 1] = line
             /\ \A j \in 1..Len(in) : Begins(in2, j) <=> Begins(in, j)
             /\ Begins(in2, Len(in) + 1)
                  <=> ~IsBlank(line) /\ (~line.folded \/ AtBreak(in))
<1> DEFINE n == Len(in)
           in2 == Append(in, line)
<1>1. n \in Nat
  BY LenProperties
<1>2. /\ in2 \in Seq(Lines) /\ Len(in2) = n + 1
      /\ \A j \in 1..n : in2[j] = in[j]
      /\ in2[n + 1] = line
  BY <1>1, AppendProperties
<1> HIDE DEF in2
<1>3. ASSUME NEW j \in 1..n PROVE Begins(in2, j) <=> Begins(in, j)
  <2>1. CASE j = 1
    BY <1>2, <2>1 DEF Begins
  <2>2. CASE j # 1
    <3>1. j - 1 \in 1..n
      BY <1>1, <2>2
    <3> QED BY <1>2, <3>1 DEF Begins
  <2> QED BY <2>1, <2>2
<1>4. Begins(in2, n + 1) <=> ~IsBlank(line) /\ (~line.folded \/ AtBreak(in))
  <2>1. CASE n = 0
    <3>1. in = <<>>
      BY <2>1, EmptySeq
    <3> QED BY <1>2, <2>1, <3>1 DEF Begins, AtBreak
  <2>2. CASE n # 0
    <3>1. n \in 1..n /\ n + 1 # 1 /\ (n + 1) - 1 = n /\ in # <<>>
      BY <1>1, <2>2, EmptySeq
    <3> QED BY <1>2, <3>1 DEF Begins, AtBreak
  <2> QED BY <2>1, <2>2
<1> QED BY <1>1, <1>2, <1>3, <1>4 DEF in2

\* A line that does not reach the end of the input is not changed by what comes.
LEMMA LinesKept ==
  ASSUME NEW in \in Seq(Lines), NEW line \in Lines, NEW m \in 0..Len(in),
         \A j \in 1..m : Begins(in, j) =>
           ~line.folded \/ \E l \in j + 1..Len(in) : ~in[l].folded
  PROVE  SubSeq(LinesAt(Append(in, line)), 1, m) = SubSeq(LinesAt(in), 1, m)
<1> DEFINE n == Len(in)
           in2 == Append(in, line)
           p == LinesAt(in)
           p2 == LinesAt(in2)
<1>1. /\ in2 \in Seq(Lines) /\ Len(in2) = n + 1 /\ n \in Nat
      /\ \A j \in 1..n : Begins(in2, j) <=> Begins(in, j)
  BY BeginsAppended
<1>2. /\ p \in Seq(Seq(CharTexts)) /\ Len(p) = n
      /\ \A j \in 1..n : p[j] = IF Begins(in, j) /\ TextFrom(in, j) # <<>>
                                THEN <<TextFrom(in, j)>> ELSE <<>>
  BY LinesAtTyped
<1>3. /\ p2 \in Seq(Seq(CharTexts)) /\ Len(p2) = n + 1
      /\ \A j \in 1..n + 1 : p2[j] = IF Begins(in2, j) /\ TextFrom(in2, j) # <<>>
                                     THEN <<TextFrom(in2, j)>> ELSE <<>>
  BY <1>1, LinesAtTyped
<1>4. \A j \in 1..m : Begins(in, j) => TextFrom(in2, j) = TextFrom(in, j)
  <2> TAKE j \in 1..m
  <2> HAVE Begins(in, j)
  <2>1. j \in 1..n
    BY <1>1
  <2>2. ~(line.folded /\ \A l \in j + 1..n : in[l].folded)
    OBVIOUS
  <2> HIDE DEF n
  <2> QED BY <2>1, <2>2, PartsAppended DEF n
<1> HIDE DEF p, p2, in2
<1>5. \A j \in 1..m : p2[j] = p[j]
  <2> TAKE j \in 1..m
  <2>1. j \in 1..n /\ j \in 1..n + 1
    BY <1>1
  <2>2. CASE Begins(in, j)
    <3>1. TextFrom(in2, j) = TextFrom(in, j) /\ Begins(in2, j)
      BY <1>1, <1>4, <2>1, <2>2
    <3> QED BY <1>2, <1>3, <2>1, <2>2, <3>1
  <2>3. CASE ~Begins(in, j)
    BY <1>1, <1>2, <1>3, <2>1, <2>3
  <2> QED BY <2>2, <2>3
<1>6. m \in 0..Len(p) /\ m \in 0..Len(p2) /\ IsSeq(p) /\ IsSeq(p2)
  BY <1>1, <1>2, <1>3, SeqIsSeq
<1> DEFINE q == SubSeq(p, 1, m)
           q2 == SubSeq(p2, 1, m)
<1>7. IsSeq(q) /\ Len(q) = m /\ \A j \in 1..m : q[j] = p[j]
  BY <1>6, IsSeqCut
<1>8. IsSeq(q2) /\ Len(q2) = m /\ \A j \in 1..m : q2[j] = p2[j]
  BY <1>6, IsSeqCut
<1> HIDE DEF q, q2
<1>9. q2 = q
  BY <1>5, <1>7, <1>8, IsSeqEqual
<1> QED BY <1>9 DEF q, q2, p, p2, in2

\* A fold extends the line that is running.
LEMMA FoldExtends ==
  ASSUME NEW in \in Seq(Lines), NEW line \in Lines, line.folded,
         NEW k, Running(in, k)
  PROVE  /\ Running(Append(in, line), k)
         /\ TextFrom(Append(in, line), k) = TextFrom(in, k) \o line.text
         /\ Over(Append(in, line), k) = Over(in, k)
<1> DEFINE n == Len(in)
           in2 == Append(in, line)
<1>1. /\ Len(in2) = n + 1 /\ n \in Nat
      /\ \A j \in 1..n : in2[j] = in[j]
      /\ in2[n + 1] = line
      /\ \A j \in 1..n : Begins(in2, j) <=> Begins(in, j)
  BY BeginsAppended
<1>2. k \in 1..n /\ Begins(in, k) /\ \A m \in k + 1..n : in[m].folded
  BY DEF Running
<1> HIDE DEF in2
<1>3. Running(in2, k)
  <2>1. k \in 1..Len(in2) /\ Begins(in2, k)
    BY <1>1, <1>2
  <2>2. ASSUME NEW m \in k + 1..Len(in2) PROVE in2[m].folded
    <3>1. m = n + 1 \/ (m \in k + 1..n /\ m \in 1..n)
      BY <1>1, <1>2
    <3> QED BY <1>1, <1>2, <3>1
  <2> QED BY <2>1, <2>2 DEF Running
<1>4. TextFrom(in2, k) = TextFrom(in, k) \o line.text
  BY <1>2, PartsAppended DEF in2
<1>5. Over(in2, k) = Over(in, k)
  <2> DEFINE i == k - 1
  <2>1. i \in 0..n
    BY <1>1, <1>2
  <2>2. \A j \in 1..i : Begins(in, j) => \E l \in j + 1..n : ~in[l].folded
    <3>1. \A j \in 1..n : j < k /\ Begins(in, j) => \E l \in j + 1..n : ~in[l].folded
      BY RunningIsLast
    <3>2. \A j \in 1..i : j \in 1..n /\ j < k
      BY <1>1, <1>2
    <3> QED BY <3>1, <3>2
  <2> HIDE DEF i
  <2>3. SubSeq(LinesAt(in2), 1, i) = SubSeq(LinesAt(in), 1, i)
    BY <2>1, <2>2, LinesKept DEF in2
  <2> QED BY <2>3 DEF Over, i
<1> QED BY <1>3, <1>4, <1>5 DEF in2

\* A line that is not blank, and no fold of another, ends what was running and
\* runs itself.
LEMMA LineStarts ==
  ASSUME NEW in \in Seq(Lines), NEW line \in Lines, ~IsBlank(line),
         ~line.folded \/ AtBreak(in)
  PROVE  /\ Running(Append(in, line), Len(in) + 1)
         /\ TextFrom(Append(in, line), Len(in) + 1) = line.text
         /\ Over(Append(in, line), Len(in) + 1) = Unfolded(in)
<1> DEFINE n == Len(in)
           in2 == Append(in, line)
           k == n + 1
<1>1. /\ in2 \in Seq(Lines) /\ Len(in2) = n + 1 /\ n \in Nat
      /\ in2[n + 1] = line
      /\ Begins(in2, n + 1)
  BY BeginsAppended
<1> HIDE DEF in2
<1>2. Running(in2, n + 1)
  <2>1. n + 1 \in 1..Len(in2) /\ (n + 1) + 1..Len(in2) = {}
    BY <1>1
  <2> QED BY <1>1, <2>1 DEF Running
<1>3. TextFrom(in2, n + 1) = line.text
  <2>1. Len(in2) # 0
    BY <1>1
  <2>2. TextFrom(in2, Len(in2)) = in2[Len(in2)].text
    BY <1>1, <2>1, TextOfLast
  <2> QED BY <1>1, <2>2
<1>4. Over(in2, n + 1) = Unfolded(in)
  <2>1. ASSUME NEW j \in 1..n, Begins(in, j)
        PROVE  ~line.folded \/ \E l \in j + 1..n : ~in[l].folded
    <3> SUFFICES ASSUME AtBreak(in) PROVE \E l \in j + 1..n : ~in[l].folded
      OBVIOUS
    <3>1. in # <<>>
      BY <1>1
    <3>2. IsBlank(in[n])
      BY <3>1 DEF AtBreak
    <3>3. j # n
      BY <2>1, <3>2 DEF Begins
    <3>4. n \in j + 1..n
      BY <1>1, <3>3
    <3> QED BY <3>2, <3>4 DEF IsBlank
  <2>2. n \in 0..n
    BY <1>1
  <2>3. SubSeq(LinesAt(in2), 1, n) = SubSeq(LinesAt(in), 1, n)
    BY <2>1, <2>2, LinesKept DEF in2
  <2>4. SubSeq(LinesAt(in), 1, n) = LinesAt(in)
    <3> DEFINE p == LinesAt(in)
    <3>1. p \in Seq(Seq(CharTexts)) /\ Len(p) = n
      BY LinesAtTyped
    <3> HIDE DEF p
    <3>2. SubSeq(p, 1, Len(p)) = p
      BY <3>1
    <3> QED BY <3>1, <3>2 DEF p
  <2>5. (n + 1) - 1 = n
    BY <1>1
  <2> QED BY <2>3, <2>4, <2>5 DEF Over, Unfolded
<1> QED BY <1>2, <1>3, <1>4 DEF in2

\* A blank line ends what was running.
LEMMA BlankEnds ==
  ASSUME NEW in \in Seq(Lines), NEW line \in Lines, IsBlank(line)
  PROVE  Unfolded(Append(in, line)) = Unfolded(in) /\ AtBreak(Append(in, line))
<1> DEFINE n == Len(in)
           in2 == Append(in, line)
           p == LinesAt(in)
           p2 == LinesAt(in2)
<1>1. /\ in2 \in Seq(Lines) /\ Len(in2) = n + 1 /\ n \in Nat
      /\ in2[n + 1] = line
      /\ ~Begins(in2, n + 1)
  BY BeginsAppended
<1>2. /\ p2 \in Seq(Seq(CharTexts)) /\ Len(p2) = n + 1
      /\ \A j \in 1..n + 1 : p2[j] = IF Begins(in2, j) /\ TextFrom(in2, j) # <<>>
                                     THEN <<TextFrom(in2, j)>> ELSE <<>>
  BY <1>1, LinesAtTyped
<1>3. p \in Seq(Seq(CharTexts)) /\ Len(p) = n
  BY LinesAtTyped
<1>4. SubSeq(p2, 1, n) = SubSeq(p, 1, n)
  <2>1. ~line.folded /\ n \in 0..n
    BY <1>1 DEF IsBlank
  <2> QED BY <2>1, LinesKept
<1> HIDE DEF p, p2, in2
<1>5. FlattenSeq(p2) = FlattenSeq(SubSeq(p2, 1, n))
  <2>1. n \in 0..Len(p2) /\ \A j \in n + 1..Len(p2) : j = n + 1 /\ j \in 1..n + 1
    BY <1>1, <1>2
  <2>2. \A j \in n + 1..Len(p2) : p2[j] = <<>>
    BY <1>1, <1>2, <2>1
  <2> QED BY <1>2, <2>1, <2>2, FlattenFront
<1>6. SubSeq(p, 1, n) = p
  BY <1>1, <1>3
<1>7. AtBreak(in2)
  BY <1>1 DEF AtBreak
<1>8. Unfolded(in2) = Unfolded(in)
  BY <1>4, <1>5, <1>6 DEF Unfolded, p, p2
<1> QED BY <1>7, <1>8 DEF in2

-----------------------------------------------------------------------------
(* The scanner. *)

\* What is pending is the text of the line that is running, and what was
\* returned the lines before it; without one it is everything.
Unfolding ==
  IF hasPend
  THEN \E k \in 1..Len(input) :
         Running(input, k) /\ pending = TextFrom(input, k) /\ lines = Over(input, k)
  ELSE lines = Unfolded(input)

ScannerInv ==
  /\ wire \in {Anything} \cup Written
  /\ input \in Seq(Lines)
  /\ hasPend \in BOOLEAN
  /\ done = ended
  /\ ended => ~hasPend
  /\ ~hasPend /\ ~ended => AtBreak(input)
  /\ scanning => result # EOF
  /\ result = EOF => ended
  /\ taken \in Nat
  /\ hasPend => pending \in Delivered
  /\ Unfolding

\* What Unfolding comes to.
LEMMA UnfoldingIs ==
  ASSUME ScannerInv
  PROVE  /\ hasPend => pending \in CharTexts
         /\ Unfolded(input) = IF hasPend /\ pending # <<>> THEN Append(lines, pending)
                              ELSE lines
         /\ lines \in Seq(CharTexts)
<1>1. input \in Seq(Lines) /\ hasPend \in BOOLEAN
  BY DEF ScannerInv
<1>2. CASE hasPend
  <2>1. PICK k : Running(input, k) /\ pending = TextFrom(input, k) /\ lines = Over(input, k)
    BY <1>2 DEF ScannerInv, Unfolding
  <2>2. /\ Unfolded(input) = IF TextFrom(input, k) = <<>> THEN Over(input, k)
                             ELSE Append(Over(input, k), TextFrom(input, k))
        /\ Over(input, k) \in Seq(CharTexts)
    BY <1>1, <2>1, RunningIsLast
  <2>3. TextFrom(input, k) \in CharTexts
    BY <1>1, PartsTyped
  <2> QED BY <1>2, <2>1, <2>2, <2>3
<1>3. CASE ~hasPend
  <2>1. lines = Unfolded(input) /\ Unfolded(input) \in Seq(CharTexts)
    BY <1>1, <1>3, LinesAtTyped DEF ScannerInv, Unfolding
  <2> QED BY <1>3, <2>1
<1> QED BY <1>1, <1>2, <1>3

LEMMA ScannerInit == Init => ScannerInv
<1> SUFFICES ASSUME Init PROVE ScannerInv
  OBVIOUS
<1>1. /\ wire \in {Anything} \cup Written /\ input = <<>> /\ ended = FALSE
      /\ hasPend = FALSE /\ done = FALSE /\ scanning = FALSE /\ result = <<>>
      /\ taken = 0
      /\ lines = <<>>
  BY DEF Init
<1>2. <<>> \in Seq(Lines) /\ Len(<<>>) = 0
  OBVIOUS
<1>3. Unfolded(<<>>) = <<>>
  <2>1. LinesAt(<<>>) \in Seq(Seq(CharTexts)) /\ Len(LinesAt(<<>>)) = 0
    BY <1>2, LinesAtTyped
  <2>2. LinesAt(<<>>) = <<>>
    BY <2>1, EmptySeq
  <2> QED BY <2>2, FlattenAppend DEF Unfolded
<1>4. Unfolding
  BY <1>1, <1>3 DEF Unfolding
<1>5. AtBreak(input) /\ result # EOF
  BY <1>1, TextsAreNoErrors DEF AtBreak
<1> QED BY <1>1, <1>2, <1>4, <1>5 DEF ScannerInv

LEMMA CallKeeps ==
  ASSUME ScannerInv, Call
  PROVE  ScannerInv'
<1>1. UNCHANGED <<wire, input, ended, taken, pending, hasPend, done>>
  BY DEF Call, reader, scanner
<1>2. lines' = lines /\ (scanning' => result' # EOF) /\ (result' = EOF => ended)
  <2>1. CASE done /\ ~hasPend
    BY <2>1 DEF Call, Return, ScannerInv
  <2>2. CASE ~(done /\ ~hasPend)
    BY <2>2 DEF Call
  <2> QED BY <2>1, <2>2
<1>3. Unfolding'
  <2>1. Unfolding
    BY DEF ScannerInv
  <2> QED BY <1>1, <1>2, <2>1 DEF Unfolding
<1>4. AtBreak(input)' <=> AtBreak(input)
  BY <1>1
<1> QED BY <1>1, <1>2, <1>3, <1>4 DEF ScannerInv

LEMMA FoldKeeps ==
  ASSUME ScannerInv, NEW line \in Deliverable, ReadFold(line)
  PROVE  ScannerInv'
<1>1. line \in Lines /\ line.text \in Delivered /\ line.folded
  BY LinesDelivered DEF ScannerInv, ReadFold
<1>2. /\ scanning /\ ~ended
      /\ input' = Append(input, line) /\ taken' = 0
      /\ UNCHANGED <<wire, ended, done, scanning, result, lines>>
      /\ pending' = IF hasPend THEN pending \o line.text ELSE line.text
      /\ hasPend' = TRUE
  BY DEF ReadFold, Reads
<1>3. input \in Seq(Lines) /\ input' \in Seq(Lines) /\ Len(input') = Len(input) + 1
      /\ Len(input) \in Nat
  BY <1>1, <1>2, BeginsAppended DEF ScannerInv
<1>7. pending' \in Delivered
  <2>1. hasPend => pending \in Delivered
    BY DEF ScannerInv
  <2> QED BY <1>1, <1>2, <2>1, TextsAreNoErrors
<1>4. CASE hasPend
  <2>1. PICK k \in 1..Len(input) :
          Running(input, k) /\ pending = TextFrom(input, k) /\ lines = Over(input, k)
    BY <1>4 DEF ScannerInv, Unfolding
  <2>2. /\ Running(input', k)
        /\ TextFrom(input', k) = TextFrom(input, k) \o line.text
        /\ Over(input', k) = Over(input, k)
    BY <1>1, <1>2, <1>3, <2>1, FoldExtends
  <2>3. k \in 1..Len(input')
    BY <1>3
  <2>4. pending' = TextFrom(input', k) /\ lines' = Over(input', k)
    BY <1>2, <1>4, <2>1, <2>2
  <2>5. Unfolding'
    BY <1>2, <2>2, <2>3, <2>4 DEF Unfolding
  <2> QED BY <1>2, <1>3, <1>7, <2>5 DEF ScannerInv
<1>5. CASE ~hasPend
  <2>1. AtBreak(input) /\ lines = Unfolded(input)
    BY <1>2, <1>5 DEF ScannerInv, Unfolding
  <2>2. /\ Running(input', Len(input) + 1)
        /\ TextFrom(input', Len(input) + 1) = line.text
        /\ Over(input', Len(input) + 1) = Unfolded(input)
    <3>1. ~IsBlank(line)
      BY <1>1 DEF IsBlank
    <3> QED BY <1>1, <1>2, <1>3, <2>1, <3>1, LineStarts
  <2>3. PICK k : k = Len(input) + 1
    OBVIOUS
  <2>4. k \in 1..Len(input')
    BY <1>3, <2>3
  <2>5. /\ Running(input', k) /\ pending' = TextFrom(input', k)
        /\ lines' = Over(input', k)
    BY <1>2, <1>5, <2>1, <2>2, <2>3
  <2>6. Unfolding'
    BY <1>2, <2>4, <2>5 DEF Unfolding
  <2> QED BY <1>2, <1>3, <1>7, <2>6 DEF ScannerInv
<1>6. hasPend \in BOOLEAN
  BY DEF ScannerInv
<1> QED BY <1>4, <1>5, <1>6

LEMMA FreshKeeps ==
  ASSUME ScannerInv, NEW line \in Deliverable, ReadFresh(line)
  PROVE  ScannerInv'
<1>1. line \in Lines /\ line.text \in Delivered /\ ~line.folded
  BY LinesDelivered DEF ScannerInv, ReadFresh
<1>2. /\ scanning /\ ~ended
      /\ input' = Append(input, line) /\ taken' = 0
      /\ UNCHANGED <<wire, ended, done>>
      /\ hasPend' = ~IsBlank(line)
      /\ ~IsBlank(line) => pending' = line.text
  BY DEF ReadFresh, Reads
<1>3. input \in Seq(Lines) /\ input' \in Seq(Lines) /\ Len(input') = Len(input) + 1
      /\ Len(input) \in Nat
  BY <1>1, <1>2, BeginsAppended DEF ScannerInv
<1>4. hasPend => pending \in Delivered
  BY DEF ScannerInv
<1>5. result # EOF
  BY <1>2 DEF ScannerInv
<1>6. lines' = Unfolded(input) /\ result' # EOF
  <2>1. CASE hasPend /\ pending # <<>>
    <3>1. pending # EOF /\ pending # Failure
      BY <1>4, <2>1, TextsAreNoErrors
    <3>2. lines' = Append(lines, pending) /\ result' = pending
      BY <2>1, <3>1 DEF ReadFresh, Return
    <3> QED BY <2>1, <3>1, <3>2, UnfoldingIs
  <2>2. CASE ~(hasPend /\ pending # <<>>)
    <3>1. UNCHANGED <<result, lines>>
      BY <2>2 DEF ReadFresh
    <3>2. Unfolded(input) = lines
      BY <2>2, UnfoldingIs
    <3> QED BY <1>5, <3>1, <3>2
  <2> QED BY <2>1, <2>2
<1>7. CASE IsBlank(line)
  <2>1. Unfolded(input') = Unfolded(input) /\ AtBreak(input')
    BY <1>1, <1>2, <1>3, <1>7, BlankEnds
  <2>2. Unfolding'
    BY <1>2, <1>6, <1>7, <2>1 DEF Unfolding
  <2>3. hasPend' = FALSE
    BY <1>2, <1>7
  <2> QED BY <1>2, <1>3, <1>6, <2>1, <2>2, <2>3 DEF ScannerInv
<1>8. CASE ~IsBlank(line)
  <2>1. /\ Running(input', Len(input) + 1)
        /\ TextFrom(input', Len(input) + 1) = line.text
        /\ Over(input', Len(input) + 1) = Unfolded(input)
    BY <1>1, <1>2, <1>3, <1>8, LineStarts
  <2>2. PICK k : k = Len(input) + 1
    OBVIOUS
  <2>3. k \in 1..Len(input')
    BY <1>3, <2>2
  <2>4. /\ Running(input', k) /\ pending' = TextFrom(input', k)
        /\ lines' = Over(input', k)
    BY <1>2, <1>6, <1>8, <2>1, <2>2
  <2>5. Unfolding' /\ hasPend' = TRUE
    BY <1>2, <1>8, <2>3, <2>4 DEF Unfolding
  <2>6. pending' \in Delivered
    BY <1>1, <1>2, <1>8
  <2> QED BY <1>2, <1>3, <1>6, <2>5, <2>6 DEF ScannerInv
<1> QED BY <1>7, <1>8

LEMMA EOFKeeps ==
  ASSUME ScannerInv, ReadEOF
  PROVE  ScannerInv'
<1>1. /\ scanning /\ scanning' = FALSE
      /\ ended' = TRUE /\ done' = TRUE /\ hasPend' = FALSE
      /\ UNCHANGED <<wire, input, taken>>
  BY DEF ReadEOF, Return
<1>2. hasPend => pending \in Delivered
  BY DEF ScannerInv
<1>3. lines' = Unfolded(input)
  <2>1. CASE hasPend /\ pending # <<>>
    <3>1. pending # EOF /\ pending # Failure
      BY <1>2, <2>1, TextsAreNoErrors
    <3>2. lines' = Append(lines, pending)
      BY <2>1, <3>1 DEF ReadEOF, Return
    <3> QED BY <2>1, <3>2, UnfoldingIs
  <2>2. CASE ~(hasPend /\ pending # <<>>)
    <3>1. lines' = lines
      BY <2>2 DEF ReadEOF, Return
    <3> QED BY <2>2, <3>1, UnfoldingIs
  <2> QED BY <2>1, <2>2
<1>4. Unfolding'
  BY <1>1, <1>3 DEF Unfolding
<1>5. wire \in {Anything} \cup Written /\ input \in Seq(Lines) /\ taken \in Nat
  BY DEF ScannerInv
<1> QED BY <1>1, <1>4, <1>5 DEF ScannerInv

LEMMA ErrorKeeps ==
  ASSUME ScannerInv, ReadError
  PROVE  ScannerInv'
<1>1. /\ scanning' = FALSE /\ result' = Failure /\ lines' = lines
      /\ UNCHANGED <<wire, input, ended, pending, hasPend, done>>
  BY DEF ReadError, Return, scanner
<1>2. Unfolding'
  <2>1. Unfolding
    BY DEF ScannerInv
  <2> QED BY <1>1, <2>1 DEF Unfolding
<1>3. AtBreak(input)' <=> AtBreak(input)
  BY <1>1
<1>4. taken' \in Nat
  <2>1. taken' \in {taken} \cup UNION {taken..Octets(line) : line \in NextOfDocument}
    BY DEF ReadError
  <2>2. taken \in Nat
    BY DEF ScannerInv
  <2>3. ASSUME NEW line, taken' \in taken..Octets(line) PROVE taken' \in Nat
    BY <2>2, <2>3
  <2> QED BY <2>1, <2>2, <2>3
<1> QED BY <1>1, <1>2, <1>3, <1>4, TextsAreNoErrors DEF ScannerInv

LEMMA ScannerHolds == Spec => []ScannerInv
<1>1. ScannerInv /\ [Next]_vars => ScannerInv'
  <2> SUFFICES ASSUME ScannerInv, [Next]_vars PROVE ScannerInv'
    OBVIOUS
  <2>1. CASE Call
    BY <2>1, CallKeeps
  <2>2. CASE \E line \in Deliverable : ReadFold(line)
    BY <2>2, FoldKeeps
  <2>3. CASE \E line \in Deliverable : ReadFresh(line)
    BY <2>3, FreshKeeps
  <2>4. CASE ReadEOF
    BY <2>4, EOFKeeps
  <2>5. CASE ReadError
    BY <2>5, ErrorKeeps
  <2>6. CASE UNCHANGED vars
    <3>1. UNCHANGED <<wire, input, ended, taken, pending, hasPend, done, scanning, result, lines>>
      BY <2>6 DEF vars, reader, scanner
    <3>2. Unfolding' <=> Unfolding
      BY <3>1 DEF Unfolding
    <3>3. AtBreak(input)' <=> AtBreak(input)
      BY <3>1
    <3> QED BY <3>1, <3>2, <3>3 DEF ScannerInv
  <2> QED BY <2>1, <2>2, <2>3, <2>4, <2>5, <2>6 DEF Next, Read
<1> QED BY ScannerInit, <1>1, PTL DEF Spec

\* Whatever is read, and whenever the reader fails or ends, the lines returned
\* and the line held back are the unfolding of what was read: none is lost,
\* doubled, split or joined with its neighbour, and at io.EOF none is held back.
\* Of a physical line that a read failed in, what was read is its rest.
THEOREM Unfolds == Spec => []ReturnedPlusPending
<1>1. ScannerInv => ReturnedPlusPending
  <2> SUFFICES ASSUME ScannerInv PROVE ReturnedPlusPending
    OBVIOUS
  <2>1. /\ Unfolded(input) = IF hasPend /\ pending # <<>> THEN Append(lines, pending)
                             ELSE lines
        /\ lines \in Seq(CharTexts)
        /\ hasPend => pending \in CharTexts
    BY UnfoldingIs
  <2>2. lines \o (IF hasPend /\ pending # <<>> THEN <<pending>> ELSE <<>>) = Unfolded(input)
    <3>1. CASE hasPend /\ pending # <<>>
      <4>1. \A t \in CharTexts : lines \o <<t>> = Append(lines, t)
        <5> HIDE DEF CharTexts
        <5> QED BY <2>1
      <4> QED BY <2>1, <3>1, <4>1
    <3>2. CASE ~(hasPend /\ pending # <<>>)
      <4>1. lines \o <<>> = lines
        BY <2>1
      <4> QED BY <2>1, <3>2, <4>1
    <3> QED BY <3>1, <3>2
  <2>3. result = EOF => ended /\ lines = Unfolded(input)
    BY <2>1 DEF ScannerInv
  <2> QED BY <2>2, <2>3 DEF ReturnedPlusPending
<1> QED BY <1>1, ScannerHolds, PTL

-----------------------------------------------------------------------------
(* What an encoder writes, cut into its physical lines. *)

LFs(text) == {i \in DOMAIN text : text[i] = LF}

\* A wire that holds the physical lines cs, each up to its line end.
Wired(wired, cs) ==
  /\ wired \in Words /\ cs \in Seq(Seq(Line))
  /\ Closed(wired, LFs(wired)) \in Seq(Words)
  /\ Len(Closed(wired, LFs(wired))) = Len(cs)
  /\ \A j \in 1..Len(cs) : Closed(wired, LFs(wired))[j] = cs[j] \o <<CR>>
  /\ wired = <<>> \/ Len(wired) \in LFs(wired)

LEMMA Octet == /\ CR \in Line /\ SP \in Line /\ LF \in Alphabet
               /\ Line \subseteq Alphabet /\ LF \notin Line
<1>1. CR # LF /\ SP # LF
  BY DEF CR, LF, SP
<1> QED BY <1>1, Marks DEF Line

\* The line ends of a text and one line more.
LEMMA LineEnds ==
  ASSUME NEW w \in Words, NEW d \in Seq(Line), NEW s, s = w \o d
  PROVE  /\ s \in Words /\ Len(s) = Len(w) + Len(d) /\ Len(s) \in Nat
         /\ LFs(w) \in SUBSET (1..Len(w)) /\ LFs(s) = LFs(w)
         /\ LFs(Append(s, LF)) = LFs(s) \cup {Len(s) + 1}
         /\ Append(s, LF) \in Words /\ Len(Append(s, LF)) = Len(s) + 1
<1> DEFINE A == Alphabet
           v == Append(s, LF)
<1>1. w \in Seq(A) /\ d \in Seq(A) /\ LF \in A
  BY Octet, SeqMonotonic DEF Words
<1>2. \A i \in 1..Len(d) : d[i] # LF
  BY Octet, ElementOfSeq
<1> HIDE DEF A
<1>3. /\ w \o d \in Seq(A) /\ Len(w \o d) = Len(w) + Len(d) /\ Len(w) \in Nat /\ Len(d) \in Nat
      /\ \A i \in 1..Len(w) : (w \o d)[i] = w[i]
      /\ \A i \in 1..Len(d) : (w \o d)[Len(w) + i] = d[i]
  BY <1>1, CutConcat
<1>4. s \in Seq(A) /\ Len(s) = Len(w) + Len(d) /\ Len(s) \in Nat
      /\ DOMAIN s = 1..Len(s) /\ DOMAIN w = 1..Len(w)
  BY <1>1, <1>3
<1>5. \A i \in 1..Len(s) : s[i] = LF <=> i \in 1..Len(w) /\ w[i] = LF
  <2> TAKE i \in 1..Len(s)
  <2>1. CASE i \in 1..Len(w)
    BY <1>3, <2>1
  <2>2. CASE i \notin 1..Len(w)
    <3>1. i - Len(w) \in 1..Len(d) /\ Len(w) + (i - Len(w)) = i
      BY <1>3, <1>4, <2>2
    <3>2. s[i] = d[i - Len(w)]
      BY <1>3, <3>1
    <3> QED BY <1>2, <2>2, <3>1, <3>2
  <2> QED BY <2>1, <2>2
<1>6. LFs(s) = LFs(w)
  <2>1. \A i \in 1..Len(w) : i \in 1..Len(s)
    BY <1>3, <1>4
  <2> QED BY <1>4, <1>5, <2>1 DEF LFs
<1>7. /\ v \in Seq(A) /\ Len(v) = Len(s) + 1 /\ DOMAIN v = 1..Len(s) + 1
      /\ \A i \in 1..Len(s) : v[i] = s[i]
      /\ v[Len(s) + 1] = LF
  BY <1>1, <1>4
<1> HIDE DEF v
<1>8. LFs(v) = LFs(s) \cup {Len(s) + 1}
  <2>1. \A i : i \in 1..Len(s) + 1 <=> i \in 1..Len(s) \/ i = Len(s) + 1
    BY <1>4
  <2> QED BY <1>4, <1>7, <2>1 DEF LFs
<1>9. LFs(w) \in SUBSET (1..Len(w))
  BY <1>4 DEF LFs
<1> QED BY <1>4, <1>6, <1>7, <1>8, <1>9 DEF Words, A, v

\* A physical line written behind others.
LEMMA WiredNext ==
  ASSUME NEW w, NEW cs, Wired(w, cs), NEW c \in Seq(Line)
  PROVE  Wired(w \o (c \o <<CR, LF>>), Append(cs, c))
<1> DEFINE d == c \o <<CR>>
           s == w \o d
           v == Append(s, LF)
           cuts == LFs(w)
           cl == Closed(w, cuts)
           A == Alphabet
<1>1. /\ w \in Words /\ cs \in Seq(Seq(Line))
      /\ cl \in Seq(Words) /\ Len(cl) = Len(cs)
      /\ \A j \in 1..Len(cs) : cl[j] = cs[j] \o <<CR>>
      /\ w = <<>> \/ Len(w) \in cuts
  BY DEF Wired
<1>2. d \in Seq(Line)
  <2>1. <<CR>> \in Seq(Line)
    BY Octet, LineOne
  <2> QED BY <2>1, LineConcat
<1> HIDE DEF d
<1>3. /\ s \in Words /\ Len(s) = Len(w) + Len(d) /\ Len(s) \in Nat
      /\ cuts \in SUBSET (1..Len(w)) /\ LFs(s) = cuts
      /\ LFs(v) = LFs(s) \cup {Len(s) + 1}
      /\ v \in Words /\ Len(v) = Len(s) + 1
  BY <1>1, <1>2, LineEnds
<1>4. w \in Seq(A) /\ d \in Seq(A) /\ LF \in A /\ s \in Seq(A)
  BY <1>1, <1>2, <1>3, Octet, SeqMonotonic DEF Words
<1>5. w \o (c \o <<CR, LF>>) = v
  <2>1. c \in Seq(A) /\ CR \in A
    BY Octet, SeqMonotonic
  <2> HIDE DEF A
  <2>2. <<CR, LF>> = <<CR>> \o <<LF>> /\ <<CR>> \in Seq(A) /\ <<LF>> \in Seq(A)
    BY <1>4, <2>1
  <2>3. \A x, y, z \in Seq(A) : (x \o y) \o z = x \o (y \o z)
    BY ConcatAssociative
  <2> DEFINE r == <<CR>>
             l == <<LF>>
  <2>4. r \in Seq(A) /\ l \in Seq(A) /\ <<CR, LF>> = r \o l /\ d = c \o r
    BY <2>2 DEF d
  <2>5. \A x \in Seq(A) : x \o l = Append(x, LF)
    BY <1>4
  <2> HIDE DEF r, l
  <2>6. c \o (r \o l) = d \o l
    BY <2>1, <2>3, <2>4
  <2>7. w \o (d \o l) = (w \o d) \o l
    BY <1>4, <2>3, <2>4
  <2>8. s \o l = v
    BY <1>4, <2>5
  <2> QED BY <2>4, <2>6, <2>7, <2>8
<1> HIDE DEF A, cuts
<1>6. Closed(s, cuts) = cl
  BY <1>3, <1>4, ClosedKept
<1>7. Open(s, cuts) = d
  BY <1>1, <1>3, <1>4, OpenIs
<1>8. cuts \in SUBSET (1..Len(s))
  <2>1. \A i \in 1..Len(w) : i \in 1..Len(s)
    <3>1. Len(w) \in Nat /\ Len(d) \in Nat
      BY <1>4, LenProperties
    <3> HIDE DEF s
    <3> QED BY <1>3, <3>1
  <2> HIDE DEF s
  <2> QED BY <1>3, <2>1
<1> HIDE DEF s
<1>9. Closed(v, cuts \cup {Len(s) + 1}) = Append(cl, d)
  <2>1. Closed(Append(s, LF), cuts \cup {Len(s) + 1}) = Append(Closed(s, cuts), Open(s, cuts))
    BY <1>4, <1>8, ClosedNext
  <2> QED BY <1>6, <1>7, <2>1
<1> HIDE DEF v, cl
<1>10. Closed(v, LFs(v)) = Append(cl, d)
  BY <1>3, <1>9
<1>11. d \in Words
  BY <1>4 DEF Words, A
<1>12. /\ Append(cl, d) \in Seq(Words) /\ Len(Append(cl, d)) = Len(cl) + 1
       /\ \A j \in 1..Len(cl) : Append(cl, d)[j] = cl[j]
       /\ Append(cl, d)[Len(cl) + 1] = d
  <2> DEFINE U == Words
  <2>1. cl \in Seq(U) /\ d \in U
    BY <1>1, <1>11 DEF cl
  <2> HIDE DEF U
  <2> QED BY <2>1 DEF U
<1>13. /\ Append(cs, c) \in Seq(Seq(Line)) /\ Len(Append(cs, c)) = Len(cs) + 1
       /\ \A j \in 1..Len(cs) : Append(cs, c)[j] = cs[j]
       /\ Append(cs, c)[Len(cs) + 1] = c
       /\ Len(cs) \in Nat
  <2> DEFINE U == Seq(Line)
  <2>1. cs \in Seq(U) /\ c \in U
    BY <1>1
  <2> HIDE DEF U
  <2> QED BY <2>1 DEF U
<1>14. \A j \in 1..Len(cs) + 1 : Append(cl, d)[j] = Append(cs, c)[j] \o <<CR>>
  <2> TAKE j \in 1..Len(cs) + 1
  <2>1. CASE j \in 1..Len(cs)
    <3>1. cl[j] = cs[j] \o <<CR>>
      BY <1>1, <2>1 DEF cl
    <3> QED BY <1>1, <1>12, <1>13, <2>1, <3>1 DEF cl
  <2>2. CASE j \notin 1..Len(cs)
    <3>1. j = Len(cs) + 1
      BY <1>13, <2>2
    <3>2. Append(cl, d)[j] = d /\ Append(cs, c)[j] = c
      BY <1>1, <1>12, <1>13, <3>1 DEF cl
    <3> QED BY <3>2 DEF d
  <2> QED BY <2>1, <2>2
<1>15. Len(v) \in LFs(v)
  BY <1>3
<1>16. Wired(v, Append(cs, c))
  <2>1. Len(Append(cl, d)) = Len(Append(cs, c))
    BY <1>1, <1>12, <1>13 DEF cl
  <2> QED BY <1>3, <1>10, <1>12, <1>13, <1>14, <1>15, <2>1 DEF Wired
<1> QED BY <1>5, <1>16

\* Without its CR, a physical line is what was written.
LEMMA ChoppedLine ==
  /\ \A c \in Seq(Line) : Chopped(c \o <<CR>>) = c
  /\ Chopped(<<>>) = <<>>
<1>1. ASSUME NEW c \in Seq(Line) PROVE Chopped(c \o <<CR>>) = c
  <2> DEFINE r == <<CR>>
             d == c \o r
  <2>1. r \in Seq(Line) /\ Len(r) = 1 /\ r[1] = CR
    BY Octet, LineOne
  <2> HIDE DEF r
  <2>2. /\ d \in Seq(Line) /\ Len(d) = Len(c) + 1 /\ Len(c) \in Nat
        /\ d[Len(c) + 1] = CR
        /\ SubSeq(d, 1, Len(c)) = c
    <3>1. /\ c \o r \in Seq(Line) /\ Len(c \o r) = Len(c) + Len(r) /\ Len(c) \in Nat
          /\ \A i \in 1..Len(r) : (c \o r)[Len(c) + i] = r[i]
          /\ SubSeq(c \o r, 1, Len(c)) = c
      BY <2>1, LineConcat
    <3>2. 1 \in 1..Len(r)
      BY <2>1
    <3> QED BY <2>1, <3>1, <3>2
  <2> HIDE DEF d
  <2>3. d # <<>>
    <3>1. Len(<<>>) = 0
      OBVIOUS
    <3> QED BY <2>2, <3>1
  <2>4. Last(d) = CR /\ Front(d) = c
    BY <2>2 DEF Last, Front
  <2>5. Chopped(d) = c
    BY <2>3, <2>4 DEF Chopped
  <2> QED BY <2>5 DEF d, r
<1>2. Chopped(<<>>) = <<>>
  BY DEF Chopped
<1> QED BY <1>1, <1>2

\* The lines read are the lines written: the CRs and the piece behind the last
\* line end are dropped.
LEMMA WiredLines ==
  ASSUME NEW w, NEW cs, Wired(w, cs)
  PROVE  PhysicalLinesOf(w) = cs
<1> DEFINE cuts == LFs(w)
           cl == Closed(w, cuts)
           A == Alphabet
           n == Len(cs)
           pieces == SplitAt(w, cuts)
           all == [k \in DOMAIN pieces |-> Chopped(pieces[k])]
           U == Seq(Line)
<1>1. /\ w \in Seq(A) /\ cs \in Seq(U) /\ n \in Nat /\ DOMAIN cs = 1..n
      /\ cl \in Seq(Words) /\ Len(cl) = n
      /\ \A j \in 1..n : cl[j] = cs[j] \o <<CR>>
      /\ w = <<>> \/ Len(w) \in cuts
  <2>1. cs \in Seq(U)
    BY DEF Wired
  <2> HIDE DEF U
  <2>2. n \in Nat /\ DOMAIN cs = 1..n
    BY <2>1, LenProperties
  <2> QED BY <2>1, <2>2 DEF Wired, Words
<1>2. cuts \in SUBSET (1..Len(w))
  <2>1. DOMAIN w = 1..Len(w)
    <3> HIDE DEF A
    <3> QED BY <1>1, LenProperties
  <2> QED BY <2>1 DEF LFs
<1>3. PhysicalLinesOf(w) = IF Last(all) = <<>> THEN Front(all) ELSE all
  BY DEF PhysicalLinesOf, LFs
<1> HIDE DEF cuts
<1>4. pieces = Append(cl, <<>>)
  <2> HIDE DEF A
  <2>1. pieces = Append(cl, Open(w, cuts))
    BY <1>1, <1>2, SplitIs
  <2>2. w \o <<>> = w /\ <<>> \in Seq(A)
    BY <1>1
  <2>3. \A t \in Seq(A) : Open(w \o t, cuts) = t
    BY <1>1, <1>2, OpenIs
  <2>4. Open(w, cuts) = <<>>
    BY <2>2, <2>3
  <2> QED BY <2>1, <2>4
<1> HIDE DEF cl
<1>5. /\ DOMAIN pieces = 1..n + 1
      /\ \A j \in 1..n : pieces[j] = cl[j]
      /\ pieces[n + 1] = <<>>
  <2> DEFINE V == Words
  <2>1. cl \in Seq(V) /\ <<>> \in V /\ pieces = Append(cl, <<>>)
    BY <1>1, <1>4, ShortWords
  <2> HIDE DEF V, pieces
  <2> QED BY <1>1, <2>1
<1> HIDE DEF pieces
<1>6. /\ DOMAIN all = 1..n + 1
      /\ \A j \in 1..n : all[j] = cs[j]
      /\ all[n + 1] = <<>>
  <2>1. DOMAIN all = 1..n + 1 /\ \A j \in 1..n + 1 : all[j] = Chopped(pieces[j])
    BY <1>5
  <2>2. \A j \in 1..n : all[j] = cs[j]
    <3> TAKE j \in 1..n
    <3>1. j \in 1..n + 1
      BY <1>1
    <3>2. cs[j] \in Seq(Line)
      <4>1. cs[j] \in U
        <5> HIDE DEF U
        <5> QED BY <1>1, ElementOfSeq
      <4> QED BY <4>1
    <3> HIDE DEF all
    <3>3. pieces[j] = cs[j] \o <<CR>>
      BY <1>1, <1>5
    <3> QED BY <2>1, <3>1, <3>2, <3>3, ChoppedLine
  <2>3. all[n + 1] = <<>>
    <3>1. n + 1 \in 1..n + 1
      BY <1>1
    <3> HIDE DEF all
    <3> QED BY <1>5, <2>1, <3>1, ChoppedLine
  <2> QED BY <2>1, <2>2, <2>3
<1>7. all = [k \in 1..n + 1 |-> all[k]]
  BY <1>6
<1> HIDE DEF all
<1>8. \A k \in 1..n + 1 : all[k] \in U
  <2>1. \A j \in 1..n : cs[j] \in U
    <3> HIDE DEF U
    <3> QED BY <1>1, ElementOfSeq
  <2>2. <<>> \in U
    OBVIOUS
  <2>3. \A k \in 1..n + 1 : k \in 1..n \/ k = n + 1
    BY <1>1
  <2> HIDE DEF U
  <2> QED BY <1>6, <2>1, <2>2, <2>3
<1> HIDE DEF U
<1>9. all \in Seq(U) /\ Len(all) = n + 1
  <2> DEFINE m == n + 1
  <2>1. m \in Nat /\ all = [k \in 1..m |-> all[k]] /\ \A k \in 1..m : all[k] \in U
    BY <1>1, <1>7, <1>8
  <2> HIDE DEF m
  <2>2. all \in Seq(U) /\ Len(all) = m
    BY <2>1
  <2> QED BY <2>2 DEF m
<1>10. Last(all) = <<>>
  BY <1>6, <1>9 DEF Last
<1>11. Front(all) = cs
  <2>1. Front(all) = SubSeq(all, 1, n)
    BY <1>1, <1>9 DEF Front
  <2>2. /\ SubSeq(all, 1, n) \in Seq(U) /\ Len(SubSeq(all, 1, n)) = n
        /\ \A k \in 1..n : SubSeq(all, 1, n)[k] = all[k]
    BY <1>1, <1>9
  <2>3. \A k \in 1..n : SubSeq(all, 1, n)[k] = cs[k]
    BY <1>6, <2>2
  <2> QED BY <1>1, <2>1, <2>2, <2>3, SeqEqual
<1> QED BY <1>3, <1>10, <1>11

-----------------------------------------------------------------------------
(* What the scanner makes of them. *)

Doc(cs) == [k \in DOMAIN cs |-> Physical(cs[k])]

\* Physical lines that are not empty and not too long.
Whole(cs) ==
  /\ cs \in Seq(Seq(Line))
  /\ \A k \in 1..Len(cs) : cs[k] # <<>> /\ Len(cs[k]) <= Limit

\* A physical line, with its fold or without one.
LEMMA PhysicalIs ==
  ASSUME NEW c \in Seq(Line), c # <<>>
  PROVE  /\ Physical(c) \in Lines /\ ~IsBlank(Physical(c))
         /\ Octets(Physical(c)) = Len(c)
         /\ c[1] # SP => ~Physical(c).folded /\ Physical(c).text = c
         /\ \A b \in Seq(Line) :
              c = <<SP>> \o b => Physical(c).folded /\ Physical(c).text = b
<1> DEFINE A == Line
           t == Tail(c)
<1>1. \A S : S \subseteq Characters => Seq(S) \subseteq CharTexts
  BY SeqMonotonic DEF CharTexts
<1>2. Line \subseteq Characters
  BY Octet DEF Characters
<1>3. c \in Seq(A) /\ Len(c) \in Nat /\ Len(c) # 0
  <2> HIDE DEF A
  <2>1. \A s \in Seq(A) : Len(s) \in Nat /\ (Len(s) = 0 => s = <<>>)
    BY EmptySeq, LenProperties
  <2>2. c \in Seq(A)
    BY DEF A
  <2> QED BY <2>1, <2>2
<1> HIDE DEF A
<1>4. t \in Seq(A) /\ Len(t) = Len(c) - 1
  BY <1>3
<1>5. c \in CharTexts /\ t \in CharTexts
  BY <1>1, <1>2, <1>3, <1>4 DEF A
<1>6. \A b \in Seq(A) : c = <<SP>> \o b => c[1] = SP /\ t = b
  <2>1. SP \in A
    BY Octet DEF A
  <2> QED BY <2>1
<1> HIDE DEF t
<1>7. CASE c[1] = SP
  <2>1. Physical(c) = [folded |-> TRUE, text |-> t]
    BY <1>7 DEF Physical, t, SP
  <2>2. Physical(c).folded = TRUE /\ Physical(c).text = t
    BY <2>1
  <2>3. Physical(c) \in Lines
    BY <1>5, <2>1 DEF Lines
  <2>4. Octets(Physical(c)) = Len(c)
    BY <1>3, <1>4, <2>2 DEF Octets
  <2>5. \A b \in Seq(Line) : c = <<SP>> \o b => t = b
    BY <1>6 DEF A
  <2> QED BY <1>7, <2>2, <2>3, <2>4, <2>5 DEF IsBlank
<1>8. CASE c[1] # SP
  <2>1. Physical(c) = [folded |-> FALSE, text |-> c]
    BY <1>8 DEF Physical, SP
  <2>2. Physical(c).folded = FALSE /\ Physical(c).text = c
    BY <2>1
  <2>3. Physical(c) \in Lines
    BY <1>5, <2>1 DEF Lines
  <2>4. Octets(Physical(c)) = Len(c)
    BY <1>3, <2>2 DEF Octets
  <2>5. \A b \in Seq(Line) : c # <<SP>> \o b
    BY <1>6, <1>8 DEF A
  <2> QED BY <1>8, <2>2, <2>3, <2>4, <2>5 DEF IsBlank
<1> QED BY <1>7, <1>8

LEMMA DocIs ==
  ASSUME NEW cs, Whole(cs)
  PROVE  /\ Doc(cs) \in Seq(Lines) /\ Len(Doc(cs)) = Len(cs) /\ Len(cs) \in Nat
         /\ \A k \in 1..Len(cs) : Doc(cs)[k] = Physical(cs[k]) /\ Octets(Doc(cs)[k]) <= Limit
<1> DEFINE n == Len(cs)
           U == Seq(Line)
           q == Doc(cs)
<1>1. n \in Nat /\ DOMAIN cs = 1..n /\ \A k \in 1..n : cs[k] \in U
  <2>1. cs \in Seq(U)
    BY DEF Whole
  <2> HIDE DEF U
  <2> QED BY <2>1, LenProperties, ElementOfSeq
<1>2. \A k \in 1..n : cs[k] # <<>> /\ Len(cs[k]) <= Limit
  BY DEF Whole
<1>3. q = [k \in 1..n |-> Physical(cs[k])]
  BY <1>1 DEF Doc
<1>4. \A k \in 1..n : q[k] = Physical(cs[k])
  BY <1>3
<1> HIDE DEF q
<1>5. \A k \in 1..n : q[k] \in Lines /\ Octets(q[k]) <= Limit
  <2> TAKE k \in 1..n
  <2>1. cs[k] \in Seq(Line) /\ cs[k] # <<>> /\ Len(cs[k]) <= Limit
    BY <1>1, <1>2
  <2>2. Physical(cs[k]) \in Lines /\ Octets(Physical(cs[k])) = Len(cs[k])
    BY <2>1, PhysicalIs
  <2> QED BY <1>4, <2>1, <2>2
<1>6. q = [k \in 1..n |-> q[k]]
  BY <1>3
<1> HIDE DEF n
<1>7. q \in Seq(Lines) /\ Len(q) = n
  <2> DEFINE V == Lines
  <2>1. \A k \in 1..n : q[k] \in V
    BY <1>5
  <2> HIDE DEF V
  <2>2. q \in Seq(V) /\ Len(q) = n
    BY <1>1, <1>6, <2>1
  <2> QED BY <2>2 DEF V
<1> QED BY <1>1, <1>4, <1>5, <1>7 DEF q, n

\* One physical line more.
LEMMA DocAppend ==
  ASSUME NEW cs, Whole(cs), NEW c \in Seq(Line), c # <<>>, Len(c) <= Limit
  PROVE  /\ Whole(Append(cs, c)) /\ Doc(Append(cs, c)) = Append(Doc(cs), Physical(c))
<1> DEFINE U == Seq(Line)
           n == Len(cs)
           ds == Append(cs, c)
           d == Doc(cs)
           e == Doc(ds)
           f == Append(d, Physical(c))
<1>1. cs \in Seq(U) /\ c \in U /\ n \in Nat
  <2>1. cs \in Seq(U) /\ c \in U
    BY DEF Whole
  <2> HIDE DEF U
  <2> QED BY <2>1, LenProperties
<1>2. /\ ds \in Seq(U) /\ Len(ds) = n + 1
      /\ \A k \in 1..n : ds[k] = cs[k]
      /\ ds[n + 1] = c
  <2> HIDE DEF U
  <2> QED BY <1>1
<1> HIDE DEF ds
<1>3. \A k \in 1..n + 1 : k \in 1..n \/ k = n + 1
  BY <1>1
<1>4. Whole(ds)
  <2>1. \A k \in 1..n : cs[k] # <<>> /\ Len(cs[k]) <= Limit
    BY DEF Whole
  <2>2. \A k \in 1..n + 1 : ds[k] # <<>> /\ Len(ds[k]) <= Limit
    BY <1>2, <1>3, <2>1
  <2> QED BY <1>2, <2>2 DEF Whole
<1>5. /\ d \in Seq(Lines) /\ Len(d) = n /\ \A k \in 1..n : d[k] = Physical(cs[k])
      /\ e \in Seq(Lines) /\ Len(e) = n + 1 /\ \A k \in 1..n + 1 : e[k] = Physical(ds[k])
  BY <1>2, <1>4, DocIs
<1> HIDE DEF d, e, n, U
<1>6. /\ f \in Seq(Lines) /\ Len(f) = n + 1
      /\ \A k \in 1..n : f[k] = d[k]
      /\ f[n + 1] = Physical(c)
  <2>1. Physical(c) \in Lines
    BY PhysicalIs
  <2> DEFINE V == Lines
  <2>2. d \in Seq(V) /\ Physical(c) \in V
    BY <1>5, <2>1
  <2> HIDE DEF V
  <2>3. /\ f \in Seq(V) /\ Len(f) = n + 1
        /\ \A k \in 1..n : f[k] = d[k]
        /\ f[n + 1] = Physical(c)
    BY <1>1, <1>5, <2>2
  <2> QED BY <2>3 DEF V
<1> HIDE DEF f
<1>7. \A k \in 1..n + 1 : e[k] = f[k]
  <2> TAKE k \in 1..n + 1
  <2>1. CASE k \in 1..n
    BY <1>2, <1>5, <1>6, <2>1
  <2>2. CASE k = n + 1
    BY <1>2, <1>5, <1>6, <2>2
  <2> QED BY <1>3, <2>1, <2>2
<1>8. e = f
  BY <1>5, <1>6, <1>7, SeqEqual
<1> QED BY <1>4, <1>8 DEF ds, d, e, f

\* A wire whose lines unfold to L.
Sent(w, cs, L) == Wired(w, cs) /\ Whole(cs) /\ Unfolded(Doc(cs)) = L

\* A wire with L over and the line t, begun at the k-th physical line, running.
Going(w, cs, L, t, k) ==
  /\ Wired(w, cs) /\ Whole(cs)
  /\ Running(Doc(cs), k) /\ Over(Doc(cs), k) = L /\ TextFrom(Doc(cs), k) = t

LEMMA NothingSent == Sent(<<>>, <<>>, <<>>)
<1>1. LFs(<<>>) = {}
  BY DEF LFs
<1>2. Closed(<<>>, {}) = <<>>
  <2>1. <<>> \in Seq(Alphabet)
    OBVIOUS
  <2> QED BY <2>1, SplitWhole
<1>3. \A S : <<>> \in Seq(S) /\ Len(<<>>) = 0
  OBVIOUS
<1>4. Wired(<<>>, <<>>)
  <2>1. <<>> \in Words /\ <<>> \in Seq(Words) /\ <<>> \in Seq(Seq(Line))
    BY <1>3 DEF Words
  <2>2. Closed(<<>>, LFs(<<>>)) = <<>>
    BY <1>1, <1>2
  <2>3. \A j : j \notin 1..Len(<<>>)
    BY <1>3
  <2> QED BY <2>1, <2>2, <2>3 DEF Wired
<1>5. Whole(<<>>)
  BY <1>3 DEF Whole
<1>6. Doc(<<>>) = <<>>
  BY DEF Doc
<1>7. LinesAt(<<>>) = <<>>
  BY DEF LinesAt
<1>8. Unfolded(<<>>) = <<>>
  BY <1>7, FlattenAppend DEF Unfolded
<1> QED BY <1>4, <1>5, <1>6, <1>8 DEF Sent

\* The first chunk of a line.
LEMMA LineBegun ==
  ASSUME NEW w, NEW cs, NEW L, Sent(w, cs, L),
         NEW c \in Seq(Line), c # <<>>, Len(c) <= Limit, c[1] # SP
  PROVE  Going(w \o (c \o <<CR, LF>>), Append(cs, c), L, c, Len(cs) + 1)
<1>1. Wired(w, cs) /\ Whole(cs) /\ Unfolded(Doc(cs)) = L
  BY DEF Sent
<1>2. Wired(w \o (c \o <<CR, LF>>), Append(cs, c))
  BY <1>1, WiredNext
<1>3. Whole(Append(cs, c)) /\ Doc(Append(cs, c)) = Append(Doc(cs), Physical(c))
  BY <1>1, DocAppend
<1>4. /\ Physical(c) \in Lines /\ ~IsBlank(Physical(c))
      /\ ~Physical(c).folded /\ Physical(c).text = c
  BY PhysicalIs
<1>5. Doc(cs) \in Seq(Lines) /\ Len(Doc(cs)) = Len(cs)
  BY <1>1, DocIs
<1>6. /\ Running(Append(Doc(cs), Physical(c)), Len(Doc(cs)) + 1)
      /\ TextFrom(Append(Doc(cs), Physical(c)), Len(Doc(cs)) + 1) = Physical(c).text
      /\ Over(Append(Doc(cs), Physical(c)), Len(Doc(cs)) + 1) = Unfolded(Doc(cs))
  BY <1>4, <1>5, LineStarts
<1> QED BY <1>1, <1>2, <1>3, <1>4, <1>5, <1>6 DEF Going

\* A further chunk of it, behind a space.
LEMMA LineGoesOn ==
  ASSUME NEW w, NEW cs, NEW L, NEW t, NEW k, Going(w, cs, L, t, k),
         NEW b \in Seq(Line), Len(<<SP>> \o b) <= Limit
  PROVE  Going(w \o ((<<SP>> \o b) \o <<CR, LF>>), Append(cs, <<SP>> \o b), L, t \o b, k)
<1> DEFINE c == <<SP>> \o b
<1>0. c \in Seq(Line) /\ c # <<>> /\ Len(c) <= Limit
  <2>1. <<SP>> \in Seq(Line) /\ Len(<<SP>>) = 1
    BY Octet, LineOne
  <2> DEFINE r == <<SP>>
  <2> HIDE DEF r
  <2>2. r \o b \in Seq(Line) /\ Len(r \o b) = 1 + Len(b) /\ Len(b) \in Nat
    BY <2>1, LineConcat DEF r
  <2>3. r \o b # <<>>
    <3>1. Len(<<>>) = 0
      OBVIOUS
    <3> QED BY <2>2, <3>1
  <2> QED BY <2>2, <2>3 DEF r
<1>1. /\ Wired(w, cs) /\ Whole(cs) /\ Running(Doc(cs), k)
      /\ Over(Doc(cs), k) = L /\ TextFrom(Doc(cs), k) = t
  BY DEF Going
<1>4. /\ Physical(c) \in Lines /\ Physical(c).folded /\ Physical(c).text = b
  BY <1>0, PhysicalIs
<1> HIDE DEF c
<1>2. Wired(w \o (c \o <<CR, LF>>), Append(cs, c))
  BY <1>0, <1>1, WiredNext
<1>3. Whole(Append(cs, c)) /\ Doc(Append(cs, c)) = Append(Doc(cs), Physical(c))
  BY <1>0, <1>1, DocAppend
<1>5. Doc(cs) \in Seq(Lines)
  BY <1>1, DocIs
<1>6. /\ Running(Append(Doc(cs), Physical(c)), k)
      /\ TextFrom(Append(Doc(cs), Physical(c)), k) = TextFrom(Doc(cs), k) \o Physical(c).text
      /\ Over(Append(Doc(cs), Physical(c)), k) = Over(Doc(cs), k)
  BY <1>1, <1>4, <1>5, FoldExtends
<1>7. Going(w \o (c \o <<CR, LF>>), Append(cs, c), L, t \o b, k)
  BY <1>1, <1>2, <1>3, <1>4, <1>6 DEF Going
<1> QED BY <1>7 DEF c

\* Its end.
LEMMA LineOver ==
  ASSUME NEW w, NEW cs, NEW L, NEW t, NEW k, Going(w, cs, L, t, k), t # <<>>
  PROVE  Sent(w, cs, Append(L, t))
<1>1. /\ Wired(w, cs) /\ Whole(cs) /\ Running(Doc(cs), k)
      /\ Over(Doc(cs), k) = L /\ TextFrom(Doc(cs), k) = t
  BY DEF Going
<1>2. Doc(cs) \in Seq(Lines)
  BY <1>1, DocIs
<1>3. Unfolded(Doc(cs)) = Append(L, t)
  BY <1>1, <1>2, RunningIsLast
<1> QED BY <1>1, <1>3 DEF Sent

\* A line in c chunks.
Folds(line, c) ==
  /\ c \in Nat \ {0}
  /\ WriteFolded(line) = FlattenSeq(ChunksOf(line, c))
  /\ ChunksOf(line, c) \in Seq(Words) /\ Len(ChunksOf(line, c)) = c
  /\ \A n \in 1..c : /\ Before(n) < Len(line)
                     /\ Chunk(line, n) \in Words /\ Chunk(line, n) # <<>>
                     /\ Len(Chunk(line, n)) <= Limit
                     /\ ChunksOf(line, c)[n] = Chunk(line, n) \o <<CR, LF>>
  /\ Reached(line, c) = Len(line)

\* The chunk of a line: what it adds to the chunks before it.
LEMMA ChunkAdds ==
  ASSUME NEW line \in Seq(Line), NEW c, Folds(line, c), NEW n \in 1..c
  PROVE  /\ Chunk(line, n) = (IF n = 1 THEN <<>> ELSE <<SP>>) \o Body(line, n)
         /\ Body(line, n) \in Seq(Line)
         /\ Chunk(line, n) # <<>> /\ Len(Chunk(line, n)) <= Limit
         /\ SubSeq(line, 1, Reached(line, n)) =
              SubSeq(line, 1, Reached(line, n - 1)) \o Body(line, n)
         /\ n = 1 => SubSeq(line, 1, Reached(line, n)) = Body(line, n)
                     /\ Body(line, n)[1] = line[1]
<1>1. line \in Words
  <2> DEFINE A == Alphabet
             B == Line
  <2>1. B \subseteq A /\ line \in Seq(B)
    BY Octet
  <2> HIDE DEF A, B
  <2>2. line \in Seq(A)
    BY <2>1, SeqMonotonic
  <2> QED BY <2>2 DEF Words, A
<1>2. /\ c \in Nat /\ c # 0 /\ \A k \in 1..c : Before(k) < Len(line)
      /\ Chunk(line, n) # <<>> /\ Len(Chunk(line, n)) <= Limit
  BY DEF Folds
<1>3. /\ Reached(line, n) \in 1..Len(line) /\ Before(n) < Reached(line, n)
      /\ Body(line, n) = SubSeq(line, Before(n) + 1, Reached(line, n))
      /\ Body(line, n) \in Words
      /\ Len(Body(line, n)) = Reached(line, n) - Before(n)
      /\ \A i \in 1..Len(Body(line, n)) :
           Before(n) + i \in 1..Len(line) /\ Body(line, n)[i] = line[Before(n) + i]
      /\ SubSeq(line, 1, Reached(line, n)) =
           SubSeq(line, 1, Reached(line, n - 1)) \o Body(line, n)
  BY <1>1, <1>2, ChunkIs
<1>4. Before(n) \in Nat /\ Before(1) = 0
  <2>1. n \in Nat \ {0}
    BY <1>2
  <2> QED BY <2>1, BeforeGrows
<1>5. Len(line) \in Nat
  BY LenProperties
<1>6. Body(line, n) \in Seq(Line)
  <2>1. <<>> \in Seq(Line)
    OBVIOUS
  <2>2. \A a \in Nat \ {0}, b \in 0..Len(line) : SubSeq(line, a, b) \in Seq(Line)
    BY <2>1, LineConcat
  <2>3. Before(n) + 1 \in Nat \ {0} /\ Reached(line, n) \in 0..Len(line)
    <3>1. \A a \in Nat : a + 1 \in Nat \ {0}
      OBVIOUS
    <3>2. \A m \in Nat : 1..m \subseteq 0..m
      OBVIOUS
    <3> QED BY <1>3, <1>4, <1>5, <3>1, <3>2
  <2> QED BY <1>3, <2>2, <2>3
<1>7. n = 1 => SubSeq(line, 1, Reached(line, n)) = Body(line, n)
               /\ Body(line, n)[1] = line[1]
  <2> HAVE n = 1
  <2>1. 1 \in 1..Len(Body(line, n)) /\ Before(n) = 0
    BY <1>3, <1>4, <1>5
  <2>2. Body(line, n)[1] = line[1]
    BY <1>3, <2>1
  <2>3. SubSeq(line, 1, Reached(line, n)) = Body(line, n)
    <3>1. Before(n) + 1 = 1
      BY <2>1
    <3> QED BY <1>3, <3>1
  <2> QED BY <2>2, <2>3
<1>8. Chunk(line, n) = (IF n = 1 THEN <<>> ELSE <<SP>>) \o Body(line, n)
  BY DEF Chunk
<1> QED BY <1>2, <1>3, <1>6, <1>7, <1>8

\* The first n chunks of a line, and what is on the wire when they are.
Chunks(line, c, n) == FlattenSeq(SubSeq(ChunksOf(line, c), 1, n))

ChunksSent(w, L, line, c, n) ==
  \E ds, k : Going(w \o Chunks(line, c, n), ds, L, SubSeq(line, 1, Reached(line, n)), k)

LEMMA LineIsWord ==
  ASSUME NEW line \in Seq(Line)
  PROVE  line \in Words
<1> DEFINE A == Alphabet
           B == Line
<1>1. B \subseteq A /\ line \in Seq(B)
  BY Octet
<1> HIDE DEF A, B
<1>2. line \in Seq(A)
  BY <1>1, SeqMonotonic
<1> QED BY <1>2 DEF Words, A

\* The chunks of a line on the wire, one by one.
ChunksOnWire(w, line, c) ==
  /\ w \o Chunks(line, c, 1) = w \o (Chunk(line, 1) \o <<CR, LF>>)
  /\ \A n \in 1..c : n # c =>
       w \o Chunks(line, c, n + 1) =
         (w \o Chunks(line, c, n)) \o (Chunk(line, n + 1) \o <<CR, LF>>)
  /\ w \o Chunks(line, c, c) = w \o WriteFolded(line)
  /\ WriteFolded(line) \in Words

LEMMA ChunkByChunk ==
  ASSUME NEW w \in Words, NEW line, NEW c, Folds(line, c)
  PROVE  ChunksOnWire(w, line, c)
<1> DEFINE A == Alphabet
           q == ChunksOf(line, c)
           F(n) == FlattenSeq(SubSeq(q, 1, n))
<1>1. /\ c \in Nat /\ c # 0 /\ WriteFolded(line) = FlattenSeq(q)
      /\ q \in Seq(Seq(A)) /\ Len(q) = c
      /\ \A n \in 1..c : q[n] = Chunk(line, n) \o <<CR, LF>>
  BY DEF Folds, Words
<1> HIDE DEF A, q
<1>2. /\ F(0) = <<>> /\ F(c) = FlattenSeq(q)
      /\ \A i \in 0..c : F(i) \in Seq(A)
      /\ \A i \in 0..c : i # c => F(i + 1) = F(i) \o q[i + 1]
  BY <1>1, FlattenUpTo
<1> HIDE DEF F
<1>3. \A i \in 1..c : q[i] \in Seq(A)
  <2> DEFINE U == Seq(A)
  <2>1. q \in Seq(U)
    BY <1>1
  <2> HIDE DEF U
  <2>2. \A i \in 1..c : q[i] \in U
    BY <1>1, <2>1, ElementOfSeq
  <2> QED BY <2>2 DEF U
<1>4. F(1) = q[1]
  <2>1. 0 \in 0..c /\ 0 # c /\ 0 + 1 = 1 /\ 1 \in 1..c
    BY <1>1
  <2>2. F(0 + 1) = F(0) \o q[0 + 1]
    BY <1>2, <2>1
  <2>3. q[1] \in Seq(A)
    BY <1>3, <2>1
  <2>4. <<>> \o q[1] = q[1]
    BY <2>3
  <2> QED BY <1>2, <2>1, <2>2, <2>4
<1>5. w \in Seq(A)
  BY DEF Words, A
<1>6. \A n \in 1..c : n # c =>
        w \o F(n + 1) = (w \o F(n)) \o (Chunk(line, n + 1) \o <<CR, LF>>)
  <2> TAKE n \in 1..c
  <2> HAVE n # c
  <2>1. n \in 0..c /\ n + 1 \in 1..c
    BY <1>1
  <2>2. F(n + 1) = F(n) \o q[n + 1] /\ F(n) \in Seq(A) /\ q[n + 1] \in Seq(A)
    BY <1>2, <1>3, <2>1
  <2>3. w \o (F(n) \o q[n + 1]) = (w \o F(n)) \o q[n + 1]
    <3>1. \A x, y, z \in Seq(A) : (x \o y) \o z = x \o (y \o z)
      BY ConcatAssociative
    <3> QED BY <1>5, <2>2, <3>1
  <2>4. q[n + 1] = Chunk(line, n + 1) \o <<CR, LF>>
    BY <1>1, <2>1
  <2> QED BY <2>2, <2>3, <2>4
<1>7. w \o F(1) = w \o (Chunk(line, 1) \o <<CR, LF>>)
  <2>1. 1 \in 1..c
    BY <1>1
  <2> QED BY <1>1, <1>4, <2>1
<1>8. F(c) \in Seq(A)
  <2>1. c \in 0..c
    BY <1>1
  <2> QED BY <1>2, <2>1
<1> QED BY <1>1, <1>2, <1>6, <1>7, <1>8 DEF ChunksOnWire, Chunks, F, q, A, Words

LEMMA ChunksGo ==
  ASSUME NEW w, NEW cs, NEW L, Sent(w, cs, L),
         NEW line \in Seq(Line), line[1] # SP, NEW c, Folds(line, c)
  PROVE  ChunksSent(w, L, line, c, c)
<1> DEFINE F(n) == Chunks(line, c, n)
           t(n) == SubSeq(line, 1, Reached(line, n))
           T == {m \in Nat : m < c => ChunksSent(w, L, line, c, m + 1)}
<1>1. c \in Nat /\ c # 0
  BY DEF Folds
<1>2. w \in Words
  BY DEF Sent, Wired
<1>3. /\ w \o F(1) = w \o (Chunk(line, 1) \o <<CR, LF>>)
      /\ \A n \in 1..c : n # c =>
           w \o F(n + 1) = (w \o F(n)) \o (Chunk(line, n + 1) \o <<CR, LF>>)
  <2>1. Folds(line, c)
    OBVIOUS
  <2>2. ChunksOnWire(w, line, c)
    BY <1>2, <2>1, ChunkByChunk
  <2> QED BY <2>2 DEF ChunksOnWire
<1>4. \A n : ChunksSent(w, L, line, c, n) <=> \E ds, k : Going(w \o F(n), ds, L, t(n), k)
  BY DEF ChunksSent
<1>5. \A n \in 1..c :
        /\ Chunk(line, n) = (IF n = 1 THEN <<>> ELSE <<SP>>) \o Body(line, n)
        /\ Body(line, n) \in Seq(Line)
        /\ Chunk(line, n) # <<>> /\ Len(Chunk(line, n)) <= Limit
        /\ t(n) = t(n - 1) \o Body(line, n)
        /\ n = 1 => t(n) = Body(line, n) /\ Body(line, n)[1] = line[1]
  BY ChunkAdds
<1> HIDE DEF F, t
<1>6. ChunksSent(w, L, line, c, 1)
  <2>1. 1 \in 1..c
    BY <1>1
  <2> DEFINE b == Body(line, 1)
  <2>2. /\ Chunk(line, 1) = <<>> \o b /\ b \in Seq(Line)
        /\ Chunk(line, 1) # <<>> /\ Len(Chunk(line, 1)) <= Limit
        /\ t(1) = b /\ b[1] = line[1]
    BY <1>5, <2>1
  <2> HIDE DEF b
  <2>3. Chunk(line, 1) = b
    BY <2>2, LineAssociative
  <2>4. Going(w \o (b \o <<CR, LF>>), Append(cs, b), L, b, Len(cs) + 1)
    BY <2>2, <2>3, LineBegun
  <2>5. Going(w \o F(1), Append(cs, b), L, t(1), Len(cs) + 1)
    BY <1>3, <2>2, <2>3, <2>4
  <2> QED BY <1>4, <2>5
<1>7. ASSUME NEW n \in Nat, n \in T PROVE n + 1 \in T
  <2> SUFFICES ASSUME n + 1 < c PROVE ChunksSent(w, L, line, c, (n + 1) + 1)
    OBVIOUS
  <2> DEFINE m == n + 1
             b == Body(line, m + 1)
  <2>1. m \in 1..c /\ m # c /\ m + 1 \in 1..c /\ m + 1 # 1 /\ (m + 1) - 1 = m /\ n < c
    BY <1>1
  <2>2. ChunksSent(w, L, line, c, m)
    BY <1>7, <2>1
  <2> HIDE DEF m
  <2>3. PICK ds, k : Going(w \o F(m), ds, L, t(m), k)
    BY <1>4, <2>2
  <2>4. /\ Chunk(line, m + 1) = <<SP>> \o b /\ b \in Seq(Line)
        /\ Len(Chunk(line, m + 1)) <= Limit
        /\ t(m + 1) = t(m) \o b
    BY <1>5, <2>1
  <2> HIDE DEF b
  <2>5. Going((w \o F(m)) \o ((<<SP>> \o b) \o <<CR, LF>>), Append(ds, <<SP>> \o b), L,
              t(m) \o b, k)
    BY <2>3, <2>4, LineGoesOn
  <2>6. w \o F(m + 1) = (w \o F(m)) \o ((<<SP>> \o b) \o <<CR, LF>>)
    BY <1>3, <2>1, <2>4
  <2>7. Going(w \o F(m + 1), Append(ds, <<SP>> \o b), L, t(m + 1), k)
    BY <2>4, <2>5, <2>6
  <2> QED BY <1>4, <2>7 DEF m
<1>8. 0 \in T
  <2>1. 0 + 1 = 1
    OBVIOUS
  <2> QED BY <1>6, <2>1
<1> HIDE DEF T
<1>9. Nat \subseteq T
  BY <1>7, <1>8, SetInduction
<1>10. c - 1 \in T /\ c - 1 < c /\ (c - 1) + 1 = c
  BY <1>1, <1>9
<1> QED BY <1>10 DEF T

\* A line written behind others is read behind them.
LEMMA LineSent ==
  ASSUME NEW w, NEW cs, NEW L, Sent(w, cs, L),
         NEW line \in Seq(Line), line # <<>>, line[1] # SP
  PROVE  /\ \E ds : Sent(w \o WriteFolded(line), ds, Append(L, line))
         /\ WriteFolded(line) \in Words
<1>1. line \in Words
  BY LineIsWord
<1>2. PICK c : Folds(line, c)
  BY <1>1, FoldsAre DEF Folds
<1>3. PICK ds, k : Going(w \o Chunks(line, c, c), ds, L,
                         SubSeq(line, 1, Reached(line, c)), k)
  BY <1>2, ChunksGo DEF ChunksSent
<1>4. w \in Words
  BY DEF Sent, Wired
<1>5. /\ w \o Chunks(line, c, c) = w \o WriteFolded(line)
      /\ WriteFolded(line) \in Words
  BY <1>2, <1>4, ChunkByChunk DEF ChunksOnWire
<1>6. SubSeq(line, 1, Reached(line, c)) = line
  <2>1. Reached(line, c) = Len(line)
    BY <1>2 DEF Folds
  <2>2. SubSeq(line, 1, Len(line)) = line
    OBVIOUS
  <2> QED BY <2>1, <2>2
<1>7. Going(w \o WriteFolded(line), ds, L, line, k)
  BY <1>3, <1>5, <1>6
<1>8. Sent(w \o WriteFolded(line), ds, Append(L, line))
  BY <1>7, LineOver
<1> QED BY <1>5, <1>8

-----------------------------------------------------------------------------
(* What the parser makes of the lines. *)

LEMMA NameSpelled ==
  ASSUME NEW name \in Texts, NEW marks, Spelled(name, marks)
  PROVE  name # <<>> /\ name \in Seq(STRING \ ({DQ, LF, Semi, ":"} \cup marks))
<1>1. name # <<>> /\ ~Has(name, {DQ, LF, Semi, ":"} \cup marks)
  BY Zenon DEF Spelled, Semi
<1>2. name \in Seq(STRING)
  BY DEF Texts
<1> DEFINE M == {DQ, LF, Semi, ":"} \cup marks
<1> HIDE DEF M
<1>3. name \in Seq(STRING \ M)
  BY <1>1, <1>2, HasNone DEF M
<1> QED BY <1>1, <1>3 DEF M

\* Texts without what breaks their line.
LEMMA TextSpelled ==
  /\ Texts \subseteq Words
  /\ Seq(STRING \ {LF}) \subseteq Seq(Line)
  /\ Seq(STRING \ {LF, DQ}) \subseteq Seq(Plain) /\ Seq(Plain) \subseteq Seq(Line)
  /\ Seq(STRING \ ({DQ, LF, Semi, ":"} \cup {})) \subseteq Seq(Naming)
  /\ Seq(STRING \ ({DQ, LF, Semi, ":"} \cup {"="})) \subseteq Seq(ParamName)
<1>1. STRING \subseteq Alphabet
  BY Marks
<1>2. /\ STRING \ {LF} \subseteq Line
      /\ STRING \ {LF, DQ} \subseteq Plain /\ Plain \subseteq Line
  BY <1>1 DEF Line, Plain
<1>3. STRING \ ({DQ, LF, Semi, ":"} \cup {}) \subseteq Naming
  BY <1>1 DEF Line, Plain, Naming
<1>4. STRING \ ({DQ, LF, Semi, ":"} \cup {"="}) \subseteq ParamName
  BY <1>1 DEF ParamName
<1>5. \A S, T : S \subseteq T => Seq(S) \subseteq Seq(T)
  BY SeqMonotonic
<1> QED BY <1>1, <1>2, <1>3, <1>4, <1>5 DEF Texts, Words

LEMMA ParamsSpelled ==
  ASSUME NEW codec \in {"ical", "vcard"}, NEW p \in Properties, Spellable(codec, p)
  PROVE  SoundParams(codec, p.params, Len(p.params)) /\ Len(p.params) \in Nat
<1> DEFINE R == [name : Texts, value : Texts]
           n == Len(p.params)
<1>1. p.params \in Seq(R)
  BY DEF Properties
<1>2. n \in Nat /\ DOMAIN p.params = 1..n /\ \A i \in 1..n : p.params[i] \in R
  <2> HIDE DEF R
  <2> QED BY <1>1, LenProperties, ElementOfSeq
<1>3. \A i \in 1..n : p.params[i].name \in Texts /\ p.params[i].value \in Texts
  BY <1>2
<1>4. \A i \in 1..n :
        /\ Spelled(p.params[i].name, {"="})
        /\ ~Has(p.params[i].value, IF codec = "vcard" THEN {LF, DQ} ELSE {LF})
  BY <1>2 DEF Spellable
<1> HIDE DEF R, n
<1>5. ASSUME NEW i \in 1..n PROVE Sound(codec, p.params[i])
  <2> DEFINE name == p.params[i].name
             value == p.params[i].value
  <2>1. /\ name \in Texts /\ value \in Texts /\ Spelled(name, {"="})
        /\ ~Has(value, IF codec = "vcard" THEN {LF, DQ} ELSE {LF})
    BY <1>3, <1>4
  <2> HIDE DEF name, value
  <2>2. name # <<>> /\ name \in Seq(ParamName)
    BY <2>1, NameSpelled, TextSpelled
  <2>3. value \in Seq(STRING)
    BY <2>1 DEF Texts
  <2>4. CASE codec = "vcard"
    <3>1. value \in Seq(STRING \ {LF, DQ})
      BY <2>1, <2>3, <2>4, HasNone
    <3>2. value \in Seq(Plain) /\ value \in Seq(Line)
      BY <3>1, TextSpelled
    <3> QED BY <2>2, <3>2 DEF Sound, name, value
  <2>5. CASE codec # "vcard"
    <3>1. value \in Seq(STRING \ {LF})
      BY <2>1, <2>3, <2>5, HasNone
    <3>2. value \in Seq(Line)
      BY <3>1, TextSpelled
    <3> QED BY <2>2, <2>5, <3>2 DEF Sound, name, value
  <2> QED BY <2>4, <2>5
<1> QED BY <1>2, <1>5 DEF SoundParams, n

\* The line of a property is one line, and read as what the codec keeps of it.
LineReads(codec, p) ==
  LET line == ContentLineOf(codec, p)
  IN  /\ line \in Seq(Line) /\ line # <<>> /\ line[1] # SP
      /\ ParseContentLine(codec, line) = {Kept(codec, p)}

LEMMA PropertyReads ==
  ASSUME NEW codec \in {"ical", "vcard"}, NEW p \in Properties, Spellable(codec, p)
  PROVE  LineReads(codec, p)
<1> DEFINE n == Len(p.params)
           line == ContentLineOf(codec, p)
<1>1. n \in Nat /\ DOMAIN p.params = 1..n /\ \A i \in 1..n : Sound(codec, p.params[i])
  BY ParamsSpelled DEF SoundParams
<1>2. p.name \in Texts /\ p.value \in Texts
  BY DEF Properties
<1>3. /\ Spelled(p.name, {})
      /\ WrittenName(codec, p.name) # <<>> /\ WrittenName(codec, p.name)[1] # SP
  BY DEF Spellable
<1>4. p.name # <<>> /\ p.name \in Seq(Naming)
  BY <1>2, <1>3, NameSpelled, TextSpelled
<1>5. p.value \in Words
  BY <1>2, TextSpelled
<1>6. codec = "vcard" \/ TextProperty(p.name) \/ p.value \in Seq(Line)
  <2>1. codec = "vcard" \/ TextProperty(p.name) \/ ~Has(p.value, {LF})
    BY DEF Spellable
  <2>2. CASE ~Has(p.value, {LF})
    <3>1. p.value \in Seq(STRING)
      BY <1>2 DEF Texts
    <3>2. p.value \in Seq(STRING \ {LF})
      BY <2>2, <3>1, HasNone
    <3> QED BY <3>2, TextSpelled
  <2> QED BY <2>1, <2>2
<1> DEFINE got == [name |-> WrittenName(codec, p.name),
                   params |-> [i \in 1..n |-> [name |-> Upper(p.params[i].name),
                                               value |-> Bare(codec, p.params[i].value)]],
                   value |-> IF codec = "vcard" \/ TextProperty(p.name)
                             THEN KeptText(codec, p.value) ELSE p.value]
<1>7. /\ line \in Seq(Line) /\ line # <<>> /\ line[1] # SP
      /\ ParseContentLine(codec, line) = {got}
  <2> HIDE DEF n
  <2> QED BY <1>1, <1>3, <1>4, <1>5, <1>6, ParseReads
<1>8. got = Kept(codec, p)
  <2>1. [i \in 1..n |-> [name |-> Upper(p.params[i].name),
                         value |-> Bare(codec, p.params[i].value)]] =
        [k \in DOMAIN p.params |->
           [name |-> Upper(p.params[k].name),
            value |-> IF codec = "ical" THEN Without(p.params[k].value, DQ)
                      ELSE p.params[k].value]]
    BY <1>1 DEF Bare
  <2>2. (IF codec = "vcard" \/ TextProperty(p.name) THEN KeptText(codec, p.value)
         ELSE p.value) =
        IF codec = "ical" /\ TextProperty(p.name) THEN Without(p.value, CR) ELSE p.value
    <3>1. CASE codec = "ical"
      <4>1. codec # "vcard"
        BY <3>1
      <4> QED BY <3>1, <4>1 DEF KeptText
    <3>2. CASE codec = "vcard"
      <4>1. codec # "ical"
        BY <3>2
      <4> QED BY <3>2, <4>1 DEF KeptText
    <3> QED BY <3>1, <3>2
  <2> QED BY <2>1, <2>2 DEF Kept
<1> HIDE DEF got
<1> QED BY <1>7, <1>8 DEF LineReads

-----------------------------------------------------------------------------
(* Documents. *)

Spellables(codec, props) ==
  /\ props \in Seq(Properties)
  /\ \A k \in DOMAIN props : Spellable(codec, props[k])

\* The content lines of a document.
Content(codec, props) == [k \in DOMAIN props |-> ContentLineOf(codec, props[k])]

LEMMA ContentIs ==
  ASSUME NEW codec \in {"ical", "vcard"}, NEW props, Spellables(codec, props)
  PROVE  LET n == Len(props)
             L == Content(codec, props)
         IN  /\ n \in Nat /\ DOMAIN props = 1..n
             /\ L \in Seq(Seq(Line)) /\ Len(L) = n
             /\ \A k \in 1..n : /\ L[k] = ContentLineOf(codec, props[k])
                                /\ L[k] \in Seq(Line) /\ L[k] # <<>> /\ L[k][1] # SP
                                /\ ParseContentLine(codec, L[k]) = {Kept(codec, props[k])}
<1> DEFINE n == Len(props)
           L == Content(codec, props)
           V == Properties
<1>1. n \in Nat /\ DOMAIN props = 1..n /\ \A k \in 1..n : props[k] \in V
  <2>1. props \in Seq(V)
    BY DEF Spellables
  <2> HIDE DEF V
  <2> QED BY <2>1, LenProperties, ElementOfSeq
<1>2. \A k \in 1..n : Spellable(codec, props[k])
  BY <1>1 DEF Spellables
<1>3. L = [k \in 1..n |-> L[k]] /\ \A k \in 1..n : L[k] = ContentLineOf(codec, props[k])
  BY <1>1 DEF Content
<1> HIDE DEF n, L
<1>4. \A k \in 1..n : /\ L[k] \in Seq(Line) /\ L[k] # <<>> /\ L[k][1] # SP
                      /\ ParseContentLine(codec, L[k]) = {Kept(codec, props[k])}
  <2> TAKE k \in 1..n
  <2>1. props[k] \in Properties /\ Spellable(codec, props[k])
    BY <1>1, <1>2
  <2>2. LineReads(codec, props[k])
    BY <2>1, PropertyReads
  <2> QED BY <1>3, <2>2 DEF LineReads
<1>5. L \in Seq(Seq(Line)) /\ Len(L) = n
  <2> DEFINE U == Seq(Line)
  <2>1. \A k \in 1..n : L[k] \in U
    BY <1>4
  <2> HIDE DEF U
  <2>2. L \in Seq(U) /\ Len(L) = n
    BY <1>1, <1>3, <2>1
  <2> QED BY <2>2 DEF U
<1> QED BY <1>1, <1>3, <1>4, <1>5 DEF n, L

\* The lines of a document, one behind the other on the wire, unfold to its
\* content lines.
LEMMA WireSent ==
  ASSUME NEW codec \in {"ical", "vcard"}, NEW props, Spellables(codec, props)
  PROVE  \E cs : Sent(WireOf(codec, props), cs, Content(codec, props))
<1> DEFINE n == Len(props)
           L == Content(codec, props)
           A == Alphabet
           q == [k \in DOMAIN props |-> WriteFolded(L[k])]
           F(i) == FlattenSeq(SubSeq(q, 1, i))
           G(i) == SubSeq(L, 1, i)
           T == {i \in Nat : i <= n => \E cs : Sent(F(i), cs, G(i))}
<1>1. /\ n \in Nat /\ DOMAIN props = 1..n
      /\ L \in Seq(Seq(Line)) /\ Len(L) = n
      /\ \A k \in 1..n : /\ L[k] = ContentLineOf(codec, props[k])
                         /\ L[k] \in Seq(Line) /\ L[k] # <<>> /\ L[k][1] # SP
  BY ContentIs
<1>2. WireOf(codec, props) = FlattenSeq(q)
  <2>1. q = [k \in DOMAIN props |-> WriteFolded(ContentLineOf(codec, props[k]))]
    BY <1>1
  <2> QED BY <2>1 DEF WireOf
<1> HIDE DEF L, n
<1>3. \A k \in 1..n : WriteFolded(L[k]) \in Words
  <2> TAKE k \in 1..n
  <2> QED BY <1>1, NothingSent, LineSent
<1>4. q = [k \in 1..n |-> q[k]] /\ \A k \in 1..n : q[k] = WriteFolded(L[k])
  BY <1>1
<1> HIDE DEF q
<1>5. q \in Seq(Seq(A)) /\ Len(q) = n
  <2>1. \A k \in 1..n : q[k] \in Seq(A)
    BY <1>3, <1>4 DEF Words
  <2> HIDE DEF A
  <2> QED BY <1>1, <1>4, <2>1, PiecesOf
<1>6. /\ F(0) = <<>> /\ F(n) = FlattenSeq(q)
      /\ \A i \in 0..n : i # n => F(i + 1) = F(i) \o q[i + 1]
  <2> HIDE DEF A
  <2> QED BY <1>5, FlattenUpTo
<1>7. /\ G(0) = <<>> /\ G(n) = L
      /\ \A i \in 0..n : i # n => G(i + 1) = Append(G(i), L[i + 1])
  <2> DEFINE U == Seq(Line)
  <2>1. L \in Seq(U) /\ Len(L) = n
    BY <1>1
  <2> HIDE DEF U
  <2>2. \A i \in 0..n : i # n => G(i + 1) = Append(G(i), L[i + 1])
    BY <2>1, CutFurther
  <2>3. G(0) = <<>> /\ G(n) = L
    BY <2>1
  <2> QED BY <2>2, <2>3
<1> HIDE DEF F, G
<1>8. 0 \in T
  BY <1>6, <1>7, NothingSent
<1>9. ASSUME NEW i \in Nat, i \in T PROVE i + 1 \in T
  <2> SUFFICES ASSUME i + 1 <= n PROVE \E cs : Sent(F(i + 1), cs, G(i + 1))
    OBVIOUS
  <2>1. i <= n /\ i \in 0..n /\ i # n /\ i + 1 \in 1..n
    BY <1>1
  <2>2. PICK cs : Sent(F(i), cs, G(i))
    BY <1>9, <2>1
  <2> DEFINE line == L[i + 1]
  <2>3. line \in Seq(Line) /\ line # <<>> /\ line[1] # SP
    BY <1>1, <2>1
  <2>4. F(i + 1) = F(i) \o WriteFolded(line) /\ G(i + 1) = Append(G(i), line)
    BY <1>4, <1>6, <1>7, <2>1
  <2> HIDE DEF line
  <2>5. \E ds : Sent(F(i) \o WriteFolded(line), ds, Append(G(i), line))
    BY <2>2, <2>3, LineSent
  <2> QED BY <2>4, <2>5
<1> HIDE DEF T
<1>10. n \in T
  <2>1. Nat \subseteq T
    BY <1>8, <1>9, SetInduction
  <2> QED BY <1>1, <2>1
<1>11. \E cs : Sent(F(n), cs, G(n))
  BY <1>1, <1>10 DEF T
<1> QED BY <1>2, <1>6, <1>7, <1>11 DEF L

\* What a document says, and what becomes of it.
Faithful(document) ==
  LET codec == document.draft.codec
      props == document.draft.props
      read == Unfolded(document.lines)
  IN  /\ \A k \in DOMAIN document.lines : Octets(document.lines[k]) <= Limit
      /\ [k \in DOMAIN read |-> ParseContentLine(codec, read[k])] =
         [k \in DOMAIN props |-> {Kept(codec, props[k])}]

LEMMA DocumentsAreFaithful ==
  ASSUME NEW draft \in Drafts
  PROVE  Faithful(Document(draft))
<1> DEFINE codec == draft.codec
           props == draft.props
           D == Document(draft)
           L == Content(codec, props)
<1>1. codec \in {"ical", "vcard"} /\ Spellables(codec, props)
  BY DraftsAssumption DEF Spellables
<1>2. D.lines = Doc(PhysicalLinesOf(WireOf(codec, props))) /\ D.draft = draft
  BY DEF Document, Doc
<1> HIDE DEF D, codec, props
<1>3. PICK cs : Sent(WireOf(codec, props), cs, L)
  BY <1>1, WireSent
<1>4. Wired(WireOf(codec, props), cs) /\ Whole(cs) /\ Unfolded(Doc(cs)) = L
  BY <1>3 DEF Sent
<1>5. D.lines = Doc(cs)
  BY <1>2, <1>4, WiredLines
<1>6. \A k \in DOMAIN D.lines : Octets(D.lines[k]) <= Limit
  <2>1. /\ Doc(cs) \in Seq(Lines) /\ Len(Doc(cs)) = Len(cs)
        /\ \A k \in 1..Len(cs) : Octets(Doc(cs)[k]) <= Limit
    BY <1>4, DocIs
  <2>2. DOMAIN Doc(cs) = 1..Len(cs)
    BY <2>1, LenProperties
  <2> QED BY <1>5, <2>1, <2>2
<1>7. [k \in DOMAIN L |-> ParseContentLine(codec, L[k])] =
      [k \in DOMAIN props |-> {Kept(codec, props[k])}]
  <2>1. /\ DOMAIN props = 1..Len(props)
        /\ \A k \in 1..Len(props) : ParseContentLine(codec, L[k]) = {Kept(codec, props[k])}
    BY <1>1, ContentIs
  <2>2. DOMAIN L = DOMAIN props
    BY DEF Content
  <2> HIDE DEF L
  <2> QED BY <2>1, <2>2
<1> QED BY <1>2, <1>4, <1>5, <1>6, <1>7 DEF Faithful, D, codec, props

\* A document is read as it was meant: the parser makes of each logical line,
\* as the scanner returns it, the property that was written, whatever
\* separators, quotes, escapes, line breaks and spaces its values hold, wherever
\* its lines are folded and whenever the reader fails between two physical
\* lines; and none of these is longer than the limit.
THEOREM WrittenIsRead == Spec => []WhatIsWrittenIsRead
<1>1. ScannerInv => WhatIsWrittenIsRead
  <2> SUFFICES ASSUME ScannerInv, wire # Anything
               PROVE  /\ \A k \in DOMAIN wire.lines : Octets(wire.lines[k]) <= Limit
                      /\ result = EOF /\ input = wire.lines =>
                           [k \in DOMAIN lines |-> ParseContentLine(wire.draft.codec, lines[k])] =
                           [k \in DOMAIN wire.draft.props |->
                              {Kept(wire.draft.codec, wire.draft.props[k])}]
    BY DEF WhatIsWrittenIsRead
  <2>1. wire \in Written
    BY DEF ScannerInv
  <2>2. PICK draft \in Drafts : wire = Document(draft)
    BY <2>1, WrittenAssumption
  <2>3. Faithful(wire)
    BY <2>2, DocumentsAreFaithful
  <2>4. result = EOF => lines = Unfolded(input)
    BY UnfoldingIs DEF ScannerInv
  <2> QED BY <2>3, <2>4 DEF Faithful
<1> QED BY <1>1, ScannerHolds, PTL
=============================================================================
