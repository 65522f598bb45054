---------------------------- MODULE SequenceLemmas ----------------------------
(***************************************************************************)
(* Facts about data that the proofs of several components rest on:         *)
(* induction over the naturals stated with a set instead of a predicate,   *)
(* what flattening a sequence of sequences gives when one more is          *)
(* appended, sequences of elements of no set in particular, prefixes,      *)
(* cutting a sequence in two, and recursion over a sequence.               *)
(***************************************************************************)
EXTENDS Integers, Sequences, SequencesExt, SequenceTheorems,
        WellFoundedInduction, TLAPS

\* A nonempty set of naturals has a least element.
LEMMA LeastNatural ==
  ASSUME NEW T \in SUBSET Nat, T # {}
  PROVE  \E x \in T : \A y \in T : x <= y
<1> DEFINE R == {ss \in Nat \X Nat : ss[1] < ss[2]}
<1>1. IsWellFoundedOn(R, Nat)
  BY NatLessThanWellFounded DEF OpToRel
<1>2. \A y, x \in Nat : y < x => <<y, x>> \in R
  OBVIOUS
<1> HIDE DEF R
<1>3. PICK x \in T : \A y \in T : <<y, x>> \notin R
  BY <1>1, WFMin
<1>4. ASSUME NEW y \in T PROVE x <= y
  <2>1. x \in Nat /\ y \in Nat
    OBVIOUS
  <2>2. ~(y < x)
    BY <1>2, <1>3, <2>1
  <2> QED BY ONLY <2>1, <2>2
<1> QED BY <1>4

\* A set that has 0 and the successor of each of its naturals has them all.
LEMMA SetInduction ==
  ASSUME NEW S, 0 \in S, \A n \in Nat : n \in S => n + 1 \in S
  PROVE  Nat \subseteq S
<1> DEFINE T == Nat \ S
<1> SUFFICES ASSUME T # {} PROVE FALSE
  OBVIOUS
<1>1. PICK x \in T : \A y \in T : x <= y
  BY LeastNatural
<1>2. x \in Nat /\ x # 0
  OBVIOUS
<1>3. x - 1 \in Nat
  BY <1>2
<1>4. x - 1 \in T
  BY <1>2, <1>3
<1> QED BY <1>1, <1>2, <1>4

-----------------------------------------------------------------------------
(* Flattening. *)

\* The function FlattenSeq chooses: what the first i sequences come to.
Flattens(h, seqs) ==
  h = [i \in 1..Len(seqs) |-> IF i = 1 THEN seqs[i] ELSE h[i - 1] \o seqs[i]]

LEMMA FlattensAt ==
  ASSUME NEW h, NEW seqs, Flattens(h, seqs)
  PROVE  /\ DOMAIN h = 1..Len(seqs)
         /\ \A i \in 1..Len(seqs) :
              h[i] = IF i = 1 THEN seqs[i] ELSE h[i - 1] \o seqs[i]
<1> DEFINE g == [i \in 1..Len(seqs) |-> IF i = 1 THEN seqs[i] ELSE h[i - 1] \o seqs[i]]
<1>1. h = g
  BY DEF Flattens
<1>2. DOMAIN g = 1..Len(seqs)
  OBVIOUS
<1>3. \A i \in 1..Len(seqs) :
        g[i] = IF i = 1 THEN seqs[i] ELSE h[i - 1] \o seqs[i]
  OBVIOUS
<1> HIDE DEF g
<1> QED BY <1>1, <1>2, <1>3

LEMMA FlattensExists ==
  ASSUME NEW S, NEW seqs \in Seq(Seq(S))
  PROVE  \E h : Flattens(h, seqs)
<1> DEFINE Holds == {n \in Nat : \A s \in Seq(Seq(S)) :
                                    Len(s) = n => \E h : Flattens(h, s)}
<1>1. 0 \in Holds
  <2>1. ASSUME NEW s \in Seq(Seq(S)), Len(s) = 0
        PROVE  Flattens([i \in {} |-> 0], s)
    BY <2>1 DEF Flattens
  <2> QED BY <2>1
<1>2. ASSUME NEW n \in Nat, n \in Holds
      PROVE  n + 1 \in Holds
  <2>1. ASSUME NEW s \in Seq(Seq(S)), Len(s) = n + 1
        PROVE  \E h : Flattens(h, s)
    <3> DEFINE front == SubSeq(s, 1, n)
    <3>1. front \in Seq(Seq(S)) /\ Len(front) = n
            /\ \A i \in 1..n : front[i] = s[i]
      BY <2>1
    <3> HIDE DEF front
    <3>2. PICK g : Flattens(g, front)
      BY <1>2, <3>1
    <3>3. \A i \in 1..n : g[i] = IF i = 1 THEN s[i] ELSE g[i - 1] \o s[i]
      <4>1. \A i \in 1..n :
              g[i] = IF i = 1 THEN front[i] ELSE g[i - 1] \o front[i]
        BY <3>1, <3>2, FlattensAt
      <4> QED BY <3>1, <4>1
    <3> DEFINE last == IF n = 0 THEN s[1] ELSE g[n] \o s[n + 1]
               h == [i \in 1..n + 1 |-> IF i = n + 1 THEN last ELSE g[i]]
    <3>4. ASSUME NEW i \in 1..n + 1
          PROVE  h[i] = IF i = 1 THEN s[i] ELSE h[i - 1] \o s[i]
      <4> HIDE DEF last
      <4>1. CASE i = n + 1
        <5>1. h[i] = last
          BY <4>1
        <5>2. n # 0 => h[i - 1] = g[n]
          BY <4>1
        <5> QED BY <4>1, <5>1, <5>2 DEF last
      <4>2. CASE i # n + 1
        <5>1. i \in 1..n /\ h[i] = g[i]
          BY <4>2
        <5>2. i # 1 => h[i - 1] = g[i - 1]
          BY <5>1
        <5> QED BY <3>3, <5>1, <5>2
      <4> QED BY <4>1, <4>2
    <3>5. h = [i \in 1..n + 1 |-> h[i]]
      OBVIOUS
    <3>6. h = [i \in 1..n + 1 |-> IF i = 1 THEN s[i] ELSE h[i - 1] \o s[i]]
      <4> HIDE DEF h
      <4> QED BY <3>4, <3>5
    <3> HIDE DEF h
    <3>7. Flattens(h, s)
      BY <2>1, <3>6 DEF Flattens
    <3> QED BY <3>7
  <2> QED BY <2>1
<1>3. Nat \subseteq Holds
  <2> HIDE DEF Holds
  <2> QED BY <1>1, <1>2, SetInduction
<1>4. Len(seqs) \in Nat
  OBVIOUS
<1> QED BY <1>3, <1>4

\* The value at i depends on the first i sequences only, and is a sequence of
\* their elements.
LEMMA FlattensAgree ==
  ASSUME NEW S, NEW s \in Seq(Seq(S)), NEW t \in Seq(Seq(S)),
         NEW n \in Nat, n <= Len(s), n <= Len(t), \A i \in 1..n : s[i] = t[i],
         NEW g, NEW h, Flattens(g, s), Flattens(h, t)
  PROVE  \A i \in 1..n : g[i] = h[i] /\ g[i] \in Seq(S)
<1> DEFINE Holds == {i \in Nat : i \in 1..n => g[i] = h[i] /\ g[i] \in Seq(S)}
<1>1. 0 \in Holds
  OBVIOUS
<1>2. ASSUME NEW i \in Nat, i \in Holds PROVE i + 1 \in Holds
  <2> SUFFICES ASSUME i + 1 \in 1..n
               PROVE  g[i + 1] = h[i + 1] /\ g[i + 1] \in Seq(S)
    OBVIOUS
  <2>1. i + 1 \in 1..Len(s) /\ i + 1 \in 1..Len(t)
    OBVIOUS
  <2>2. s[i + 1] = t[i + 1] /\ s[i + 1] \in Seq(S)
    BY <2>1
  <2>3. g[i + 1] = IF i + 1 = 1 THEN s[i + 1] ELSE g[i + 1 - 1] \o s[i + 1]
    BY <2>1, FlattensAt
  <2>4. h[i + 1] = IF i + 1 = 1 THEN t[i + 1] ELSE h[i + 1 - 1] \o t[i + 1]
    BY <2>1, FlattensAt
  <2>5. CASE i = 0
    BY <2>2, <2>3, <2>4, <2>5
  <2>6. CASE i # 0
    <3>1. i + 1 - 1 = i /\ i + 1 # 1 /\ i \in 1..n
      BY <2>6
    <3>2. g[i] = h[i] /\ g[i] \in Seq(S)
      BY <1>2, <3>1
    <3>3. g[i + 1] = g[i] \o s[i + 1] /\ h[i + 1] = h[i] \o t[i + 1]
      BY <2>3, <2>4, <3>1
    <3>4. g[i] \o s[i + 1] \in Seq(S)
      BY <2>2, <3>2, ConcatProperties
    <3> QED BY <2>2, <3>2, <3>3, <3>4
  <2> QED BY <2>5, <2>6
<1>3. Nat \subseteq Holds
  <2> HIDE DEF Holds
  <2> QED BY <1>1, <1>2, SetInduction
<1> QED BY <1>3

LEMMA FlattenChosen ==
  ASSUME NEW S, NEW seqs \in Seq(Seq(S)), Len(seqs) # 0
  PROVE  \E h : Flattens(h, seqs) /\ FlattenSeq(seqs) = h[Len(seqs)]
<1> DEFINE h == CHOOSE f : Flattens(f, seqs)
<1>1. FlattenSeq(seqs) = h[Len(seqs)]
  BY DEF FlattenSeq, Flattens
<1>2. Flattens(h, seqs)
  BY FlattensExists
<1> QED BY <1>1, <1>2

\* Flattening nothing gives nothing; flattening one sequence more appends it.
LEMMA FlattenAppend ==
  ASSUME NEW S
  PROVE  /\ FlattenSeq(<<>>) = <<>>
         /\ \A seqs \in Seq(Seq(S)) : FlattenSeq(seqs) \in Seq(S)
         /\ \A seqs \in Seq(Seq(S)), s \in Seq(S) :
              FlattenSeq(Append(seqs, s)) = FlattenSeq(seqs) \o s
<1>1. FlattenSeq(<<>>) = <<>>
  BY DEF FlattenSeq
<1>2. ASSUME NEW seqs \in Seq(Seq(S)) PROVE FlattenSeq(seqs) \in Seq(S)
  <2>1. CASE seqs = <<>>
    <3>1. FlattenSeq(seqs) = <<>>
      BY <1>1, <2>1
    <3>2. <<>> \in Seq(S)
      OBVIOUS
    <3> QED BY <3>1, <3>2
  <2>2. CASE seqs # <<>>
    <3>1. Len(seqs) \in Nat /\ Len(seqs) # 0
      BY <2>2
    <3>2. PICK h : Flattens(h, seqs) /\ FlattenSeq(seqs) = h[Len(seqs)]
      BY <3>1, FlattenChosen
    <3>3. \A i \in 1..Len(seqs) : h[i] = h[i] /\ h[i] \in Seq(S)
      BY <3>1, <3>2, FlattensAgree
    <3>4. Len(seqs) \in 1..Len(seqs)
      BY <3>1
    <3> QED BY <3>2, <3>3, <3>4
  <2> QED BY <2>1, <2>2
<1>3. ASSUME NEW seqs \in Seq(Seq(S)), NEW s \in Seq(S)
      PROVE  FlattenSeq(Append(seqs, s)) = FlattenSeq(seqs) \o s
  <2> DEFINE more == Append(seqs, s)
             n == Len(seqs)
  <2>1. /\ more \in Seq(Seq(S)) /\ n \in Nat /\ Len(more) = n + 1
        /\ more[n + 1] = s /\ \A i \in 1..n : more[i] = seqs[i]
    OBVIOUS
  <2> HIDE DEF more
  <2>2. PICK h : Flattens(h, more) /\ FlattenSeq(more) = h[n + 1]
    BY <2>1, FlattenChosen
  <2>3. n + 1 \in 1..Len(more)
    BY <2>1
  <2>4. h[n + 1] = IF n + 1 = 1 THEN s ELSE h[n + 1 - 1] \o s
    BY <2>1, <2>2, <2>3, FlattensAt
  <2>5. CASE n = 0
    <3>1. seqs = <<>>
      BY <2>5
    <3>2. <<>> \o s = s
      OBVIOUS
    <3> QED BY <1>1, <2>2, <2>4, <2>5, <3>1, <3>2 DEF more
  <2>6. CASE n # 0
    <3>1. PICK g : Flattens(g, seqs) /\ FlattenSeq(seqs) = g[n]
      BY <2>6, FlattenChosen
    <3>2. n \in 1..n /\ n <= Len(seqs) /\ n <= Len(more)
      BY <2>1, <2>6
    <3>3. \A i \in 1..n : h[i] = g[i] /\ h[i] \in Seq(S)
      BY <2>1, <2>2, <3>1, <3>2, FlattensAgree
    <3>4. h[n + 1 - 1] = g[n]
      BY <2>1, <3>2, <3>3
    <3> QED BY <2>1, <2>2, <2>4, <2>6, <3>1, <3>4 DEF more
  <2> QED BY <2>5, <2>6
<1> QED BY <1>1, <1>2, <1>3

-----------------------------------------------------------------------------
(* Sequences of elements of no set in particular. *)

IsSeq(s) == s \in Seq(Range(s))

LEMMA SeqIsSeq ==
  ASSUME NEW S, NEW s \in Seq(S)
  PROVE  IsSeq(s)
<1>1. DOMAIN s = 1..Len(s) /\ Len(s) \in Nat /\ s = [k \in 1..Len(s) |-> s[k]]
  OBVIOUS
<1>2. \A k \in 1..Len(s) : s[k] \in Range(s)
  BY <1>1 DEF Range
<1>3. s \in [1..Len(s) -> Range(s)]
  BY <1>1, <1>2
<1> QED BY <1>1, <1>3 DEF IsSeq

LEMMA IsSeqProperties ==
  ASSUME NEW s, IsSeq(s)
  PROVE  /\ Len(s) \in Nat /\ DOMAIN s = 1..Len(s)
         /\ s = <<>> <=> Len(s) = 0
BY DEF IsSeq

LEMMA IsSeqShort ==
  ASSUME NEW x
  PROVE  IsSeq(<<>>) /\ IsSeq(<<x>>)
<1>1. <<>> \in Seq({x}) /\ <<x>> \in Seq({x})
  OBVIOUS
<1> QED BY <1>1, SeqIsSeq

LEMMA IsSeqAppend ==
  ASSUME NEW s, IsSeq(s), NEW x
  PROVE  /\ IsSeq(Append(s, x))
         /\ Len(Append(s, x)) = Len(s) + 1
         /\ \A k \in 1..Len(s) : Append(s, x)[k] = s[k]
         /\ Append(s, x)[Len(s) + 1] = x
<1> DEFINE S == Range(s) \cup {x}
<1>1. s \in Seq(S)
  <2>1. s \in Seq(Range(s)) /\ Range(s) \subseteq S
    BY DEF IsSeq
  <2> HIDE DEF S
  <2> QED BY <2>1, SeqMonotonic
<1>2. x \in S
  OBVIOUS
<1> HIDE DEF S
<1>3. Append(s, x) \in Seq(S)
  BY <1>1, <1>2
<1>4. /\ Len(Append(s, x)) = Len(s) + 1
      /\ \A k \in 1..Len(s) : Append(s, x)[k] = s[k]
      /\ Append(s, x)[Len(s) + 1] = x
  BY <1>1, <1>2
<1>5. IsSeq(Append(s, x))
  BY <1>3, SeqIsSeq
<1> QED BY <1>4, <1>5

LEMMA IsSeqEqual ==
  ASSUME NEW s, IsSeq(s), NEW t, IsSeq(t), Len(s) = Len(t),
         \A k \in 1..Len(s) : s[k] = t[k]
  PROVE  s = t
<1> DEFINE S == Range(s) \cup Range(t)
<1>1. s \in Seq(S) /\ t \in Seq(S)
  <2>1. /\ s \in Seq(Range(s)) /\ Range(s) \subseteq S
        /\ t \in Seq(Range(t)) /\ Range(t) \subseteq S
    BY DEF IsSeq
  <2> HIDE DEF S
  <2> QED BY <2>1, SeqMonotonic
<1> HIDE DEF S
<1> QED BY <1>1, SeqEqual

LEMMA IsSeqTail ==
  ASSUME NEW s, IsSeq(s), s # <<>>
  PROVE  /\ IsSeq(Tail(s)) /\ Len(Tail(s)) = Len(s) - 1
         /\ \A k \in 1..Len(s) - 1 : Tail(s)[k] = s[k + 1]
<1>1. s \in Seq(Range(s))
  BY DEF IsSeq
<1>2. Tail(s) \in Seq(Range(s)) /\ Len(Tail(s)) = Len(s) - 1
        /\ \A k \in 1..Len(Tail(s)) : Tail(s)[k] = s[k + 1]
  BY <1>1, HeadTailProperties
<1> QED BY <1>2, SeqIsSeq

\* All but the last.
LEMMA IsSeqInit ==
  ASSUME NEW s, IsSeq(s), Len(s) # 0
  PROVE  LET t == [k \in 1..Len(s) - 1 |-> s[k]]
         IN  /\ IsSeq(t) /\ Len(t) = Len(s) - 1
             /\ \A k \in 1..Len(s) - 1 : t[k] = s[k]
<1> DEFINE t == [k \in 1..Len(s) - 1 |-> s[k]]
<1>1. Len(s) \in Nat /\ Len(s) - 1 \in Nat
  BY IsSeqProperties
<1>2. \A k \in 1..Len(s) - 1 : s[k] \in Range(s)
  BY DEF IsSeq
<1>3. t \in Seq(Range(s)) /\ Len(t) = Len(s) - 1
  BY <1>1, <1>2
<1> QED BY <1>3, SeqIsSeq

\* A nonempty set of naturals up to n has a greatest element.
LEMMA GreatestUpTo ==
  ASSUME NEW n \in Nat, NEW T \in SUBSET (1..n), T # {}
  PROVE  \E x \in T : \A y \in T : y <= x
<1> DEFINE D == {n - y : y \in T}
<1>1. D \in SUBSET Nat /\ D # {}
  OBVIOUS
<1>2. PICK d \in D : \A e \in D : d <= e
  <2> HIDE DEF D
  <2> QED BY <1>1, LeastNatural
<1>3. PICK x \in T : d = n - x
  BY <1>2
<1>4. ASSUME NEW y \in T PROVE y <= x
  <2>1. n - x <= n - y
    BY <1>2, <1>3
  <2> QED BY <2>1
<1> QED BY <1>4

\* The greatest of numbers up to a bound is one of them; the bound, if it is
\* there.
LEMMA MaxUpTo ==
  ASSUME NEW n \in Nat, NEW T \in SUBSET (1..n), T # {}
  PROVE  Max(T) \in T /\ (n \in T => Max(T) = n)
<1>1. \E x \in T : \A y \in T : x >= y
  <2>1. PICK x \in T : \A y \in T : y <= x
    BY GreatestUpTo
  <2>2. \A y \in T : x >= y
    BY <2>1
  <2> QED BY <2>2
<1>2. Max(T) \in T /\ \A y \in T : Max(T) >= y
  BY <1>1 DEF Max
<1>3. ASSUME n \in T PROVE Max(T) = n
  <2>1. Max(T) \in 1..n /\ Max(T) >= n
    BY <1>2, <1>3
  <2> QED BY <2>1
<1> QED BY <1>2, <1>3

\* An initial segment with one number more.
LEMMA MaxInitial ==
  ASSUME NEW n \in Nat
  PROVE  Max(1..n + 1) = n + 1 /\ (1..n + 1) \ {n + 1} = 1..n
<1>1. n + 1 \in Nat /\ 1..n + 1 \in SUBSET (1..n + 1) /\ n + 1 \in 1..n + 1
  OBVIOUS
<1>2. Max(1..n + 1) = n + 1
  BY <1>1, MaxUpTo
<1>3. (1..n + 1) \ {n + 1} = 1..n
  OBVIOUS
<1> QED BY <1>2, <1>3

-----------------------------------------------------------------------------
(* Prefixes. *)

LEMMA PrefixIs ==
  ASSUME NEW S, NEW s \in Seq(S), NEW t \in Seq(S)
  PROVE  IsPrefix(s, t) <=>
           Len(s) <= Len(t) /\ \A k \in 1..Len(s) : s[k] = t[k]
<1>1. SubSeq(s, 1, Len(s)) = s
  BY SubSeqFull
<1>2. ASSUME Len(s) <= Len(t)
      PROVE  /\ SubSeq(t, 1, Len(s)) \in Seq(S)
             /\ Len(SubSeq(t, 1, Len(s))) = Len(s)
             /\ \A k \in 1..Len(s) : SubSeq(t, 1, Len(s))[k] = t[k]
  BY <1>2
<1>3. ASSUME IsPrefix(s, t)
      PROVE  Len(s) <= Len(t) /\ \A k \in 1..Len(s) : s[k] = t[k]
  BY <1>1, <1>2, <1>3 DEF IsPrefix
<1>4. ASSUME Len(s) <= Len(t), \A k \in 1..Len(s) : s[k] = t[k]
      PROVE  IsPrefix(s, t)
  <2>1. SubSeq(t, 1, Len(s)) = s
    BY <1>2, <1>4, SeqEqual
  <2> QED BY <1>1, <1>4, <2>1 DEF IsPrefix
<1> QED BY <1>3, <1>4

LEMMA PrefixConcat ==
  ASSUME NEW S, NEW s \in Seq(S), NEW t \in Seq(S), NEW u \in Seq(S)
  PROVE  /\ IsPrefix(s, s \o t)
         /\ IsPrefix(s, t) => IsPrefix(s, t \o u)
         /\ IsPrefix(s, t) /\ IsPrefix(t, u) => IsPrefix(s, u)
         /\ IsPrefix(s \o t, u) => IsPrefix(s, u)
<1>1. /\ s \o t \in Seq(S) /\ Len(s \o t) = Len(s) + Len(t)
      /\ \A k \in 1..Len(s) : (s \o t)[k] = s[k]
  OBVIOUS
<1>2. /\ t \o u \in Seq(S) /\ Len(t \o u) = Len(t) + Len(u)
      /\ \A k \in 1..Len(t) : (t \o u)[k] = t[k]
  OBVIOUS
<1>3. IsPrefix(s, s \o t)
  <2>1. Len(s) <= Len(s \o t) /\ \A k \in 1..Len(s) : s[k] = (s \o t)[k]
    BY <1>1
  <2> QED BY <1>1, <2>1, PrefixIs
<1>4. ASSUME IsPrefix(s, t), IsPrefix(t, u) PROVE IsPrefix(s, u)
  <2>1. /\ Len(s) <= Len(t) /\ \A k \in 1..Len(s) : s[k] = t[k]
        /\ Len(t) <= Len(u) /\ \A k \in 1..Len(t) : t[k] = u[k]
    BY <1>4, PrefixIs
  <2>2. Len(s) <= Len(u) /\ \A k \in 1..Len(s) : s[k] = u[k]
    BY <2>1
  <2> QED BY <2>2, PrefixIs
<1>5. ASSUME IsPrefix(s, t) PROVE IsPrefix(s, t \o u)
  <2>1. Len(s) <= Len(t) /\ \A k \in 1..Len(s) : s[k] = t[k]
    BY <1>5, PrefixIs
  <2>2. Len(s) <= Len(t \o u) /\ \A k \in 1..Len(s) : s[k] = (t \o u)[k]
    BY <1>2, <2>1
  <2> QED BY <1>2, <2>2, PrefixIs
<1>6. ASSUME IsPrefix(s \o t, u) PROVE IsPrefix(s, u)
  <2>1. Len(s \o t) <= Len(u) /\ \A k \in 1..Len(s \o t) : (s \o t)[k] = u[k]
    BY <1>1, <1>6, PrefixIs
  <2>2. Len(s) <= Len(u) /\ \A k \in 1..Len(s) : s[k] = u[k]
    BY <1>1, <2>1
  <2> QED BY <2>2, PrefixIs
<1> QED BY <1>3, <1>4, <1>5, <1>6

\* Cutting a sequence in two.
LEMMA CutInTwo ==
  ASSUME NEW S, NEW s \in Seq(S), NEW n \in 0..Len(s)
  PROVE  /\ SubSeq(s, 1, n) \in Seq(S) /\ Len(SubSeq(s, 1, n)) = n
         /\ SubSeq(s, n + 1, Len(s)) \in Seq(S)
         /\ SubSeq(s, 1, n) \o SubSeq(s, n + 1, Len(s)) = s
<1>1. SubSeq(s, 1, n) \o SubSeq(s, n + 1, Len(s)) = SubSeq(s, 1, Len(s))
  <2>1. /\ 1 \in 1..Len(s) + 1 /\ n \in 1 - 1..Len(s)
        /\ Len(s) \in n..Len(s)
    OBVIOUS
  <2> QED BY <2>1, ConcatAdjacentSubSeq
<1>2. SubSeq(s, 1, Len(s)) = s
  BY SubSeqFull
<1>3. SubSeq(s, 1, n) \in Seq(S) /\ Len(SubSeq(s, 1, n)) = n
        /\ SubSeq(s, n + 1, Len(s)) \in Seq(S)
  OBVIOUS
<1> QED BY <1>1, <1>2, <1>3

\* Moving the first element of what follows.
LEMMA MoveHead ==
  ASSUME NEW S, NEW s \in Seq(S), NEW t \in Seq(S), t # <<>>
  PROVE  /\ Head(t) \in S /\ Tail(t) \in Seq(S)
         /\ Append(s, Head(t)) \in Seq(S)
         /\ Append(s, Head(t)) \o Tail(t) = s \o t
<1>1. Head(t) \in S /\ Tail(t) \in Seq(S)
  BY HeadTailProperties
<1>2. t = <<Head(t)>> \o Tail(t)
  OBVIOUS
<1>3. Append(s, Head(t)) = s \o <<Head(t)>> /\ <<Head(t)>> \in Seq(S)
  BY <1>1, AppendIsConcat
<1>4. Append(s, Head(t)) \o Tail(t) = s \o (<<Head(t)>> \o Tail(t))
  BY <1>1, <1>3, ConcatAssociative
<1> QED BY <1>1, <1>2, <1>3, <1>4

LEMMA PrefixEmpty ==
  ASSUME NEW S, NEW s \in Seq(S)
  PROVE  IsPrefix(<<>>, s)
<1>1. SubSeq(<<>>, 1, 0) = <<>> /\ SubSeq(s, 1, 0) = <<>> /\ Len(<<>>) = 0
        /\ Len(s) \in Nat
  OBVIOUS
<1> QED BY <1>1 DEF IsPrefix

\* Cutting one element further on.
LEMMA CutFurther ==
  ASSUME NEW S, NEW s \in Seq(S), NEW n \in 0..Len(s), n # Len(s)
  PROVE  /\ n + 1 \in 0..Len(s) /\ s[n + 1] \in S
         /\ SubSeq(s, 1, n + 1) = Append(SubSeq(s, 1, n), s[n + 1])
         /\ SubSeq(s, n + 1, Len(s)) = <<s[n + 1]>> \o SubSeq(s, (n + 1) + 1, Len(s))
<1>1. /\ n + 1 \in 0..Len(s) /\ n + 1 \in 1..Len(s) /\ Len(s) \in n + 1..Len(s)
      /\ 1 \in 1..Len(s) /\ n + 1 \in 1..Len(s) /\ (n + 1) - 1 = n
      /\ s[n + 1] \in S
  OBVIOUS
<1>2. SubSeq(s, n + 1, Len(s)) = <<s[n + 1]>> \o SubSeq(s, (n + 1) + 1, Len(s))
  BY <1>1, SubSeqRecursiveFirst
<1>3. SubSeq(s, 1, n + 1) = SubSeq(s, 1, n) \o <<s[n + 1]>>
  BY <1>1, SubSeqRecursiveSecond
<1>4. SubSeq(s, 1, n) \in Seq(S)
  BY CutInTwo
<1>5. Append(SubSeq(s, 1, n), s[n + 1]) = SubSeq(s, 1, n) \o <<s[n + 1]>>
  BY <1>1, <1>4, AppendIsConcat
<1> QED BY <1>1, <1>2, <1>3, <1>5

\* One element between two sequences belongs to either.
LEMMA AppendBetween ==
  ASSUME NEW S, NEW s \in Seq(S), NEW x \in S, NEW t \in Seq(S)
  PROVE  s \o Cons(x, t) = Append(s, x) \o t
<1> DEFINE one == <<x>>
<1>1. one \in Seq(S)
  OBVIOUS
<1>2. Append(s, x) = s \o one
  BY AppendIsConcat
<1> HIDE DEF one
<1>3. (s \o one) \o t = s \o (one \o t)
  BY <1>1, ConcatAssociative
<1> QED BY <1>2, <1>3 DEF one, Cons

\* What comes next in a prefix, when one knows what comes next in the whole.
LEMMA NextOfPrefix ==
  ASSUME NEW S, NEW read \in Seq(S), NEW x \in S, NEW rest \in Seq(S),
         NEW got \in Seq(S), NEW whole \in Seq(S),
         IsPrefix(Append(read, x) \o rest, whole), IsPrefix(got, whole),
         Len(read) < Len(got)
  PROVE  got[Len(read) + 1] = x
<1> DEFINE longer == Append(read, x)
<1>1. /\ longer \in Seq(S) /\ Len(longer) = Len(read) + 1 /\ longer[Len(read) + 1] = x
  BY AppendProperties
<1>2. IsPrefix(longer \o rest, whole)
  OBVIOUS
<1> HIDE DEF longer
<1>3. IsPrefix(longer, whole)
  BY <1>1, <1>2, PrefixConcat
<1>4. whole[Len(read) + 1] = x
  <2>1. \A k \in 1..Len(longer) : longer[k] = whole[k]
    BY <1>1, <1>3, PrefixIs
  <2>2. Len(read) + 1 \in 1..Len(longer)
    BY <1>1, LenProperties
  <2> QED BY <1>1, <2>1, <2>2
<1>5. got[Len(read) + 1] = whole[Len(read) + 1]
  <2>1. \A k \in 1..Len(got) : got[k] = whole[k]
    BY PrefixIs
  <2>2. Len(read) + 1 \in 1..Len(got)
    BY LenProperties
  <2> QED BY <2>1, <2>2
<1> QED BY <1>4, <1>5

\* Short tuples, an element at a time.
LEMMA TupleAppend ==
  ASSUME NEW S, NEW a \in S, NEW b \in S, NEW c \in S
  PROVE  /\ Append(<<a>>, b) = <<a, b>>
         /\ Append(<<a, b>>, c) = <<a, b, c>>
<1>1. /\ <<a>> \in Seq(S) /\ Len(<<a>>) = 1 /\ <<a>>[1] = a
      /\ <<a, b>> \in Seq(S) /\ Len(<<a, b>>) = 2 /\ <<a, b>>[1] = a /\ <<a, b>>[2] = b
      /\ <<a, b, c>> \in Seq(S) /\ Len(<<a, b, c>>) = 3
      /\ <<a, b, c>>[1] = a /\ <<a, b, c>>[2] = b /\ <<a, b, c>>[3] = c
  OBVIOUS
<1> DEFINE one == <<a>>
           two == <<a, b>>
           three == <<a, b, c>>
<1>2. /\ one \in Seq(S) /\ Len(one) = 1 /\ one[1] = a
      /\ two \in Seq(S) /\ Len(two) = 2 /\ two[1] = a /\ two[2] = b
      /\ three \in Seq(S) /\ Len(three) = 3
      /\ three[1] = a /\ three[2] = b /\ three[3] = c
  BY <1>1
<1> HIDE DEF one, two, three
<1>3. Append(one, b) = two
  <2>1. /\ Append(one, b) \in Seq(S) /\ Len(Append(one, b)) = 2
        /\ Append(one, b)[1] = a /\ Append(one, b)[2] = b
    <3>1. /\ Append(one, b) \in Seq(S) /\ Len(Append(one, b)) = Len(one) + 1
          /\ \A i \in 1..Len(one) : Append(one, b)[i] = one[i]
          /\ Append(one, b)[Len(one) + 1] = b
      BY <1>2, AppendProperties
    <3>2. 1 \in 1..Len(one) /\ Len(one) + 1 = 2
      BY <1>2
    <3> QED BY <1>2, <3>1, <3>2
  <2>2. \A k \in 1..2 : Append(one, b)[k] = two[k]
    <3>1. \A k \in 1..2 : k = 1 \/ k = 2
      OBVIOUS
    <3> QED BY <1>2, <2>1, <3>1
  <2> QED BY <1>2, <2>1, <2>2, SeqEqual
<1>4. Append(two, c) = three
  <2>1. /\ Append(two, c) \in Seq(S) /\ Len(Append(two, c)) = 3
        /\ Append(two, c)[1] = a /\ Append(two, c)[2] = b /\ Append(two, c)[3] = c
    <3>1. /\ Append(two, c) \in Seq(S) /\ Len(Append(two, c)) = Len(two) + 1
          /\ \A i \in 1..Len(two) : Append(two, c)[i] = two[i]
          /\ Append(two, c)[Len(two) + 1] = c
      BY <1>2, AppendProperties
    <3>2. 1 \in 1..Len(two) /\ 2 \in 1..Len(two) /\ Len(two) + 1 = 3
      BY <1>2
    <3> QED BY <1>2, <3>1, <3>2
  <2>2. \A k \in 1..3 : Append(two, c)[k] = three[k]
    <3>1. \A k \in 1..3 : k = 1 \/ k = 2 \/ k = 3
      OBVIOUS
    <3> QED BY <1>2, <2>1, <3>1
  <2> QED BY <1>2, <2>1, <2>2, SeqEqual
<1> QED BY <1>3, <1>4 DEF one, two, three

-----------------------------------------------------------------------------
(* More about sequences of elements of no set in particular. *)

LEMMA IsSeqTogether ==
  ASSUME NEW s, IsSeq(s), NEW t, IsSeq(t), NEW x
  PROVE  \E S : s \in Seq(S) /\ t \in Seq(S) /\ x \in S
<1> DEFINE S == Range(s) \cup Range(t) \cup {x}
<1>1. /\ s \in Seq(Range(s)) /\ Range(s) \subseteq S
      /\ t \in Seq(Range(t)) /\ Range(t) \subseteq S /\ x \in S
  BY DEF IsSeq
<1> HIDE DEF S
<1>2. s \in Seq(S) /\ t \in Seq(S)
  BY <1>1, SeqMonotonic
<1> QED BY <1>1, <1>2

LEMMA IsSeqConcat ==
  ASSUME NEW s, IsSeq(s), NEW t, IsSeq(t)
  PROVE  /\ IsSeq(s \o t) /\ Len(s \o t) = Len(s) + Len(t)
         /\ \A k \in 1..Len(s) : (s \o t)[k] = s[k]
<1>1. PICK S : s \in Seq(S) /\ t \in Seq(S)
  BY IsSeqTogether
<1>2. /\ s \o t \in Seq(S) /\ Len(s \o t) = Len(s) + Len(t)
      /\ \A k \in 1..Len(s) : (s \o t)[k] = s[k]
  BY <1>1
<1> QED BY <1>2, SeqIsSeq

LEMMA IsSeqCut ==
  ASSUME NEW s, IsSeq(s), NEW n \in 0..Len(s)
  PROVE  /\ IsSeq(SubSeq(s, 1, n)) /\ Len(SubSeq(s, 1, n)) = n
         /\ \A k \in 1..n : SubSeq(s, 1, n)[k] = s[k]
         /\ IsSeq(SubSeq(s, n + 1, Len(s)))
<1>1. s \in Seq(Range(s))
  BY DEF IsSeq
<1>2. /\ SubSeq(s, 1, n) \in Seq(Range(s)) /\ Len(SubSeq(s, 1, n)) = n
      /\ SubSeq(s, n + 1, Len(s)) \in Seq(Range(s))
  BY <1>1, CutInTwo
<1>3. \A k \in 1..n : SubSeq(s, 1, n)[k] = s[k]
  BY <1>1
<1> QED BY <1>2, <1>3, SeqIsSeq

-----------------------------------------------------------------------------
(* Recursion over a sequence. *)

\* A value for each position, each from the one before it, can be found.
LEMMA RecursionExists ==
  ASSUME NEW V, NEW base \in V, NEW n \in Nat, NEW step \in [1..n -> [V -> V]]
  PROVE  \E f \in [0..n -> V] :
           f[0] = base /\ \A i \in 1..n : f[i] = step[i][f[i - 1]]
<1> DEFINE Upto(m, f) == /\ f \in [0..m -> V] /\ f[0] = base
                         /\ \A i \in 1..m : f[i] = step[i][f[i - 1]]
           T == {m \in Nat : m <= n => \E f : Upto(m, f)}
<1>1. 0 \in T
  <2> DEFINE f == [i \in 0..0 |-> base]
  <2>1. f \in [0..0 -> V] /\ f[0] = base /\ 1..0 = {}
    OBVIOUS
  <2> HIDE DEF f
  <2>2. Upto(0, f)
    BY <2>1
  <2> HIDE DEF Upto
  <2> QED BY <2>2
<1>2. ASSUME NEW m \in Nat, m \in T PROVE m + 1 \in T
  <2> SUFFICES ASSUME m + 1 <= n PROVE \E g : Upto(m + 1, g)
    OBVIOUS
  <2>1. m <= n
    OBVIOUS
  <2>2. PICK f : Upto(m, f)
    BY <1>2, <2>1
  <2>3. /\ f \in [0..m -> V] /\ f[0] = base
        /\ \A i \in 1..m : f[i] = step[i][f[i - 1]]
    BY <2>2
  <2>4. PICK last \in V : last = step[m + 1][f[m]]
    <3>1. m + 1 \in 1..n /\ f[m] \in V
      BY <2>3
    <3> QED BY <3>1
  <2> DEFINE g == [i \in 0..m + 1 |-> IF i = m + 1 THEN last ELSE f[i]]
  <2>5. /\ \A i \in 0..m : g[i] = f[i]
        /\ g[m + 1] = last
    OBVIOUS
  <2>6. g \in [0..m + 1 -> V]
    <3>1. \A i \in 0..m + 1 : i = m + 1 \/ i \in 0..m
      OBVIOUS
    <3> QED BY <2>3, <3>1
  <2> HIDE DEF g
  <2>7. g[0] = base
    BY <2>3, <2>5
  <2>8. ASSUME NEW i \in 1..m + 1 PROVE g[i] = step[i][g[i - 1]]
    <3>1. i - 1 \in 0..m /\ (i = m + 1 \/ (i \in 1..m /\ i \in 0..m))
      OBVIOUS
    <3>2. CASE i = m + 1
      <4>1. g[i - 1] = f[m]
        BY <2>5, <3>1, <3>2
      <4> QED BY <2>4, <2>5, <3>2, <4>1
    <3>3. CASE i \in 1..m /\ i \in 0..m
      BY <2>3, <2>5, <3>1, <3>3
    <3> QED BY <3>1, <3>2, <3>3
  <2>9. Upto(m + 1, g)
    BY <2>6, <2>7, <2>8
  <2> HIDE DEF Upto
  <2> QED BY <2>9
<1>3. Nat \subseteq T
  <2> HIDE DEF T
  <2> QED BY <1>1, <1>2, SetInduction
<1>4. PICK f : Upto(n, f)
  <2> HIDE DEF Upto
  <2>1. n \in T
    <3> HIDE DEF T
    <3> QED BY <1>3
  <2> QED BY <2>1
<1> QED BY <1>4

\* Flattening the first sequences, one more at a time.
LEMMA FlattenUpTo ==
  ASSUME NEW S, NEW q \in Seq(Seq(S))
  PROVE  /\ FlattenSeq(SubSeq(q, 1, 0)) = <<>>
         /\ FlattenSeq(SubSeq(q, 1, Len(q))) = FlattenSeq(q)
         /\ \A i \in 0..Len(q) : FlattenSeq(SubSeq(q, 1, i)) \in Seq(S)
         /\ \A i \in 0..Len(q) : i # Len(q) =>
              FlattenSeq(SubSeq(q, 1, i + 1)) = FlattenSeq(SubSeq(q, 1, i)) \o q[i + 1]
<1>1. Len(q) \in Nat
  BY LenProperties
<1>2. FlattenSeq(SubSeq(q, 1, 0)) = <<>>
  <2>1. SubSeq(q, 1, 0) \in Seq(Seq(S)) /\ Len(SubSeq(q, 1, 0)) = 0
    BY <1>1, CutInTwo
  <2>2. SubSeq(q, 1, 0) = <<>>
    BY <2>1, EmptySeq
  <2> QED BY <2>2, FlattenAppend
<1>3. SubSeq(q, 1, Len(q)) = q
  BY <1>1
<1>4. ASSUME NEW i \in 0..Len(q)
      PROVE  /\ FlattenSeq(SubSeq(q, 1, i)) \in Seq(S)
             /\ i # Len(q) =>
                  FlattenSeq(SubSeq(q, 1, i + 1)) = FlattenSeq(SubSeq(q, 1, i)) \o q[i + 1]
  <2>1. SubSeq(q, 1, i) \in Seq(Seq(S))
    BY CutInTwo
  <2>2. CASE i # Len(q)
    <3>1. q[i + 1] \in Seq(S) /\ SubSeq(q, 1, i + 1) = Append(SubSeq(q, 1, i), q[i + 1])
      BY <2>2, CutFurther
    <3> QED BY <2>1, <3>1, FlattenAppend
  <2> QED BY <2>1, <2>2, FlattenAppend
<1> QED BY <1>2, <1>3, <1>4

\* The first sequences together begin the whole.
LEMMA FlattenBegins ==
  ASSUME NEW S, NEW q \in Seq(Seq(S)), NEW i \in 0..Len(q)
  PROVE  LET p == FlattenSeq(SubSeq(q, 1, i)) IN
         /\ Len(p) <= Len(FlattenSeq(q))
         /\ \A k \in 1..Len(p) : FlattenSeq(q)[k] = p[k]
<1> DEFINE F(j) == FlattenSeq(SubSeq(q, 1, j))
           n == Len(q)
           T == {m \in Nat : i + m <= n =>
                   Len(F(i)) <= Len(F(i + m)) /\ \A k \in 1..Len(F(i)) : F(i + m)[k] = F(i)[k]}
<1>1. n \in Nat /\ i \in Nat /\ i <= n
  BY LenProperties
<1>2. F(i) \in Seq(S) /\ Len(F(i)) \in Nat
  BY FlattenUpTo, LenProperties
<1>3. 0 \in T
  BY <1>1, <1>2
<1>4. ASSUME NEW m \in Nat, m \in T PROVE m + 1 \in T
  <2> SUFFICES ASSUME i + (m + 1) <= n
               PROVE  /\ Len(F(i)) <= Len(F(i + (m + 1)))
                      /\ \A k \in 1..Len(F(i)) : F(i + (m + 1))[k] = F(i)[k]
    OBVIOUS
  <2> DEFINE j == i + m
  <2>1. j \in 0..n /\ j # n /\ j + 1 = i + (m + 1) /\ i + m <= n /\ j + 1 \in 1..n
    BY <1>1
  <2>2. Len(F(i)) <= Len(F(j)) /\ \A k \in 1..Len(F(i)) : F(j)[k] = F(i)[k]
    BY <1>4, <2>1
  <2> HIDE DEF j
  <2>3. F(j + 1) = F(j) \o q[j + 1] /\ F(j) \in Seq(S)
    BY <2>1, FlattenUpTo
  <2>4. q[j + 1] \in Seq(S)
    BY <2>1, ElementOfSeq
  <2> HIDE DEF F
  <2>5. \A a, b \in Seq(S) : Len(a) <= Len(a \o b) /\ \A k \in 1..Len(a) : (a \o b)[k] = a[k]
    OBVIOUS
  <2>6. Len(F(j)) <= Len(F(j + 1)) /\ \A k \in 1..Len(F(j)) : F(j + 1)[k] = F(j)[k]
    BY <2>3, <2>4, <2>5
  <2>7. Len(F(j)) \in Nat /\ Len(F(j + 1)) \in Nat
    <3>1. \A a, b \in Seq(S) : a \o b \in Seq(S)
      OBVIOUS
    <3> QED BY <2>3, <2>4, <3>1, LenProperties
  <2>8. Len(F(i)) <= Len(F(j + 1)) /\ \A k \in 1..Len(F(i)) : F(j + 1)[k] = F(i)[k]
    BY <1>2, <2>2, <2>6, <2>7
  <2> QED BY <2>1, <2>8
<1>5. Nat \subseteq T
  <2> HIDE DEF T
  <2> QED BY <1>3, <1>4, SetInduction
<1>6. n - i \in T /\ i + (n - i) = n
  <2>1. n - i \in Nat
    BY <1>1
  <2> HIDE DEF T
  <2> QED BY <1>1, <1>5, <2>1
<1>7. F(n) = FlattenSeq(q)
  BY FlattenUpTo
<1> DEFINE m == n - i
<1>8. i + m = n /\ m \in T /\ i + m <= n
  BY <1>1, <1>6
<1>9. Len(F(i)) <= Len(F(n)) /\ \A k \in 1..Len(F(i)) : F(n)[k] = F(i)[k]
  <2> HIDE DEF m
  <2>1. i + m <= n =>
          Len(F(i)) <= Len(F(i + m)) /\ \A k \in 1..Len(F(i)) : F(i + m)[k] = F(i)[k]
    BY <1>8
  <2> QED BY <1>8, <2>1
<1> QED BY <1>7, <1>9

\* A function into sequences, as a sequence of sequences.
LEMMA PiecesOf ==
  ASSUME NEW n \in Nat, NEW S, NEW q, q = [i \in 1..n |-> q[i]],
         \A i \in 1..n : q[i] \in Seq(S)
  PROVE  q \in Seq(Seq(S)) /\ Len(q) = n
<1>1. q \in [1..n -> Seq(S)]
  OBVIOUS
<1> QED BY <1>1

\* Empty sequences at the end add nothing.
LEMMA FlattenFront ==
  ASSUME NEW S, NEW p \in Seq(Seq(S)), NEW k \in 0..Len(p),
         \A j \in k + 1..Len(p) : p[j] = <<>>
  PROVE  FlattenSeq(p) = FlattenSeq(SubSeq(p, 1, k))
<1> DEFINE n == Len(p)
           F(m) == FlattenSeq(SubSeq(p, 1, m))
           T == {m \in Nat : k + m <= n => F(k + m) = F(k)}
<1>1. n \in Nat /\ k \in Nat /\ k <= n
  BY LenProperties
<1>2. 0 \in T
  BY <1>1
<1>3. ASSUME NEW m \in Nat, m \in T PROVE m + 1 \in T
  <2> SUFFICES ASSUME k + (m + 1) <= n PROVE F(k + (m + 1)) = F(k)
    OBVIOUS
  <2> DEFINE i == k + m
  <2>1. i \in 0..n /\ i # n /\ i + 1 = k + (m + 1) /\ i + 1 \in k + 1..n /\ k + m <= n
    BY <1>1
  <2>2. F(i) = F(k)
    BY <1>3, <2>1
  <2> HIDE DEF i
  <2>3. SubSeq(p, 1, i + 1) = Append(SubSeq(p, 1, i), p[i + 1])
    BY <2>1, CutFurther
  <2>4. SubSeq(p, 1, i) \in Seq(Seq(S)) /\ p[i + 1] = <<>> /\ p[i + 1] \in Seq(S)
    BY <2>1, CutInTwo, CutFurther
  <2>5. F(i + 1) = F(i) \o p[i + 1]
    BY <2>3, <2>4, FlattenAppend
  <2>6. F(i) \in Seq(S)
    BY <2>4, FlattenAppend
  <2>7. F(i) \o p[i + 1] = F(i)
    <3> DEFINE s == F(i)
    <3>1. s \o <<>> = s
      <4> HIDE DEF s
      <4> QED BY <2>6 DEF s
    <3> QED BY <2>4, <3>1
  <2> QED BY <2>1, <2>2, <2>5, <2>7
<1>4. Nat \subseteq T
  <2> HIDE DEF T
  <2> QED BY <1>2, <1>3, SetInduction
<1>5. n - k \in Nat /\ k + (n - k) = n
  BY <1>1
<1>6. F(n) = F(k)
  <2>1. n - k \in T
    <3> HIDE DEF T
    <3> QED BY <1>4, <1>5
  <2> DEFINE m == n - k
  <2>2. m \in T /\ k + m = n
    BY <1>5, <2>1
  <2>3. k + m <= n => F(k + m) = F(k)
    <3> HIDE DEF F
    <3> QED BY <2>2
  <2> HIDE DEF F, m
  <2> QED BY <1>1, <2>2, <2>3
<1>7. SubSeq(p, 1, n) = p
  BY <1>1
<1> QED BY <1>6, <1>7

\* The greatest number, when one knows it.
LEMMA MaxIs ==
  ASSUME NEW T \in SUBSET Nat, NEW x \in T, \A y \in T : y <= x
  PROVE  Max(T) = x
<1>1. \A y \in T : x >= y
  OBVIOUS
<1>2. Max(T) \in T /\ \A y \in T : Max(T) >= y
  BY <1>1 DEF Max
<1>3. Max(T) \in Nat /\ x \in Nat /\ Max(T) >= x /\ Max(T) <= x
  BY <1>2
<1> QED BY <1>3

\* Cutting what two sequences make together.
LEMMA CutConcat ==
  ASSUME NEW S, NEW s \in Seq(S), NEW t \in Seq(S)
  PROVE  /\ s \o t \in Seq(S) /\ Len(s \o t) = Len(s) + Len(t)
         /\ Len(s) \in Nat /\ Len(t) \in Nat
         /\ \A i \in 1..Len(s) : (s \o t)[i] = s[i]
         /\ \A i \in 1..Len(t) : (s \o t)[Len(s) + i] = t[i]
         /\ \A a \in Nat \ {0}, b \in 0..Len(s) :
              SubSeq(s \o t, a, b) = SubSeq(s, a, b) /\ SubSeq(s, a, b) \in Seq(S)
         /\ SubSeq(s \o t, Len(s) + 1, Len(s \o t)) = t
         /\ SubSeq(s \o t, 1, Len(s)) = s
<1> DEFINE u == s \o t
<1>1. /\ u \in Seq(S) /\ Len(u) = Len(s) + Len(t)
      /\ Len(s) \in Nat /\ Len(t) \in Nat
      /\ \A i \in 1..Len(s) : u[i] = s[i]
      /\ \A i \in 1..Len(t) : u[Len(s) + i] = t[i]
  <2>1. \A i \in 1..Len(t) : u[Len(s) + i] = t[i]
    OBVIOUS
  <2> QED BY <2>1
<1>2. \A i \in 1..Len(s) : s[i] \in S
  BY ElementOfSeq
<1> HIDE DEF u
<1>3. ASSUME NEW a \in Nat \ {0}, NEW b \in 0..Len(s)
      PROVE  SubSeq(u, a, b) = SubSeq(s, a, b) /\ SubSeq(s, a, b) \in Seq(S)
  <2>1. a \in Int /\ b \in Int /\ \A i \in a..b : i \in 1..Len(s)
    BY <1>1
  <2>2. \A i \in a..b : s[i] \in S /\ u[i] \in S /\ u[i] = s[i]
    BY <1>1, <1>2, <2>1
  <2> DEFINE v == SubSeq(s, a, b)
             w == SubSeq(u, a, b)
  <2>3. /\ v \in Seq(S) /\ Len(v) = IF a <= b THEN b - a + 1 ELSE 0
        /\ \A i \in 1..b - a + 1 : v[i] = s[a + i - 1]
    BY <2>1, <2>2, SubSeqProperties
  <2>4. /\ w \in Seq(S) /\ Len(w) = IF a <= b THEN b - a + 1 ELSE 0
        /\ \A i \in 1..b - a + 1 : w[i] = u[a + i - 1]
    BY <2>1, <2>2, SubSeqProperties
  <2> HIDE DEF v, w
  <2>5. \A i \in 1..Len(v) : v[i] = w[i]
    <3> TAKE i \in 1..Len(v)
    <3>1. i \in 1..b - a + 1 /\ a + i - 1 \in a..b
      BY <2>1, <2>3
    <3> QED BY <2>2, <2>3, <2>4, <3>1
  <2>6. v = w
    BY <2>3, <2>4, <2>5, SeqEqual
  <2> QED BY <2>3, <2>6 DEF v, w
<1>4. SubSeq(u, Len(s) + 1, Len(u)) = t
  <2> DEFINE a == Len(s) + 1
             b == Len(u)
             w == SubSeq(u, a, b)
  <2>1. a \in Int /\ b \in Int /\ \A i \in a..b : i \in 1..Len(u)
    BY <1>1
  <2>2. \A i \in a..b : u[i] \in S
    BY <1>1, <2>1, ElementOfSeq
  <2>3. /\ w \in Seq(S) /\ Len(w) = IF a <= b THEN b - a + 1 ELSE 0
        /\ \A i \in 1..b - a + 1 : w[i] = u[a + i - 1]
    BY <2>1, <2>2, SubSeqProperties
  <2> HIDE DEF w
  <2>4. Len(w) = Len(t) /\ b - a + 1 = Len(t)
    BY <1>1, <2>3
  <2>5. \A i \in 1..Len(w) : w[i] = t[i]
    <3> TAKE i \in 1..Len(w)
    <3>1. i \in 1..b - a + 1 /\ a + i - 1 = Len(s) + i /\ i \in 1..Len(t)
      BY <1>1, <2>4
    <3> QED BY <1>1, <2>3, <3>1
  <2>6. w = t
    BY <2>3, <2>4, <2>5, SeqEqual
  <2> QED BY <2>6 DEF w
<1>5. SubSeq(u, 1, Len(s)) = s
  <2>1. 1 \in Nat \ {0} /\ Len(s) \in 0..Len(s)
    BY <1>1
  <2>2. SubSeq(u, 1, Len(s)) = SubSeq(s, 1, Len(s))
    BY <1>3, <2>1
  <2> QED BY <2>2, SubSeqFull
<1> QED BY <1>1, <1>3, <1>4, <1>5 DEF u
=============================================================================
