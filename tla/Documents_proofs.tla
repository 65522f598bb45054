---------------------------- MODULE Documents_proofs ----------------------------
(***************************************************************************)
(* Theorems about Documents, for every document, every edit of it and      *)
(* every table of capitals: what edits keep of the shape of a document,    *)
(* that triggers and recurrence rules are read back from what is written   *)
(* for them, and that the canonical form keeps recurrence sets, the        *)
(* instants of alarms and what the validator says.                         *)
(***************************************************************************)
EXTENDS Documents, SequenceLemmas, FiniteSetTheorems

-----------------------------------------------------------------------------
(* Numbers in ascending order. *)

\* f lists the numbers of I from the least to the greatest.
Lists(f, I) ==
  /\ f \in [1..Cardinality(I) -> I]
  /\ \A j, k \in 1..Cardinality(I) : j < k => f[j] < f[k]
  /\ \A i \in I : \E k \in 1..Cardinality(I) : f[k] = i

Below(i, I) == {m \in I : m < i}

\* A number has as many of a finite set below it as it has predecessors there.
LEMMA BelowIs ==
  ASSUME NEW I, IsFiniteSet(I), I \subseteq Int, NEW i \in I
  PROVE  /\ IsFiniteSet(Below(i, I))
         /\ Cardinality(Below(i, I)) \in 0..Cardinality(I) - 1
<1>1. Below(i, I) \subseteq I /\ i \notin Below(i, I)
  BY DEF Below
<1>2. /\ IsFiniteSet(Below(i, I)) /\ Cardinality(Below(i, I)) <= Cardinality(I)
      /\ Cardinality(Below(i, I)) = Cardinality(I) => Below(i, I) = I
  BY <1>1, FS_Subset
<1>3. Cardinality(Below(i, I)) \in Nat /\ Cardinality(I) \in Nat
  BY <1>2, FS_CardinalityType
<1> QED
  BY <1>1, <1>2, <1>3

LEMMA BelowGrows ==
  ASSUME NEW I, IsFiniteSet(I), I \subseteq Int, NEW i \in I, NEW j \in I, i < j
  PROVE  Cardinality(Below(i, I)) < Cardinality(Below(j, I))
<1>1. Below(i, I) \subseteq Below(j, I) /\ i \in Below(j, I) /\ i \notin Below(i, I)
  <2>1. i \in Int /\ j \in Int /\ i < j
    OBVIOUS
  <2>2. ASSUME NEW m \in Below(i, I)
        PROVE  m \in Below(j, I)
    <3>1. m \in I /\ m < i
      BY <2>2 DEF Below
    <3>2. m \in Int
      BY <3>1
    <3>3. m < j
      BY <2>1, <3>1, <3>2
    <3> QED
      BY <3>1, <3>3 DEF Below
  <2>3. i \in Below(j, I)
    BY <2>1 DEF Below
  <2>4. ~(i < i)
    BY <2>1
  <2> QED
    BY <2>2, <2>3, <2>4 DEF Below
<1>2. /\ IsFiniteSet(Below(j, I)) /\ Cardinality(Below(i, I)) \in Nat
      /\ Cardinality(Below(j, I)) \in Nat
  <2>1. IsFiniteSet(Below(j, I)) /\ Cardinality(Below(j, I)) \in 0..Cardinality(I) - 1
    BY BelowIs
  <2>2. Cardinality(Below(i, I)) \in 0..Cardinality(I) - 1
    BY BelowIs
  <2> QED
    BY <2>1, <2>2
<1>3. /\ Cardinality(Below(i, I)) <= Cardinality(Below(j, I))
      /\ Cardinality(Below(i, I)) = Cardinality(Below(j, I)) => Below(i, I) = Below(j, I)
  BY <1>1, <1>2, FS_Subset
<1> QED
  BY <1>1, <1>2, <1>3

\* Every number below the size of a finite set is the number of predecessors
\* of one element.
LEMMA BelowReaches ==
  ASSUME NEW I, IsFiniteSet(I), I \subseteq Int, NEW n \in 0..Cardinality(I) - 1
  PROVE  \E i \in I : Cardinality(Below(i, I)) = n
<1> DEFINE size == Cardinality(I)
           range == 0..size - 1
           rank == [i \in I |-> Cardinality(Below(i, I))]
<1>1. size \in Nat
  BY FS_CardinalityType
<1>2. \A i \in I : Cardinality(Below(i, I)) \in range
  BY BelowIs
<1>3. rank \in Injection(I, range)
  <2>1. rank \in [I -> range]
    BY <1>2
  <2>2. ASSUME NEW i \in I, NEW j \in I, rank[i] = rank[j]
        PROVE  i = j
    <3>1. /\ i \in Int /\ j \in Int
          /\ Cardinality(Below(i, I)) = Cardinality(Below(j, I))
          /\ Cardinality(Below(i, I)) \in range
      BY <1>2, <2>2
    <3>2. Cardinality(Below(i, I)) \in Int
      BY <1>1, <3>1
    <3>3. CASE i < j
      <4>1. Cardinality(Below(i, I)) < Cardinality(Below(j, I))
        BY <3>3, BelowGrows
      <4> QED
        BY <3>1, <3>2, <4>1
    <3>4. CASE j < i
      <4>1. Cardinality(Below(j, I)) < Cardinality(Below(i, I))
        BY <3>4, BelowGrows
      <4> QED
        BY <3>1, <3>2, <4>1
    <3> QED
      BY <3>1, <3>3, <3>4
  <2> QED
    BY <2>1, <2>2 DEF Injection, IsInjective
<1>4. IsFiniteSet(range) /\ Cardinality(range) = size
  <2>1. 0 \in Int /\ size - 1 \in Int
    BY <1>1
  <2>2. /\ IsFiniteSet(0..size - 1)
        /\ Cardinality(0..size - 1) = IF 0 > size - 1 THEN 0 ELSE (size - 1) - 0 + 1
    BY ONLY <2>1, FS_Interval
  <2> QED
    BY <1>1, <2>2
<1>5. rank \in Surjection(I, range)
  BY ONLY <1>3, <1>4, FS_Injection
<1> QED
  BY <1>5 DEF Surjection

LEMMA AscendingLists ==
  ASSUME NEW I, IsFiniteSet(I), I \subseteq Int
  PROVE  Lists(Ascending(I), I)
<1> DEFINE size == Cardinality(I)
           at == Ascending(I)
<1>1. size \in Nat
  BY FS_CardinalityType
<1>2. at = [k \in 1..size |-> CHOOSE n \in I : Cardinality(Below(n, I)) = k - 1]
  BY DEF Ascending, Below
<1>3. ASSUME NEW k \in 1..size
      PROVE  at[k] \in I /\ Cardinality(Below(at[k], I)) = k - 1
  <2>1. k - 1 \in 0..size - 1
    BY <1>1
  <2>2. \E n \in I : Cardinality(Below(n, I)) = k - 1
    BY <2>1, BelowReaches
  <2>3. at[k] = CHOOSE n \in I : Cardinality(Below(n, I)) = k - 1
    BY <1>2
  <2> HIDE DEF at
  <2> QED
    BY <2>2, <2>3
<1> HIDE DEF at
<1>4. ASSUME NEW j \in 1..size, NEW k \in 1..size, j < k
      PROVE  at[j] < at[k]
  <2>1. /\ at[j] \in I /\ Cardinality(Below(at[j], I)) = j - 1
        /\ at[k] \in I /\ Cardinality(Below(at[k], I)) = k - 1
    BY <1>3
  <2>2. at[j] \in Int /\ at[k] \in Int
    BY <2>1
  <2>3. CASE at[k] < at[j]
    <3>1. Cardinality(Below(at[k], I)) < Cardinality(Below(at[j], I))
      BY <2>1, <2>3, BelowGrows
    <3> QED
      BY <1>4, <2>1, <3>1, <1>1
  <2>4. CASE at[k] = at[j]
    BY <1>4, <2>1, <2>4, <1>1
  <2> QED
    BY <2>2, <2>3, <2>4
<1>5. ASSUME NEW i \in I
      PROVE  \E k \in 1..size : at[k] = i
  <2> DEFINE k == Cardinality(Below(i, I)) + 1
  <2>1. Cardinality(Below(i, I)) \in 0..size - 1
    BY BelowIs
  <2>2. k \in 1..size /\ k - 1 = Cardinality(Below(i, I)) /\ k - 1 \in Int
    BY <1>1, <2>1
  <2> HIDE DEF k
  <2>3. at[k] \in I /\ Cardinality(Below(at[k], I)) = k - 1
    BY <1>3, <2>2
  <2>4. i \in Int /\ at[k] \in Int
    BY <2>3
  <2>5. CASE i < at[k]
    <3>1. Cardinality(Below(i, I)) < Cardinality(Below(at[k], I))
      BY <2>3, <2>5, BelowGrows
    <3> QED
      BY <2>2, <2>3, <3>1
  <2>6. CASE at[k] < i
    <3>1. Cardinality(Below(at[k], I)) < Cardinality(Below(i, I))
      BY <2>3, <2>6, BelowGrows
    <3> QED
      BY <2>2, <2>3, <3>1
  <2> QED
    BY <2>2, <2>4, <2>5, <2>6
<1>6. at = [k \in 1..size |-> at[k]]
  BY <1>2
<1>7. at \in [1..size -> I]
  BY <1>3, <1>6
<1> QED
  BY <1>4, <1>5, <1>7 DEF Lists, at

\* Ascending order is unique.
LEMMA ListsUnique ==
  ASSUME NEW I, IsFiniteSet(I), I \subseteq Int,
         NEW f, Lists(f, I), NEW g, Lists(g, I)
  PROVE  f = g
<1> DEFINE size == Cardinality(I)
           Same(n) == \A k \in 1..size : k <= n => f[k] = g[k]
           T == {n \in Nat : Same(n)}
<1>1. size \in Nat
  BY FS_CardinalityType
<1> HIDE DEF size
<1>2. /\ f \in [1..size -> I] /\ g \in [1..size -> I]
      /\ \A j, k \in 1..size : j < k => f[j] < f[k] /\ g[j] < g[k]
      /\ \A i \in I : \E k \in 1..size : f[k] = i
      /\ \A i \in I : \E k \in 1..size : g[k] = i
  BY DEF Lists, size
<1>3. \A k \in 1..size : f[k] \in I /\ g[k] \in I /\ f[k] \in Int /\ g[k] \in Int
  BY <1>2
<1>4. ASSUME NEW n \in Nat, Same(n), NEW k \in 1..size, k <= n + 1
      PROVE  f[k] = g[k]
  <2>1. CASE k <= n
    BY <1>4, <2>1
  <2>2. CASE k = n + 1
    <3>1. PICK m \in 1..size : g[m] = f[k]
      BY <1>2, <1>3
    <3>2. ~(m < k)
      <4>1. SUFFICES ASSUME m < k
                     PROVE  FALSE
        OBVIOUS
      <4>2. m <= n
        BY <1>1, <2>2, <4>1
      <4>3. f[m] = g[m] /\ f[m] < f[k]
        BY <1>2, <1>4, <4>1, <4>2
      <4> QED
        BY <1>3, <3>1, <4>3
    <3>3. PICK l \in 1..size : f[l] = g[k]
      BY <1>2, <1>3
    <3>4. ~(l < k)
      <4>1. SUFFICES ASSUME l < k
                     PROVE  FALSE
        OBVIOUS
      <4>2. l <= n
        BY <1>1, <2>2, <4>1
      <4>3. f[l] = g[l] /\ g[l] < g[k]
        BY <1>2, <1>4, <4>1, <4>2
      <4> QED
        BY <1>3, <3>3, <4>3
    <3>5. k <= m /\ k <= l
      BY <1>1, <3>2, <3>4
    <3>6. g[k] <= f[k]
      <4>1. CASE k = m
        BY <1>3, <3>1, <4>1
      <4>2. CASE k < m
        BY <1>2, <1>3, <3>1, <4>2
      <4> QED
        BY <1>1, <3>5, <4>1, <4>2
    <3>7. f[k] <= g[k]
      <4>1. CASE k = l
        BY <1>3, <3>3, <4>1
      <4>2. CASE k < l
        BY <1>2, <1>3, <3>3, <4>2
      <4> QED
        BY <1>1, <3>5, <4>1, <4>2
    <3> QED
      BY <1>3, <3>6, <3>7
  <2> QED
    BY <1>1, <1>4, <2>1, <2>2
<1>5. 0 \in T /\ \A n \in Nat : n \in T => n + 1 \in T
  <2>1. Same(0)
    BY <1>1
  <2>2. \A n \in Nat : Same(n) => Same(n + 1)
    BY <1>4
  <2> QED
    BY <2>1, <2>2
<1> HIDE DEF T
<1>6. Nat \subseteq T
  BY ONLY <1>5, SetInduction
<1>7. Same(size)
  BY <1>1, <1>6 DEF T
<1>8. \A k \in 1..size : f[k] = g[k]
  BY <1>1, <1>7
<1>9. f = [k \in 1..size |-> f[k]] /\ g = [k \in 1..size |-> g[k]]
  BY <1>2
<1> QED
  BY <1>8, <1>9

-----------------------------------------------------------------------------
(* Elements of a sequence at some places. *)

LEMMA IsSeqFunction ==
  ASSUME NEW n \in Nat, NEW S, NEW f \in [1..n -> S]
  PROVE  IsSeq(f) /\ Len(f) = n
<1>1. f \in Seq(S) /\ Len(f) = n
  OBVIOUS
<1> QED
  BY <1>1, SeqIsSeq

\* t has the elements of s at the places I, in their order.
Picks(t, s, I) ==
  /\ IsSeq(t) /\ Len(t) = Cardinality(I)
  /\ Lists(Ascending(I), I)
  /\ \A k \in 1..Cardinality(I) : Ascending(I)[k] \in I /\ t[k] = s[Ascending(I)[k]]
  /\ \A i \in I : \E k \in 1..Cardinality(I) : Ascending(I)[k] = i
  /\ Range(t) = {s[i] : i \in I}

LEMMA PlacesFinite ==
  ASSUME NEW s, IsSeq(s), NEW I, I \subseteq DOMAIN s
  PROVE  /\ IsFiniteSet(I) /\ I \subseteq Int /\ I \subseteq 1..Len(s)
         /\ Cardinality(I) \in Nat /\ Cardinality(I) <= Len(s)
<1>1. Len(s) \in Nat /\ DOMAIN s = 1..Len(s)
  BY IsSeqProperties
<1>2. IsFiniteSet(1..Len(s)) /\ Cardinality(1..Len(s)) = Len(s)
  <2>1. /\ IsFiniteSet(1..Len(s))
        /\ Cardinality(1..Len(s)) = IF 1 > Len(s) THEN 0 ELSE Len(s) - 1 + 1
    BY <1>1, FS_Interval
  <2> QED
    BY <1>1, <2>1
<1>3. IsFiniteSet(I) /\ Cardinality(I) <= Cardinality(1..Len(s))
  BY <1>1, <1>2, FS_Subset
<1> QED
  BY <1>1, <1>2, <1>3, FS_CardinalityType

LEMMA PickedIs ==
  ASSUME NEW s, IsSeq(s), NEW I, I \subseteq DOMAIN s
  PROVE  Picks(Picked(s, I), s, I)
<1> DEFINE at == Ascending(I)
           size == Cardinality(I)
           t == Picked(s, I)
<1>1. /\ IsFiniteSet(I) /\ I \subseteq Int /\ I \subseteq 1..Len(s)
      /\ Cardinality(I) \in Nat
  BY PlacesFinite
<1>2. Lists(at, I)
  BY <1>1, AscendingLists
<1> HIDE DEF at
<1>3. /\ at \in [1..size -> I]
      /\ \A i \in I : \E k \in 1..size : at[k] = i
  BY <1>2 DEF Lists
<1>4. t = [k \in 1..size |-> s[at[k]]]
  BY <1>3 DEF Picked, at
<1> HIDE DEF t, size
<1>5. t \in [1..size -> {s[i] : i \in I}]
  BY <1>3, <1>4
<1>6. IsSeq(t) /\ Len(t) = size
  BY <1>1, <1>5, IsSeqFunction DEF size
<1>7. \A k \in 1..size : at[k] \in I /\ t[k] = s[at[k]]
  BY <1>3, <1>4
<1>8. Range(t) = {s[i] : i \in I}
  <2>1. Range(t) \subseteq {s[i] : i \in I}
    BY <1>4, <1>7 DEF Range
  <2>2. ASSUME NEW i \in I
        PROVE  s[i] \in Range(t)
    BY <1>3, <1>4, <1>7 DEF Range
  <2> QED
    BY <2>1, <2>2
<1> QED
  BY <1>2, <1>3, <1>6, <1>7, <1>8 DEF Picks, at, t, size

\* The first and the last element of nothing and of something.
LEMMA FirstIs ==
  ASSUME NEW s, IsSeq(s)
  PROVE  /\ First(s) \subseteq Range(s)
         /\ First(s) = {} <=> s = <<>>
         /\ \A x \in First(s) : Len(s) >= 1 /\ x = s[1]
<1>1. Len(s) \in Nat /\ DOMAIN s = 1..Len(s) /\ (s = <<>> <=> Len(s) = 0)
  BY IsSeqProperties
<1>2. CASE s = <<>>
  BY <1>2 DEF First
<1>3. CASE s # <<>>
  <2>1. First(s) = {s[1]} /\ 1 \in DOMAIN s
    BY <1>1, <1>3 DEF First
  <2> QED
    BY <1>1, <1>3, <2>1 DEF Range
<1> QED
  BY <1>2, <1>3

-----------------------------------------------------------------------------
(* Sequences in which some elements are replaced, moved, added or removed. *)

LEMMA IsSeqReplace ==
  ASSUME NEW s, IsSeq(s), NEW i \in DOMAIN s, NEW x
  PROVE  LET t == [s EXCEPT ![i] = x]
         IN  /\ IsSeq(t) /\ Len(t) = Len(s)
             /\ Range(t) \subseteq Range(s) \cup {x}
             /\ t[i] = x /\ \A k \in 1..Len(s) : k # i => t[k] = s[k]
<1> DEFINE t == [s EXCEPT ![i] = x]
           S == Range(s) \cup {x}
<1>1. Len(s) \in Nat /\ DOMAIN s = 1..Len(s)
  BY IsSeqProperties
<1>2. t = [k \in 1..Len(s) |-> IF k = i THEN x ELSE s[k]]
  <2>1. s = [k \in 1..Len(s) |-> s[k]]
    BY <1>1 DEF IsSeq
  <2> QED
    BY <1>1, <2>1
<1>3. \A k \in 1..Len(s) : t[k] \in S
  BY <1>1, <1>2 DEF Range
<1> HIDE DEF S
<1>4. t \in [1..Len(s) -> S]
  BY <1>2, <1>3
<1>5. IsSeq(t) /\ Len(t) = Len(s)
  BY <1>1, <1>4, IsSeqFunction
<1>6. Range(t) \subseteq S
  BY <1>2, <1>3 DEF Range
<1>7. t[i] = x /\ \A k \in 1..Len(s) : k # i => t[k] = s[k]
  BY <1>1, <1>2
<1> QED
  BY <1>5, <1>6, <1>7 DEF S

LEMMA SwappedIs ==
  ASSUME NEW s, IsSeq(s), NEW k \in 1..Len(s) - 1
  PROVE  /\ IsSeq(Swapped(s, k)) /\ Len(Swapped(s, k)) = Len(s)
         /\ Range(Swapped(s, k)) = Range(s)
         /\ Swapped(s, k)[k] = s[k + 1] /\ Swapped(s, k)[k + 1] = s[k]
         /\ \A i \in 1..Len(s) : i # k /\ i # k + 1 => Swapped(s, k)[i] = s[i]
<1> DEFINE t == Swapped(s, k)
           n == Len(s)
<1>1. n \in Nat /\ DOMAIN s = 1..n
  BY IsSeqProperties
<1>2. k \in 1..n /\ k + 1 \in 1..n /\ k # k + 1
  BY <1>1
<1>3. t = [i \in 1..n |-> IF i = k THEN s[k + 1] ELSE IF i = k + 1 THEN s[k] ELSE s[i]]
  <2>1. s = [i \in 1..n |-> s[i]]
    BY <1>1 DEF IsSeq
  <2> QED
    BY <1>1, <1>2, <2>1 DEF Swapped
<1> HIDE DEF t, n
<1>4. /\ t[k] = s[k + 1] /\ t[k + 1] = s[k]
      /\ \A i \in 1..n : i # k /\ i # k + 1 => t[i] = s[i]
  BY <1>2, <1>3
<1>5. \A i \in 1..n : t[i] \in Range(s)
  BY <1>1, <1>2, <1>4 DEF Range
<1>6. t \in [1..n -> Range(s)]
  BY <1>3, <1>5
<1>7. IsSeq(t) /\ Len(t) = n
  BY <1>1, <1>6, IsSeqFunction
<1>8. DOMAIN t = 1..n
  BY <1>3
<1>9. Range(t) = Range(s)
  <2>1. Range(t) \subseteq Range(s)
    BY <1>5, <1>8 DEF Range
  <2>2. ASSUME NEW i \in 1..n
        PROVE  s[i] \in Range(t)
    BY <1>2, <1>4, <1>8 DEF Range
  <2> QED
    BY <1>1, <2>1, <2>2 DEF Range
<1> QED
  BY <1>4, <1>7, <1>9 DEF t, n

LEMMA AppendRange ==
  ASSUME NEW s, IsSeq(s), NEW x
  PROVE  IsSeq(Append(s, x)) /\ Range(Append(s, x)) = Range(s) \cup {x}
<1>1. /\ IsSeq(Append(s, x)) /\ Len(Append(s, x)) = Len(s) + 1
      /\ \A k \in 1..Len(s) : Append(s, x)[k] = s[k]
      /\ Append(s, x)[Len(s) + 1] = x
  BY IsSeqAppend
<1>2. /\ Len(s) \in Nat /\ DOMAIN s = 1..Len(s)
      /\ DOMAIN Append(s, x) = 1..Len(s) + 1
  BY <1>1, IsSeqProperties
<1>3. \A k \in 1..Len(s) + 1 : k \in 1..Len(s) \/ k = Len(s) + 1
  BY <1>2
<1>4. Len(s) + 1 \in 1..Len(s) + 1 /\ \A k \in 1..Len(s) : k \in 1..Len(s) + 1
  BY <1>2
<1> QED
  BY <1>1, <1>2, <1>3, <1>4 DEF Range

LEMMA ConcatRange ==
  ASSUME NEW s, IsSeq(s), NEW t, IsSeq(t)
  PROVE  /\ IsSeq(s \o t) /\ Len(s \o t) = Len(s) + Len(t)
         /\ \A k \in 1..Len(s) : (s \o t)[k] = s[k]
         /\ \A k \in 1..Len(t) : (s \o t)[Len(s) + k] = t[k]
         /\ Range(s \o t) = Range(s) \cup Range(t)
<1> DEFINE S == Range(s) \cup Range(t)
           u == s \o t
<1>1. s \in Seq(S) /\ t \in Seq(S)
  <2>1. /\ s \in Seq(Range(s)) /\ Range(s) \subseteq S
        /\ t \in Seq(Range(t)) /\ Range(t) \subseteq S
    BY DEF IsSeq
  <2> HIDE DEF S
  <2> QED
    BY <2>1, SeqMonotonic
<1> HIDE DEF S
<1>2. /\ u \in Seq(S) /\ Len(u) = Len(s) + Len(t)
      /\ \A i \in 1..Len(s) + Len(t) : u[i] = IF i <= Len(s) THEN s[i] ELSE t[i - Len(s)]
  BY <1>1, ConcatProperties
<1>3. /\ Len(s) \in Nat /\ DOMAIN s = 1..Len(s)
      /\ Len(t) \in Nat /\ DOMAIN t = 1..Len(t)
  BY IsSeqProperties
<1>4. IsSeq(u) /\ DOMAIN u = 1..Len(u)
  BY <1>2, SeqIsSeq, LenProperties
<1> HIDE DEF u
<1>5. \A k \in 1..Len(s) : k \in 1..Len(s) + Len(t) /\ u[k] = s[k]
  BY <1>2, <1>3
<1>6. \A k \in 1..Len(t) : Len(s) + k \in 1..Len(s) + Len(t) /\ u[Len(s) + k] = t[k]
  BY <1>2, <1>3
<1>7. \A i \in 1..Len(s) + Len(t) :
         i \in 1..Len(s) \/ \E k \in 1..Len(t) : i = Len(s) + k
  <2>1. SUFFICES ASSUME NEW i \in 1..Len(s) + Len(t), i \notin 1..Len(s)
                 PROVE  i - Len(s) \in 1..Len(t) /\ i = Len(s) + (i - Len(s))
    OBVIOUS
  <2> QED
    BY <1>3, <2>1
<1>8. Range(u) = Range(s) \cup Range(t)
  <2>1. ASSUME NEW i \in 1..Len(u)
        PROVE  u[i] \in Range(s) \cup Range(t)
    <3>1. CASE i \in 1..Len(s)
      BY <1>3, <1>5, <3>1 DEF Range
    <3>2. CASE i \notin 1..Len(s)
      <4>1. PICK k \in 1..Len(t) : i = Len(s) + k
        BY <1>2, <1>7, <2>1, <3>2
      <4>2. u[i] = t[k]
        BY <1>6, <4>1
      <4> QED
        BY <1>3, <4>2 DEF Range
    <3> QED
      BY <3>1, <3>2
  <2>2. Range(s) \subseteq Range(u)
    BY <1>2, <1>3, <1>4, <1>5 DEF Range
  <2>3. Range(t) \subseteq Range(u)
    BY <1>2, <1>3, <1>4, <1>6 DEF Range
  <2>4. Range(u) \subseteq Range(s) \cup Range(t)
    BY <1>4, <2>1 DEF Range
  <2> QED
    BY <2>2, <2>3, <2>4
<1> QED
  BY <1>2, <1>4, <1>5, <1>6, <1>8 DEF u

LEMMA RemoveAtIs ==
  ASSUME NEW s, IsSeq(s), NEW i \in DOMAIN s
  PROVE  IsSeq(RemoveAt(s, i)) /\ Range(RemoveAt(s, i)) \subseteq Range(s)
<1> DEFINE a == SubSeq(s, 1, i - 1)
           b == SubSeq(s, i + 1, Len(s))
<1>1. Len(s) \in Nat /\ DOMAIN s = 1..Len(s)
  BY IsSeqProperties
<1>2. a \in Seq(Range(s)) /\ b \in Seq(Range(s))
  <2>1. s \in Seq(Range(s)) /\ i - 1 \in Int /\ i + 1 \in Int /\ 1 \in Int
    BY <1>1 DEF IsSeq
  <2> QED
    BY <1>1, <2>1
<1> HIDE DEF a, b
<1>3. IsSeq(a) /\ IsSeq(b) /\ Range(a) \subseteq Range(s) /\ Range(b) \subseteq Range(s)
  <2>1. IsSeq(a) /\ IsSeq(b)
    BY <1>2, SeqIsSeq
  <2>2. /\ \A k \in 1..Len(a) : a[k] \in Range(s)
        /\ \A k \in 1..Len(b) : b[k] \in Range(s)
    BY <1>2, ElementOfSeq
  <2>3. DOMAIN a = 1..Len(a) /\ DOMAIN b = 1..Len(b)
    BY <2>1, IsSeqProperties
  <2>4. \A x \in Range(a) : \E k \in DOMAIN a : x = a[k]
    BY DEF Range
  <2>5. \A x \in Range(b) : \E k \in DOMAIN b : x = b[k]
    BY DEF Range
  <2> QED
    BY <2>1, <2>2, <2>3, <2>4, <2>5
<1>4. IsSeq(a \o b) /\ Range(a \o b) = Range(a) \cup Range(b)
  BY <1>3, ConcatRange
<1>5. RemoveAt(s, i) = a \o b
  BY DEF RemoveAt, a, b
<1> QED
  BY <1>3, <1>4, <1>5

-----------------------------------------------------------------------------
(* What edits keep of the shapes of properties and components. *)

LEMMA IsSequenceIs ==
  ASSUME NEW s
  PROVE  IsSequence(s) <=> IsSeq(s)
BY DEF IsSequence, IsSeq

LEMMA ToSetIs ==
  ASSUME NEW s
  PROVE  ToSet(s) = Range(s)
BY DEF ToSet, Range

LEMMA TypedPropsIs ==
  ASSUME NEW props
  PROVE  TypedProps(props) <=> IsSeq(props) /\ \A p \in Range(props) : TypedProperty(p)
BY IsSequenceIs DEF TypedProps

LEMMA TypedPropsAt ==
  ASSUME NEW props, TypedProps(props), NEW k \in DOMAIN props
  PROVE  TypedProperty(props[k])
BY DEF TypedProps, Range

\* Some of the properties of another sequence and one more.
LEMMA TypedPropsFrom ==
  ASSUME NEW props, TypedProps(props), NEW p, TypedProperty(p),
         NEW new, IsSeq(new), Range(new) \subseteq Range(props) \cup {p}
  PROVE  TypedProps(new)
<1>1. \A q \in Range(props) : TypedProperty(q)
  BY TypedPropsIs
<1>2. \A q \in Range(new) : TypedProperty(q)
  BY <1>1
<1> QED
  BY <1>2, TypedPropsIs

LEMMA TypedPropsSome ==
  ASSUME NEW props, TypedProps(props), NEW new, IsSeq(new), Range(new) \subseteq Range(props)
  PROVE  TypedProps(new)
<1>1. \A q \in Range(new) : TypedProperty(q)
  BY TypedPropsIs
<1> QED
  BY <1>1, TypedPropsIs

LEMMA TypedPropsPicked ==
  ASSUME NEW props, TypedProps(props), NEW I, I \subseteq DOMAIN props
  PROVE  TypedProps(Picked(props, I))
<1>1. IsSeq(props)
  BY TypedPropsIs
<1>2. Picks(Picked(props, I), props, I)
  BY <1>1, PickedIs
<1>3. IsSeq(Picked(props, I)) /\ Range(Picked(props, I)) \subseteq Range(props)
  BY <1>2 DEF Picks, Range
<1> QED
  BY <1>3, TypedPropsSome

LEMMA TypedPropsReplace ==
  ASSUME NEW props, TypedProps(props), NEW k \in DOMAIN props, NEW p, TypedProperty(p)
  PROVE  TypedProps([props EXCEPT ![k] = p])
<1>1. IsSeq(props)
  BY TypedPropsIs
<1>2. /\ IsSeq([props EXCEPT ![k] = p])
      /\ Range([props EXCEPT ![k] = p]) \subseteq Range(props) \cup {p}
  BY <1>1, IsSeqReplace
<1> QED
  BY <1>2, TypedPropsFrom

\* A component or a nested component, whose nested ones nothing looks at.
TypedNested(s) ==
  s = [type |-> s.type, props |-> s.props, sub |-> s.sub] /\ TypedProps(s.props)

LEMMA TypedComponentIs ==
  ASSUME NEW c
  PROVE  TypedComponent(c) <=>
           /\ TypedNested(c)
           /\ IsSeq(c.sub) /\ \A s \in Range(c.sub) : TypedNested(s)
BY IsSequenceIs DEF TypedComponent, TypedNested

LEMMA NestedWithProps ==
  ASSUME NEW c, TypedNested(c), NEW props, TypedProps(props)
  PROVE  /\ TypedNested([c EXCEPT !.props = props])
         /\ [c EXCEPT !.props = props].props = props
         /\ [c EXCEPT !.props = props].sub = c.sub
         /\ [c EXCEPT !.props = props].type = c.type
<1>1. c = [type |-> c.type, props |-> c.props, sub |-> c.sub]
  BY DEF TypedNested
<1>2. [c EXCEPT !.props = props] = [type |-> c.type, props |-> props, sub |-> c.sub]
  BY <1>1
<1> QED
  BY <1>2 DEF TypedNested

LEMMA ComponentWithProps ==
  ASSUME NEW c, TypedComponent(c), NEW props, TypedProps(props)
  PROVE  TypedComponent([c EXCEPT !.props = props])
<1>1. TypedNested(c) /\ IsSeq(c.sub) /\ \A s \in Range(c.sub) : TypedNested(s)
  BY TypedComponentIs
<1>2. /\ TypedNested([c EXCEPT !.props = props])
      /\ [c EXCEPT !.props = props].sub = c.sub
  BY <1>1, NestedWithProps
<1> QED
  BY <1>1, <1>2, TypedComponentIs

LEMMA ComponentWithSub ==
  ASSUME NEW c, TypedComponent(c), NEW sub, IsSeq(sub), \A s \in Range(sub) : TypedNested(s)
  PROVE  TypedComponent([c EXCEPT !.sub = sub])
<1>1. TypedNested(c)
  BY TypedComponentIs
<1>2. c = [type |-> c.type, props |-> c.props, sub |-> c.sub] /\ TypedProps(c.props)
  BY <1>1 DEF TypedNested
<1>3. [c EXCEPT !.sub = sub] = [type |-> c.type, props |-> c.props, sub |-> sub]
  BY <1>2
<1>4. TypedNested([c EXCEPT !.sub = sub]) /\ [c EXCEPT !.sub = sub].sub = sub
  BY <1>2, <1>3 DEF TypedNested
<1> QED
  BY <1>4, TypedComponentIs

\* The places of a name, and those without it.
LEMMA PlacesAre ==
  ASSUME NEW s, NEW name
  PROVE  PlacesOf(s, name) \subseteq DOMAIN s /\ DOMAIN s \ PlacesOf(s, name) \subseteq DOMAIN s
BY DEF PlacesOf

LEMMA MinIs ==
  ASSUME NEW I, I \subseteq Nat, I # {}
  PROVE  Min(I) \in I /\ \A i \in I : Min(I) <= i
<1>1. \E x \in I : \A y \in I : x <= y
  BY LeastNatural
<1> QED
  BY <1>1 DEF Min

\* Component.Set of a property.
LEMMA SetPropertyIs ==
  ASSUME NEW c, TypedNested(c), NEW p, TypedProperty(p)
  PROVE  \E props : TypedProps(props) /\ SetProperty(c, p) = [c EXCEPT !.props = props]
<1> DEFINE same == PlacesOf(c.props, ToUpper(p.name))
           places == (DOMAIN c.props \ same) \cup {Min(same)}
           replaced == [c.props EXCEPT ![Min(same)] = p]
<1>1. TypedProps(c.props)
  BY DEF TypedNested
<1>2. IsSeq(c.props) /\ DOMAIN c.props = 1..Len(c.props)
  BY <1>1, TypedPropsIs, IsSeqProperties
<1>3. CASE same = {}
  <2>1. SetProperty(c, p) = [c EXCEPT !.props = Append(c.props, p)]
    BY <1>3 DEF SetProperty
  <2>2. TypedProps(Append(c.props, p))
    BY <1>1, <1>2, AppendRange, TypedPropsFrom
  <2> QED
    BY <2>1, <2>2
<1>4. CASE same # {}
  <2>1. SetProperty(c, p) = [c EXCEPT !.props = Picked(replaced, places)]
    BY <1>4 DEF SetProperty
  <2>2. Min(same) \in same /\ same \subseteq DOMAIN c.props
    <3>1. same \subseteq DOMAIN c.props /\ same \subseteq Nat
      BY <1>2, PlacesAre
    <3> QED
      BY <1>4, <3>1, MinIs
  <2> HIDE DEF same
  <2>3. TypedProps(replaced) /\ DOMAIN replaced = DOMAIN c.props
    BY <1>1, <2>2, TypedPropsReplace
  <2>4. places \subseteq DOMAIN replaced
    BY <2>2, <2>3
  <2> HIDE DEF places, replaced
  <2>5. TypedProps(Picked(replaced, places))
    BY <2>3, <2>4, TypedPropsPicked
  <2> QED
    BY <2>1, <2>5
<1> QED
  BY <1>3, <1>4

LEMMA SetKeepsType ==
  ASSUME NEW p, TypedProperty(p), NEW c
  PROVE  /\ TypedNested(c) => TypedNested(SetProperty(c, p))
         /\ TypedComponent(c) => TypedComponent(SetProperty(c, p))
<1>1. ASSUME TypedNested(c)
      PROVE  TypedNested(SetProperty(c, p))
  <2>1. PICK props : TypedProps(props) /\ SetProperty(c, p) = [c EXCEPT !.props = props]
    BY <1>1, SetPropertyIs
  <2> QED
    BY <1>1, <2>1, NestedWithProps
<1>2. ASSUME TypedComponent(c)
      PROVE  TypedComponent(SetProperty(c, p))
  <2>1. TypedNested(c)
    BY <1>2, TypedComponentIs
  <2>2. PICK props : TypedProps(props) /\ SetProperty(c, p) = [c EXCEPT !.props = props]
    BY <2>1, SetPropertyIs
  <2> QED
    BY <1>2, <2>2, ComponentWithProps
<1> QED
  BY <1>1, <1>2

LEMMA RemoveKeepsType ==
  ASSUME NEW c, TypedComponent(c), NEW name
  PROVE  TypedComponent(RemoveProperty(c, name))
<1>1. TypedProps(c.props)
  BY TypedComponentIs DEF TypedNested
<1>2. TypedProps(Picked(c.props, DOMAIN c.props \ PlacesOf(c.props, name)))
  BY <1>1, PlacesAre, TypedPropsPicked
<1>3. RemoveProperty(c, name) =
        [c EXCEPT !.props = Picked(c.props, DOMAIN c.props \ PlacesOf(c.props, name))]
  BY DEF RemoveProperty
<1> QED
  BY <1>2, <1>3, ComponentWithProps

-----------------------------------------------------------------------------
(* Every edit of a document keeps its shape. *)

DocumentTyped(d) == IsSeq(d) /\ \A c \in Range(d) : TypedComponent(c)

LEMMA TypeOKIs == TypeOK <=> DocumentTyped(doc)
BY IsSequenceIs DEF TypeOK, DocumentTyped

LEMMA DocumentReplace ==
  ASSUME NEW d, DocumentTyped(d), NEW i \in DOMAIN d, NEW c, TypedComponent(c)
  PROVE  DocumentTyped([d EXCEPT ![i] = c])
<1>1. /\ IsSeq([d EXCEPT ![i] = c])
      /\ Range([d EXCEPT ![i] = c]) \subseteq Range(d) \cup {c}
  BY IsSeqReplace DEF DocumentTyped
<1> QED
  BY <1>1 DEF DocumentTyped

LEMMA DocumentAt ==
  ASSUME NEW d, DocumentTyped(d), NEW i \in DOMAIN d
  PROVE  TypedComponent(d[i]) /\ TypedProps(d[i].props)
<1>1. TypedComponent(d[i])
  BY DEF DocumentTyped, Range
<1> QED
  BY <1>1, TypedComponentIs DEF TypedNested

LEMMA DocumentSub ==
  ASSUME NEW d, DocumentTyped(d), NEW i \in DOMAIN d
  PROVE  IsSeq(d[i].sub) /\ \A j \in DOMAIN d[i].sub : TypedNested(d[i].sub[j])
<1>1. TypedComponent(d[i])
  BY DocumentAt
<1>2. IsSeq(d[i].sub) /\ \A s \in Range(d[i].sub) : TypedNested(s)
  BY <1>1, TypedComponentIs
<1> QED
  BY <1>2 DEF Range

TypedParams(params) == IsSeq(params) /\ \A q \in Range(params) : q = Param(q.name, q.value)

LEMMA TypedPropertyIs ==
  ASSUME NEW p
  PROVE  TypedProperty(p) <=>
           /\ p = Property(p.name, p.params, p.value)
           /\ TypedParams(p.params) /\ TypedValue(p.value)
BY IsSequenceIs DEF TypedProperty, TypedParams

LEMMA PropertyTyped ==
  ASSUME NEW name, NEW params, TypedParams(params), NEW value, TypedValue(value)
  PROVE  TypedProperty(Property(name, params, value))
<1>1. /\ Property(name, params, value).name = name
      /\ Property(name, params, value).params = params
      /\ Property(name, params, value).value = value
  BY DEF Property
<1> QED
  BY <1>1, TypedPropertyIs

LEMMA NoParamsTyped == TypedParams(<<>>)
<1>1. IsSeq(<<>>)
  BY IsSeqShort
<1>2. Range(<<>>) = {}
  BY DEF Range
<1> QED
  BY <1>1, <1>2 DEF TypedParams

LEMMA OneParamTyped ==
  ASSUME NEW name, NEW value
  PROVE  TypedParams(<<Param(name, value)>>)
<1> DEFINE q == Param(name, value)
<1>1. q.name = name /\ q.value = value
  BY DEF Param
<1> HIDE DEF q
<1>2. IsSeq(<<q>>) /\ Range(<<q>>) = {q}
  BY IsSeqShort DEF Range
<1>3. q = Param(q.name, q.value)
  BY <1>1 DEF q
<1> QED
  BY <1>2, <1>3 DEF TypedParams, q

LEMMA PlainTyped ==
  ASSUME NEW kind, kind \notin {"rule", "digits", "duration", "times"}, NEW x
  PROVE  TypedValue(<<kind, x>>)
BY DEF TypedValue

\* A component of the document is changed.
LEMMA EditAtTyped ==
  ASSUME TypeOK, NEW i \in DOMAIN doc, NEW c, TypedComponent(c), EditAt(i, c)
  PROVE  TypeOK'
<1>1. doc' = [doc EXCEPT ![i] = c]
  BY DEF EditAt, Edited
<1>2. DocumentTyped(doc)
  BY TypeOKIs
<1>3. DocumentTyped(doc')
  BY <1>1, <1>2, DocumentReplace
<1> QED
  BY <1>3, IsSequenceIs DEF TypeOK, DocumentTyped

LEMMA EditPropsTyped ==
  ASSUME TypeOK, NEW i \in DOMAIN doc, NEW props, TypedProps(props), EditProps(i, props)
  PROVE  TypeOK'
<1>1. TypedComponent(doc[i])
  BY TypeOKIs, DocumentAt
<1>2. TypedComponent([doc[i] EXCEPT !.props = props])
  BY <1>1, ComponentWithProps
<1> QED
  BY <1>2, EditAtTyped DEF EditProps

LEMMA EditedTyped ==
  ASSUME NEW new, DocumentTyped(new), Edited(new)
  PROVE  TypeOK'
BY IsSequenceIs DEF Edited, TypeOK, DocumentTyped

\* A nested component is changed.
LEMMA EditSubTyped ==
  ASSUME TypeOK, NEW i \in DOMAIN doc, NEW j \in DOMAIN doc[i].sub, NEW s, TypedNested(s),
         EditAt(i, [doc[i] EXCEPT !.sub[j] = s])
  PROVE  TypeOK'
<1>1. TypedComponent(doc[i]) /\ IsSeq(doc[i].sub)
  BY TypeOKIs, DocumentAt, DocumentSub
<1>2. \A x \in Range(doc[i].sub) : TypedNested(x)
  BY <1>1, TypedComponentIs
<1>3. /\ IsSeq([doc[i].sub EXCEPT ![j] = s])
      /\ Range([doc[i].sub EXCEPT ![j] = s]) \subseteq Range(doc[i].sub) \cup {s}
  BY <1>1, IsSeqReplace
<1>4. TypedComponent([doc[i] EXCEPT !.sub = [doc[i].sub EXCEPT ![j] = s]])
  BY <1>1, <1>2, <1>3, ComponentWithSub
<1>5. [doc[i] EXCEPT !.sub[j] = s] = [doc[i] EXCEPT !.sub = [doc[i].sub EXCEPT ![j] = s]]
  OBVIOUS
<1> QED
  BY <1>4, <1>5, EditAtTyped

\* A property is changed in place.
LEMMA EditPropertyTyped ==
  ASSUME TypeOK, NEW i \in DOMAIN doc, NEW k \in DOMAIN doc[i].props,
         NEW p, TypedProperty(p), EditProps(i, [doc[i].props EXCEPT ![k] = p])
  PROVE  TypeOK'
<1>1. TypedProps(doc[i].props)
  BY TypeOKIs, DocumentAt
<1>2. TypedProps([doc[i].props EXCEPT ![k] = p])
  BY <1>1, TypedPropsReplace
<1> QED
  BY <1>2, EditPropsTyped

LEMMA MovesTyped ==
  ASSUME TypeOK, MoveProperty \/ MoveParam \/ MoveComponent \/ Recase
  PROVE  TypeOK'
<1>1. CASE MoveProperty
  <2>0. PICK i \in DOMAIN doc : \E k \in 1..(Len(doc[i].props) - 1) :
          EditProps(i, Swapped(doc[i].props, k))
    BY <1>1 DEF MoveProperty
  <2>1. PICK k \in 1..(Len(doc[i].props) - 1) :
          EditProps(i, Swapped(doc[i].props, k))
    BY <2>0
  <2>2. TypedProps(doc[i].props)
    BY TypeOKIs, DocumentAt
  <2>3. /\ IsSeq(Swapped(doc[i].props, k))
        /\ Range(Swapped(doc[i].props, k)) \subseteq Range(doc[i].props)
    BY <2>2, TypedPropsIs, SwappedIs
  <2>4. TypedProps(Swapped(doc[i].props, k))
    BY <2>2, <2>3, TypedPropsSome
  <2> QED
    BY <2>1, <2>4, EditPropsTyped
<1>2. CASE MoveParam
  <2>0. PICK i \in DOMAIN doc : \E k \in DOMAIN doc[i].props :
          /\ Len(doc[i].props[k].params) = 2
          /\ EditProps(i, [doc[i].props EXCEPT ![k].params = Swapped(@, 1)])
    BY <1>2 DEF MoveParam
  <2>1. PICK k \in DOMAIN doc[i].props :
          /\ Len(doc[i].props[k].params) = 2
          /\ EditProps(i, [doc[i].props EXCEPT ![k].params = Swapped(@, 1)])
    BY <2>0
  <2> DEFINE p == doc[i].props[k]
             new == Property(p.name, Swapped(p.params, 1), p.value)
  <2>2. TypedProperty(p)
    BY TypeOKIs, DocumentAt, TypedPropsAt
  <2>3. p = Property(p.name, p.params, p.value) /\ TypedParams(p.params) /\ TypedValue(p.value)
    BY <2>2, TypedPropertyIs
  <2>4. 1 \in 1..Len(p.params) - 1 /\ IsSeq(p.params)
    BY <2>1, <2>3 DEF TypedParams
  <2>5. TypedParams(Swapped(p.params, 1))
    <3>1. IsSeq(Swapped(p.params, 1)) /\ Range(Swapped(p.params, 1)) = Range(p.params)
      BY <2>4, SwappedIs
    <3> QED
      BY <2>3, <3>1 DEF TypedParams
  <2>6. TypedProperty(new)
    BY <2>3, <2>5, PropertyTyped
  <2>7. [p EXCEPT !.params = Swapped(@, 1)] = new
    BY <2>3 DEF Property
  <2>8. [doc[i].props EXCEPT ![k].params = Swapped(@, 1)] = [doc[i].props EXCEPT ![k] = new]
    BY <2>7
  <2> HIDE DEF new
  <2> QED
    BY <2>1, <2>6, <2>8, EditPropertyTyped
<1>3. CASE MoveComponent
  <2>1. PICK i \in 1..(Len(doc) - 1) : Edited(Swapped(doc, i))
    BY <1>3 DEF MoveComponent
  <2>2. DocumentTyped(doc)
    BY TypeOKIs
  <2>3. IsSeq(Swapped(doc, i)) /\ Range(Swapped(doc, i)) = Range(doc)
    BY <2>2, SwappedIs DEF DocumentTyped
  <2>4. DocumentTyped(Swapped(doc, i))
    BY <2>2, <2>3 DEF DocumentTyped
  <2> QED
    BY <2>1, <2>4, EditedTyped
<1>4. CASE Recase
  <2>0. PICK i \in DOMAIN doc : \E k \in DOMAIN doc[i].props, name \in DOMAIN Capitals :
          EditProps(i, [doc[i].props EXCEPT ![k].name = name])
    BY <1>4 DEF Recase
  <2>1. PICK k \in DOMAIN doc[i].props, name \in DOMAIN Capitals :
          EditProps(i, [doc[i].props EXCEPT ![k].name = name])
    BY <2>0
  <2> DEFINE p == doc[i].props[k]
             new == Property(name, p.params, p.value)
  <2>2. TypedProperty(p)
    BY TypeOKIs, DocumentAt, TypedPropsAt
  <2>3. p = Property(p.name, p.params, p.value) /\ TypedParams(p.params) /\ TypedValue(p.value)
    BY <2>2, TypedPropertyIs
  <2>4. TypedProperty(new)
    BY <2>3, PropertyTyped
  <2>5. [p EXCEPT !.name = name] = new
    BY <2>3 DEF Property
  <2>6. [doc[i].props EXCEPT ![k].name = name] = [doc[i].props EXCEPT ![k] = new]
    BY <2>5
  <2> HIDE DEF new
  <2> QED
    BY <2>1, <2>4, <2>6, EditPropertyTyped
<1> QED
  BY <1>1, <1>2, <1>3, <1>4

\* The properties that SetXVSTAR and another program's hash write.
LEMMA HashTyped ==
  ASSUME NEW h, h \in Hashes \/ \E c : h = Digest(c)
  PROVE  TypedProperty(Property("X-VSTAR-HASH", <<>>, h))
<1>1. TypedValue(h)
  <2>1. CASE h \in Hashes
    BY <2>1, TypesAssumption
  <2>2. CASE \E c : h = Digest(c)
    BY <2>2, PlainTyped DEF Digest
  <2> QED
    BY <2>1, <2>2
<1> QED
  BY <1>1, NoParamsTyped, PropertyTyped

LEMMA HashesTyped ==
  ASSUME TypeOK, Rehash \/ RehashNested
  PROVE  TypeOK'
<1>1. CASE Rehash
  <2>0. PICK i \in DOMAIN doc : \E h \in Hashes \cup {Digest(doc[i])} :
          EditAt(i, SetProperty(doc[i], Property("X-VSTAR-HASH", <<>>, h)))
    BY <1>1 DEF Rehash
  <2>1. PICK h \in Hashes \cup {Digest(doc[i])} :
          EditAt(i, SetProperty(doc[i], Property("X-VSTAR-HASH", <<>>, h)))
    BY <2>0
  <2>2. TypedProperty(Property("X-VSTAR-HASH", <<>>, h))
    BY HashTyped
  <2>3. TypedComponent(SetProperty(doc[i], Property("X-VSTAR-HASH", <<>>, h)))
    BY <2>2, TypeOKIs, DocumentAt, SetKeepsType
  <2> QED
    BY <2>1, <2>3, EditAtTyped
<1>2. CASE RehashNested
  <2>0. PICK i \in DOMAIN doc : \E h \in Hashes, j \in DOMAIN doc[i].sub :
          EditAt(i, [doc[i] EXCEPT !.sub[j] =
                       SetProperty(@, Property("X-VSTAR-HASH", <<>>, h))])
    BY <1>2 DEF RehashNested
  <2>1. PICK h \in Hashes, j \in DOMAIN doc[i].sub :
          EditAt(i, [doc[i] EXCEPT !.sub[j] =
                       SetProperty(@, Property("X-VSTAR-HASH", <<>>, h))])
    BY <2>0
  <2>2. TypedProperty(Property("X-VSTAR-HASH", <<>>, h))
    BY HashTyped
  <2>3. TypedNested(SetProperty(doc[i].sub[j], Property("X-VSTAR-HASH", <<>>, h)))
    BY <2>2, TypeOKIs, DocumentSub, SetKeepsType
  <2> QED
    BY <2>1, <2>3, EditSubTyped
<1> QED
  BY <1>1, <1>2

\* Another spelling of a property is a property.
LEMMA SpellingsTyped ==
  ASSUME NEW p, TypedProperty(p), NEW new \in Spellings(p)
  PROVE  TypedProperty(new)
<1> DEFINE with(params, value) == Property(p.name, params, value)
           others(q) == Picked(p.params, {m \in DOMAIN p.params : p.params[m] # q})
           untimed == Picked(p.params, DOMAIN p.params \ PlacesOf(p.params, "TZID"))
           small == [m \in DOMAIN p.params |->
                       IF p.params[m].value = "DATE" THEN Param("VALUE", "date")
                       ELSE p.params[m]]
<1>1. TypedParams(p.params) /\ TypedValue(p.value) /\ IsSeq(p.params)
  BY TypedPropertyIs DEF TypedParams
<1>2. \A I : I \subseteq DOMAIN p.params => TypedParams(Picked(p.params, I))
  <2>1. SUFFICES ASSUME NEW I, I \subseteq DOMAIN p.params
                 PROVE  TypedParams(Picked(p.params, I))
    OBVIOUS
  <2>2. Picks(Picked(p.params, I), p.params, I)
    BY <1>1, <2>1, PickedIs
  <2>3. /\ IsSeq(Picked(p.params, I))
        /\ Range(Picked(p.params, I)) \subseteq Range(p.params)
    BY <2>1, <2>2 DEF Picks, Range
  <2> QED
    BY <1>1, <2>3 DEF TypedParams
<1>3. TypedParams(small)
  <2>1. DOMAIN p.params = 1..Len(p.params) /\ Len(p.params) \in Nat
    BY <1>1, IsSeqProperties
  <2>2. \A m \in DOMAIN p.params : small[m] \in Range(small)
    BY DEF Range
  <2>3. small \in [1..Len(p.params) -> Range(small)]
    BY <2>1, <2>2
  <2>4. IsSeq(small)
    BY <2>1, <2>3, IsSeqFunction
  <2>5. \A m \in DOMAIN p.params : small[m] = Param(small[m].name, small[m].value)
    <3>1. SUFFICES ASSUME NEW m \in DOMAIN p.params
                   PROVE  small[m] = Param(small[m].name, small[m].value)
      OBVIOUS
    <3>2. p.params[m] = Param(p.params[m].name, p.params[m].value)
      BY <1>1 DEF TypedParams, Range
    <3>3. Param("VALUE", "date") =
            Param(Param("VALUE", "date").name, Param("VALUE", "date").value)
      BY DEF Param
    <3> QED
      BY <3>2, <3>3
  <2>6. \A q \in Range(small) : \E m \in DOMAIN p.params : q = small[m]
    BY DEF Range
  <2> HIDE DEF small
  <2> QED
    BY <2>4, <2>5, <2>6 DEF TypedParams
<1>4. \/ \E t \in Resolved(p, doc) : new = with(untimed, <<"utc", t>>)
      \/ \E x \in DOMAIN Composed : new = with(p.params, <<"text", x>>)
      \/ new = with(small, p.value)
      \/ \E q \in ToSet(p.params) : new = with(others(q), p.value)
  BY DEF Spellings
<1>5. CASE \E t \in Resolved(p, doc) : new = with(untimed, <<"utc", t>>)
  <2>1. PICK t \in Resolved(p, doc) : new = with(untimed, <<"utc", t>>)
    BY <1>5
  <2>2. TypedParams(untimed)
    BY <1>2, PlacesAre
  <2>3. TypedValue(<<"utc", t>>)
    BY PlainTyped
  <2> QED
    BY <2>1, <2>2, <2>3, PropertyTyped
<1>6. CASE \E x \in DOMAIN Composed : new = with(p.params, <<"text", x>>)
  <2>1. PICK x \in DOMAIN Composed : new = with(p.params, <<"text", x>>)
    BY <1>6
  <2>2. TypedValue(<<"text", x>>)
    BY PlainTyped
  <2> QED
    BY <1>1, <2>1, <2>2, PropertyTyped
<1>7. CASE new = with(small, p.value)
  <2> HIDE DEF small
  <2> QED
    BY <1>1, <1>3, <1>7, PropertyTyped
<1>8. CASE \E q \in ToSet(p.params) : new = with(others(q), p.value)
  <2>1. PICK q \in ToSet(p.params) : new = with(others(q), p.value)
    BY <1>8
  <2>2. TypedParams(others(q))
    BY <1>2
  <2> HIDE DEF others
  <2> QED
    BY <1>1, <2>1, <2>2, PropertyTyped
<1> QED
  BY <1>4, <1>5, <1>6, <1>7, <1>8

LEMMA RespellTyped ==
  ASSUME TypeOK, Respell
  PROVE  TypeOK'
<1>a. PICK i \in DOMAIN doc : \E k \in DOMAIN doc[i].props :
        \E p \in Spellings(doc[i].props[k]) \ {doc[i].props[k]} :
          Edited([doc EXCEPT ![i].props[k] = p])
  BY DEF Respell
<1>b. PICK k \in DOMAIN doc[i].props :
        \E p \in Spellings(doc[i].props[k]) \ {doc[i].props[k]} :
          Edited([doc EXCEPT ![i].props[k] = p])
  BY <1>a
<1>1. PICK p \in Spellings(doc[i].props[k]) \ {doc[i].props[k]} :
        Edited([doc EXCEPT ![i].props[k] = p])
  BY <1>b
<1>2. DocumentTyped(doc)
  BY TypeOKIs
<1>3. TypedComponent(doc[i]) /\ TypedProps(doc[i].props)
  BY <1>2, DocumentAt
<1>4. TypedProperty(p)
  BY <1>1, <1>3, TypedPropsAt, SpellingsTyped
<1> DEFINE props == [doc[i].props EXCEPT ![k] = p]
           c == [doc[i] EXCEPT !.props = props]
<1>5. TypedProps(props)
  BY <1>3, <1>4, TypedPropsReplace
<1>6. [doc EXCEPT ![i].props[k] = p] = [doc EXCEPT ![i] = c]
  OBVIOUS
<1> HIDE DEF props
<1>7. TypedComponent(c)
  BY <1>3, <1>5, ComponentWithProps
<1> HIDE DEF c
<1>8. DocumentTyped([doc EXCEPT ![i] = c])
  BY <1>2, <1>7, DocumentReplace
<1> QED
  BY <1>1, <1>6, <1>8, EditedTyped

\* The typed setters of dates and times.
LEMMA SetDateKeepsType ==
  ASSUME NEW c, TypedComponent(c), NEW name, NEW d
  PROVE  TypedComponent(SetOrClearDate(c, name, d))
<1> DEFINE p == Property(name, <<Param("VALUE", "DATE")>>, FormatDate(d))
<1>1. TypedValue(FormatDate(d))
  <2> DEFINE text == IF d.year \in 0..9999 /\ d.month \in 1..12 /\ d.day \in 1..31
                     THEN "no day" ELSE NoText
  <2>1. FormatDate(d) =
          IF IsDay(d) THEN <<"date", DateOf(d.year, d.month, d.day)>> ELSE <<"text", text>>
    BY DEF FormatDate
  <2> HIDE DEF text
  <2>2. TypedValue(<<"date", DateOf(d.year, d.month, d.day)>>) /\ TypedValue(<<"text", text>>)
    BY PlainTyped
  <2> QED
    BY <2>1, <2>2
<1> HIDE DEF p
<1>2. TypedProperty(p)
  BY <1>1, OneParamTyped, PropertyTyped DEF p
<1>3. TypedComponent(RemoveProperty(c, name)) /\ TypedComponent(SetProperty(c, p))
  BY <1>2, RemoveKeepsType, SetKeepsType
<1> QED
  BY <1>3 DEF SetOrClearDate, p

LEMMA SetTimeKeepsType ==
  ASSUME NEW c, TypedComponent(c), NEW name, NEW time
  PROVE  TypedComponent(SetOrClearTime(c, name, time))
<1> DEFINE p == Property(name, <<>>, <<"utc", CHOOSE t \in time : TRUE>>)
<1>1. TypedValue(<<"utc", CHOOSE t \in time : TRUE>>)
  BY PlainTyped
<1>2. TypedProperty(p)
  BY <1>1, NoParamsTyped, PropertyTyped
<1>3. TypedComponent(RemoveProperty(c, name)) /\ TypedComponent(SetProperty(c, p))
  BY <1>2, RemoveKeepsType, SetKeepsType
<1> QED
  BY <1>3 DEF SetOrClearTime

LEMMA SetsTyped ==
  ASSUME TypeOK, SetOne \/ SetNested \/ SetDate \/ SetTime \/ Postpone
  PROVE  TypeOK'
<1>1. \A i \in DOMAIN doc : TypedComponent(doc[i])
  BY TypeOKIs, DocumentAt
<1>2. CASE SetOne
  <2>1. PICK i \in DOMAIN doc, p \in Rewrites : EditAt(i, SetProperty(doc[i], p))
    BY <1>2 DEF SetOne
  <2>2. TypedProperty(p)
    BY TypesAssumption
  <2>3. TypedComponent(SetProperty(doc[i], p))
    BY <1>1, <2>2, SetKeepsType
  <2> QED
    BY <2>1, <2>3, EditAtTyped
<1>3. CASE SetNested
  <2>1. PICK i \in DOMAIN doc, type \in DOMAIN NestedRewrites :
          \E j \in DOMAIN doc[i].sub : \E p \in NestedRewrites[type] :
            EditAt(i, [doc[i] EXCEPT !.sub[j] = SetProperty(@, p)])
    BY <1>3 DEF SetNested
  <2>2. PICK j \in DOMAIN doc[i].sub, p \in NestedRewrites[type] :
          EditAt(i, [doc[i] EXCEPT !.sub[j] = SetProperty(@, p)])
    BY <2>1
  <2>3. TypedProperty(p)
    BY TypesAssumption
  <2>4. TypedNested(SetProperty(doc[i].sub[j], p))
    BY <2>3, TypeOKIs, DocumentSub, SetKeepsType
  <2> QED
    BY <2>2, <2>4, EditSubTyped
<1>4. CASE SetDate
  <2>1. PICK i \in DOMAIN doc, name \in DatedProperties, d \in Dates :
          EditAt(i, SetOrClearDate(doc[i], name, d))
    BY <1>4 DEF SetDate
  <2>2. TypedComponent(SetOrClearDate(doc[i], name, d))
    BY <1>1, SetDateKeepsType
  <2> QED
    BY <2>1, <2>2, EditAtTyped
<1>5. CASE SetTime
  <2>1. PICK i \in DOMAIN doc, name \in DatedProperties, time \in Instants :
          EditAt(i, SetOrClearTime(doc[i], name, time))
    BY <1>5 DEF SetTime
  <2>2. TypedComponent(SetOrClearTime(doc[i], name, time))
    BY <1>1, SetTimeKeepsType
  <2> QED
    BY <2>1, <2>2, EditAtTyped
<1>6. CASE Postpone
  <2>1. PICK i \in DOMAIN doc :
          \/ \E name, d : EditAt(i, SetOrClearDate(doc[i], name, d))
          \/ \E name, time : EditAt(i, SetOrClearTime(doc[i], name, time))
    BY <1>6 DEF Postpone
  <2>2. CASE \E name, d : EditAt(i, SetOrClearDate(doc[i], name, d))
    <3>1. PICK name, d : EditAt(i, SetOrClearDate(doc[i], name, d))
      BY <2>2
    <3>2. TypedComponent(SetOrClearDate(doc[i], name, d))
      BY <1>1, SetDateKeepsType
    <3> QED
      BY <3>1, <3>2, EditAtTyped
  <2>3. CASE \E name, time : EditAt(i, SetOrClearTime(doc[i], name, time))
    <3>1. PICK name, time : EditAt(i, SetOrClearTime(doc[i], name, time))
      BY <2>3
    <3>2. TypedComponent(SetOrClearTime(doc[i], name, time))
      BY <1>1, SetTimeKeepsType
    <3> QED
      BY <3>1, <3>2, EditAtTyped
  <2> QED
    BY <2>1, <2>2, <2>3
<1> QED
  BY <1>2, <1>3, <1>4, <1>5, <1>6

LEMMA PairExcept ==
  ASSUME NEW a, NEW x, NEW y
  PROVE  [<<a, x>> EXCEPT ![2] = y] = <<a, y>>
OBVIOUS

LEMMA AdditionsTyped ==
  ASSUME TypeOK, AddOne \/ RemoveName \/ ExtendRule
  PROVE  TypeOK'
<1>1. CASE AddOne
  <2>1. PICK i \in DOMAIN doc, p \in Additions : EditProps(i, Append(doc[i].props, p))
    BY <1>1 DEF AddOne
  <2>2. TypedProperty(p) /\ TypedProps(doc[i].props)
    BY TypesAssumption, TypeOKIs, DocumentAt
  <2>3. TypedProps(Append(doc[i].props, p))
    <3>1. IsSeq(doc[i].props)
      BY <2>2, TypedPropsIs
    <3>2. /\ IsSeq(Append(doc[i].props, p))
          /\ Range(Append(doc[i].props, p)) = Range(doc[i].props) \cup {p}
      BY <3>1, AppendRange
    <3> QED
      BY <2>2, <3>2, TypedPropsFrom
  <2> QED
    BY <2>1, <2>3, EditPropsTyped
<1>2. CASE RemoveName
  <2>1. PICK i \in DOMAIN doc : \E p \in ToSet(doc[i].props) :
          EditAt(i, RemoveProperty(doc[i], ToUpper(p.name)))
    BY <1>2 DEF RemoveName
  <2>2. PICK p \in ToSet(doc[i].props) :
          EditAt(i, RemoveProperty(doc[i], ToUpper(p.name)))
    BY <2>1
  <2>3. TypedComponent(RemoveProperty(doc[i], ToUpper(p.name)))
    BY TypeOKIs, DocumentAt, RemoveKeepsType
  <2> QED
    BY <2>2, <2>3, EditAtTyped
<1>3. CASE ExtendRule
  <2>1. PICK i \in DOMAIN doc, part \in RuleEdits : \E k \in DOMAIN doc[i].props :
          /\ doc[i].props[k].value[1] = "rule"
          /\ EditProps(i, [doc[i].props EXCEPT ![k].value[2] = Append(@, part)])
    BY <1>3 DEF ExtendRule
  <2>2. PICK k \in DOMAIN doc[i].props :
          /\ doc[i].props[k].value[1] = "rule"
          /\ EditProps(i, [doc[i].props EXCEPT ![k].value[2] = Append(@, part)])
    BY <2>1
  <2> DEFINE p == doc[i].props[k]
             value == <<"rule", Append(p.value[2], part)>>
             new == Property(p.name, p.params, value)
  <2>3. TypedProperty(p)
    BY TypeOKIs, DocumentAt, TypedPropsAt
  <2>4. p = Property(p.name, p.params, p.value) /\ TypedParams(p.params) /\ TypedValue(p.value)
    BY <2>3, TypedPropertyIs
  <2>5. p.value = <<"rule", p.value[2]>> /\ IsSeq(p.value[2])
    BY <2>2, <2>4, IsSequenceIs DEF TypedValue
  <2>6. TypedValue(value)
    <3>1. IsSequence(Append(p.value[2], part))
      BY <2>5, IsSeqAppend, IsSequenceIs
    <3> QED
      BY <3>1 DEF TypedValue
  <2>7. [p.value EXCEPT ![2] = Append(@, part)] = value
    <3>1. [<<"rule", p.value[2]>> EXCEPT ![2] = Append(p.value[2], part)] = value
      BY PairExcept
    <3> QED
      BY <2>5, <3>1
  <2>8. [p EXCEPT !.value[2] = Append(@, part)] = [p EXCEPT !.value = value]
    BY <2>7
  <2> HIDE DEF value
  <2>9. [p EXCEPT !.value = value] = new /\ TypedProperty(new)
    BY <2>4, <2>6, PropertyTyped DEF Property
  <2>10. [doc[i].props EXCEPT ![k].value[2] = Append(@, part)] =
           [doc[i].props EXCEPT ![k] = new]
    BY <2>8, <2>9
  <2> HIDE DEF new
  <2> QED
    BY <2>2, <2>9, <2>10, EditPropertyTyped
<1> QED
  BY <1>1, <1>2, <1>3

LEMMA ComponentsTyped ==
  ASSUME TypeOK, AppendComponent \/ DropComponent \/ DropNested
  PROVE  TypeOK'
<1>1. DocumentTyped(doc)
  BY TypeOKIs
<1>2. IsSeq(doc) /\ \A c \in Range(doc) : TypedComponent(c)
  BY <1>1 DEF DocumentTyped
<1>3. CASE AppendComponent
  <2>1. PICK c \in Spares : Edited(Append(doc, c))
    BY <1>3 DEF AppendComponent
  <2>2. IsSeq(Append(doc, c)) /\ Range(Append(doc, c)) = Range(doc) \cup {c}
    BY <1>2, AppendRange
  <2>3. TypedComponent(c)
    BY TypesAssumption
  <2>4. DocumentTyped(Append(doc, c))
    BY <1>2, <2>2, <2>3 DEF DocumentTyped
  <2> QED
    BY <2>1, <2>4, EditedTyped
<1>4. CASE DropComponent
  <2>1. PICK i \in DOMAIN doc : Edited(RemoveAt(doc, i))
    BY <1>4 DEF DropComponent
  <2>2. IsSeq(RemoveAt(doc, i)) /\ Range(RemoveAt(doc, i)) \subseteq Range(doc)
    BY <1>2, RemoveAtIs
  <2>3. DocumentTyped(RemoveAt(doc, i))
    BY <1>2, <2>2 DEF DocumentTyped
  <2> QED
    BY <2>1, <2>3, EditedTyped
<1>5. CASE DropNested
  <2>1. PICK i \in DOMAIN doc : \E j \in DOMAIN doc[i].sub :
          EditAt(i, [doc[i] EXCEPT !.sub = RemoveAt(@, j)])
    BY <1>5 DEF DropNested
  <2>2. PICK j \in DOMAIN doc[i].sub : EditAt(i, [doc[i] EXCEPT !.sub = RemoveAt(@, j)])
    BY <2>1
  <2>3. TypedComponent(doc[i])
    BY <1>1, DocumentAt
  <2>4. IsSeq(doc[i].sub) /\ \A s \in Range(doc[i].sub) : TypedNested(s)
    BY <2>3, TypedComponentIs
  <2>5. /\ IsSeq(RemoveAt(doc[i].sub, j))
        /\ \A s \in Range(RemoveAt(doc[i].sub, j)) : TypedNested(s)
    BY <2>4, RemoveAtIs
  <2>6. TypedComponent([doc[i] EXCEPT !.sub = RemoveAt(doc[i].sub, j)])
    BY <2>3, <2>5, ComponentWithSub
  <2> QED
    BY <2>2, <2>6, EditAtTyped
<1> QED
  BY <1>3, <1>4, <1>5

\* What a document starts from: a saved calendar with its hashes.
LEMMA InitTyped ==
  ASSUME Init
  PROVE  TypeOK
<1>1. CASE doc = <<>>
  <2>1. IsSeq(<<>>)
    BY IsSeqShort
  <2>2. Range(<<>>) = {}
    BY DEF Range
  <2>3. DocumentTyped(<<>>)
    BY <2>1, <2>2 DEF DocumentTyped
  <2> QED
    BY <1>1, <2>3, TypeOKIs
<1>2. CASE \E cal \in Saved : doc = [i \in DOMAIN cal |-> SetXVSTAR(cal[i])]
  <2>1. PICK cal \in Saved : doc = [i \in DOMAIN cal |-> SetXVSTAR(cal[i])]
    BY <1>2
  <2>2. IsSeq(cal) /\ \A c \in Range(cal) : TypedComponent(c)
    BY TypesAssumption, IsSequenceIs
  <2>3. Len(cal) \in Nat /\ DOMAIN cal = 1..Len(cal)
    BY <2>2, IsSeqProperties
  <2>4. ASSUME NEW i \in DOMAIN cal
        PROVE  TypedComponent(doc[i])
    <3>1. TypedComponent(cal[i])
      BY <2>2 DEF Range
    <3>2. TypedProperty(Property("X-VSTAR-HASH", <<>>, Digest(cal[i])))
      BY HashTyped
    <3>3. TypedComponent(SetXVSTAR(cal[i]))
      BY <3>1, <3>2, SetKeepsType DEF SetXVSTAR
    <3> QED
      BY <2>1, <3>3
  <2>5. DOMAIN doc = 1..Len(cal) /\ \A i \in 1..Len(cal) : doc[i] \in Range(doc)
    BY <2>1, <2>3 DEF Range
  <2>6. doc = [i \in 1..Len(cal) |-> doc[i]]
    BY <2>1, <2>3
  <2>7. doc \in [1..Len(cal) -> Range(doc)]
    BY <2>5, <2>6
  <2>8. IsSeq(doc)
    BY <2>3, <2>7, IsSeqFunction
  <2>9. \A c \in Range(doc) : TypedComponent(c)
    BY <2>3, <2>4, <2>5 DEF Range
  <2> QED
    BY <2>8, <2>9, TypeOKIs DEF DocumentTyped
<1> QED
  BY <1>1, <1>2 DEF Init

LEMMA StepTyped ==
  ASSUME TypeOK, [Next]_vars
  PROVE  TypeOK'
<1>1. CASE MoveProperty \/ MoveParam \/ MoveComponent \/ Recase
  BY <1>1, MovesTyped
<1>2. CASE Rehash \/ RehashNested
  BY <1>2, HashesTyped
<1>3. CASE Respell
  BY <1>3, RespellTyped
<1>4. CASE SetOne \/ SetNested \/ SetDate \/ SetTime \/ Postpone
  BY <1>4, SetsTyped
<1>5. CASE AddOne \/ RemoveName \/ ExtendRule
  BY <1>5, AdditionsTyped
<1>6. CASE AppendComponent \/ DropComponent \/ DropNested
  BY <1>6, ComponentsTyped
<1>7. CASE CardNext /\ UNCHANGED <<base, doc, edits, respelled>>
  BY <1>7 DEF TypeOK
<1>8. CASE UNCHANGED vars
  BY <1>8 DEF TypeOK, vars
<1> QED
  BY <1>1, <1>2, <1>3, <1>4, <1>5, <1>6, <1>7, <1>8 DEF Next

\* A document keeps the shapes of properties, values and components that its
\* readers count on, whatever programs write into it.
THEOREM TypeCorrect == Spec => []TypeOK
<1>1. Init => TypeOK
  BY InitTyped
<1>2. TypeOK /\ [Next]_vars => TypeOK'
  BY StepTyped
<1> QED
  BY <1>1, <1>2, PTL DEF Spec

-----------------------------------------------------------------------------
(* Durations are read back from what is written for them. *)

\* What ParseDuration returns: lengths in weeks, or in days and a clock time.
Length(d) ==
  /\ d = [negative |-> d.negative, weeks |-> d.weeks, days |-> d.days, hours |-> d.hours,
          minutes |-> d.minutes, seconds |-> d.seconds, dayForm |-> d.dayForm]
  /\ d.negative \in BOOLEAN /\ d.dayForm \in BOOLEAN
  /\ d.weeks \in Nat /\ d.days \in Nat
  /\ d.hours \in Nat /\ d.minutes \in Nat /\ d.seconds \in Nat
  /\ d.weeks # 0 =>
       d.days = 0 /\ d.hours = 0 /\ d.minutes = 0 /\ d.seconds = 0 /\ ~d.dayForm
  /\ d.days # 0 => d.dayForm

\* The length with the sign that is written: nothing has none.
Unsigned(d) == [d EXCEPT !.negative = @ /\ ~IsZero(d)]

UnitAt(fields, unit) == {i \in DOMAIN fields : fields[i][2] = unit}

LEMMA AmountIs ==
  ASSUME NEW fields, IsSeq(fields), NEW unit
  PROVE  /\ UnitAt(fields, unit) = {} => Amount(fields, unit) = 0
         /\ \A k : UnitAt(fields, unit) = {k} => Amount(fields, unit) = fields[k][1]
         /\ UnitAt(fields, unit) # {} =>
              \E k \in UnitAt(fields, unit) :
                k = Max(UnitAt(fields, unit)) /\ Amount(fields, unit) = fields[k][1]
<1> DEFINE at == UnitAt(fields, unit)
<1>1. Len(fields) \in Nat /\ DOMAIN fields = 1..Len(fields)
  BY IsSeqProperties
<1>2. at \in SUBSET (1..Len(fields))
  BY <1>1 DEF UnitAt
<1>3. Amount(fields, unit) = IF at = {} THEN 0 ELSE fields[Max(at)][1]
  BY DEF Amount, UnitAt
<1> HIDE DEF at
<1>4. at # {} => Max(at) \in at
  BY <1>1, <1>2, MaxUpTo
<1> QED
  BY <1>3, <1>4 DEF at

LEMMA AmountTyped ==
  ASSUME NEW fields, TypedFields(fields), NEW unit
  PROVE  Amount(fields, unit) \in Nat
<1>1. IsSeq(fields) /\ \A f \in Range(fields) : f[1] \in Nat
  BY IsSequenceIs DEF TypedFields
<1>2. CASE UnitAt(fields, unit) = {}
  <2>1. Amount(fields, unit) = 0
    BY <1>1, <1>2, AmountIs
  <2> QED
    BY <2>1
<1>3. CASE UnitAt(fields, unit) # {}
  <2>1. PICK k \in UnitAt(fields, unit) : Amount(fields, unit) = fields[k][1]
    BY <1>1, <1>3, AmountIs
  <2>2. fields[k] \in Range(fields)
    BY <2>1 DEF UnitAt, Range
  <2> QED
    BY <1>1, <2>1, <2>2
<1> QED
  BY <1>2, <1>3

LEMMA AmountOfNothing ==
  ASSUME NEW unit
  PROVE  IsSeq(<<>>) /\ Amount(<<>>, unit) = 0
<1>1. IsSeq(<<>>)
  BY IsSeqShort
<1>2. UnitAt(<<>>, unit) = {}
  BY DEF UnitAt
<1> QED
  BY <1>1, <1>2, AmountIs

LEMMA AmountOfOne ==
  ASSUME NEW n, NEW unit
  PROVE  /\ Amount(<< <<n, unit>> >>, unit) = n
         /\ \A other : other # unit => Amount(<< <<n, unit>> >>, other) = 0
<1> DEFINE f == <<n, unit>>
<1>1. f[1] = n /\ f[2] = unit
  OBVIOUS
<1> HIDE DEF f
<1>2. IsSeq(<<f>>)
  BY IsSeqShort
<1>3. UnitAt(<<f>>, unit) = {1} /\ <<f>>[1] = f
  BY <1>1 DEF UnitAt
<1>4. \A other : other # unit => UnitAt(<<f>>, other) = {}
  BY <1>1 DEF UnitAt
<1>5. Amount(<<f>>, unit) = n
  BY <1>1, <1>2, <1>3, AmountIs
<1>6. \A other : other # unit => Amount(<<f>>, other) = 0
  BY <1>2, <1>4, AmountIs
<1> QED
  BY <1>5, <1>6 DEF f

\* Fields of a clock time up to the unit of rank r.
ClockTo(s, r) ==
  /\ IsSeq(s)
  /\ \A i \in DOMAIN s : Rank(s[i][2]) > 0 /\ Rank(s[i][2]) <= r
  /\ \A i, j \in DOMAIN s : i < j => Rank(s[i][2]) < Rank(s[j][2])

LEMMA RankIs ==
  ASSUME NEW unit
  PROVE  Rank(unit) \in 0..3
BY DEF Rank

LEMMA ClockGrows ==
  ASSUME NEW r \in Nat, NEW s, ClockTo(s, r), NEW n \in Nat, NEW unit, Rank(unit) = r + 1
  PROVE  LET t == s \o Field(n, unit)
         IN  /\ ClockTo(t, r + 1)
             /\ Amount(t, unit) = n
             /\ \A other : other # unit => Amount(t, other) = Amount(s, other)
             /\ t = <<>> <=> s = <<>> /\ n = 0
<1> DEFINE t == s \o Field(n, unit)
<1>1. /\ IsSeq(s) /\ Len(s) \in Nat /\ DOMAIN s = 1..Len(s)
      /\ s = <<>> <=> Len(s) = 0
  BY IsSeqProperties DEF ClockTo
<1>2. \A i \in DOMAIN s : s[i][2] # unit
  <2>1. SUFFICES ASSUME NEW i \in DOMAIN s, s[i][2] = unit
                 PROVE  FALSE
    OBVIOUS
  <2>2. Rank(s[i][2]) <= r /\ Rank(s[i][2]) = r + 1
    BY <2>1 DEF ClockTo
  <2> QED
    BY <2>2
<1>3. CASE n = 0
  <2>1. Field(n, unit) = <<>>
    BY <1>3 DEF Field
  <2>2. s \o <<>> = s
    BY <1>1, ConcatEmptySeq DEF IsSeq
  <2>3. t = s
    BY <2>1, <2>2
  <2>4. Amount(s, unit) = 0
    <3>1. UnitAt(s, unit) = {}
      BY <1>2 DEF UnitAt
    <3> QED
      BY <1>1, <3>1, AmountIs
  <2>5. ClockTo(s, r + 1)
    <3>1. \A i \in DOMAIN s : Rank(s[i][2]) <= r => Rank(s[i][2]) <= r + 1
      BY RankIs
    <3> QED
      BY <3>1 DEF ClockTo
  <2> HIDE DEF t
  <2> QED
    BY <1>3, <2>3, <2>4, <2>5 DEF t
<1>4. CASE n # 0
  <2> DEFINE f == <<n, unit>>
             last == Len(s) + 1
  <2>1. Field(n, unit) = <<f>> /\ f[1] = n /\ f[2] = unit
    BY <1>4 DEF Field
  <2> HIDE DEF f
  <2>2. IsSeq(<<f>>) /\ Len(<<f>>) = 1 /\ <<f>>[1] = f
    BY IsSeqShort
  <2>3. /\ IsSeq(t) /\ Len(t) = last
        /\ \A k \in 1..Len(s) : t[k] = s[k]
        /\ t[last] = f
    <3>1. /\ IsSeq(s \o <<f>>) /\ Len(s \o <<f>>) = Len(s) + Len(<<f>>)
          /\ \A k \in 1..Len(s) : (s \o <<f>>)[k] = s[k]
          /\ \A k \in 1..Len(<<f>>) : (s \o <<f>>)[Len(s) + k] = <<f>>[k]
      BY ONLY <1>1, <2>2, ConcatRange
    <3>2. 1 \in 1..Len(<<f>>)
      BY <2>2
    <3>3. (s \o <<f>>)[Len(s) + 1] = f
      BY <2>2, <3>1, <3>2
    <3> QED
      BY <2>1, <2>2, <3>1, <3>3
  <2> HIDE DEF t
  <2>4. DOMAIN t = 1..last /\ t # <<>> /\ last \in 1..last
        /\ \A i \in 1..last : i \in 1..Len(s) \/ i = last
    BY <1>1, <2>3, IsSeqProperties
  <2>5. UnitAt(t, unit) = {last}
    BY <1>1, <1>2, <2>1, <2>3, <2>4 DEF UnitAt
  <2>6. Amount(t, unit) = n
    BY <2>1, <2>3, <2>5, AmountIs
  <2>7. ASSUME NEW other, other # unit
        PROVE  Amount(t, other) = Amount(s, other)
    <3>1. UnitAt(t, other) = UnitAt(s, other)
      BY <1>1, <2>1, <2>3, <2>4, <2>7 DEF UnitAt
    <3>2. CASE UnitAt(s, other) = {}
      BY <1>1, <2>3, <3>1, <3>2, AmountIs
    <3>3. CASE UnitAt(s, other) # {}
      <4>1. PICK k \in UnitAt(s, other) :
              k = Max(UnitAt(s, other)) /\ Amount(s, other) = s[k][1]
        BY <1>1, <3>3, AmountIs
      <4>2. PICK l \in UnitAt(t, other) :
              l = Max(UnitAt(t, other)) /\ Amount(t, other) = t[l][1]
        BY <2>3, <3>1, <3>3, AmountIs
      <4>3. k = l /\ k \in 1..Len(s)
        BY <1>1, <3>1, <4>1, <4>2 DEF UnitAt
      <4> QED
        BY <2>3, <4>1, <4>2, <4>3
    <3> QED
      BY <3>2, <3>3
  <2>8. ClockTo(t, r + 1)
    <3>1. \A i \in 1..Len(s) :
            Rank(t[i][2]) > 0 /\ Rank(t[i][2]) <= r /\ Rank(t[i][2]) \in 0..3
      BY <1>1, <2>3, RankIs DEF ClockTo
    <3>2. Rank(t[last][2]) = r + 1
      BY <2>1, <2>3
    <3>3. \A i \in DOMAIN t : Rank(t[i][2]) > 0 /\ Rank(t[i][2]) <= r + 1
      BY <2>4, <3>1, <3>2
    <3>4. ASSUME NEW i \in DOMAIN t, NEW j \in DOMAIN t, i < j
          PROVE  Rank(t[i][2]) < Rank(t[j][2])
      <4>1. i \in 1..Len(s)
        BY <1>1, <2>4, <3>4
      <4>2. CASE j = last
        BY <3>1, <3>2, <4>1, <4>2
      <4>3. CASE j \in 1..Len(s)
        BY <1>1, <2>3, <3>4, <4>1, <4>3 DEF ClockTo
      <4> QED
        BY <2>4, <4>2, <4>3
    <3> QED
      BY <2>3, <3>3, <3>4 DEF ClockTo
  <2> QED
    BY <1>4, <2>4, <2>6, <2>7, <2>8 DEF t
<1> QED
  BY <1>3, <1>4

ClockOf(h, m, s) == Field(h, "H") \o Field(m, "M") \o Field(s, "S")

LEMMA ClockIs ==
  ASSUME NEW h \in Nat, NEW m \in Nat, NEW s \in Nat
  PROVE  /\ ClockTo(ClockOf(h, m, s), 3)
         /\ Amount(ClockOf(h, m, s), "H") = h
         /\ Amount(ClockOf(h, m, s), "M") = m
         /\ Amount(ClockOf(h, m, s), "S") = s
         /\ ClockOf(h, m, s) = <<>> <=> h = 0 /\ m = 0 /\ s = 0
<1> DEFINE e == <<>>
           a == e \o Field(h, "H")
           b == a \o Field(m, "M")
           c == b \o Field(s, "S")
<1>1. Rank("H") = 0 + 1 /\ Rank("M") = 1 + 1 /\ Rank("S") = 2 + 1
  BY DEF Rank
<1>2. ClockTo(e, 0)
  <2>1. IsSeq(e)
    BY IsSeqShort
  <2>2. DOMAIN e = {}
    OBVIOUS
  <2> HIDE DEF e
  <2> QED
    BY <2>1, <2>2 DEF ClockTo
<1>3. /\ ClockTo(a, 0 + 1) /\ Amount(a, "H") = h
      /\ a = <<>> <=> e = <<>> /\ h = 0
  <2>1. 0 \in Nat
    OBVIOUS
  <2> HIDE DEF e
  <2> QED
    BY ONLY <1>1, <1>2, <2>1, h \in Nat, ClockGrows
<1>4. a = Field(h, "H")
  <2>1. Field(h, "H") \in Seq({<<h, "H">>})
    BY DEF Field
  <2> QED
    BY <2>1, ConcatEmptySeq
<1> HIDE DEF a
<1>5. ClockTo(a, 1) /\ Amount(a, "H") = h /\ (a = <<>> <=> h = 0)
  BY <1>3
<1>6. /\ ClockTo(b, 1 + 1) /\ Amount(b, "M") = m
      /\ \A other : other # "M" => Amount(b, other) = Amount(a, other)
      /\ b = <<>> <=> a = <<>> /\ m = 0
  <2>1. 1 \in Nat
    OBVIOUS
  <2> QED
    BY ONLY <1>1, <1>5, <2>1, m \in Nat, ClockGrows
<1> HIDE DEF b
<1>7. ClockTo(b, 2) /\ Amount(b, "H") = h /\ Amount(b, "M") = m
  BY <1>5, <1>6
<1>8. /\ ClockTo(c, 2 + 1) /\ Amount(c, "S") = s
      /\ \A other : other # "S" => Amount(c, other) = Amount(b, other)
      /\ c = <<>> <=> b = <<>> /\ s = 0
  <2>1. 2 \in Nat
    OBVIOUS
  <2> QED
    BY ONLY <1>1, <1>7, <2>1, s \in Nat, ClockGrows
<1> HIDE DEF c
<1>9. c = ClockOf(h, m, s)
  BY <1>4 DEF ClockOf, b, c
<1> QED
  BY <1>5, <1>6, <1>7, <1>8, <1>9

LEMMA ClockIsTime ==
  ASSUME NEW c, ClockTo(c, 3), c # <<>>
  PROVE  TimePart(c)
BY DEF ClockTo, TimePart

\* The wire form of a duration.
DurationWire(sign, date, time) ==
  [sign |-> sign, date |-> date, t |-> time # <<>>, time |-> time]

LEMMA SignsDiffer == NoText # "-"
BY Zenon DEF NoText

LEMMA DurationStringIs ==
  ASSUME NEW d
  PROVE  LET clock == ClockOf(d.hours, d.minutes, d.seconds)
             sign == IF d.negative /\ ~IsZero(d) THEN "-" ELSE NoText
         IN  DurationString(d) =
               CASE d.weeks # 0 ->
                      DurationWire(sign, << <<d.weeks, "W">> >>, <<>>)
                 [] IsZero(d) /\ ~d.dayForm ->
                      DurationWire(sign, <<>>, << <<0, "S">> >>)
                 [] d.weeks = 0 /\ (d.days # 0 \/ d.dayForm) ->
                      DurationWire(sign, << <<d.days, "D">> >>, clock)
                 [] OTHER -> DurationWire(sign, <<>>, clock)
BY DEF DurationString, DurationWire, ClockOf

\* What is written is well formed, and is read as the length that was written.
ReadBack(d) ==
  WellFormedDuration(DurationString(d)) /\ ParseDuration(DurationString(d)) = Unsigned(d)

HasDays(date) == \E f \in ToSet(date) : f[2] = "D"

LEMMA ParseWire ==
  ASSUME NEW sign, NEW date, NEW time
  PROVE  ParseDuration(DurationWire(sign, date, time)) =
           [negative |-> sign = "-", weeks |-> Amount(date, "W"),
            days |-> Amount(date, "D"), hours |-> Amount(time, "H"),
            minutes |-> Amount(time, "M"), seconds |-> Amount(time, "S"),
            dayForm |-> HasDays(date)]
BY DEF ParseDuration, DurationWire, HasDays

LEMMA WellFormedWire ==
  ASSUME NEW sign, sign \in {NoText, "-"}, NEW date, NEW time,
         time # <<>> => TimePart(time),
         \/ date = <<>> /\ time # <<>>
         \/ \E n : date = << <<n, "W">> >> /\ time = <<>>
         \/ \E n : date = << <<n, "D">> >>
  PROVE  WellFormedDuration(DurationWire(sign, date, time))
<1> DEFINE w == DurationWire(sign, date, time)
<1>1. w.sign = sign /\ w.date = date /\ w.t = (time # <<>>) /\ w.time = time
  BY DEF DurationWire
<1> SUFFICES WellFormedDuration(w)
  OBVIOUS
<1> HIDE DEF w
<1>2. w.sign \in {NoText, "+", "-"} /\ (w.t => TimePart(w.time))
  BY <1>1
<1>3. ASSUME CASE w.date = <<>> -> w.t
               [] Len(w.date) = 1 /\ w.date[1][2] = "W" -> ~w.t
               [] Len(w.date) = 1 /\ w.date[1][2] = "D" -> TRUE
               [] OTHER -> FALSE
      PROVE  WellFormedDuration(w)
  BY <1>2, <1>3 DEF WellFormedDuration
<1>4. CASE date = <<>> /\ time # <<>>
  <2>1. w.date = <<>> /\ w.t
    BY <1>1, <1>4
  <2>2. ~(Len(<<>>) = 1)
    OBVIOUS
  <2> QED
    BY <1>3, <2>1, <2>2
<1>5. CASE \E n : date = << <<n, "W">> >> /\ time = <<>>
  <2>1. PICK n : date = << <<n, "W">> >> /\ time = <<>>
    BY <1>5
  <2>2. date # <<>> /\ Len(date) = 1 /\ date[1] = <<n, "W">> /\ <<n, "W">>[2] = "W"
    BY <2>1
  <2>3. w.date # <<>> /\ Len(w.date) = 1 /\ w.date[1][2] = "W" /\ "W" # "D" /\ ~w.t
    BY <1>1, <2>1, <2>2
  <2> QED
    BY <1>3, <2>3
<1>6. CASE \E n : date = << <<n, "D">> >>
  <2>1. PICK n : date = << <<n, "D">> >>
    BY <1>6
  <2>2. date # <<>> /\ Len(date) = 1 /\ date[1] = <<n, "D">> /\ <<n, "D">>[2] = "D"
    BY <2>1
  <2>3. w.date # <<>> /\ Len(w.date) = 1 /\ w.date[1][2] = "D" /\ "W" # "D"
    BY <1>1, <2>2
  <2> QED
    BY <1>3, <2>3
<1> QED
  BY <1>4, <1>5, <1>6

\* The two lengths with the same fields but for the sign.
LEMMA UnsignedIs ==
  ASSUME NEW d, Length(d)
  PROVE  Unsigned(d) =
           [negative |-> d.negative /\ ~IsZero(d), weeks |-> d.weeks, days |-> d.days,
            hours |-> d.hours, minutes |-> d.minutes, seconds |-> d.seconds,
            dayForm |-> d.dayForm]
<1>1. d = [negative |-> d.negative, weeks |-> d.weeks, days |-> d.days, hours |-> d.hours,
           minutes |-> d.minutes, seconds |-> d.seconds, dayForm |-> d.dayForm]
  BY DEF Length
<1> DEFINE sign == d.negative /\ ~IsZero(d)
<1>2. Unsigned(d) = [d EXCEPT !.negative = sign]
  BY DEF Unsigned
<1> HIDE DEF sign
<1>3. [d EXCEPT !.negative = sign] =
        [negative |-> sign, weeks |-> d.weeks, days |-> d.days, hours |-> d.hours,
         minutes |-> d.minutes, seconds |-> d.seconds, dayForm |-> d.dayForm]
  BY <1>1
<1> QED
  BY <1>2, <1>3 DEF sign

LEMMA DurationReadBack ==
  ASSUME NEW d, Length(d)
  PROVE  ReadBack(d)
<1> DEFINE clock == ClockOf(d.hours, d.minutes, d.seconds)
           sign == IF d.negative /\ ~IsZero(d) THEN "-" ELSE NoText
           signed == d.negative /\ ~IsZero(d)
           second == << <<0, "S">> >>
           week == << <<d.weeks, "W">> >>
           day == << <<d.days, "D">> >>
           none == <<>>
<1>1. /\ d.negative \in BOOLEAN /\ d.dayForm \in BOOLEAN
      /\ d.weeks \in Nat /\ d.days \in Nat
      /\ d.hours \in Nat /\ d.minutes \in Nat /\ d.seconds \in Nat
      /\ d.weeks # 0 =>
           d.days = 0 /\ d.hours = 0 /\ d.minutes = 0 /\ d.seconds = 0 /\ ~d.dayForm
      /\ d.days # 0 => d.dayForm
  BY DEF Length
<1>2. /\ ClockTo(clock, 3)
      /\ Amount(clock, "H") = d.hours /\ Amount(clock, "M") = d.minutes
      /\ Amount(clock, "S") = d.seconds
      /\ clock = <<>> <=> d.hours = 0 /\ d.minutes = 0 /\ d.seconds = 0
  BY <1>1, ClockIs
<1>3. clock # <<>> => TimePart(clock)
  BY <1>2, ClockIsTime
<1>4. sign \in {NoText, "-"} /\ (sign = "-") = signed
  BY <1>1, SignsDiffer DEF IsZero
<1>5. Unsigned(d) =
        [negative |-> signed, weeks |-> d.weeks, days |-> d.days,
         hours |-> d.hours, minutes |-> d.minutes, seconds |-> d.seconds,
         dayForm |-> d.dayForm]
  BY UnsignedIs
<1>6. /\ \A unit : Amount(none, unit) = 0
      /\ HasDays(none) = FALSE
  BY AmountOfNothing DEF ToSet, HasDays
<1>7. DurationString(d) =
        CASE d.weeks # 0 -> DurationWire(sign, week, none)
          [] IsZero(d) /\ ~d.dayForm -> DurationWire(sign, none, second)
          [] d.weeks = 0 /\ (d.days # 0 \/ d.dayForm) -> DurationWire(sign, day, clock)
          [] OTHER -> DurationWire(sign, none, clock)
  BY DurationStringIs
<1> HIDE DEF sign
<1>8. \A date, time :
        ParseDuration(DurationWire(sign, date, time)) =
           [negative |-> sign = "-", weeks |-> Amount(date, "W"),
            days |-> Amount(date, "D"), hours |-> Amount(time, "H"),
            minutes |-> Amount(time, "M"), seconds |-> Amount(time, "S"),
            dayForm |-> HasDays(date)]
  BY ParseWire
<1>9. /\ Amount(week, "W") = d.weeks /\ Amount(week, "D") = 0
      /\ HasDays(week) = FALSE
  BY AmountOfOne DEF ToSet, HasDays
<1>10. /\ Amount(day, "D") = d.days /\ Amount(day, "W") = 0
       /\ HasDays(day) = TRUE
  BY AmountOfOne DEF ToSet, HasDays
<1>11. /\ Amount(second, "S") = 0 /\ Amount(second, "H") = 0 /\ Amount(second, "M") = 0
       /\ second # none
  BY AmountOfOne
<1>12. TimePart(second)
  <2>1. DOMAIN second = {1} /\ second[1][2] = "S" /\ Rank("S") = 3
    BY DEF Rank
  <2> HIDE DEF second
  <2> QED
    BY <1>11, <2>1 DEF TimePart
<1> HIDE DEF clock, second, week, day, none
<1>13. CASE d.weeks # 0
  <2>1. DurationString(d) = DurationWire(sign, week, none)
    <3>1. ~IsZero(d) /\ ~(d.days # 0 \/ d.dayForm)
      BY <1>1, <1>13 DEF IsZero
    <3> QED
      BY <1>7, <1>13, <3>1
  <2>2. WellFormedDuration(DurationWire(sign, week, none))
    <3>1. \E n : week = << <<n, "W">> >>
      BY DEF week
    <3> QED
      BY <1>4, <3>1, WellFormedWire DEF none
  <2>3. ParseDuration(DurationWire(sign, week, none)) = Unsigned(d)
    <3>1. /\ d.days = 0 /\ d.hours = 0 /\ d.minutes = 0 /\ d.seconds = 0
          /\ d.dayForm = FALSE
      BY <1>1, <1>13
    <3>2. /\ Amount(none, "H") = 0 /\ Amount(none, "M") = 0 /\ Amount(none, "S") = 0
          /\ HasDays(week) = FALSE
      BY <1>6, <1>9
    <3>3. ParseDuration(DurationWire(sign, week, none)) =
            [negative |-> sign = "-", weeks |-> Amount(week, "W"),
             days |-> Amount(week, "D"), hours |-> Amount(none, "H"),
             minutes |-> Amount(none, "M"), seconds |-> Amount(none, "S"),
             dayForm |-> HasDays(week)]
      BY <1>8
    <3> QED
      BY <1>4, <1>5, <1>9, <3>1, <3>2, <3>3
  <2> QED
    BY <2>1, <2>2, <2>3 DEF ReadBack
<1>14. CASE d.weeks = 0 /\ IsZero(d) /\ ~d.dayForm
  <2>1. DurationString(d) = DurationWire(sign, none, second)
    <3>1. ~(d.days # 0 \/ d.dayForm)
      BY <1>1, <1>14 DEF IsZero
    <3> QED
      BY <1>7, <1>14, <3>1
  <2>2. WellFormedDuration(DurationWire(sign, none, second))
    BY <1>4, <1>11, <1>12, WellFormedWire DEF none
  <2>3. ParseDuration(DurationWire(sign, none, second)) = Unsigned(d)
    <3>1. d.days = 0 /\ d.hours = 0 /\ d.minutes = 0 /\ d.seconds = 0
      BY <1>14 DEF IsZero
    <3> QED
      BY <1>1, <1>4, <1>5, <1>6, <1>8, <1>11, <1>14, <3>1
  <2> QED
    BY <2>1, <2>2, <2>3 DEF ReadBack
<1>15. CASE d.weeks = 0 /\ d.dayForm
  <2>1. DurationString(d) = DurationWire(sign, day, clock)
    BY <1>7, <1>15
  <2>2. WellFormedDuration(DurationWire(sign, day, clock))
    <3>1. \E n : day = << <<n, "D">> >>
      BY DEF day
    <3> QED
      BY <1>3, <1>4, <3>1, WellFormedWire
  <2>3. ParseDuration(DurationWire(sign, day, clock)) = Unsigned(d)
    BY <1>1, <1>2, <1>4, <1>5, <1>8, <1>10, <1>15
  <2> QED
    BY <2>1, <2>2, <2>3 DEF ReadBack
<1>16. CASE d.weeks = 0 /\ ~d.dayForm /\ ~IsZero(d)
  <2>1. d.days = 0 /\ clock # none
    BY <1>1, <1>2, <1>16 DEF IsZero, none
  <2>2. DurationString(d) = DurationWire(sign, none, clock)
    BY <1>7, <1>16, <2>1
  <2>3. WellFormedDuration(DurationWire(sign, none, clock))
    BY <1>3, <1>4, <2>1, WellFormedWire DEF none
  <2>4. ParseDuration(DurationWire(sign, none, clock)) = Unsigned(d)
    <3>1. d.days = 0 /\ d.weeks = 0 /\ d.dayForm = FALSE
      BY <1>1, <1>16, <2>1
    <3>2. /\ Amount(none, "W") = 0 /\ Amount(none, "D") = 0
          /\ HasDays(none) = FALSE
      BY <1>6
    <3>3. ParseDuration(DurationWire(sign, none, clock)) =
            [negative |-> sign = "-", weeks |-> Amount(none, "W"),
             days |-> Amount(none, "D"), hours |-> Amount(clock, "H"),
             minutes |-> Amount(clock, "M"), seconds |-> Amount(clock, "S"),
             dayForm |-> HasDays(none)]
      BY <1>8
    <3> QED
      BY <1>2, <1>4, <1>5, <3>1, <3>2, <3>3
  <2> QED
    BY <2>2, <2>3, <2>4 DEF ReadBack
<1> QED
  BY <1>13, <1>14, <1>15, <1>16

LEMMA ParsedIsLength ==
  ASSUME NEW w, TypedValue(<<"duration", w>>), WellFormedDuration(w)
  PROVE  Length(ParseDuration(w))
<1> DEFINE d == ParseDuration(w)
<1>1. /\ TypedFields(w.date) /\ TypedFields(w.time)
      /\ w.time # <<>> => w.t
  BY DEF TypedValue
<1>2. d = [negative |-> w.sign = "-", weeks |-> Amount(w.date, "W"),
           days |-> Amount(w.date, "D"), hours |-> Amount(w.time, "H"),
           minutes |-> Amount(w.time, "M"), seconds |-> Amount(w.time, "S"),
           dayForm |-> HasDays(w.date)]
  BY DEF ParseDuration, HasDays
<1>3. \A unit : Amount(w.date, unit) \in Nat /\ Amount(w.time, unit) \in Nat
  BY <1>1, AmountTyped
<1>4. \A unit : Amount(<<>>, unit) = 0
  BY AmountOfNothing
<1>5. \/ w.date = <<>>
      \/ Len(w.date) = 1 /\ w.date[1][2] = "W" /\ ~w.t
      \/ Len(w.date) = 1 /\ w.date[1][2] = "D"
  BY DEF WellFormedDuration
<1>6. IsSeq(w.date) /\ DOMAIN w.date = 1..Len(w.date)
  BY <1>1, IsSequenceIs, IsSeqProperties DEF TypedFields
<1>7. HasDays(w.date) \in BOOLEAN
  BY DEF HasDays
<1>8. ASSUME Len(w.date) = 1, NEW unit, w.date[1][2] # unit
      PROVE  Amount(w.date, unit) = 0
  <2>1. UnitAt(w.date, unit) = {}
    BY <1>6, <1>8 DEF UnitAt
  <2> QED
    BY <1>6, <2>1, AmountIs
<1>9. Amount(w.date, "W") # 0 =>
        /\ Amount(w.date, "D") = 0 /\ HasDays(w.date) = FALSE
        /\ Amount(w.time, "H") = 0 /\ Amount(w.time, "M") = 0 /\ Amount(w.time, "S") = 0
  <2>1. SUFFICES ASSUME Amount(w.date, "W") # 0
                 PROVE  /\ Amount(w.date, "D") = 0 /\ HasDays(w.date) = FALSE
                        /\ Amount(w.time, "H") = 0 /\ Amount(w.time, "M") = 0
                        /\ Amount(w.time, "S") = 0
    OBVIOUS
  <2>2. Len(w.date) = 1 /\ w.date[1][2] = "W" /\ ~w.t
    <3>1. w.date # <<>>
      BY <1>4, <2>1
    <3>2. ~(Len(w.date) = 1 /\ w.date[1][2] = "D")
      BY <1>8, <2>1
    <3> QED
      BY <1>5, <3>1, <3>2
  <2>3. Amount(w.date, "D") = 0
    BY <1>8, <2>2
  <2>4. HasDays(w.date) = FALSE
    BY <1>6, <2>2 DEF HasDays, ToSet
  <2>5. w.time = <<>>
    BY <1>1, <2>2
  <2> QED
    BY <1>4, <2>3, <2>4, <2>5
<1>10. Amount(w.date, "D") # 0 => HasDays(w.date)
  <2>1. SUFFICES ASSUME Amount(w.date, "D") # 0
                 PROVE  HasDays(w.date)
    OBVIOUS
  <2>2. w.date # <<>>
    BY <1>4, <2>1
  <2>3. Len(w.date) = 1 /\ w.date[1][2] = "D"
    BY <1>5, <1>8, <2>1, <2>2
  <2> QED
    BY <1>6, <2>3 DEF HasDays, ToSet
<1> HIDE DEF d
<1>11. /\ d.negative \in BOOLEAN /\ d.dayForm = HasDays(w.date)
       /\ d.weeks = Amount(w.date, "W") /\ d.days = Amount(w.date, "D")
       /\ d.hours = Amount(w.time, "H") /\ d.minutes = Amount(w.time, "M")
       /\ d.seconds = Amount(w.time, "S")
       /\ d = [negative |-> d.negative, weeks |-> d.weeks, days |-> d.days,
               hours |-> d.hours, minutes |-> d.minutes, seconds |-> d.seconds,
               dayForm |-> d.dayForm]
  BY <1>2
<1>12. Length(d)
  BY <1>3, <1>7, <1>9, <1>10, <1>11 DEF Length
<1> QED
  BY <1>12 DEF d

\* Seconds in hours, minutes and seconds.
LEMMA ClockArithmetic ==
  ASSUME NEW n \in Nat
  PROVE  /\ n \div 3600 \in Nat /\ (n % 3600) \div 60 \in Nat /\ n % 60 \in Nat
         /\ 3600 * (n \div 3600) + 60 * ((n % 3600) \div 60) + (n % 60) = n
<1>1. n = 3600 * (n \div 3600) + (n % 3600) /\ n \div 3600 \in Nat /\ n % 3600 \in 0..3599
  OBVIOUS
<1> DEFINE m == n % 3600
           h == n \div 3600
<1>2. m = 60 * (m \div 60) + (m % 60) /\ m \div 60 \in Nat /\ m % 60 \in 0..59
  BY <1>1
<1>3. n % 60 = m % 60
  <2>1. n = 60 * (60 * h) + m /\ h \in Nat /\ m \in Nat
    BY <1>1
  <2> HIDE DEF m, h
  <2> QED
    BY <2>1
<1> QED
  BY <1>1, <1>2, <1>3

LEMMA FromSignedIs ==
  ASSUME NEW n \in Int
  PROVE  /\ Length(FromSigned(n)) /\ Signed(FromSigned(n)) = n
         /\ Unsigned(FromSigned(n)) = FromSigned(n)
<1> DEFINE length == IF n < 0 THEN -n ELSE n
           h == length \div 3600
           m == (length % 3600) \div 60
           s == length % 60
           d == FromSigned(n)
<1>1. length \in Nat
  OBVIOUS
<1> HIDE DEF length
<1>2. h \in Nat /\ m \in Nat /\ s \in Nat /\ 3600 * h + 60 * m + s = length
  BY <1>1, ClockArithmetic
<1> DEFINE back == n < 0
<1>3. d = [Zero EXCEPT !.negative = back, !.hours = h, !.minutes = m, !.seconds = s]
  BY DEF FromSigned, length
<1> HIDE DEF h, m, s, d, back
<1>4. /\ d.negative = back /\ d.weeks = 0 /\ d.days = 0 /\ d.hours = h
      /\ d.minutes = m /\ d.seconds = s /\ d.dayForm = FALSE
      /\ d = [negative |-> d.negative, weeks |-> d.weeks, days |-> d.days,
              hours |-> d.hours, minutes |-> d.minutes, seconds |-> d.seconds,
              dayForm |-> d.dayForm]
  BY <1>3 DEF Zero
<1>13. back \in BOOLEAN /\ (back <=> n < 0)
  BY DEF back
<1>5. Length(d)
  <2>1. d.negative \in BOOLEAN /\ d.dayForm \in BOOLEAN
    BY <1>4, <1>13
  <2>2. /\ d.weeks = 0 /\ d.days = 0 /\ d.weeks \in Nat /\ d.days \in Nat
        /\ d.hours \in Nat /\ d.minutes \in Nat /\ d.seconds \in Nat
    BY <1>2, <1>4
  <2> QED
    BY <1>4, <2>1, <2>2 DEF Length
<1>6. Signed(d) = (IF back THEN -1 ELSE 1) * (86400 * (7 * 0 + 0) + 3600 * h + 60 * m + s)
  BY <1>4 DEF Signed, SecondsPerDay
<1>7. 86400 * (7 * 0 + 0) + 3600 * h + 60 * m + s = length
  BY <1>2
<1>8. Signed(d) = n
  <2>1. CASE n < 0
    BY <1>6, <1>7, <1>13, <2>1 DEF length
  <2>2. CASE ~(n < 0)
    BY <1>6, <1>7, <1>13, <2>2 DEF length
  <2> QED
    BY <2>1, <2>2
<1>9. n < 0 => ~IsZero(d)
  BY <1>2, <1>4 DEF IsZero, length
<1>10. Unsigned(d) =
         [negative |-> d.negative /\ ~IsZero(d), weeks |-> d.weeks, days |-> d.days,
          hours |-> d.hours, minutes |-> d.minutes, seconds |-> d.seconds,
          dayForm |-> d.dayForm]
  BY <1>5, UnsignedIs
<1>11. (d.negative /\ ~IsZero(d)) = d.negative
  BY <1>4, <1>9, <1>13
<1>12. Unsigned(d) = d
  BY <1>4, <1>10, <1>11
<1> QED
  BY <1>5, <1>8, <1>12 DEF d

LEMMA SignedTyped ==
  ASSUME NEW d, Length(d)
  PROVE  Signed(d) \in Int
BY DEF Length, Signed, SecondsPerDay

-----------------------------------------------------------------------------
(* Parameters and properties by name. *)

Keywords ==
  {"DATE-TIME", "DTSTART", "END", "EXDATE", "RANGE", "RDATE", "RECURRENCE-ID", "RELATED",
   "RRULE", "START", "THISANDFUTURE", "TRIGGER", "TZID", "VALUE"}

LEMMA KeywordsAreCapitals ==
  ASSUME NEW name \in Keywords
  PROVE  ToUpper(name) = name
BY CapitalsAssumption DEF Keywords, ToUpper

LEMMA CapitalsStay ==
  ASSUME NEW name
  PROVE  ToUpper(ToUpper(name)) = ToUpper(name)
BY CapitalsAssumption DEF ToUpper, Range

LEMMA NamedIs ==
  ASSUME NEW s, IsSeq(s), NEW name
  PROVE  /\ Picks(Named(s, name), s, PlacesOf(s, name))
         /\ Range(Named(s, name)) = {x \in Range(s) : ToUpper(x.name) = name}
         /\ First(Named(s, name)) \subseteq {x \in Range(s) : ToUpper(x.name) = name}
         /\ First(Named(s, name)) = {} => \A x \in Range(s) : ToUpper(x.name) # name
<1> DEFINE t == Named(s, name)
<1>1. PlacesOf(s, name) \subseteq DOMAIN s
  BY PlacesAre
<1>2. Picks(t, s, PlacesOf(s, name))
  BY <1>1, PickedIs DEF Named
<1> HIDE DEF t
<1>3. IsSeq(t) /\ Range(t) = {s[i] : i \in PlacesOf(s, name)}
  BY <1>2 DEF Picks
<1>4. Range(t) = {x \in Range(s) : ToUpper(x.name) = name}
  BY <1>3 DEF PlacesOf, Range
<1>5. First(t) \subseteq Range(t) /\ (First(t) = {} => t = <<>>)
  BY <1>3, FirstIs
<1>6. t = <<>> => Range(t) = {}
  <2>1. \A i : i \notin DOMAIN <<>>
    OBVIOUS
  <2> QED
    BY <2>1 DEF Range
<1> QED
  BY <1>2, <1>4, <1>5, <1>6 DEF t

LEMMA NoneNamed ==
  ASSUME NEW name
  PROVE  First(Named(<<>>, name)) = {}
<1>1. IsSeq(<<>>)
  BY IsSeqShort
<1>2. \A x : x \notin Range(<<>>)
  BY DEF Range
<1> QED
  BY <1>1, <1>2, NamedIs

LEMMA OneNamed ==
  ASSUME NEW q, NEW name
  PROVE  First(Named(<<q>>, name)) = IF ToUpper(q.name) = name THEN {q} ELSE {}
<1>1. IsSeq(<<q>>)
  BY IsSeqShort
<1>2. Range(<<q>>) = {q}
  BY DEF Range
<1>3. /\ First(Named(<<q>>, name)) \subseteq {x \in {q} : ToUpper(x.name) = name}
      /\ First(Named(<<q>>, name)) = {} => \A x \in {q} : ToUpper(x.name) # name
  <2> DEFINE s == <<q>>
  <2>1. IsSeq(s) /\ Range(s) = {q}
    BY <1>1, <1>2
  <2> HIDE DEF s
  <2>2. /\ First(Named(s, name)) \subseteq {x \in Range(s) : ToUpper(x.name) = name}
        /\ First(Named(s, name)) = {} => \A x \in Range(s) : ToUpper(x.name) # name
    BY <2>1, NamedIs
  <2> QED
    BY <2>1, <2>2 DEF s
<1> QED
  BY <1>3

LEMMA NoParam ==
  ASSUME NEW p, p.params = <<>>, NEW name
  PROVE  ParamValue(p, name) = {}
BY NoneNamed DEF ParamValue

LEMMA OneParam ==
  ASSUME NEW p, NEW a, NEW b, p.params = <<Param(a, b)>>, NEW name
  PROVE  ParamValue(p, name) = IF ToUpper(a) = name THEN {b} ELSE {}
<1> DEFINE q == Param(a, b)
<1>1. q.name = a /\ q.value = b
  BY DEF Param
<1>2. p.params = <<q>>
  OBVIOUS
<1> HIDE DEF q
<1>3. First(Named(p.params, name)) = IF ToUpper(a) = name THEN {q} ELSE {}
  BY <1>1, <1>2, OneNamed
<1> QED
  BY <1>1, <1>3 DEF ParamValue

-----------------------------------------------------------------------------
(* Triggers are read back from what is written for them. *)

\* What ParseTrigger returns.
Trigger(tr) ==
  \/ \E d, r : Length(d) /\ r \in {"START", "END"} /\ tr = Relative(d, r)
  \/ \E t : tr = Absolute(t)

TriggerRecord(relative, offset, related, at) ==
  [relative |-> relative, offset |-> offset, related |-> related, at |-> at]

WithRelated(tr, r) == [tr EXCEPT !.related = r]

WithOffset(tr, d) == [tr EXCEPT !.offset = d]

LEMMA TriggerRecordExcept ==
  ASSUME NEW a, NEW b, NEW c, NEW d, NEW x
  PROVE  /\ WithRelated(TriggerRecord(a, b, c, d), x) = TriggerRecord(a, b, x, d)
         /\ WithOffset(TriggerRecord(a, b, c, d), x) = TriggerRecord(a, x, c, d)
<1>1. WithRelated(TriggerRecord(a, b, c, d), x) = TriggerRecord(a, b, x, d)
  BY DEF TriggerRecord, WithRelated
<1>2. WithOffset(TriggerRecord(a, b, c, d), x) = TriggerRecord(a, x, c, d)
  BY DEF TriggerRecord, WithOffset
<1> QED
  BY <1>1, <1>2

LEMMA RelativeIs ==
  ASSUME NEW d, NEW r
  PROVE  /\ Relative(d, r).relative = TRUE /\ Relative(d, r).offset = d
         /\ Relative(d, r).related = r
BY DEF Relative

LEMMA RelativeRecord ==
  ASSUME NEW d, NEW r
  PROVE  Relative(d, r) = TriggerRecord(TRUE, d, r, ZeroTime)
BY DEF Relative, TriggerRecord

LEMMA RelatedIs ==
  ASSUME NEW d, NEW r, NEW s
  PROVE  WithRelated(Relative(d, r), s) = Relative(d, s)
<1> DEFINE yes == TRUE
<1>1. Relative(d, r) = TriggerRecord(yes, d, r, ZeroTime)
  BY RelativeRecord
<1>2. Relative(d, s) = TriggerRecord(yes, d, s, ZeroTime)
  BY RelativeRecord
<1> HIDE DEF yes
<1>3. WithRelated(TriggerRecord(yes, d, r, ZeroTime), s) = TriggerRecord(yes, d, s, ZeroTime)
  BY TriggerRecordExcept
<1> QED
  BY <1>1, <1>2, <1>3, Zenon

LEMMA OffsetIs ==
  ASSUME NEW d, NEW r, NEW e
  PROVE  WithOffset(Relative(d, r), e) = Relative(e, r)
<1> DEFINE yes == TRUE
<1>1. Relative(d, r) = TriggerRecord(yes, d, r, ZeroTime)
  BY RelativeRecord
<1>2. Relative(e, r) = TriggerRecord(yes, e, r, ZeroTime)
  BY RelativeRecord
<1> HIDE DEF yes
<1>3. WithOffset(TriggerRecord(yes, d, r, ZeroTime), e) = TriggerRecord(yes, e, r, ZeroTime)
  BY TriggerRecordExcept
<1> QED
  BY <1>1, <1>2, <1>3, Zenon

LEMMA AbsoluteIs ==
  ASSUME NEW t
  PROVE  Absolute(t).relative = FALSE /\ Absolute(t).offset = Zero /\ Absolute(t).at = t
BY DEF Absolute

LEMMA TriggerValueIs ==
  ASSUME NEW p, TypedValue(p.value), NEW tr \in TriggerValue(p)
  PROVE  \/ \E d : Length(d) /\ tr = Relative(d, "START")
         \/ \E t : tr = Absolute(t)
<1>1. \/ IsDuration(p.value) /\ tr = Relative(ParseDuration(p.value[2]), "START")
      \/ \E t : tr = Absolute(t)
  BY DEF TriggerValue
<1>2. CASE IsDuration(p.value) /\ tr = Relative(ParseDuration(p.value[2]), "START")
  <2>1. p.value = <<p.value[1], p.value[2]>> /\ p.value[1] = "duration"
    BY <1>2 DEF TypedValue, IsDuration
  <2>2. TypedValue(<<"duration", p.value[2]>>) /\ WellFormedDuration(p.value[2])
    BY <1>2, <2>1 DEF IsDuration
  <2>3. Length(ParseDuration(p.value[2]))
    BY <2>2, ParsedIsLength
  <2> QED
    BY <1>2, <2>3
<1> QED
  BY <1>1, <1>2

LEMMA ParseTriggerIs ==
  ASSUME NEW p, TypedValue(p.value), NEW tr \in ParseTrigger(p)
  PROVE  Trigger(tr)
<1>1. \/ tr \in TriggerValue(p)
      \/ \E r \in {"START", "END"}, v \in TriggerValue(p) :
           v.relative /\ tr = [v EXCEPT !.related = r]
  BY DEF ParseTrigger
<1>2. CASE tr \in TriggerValue(p)
  <2>1. \/ \E d : Length(d) /\ tr = Relative(d, "START")
        \/ \E t : tr = Absolute(t)
    BY <1>2, TriggerValueIs
  <2> QED
    BY <2>1 DEF Trigger
<1>3. CASE \E r \in {"START", "END"}, v \in TriggerValue(p) :
             v.relative /\ tr = [v EXCEPT !.related = r]
  <2>1. PICK r \in {"START", "END"}, v \in TriggerValue(p) :
          v.relative /\ tr = [v EXCEPT !.related = r]
    BY <1>3
  <2>2. \/ \E d : Length(d) /\ v = Relative(d, "START")
        \/ \E t : v = Absolute(t)
    BY TriggerValueIs
  <2>3. PICK d : Length(d) /\ v = Relative(d, "START")
    BY <2>1, <2>2, AbsoluteIs
  <2>4. tr = Relative(d, r)
    <3>1. tr = WithRelated(v, r)
      BY <2>1 DEF WithRelated
    <3>2. WithRelated(Relative(d, "START"), r) = Relative(d, r)
      BY RelatedIs
    <3> QED
      BY <2>3, <3>1, <3>2, Zenon
  <2> QED
    BY <2>3, <2>4 DEF Trigger
<1> QED
  BY <1>1, <1>2, <1>3

LEMMA ReadLength ==
  ASSUME NEW d, Length(d)
  PROVE  /\ IsDuration(<<"duration", DurationString(d)>>)
         /\ ParseDuration(DurationString(d)) = Unsigned(d)
         /\ ParseTime(<<"duration", DurationString(d)>>) = {}
<1>1. ReadBack(d)
  BY DurationReadBack
<1> DEFINE value == <<"duration", DurationString(d)>>
<1>2. value[1] = "duration" /\ value[2] = DurationString(d)
  OBVIOUS
<1> HIDE DEF value
<1>3. IsDuration(value) /\ ParseTime(value) = {}
  BY <1>1, <1>2 DEF IsDuration, ParseTime, ReadBack
<1> QED
  BY <1>1, <1>3 DEF value, ReadBack

LEMMA WrittenUnsigned ==
  ASSUME NEW d, Length(d)
  PROVE  DurationString(Unsigned(d)) = DurationString(d)
<1> DEFINE u == Unsigned(d)
<1>1. /\ u.negative = (d.negative /\ ~IsZero(d)) /\ u.weeks = d.weeks /\ u.days = d.days
      /\ u.hours = d.hours /\ u.minutes = d.minutes /\ u.seconds = d.seconds
      /\ u.dayForm = d.dayForm
  BY UnsignedIs
<1> HIDE DEF u
<1>2. IsZero(u) <=> IsZero(d)
  BY <1>1 DEF IsZero
<1>3. (u.negative /\ ~IsZero(u)) <=> (d.negative /\ ~IsZero(d))
  BY <1>1, <1>2
<1>4. DurationString(u) = DurationString(d)
  BY <1>1, <1>2, <1>3, DurationStringIs
<1> QED
  BY <1>4 DEF u

LEMMA TriggerPropertyOfRelative ==
  ASSUME NEW d, NEW r
  PROVE  TriggerProperty(Relative(d, r)) =
           Property("TRIGGER", IF r = "END" THEN <<Param("RELATED", "END")>> ELSE <<>>,
                    <<"duration", DurationString(d)>>)
<1> DEFINE tr == Relative(d, r)
<1>1. tr.relative = TRUE /\ tr.offset = d /\ tr.related = r
  BY RelativeIs
<1>2. SUFFICES TriggerProperty(tr) =
                 Property("TRIGGER", IF r = "END" THEN <<Param("RELATED", "END")>> ELSE <<>>,
                          <<"duration", DurationString(d)>>)
  OBVIOUS
<1> HIDE DEF tr
<1> QED
  BY <1>1, Zenon DEF TriggerProperty

LEMMA TriggerPropertyOfAbsolute ==
  ASSUME NEW t
  PROVE  TriggerProperty(Absolute(t)) =
           Property("TRIGGER", <<Param("VALUE", "DATE-TIME")>>, <<"utc", t>>)
BY AbsoluteIs DEF TriggerProperty

LEMMA PropertyIs ==
  ASSUME NEW name, NEW params, NEW value
  PROVE  /\ Property(name, params, value).name = name
         /\ Property(name, params, value).params = params
         /\ Property(name, params, value).value = value
BY DEF Property

LEMMA RelativeReadBack ==
  ASSUME NEW d, Length(d), NEW r \in {"START", "END"}
  PROVE  ParseTrigger(TriggerProperty(Relative(d, r))) = {Relative(Unsigned(d), r)}
<1> DEFINE p == TriggerProperty(Relative(d, r))
           value == <<"duration", DurationString(d)>>
           u == Unsigned(d)
           params == IF r = "END" THEN <<Param("RELATED", "END")>> ELSE <<>>
<1>1. /\ p.value = value
      /\ r = "END" => p.params = <<Param("RELATED", "END")>>
      /\ r # "END" => p.params = <<>>
  <2>1. p = Property("TRIGGER", params, value)
    BY TriggerPropertyOfRelative
  <2>2. /\ r = "END" => params = <<Param("RELATED", "END")>>
        /\ r # "END" => params = <<>>
    OBVIOUS
  <2>3. SUFFICES p.value = value /\ p.params = params
    BY <2>2
  <2> HIDE DEF p, params, value
  <2> QED
    BY <2>1, PropertyIs
<1>2. IsDuration(value) /\ ParseDuration(value[2]) = u /\ ParseTime(value) = {}
  <2>1. value[2] = DurationString(d)
    OBVIOUS
  <2> QED
    BY <2>1, ReadLength
<1>3. SUFFICES ParseTrigger(p) = {Relative(u, r)}
  OBVIOUS
<1> HIDE DEF p, value, u, params
<1>4. /\ ToUpper("RELATED") = "RELATED" /\ ToUpper("END") = "END"
      /\ "RELATED" # "VALUE"
  BY KeywordsAreCapitals DEF Keywords
<1>5. /\ ParamValue(p, "VALUE") = {}
      /\ r = "END" => ParamValue(p, "RELATED") = {"END"}
      /\ r # "END" => ParamValue(p, "RELATED") = {}
  <2>1. CASE r = "END"
    BY <1>1, <1>4, <2>1, OneParam
  <2>2. CASE r # "END"
    BY <1>1, <2>2, NoParam
  <2> QED
    BY <2>1, <2>2
<1>6. TriggerValue(p) = {Relative(u, "START")}
  BY <1>1, <1>2, <1>5 DEF TriggerValue
<1>7. CASE r = "START"
  BY <1>5, <1>6, <1>7 DEF ParseTrigger
<1>8. CASE r = "END"
  <2>1. {ToUpper(v) : v \in ParamValue(p, "RELATED")} = {"END"}
    BY <1>4, <1>5, <1>8
  <2>2. Relative(u, "START").relative = TRUE
    BY RelativeIs
  <2> DEFINE tr == Relative(u, "START")
  <2>3. ParseTrigger(p) = {[tr EXCEPT !.related = "END"]}
    BY <1>6, <2>1, <2>2 DEF ParseTrigger
  <2>4. [tr EXCEPT !.related = "END"] = WithRelated(tr, "END")
    BY DEF WithRelated
  <2>5. WithRelated(tr, "END") = Relative(u, "END")
    BY RelatedIs
  <2> QED
    BY <1>8, <2>3, <2>4, <2>5, Zenon
<1> QED
  BY <1>7, <1>8

LEMMA AbsoluteReadBack ==
  ASSUME NEW t
  PROVE  ParseTrigger(TriggerProperty(Absolute(t))) = {Absolute(t)}
<1> DEFINE p == TriggerProperty(Absolute(t))
           value == <<"utc", t>>
           params == <<Param("VALUE", "DATE-TIME")>>
<1>1. p.value = value /\ p.params = <<Param("VALUE", "DATE-TIME")>>
  <2>1. p = Property("TRIGGER", params, value)
    BY TriggerPropertyOfAbsolute
  <2>2. SUFFICES p.value = value /\ p.params = params
    OBVIOUS
  <2> HIDE DEF p, params, value
  <2> QED
    BY <2>1, PropertyIs
<1>2. ~IsDuration(value) /\ ParseTime(value) = {t}
  BY DEF IsDuration, ParseTime
<1>3. SUFFICES ParseTrigger(p) = {Absolute(t)}
  OBVIOUS
<1> HIDE DEF p, value, params
<1>4. /\ ToUpper("VALUE") = "VALUE" /\ ToUpper("DATE-TIME") = "DATE-TIME"
      /\ "RELATED" # "VALUE"
  BY KeywordsAreCapitals DEF Keywords
<1>5. ParamValue(p, "VALUE") = {"DATE-TIME"} /\ ParamValue(p, "RELATED") = {}
  BY <1>1, <1>4, OneParam
<1>6. {ToUpper(v) : v \in ParamValue(p, "VALUE")} = {"DATE-TIME"}
  BY <1>4, <1>5
<1>7. TriggerValue(p) = {Absolute(t)}
  BY <1>1, <1>2, <1>6 DEF TriggerValue
<1> QED
  BY <1>5, <1>7 DEF ParseTrigger

\* What TriggersRoundTrip says of one trigger.
TriggerKept(tr) ==
  /\ ParseTrigger(TriggerProperty(tr)) =
       {[tr EXCEPT !.offset.negative = @ /\ ~IsZero(tr.offset)]}
  /\ \A again \in ParseTrigger(TriggerProperty(tr)) :
       TriggerProperty(again) = TriggerProperty(tr)
  /\ LET clock == FromSigned(Signed(tr.offset))
     IN  Signed(clock) = Signed(tr.offset)
           /\ ParseDuration(DurationString(clock)) = clock

LEMMA UnsignedOffset ==
  ASSUME NEW tr
  PROVE  [tr EXCEPT !.offset.negative = @ /\ ~IsZero(tr.offset)] =
           WithOffset(tr, Unsigned(tr.offset))
BY DEF WithOffset, Unsigned

LEMMA ClockKept ==
  ASSUME NEW d, Length(d)
  PROVE  /\ Signed(FromSigned(Signed(d))) = Signed(d)
         /\ ParseDuration(DurationString(FromSigned(Signed(d)))) = FromSigned(Signed(d))
<1> DEFINE n == Signed(d)
<1>1. n \in Int
  BY SignedTyped
<1> HIDE DEF n
<1>2. /\ Length(FromSigned(n)) /\ Signed(FromSigned(n)) = n
      /\ Unsigned(FromSigned(n)) = FromSigned(n)
  BY <1>1, FromSignedIs
<1>3. ParseDuration(DurationString(FromSigned(n))) = Unsigned(FromSigned(n))
  BY <1>2, ReadLength
<1>4. Signed(FromSigned(n)) = n /\ ParseDuration(DurationString(FromSigned(n))) = FromSigned(n)
  BY <1>2, <1>3
<1> QED
  BY <1>4 DEF n

LEMMA ZeroIs == Length(Zero) /\ IsZero(Zero) /\ Zero.negative = FALSE
BY DEF Length, IsZero, Zero

LEMMA AbsoluteRecord ==
  ASSUME NEW t
  PROVE  Absolute(t) = TriggerRecord(FALSE, Zero, "START", t)
BY DEF Absolute, TriggerRecord

LEMMA TriggerIsKept ==
  ASSUME NEW tr, Trigger(tr)
  PROVE  TriggerKept(tr)
<1>1. CASE \E d, r : Length(d) /\ r \in {"START", "END"} /\ tr = Relative(d, r)
  <2>1. PICK d, r : Length(d) /\ r \in {"START", "END"} /\ tr = Relative(d, r)
    BY <1>1
  <2>2. tr.offset = d
    BY <2>1, RelativeIs
  <2>3. ParseTrigger(TriggerProperty(tr)) = {Relative(Unsigned(d), r)}
    <3>1. ParseTrigger(TriggerProperty(Relative(d, r))) = {Relative(Unsigned(d), r)}
      BY <2>1, RelativeReadBack
    <3> QED
      BY <2>1, <3>1
  <2>4. [tr EXCEPT !.offset.negative = @ /\ ~IsZero(tr.offset)] = Relative(Unsigned(d), r)
    <3>1. [tr EXCEPT !.offset.negative = @ /\ ~IsZero(tr.offset)] =
            WithOffset(tr, Unsigned(tr.offset))
      BY UnsignedOffset
    <3>2. WithOffset(Relative(d, r), Unsigned(d)) = Relative(Unsigned(d), r)
      BY OffsetIs
    <3>3. WithOffset(tr, Unsigned(tr.offset)) = WithOffset(Relative(d, r), Unsigned(d))
      BY <2>1, <2>2, Zenon
    <3> QED
      BY <3>1, <3>2, <3>3, Zenon
  <2>5. TriggerProperty(Relative(Unsigned(d), r)) = TriggerProperty(Relative(d, r))
    <3>1. DurationString(Unsigned(d)) = DurationString(d)
      BY <2>1, WrittenUnsigned
    <3> QED
      BY <3>1, TriggerPropertyOfRelative
  <2>6. /\ Signed(FromSigned(Signed(d))) = Signed(d)
        /\ ParseDuration(DurationString(FromSigned(Signed(d)))) = FromSigned(Signed(d))
    BY <2>1, ClockKept
  <2>7. ParseTrigger(TriggerProperty(tr)) =
          {[tr EXCEPT !.offset.negative = @ /\ ~IsZero(tr.offset)]}
    BY <2>3, <2>4, Zenon
  <2>8. \A again \in ParseTrigger(TriggerProperty(tr)) :
          TriggerProperty(again) = TriggerProperty(tr)
    <3>1. TriggerProperty(tr) = TriggerProperty(Relative(d, r))
      BY <2>1
    <3> QED
      BY <2>3, <2>5, <3>1
  <2>9. LET clock == FromSigned(Signed(tr.offset))
        IN  Signed(clock) = Signed(tr.offset)
              /\ ParseDuration(DurationString(clock)) = clock
    BY <2>2, <2>6
  <2> QED
    BY <2>7, <2>8, <2>9 DEF TriggerKept
<1>2. CASE \E t : tr = Absolute(t)
  <2>1. PICK t : tr = Absolute(t)
    BY <1>2
  <2>2. tr.offset = Zero
    BY <2>1, AbsoluteIs
  <2>3. ParseTrigger(TriggerProperty(tr)) = {tr}
    BY <2>1, AbsoluteReadBack
  <2>4. [tr EXCEPT !.offset.negative = @ /\ ~IsZero(tr.offset)] = tr
    <3>1. [tr EXCEPT !.offset.negative = @ /\ ~IsZero(tr.offset)] =
            WithOffset(tr, Unsigned(tr.offset))
      BY UnsignedOffset
    <3>2. Unsigned(Zero) = Zero
      <4>1. /\ Zero.weeks = 0 /\ Zero.days = 0 /\ Zero.hours = 0 /\ Zero.minutes = 0
            /\ Zero.seconds = 0 /\ Zero.dayForm = FALSE
        BY DEF Zero
      <4>2. (Zero.negative /\ ~IsZero(Zero)) = FALSE
        BY ZeroIs
      <4>3. Unsigned(Zero) =
              [negative |-> Zero.negative /\ ~IsZero(Zero), weeks |-> Zero.weeks,
               days |-> Zero.days, hours |-> Zero.hours, minutes |-> Zero.minutes,
               seconds |-> Zero.seconds, dayForm |-> Zero.dayForm]
        BY ZeroIs, UnsignedIs
      <4> QED
        BY <4>1, <4>2, <4>3 DEF Zero
    <3> DEFINE no == FALSE
    <3>3. tr = TriggerRecord(no, Zero, "START", t)
      BY <2>1, AbsoluteRecord
    <3> HIDE DEF no
    <3>4. WithOffset(TriggerRecord(no, Zero, "START", t), Zero) =
            TriggerRecord(no, Zero, "START", t)
      BY TriggerRecordExcept
    <3>5. WithOffset(tr, Unsigned(tr.offset)) = WithOffset(tr, Zero)
      BY <2>2, <3>2, Zenon
    <3>6. WithOffset(tr, Zero) = tr
      BY <3>3, <3>4, Zenon
    <3> QED
      BY <3>1, <3>5, <3>6, Zenon
  <2>5. ParseTrigger(TriggerProperty(tr)) =
          {[tr EXCEPT !.offset.negative = @ /\ ~IsZero(tr.offset)]}
    BY <2>3, <2>4, Zenon
  <2>6. LET clock == FromSigned(Signed(tr.offset))
        IN  Signed(clock) = Signed(tr.offset)
              /\ ParseDuration(DurationString(clock)) = clock
    BY <2>2, ZeroIs, ClockKept
  <2> QED
    BY <2>3, <2>5, <2>6 DEF TriggerKept
<1> QED
  BY <1>1, <1>2 DEF Trigger

\* What a name finds in a component is one of its properties.
LEMMA GetIsTyped ==
  ASSUME NEW c, TypedNested(c), NEW name
  PROVE  Get(c, name) \subseteq Range(c.props) /\ \A p \in Get(c, name) : TypedProperty(p)
<1>1. IsSeq(c.props) /\ \A p \in Range(c.props) : TypedProperty(p)
  BY TypedPropsIs DEF TypedNested
<1>2. First(Named(c.props, name)) \subseteq {x \in Range(c.props) : ToUpper(x.name) = name}
  BY <1>1, NamedIs
<1> QED
  BY <1>1, <1>2 DEF Get, GetAll

LEMMA TypedRoundTrip ==
  ASSUME TypeOK
  PROVE  TriggersRoundTrip
<1>1. DocumentTyped(doc)
  BY TypeOKIs
<1>2. ASSUME NEW i \in DOMAIN doc, NEW j \in DOMAIN doc[i].sub,
             NEW p \in Get(doc[i].sub[j], "TRIGGER"), NEW tr \in ParseTrigger(p)
      PROVE  TriggerKept(tr)
  <2>1. TypedNested(doc[i].sub[j])
    BY <1>1, DocumentSub
  <2>2. TypedProperty(p)
    BY <2>1, GetIsTyped
  <2>3. TypedValue(p.value)
    BY <2>2, TypedPropertyIs
  <2> QED
    BY <2>3, ParseTriggerIs, TriggerIsKept
<1> QED
  BY <1>2 DEF TriggersRoundTrip, TriggerKept

\* Whatever edits made a document, a trigger of one of its alarms is read back
\* from what TriggerProperty writes for it, but for the sign of a length of
\* nothing, is written again the same, and its length in seconds survives
\* FromSigned and DurationString.
THEOREM TriggersAreReadBack == Spec => []TriggersRoundTrip
<1>1. TypeOK => TriggersRoundTrip
  BY TypedRoundTrip
<1> QED
  BY <1>1, TypeCorrect, PTL

-----------------------------------------------------------------------------
(* Lists of times and recurrence identifiers are read back. *)

Instant(v) == v[1] = "utc" /\ v[2] \in Int

\* What ParseDateTimeList reads is a finite set of instants that is not empty.
LEMMA TimesAre ==
  ASSUME NEW s, IsSeq(s), s # <<>>, \A v \in Range(s) : Instant(v)
  PROVE  /\ Times(s) = {v[2] : v \in Range(s)}
         /\ Times(s) # {} /\ Times(s) \subseteq Int /\ IsFiniteSet(Times(s))
<1>1. \A v \in Range(s) : ParseTime(v) = {v[2]}
  BY DEF Instant, ParseTime
<1>2. Times(s) = {v[2] : v \in Range(s)}
  BY <1>1, ToSetIs DEF Times
<1>3. Len(s) \in Nat /\ DOMAIN s = 1..Len(s) /\ Len(s) # 0
  BY IsSeqProperties
<1>4. 1 \in DOMAIN s /\ s[1] \in Range(s)
  BY <1>3 DEF Range
<1>5. Times(s) # {} /\ Times(s) \subseteq Int
  BY <1>2, <1>4 DEF Instant
<1>6. IsFiniteSet(DOMAIN s)
  BY PlacesFinite
<1>7. Times(s) = {s[i][2] : i \in DOMAIN s}
  BY <1>2 DEF Range
<1>8. IsFiniteSet({s[i][2] : i \in DOMAIN s})
  <2> DEFINE f == [i \in DOMAIN s |-> s[i][2]]
             T == {s[i][2] : i \in DOMAIN s}
  <2>1. f \in Surjection(DOMAIN s, T)
    BY DEF Surjection
  <2> HIDE DEF f, T
  <2>2. IsFiniteSet(T)
    BY <1>6, <2>1, FS_Surjection
  <2> QED
    BY <2>2 DEF T
<1> QED
  BY <1>2, <1>5, <1>7, <1>8

LEMMA ListReadBack ==
  ASSUME NEW times, IsFiniteSet(times), times \subseteq Int, times # {}
  PROVE  ParseDateTimeList(FormatDateTimeList(times)) = {times}
<1> DEFINE sorted == Ascending(times)
           n == Cardinality(times)
           list == [i \in DOMAIN sorted |-> <<"utc", sorted[i]>>]
           value == <<"times", list>>
<1>1. Lists(sorted, times)
  BY AscendingLists
<1>2. n \in Nat /\ n # 0
  BY FS_CardinalityType, FS_EmptySet
<1>3. DOMAIN sorted = 1..n /\ times = {sorted[k] : k \in 1..n}
  <2> HIDE DEF sorted, n
  <2> QED
    BY <1>1 DEF Lists, n
<1> HIDE DEF sorted, n
<1>4. IsSeq(list) /\ Len(list) = n
  <2>1. list \in [1..n -> {<<"utc", t>> : t \in times}]
    BY <1>3
  <2> HIDE DEF list
  <2> QED
    BY <1>2, <2>1, IsSeqFunction
<1>5. Range(list) = {<<"utc", t>> : t \in times}
  BY <1>3 DEF Range
<1> HIDE DEF list
<1>6. list # <<>>
  BY <1>2, <1>4, IsSeqProperties
<1>7. \A v \in Range(list) : Instant(v)
  BY <1>5 DEF Instant
<1>8. Times(list) = times
  <2>1. Times(list) = {v[2] : v \in Range(list)}
    BY <1>4, <1>6, <1>7, TimesAre
  <2> DEFINE pair(t) == <<"utc", t>>
  <2>2. \A t : pair(t)[2] = t
    OBVIOUS
  <2>3. Range(list) = {pair(t) : t \in times}
    BY <1>5
  <2> HIDE DEF pair
  <2>4. ASSUME NEW x
        PROVE  x \in {v[2] : v \in Range(list)} <=> x \in times
    <3>1. ASSUME NEW v \in Range(list), x = v[2]
          PROVE  x \in times
      BY <2>2, <2>3, <3>1
    <3>2. ASSUME x \in times
          PROVE  \E v \in Range(list) : x = v[2]
      <4>1. pair(x) \in Range(list) /\ x = pair(x)[2]
        BY <2>2, <2>3, <3>2
      <4> QED
        BY <4>1
    <3> QED
      BY <3>1, <3>2
  <2> QED
    BY <2>1, <2>4
<1>9. \A v \in ToSet(list) : Readable(v)
  BY <1>7, ToSetIs DEF Readable, Instant, ParseTime
<1>10. value[1] = "times" /\ value[2] = list
  OBVIOUS
<1>11. FormatDateTimeList(times) = value
  BY DEF FormatDateTimeList, value, list, sorted
<1> HIDE DEF value
<1> QED
  BY <1>6, <1>8, <1>9, <1>10, <1>11 DEF ParseDateTimeList

LEMMA DateListsKept ==
  ASSUME NEW p, TypedValue(p.value), NEW times \in ParseDateListProperty(p)
  PROVE  ParseDateTimeList(FormatDateTimeList(times)) = {times}
<1> DEFINE s == p.value[2]
<1>1. p.value[1] = "times" /\ s # <<>> /\ (\A v \in ToSet(s) : Readable(v)) /\ times = Times(s)
  BY DEF ParseDateListProperty, ParseDateTimeList
<1>2. IsSeq(s) /\ \A v \in Range(s) : v[1] = "utc" => v[2] \in Int
  BY <1>1, IsSequenceIs DEF TypedValue
<1> HIDE DEF s
<1>3. \A v \in Range(s) : Instant(v)
  BY <1>1, <1>2, ToSetIs DEF Readable, ParseTime, Instant
<1>4. Times(s) # {} /\ Times(s) \subseteq Int /\ IsFiniteSet(Times(s))
  BY <1>1, <1>2, <1>3, TimesAre
<1> QED
  BY <1>1, <1>4, ListReadBack

Identifier(t, future) == [time |-> t, future |-> future]

LEMMA IdentifierKept ==
  ASSUME NEW p, NEW id \in ParseRecurrenceID(p)
  PROVE  ParseRecurrenceID(RecurrenceIDProperty(id)) = {id}
<1>1. PICK t : id = Identifier(t, \E q \in ToSet(p.params) : RangeParam(q))
  BY DEF ParseRecurrenceID, Identifier
<1> DEFINE b == \E q \in ToSet(p.params) : RangeParam(q)
<1>2. PICK future \in BOOLEAN : id = Identifier(t, future)
  <2>1. b \in BOOLEAN /\ id = Identifier(t, b)
    BY <1>1
  <2> HIDE DEF b
  <2> QED
    BY <2>1
<1> DEFINE w == RecurrenceIDProperty(id)
           value == <<"utc", t>>
           range == Param("RANGE", "THISANDFUTURE")
<1>3. id.time = t /\ id.future = future
  BY <1>2 DEF Identifier
<1>4. /\ w.name = "RECURRENCE-ID" /\ w.value = value
      /\ future => w.params = <<range>>
      /\ ~future => w.params = <<>>
  <2> DEFINE params == IF id.future THEN <<range>> ELSE <<>>
  <2>1. w = Property("RECURRENCE-ID", params, value)
    BY <1>3, Zenon DEF RecurrenceIDProperty
  <2>2. /\ future => params = <<range>>
        /\ ~future => params = <<>>
    BY <1>3
  <2> HIDE DEF w, value, params, range
  <2> QED
    BY <2>1, <2>2, PropertyIs
<1>5. ParseTime(value) = {t}
  BY DEF ParseTime
<1>6. /\ range.name = "RANGE" /\ range.value = "THISANDFUTURE"
      /\ ToUpper("RANGE") = "RANGE" /\ ToUpper("THISANDFUTURE") = "THISANDFUTURE"
      /\ ToUpper("RECURRENCE-ID") = "RECURRENCE-ID"
  BY KeywordsAreCapitals DEF Keywords, Param
<1>7. SUFFICES ParseRecurrenceID(w) = {id}
  OBVIOUS
<1> HIDE DEF w, value, range
<1>8. /\ future => ToSet(w.params) = {range}
      /\ ~future => ToSet(w.params) = {}
  <2>1. ToSet(<<range>>) = {range} /\ ToSet(<<>>) = {}
    BY DEF ToSet
  <2> QED
    BY <1>4, <2>1
<1>9. RangeParam(range) /\ ToUpper(range.value) = "THISANDFUTURE"
        /\ ToUpper(range.name) = "RANGE"
  BY <1>6 DEF RangeParam
<1>10. PlainDateTimes(w)
  BY <1>8, <1>9 DEF PlainDateTimes
<1>11. \A q \in ToSet(w.params) : RangeParam(q) => ToUpper(q.value) = "THISANDFUTURE"
  BY <1>8, <1>9
<1>12. (\E q \in ToSet(w.params) : RangeParam(q)) <=> future
  BY <1>8, <1>9
<1>13. ParseRecurrenceID(w) = {Identifier(x, \E q \in ToSet(w.params) : RangeParam(q)) : x \in {t}}
  BY <1>4, <1>5, <1>6, <1>10, <1>11 DEF ParseRecurrenceID, Identifier
<1>14. (\E q \in ToSet(w.params) : RangeParam(q)) = future
  BY <1>12
<1> QED
  BY <1>2, <1>13, <1>14, Zenon

-----------------------------------------------------------------------------
(* The parts of a rule. *)

Keys == DOMAIN FieldOf

FieldNames == DOMAIN Every("INVALID")

Lists8 == {"BYMONTH", "BYWEEKNO", "BYYEARDAY", "BYMONTHDAY", "BYHOUR", "BYMINUTE",
           "BYSECOND", "BYSETPOS"}

LEMMA KeysAre ==
  /\ Keys = Scalars \cup Lists8 \cup {"BYDAY"}
  /\ Scalars \cap (Lists8 \cup {"BYDAY"}) = {}
  /\ "RSCALE" \notin Keys
BY DEF Keys, FieldOf, Scalars, Lists8

LEMMA FieldsAre ==
  /\ FieldOf["FREQ"] = "freq" /\ FieldOf["INTERVAL"] = "interval"
  /\ FieldOf["UNTIL"] = "until" /\ FieldOf["COUNT"] = "count"
  /\ FieldOf["BYMONTH"] = "byMonth" /\ FieldOf["BYWEEKNO"] = "byWeekNo"
  /\ FieldOf["BYYEARDAY"] = "byYearDay" /\ FieldOf["BYMONTHDAY"] = "byMonthDay"
  /\ FieldOf["BYDAY"] = "byDay" /\ FieldOf["BYHOUR"] = "byHour"
  /\ FieldOf["BYMINUTE"] = "byMinute" /\ FieldOf["BYSECOND"] = "bySecond"
  /\ FieldOf["BYSETPOS"] = "bySetPos" /\ FieldOf["WKST"] = "wkst"
BY DEF FieldOf

LEMMA FieldNamesAre ==
  FieldNames = {"freq", "interval", "until", "count", "byDay", "byMonth", "byMonthDay",
                "byHour", "byMinute", "bySecond", "byYearDay", "byWeekNo", "bySetPos", "wkst"}
BY DEF FieldNames, Every

\* Every key has a field of its own, and every field a key.
LEMMA FieldsMatchKeys ==
  /\ \A a, b \in Keys : FieldOf[a] = FieldOf[b] => a = b
  /\ \A key \in Keys : FieldOf[key] \in FieldNames
  /\ \A field \in FieldNames : \E key \in Keys : FieldOf[key] = field
<1>1. \A a, b \in Keys : FieldOf[a] = FieldOf[b] => a = b
  BY KeysAre, FieldsAre DEF Scalars, Lists8
<1>2. \A key \in Keys : FieldOf[key] \in FieldNames
  BY KeysAre, FieldsAre, FieldNamesAre DEF Scalars, Lists8
<1>3. \A field \in FieldNames : \E key \in Keys : FieldOf[key] = field
  BY KeysAre, FieldsAre, FieldNamesAre DEF Scalars, Lists8
<1> QED
  BY <1>1, <1>2, <1>3

Default(key) == Every("INVALID")[FieldOf[key]]

LEMMA DefaultsAre ==
  /\ Default("FREQ") = "INVALID" /\ Default("INTERVAL") = 1 /\ Default("UNTIL") = ZeroTime
  /\ Default("COUNT") = 0 /\ Default("WKST") = 1
  /\ \A key \in Keys \ Scalars : Default(key) = <<>>
<1>1. /\ Default("FREQ") = "INVALID" /\ Default("INTERVAL") = 1 /\ Default("UNTIL") = ZeroTime
      /\ Default("COUNT") = 0 /\ Default("WKST") = 1
  BY FieldsAre DEF Default, Every
<1>2. /\ Default("BYMONTH") = <<>> /\ Default("BYWEEKNO") = <<>> /\ Default("BYYEARDAY") = <<>>
      /\ Default("BYMONTHDAY") = <<>> /\ Default("BYDAY") = <<>> /\ Default("BYHOUR") = <<>>
      /\ Default("BYMINUTE") = <<>> /\ Default("BYSECOND") = <<>> /\ Default("BYSETPOS") = <<>>
  BY FieldsAre DEF Default, Every
<1>3. Keys \ Scalars = Lists8 \cup {"BYDAY"}
  BY KeysAre
<1> QED
  BY <1>1, <1>2, <1>3 DEF Lists8

LEMMA WrittenIs ==
  /\ IsSeq(Written) /\ Range(Written) = Keys
  /\ \A j, k \in DOMAIN Written : Written[j] = Written[k] => j = k
<1>1. /\ Written \in Seq({"FREQ", "INTERVAL", "UNTIL", "COUNT", "BYMONTH", "BYWEEKNO",
                          "BYYEARDAY", "BYMONTHDAY", "BYDAY", "BYHOUR", "BYMINUTE",
                          "BYSECOND", "BYSETPOS", "WKST"})
      /\ Len(Written) = 14
  BY DEF Written
<1>2. /\ Written[1] = "FREQ" /\ Written[2] = "INTERVAL" /\ Written[3] = "UNTIL"
      /\ Written[4] = "COUNT" /\ Written[5] = "BYMONTH" /\ Written[6] = "BYWEEKNO"
      /\ Written[7] = "BYYEARDAY" /\ Written[8] = "BYMONTHDAY" /\ Written[9] = "BYDAY"
      /\ Written[10] = "BYHOUR" /\ Written[11] = "BYMINUTE" /\ Written[12] = "BYSECOND"
      /\ Written[13] = "BYSETPOS" /\ Written[14] = "WKST"
  BY DEF Written
<1>3. IsSeq(Written)
  BY <1>1, SeqIsSeq
<1>4. DOMAIN Written = 1..14
  BY <1>1, <1>3, IsSeqProperties
<1>5. \A k \in 1..14 : \/ k = 1 \/ k = 2 \/ k = 3 \/ k = 4 \/ k = 5 \/ k = 6 \/ k = 7
                       \/ k = 8 \/ k = 9 \/ k = 10 \/ k = 11 \/ k = 12 \/ k = 13 \/ k = 14
  OBVIOUS
<1>6. Range(Written) = Keys
  <2>1. ASSUME NEW k \in DOMAIN Written
        PROVE  Written[k] \in Keys
    BY <1>2, <1>4, <1>5, KeysAre DEF Scalars, Lists8
  <2>2. ASSUME NEW key \in Keys
        PROVE  \E k \in 1..14 : Written[k] = key
    BY <1>2, KeysAre DEF Scalars, Lists8
  <2> QED
    BY <1>4, <2>1, <2>2 DEF Range
<1>7. ASSUME NEW j \in DOMAIN Written, NEW k \in DOMAIN Written, Written[j] = Written[k]
      PROVE  j = k
  BY <1>2, <1>4, <1>5, <1>7
<1> QED
  BY <1>3, <1>6, <1>7

\* A wire that ParseRRule takes, but for what its parts say of each other.
Good(w) == w # <<>> /\ \A i \in DOMAIN w : PartError(w, i) = "none"

Taken(part) == ~Unsupported(part) /\ WellFormed(part)

LEMMA GoodIs ==
  ASSUME NEW w, IsSeq(w)
  PROVE  Good(w) <=>
           /\ w # <<>>
           /\ \A i \in DOMAIN w : Taken(w[i])
           /\ \A i, j \in DOMAIN w : Key(w[i]) = Key(w[j]) => i = j
<1>1. Len(w) \in Nat /\ DOMAIN w = 1..Len(w)
  BY IsSeqProperties
<1>2. \A i \in DOMAIN w : PartError(w, i) = "none" <=> ~Duplicate(w, i) /\ Taken(w[i])
  BY DEF PartError, Taken
<1>3. ASSUME \A i \in DOMAIN w : ~Duplicate(w, i),
             NEW i \in DOMAIN w, NEW j \in DOMAIN w, Key(w[i]) = Key(w[j])
      PROVE  i = j
  <2>1. i \in Int /\ j \in Int /\ 1 <= i /\ 1 <= j
    BY <1>1
  <2>2. CASE i < j
    <3>1. i \in 1..(j - 1)
      BY <2>1, <2>2
    <3>2. Duplicate(w, j)
      BY <1>3, <3>1 DEF Duplicate
    <3> QED
      BY <1>3, <3>2
  <2>3. CASE j < i
    <3>1. j \in 1..(i - 1)
      BY <2>1, <2>3
    <3>2. Duplicate(w, i)
      BY <1>3, <3>1 DEF Duplicate
    <3> QED
      BY <1>3, <3>2
  <2> QED
    BY <2>1, <2>2, <2>3
<1>4. ASSUME \A i, j \in DOMAIN w : Key(w[i]) = Key(w[j]) => i = j, NEW i \in DOMAIN w
      PROVE  ~Duplicate(w, i)
  <2>1. SUFFICES ASSUME NEW j \in 1..(i - 1), Key(w[j]) = Key(w[i])
                 PROVE  FALSE
    BY DEF Duplicate
  <2>2. i \in Int /\ j \in Int /\ j < i /\ j \in DOMAIN w
    BY <1>1
  <2>3. i = j
    BY <1>4, <2>1, <2>2
  <2> QED
    BY <2>2, <2>3
<1> QED
  BY <1>2, <1>3, <1>4 DEF Good

LEMMA LoopErrorIs ==
  ASSUME NEW w, IsSeq(w)
  PROVE  LoopError(w) = "none" <=> \A i \in DOMAIN w : PartError(w, i) = "none"
<1> DEFINE bad == {i \in DOMAIN w : PartError(w, i) # "none"}
<1>1. DOMAIN w = 1..Len(w) /\ Len(w) \in Nat
  BY IsSeqProperties
<1>2. bad \subseteq Nat
  BY <1>1
<1>3. LoopError(w) = IF bad = {} THEN "none" ELSE PartError(w, Min(bad))
  BY DEF LoopError
<1>4. bad = {} <=> \A i \in DOMAIN w : PartError(w, i) = "none"
  OBVIOUS
<1>5. \A i \in bad : PartError(w, i) # "none"
  OBVIOUS
<1> HIDE DEF bad
<1>6. CASE bad = {}
  BY <1>3, <1>4, <1>6
<1>7. CASE bad # {}
  <2>1. Min(bad) \in bad
    BY <1>2, <1>7, MinIs
  <2> QED
    BY <1>3, <1>4, <1>5, <1>7, <2>1
<1> QED
  BY <1>6, <1>7

\* What ParseRRule returns.
Rejected(e) == [error |-> e, rule |-> Every("INVALID")]

Result(r) == IF ValidAfterParse(r) THEN [error |-> "none", rule |-> r] ELSE Rejected("malformed")

LEMMA ParseIs ==
  ASSUME NEW w, IsSeq(w)
  PROVE  /\ Good(w) => ParseRRule(w) = Result(Applied(w))
         /\ ~Good(w) => ParseRRule(w).error # "none" /\ ParseRRule(w).rule = Every("INVALID")
<1> DEFINE none == <<>>
<1>1. Good(w) <=> w # none /\ LoopError(w) = "none"
  BY LoopErrorIs DEF Good
<1>2. ParseRRule(w) = IF w = none THEN Rejected("malformed")
                      ELSE IF LoopError(w) # "none" THEN Rejected(LoopError(w))
                      ELSE Result(Applied(w))
  BY Zenon DEF ParseRRule, Rejected, Result
<1> HIDE DEF none
<1>3. \A e : Rejected(e).error = e /\ Rejected(e).rule = Every("INVALID")
  BY DEF Rejected
<1>4. CASE w = none
  BY <1>1, <1>2, <1>3, <1>4
<1>5. CASE w # none /\ LoopError(w) # "none"
  BY <1>1, <1>2, <1>3, <1>5
<1>6. CASE w # none /\ LoopError(w) = "none"
  BY <1>1, <1>2, <1>6
<1> QED
  BY <1>4, <1>5, <1>6

LEMMA ResultIs ==
  ASSUME NEW r
  PROVE  Result(r).error = "none" => ValidAfterParse(r) /\ Result(r).rule = r
BY DEF Result, Rejected

\* A part of an accepted rule has one of the keys.
LEMMA TakenIs ==
  ASSUME NEW part, Taken(part)
  PROVE  Key(part) \in Keys /\ List(part) # <<>>
BY DEF Taken, WellFormed, Keys

Setters(w, field) == {i \in DOMAIN w : FieldOf[Key(w[i])] = field}

LEMMA AppliedAt ==
  ASSUME NEW w, NEW field \in FieldNames
  PROVE  Applied(w)[field] =
           IF Setters(w, field) = {} THEN Every("INVALID")[field]
           ELSE Stored(w[Max(Setters(w, field))])
BY DEF Applied, Setters, FieldNames

\* Each part of an accepted rule sets a field of its own, and fields that none
\* sets have their default.
LEMMA AppliedIs ==
  ASSUME NEW w, IsSeq(w), Good(w)
  PROVE  /\ DOMAIN Applied(w) = FieldNames
         /\ Applied(w) = [field \in FieldNames |-> Applied(w)[field]]
         /\ \A i \in DOMAIN w : Applied(w)[FieldOf[Key(w[i])]] = Stored(w[i])
         /\ \A key \in Keys : (\A i \in DOMAIN w : Key(w[i]) # key) =>
              Applied(w)[FieldOf[key]] = Default(key)
<1>1. /\ DOMAIN Applied(w) = FieldNames
      /\ Applied(w) = [field \in FieldNames |-> Applied(w)[field]]
  BY DEF Applied, FieldNames
<1>2. /\ \A i \in DOMAIN w : Taken(w[i])
      /\ \A i, j \in DOMAIN w : Key(w[i]) = Key(w[j]) => i = j
  BY GoodIs
<1>3. \A i \in DOMAIN w : Key(w[i]) \in Keys
  BY <1>2, TakenIs
<1>4. DOMAIN w = 1..Len(w) /\ Len(w) \in Nat
  BY IsSeqProperties
<1>5. ASSUME NEW i \in DOMAIN w
      PROVE  Applied(w)[FieldOf[Key(w[i])]] = Stored(w[i])
  <2> DEFINE field == FieldOf[Key(w[i])]
  <2>1. field \in FieldNames
    BY <1>3, FieldsMatchKeys
  <2>2. Setters(w, field) = {i}
    <3>1. i \in Setters(w, field)
      BY DEF Setters
    <3>2. ASSUME NEW j \in Setters(w, field)
          PROVE  j = i
      <4>1. j \in DOMAIN w /\ FieldOf[Key(w[j])] = FieldOf[Key(w[i])]
        BY <3>2 DEF Setters
      <4>2. Key(w[j]) = Key(w[i])
        BY <1>3, <4>1, FieldsMatchKeys
      <4> QED
        BY <1>2, <4>1, <4>2
    <3> QED
      BY <3>1, <3>2
  <2>3. Max({i}) = i
    <3>1. i \in Nat
      BY <1>4
    <3>2. {i} \in SUBSET Nat /\ i \in {i} /\ \A y \in {i} : y <= i
      BY <3>1
    <3> QED
      BY <3>2, MaxIs
  <2> HIDE DEF field
  <2>4. Applied(w)[field] = Stored(w[i])
    BY <2>1, <2>2, <2>3, AppliedAt
  <2> QED
    BY <2>4 DEF field
<1>6. ASSUME NEW key \in Keys, \A i \in DOMAIN w : Key(w[i]) # key
      PROVE  Applied(w)[FieldOf[key]] = Default(key)
  <2>1. FieldOf[key] \in FieldNames
    BY FieldsMatchKeys
  <2>2. Setters(w, FieldOf[key]) = {}
    BY <1>3, <1>6, FieldsMatchKeys DEF Setters
  <2> QED
    BY <2>1, <2>2, AppliedAt DEF Default
<1> QED
  BY <1>1, <1>5, <1>6

\* Rules with the same values behind each key are the same.
LEMMA RulesAgree ==
  ASSUME NEW r, DOMAIN r = FieldNames, r = [field \in FieldNames |-> r[field]],
         NEW q, DOMAIN q = FieldNames, q = [field \in FieldNames |-> q[field]],
         \A key \in Keys : r[FieldOf[key]] = q[FieldOf[key]]
  PROVE  r = q
<1>1. \A field \in FieldNames : r[field] = q[field]
  BY FieldsMatchKeys
<1> QED
  BY <1>1

LEMMA SameParts ==
  ASSUME NEW w, IsSeq(w), Good(w), NEW v, IsSeq(v), Good(v), Range(w) = Range(v)
  PROVE  Applied(w) = Applied(v)
<1>1. ASSUME NEW key \in Keys
      PROVE  Applied(w)[FieldOf[key]] = Applied(v)[FieldOf[key]]
  <2>1. CASE \E i \in DOMAIN w : Key(w[i]) = key
    <3>1. PICK i \in DOMAIN w : Key(w[i]) = key
      BY <2>1
    <3>2. w[i] \in Range(v)
      BY DEF Range
    <3>3. PICK j \in DOMAIN v : v[j] = w[i]
      BY <3>2 DEF Range
    <3>4. Applied(w)[FieldOf[Key(w[i])]] = Stored(w[i])
      BY AppliedIs
    <3>5. Applied(v)[FieldOf[Key(v[j])]] = Stored(v[j])
      BY AppliedIs
    <3> QED
      BY <3>1, <3>3, <3>4, <3>5
  <2>2. CASE \A i \in DOMAIN w : Key(w[i]) # key
    <3>1. \A j \in DOMAIN v : Key(v[j]) # key
      <4>1. \A x \in Range(w) : Key(x) # key
        BY <2>2 DEF Range
      <4> QED
        BY <4>1 DEF Range
    <3> QED
      BY <2>2, <3>1, AppliedIs
  <2> QED
    BY <2>1, <2>2
<1>2. /\ DOMAIN Applied(w) = FieldNames /\ DOMAIN Applied(v) = FieldNames
      /\ Applied(w) = [field \in FieldNames |-> Applied(w)[field]]
      /\ Applied(v) = [field \in FieldNames |-> Applied(v)[field]]
  BY AppliedIs
<1> DEFINE r == Applied(w)
           q == Applied(v)
<1>3. SUFFICES r = q
  OBVIOUS
<1> HIDE DEF r, q
<1>4. /\ DOMAIN r = FieldNames /\ DOMAIN q = FieldNames
      /\ r = [field \in FieldNames |-> r[field]]
      /\ q = [field \in FieldNames |-> q[field]]
  BY <1>2 DEF r, q
<1>5. \A key \in Keys : r[FieldOf[key]] = q[FieldOf[key]]
  BY <1>1 DEF r, q
<1> QED
  BY <1>4, <1>5, RulesAgree

-----------------------------------------------------------------------------
(* The order of the parts does not matter. *)

Other(i, k) == IF i = k THEN k + 1 ELSE IF i = k + 1 THEN k ELSE i

LEMMA SwappedAt ==
  ASSUME NEW w, IsSeq(w), NEW k \in 1..Len(w) - 1, NEW i \in DOMAIN w
  PROVE  /\ Other(i, k) \in DOMAIN w /\ Other(Other(i, k), k) = i
         /\ Swapped(w, k)[i] = w[Other(i, k)]
<1>1. DOMAIN w = 1..Len(w) /\ Len(w) \in Nat
  BY IsSeqProperties
<1>2. /\ Swapped(w, k)[k] = w[k + 1] /\ Swapped(w, k)[k + 1] = w[k]
      /\ \A j \in 1..Len(w) : j # k /\ j # k + 1 => Swapped(w, k)[j] = w[j]
  BY SwappedIs
<1>3. k \in Int /\ i \in Int /\ k # k + 1 /\ k \in 1..Len(w) /\ k + 1 \in 1..Len(w)
  BY <1>1
<1>4. /\ Other(i, k) \in DOMAIN w /\ Other(Other(i, k), k) = i
  BY <1>1, <1>3 DEF Other
<1>5. Swapped(w, k)[i] = w[Other(i, k)]
  BY <1>1, <1>2, <1>3 DEF Other
<1> QED
  BY <1>4, <1>5

LEMMA SwappedIsGood ==
  ASSUME NEW w, IsSeq(w), NEW k \in 1..Len(w) - 1
  PROVE  Good(Swapped(w, k)) <=> Good(w)
<1> DEFINE v == Swapped(w, k)
<1>1. IsSeq(v) /\ DOMAIN v = DOMAIN w /\ w # <<>> /\ v # <<>>
  <2>1. IsSeq(v) /\ Len(v) = Len(w)
    BY SwappedIs
  <2>2. Len(w) \in Nat /\ Len(w) # 0
    BY IsSeqProperties
  <2> HIDE DEF v
  <2> QED
    BY <2>1, <2>2, IsSeqProperties
<1>2. \A i \in DOMAIN w : Other(i, k) \in DOMAIN w /\ Other(Other(i, k), k) = i
  BY SwappedAt
<1>3. \A i \in DOMAIN w : v[i] = w[Other(i, k)]
  BY SwappedAt
<1>4. SUFFICES Good(v) <=> Good(w)
  OBVIOUS
<1> HIDE DEF v
<1>5. \A i \in DOMAIN w : w[i] = v[Other(i, k)]
  BY <1>2, <1>3
<1>6. ASSUME Good(w)
      PROVE  Good(v)
  <2>1. /\ \A i \in DOMAIN w : Taken(w[i])
        /\ \A i, j \in DOMAIN w : Key(w[i]) = Key(w[j]) => i = j
    BY <1>6, GoodIs
  <2>2. \A i \in DOMAIN v : Taken(v[i])
    BY <1>1, <1>2, <1>3, <2>1
  <2>3. ASSUME NEW i \in DOMAIN v, NEW j \in DOMAIN v, Key(v[i]) = Key(v[j])
        PROVE  i = j
    <3>1. Other(i, k) \in DOMAIN w /\ Other(j, k) \in DOMAIN w
      BY <1>1, <1>2
    <3>2. Key(w[Other(i, k)]) = Key(w[Other(j, k)])
      BY <1>1, <1>3, <2>3
    <3>3. Other(i, k) = Other(j, k)
      BY <2>1, <3>1, <3>2
    <3>4. Other(Other(i, k), k) = i /\ Other(Other(j, k), k) = j
      BY <1>1, <1>2
    <3> QED
      BY <3>3, <3>4
  <2> QED
    BY <1>1, <2>2, <2>3, GoodIs
<1>7. ASSUME Good(v)
      PROVE  Good(w)
  <2>1. /\ \A i \in DOMAIN v : Taken(v[i])
        /\ \A i, j \in DOMAIN v : Key(v[i]) = Key(v[j]) => i = j
    BY <1>1, <1>7, GoodIs
  <2>2. \A i \in DOMAIN w : Taken(w[i])
    BY <1>1, <1>2, <1>5, <2>1
  <2>3. ASSUME NEW i \in DOMAIN w, NEW j \in DOMAIN w, Key(w[i]) = Key(w[j])
        PROVE  i = j
    <3>1. Other(i, k) \in DOMAIN v /\ Other(j, k) \in DOMAIN v
      BY <1>1, <1>2
    <3>2. Key(v[Other(i, k)]) = Key(v[Other(j, k)])
      BY <1>5, <2>3
    <3>3. Other(i, k) = Other(j, k)
      BY <2>1, <3>1, <3>2
    <3>4. Other(Other(i, k), k) = i /\ Other(Other(j, k), k) = j
      BY <1>2
    <3> QED
      BY <3>3, <3>4
  <2> QED
    BY <1>1, <2>2, <2>3, GoodIs
<1> QED
  BY <1>6, <1>7

LEMMA SwappedKeepsRule ==
  ASSUME NEW w, IsSeq(w), NEW k \in 1..Len(w) - 1
  PROVE  ParseRRule(Swapped(w, k)).rule = ParseRRule(w).rule
<1> DEFINE v == Swapped(w, k)
<1>1. IsSeq(v) /\ Range(v) = Range(w) /\ (Good(v) <=> Good(w))
  BY SwappedIs, SwappedIsGood
<1>2. SUFFICES ParseRRule(v).rule = ParseRRule(w).rule
  OBVIOUS
<1> HIDE DEF v
<1>3. CASE Good(w)
  <2>1. Applied(v) = Applied(w)
    BY <1>1, <1>3, SameParts
  <2> QED
    BY <1>1, <1>3, <2>1, ParseIs
<1>4. CASE ~Good(w)
  BY <1>1, <1>4, ParseIs
<1> QED
  BY <1>3, <1>4

-----------------------------------------------------------------------------
(* A rule is read back from what String writes. *)

Unomitted(r) == {k \in DOMAIN Written : ~Omitted(r, Written[k])}

\* String writes one part for each key that is not omitted.
LEMMA StringIs ==
  ASSUME NEW r, r.freq # "INVALID"
  PROVE  /\ IsSeq(String(r)) /\ String(r) # <<>>
         /\ \A i \in DOMAIN String(r) : \E key \in Keys :
              ~Omitted(r, key) /\ String(r)[i] = PartOf(r, key)
         /\ \A key \in Keys : ~Omitted(r, key) =>
              \E i \in DOMAIN String(r) : String(r)[i] = PartOf(r, key)
         /\ \A i, j \in DOMAIN String(r) : Key(String(r)[i]) = Key(String(r)[j]) => i = j
<1> DEFINE I == Unomitted(r)
           keys == Picked(Written, I)
           v == [k \in DOMAIN keys |-> PartOf(r, keys[k])]
           n == Cardinality(I)
           at == Ascending(I)
<1>1. String(r) = v
  BY Zenon DEF String, Unomitted
<1>2. I \subseteq DOMAIN Written
  BY DEF Unomitted
<1>3. Picks(keys, Written, I)
  BY <1>2, WrittenIs, PickedIs
<1>4. /\ IsSeq(keys) /\ Len(keys) = n /\ Lists(at, I)
      /\ \A k \in 1..n : at[k] \in I /\ keys[k] = Written[at[k]]
      /\ Range(keys) = {Written[i] : i \in I}
  BY <1>3 DEF Picks
<1>5. n \in Nat /\ DOMAIN keys = 1..n
  BY <1>4, IsSeqProperties
<1>6. {Written[i] : i \in I} = {key \in Keys : ~Omitted(r, key)}
  BY WrittenIs DEF Unomitted, Range
<1>7. \A k, l \in 1..n : keys[k] = keys[l] => k = l
  <2>1. SUFFICES ASSUME NEW k \in 1..n, NEW l \in 1..n, keys[k] = keys[l]
                 PROVE  k = l
    OBVIOUS
  <2>2. at[k] = at[l]
    BY <1>2, <1>4, <2>1, WrittenIs
  <2>3. at[k] \in Nat
    <3>1. at[k] \in DOMAIN Written
      BY <1>2, <1>4
    <3> QED
      BY <3>1, WrittenIs, IsSeqProperties
  <2>4. \A a, b \in 1..n : a < b => at[a] < at[b]
    BY <1>4 DEF Lists
  <2>5. k \in Int /\ l \in Int
    OBVIOUS
  <2> HIDE DEF at, n, keys
  <2>6. CASE k < l
    BY <2>2, <2>3, <2>4, <2>6
  <2>7. CASE l < k
    BY <2>2, <2>3, <2>4, <2>7
  <2> QED
    BY <2>5, <2>6, <2>7
<1> HIDE DEF I, keys, n, at
<1>8. DOMAIN v = 1..n /\ \A k \in 1..n : v[k] = PartOf(r, keys[k])
  BY <1>5
<1>9. IsSeq(v) /\ Len(v) = n
  <2>1. v \in [1..n -> {PartOf(r, key) : key \in Keys}]
    <3>1. ASSUME NEW k \in 1..n
          PROVE  v[k] \in {PartOf(r, key) : key \in Keys}
      <4>1. keys[k] \in Keys
        BY <1>4, <1>5, <1>6, <3>1 DEF Range
      <4> QED
        BY <1>8, <4>1
    <3> QED
      BY <1>5, <3>1
  <2> HIDE DEF v
  <2> QED
    BY <1>5, <2>1, IsSeqFunction
<1> HIDE DEF v
<1>10. \A key : Key(PartOf(r, key)) = key
  BY DEF Key, PartOf, Part
<1>11. ASSUME NEW i \in 1..n
       PROVE  \E key \in Keys : ~Omitted(r, key) /\ v[i] = PartOf(r, key)
  <2>1. keys[i] \in Range(keys)
    BY <1>5 DEF Range
  <2>2. keys[i] \in Keys /\ ~Omitted(r, keys[i])
    BY <1>4, <1>6, <2>1
  <2> QED
    BY <1>8, <2>2
<1>12. ASSUME NEW key \in Keys, ~Omitted(r, key)
       PROVE  \E i \in 1..n : v[i] = PartOf(r, key)
  <2>1. key \in Range(keys)
    BY <1>4, <1>6, <1>12
  <2>2. PICK i \in 1..n : keys[i] = key
    BY <1>5, <2>1 DEF Range
  <2> QED
    BY <1>8, <2>2
<1>13. ASSUME NEW i \in 1..n, NEW j \in 1..n, Key(v[i]) = Key(v[j])
       PROVE  i = j
  <2>1. keys[i] = keys[j]
    BY <1>8, <1>10, <1>13
  <2> QED
    BY <1>7, <2>1
<1>14. v # <<>>
  <2>1. ~Omitted(r, "FREQ") /\ "FREQ" \in Keys
    BY KeysAre DEF Omitted, Scalars
  <2>2. PICK i \in 1..n : v[i] = PartOf(r, "FREQ")
    BY <1>12, <2>1
  <2>3. n # 0
    BY <1>5, <2>2
  <2> QED
    BY <1>9, <2>3, IsSeqProperties
<1> QED
  BY <1>1, <1>8, <1>9, <1>11, <1>12, <1>13, <1>14, Zenon

\* What is omitted is what a rule has without it.
LEMMA OmittedIs ==
  ASSUME NEW r, NEW key \in Keys, Omitted(r, key),
         key \in {"INTERVAL", "COUNT"} => r[FieldOf[key]] \in Nat,
         key = "INTERVAL" => r[FieldOf[key]] # 0
  PROVE  r[FieldOf[key]] = Default(key)
<1>1. CASE key = "FREQ"
  BY <1>1 DEF Omitted
<1>2. CASE key = "INTERVAL"
  <2>1. r.interval <= 1 /\ r.interval \in Nat /\ r.interval # 0
    BY <1>2, FieldsAre DEF Omitted
  <2>2. r.interval = 1
    BY <2>1
  <2> QED
    BY <1>2, <2>2, FieldsAre, DefaultsAre
<1>3. CASE key = "UNTIL"
  BY <1>3, FieldsAre, DefaultsAre DEF Omitted
<1>4. CASE key = "COUNT"
  <2>1. r.count <= 0 /\ r.count \in Nat
    BY <1>4, FieldsAre DEF Omitted
  <2>2. r.count = 0
    BY <2>1
  <2> QED
    BY <1>4, <2>2, FieldsAre, DefaultsAre
<1>5. CASE key = "WKST"
  BY <1>5, FieldsAre, DefaultsAre DEF Omitted
<1>6. CASE key \notin Scalars
  <2>1. r[FieldOf[key]] = <<>>
    BY <1>6 DEF Omitted, Scalars
  <2> QED
    BY <1>6, <2>1, DefaultsAre
<1> QED
  BY <1>1, <1>2, <1>3, <1>4, <1>5, <1>6 DEF Scalars

\* And what a rule has without it is omitted, but for FREQ.
LEMMA DefaultIsOmitted ==
  ASSUME NEW r, NEW key \in Keys, key # "FREQ", r[FieldOf[key]] = Default(key)
  PROVE  Omitted(r, key)
<1>1. CASE key = "INTERVAL"
  BY <1>1, FieldsAre, DefaultsAre DEF Omitted
<1>2. CASE key = "UNTIL"
  BY <1>2, FieldsAre, DefaultsAre DEF Omitted
<1>3. CASE key = "COUNT"
  BY <1>3, FieldsAre, DefaultsAre DEF Omitted
<1>4. CASE key = "WKST"
  BY <1>4, FieldsAre, DefaultsAre DEF Omitted
<1>5. CASE key \notin Scalars
  BY <1>5, DefaultsAre DEF Omitted, Scalars
<1> QED
  BY <1>1, <1>2, <1>3, <1>4, <1>5 DEF Scalars

LEMMA PartOfIs ==
  ASSUME NEW r, NEW key
  PROVE  /\ Key(PartOf(r, key)) = key
         /\ key \in Scalars => List(PartOf(r, key)) = <<r[FieldOf[key]]>>
         /\ key \notin Scalars => List(PartOf(r, key)) = r[FieldOf[key]]
BY DEF Key, List, PartOf, Part

\* The part that String writes for a part that was taken is taken, and sets
\* the same.
LEMMA WrittenPart ==
  ASSUME NEW r, NEW part, Taken(part), r[FieldOf[Key(part)]] = Stored(part)
  PROVE  /\ Taken(PartOf(r, Key(part)))
         /\ Stored(PartOf(r, Key(part))) = r[FieldOf[Key(part)]]
<1> DEFINE key == Key(part)
           list == List(part)
           x == r[FieldOf[key]]
           new == PartOf(r, key)
           one == <<x>>
<1>1. key \in Keys /\ list # <<>> /\ WellFormed(part) /\ ~Unsupported(part)
  BY TakenIs DEF Taken
<1>2. /\ Key(new) = key
      /\ key \in Scalars => List(new) = one
      /\ key \notin Scalars => List(new) = x
  BY PartOfIs
<1>3. /\ key \in Scalars => x = list[1]
      /\ key \notin Scalars => x = list
  BY DEF Stored
<1>4. one # <<>> /\ one[1] = x
  OBVIOUS
<1>5. SUFFICES Taken(new) /\ Stored(new) = x
  OBVIOUS
<1> HIDE DEF new, one, x, list
<1>6. Stored(new) = x
  BY <1>2, <1>4 DEF Stored
<1>7. WellFormed(new)
  <2>1. CASE key = "FREQ"
    <3>1. list[1] \in Frequencies
      BY <1>1, <2>1 DEF WellFormed, list
    <3> QED
      BY <1>1, <1>2, <1>3, <1>4, <2>1, <3>1 DEF WellFormed, Keys, Scalars
  <2>2. CASE key \in {"INTERVAL", "COUNT"}
    <3>1. list[1] \in Nat \ {0}
      BY <1>1, <2>2 DEF WellFormed, list
    <3> QED
      BY <1>1, <1>2, <1>3, <1>4, <2>2, <3>1 DEF WellFormed, Keys, Scalars
  <2>3. CASE key = "UNTIL"
    BY <1>1, <1>2, <1>3, <1>4, <2>3 DEF WellFormed, Keys, Scalars
  <2>4. CASE key = "WKST"
    <3>1. list[1] \in 0..6
      BY <1>1, <2>4 DEF WellFormed, list
    <3> QED
      BY <1>1, <1>2, <1>3, <1>4, <2>4, <3>1 DEF WellFormed, Keys, Scalars
  <2>5. CASE key \notin Scalars
    <3>1. List(new) = List(part) /\ Key(new) = Key(part)
      BY <1>2, <1>3, <2>5 DEF list
    <3> QED
      BY <1>1, <3>1 DEF WellFormed
  <2> QED
    BY <2>1, <2>2, <2>3, <2>4, <2>5 DEF Scalars
<1>8. ~Unsupported(new)
  <2>1. key # "RSCALE"
    BY <1>1, KeysAre
  <2>2. CASE key = "FREQ"
    <3>1. list[1] \in Frequencies
      BY <1>1, <2>2 DEF WellFormed, list
    <3>2. x # "SECONDLY"
      BY <1>3, <2>2, <3>1 DEF Frequencies, Scalars
    <3>3. one # <<"SECONDLY">>
      BY <1>4, <3>2
    <3>4. List(new) = one
      BY <1>2, <2>2 DEF Scalars
    <3> QED
      BY <1>2, <2>1, <3>3, <3>4 DEF Unsupported
  <2>3. CASE key # "FREQ"
    BY <1>2, <2>1, <2>3 DEF Unsupported
  <2> QED
    BY <2>2, <2>3
<1> QED
  BY <1>6, <1>7, <1>8 DEF Taken

\* The numbers behind INTERVAL and COUNT.
LEMMA CountsAre ==
  ASSUME NEW w, IsSeq(w), Good(w), NEW key \in {"INTERVAL", "COUNT"}
  PROVE  /\ Applied(w)[FieldOf[key]] \in Nat
         /\ key = "INTERVAL" => Applied(w)[FieldOf[key]] # 0
<1>1. key \in Keys /\ key \in Scalars
  BY KeysAre DEF Scalars
<1>2. CASE \E i \in DOMAIN w : Key(w[i]) = key
  <2>1. PICK i \in DOMAIN w : Key(w[i]) = key
    BY <1>2
  <2>2. Taken(w[i])
    BY GoodIs
  <2>3. List(w[i])[1] \in Nat \ {0}
    BY <2>1, <2>2 DEF Taken, WellFormed
  <2>4. Applied(w)[FieldOf[key]] = Stored(w[i])
    BY <2>1, AppliedIs
  <2>5. Stored(w[i]) = List(w[i])[1]
    BY <1>1, <2>1 DEF Stored
  <2> QED
    BY <2>3, <2>4, <2>5
<1>3. CASE \A i \in DOMAIN w : Key(w[i]) # key
  <2>1. Applied(w)[FieldOf[key]] = Default(key)
    BY <1>1, <1>3, AppliedIs
  <2> QED
    BY <2>1, DefaultsAre
<1> QED
  BY <1>2, <1>3

LEMMA RuleReadBack ==
  ASSUME NEW w, IsSeq(w), Good(w), Applied(w).freq # "INVALID"
  PROVE  Good(String(Applied(w))) /\ Applied(String(Applied(w))) = Applied(w)
<1> DEFINE r == Applied(w)
           v == String(r)
<1>1. /\ IsSeq(v) /\ v # <<>>
      /\ \A i \in DOMAIN v : \E key \in Keys : ~Omitted(r, key) /\ v[i] = PartOf(r, key)
      /\ \A key \in Keys : ~Omitted(r, key) => \E i \in DOMAIN v : v[i] = PartOf(r, key)
      /\ \A i, j \in DOMAIN v : Key(v[i]) = Key(v[j]) => i = j
  BY StringIs
<1>2. /\ DOMAIN r = FieldNames /\ r = [field \in FieldNames |-> r[field]]
      /\ \A i \in DOMAIN w : r[FieldOf[Key(w[i])]] = Stored(w[i])
      /\ \A key \in Keys : (\A i \in DOMAIN w : Key(w[i]) # key) => r[FieldOf[key]] = Default(key)
  BY AppliedIs
<1>3. \A i \in DOMAIN w : Taken(w[i])
  BY GoodIs
<1>4. \A key \in {"INTERVAL", "COUNT"} :
        r[FieldOf[key]] \in Nat /\ (key = "INTERVAL" => r[FieldOf[key]] # 0)
  BY CountsAre
<1>5. r.freq # "INVALID"
  OBVIOUS
<1>6. SUFFICES Good(v) /\ Applied(v) = r
  OBVIOUS
<1> HIDE DEF r, v
<1>7. ASSUME NEW key \in Keys, ~Omitted(r, key)
      PROVE  Taken(PartOf(r, key)) /\ Stored(PartOf(r, key)) = r[FieldOf[key]]
  <2>1. \E i \in DOMAIN w : Key(w[i]) = key
    <3>1. SUFFICES ASSUME \A i \in DOMAIN w : Key(w[i]) # key
                   PROVE  FALSE
      OBVIOUS
    <3>2. r[FieldOf[key]] = Default(key)
      BY <1>2, <3>1
    <3>3. key = "FREQ"
      BY <1>7, <3>2, DefaultIsOmitted
    <3>4. r.freq = "INVALID"
      BY <3>2, <3>3, FieldsAre, DefaultsAre
    <3> QED
      BY <1>5, <3>4
  <2>2. PICK i \in DOMAIN w : Key(w[i]) = key
    BY <2>1
  <2>3. Taken(w[i]) /\ r[FieldOf[Key(w[i])]] = Stored(w[i])
    BY <1>2, <1>3
  <2>4. /\ Taken(PartOf(r, Key(w[i])))
        /\ Stored(PartOf(r, Key(w[i]))) = r[FieldOf[Key(w[i])]]
    BY <2>3, WrittenPart
  <2> QED
    BY <2>2, <2>4
<1>8. Good(v)
  <2>1. \A i \in DOMAIN v : Taken(v[i])
    BY <1>1, <1>7
  <2> QED
    BY <1>1, <2>1, GoodIs
<1>9. ASSUME NEW key \in Keys
      PROVE  Applied(v)[FieldOf[key]] = r[FieldOf[key]]
  <2>1. CASE ~Omitted(r, key)
    <3>1. PICK i \in DOMAIN v : v[i] = PartOf(r, key)
      BY <1>1, <2>1
    <3>2. Key(v[i]) = key
      BY <3>1, PartOfIs
    <3>3. Applied(v)[FieldOf[Key(v[i])]] = Stored(v[i])
      BY <1>1, <1>8, AppliedIs
    <3> QED
      BY <1>7, <2>1, <3>1, <3>2, <3>3
  <2>2. CASE Omitted(r, key)
    <3>1. \A i \in DOMAIN v : Key(v[i]) # key
      BY <1>1, <2>2, PartOfIs
    <3>2. Applied(v)[FieldOf[key]] = Default(key)
      BY <1>1, <1>8, <3>1, AppliedIs
    <3>3. r[FieldOf[key]] = Default(key)
      BY <1>4, <2>2, OmittedIs
    <3> QED
      BY <3>2, <3>3
  <2> QED
    BY <2>1, <2>2
<1> DEFINE q == Applied(v)
<1>10. DOMAIN q = FieldNames /\ q = [field \in FieldNames |-> q[field]]
  BY <1>1, <1>8, AppliedIs
<1>11. \A key \in Keys : q[FieldOf[key]] = r[FieldOf[key]]
  BY <1>9
<1> HIDE DEF q
<1>12. q = r
  BY <1>2, <1>10, <1>11, RulesAgree
<1> QED
  BY <1>8, <1>12 DEF q

LEMMA ParsedRuleKept ==
  ASSUME NEW w, IsSeq(w), ParseRRule(w).error = "none"
  PROVE  ParseRRule(String(ParseRRule(w).rule)) = ParseRRule(w)
<1>1. Good(w) /\ ParseRRule(w) = Result(Applied(w))
  BY ParseIs
<1> DEFINE r == Applied(w)
<1>2. ValidAfterParse(r) /\ ParseRRule(w).rule = r
  BY <1>1, ResultIs
<1>3. r.freq # "INVALID"
  BY <1>2 DEF ValidAfterParse
<1>4. Good(String(r)) /\ Applied(String(r)) = r
  BY <1>1, <1>3, RuleReadBack
<1>5. IsSeq(String(r))
  BY <1>3, StringIs
<1> HIDE DEF r
<1>6. ParseRRule(String(r)) = Result(Applied(String(r)))
  BY <1>4, <1>5, ParseIs
<1> QED
  BY <1>1, <1>2, <1>4, <1>6 DEF r

-----------------------------------------------------------------------------
LEMMA TypedRecurrence ==
  ASSUME TypeOK
  PROVE  RecurrenceRoundTrips
<1>1. DocumentTyped(doc)
  BY TypeOKIs
<1>2. ASSUME NEW i \in DOMAIN doc, NEW p \in ToSet(doc[i].props)
      PROVE  TypedValue(p.value) /\ (p.value[1] = "rule" => IsSeq(p.value[2]))
  <2>1. TypedProps(doc[i].props)
    BY <1>1, DocumentAt
  <2>2. TypedProperty(p)
    BY <2>1, ToSetIs, TypedPropsIs
  <2>3. TypedValue(p.value)
    BY <2>2, TypedPropertyIs
  <2> QED
    BY <2>3, IsSequenceIs DEF TypedValue
<1>3. ASSUME NEW i \in DOMAIN doc, NEW p \in {q \in ToSet(doc[i].props) : q.value[1] = "rule"}
      PROVE  /\ ParseRRule(p.value[2]).error = "none" =>
                  ParseRRule(String(ParseRRule(p.value[2]).rule)) = ParseRRule(p.value[2])
             /\ \A k \in 1..(Len(p.value[2]) - 1) :
                  ParseRRule(Swapped(p.value[2], k)).rule = ParseRRule(p.value[2]).rule
  <2>1. IsSeq(p.value[2])
    BY <1>2
  <2> QED
    BY <2>1, ParsedRuleKept, SwappedKeepsRule
<1>4. ASSUME NEW i \in DOMAIN doc, NEW p \in ToSet(doc[i].props)
      PROVE  /\ \A times \in ParseDateListProperty(p) :
                  ParseDateTimeList(FormatDateTimeList(times)) = {times}
             /\ \A id \in ParseRecurrenceID(p) :
                  ParseRecurrenceID(RecurrenceIDProperty(id)) = {id}
  BY <1>2, DateListsKept, IdentifierKept
<1> QED
  BY <1>3, <1>4 DEF RecurrenceRoundTrips

\* Whatever edits made a document, a recurrence rule that ParseRRule takes is
\* read back from what String writes for it, whatever the order of its parts;
\* so are the times of RDATE and EXDATE from FormatDateTimeList, and a
\* RECURRENCE-ID from its property.
THEOREM RecurrenceIsReadBack == Spec => []RecurrenceRoundTrips
<1>1. TypeOK => RecurrenceRoundTrips
  BY TypedRecurrence
<1> QED
  BY <1>1, TypeCorrect, PTL

-----------------------------------------------------------------------------
(* Sorting is stable. *)

LEMMA PlaceIsNatural ==
  ASSUME NEW text
  PROVE  PlaceOf(text) \in Nat
<1>1. IsSeq(Texts)
  BY OrderAssumption, IsSequenceIs
<1>2. Len(Texts) \in Nat /\ DOMAIN Texts = 1..Len(Texts)
  BY <1>1, IsSeqProperties
<1>3. CASE text \in ToSet(Texts)
  <2>1. \E t \in DOMAIN Texts : Texts[t] = text
    BY <1>3 DEF ToSet
  <2>2. Place[text] \in DOMAIN Texts
    BY <1>3, <2>1 DEF Place
  <2> QED
    BY <1>2, <1>3, <2>2 DEF PlaceOf, Place
<1>4. CASE text \notin ToSet(Texts)
  BY <1>2, <1>4 DEF PlaceOf, Place
<1> QED
  BY <1>3, <1>4

\* Where the k-th element of a sequence sorted by keys came from.
Weight(keys, i) == (Len(keys) + 1) * PlaceOf(keys[i]) + i

Weights(keys) == {Weight(keys, i) : i \in DOMAIN keys}

Order(keys) == [k \in DOMAIN Ascending(Weights(keys)) |->
                  Ascending(Weights(keys))[k] % (Len(keys) + 1)]

Stable(perm, keys, n) ==
  /\ perm \in [1..n -> 1..n]
  /\ \A i \in 1..n : \E k \in 1..n : perm[k] = i
  /\ \A j, k \in 1..n : j < k /\ keys[perm[j]] = keys[perm[k]] => perm[j] < perm[k]

LEMMA WeightIs ==
  ASSUME NEW keys, IsSeq(keys), NEW i \in 1..Len(keys)
  PROVE  /\ Weight(keys, i) \in Nat
         /\ Weight(keys, i) % (Len(keys) + 1) = i
<1> DEFINE w == Len(keys) + 1
           p == PlaceOf(keys[i])
<1>1. w \in Nat /\ i \in 1..w - 1
  BY IsSeqProperties
<1>2. p \in Nat
  BY PlaceIsNatural
<1> HIDE DEF w, p
<1>3. w * p \in Nat /\ (w * p + i) % w = i
  BY <1>1, <1>2
<1> QED
  BY <1>1, <1>3 DEF Weight, w, p

LEMMA WeightsAre ==
  ASSUME NEW keys, IsSeq(keys)
  PROVE  /\ IsFiniteSet(Weights(keys)) /\ Weights(keys) \subseteq Int
         /\ Cardinality(Weights(keys)) = Len(keys)
<1> DEFINE n == Len(keys)
           f == [i \in 1..n |-> Weight(keys, i)]
<1>1. n \in Nat /\ DOMAIN keys = 1..n
  BY IsSeqProperties
<1>2. f \in [1..n -> Weights(keys)]
  BY <1>1 DEF Weights
<1>3. \A i, j \in 1..n : f[i] = f[j] => i = j
  BY WeightIs
<1>4. \A x \in Weights(keys) : \E i \in 1..n : f[i] = x
  BY <1>1 DEF Weights
<1>5. f \in Bijection(1..n, Weights(keys))
  <2> HIDE DEF f, n
  <2> QED
    BY <1>2, <1>3, <1>4 DEF Bijection, Injection, Surjection, IsInjective
<1>6. IsFiniteSet(1..n) /\ Cardinality(1..n) = n
  <2>1. /\ IsFiniteSet(1..n)
        /\ Cardinality(1..n) = IF 1 > n THEN 0 ELSE n - 1 + 1
    BY <1>1, FS_Interval
  <2> QED
    BY <1>1, <2>1
<1>7. IsFiniteSet(Weights(keys)) /\ Cardinality(Weights(keys)) = n
  <2> HIDE DEF f, n
  <2> QED
    BY <1>5, <1>6, FS_Bijection DEF ExistsBijection
<1>8. Weights(keys) \subseteq Int
  BY <1>1, WeightIs DEF Weights
<1> QED
  BY <1>7, <1>8

LEMMA OrderIsStable ==
  ASSUME NEW keys, IsSeq(keys)
  PROVE  Stable(Order(keys), keys, Len(keys))
<1> DEFINE n == Len(keys)
           w == n + 1
           at == Ascending(Weights(keys))
           perm == Order(keys)
<1>1. n \in Nat /\ DOMAIN keys = 1..n
  BY IsSeqProperties
<1>2. Lists(at, Weights(keys)) /\ Cardinality(Weights(keys)) = n
  BY WeightsAre, AscendingLists
<1> HIDE DEF n, at
<1>3. /\ at \in [1..n -> Weights(keys)]
      /\ \A j, k \in 1..n : j < k => at[j] < at[k]
      /\ \A x \in Weights(keys) : \E k \in 1..n : at[k] = x
  BY <1>2 DEF Lists
<1>4. perm = [k \in 1..n |-> at[k] % w]
  BY <1>3 DEF Order, at, n
<1> HIDE DEF perm, w
<1>5. \A i \in 1..n : Weight(keys, i) \in Nat /\ Weight(keys, i) % w = i
  BY WeightIs DEF n, w
<1>6. ASSUME NEW k \in 1..n
      PROVE  perm[k] \in 1..n /\ at[k] = Weight(keys, perm[k])
  <2>1. PICK i \in 1..n : at[k] = Weight(keys, i)
    BY <1>1, <1>3 DEF Weights
  <2> QED
    BY <1>4, <1>5, <2>1
<1>7. ASSUME NEW i \in 1..n
      PROVE  \E k \in 1..n : perm[k] = i
  <2>1. Weight(keys, i) \in Weights(keys)
    BY <1>1 DEF Weights
  <2>2. PICK k \in 1..n : at[k] = Weight(keys, i)
    BY <1>3, <2>1
  <2> QED
    BY <1>4, <1>5, <2>2
<1>8. ASSUME NEW j \in 1..n, NEW k \in 1..n, j < k, keys[perm[j]] = keys[perm[k]]
      PROVE  perm[j] < perm[k]
  <2>1. Weight(keys, perm[j]) < Weight(keys, perm[k])
    BY <1>3, <1>6, <1>8
  <2>2. perm[j] \in 1..n /\ perm[k] \in 1..n
    BY <1>6
  <2> DEFINE p == w * PlaceOf(keys[perm[k]])
  <2>3. Weight(keys, perm[j]) = p + perm[j] /\ Weight(keys, perm[k]) = p + perm[k]
    BY <1>8 DEF Weight, w, n
  <2>4. p \in Int
    BY <1>1, PlaceIsNatural DEF w
  <2> HIDE DEF p
  <2> QED
    BY <1>1, <2>1, <2>2, <2>3, <2>4
<1>9. perm \in [1..n -> 1..n]
  BY <1>4, <1>6
<1> QED
  BY <1>7, <1>8, <1>9 DEF Stable, perm, n

LEMMA SortedIs ==
  ASSUME NEW keys, IsSeq(keys), NEW s
  PROVE  SortedBy(keys, s) = [k \in 1..Len(keys) |-> s[Order(keys)[k]]]
<1>1. Stable(Order(keys), keys, Len(keys))
  BY OrderIsStable
<1>2. DOMAIN Order(keys) = 1..Len(keys) /\ DOMAIN Order(keys) = DOMAIN Ascending(Weights(keys))
  BY <1>1 DEF Stable, Order
<1>3. SortedBy(keys, s) = [k \in DOMAIN Ascending(Weights(keys)) |->
                              s[Ascending(Weights(keys))[k] % (Len(keys) + 1)]]
  BY DEF SortedBy, Weights, Weight
<1> QED
  BY <1>2, <1>3 DEF Order

-----------------------------------------------------------------------------
(* What sorting and selecting keep. *)

\* Places J of t that hold the elements s has at the places I, in their order.
LEMMA PickedKept ==
  ASSUME NEW s, IsSeq(s), NEW I, I \subseteq DOMAIN s,
         NEW t, IsSeq(t), NEW J, J \subseteq DOMAIN t, NEW perm,
         \A k \in J : perm[k] \in I /\ t[k] = s[perm[k]],
         \A j, k \in J : j < k => perm[j] < perm[k],
         \A i \in I : \E k \in J : perm[k] = i
  PROVE  Picked(t, J) = Picked(s, I)
<1> DEFINE a == Ascending(I)
           b == Ascending(J)
           n == Cardinality(I)
           f == [k \in J |-> perm[k]]
<1>1. /\ IsFiniteSet(I) /\ I \subseteq Int /\ n \in Nat
      /\ IsFiniteSet(J) /\ J \subseteq Int
  BY PlacesFinite
<1>2. f \in Bijection(J, I)
  <2>1. f \in [J -> I] /\ \A i \in I : \E k \in J : f[k] = i
    OBVIOUS
  <2>2. ASSUME NEW j \in J, NEW k \in J, f[j] = f[k]
        PROVE  j = k
    <3>1. perm[j] \in Int /\ perm[k] \in Int /\ perm[j] = perm[k]
      BY <1>1, <2>2
    <3>2. j \in Int /\ k \in Int
      BY <1>1
    <3>3. ~(j < k) /\ ~(k < j)
      BY <3>1
    <3> QED
      BY <3>2, <3>3
  <2> HIDE DEF f
  <2> QED
    BY <2>1, <2>2 DEF Bijection, Injection, Surjection, IsInjective
<1>3. Cardinality(J) = n
  BY <1>1, <1>2, FS_Bijection DEF ExistsBijection
<1>4. Lists(a, I) /\ Lists(b, J)
  BY <1>1, AscendingLists
<1> HIDE DEF a, b, n, f
<1>5. /\ b \in [1..n -> J]
      /\ \A j, k \in 1..n : j < k => b[j] < b[k]
      /\ \A i \in J : \E k \in 1..n : b[k] = i
  BY <1>3, <1>4 DEF Lists
<1> DEFINE c == [k \in 1..n |-> perm[b[k]]]
<1>6. Lists(c, I)
  <2>1. c \in [1..n -> I]
    BY <1>5
  <2>2. \A j, k \in 1..n : j < k => c[j] < c[k]
    BY <1>5
  <2>3. \A i \in I : \E k \in 1..n : c[k] = i
    <3> TAKE i \in I
    <3>1. PICK x \in J : perm[x] = i
      OBVIOUS
    <3>2. PICK k \in 1..n : b[k] = x
      BY <1>5
    <3> QED
      BY <3>1, <3>2
  <2> HIDE DEF c
  <2> QED
    BY <2>1, <2>2, <2>3 DEF Lists, n
<1>7. a = c
  BY <1>1, <1>4, <1>6, ListsUnique
<1>8. DOMAIN a = 1..n /\ DOMAIN b = 1..n
  BY <1>5, <1>7
<1>9. \A k \in 1..n : t[b[k]] = s[a[k]]
  BY <1>5, <1>7
<1>10. Picked(t, J) = [k \in 1..n |-> t[b[k]]] /\ Picked(s, I) = [k \in 1..n |-> s[a[k]]]
  BY <1>8 DEF Picked, a, b
<1> HIDE DEF c
<1> QED
  BY <1>9, <1>10, Zenon

\* The elements of one key keep their order.
LEMMA SortedKeeps ==
  ASSUME NEW keys, IsSeq(keys), NEW s, IsSeq(s), Len(s) = Len(keys)
  PROVE  /\ IsSeq(SortedBy(keys, s)) /\ Len(SortedBy(keys, s)) = Len(s)
         /\ Range(SortedBy(keys, s)) = Range(s)
         /\ \A k \in 1..Len(s) : Order(keys)[k] \in 1..Len(s)
         /\ \A k \in 1..Len(s) : SortedBy(keys, s)[k] = s[Order(keys)[k]]
<1> DEFINE n == Len(s)
           perm == Order(keys)
           t == SortedBy(keys, s)
<1>1. n \in Nat /\ DOMAIN s = 1..n
  BY IsSeqProperties
<1>2. Stable(perm, keys, n) /\ t = [k \in 1..n |-> s[perm[k]]]
  BY OrderIsStable, SortedIs
<1> HIDE DEF perm, t
<1>3. t \in [1..n -> Range(s)]
  BY <1>1, <1>2 DEF Stable, Range
<1>4. IsSeq(t) /\ Len(t) = n
  BY <1>1, <1>3, IsSeqFunction
<1>5. Range(t) = Range(s)
  <2>1. Range(t) \subseteq Range(s)
    BY <1>3 DEF Range
  <2>2. ASSUME NEW x \in Range(s)
        PROVE  x \in Range(t)
    <3>1. PICK i \in 1..n : x = s[i]
      BY <1>1 DEF Range
    <3>2. PICK k \in 1..n : perm[k] = i
      BY <1>2 DEF Stable
    <3>3. t[k] = x /\ k \in DOMAIN t
      BY <1>2, <3>1, <3>2
    <3> QED
      BY <3>3 DEF Range
  <2> QED
    BY <2>1, <2>2
<1> QED
  BY <1>2, <1>4, <1>5 DEF Stable, perm, t

LEMMA NamesAre ==
  ASSUME NEW s, IsSeq(s)
  PROVE  /\ IsSeq(NamesOf(s)) /\ Len(NamesOf(s)) = Len(s)
         /\ \A i \in 1..Len(s) : NamesOf(s)[i] = ToUpper(s[i].name)
<1>1. Len(s) \in Nat /\ DOMAIN s = 1..Len(s)
  BY IsSeqProperties
<1> DEFINE f == NamesOf(s)
           S == {ToUpper(s[i].name) : i \in 1..Len(s)}
<1>2. f = [i \in 1..Len(s) |-> ToUpper(s[i].name)]
  BY <1>1 DEF NamesOf
<1>3. f \in [1..Len(s) -> S]
  BY <1>2
<1> HIDE DEF f, S
<1>4. IsSeq(f) /\ Len(f) = Len(s)
  BY <1>1, <1>3, IsSeqFunction
<1> QED
  BY <1>2, <1>4 DEF f

\* Sorting by name leaves what a name finds as it was.
LEMMA NamedSorted ==
  ASSUME NEW s, IsSeq(s), NEW name
  PROVE  Named(SortedBy(NamesOf(s), s), name) = Named(s, name)
<1> DEFINE keys == NamesOf(s)
           n == Len(s)
           perm == Order(keys)
           t == SortedBy(keys, s)
           I == PlacesOf(s, name)
           J == PlacesOf(t, name)
<1>1. n \in Nat /\ DOMAIN s = 1..n
  BY IsSeqProperties
<1>2. IsSeq(keys) /\ Len(keys) = n /\ \A i \in 1..n : keys[i] = ToUpper(s[i].name)
  BY NamesAre
<1>3. Stable(perm, keys, n)
  BY <1>2, OrderIsStable
<1>4. IsSeq(t) /\ Len(t) = n /\ \A k \in 1..n : t[k] = s[perm[k]]
  BY <1>2, SortedKeeps
<1>5. DOMAIN t = 1..n
  BY <1>4, IsSeqProperties
<1> HIDE DEF keys, perm, t, n
<1>6. /\ perm \in [1..n -> 1..n]
      /\ \A i \in 1..n : \E k \in 1..n : perm[k] = i
      /\ \A j, k \in 1..n : j < k /\ keys[perm[j]] = keys[perm[k]] => perm[j] < perm[k]
  BY <1>3 DEF Stable
<1>7. /\ I = {i \in 1..n : keys[i] = name}
      /\ J = {k \in 1..n : keys[perm[k]] = name}
  BY <1>1, <1>2, <1>4, <1>5, <1>6 DEF PlacesOf
<1> HIDE DEF I, J
<1>8. \A k \in J : perm[k] \in I /\ t[k] = s[perm[k]]
  BY <1>4, <1>6, <1>7
<1>9. \A j, k \in J : j < k => perm[j] < perm[k]
  BY <1>6, <1>7
<1>10. \A i \in I : \E k \in J : perm[k] = i
  BY <1>6, <1>7
<1>11. I \subseteq DOMAIN s /\ J \subseteq DOMAIN t
  BY <1>1, <1>5, <1>7
<1>12. Picked(t, J) = Picked(s, I)
  BY <1>4, <1>8, <1>9, <1>10, <1>11, PickedKept
<1> QED
  BY <1>12 DEF Named, t, keys, I, J

\* So does leaving out places it does not look at.
LEMMA NamedPicked ==
  ASSUME NEW s, IsSeq(s), NEW I, I \subseteq DOMAIN s, NEW name, PlacesOf(s, name) \subseteq I
  PROVE  Named(Picked(s, I), name) = Named(s, name)
<1> DEFINE t == Picked(s, I)
           a == Ascending(I)
           n == Cardinality(I)
           P == PlacesOf(s, name)
           J == PlacesOf(t, name)
<1>1. Picks(t, s, I)
  BY PickedIs
<1>2. /\ IsSeq(t) /\ Len(t) = n
      /\ Lists(a, I)
      /\ \A k \in 1..n : a[k] \in I /\ t[k] = s[a[k]]
      /\ \A i \in I : \E k \in 1..n : a[k] = i
  BY <1>1 DEF Picks
<1>3. DOMAIN t = 1..n
  BY <1>2, IsSeqProperties
<1>4. \A j, k \in 1..n : j < k => a[j] < a[k]
  BY <1>2 DEF Lists
<1> HIDE DEF t, a, n
<1>5. J = {k \in 1..n : ToUpper(t[k].name) = name}
  BY <1>3 DEF PlacesOf
<1>6. P = {i \in DOMAIN s : ToUpper(s[i].name) = name} /\ P \subseteq I
  BY DEF PlacesOf
<1> HIDE DEF J, P
<1>7. \A k \in J : a[k] \in P /\ t[k] = s[a[k]]
  BY <1>2, <1>5, <1>6
<1>8. \A j, k \in J : j < k => a[j] < a[k]
  BY <1>4, <1>5
<1>9. \A i \in P : \E k \in J : a[k] = i
  BY <1>2, <1>5, <1>6
<1>10. P \subseteq DOMAIN s /\ J \subseteq DOMAIN t
  BY <1>3, <1>5, <1>6
<1>11. Picked(t, J) = Picked(s, P)
  BY <1>2, <1>7, <1>8, <1>9, <1>10, PickedKept
<1> QED
  BY <1>11 DEF Named, t, J, P

\* Elements changed but for their names.
LEMMA NamedMapped ==
  ASSUME NEW s, IsSeq(s), NEW t, IsSeq(t), Len(t) = Len(s),
         \A i \in 1..Len(s) : ToUpper(t[i].name) = ToUpper(s[i].name), NEW name
  PROVE  /\ IsSeq(Named(s, name)) /\ IsSeq(Named(t, name))
         /\ Len(Named(t, name)) = Len(Named(s, name))
         /\ \A k \in 1..Len(Named(s, name)) :
              \E i \in 1..Len(s) : Named(s, name)[k] = s[i] /\ Named(t, name)[k] = t[i]
<1> DEFINE I == PlacesOf(s, name)
<1>1. Len(s) \in Nat /\ DOMAIN s = 1..Len(s) /\ DOMAIN t = 1..Len(s)
  BY IsSeqProperties
<1>2. PlacesOf(t, name) = I
  BY <1>1 DEF PlacesOf
<1>3. Picks(Named(s, name), s, I) /\ Picks(Named(t, name), t, I)
  BY <1>2, NamedIs
<1>4. I \subseteq 1..Len(s)
  BY <1>1 DEF PlacesOf
<1> HIDE DEF I
<1> QED
  BY <1>3, <1>4 DEF Picks

-----------------------------------------------------------------------------
(* What the canonical form keeps of a property. *)

\* An element of f for each of s.
LEMMA MappedIs ==
  ASSUME NEW s, IsSeq(s), NEW f, f = [i \in DOMAIN s |-> f[i]]
  PROVE  IsSeq(f) /\ Len(f) = Len(s) /\ Range(f) = {f[i] : i \in 1..Len(s)}
<1>1. Len(s) \in Nat /\ DOMAIN s = 1..Len(s) /\ DOMAIN f = 1..Len(s)
  BY IsSeqProperties
<1>2. f \in [1..Len(s) -> {f[i] : i \in 1..Len(s)}]
  BY <1>1
<1> QED
  BY <1>1, <1>2, IsSeqFunction DEF Range

\* The value a parameter of p is prepared with.
PreparedValue(q, p) ==
  IF DateOnly(p) /\ ToUpper(q.name) = "VALUE" THEN ToUpper(NfcText(q.value))
  ELSE NfcText(q.value)

LEMMA ParamIs ==
  ASSUME NEW name, NEW value
  PROVE  Param(name, value).name = name /\ Param(name, value).value = value
BY DEF Param

LEMMA PreparedParamsAre ==
  ASSUME NEW p, IsSeq(p.params), NEW strip
  PROVE  /\ IsSeq(PreparedParams(p, strip))
         /\ Range(PreparedParams(p, strip)) =
              {Param(q.name, PreparedValue(q, p)) :
                 q \in {x \in Range(p.params) : ~Dropped(x, p, strip)}}
<1> DEFINE I == {i \in DOMAIN p.params : ~Dropped(p.params[i], p, strip)}
           kept == Picked(p.params, I)
           m == [i \in DOMAIN kept |-> Param(kept[i].name, PreparedValue(kept[i], p))]
<1>1. PreparedParams(p, strip) = SortedBy(NamesOf(m), m)
  BY Zenon DEF PreparedParams, PreparedValue, SortedParams
<1>2. Picks(kept, p.params, I)
  <2>1. I \subseteq DOMAIN p.params
    OBVIOUS
  <2> HIDE DEF I
  <2> QED
    BY <2>1, PickedIs
<1>3. IsSeq(kept) /\ Range(kept) = {p.params[i] : i \in I}
  <2> HIDE DEF kept, I
  <2> QED
    BY <1>2 DEF Picks
<1>4. Range(kept) = {x \in Range(p.params) : ~Dropped(x, p, strip)}
  <2> HIDE DEF kept
  <2> QED
    BY <1>3 DEF Range
<1> HIDE DEF kept, I
<1>5. IsSeq(m) /\ Len(m) = Len(kept) /\ Range(m) = {m[i] : i \in 1..Len(kept)}
  <2>1. m = [i \in DOMAIN kept |-> m[i]]
    OBVIOUS
  <2> HIDE DEF m
  <2> QED
    BY <1>3, <2>1, MappedIs
<1>6. DOMAIN kept = 1..Len(kept)
  BY <1>3, IsSeqProperties
<1>7. Range(m) = {Param(q.name, PreparedValue(q, p)) : q \in Range(kept)}
  <2>1. \A i \in 1..Len(kept) : m[i] = Param(kept[i].name, PreparedValue(kept[i], p))
    BY <1>6
  <2> HIDE DEF m
  <2>2. Range(kept) = {kept[i] : i \in 1..Len(kept)}
    BY <1>6 DEF Range
  <2> QED
    BY <1>5, <2>1, <2>2
<1> HIDE DEF m
<1>8. /\ IsSeq(SortedBy(NamesOf(m), m))
      /\ Range(SortedBy(NamesOf(m), m)) = Range(m)
  <2>1. IsSeq(NamesOf(m)) /\ Len(NamesOf(m)) = Len(m)
    BY <1>5, NamesAre
  <2> QED
    BY <1>5, <2>1, SortedKeeps
<1> QED
  BY <1>1, <1>4, <1>7, <1>8

LEMMA EncodedIs ==
  ASSUME NEW p, IsSeq(p.params)
  PROVE  /\ EncodeContentLine(p).name = ToUpper(p.name)
         /\ EncodeContentLine(p).value = p.value
         /\ IsSeq(EncodeContentLine(p).params)
         /\ Range(EncodeContentLine(p).params) =
              {Param(ToUpper(q.name), q.value) : q \in Range(p.params)}
<1> DEFINE m == [i \in DOMAIN p.params |-> Param(ToUpper(p.params[i].name), p.params[i].value)]
<1>1. EncodeContentLine(p) = Property(ToUpper(p.name), m, p.value)
  BY DEF EncodeContentLine
<1>2. m = [i \in DOMAIN p.params |-> m[i]]
  OBVIOUS
<1>3. DOMAIN p.params = 1..Len(p.params)
  BY IsSeqProperties
<1>4. \A i \in 1..Len(p.params) : m[i] = Param(ToUpper(p.params[i].name), p.params[i].value)
  BY <1>3
<1> HIDE DEF m
<1>5. IsSeq(m) /\ Range(m) = {m[i] : i \in 1..Len(p.params)}
  BY <1>2, MappedIs
<1>6. Range(m) = {Param(ToUpper(q.name), q.value) : q \in Range(p.params)}
  <2>1. Range(p.params) = {p.params[i] : i \in 1..Len(p.params)}
    BY <1>3 DEF Range
  <2> QED
    BY <1>4, <1>5, <2>1
<1> QED
  BY <1>1, <1>5, <1>6 DEF Property

LEMMA PreparedIs ==
  ASSUME NEW p, NEW cal
  PROVE  LET strip == DateOnly(p) \/ Resolved(p, cal) # {}
         IN  /\ PrepareProperty(p, cal).name = p.name
             /\ PrepareProperty(p, cal).params = PreparedParams(p, strip)
             /\ Resolved(p, cal) = {} => PrepareProperty(p, cal).value = Nfc(p.value)
BY DEF PrepareProperty, Prepared, Property

LEMMA NormalTexts ==
  ASSUME NEW text
  PROVE  /\ ToUpper(text) = "DATE-TIME" => NfcText(text) = text
         /\ ToUpper(text) = "THISANDFUTURE" => NfcText(text) = text
BY NormalAssumption DEF NfcText, Words

\* A list of times, a rule or an instant is not normalised.
LEMMA NotText ==
  ASSUME NEW value, value[1] # "text"
  PROVE  Nfc(value) = value
BY DEF Nfc

\* A time with its UTC mark is no wall time.
LEMMA UtcNotResolved ==
  ASSUME NEW p, NEW cal, p.value[1] = "utc"
  PROVE  Resolved(p, cal) = {}
<1>1. \A tzid : ParseTimeWithTZID(p.value, tzid, cal) = {}
  BY DEF ParseTimeWithTZID
<1> QED
  BY <1>1, Zenon DEF Resolved

\* A property as the canonical form writes it.
Spelled(p, cal) == EncodeContentLine(PrepareProperty(p, cal))

LEMMA SpelledIs ==
  ASSUME NEW p, TypedProperty(p), NEW cal
  PROVE  /\ Spelled(p, cal).name = ToUpper(p.name)
         /\ Spelled(p, cal).value = PrepareProperty(p, cal).value
         /\ Range(Spelled(p, cal).params) =
              {Param(ToUpper(q.name), q.value) : q \in Range(PrepareProperty(p, cal).params)}
         /\ IsSeq(Spelled(p, cal).params)
<1>1. IsSeq(p.params)
  BY TypedPropertyIs DEF TypedParams
<1>2. IsSeq(PrepareProperty(p, cal).params)
  BY <1>1, PreparedIs, PreparedParamsAre
<1>3. PrepareProperty(p, cal).name = p.name
  BY PreparedIs
<1> QED
  BY <1>2, <1>3, EncodedIs DEF Spelled

\* A property that is no attachment and whose time stays keeps its parameters.
LEMMA ParamsStay ==
  ASSUME NEW p, TypedProperty(p), NEW cal,
         ToUpper(p.name) # "ATTACH", ~DateOnly(p), Resolved(p, cal) = {}
  PROVE  /\ IsSeq(PrepareProperty(p, cal).params)
         /\ Range(PrepareProperty(p, cal).params) =
              {Param(q.name, NfcText(q.value)) : q \in Range(p.params)}
<1>1. IsSeq(p.params)
  BY TypedPropertyIs DEF TypedParams
<1>2. PrepareProperty(p, cal).params = PreparedParams(p, FALSE)
  BY PreparedIs
<1>3. \A q : ~Dropped(q, p, FALSE) /\ PreparedValue(q, p) = NfcText(q.value)
  BY DEF Dropped, PreparedValue
<1>4. /\ IsSeq(PreparedParams(p, FALSE))
      /\ Range(PreparedParams(p, FALSE)) =
           {Param(q.name, PreparedValue(q, p)) :
              q \in {x \in Range(p.params) : ~Dropped(x, p, FALSE)}}
  BY <1>1, PreparedParamsAre
<1> QED
  BY <1>2, <1>3, <1>4

\* Parameters that are neither a zone nor another type than DATE-TIME stay so.
Plain(params) ==
  \A q \in params :
    /\ ToUpper(q.name) # "TZID"
    /\ ToUpper(q.name) = "VALUE" => ToUpper(q.value) = "DATE-TIME"

LEMMA PlainIs ==
  ASSUME NEW p
  PROVE  PlainDateTimes(p) <=> Plain(Range(p.params))
BY ToSetIs DEF PlainDateTimes, Plain

LEMMA PlainStays ==
  ASSUME NEW S, Plain(S)
  PROVE  /\ Plain({Param(q.name, NfcText(q.value)) : q \in S})
         /\ Plain({Param(ToUpper(q.name), q.value) : q \in S})
<1>1. ASSUME NEW q \in S
      PROVE  /\ ToUpper(q.name) # "TZID"
             /\ ToUpper(q.name) = "VALUE" => /\ ToUpper(q.value) = "DATE-TIME"
                                             /\ NfcText(q.value) = q.value
  BY NormalTexts DEF Plain
<1>2. ASSUME NEW x \in {Param(q.name, NfcText(q.value)) : q \in S}
      PROVE  /\ ToUpper(x.name) # "TZID"
             /\ ToUpper(x.name) = "VALUE" => ToUpper(x.value) = "DATE-TIME"
  <2>1. PICK q \in S : x = Param(q.name, NfcText(q.value))
    OBVIOUS
  <2> QED
    BY <1>1, <2>1, ParamIs
<1>3. ASSUME NEW x \in {Param(ToUpper(q.name), q.value) : q \in S}
      PROVE  /\ ToUpper(x.name) # "TZID"
             /\ ToUpper(x.name) = "VALUE" => ToUpper(x.value) = "DATE-TIME"
  <2>1. PICK q \in S : x = Param(ToUpper(q.name), q.value)
    OBVIOUS
  <2>2. ToUpper(x.name) = ToUpper(q.name) /\ x.value = q.value
    BY <2>1, ParamIs, CapitalsStay
  <2> QED
    BY <1>1, <2>2
<1> QED
  BY <1>2, <1>3 DEF Plain

\* A property without VALUE=DATE and TZID has neither date nor zone.
LEMMA PlainHasNone ==
  ASSUME NEW p, TypedProperty(p), PlainDateTimes(p), NEW cal
  PROVE  ~DateOnly(p) /\ Resolved(p, cal) = {}
<1>1. IsSeq(p.params)
  BY TypedPropertyIs DEF TypedParams
<1>2. \A name : ParamValue(p, name)
                   \subseteq {q.value : q \in {x \in Range(p.params) : ToUpper(x.name) = name}}
  BY <1>1, NamedIs DEF ParamValue
<1>3. Plain(Range(p.params))
  BY PlainIs
<1>4. ParamValue(p, "TZID") = {}
  BY <1>2, <1>3 DEF Plain
<1>5. \A v \in ParamValue(p, "VALUE") : ToUpper(v) = "DATE-TIME"
  BY <1>2, <1>3 DEF Plain
<1>6. ~HasValueDate(p)
  BY <1>5 DEF HasValueDate
<1> QED
  BY <1>4, <1>6, Zenon DEF DateOnly, Resolved

-----------------------------------------------------------------------------
(* What a set accepts, its canonical form accepts too. *)

LEMMA RuleStays ==
  ASSUME NEW p, TypedProperty(p), NEW cal, ToUpper(p.name) = "RRULE", ParsedRule(p) # {}
  PROVE  ParsedRule(Spelled(p, cal)) = ParsedRule(p)
<1>1. Resolved(p, cal) = {}
  BY Zenon DEF Resolved, IsDateTimeProperty, DateTimeProperties
<1>2. p.value[1] = "rule"
  BY DEF ParsedRule
<1>3. Spelled(p, cal).value = p.value
  BY <1>1, <1>2, SpelledIs, PreparedIs, NotText
<1> QED
  BY <1>3 DEF ParsedRule

LEMMA ListStays ==
  ASSUME NEW p, TypedProperty(p), NEW cal, ToUpper(p.name) \in {"RDATE", "EXDATE"},
         ParseDateListProperty(p) # {}
  PROVE  ParseDateListProperty(Spelled(p, cal)) = ParseDateListProperty(p)
<1>1. PlainDateTimes(p) /\ p.value[1] = "times"
  BY DEF ParseDateListProperty, ParseDateTimeList
<1>2. ~DateOnly(p) /\ Resolved(p, cal) = {}
  BY <1>1, PlainHasNone
<1>3. Spelled(p, cal).value = p.value
  BY <1>1, <1>2, SpelledIs, PreparedIs, NotText
<1>4. PlainDateTimes(Spelled(p, cal))
  <2> DEFINE S == {Param(q.name, NfcText(q.value)) : q \in Range(p.params)}
  <2>1. Range(PrepareProperty(p, cal).params) = S
    BY <1>2, ParamsStay
  <2>2. Plain(S)
    BY <1>1, PlainIs, PlainStays
  <2>3. Range(Spelled(p, cal).params) = {Param(ToUpper(q.name), q.value) : q \in S}
    BY <2>1, SpelledIs
  <2> HIDE DEF S
  <2>4. Plain(Range(Spelled(p, cal).params))
    BY <2>2, <2>3, PlainStays
  <2> QED
    BY <2>4, PlainIs
<1> QED
  BY <1>1, <1>3, <1>4 DEF ParseDateListProperty

LEMMA AcceptedStays ==
  ASSUME NEW p, TypedProperty(p), NEW cal, Accepted(p)
  PROVE  /\ Accepted(Spelled(p, cal))
         /\ ToUpper(p.name) = "RRULE" => ParsedRule(Spelled(p, cal)) = ParsedRule(p)
         /\ ToUpper(p.name) \in {"RDATE", "EXDATE"} =>
              ParseDateListProperty(Spelled(p, cal)) = ParseDateListProperty(p)
<1>1. ToUpper(Spelled(p, cal).name) = ToUpper(p.name)
  BY SpelledIs, CapitalsStay
<1>2. CASE ToUpper(p.name) = "RRULE"
  BY <1>1, <1>2, RuleStays DEF Accepted
<1>3. CASE ToUpper(p.name) \in {"RDATE", "EXDATE"}
  BY <1>1, <1>3, ListStays DEF Accepted
<1>4. CASE ToUpper(p.name) \notin {"RRULE", "RDATE", "EXDATE"}
  BY <1>1, <1>4 DEF Accepted
<1> QED
  BY <1>2, <1>3, <1>4

LEMMA InstantStays ==
  ASSUME NEW p, TypedProperty(p), NEW cal, Readable(p.value)
  PROVE  Spelled(p, cal).value = p.value
<1>1. p.value[1] = "utc"
  BY DEF Readable, ParseTime
<1> QED
  BY <1>1, UtcNotResolved, SpelledIs, PreparedIs, NotText

LEMMA IdentifierStays ==
  ASSUME NEW p, TypedProperty(p), NEW cal
  PROVE  ParseRecurrenceID(p) \subseteq ParseRecurrenceID(PrepareProperty(p, cal))
<1> DEFINE r == PrepareProperty(p, cal)
<1> SUFFICES ASSUME ParseRecurrenceID(p) # {}
             PROVE  ParseRecurrenceID(r) = ParseRecurrenceID(p)
  OBVIOUS
<1>1. /\ ToUpper(p.name) = "RECURRENCE-ID" /\ PlainDateTimes(p)
      /\ \A q \in Range(p.params) : RangeParam(q) => ToUpper(q.value) = "THISANDFUTURE"
      /\ ParseTime(p.value) # {}
  BY ToSetIs DEF ParseRecurrenceID
<1>2. ~DateOnly(p) /\ Resolved(p, cal) = {}
  BY <1>1, PlainHasNone
<1>3. p.value[1] = "utc"
  BY <1>1 DEF ParseTime
<1>4. r.name = p.name /\ r.value = p.value
  BY <1>2, <1>3, PreparedIs, NotText
<1>5. Range(r.params) = {Param(q.name, NfcText(q.value)) : q \in Range(p.params)}
  BY <1>1, <1>2, ParamsStay
<1> HIDE DEF r
<1>6. PlainDateTimes(r)
  BY <1>1, <1>5, PlainIs, PlainStays
<1>7. \A x \in Range(r.params) : RangeParam(x) => ToUpper(x.value) = "THISANDFUTURE"
  <2> SUFFICES ASSUME NEW x \in Range(r.params), RangeParam(x)
               PROVE  ToUpper(x.value) = "THISANDFUTURE"
    OBVIOUS
  <2>1. PICK q \in Range(p.params) : x = Param(q.name, NfcText(q.value))
    BY <1>5
  <2>2. x.name = q.name /\ x.value = NfcText(q.value)
    BY <2>1, ParamIs
  <2>3. RangeParam(q)
    BY <2>2 DEF RangeParam
  <2> QED
    BY <1>1, <2>2, <2>3, NormalTexts
<1>8. (\E x \in Range(r.params) : RangeParam(x)) <=> (\E q \in Range(p.params) : RangeParam(q))
  BY <1>5, ParamIs DEF RangeParam
<1>9. \A q : ToSet(q.params) = Range(q.params)
  BY ToSetIs
<1> QED
  BY <1>1, <1>4, <1>6, <1>7, <1>8, <1>9 DEF ParseRecurrenceID

-----------------------------------------------------------------------------
(* What the canonical form keeps of a component. *)

\* What a name finds among prepared properties is what it finds before,
\* prepared.
LEMMA NamedPrepared ==
  ASSUME NEW s, TypedProps(s), NEW cal, NEW name, name # "X-VSTAR-HASH",
         NEW t, t = PreparedProps(FilterHash(s), cal)
  PROVE  /\ IsSeq(t)
         /\ \A x \in Range(t) : \E p \in Range(s) : x = PrepareProperty(p, cal)
         /\ IsSeq(Named(s, name)) /\ IsSeq(Named(t, name))
         /\ Len(Named(t, name)) = Len(Named(s, name))
         /\ \A k \in 1..Len(Named(s, name)) :
              Named(t, name)[k] = PrepareProperty(Named(s, name)[k], cal)
<1> DEFINE I == {i \in DOMAIN s : ~IsHash(s[i])}
           f == FilterHash(s)
           m == [i \in DOMAIN f |-> PrepareProperty(f[i], cal)]
<1>1. IsSeq(s)
  BY TypedPropsIs
<1>2. I \subseteq DOMAIN s /\ PlacesOf(s, name) \subseteq I /\ f = Picked(s, I)
  BY DEF PlacesOf, IsHash, FilterHash
<1>3. t = SortedBy(NamesOf(m), m)
  <2>1. NamesOf(m) = NamesOf(f)
    <3>1. DOMAIN m = DOMAIN f /\ \A i \in DOMAIN f : m[i] = PrepareProperty(f[i], cal)
      OBVIOUS
    <3> HIDE DEF m, f
    <3> QED
      BY <3>1, PreparedIs DEF NamesOf
  <2> QED
    BY <2>1, Zenon DEF PreparedProps
<1> HIDE DEF I, f
<1>4. Named(f, name) = Named(s, name)
  BY <1>1, <1>2, NamedPicked
<1>5. IsSeq(f) /\ Range(f) \subseteq Range(s)
  <2>1. Picks(f, s, I)
    BY <1>1, <1>2, PickedIs
  <2> QED
    BY <1>2, <2>1 DEF Picks, Range
<1>6. Len(f) \in Nat /\ DOMAIN f = 1..Len(f)
  BY <1>5, IsSeqProperties
<1>7. /\ \A i \in 1..Len(f) : m[i] = PrepareProperty(f[i], cal)
      /\ m = [i \in DOMAIN f |-> m[i]]
  BY <1>6
<1> HIDE DEF m
<1>8. IsSeq(m) /\ Len(m) = Len(f) /\ Range(m) = {m[i] : i \in 1..Len(f)}
  BY <1>5, <1>7, MappedIs
<1>9. \A i \in 1..Len(f) : ToUpper(m[i].name) = ToUpper(f[i].name)
  BY <1>7, PreparedIs
<1>10. /\ IsSeq(Named(f, name)) /\ IsSeq(Named(m, name))
       /\ Len(Named(m, name)) = Len(Named(f, name))
       /\ \A k \in 1..Len(Named(f, name)) : \E i \in 1..Len(f) :
            Named(f, name)[k] = f[i] /\ Named(m, name)[k] = m[i]
  BY ONLY <1>5, <1>8, <1>9, NamedMapped
<1>11. Named(t, name) = Named(m, name)
  BY <1>3, <1>8, NamedSorted
<1>12. IsSeq(t) /\ Range(t) = Range(m)
  <2>1. IsSeq(NamesOf(m)) /\ Len(NamesOf(m)) = Len(m)
    BY <1>8, NamesAre
  <2> QED
    BY <1>3, <1>8, <2>1, SortedKeeps
<1>13. \A x \in Range(m) : \E p \in Range(s) : x = PrepareProperty(p, cal)
  BY <1>5, <1>6, <1>7, <1>8 DEF Range
<1>14. \A k \in 1..Len(Named(s, name)) :
         Named(t, name)[k] = PrepareProperty(Named(s, name)[k], cal)
  BY <1>4, <1>7, <1>10, <1>11
<1> QED
  BY <1>4, <1>10, <1>11, <1>12, <1>13, <1>14

\* The properties of the canonical form of c.
CanonicalProps(c, cal) == EncodeLines(PreparedProps(FilterHash(c.props), cal))

\* What a name finds there is what it finds in c, spelled.
LEMMA NamedStays ==
  ASSUME NEW c, TypedProps(c.props), NEW cal, NEW name, name # "X-VSTAR-HASH"
  PROVE  /\ IsSeq(CanonicalProps(c, cal))
         /\ \A x \in Range(CanonicalProps(c, cal)) : \E p \in Range(c.props) : x = Spelled(p, cal)
         /\ IsSeq(Named(c.props, name)) /\ IsSeq(Named(CanonicalProps(c, cal), name))
         /\ Len(Named(CanonicalProps(c, cal), name)) = Len(Named(c.props, name))
         /\ \A k \in 1..Len(Named(c.props, name)) :
              Named(CanonicalProps(c, cal), name)[k] = Spelled(Named(c.props, name)[k], cal)
<1> DEFINE s == c.props
           t == PreparedProps(FilterHash(s), cal)
           e == EncodeLines(t)
<1>1. e = CanonicalProps(c, cal)
  BY Zenon DEF CanonicalProps
<1>2. /\ IsSeq(t)
      /\ \A x \in Range(t) : \E p \in Range(s) : x = PrepareProperty(p, cal)
      /\ IsSeq(Named(s, name)) /\ IsSeq(Named(t, name))
      /\ Len(Named(t, name)) = Len(Named(s, name))
      /\ \A k \in 1..Len(Named(s, name)) :
           Named(t, name)[k] = PrepareProperty(Named(s, name)[k], cal)
  <2> HIDE DEF s
  <2>1. TypedProps(s)
    BY DEF s
  <2> HIDE DEF t
  <2>2. t = PreparedProps(FilterHash(s), cal)
    BY DEF t
  <2> QED
    BY <2>1, <2>2, NamedPrepared
<1> HIDE DEF s, t
<1>3. Len(t) \in Nat /\ DOMAIN t = 1..Len(t)
  BY <1>2, IsSeqProperties
<1>4. /\ \A i \in 1..Len(t) : e[i] = EncodeContentLine(t[i])
      /\ e = [i \in DOMAIN t |-> e[i]]
  BY <1>3 DEF EncodeLines
<1> HIDE DEF e
<1>5. IsSeq(e) /\ Len(e) = Len(t) /\ Range(e) = {e[i] : i \in 1..Len(t)}
  BY <1>2, <1>4, MappedIs
<1>6. \A x \in Range(e) : \E p \in Range(s) : x = Spelled(p, cal)
  <2>1. ASSUME NEW i \in 1..Len(t)
        PROVE  \E p \in Range(s) : e[i] = Spelled(p, cal)
    <3>1. t[i] \in Range(t)
      BY <1>3 DEF Range
    <3>2. PICK p \in Range(s) : t[i] = PrepareProperty(p, cal)
      BY <1>2, <3>1
    <3> QED
      BY <1>4, <3>2 DEF Spelled
  <2> QED
    BY <1>5, <2>1
<1>7. \A i \in 1..Len(t) : ToUpper(e[i].name) = ToUpper(t[i].name)
  <2>1. \A x : EncodeContentLine(x).name = ToUpper(x.name)
    BY DEF EncodeContentLine, Property
  <2> QED
    BY <1>4, <2>1, CapitalsStay
<1>8. /\ IsSeq(Named(e, name)) /\ Len(Named(e, name)) = Len(Named(t, name))
      /\ \A k \in 1..Len(Named(t, name)) : \E i \in 1..Len(t) :
           Named(t, name)[k] = t[i] /\ Named(e, name)[k] = e[i]
  BY <1>2, <1>5, <1>7, NamedMapped
<1>9. ASSUME NEW k \in 1..Len(Named(s, name))
      PROVE  Named(e, name)[k] = Spelled(Named(s, name)[k], cal)
  <2>1. Named(t, name)[k] = PrepareProperty(Named(s, name)[k], cal) /\ k \in 1..Len(Named(t, name))
    BY <1>2
  <2>2. Named(e, name)[k] = EncodeContentLine(Named(t, name)[k])
    BY <1>4, <1>8, <2>1
  <2> QED
    BY <2>1, <2>2 DEF Spelled
<1> QED
  BY <1>1, <1>2, <1>5, <1>6, <1>8, <1>9 DEF s

\* Each of its properties is one of c, spelled.
LEMMA LinesStay ==
  ASSUME NEW c, TypedProps(c.props), NEW cal
  PROVE  \A x \in Range(CanonicalProps(c, cal)) : \E p \in Range(c.props) : x = Spelled(p, cal)
<1> DEFINE name == "RRULE"
           found == Named(CanonicalProps(c, cal), name)
<1>1. name # "X-VSTAR-HASH"
  OBVIOUS
<1> HIDE DEF name
<1>2. Len(found) = Len(Named(c.props, name)) =>
        \A x \in Range(CanonicalProps(c, cal)) : \E p \in Range(c.props) : x = Spelled(p, cal)
  BY <1>1, NamedStays
<1>3. Len(found) = Len(Named(c.props, name))
  BY <1>1, NamedStays
<1> QED
  BY <1>2, <1>3

\* The first of these, the last and all of them.
LEMMA FoundStays ==
  ASSUME NEW c, TypedProps(c.props), NEW cal, NEW name, name # "X-VSTAR-HASH",
         NEW d, d.props = CanonicalProps(c, cal)
  PROVE  /\ Get(d, name) = {Spelled(p, cal) : p \in Get(c, name)}
         /\ LastOf(GetAll(d, name)) = {Spelled(p, cal) : p \in LastOf(GetAll(c, name))}
         /\ ToSet(GetAll(d, name)) = {Spelled(p, cal) : p \in ToSet(GetAll(c, name))}
         /\ \A p \in Get(c, name) \cup LastOf(GetAll(c, name)) \cup ToSet(GetAll(c, name)) :
              p \in Range(c.props) /\ ToUpper(p.name) = name
<1> DEFINE u == GetAll(c, name)
           v == GetAll(d, name)
           n == Len(u)
<1>1. u = Named(c.props, name) /\ v = Named(CanonicalProps(c, cal), name)
  BY DEF GetAll
<1>2. /\ IsSeq(u) /\ IsSeq(v) /\ Len(v) = n
      /\ \A k \in 1..n : v[k] = Spelled(u[k], cal)
  BY <1>1, NamedStays
<1>3. Range(u) = {x \in Range(c.props) : ToUpper(x.name) = name}
  BY <1>1, TypedPropsIs, NamedIs
<1>4. Get(c, name) = First(u) /\ Get(d, name) = First(v)
  BY DEF Get
<1> HIDE DEF u, v, n
<1>5. /\ n \in Nat /\ DOMAIN u = 1..n /\ DOMAIN v = 1..n
      /\ u = <<>> <=> n = 0
      /\ v = <<>> <=> n = 0
  BY <1>2, IsSeqProperties DEF n
<1>6. ToSet(u) = {u[k] : k \in 1..n} /\ ToSet(v) = {v[k] : k \in 1..n}
  BY <1>5 DEF ToSet
<1>7. ToSet(v) = {Spelled(p, cal) : p \in ToSet(u)}
  BY <1>2, <1>6
<1>8. CASE n = 0
  BY <1>4, <1>5, <1>6, <1>7, <1>8 DEF First, LastOf, u, v
<1>9. CASE n # 0
  <2>1. 1 \in 1..n /\ n \in 1..n
    BY <1>5, <1>9
  <2>2. First(u) = {u[1]} /\ First(v) = {v[1]}
    BY <1>5, <1>9 DEF First
  <2>3. LastOf(u) = {u[n]} /\ LastOf(v) = {v[n]}
    BY <1>2, <1>5, <1>9 DEF LastOf, n
  <2>4. u[1] \in Range(u) /\ u[n] \in Range(u) /\ ToSet(u) = Range(u)
    BY <1>5, <2>1, ToSetIs DEF Range
  <2>5. v[1] = Spelled(u[1], cal) /\ v[n] = Spelled(u[n], cal)
    BY <1>2, <2>1
  <2> QED
    BY <1>3, <1>4, <1>7, <2>2, <2>3, <2>4, <2>5 DEF u, v
<1> QED
  BY <1>8, <1>9

-----------------------------------------------------------------------------
(* A recurrence set and the canonical form. *)

SetAccepted(c) ==
  /\ \A p \in Get(c, "DTSTART") : Readable(p.value)
  /\ \A p \in ToSet(c.props) : Accepted(p)

SetOf(c) ==
  [dtstart |-> UNION {ParseTime(p.value) : p \in Get(c, "DTSTART")},
   rrule |-> UNION {ParsedRule(p) : p \in LastOf(GetAll(c, "RRULE"))},
   rdate |-> TimesOf(c, "RDATE"), exdate |-> TimesOf(c, "EXDATE")]

LEMMA SetIs ==
  ASSUME NEW c
  PROVE  SetFromComponent(c) = IF SetAccepted(c) THEN {SetOf(c)} ELSE {}
BY Zenon DEF SetFromComponent, SetAccepted, SetOf

\* The times of a name are those of its spelled properties.
LEMMA TimesStay ==
  ASSUME NEW c, TypedProps(c.props), SetAccepted(c), NEW cal,
         NEW d, d.props = CanonicalProps(c, cal), NEW name \in {"RDATE", "EXDATE"}
  PROVE  TimesOf(d, name) = TimesOf(c, name)
<1> DEFINE S == ToSet(GetAll(c, name))
<1>1. /\ ToSet(GetAll(d, name)) = {Spelled(p, cal) : p \in S}
      /\ \A p \in S : p \in Range(c.props) /\ ToUpper(p.name) = name
  <2>1. name # "X-VSTAR-HASH"
    OBVIOUS
  <2> HIDE DEF S
  <2>2. /\ ToSet(GetAll(d, name)) = {Spelled(p, cal) : p \in ToSet(GetAll(c, name))}
        /\ \A p \in ToSet(GetAll(c, name)) : p \in Range(c.props) /\ ToUpper(p.name) = name
    BY <2>1, FoundStays
  <2> QED
    BY <2>2 DEF S
<1>2. \A p \in S : p \in Range(c.props) /\ ToUpper(p.name) = name
  BY <1>1
<1>3. \A p \in S : TypedProperty(p) /\ Accepted(p)
  BY <1>2, TypedPropsIs, ToSetIs DEF SetAccepted
<1>4. \A p \in S : ParseDateListProperty(Spelled(p, cal)) = ParseDateListProperty(p)
  BY <1>2, <1>3, AcceptedStays
<1>5. {ParseDateListProperty(x) : x \in ToSet(GetAll(d, name))}
          = {ParseDateListProperty(p) : p \in S}
  <2> HIDE DEF S
  <2> QED
    BY <1>1, <1>4
<1> QED
  BY <1>5, Zenon DEF TimesOf

LEMMA SetStays ==
  ASSUME NEW c, TypedProps(c.props), SetAccepted(c), NEW cal,
         NEW d, d.props = CanonicalProps(c, cal)
  PROVE  SetAccepted(d) /\ SetOf(d) = SetOf(c)
<1>1. \A p \in Range(c.props) : TypedProperty(p) /\ Accepted(p)
  BY TypedPropsIs, ToSetIs DEF SetAccepted
<1>2. \A p \in ToSet(d.props) : Accepted(p)
  <2>1. \A x \in Range(d.props) : \E p \in Range(c.props) : x = Spelled(p, cal)
    BY LinesStay
  <2>2. \A p \in Range(c.props) : Accepted(Spelled(p, cal))
    BY <1>1, AcceptedStays
  <2> QED
    BY <2>1, <2>2, ToSetIs
<1>3. /\ Get(d, "DTSTART") = {Spelled(p, cal) : p \in Get(c, "DTSTART")}
      /\ \A p \in Get(c, "DTSTART") : p \in Range(c.props)
  BY FoundStays
<1>4. \A p \in Get(c, "DTSTART") : Readable(p.value) /\ Spelled(p, cal).value = p.value
  BY <1>1, <1>3, InstantStays DEF SetAccepted
<1>5. /\ \A p \in Get(d, "DTSTART") : Readable(p.value)
      /\ UNION {ParseTime(p.value) : p \in Get(d, "DTSTART")}
           = UNION {ParseTime(p.value) : p \in Get(c, "DTSTART")}
  <2>1. {ParseTime(p.value) : p \in Get(d, "DTSTART")}
            = {ParseTime(p.value) : p \in Get(c, "DTSTART")}
    BY <1>3, <1>4
  <2>2. \A p \in Get(d, "DTSTART") : Readable(p.value)
    BY <1>3, <1>4
  <2> QED
    BY <2>1, <2>2
<1>6. /\ LastOf(GetAll(d, "RRULE")) = {Spelled(p, cal) : p \in LastOf(GetAll(c, "RRULE"))}
      /\ \A p \in LastOf(GetAll(c, "RRULE")) : p \in Range(c.props) /\ ToUpper(p.name) = "RRULE"
  <2> DEFINE name == "RRULE"
  <2>1. name # "X-VSTAR-HASH"
    OBVIOUS
  <2> HIDE DEF name
  <2>2. /\ Get(d, name) = {Spelled(p, cal) : p \in Get(c, name)}
        /\ LastOf(GetAll(d, name)) = {Spelled(p, cal) : p \in LastOf(GetAll(c, name))}
        /\ \A p \in LastOf(GetAll(c, name)) : p \in Range(c.props) /\ ToUpper(p.name) = name
    BY <2>1, FoundStays
  <2> QED
    BY <2>2 DEF name
<1>7. {ParsedRule(p) : p \in LastOf(GetAll(d, "RRULE"))}
          = {ParsedRule(p) : p \in LastOf(GetAll(c, "RRULE"))}
  <2>1. \A p \in LastOf(GetAll(c, "RRULE")) : ParsedRule(Spelled(p, cal)) = ParsedRule(p)
    BY <1>1, <1>6, AcceptedStays
  <2> QED
    BY <1>6, <2>1
<1>8. TimesOf(d, "RDATE") = TimesOf(c, "RDATE") /\ TimesOf(d, "EXDATE") = TimesOf(c, "EXDATE")
  BY TimesStay
<1> QED
  BY <1>2, <1>5, <1>7, <1>8, Zenon DEF SetAccepted, SetOf

\* Every element of an accepted list is one of its times.
LEMMA ElementsAre ==
  ASSUME NEW c, TypedProps(c.props), SetAccepted(c), NEW name \in {"RDATE", "EXDATE"}
  PROVE  {<<"utc", t>> : t \in TimesOf(c, name)} = Elements(c, name)
<1> DEFINE S == ToSet(GetAll(c, name))
           stamp(t) == <<"utc", t>>
<1>1. \A p \in S : p \in Range(c.props) /\ ToUpper(p.name) = name
  BY TypedPropsIs, NamedIs, ToSetIs DEF GetAll
<1>2. \A p \in S : TypedProperty(p) /\ ParseDateListProperty(p) # {}
  BY <1>1, TypedPropsIs, ToSetIs DEF SetAccepted, Accepted
<1>3. ASSUME NEW p \in S
      PROVE  /\ ParseDateListProperty(p) = {Times(p.value[2])}
             /\ \A v \in ToSet(p.value[2]) : ParseTime(v) = {v[2]} /\ v = stamp(v[2])
  <2>1. /\ ParseDateListProperty(p) = {Times(p.value[2])} /\ p.value[1] = "times"
        /\ \A v \in ToSet(p.value[2]) : Readable(v)
    BY <1>2 DEF ParseDateListProperty, ParseDateTimeList
  <2>2. \A v \in ToSet(p.value[2]) : v = <<v[1], v[2]>>
    BY <1>2, <2>1, ToSetIs DEF TypedProperty, TypedValue
  <2>3. \A v \in ToSet(p.value[2]) : v[1] = "utc" /\ ParseTime(v) = {v[2]}
    BY <2>1 DEF Readable, ParseTime
  <2> QED
    BY <2>1, <2>2, <2>3
<1>4. \A t : stamp(t)[2] = t
  OBVIOUS
<1> HIDE DEF S, stamp
<1>5. TimesOf(c, name) = UNION {Times(p.value[2]) : p \in S}
  <2>1. UNION {ParseDateListProperty(p) : p \in S} = {Times(p.value[2]) : p \in S}
    BY <1>3
  <2> QED
    BY <2>1, Zenon DEF TimesOf, S
<1>6. Elements(c, name) = UNION {ToSet(p.value[2]) : p \in S}
  BY Zenon DEF Elements, S
<1>7. ASSUME NEW p \in S
      PROVE  ToSet(p.value[2]) = {stamp(t) : t \in Times(p.value[2])}
  <2>1. Times(p.value[2]) = {v[2] : v \in ToSet(p.value[2])}
    BY <1>3 DEF Times
  <2>2. ASSUME NEW v \in ToSet(p.value[2])
        PROVE  v \in {stamp(t) : t \in Times(p.value[2])}
    BY <1>3, <2>1, <2>2
  <2>3. ASSUME NEW t \in Times(p.value[2])
        PROVE  stamp(t) \in ToSet(p.value[2])
    <3>1. PICK v \in ToSet(p.value[2]) : t = v[2]
      BY <2>1
    <3> QED
      BY <1>3, <3>1
  <2> QED
    BY <2>2, <2>3
<1>8. {stamp(t) : t \in TimesOf(c, name)} = Elements(c, name)
  <2>1. ASSUME NEW x \in Elements(c, name)
        PROVE  x \in {stamp(t) : t \in TimesOf(c, name)}
    <3>1. PICK p \in S : x \in ToSet(p.value[2])
      BY <1>6
    <3> QED
      BY <1>5, <1>7, <3>1
  <2>2. ASSUME NEW t \in TimesOf(c, name)
        PROVE  stamp(t) \in Elements(c, name)
    <3>1. PICK p \in S : t \in Times(p.value[2])
      BY <1>5
    <3> QED
      BY <1>6, <1>7, <3>1
  <2> QED
    BY <2>1, <2>2
<1> QED
  BY <1>8 DEF stamp

LEMMA TypedKeepsRecurrence == TypeOK => RecurrenceIsKept
<1> SUFFICES ASSUME TypeOK, NEW i \in DOMAIN doc
             PROVE  /\ \A s \in SetFromComponent(doc[i]) :
                         /\ SetFromComponent(InCanonicalForm(i)) = {s}
                         /\ {<<"utc", t>> : t \in s.exdate} = Elements(doc[i], "EXDATE")
                         /\ {<<"utc", t>> : t \in s.rdate} = Elements(doc[i], "RDATE")
                    /\ \A p \in ToSet(doc[i].props) :
                         ParseRecurrenceID(p) \subseteq ParseRecurrenceID(PrepareProperty(p, doc))
  BY Zenon DEF RecurrenceIsKept
<1> DEFINE c == doc[i]
           d == InCanonicalForm(i)
<1>1. TypedProps(c.props)
  BY TypeOKIs, DocumentAt, TypedComponentIs
<1>2. d.props = CanonicalProps(c, doc)
  BY DEF InCanonicalForm, EncodeComponent, PrepareComponent, CanonicalProps
<1>3. \A p \in ToSet(c.props) :
        ParseRecurrenceID(p) \subseteq ParseRecurrenceID(PrepareProperty(p, doc))
  BY <1>1, TypedPropsIs, ToSetIs, IdentifierStays
<1> HIDE DEF c, d
<1>4. ASSUME NEW s \in SetFromComponent(c)
      PROVE  /\ SetFromComponent(d) = {s}
             /\ {<<"utc", t>> : t \in s.exdate} = Elements(c, "EXDATE")
             /\ {<<"utc", t>> : t \in s.rdate} = Elements(c, "RDATE")
  <2>1. SetAccepted(c) /\ s = SetOf(c)
    BY <1>4, SetIs
  <2>2. SetAccepted(d) /\ SetOf(d) = SetOf(c)
    BY <1>1, <1>2, <2>1, SetStays
  <2>3. s.exdate = TimesOf(c, "EXDATE") /\ s.rdate = TimesOf(c, "RDATE")
    BY <2>1 DEF SetOf
  <2>4. /\ {<<"utc", t>> : t \in TimesOf(c, "EXDATE")} = Elements(c, "EXDATE")
        /\ {<<"utc", t>> : t \in TimesOf(c, "RDATE")} = Elements(c, "RDATE")
    BY <1>1, <2>1, ElementsAre
  <2> QED
    BY <2>1, <2>2, <2>3, <2>4, SetIs
<1> QED
  BY <1>3, <1>4 DEF c, d

\* RecurrenceIsKept: a recurrence set that SetFromComponent accepts leaves no
\* element of an EXDATE or RDATE out and is the set of the canonical form, and
\* a RECURRENCE-ID is read from the prepared property as from the written one.
THEOREM CanonicalKeepsRecurrence == Spec => []RecurrenceIsKept
<1> QED
  BY TypedKeepsRecurrence, TypeCorrect, PTL

-----------------------------------------------------------------------------
(* What the canonical form keeps of alarms. *)

\* At most one element.
AtMostOne(S) == S = {} \/ \E x : S = {x}

\* The first elements of two sequences of one length.
FirstOfBoth(s, t) ==
  \/ First(s) = {} /\ First(t) = {}
  \/ 1 \in 1..Len(s) /\ First(s) = {s[1]} /\ First(t) = {t[1]}

LEMMA FirstOfMapped ==
  ASSUME NEW s, IsSeq(s), NEW t, IsSeq(t), Len(t) = Len(s)
  PROVE  AtMostOne(First(s)) /\ FirstOfBoth(s, t)
<1>1. /\ Len(s) \in Nat
      /\ s = <<>> <=> Len(s) = 0
      /\ t = <<>> <=> Len(s) = 0
  BY IsSeqProperties
<1> QED
  BY <1>1 DEF First, AtMostOne, FirstOfBoth

\* The first property that a name finds, prepared.
LEMMA GetPrepared ==
  ASSUME NEW c, TypedProps(c.props), NEW cal, NEW name, name # "X-VSTAR-HASH",
         NEW d, d.props = PreparedProps(FilterHash(c.props), cal)
  PROVE  /\ Get(d, name) = {PrepareProperty(p, cal) : p \in Get(c, name)}
         /\ AtMostOne(Get(c, name))
         /\ \A p \in Get(c, name) :
              p \in Range(c.props) /\ TypedProperty(p) /\ ToUpper(p.name) = name
<1> DEFINE u == Named(c.props, name)
           v == Named(d.props, name)
<1>1. /\ IsSeq(u) /\ IsSeq(v) /\ Len(v) = Len(u)
      /\ \A k \in 1..Len(u) : v[k] = PrepareProperty(u[k], cal)
  <2> DEFINE s == c.props
             t == d.props
  <2>1. TypedProps(s) /\ t = PreparedProps(FilterHash(s), cal)
    OBVIOUS
  <2> HIDE DEF s, t
  <2>2. /\ IsSeq(Named(s, name)) /\ IsSeq(Named(t, name))
        /\ Len(Named(t, name)) = Len(Named(s, name))
        /\ \A k \in 1..Len(Named(s, name)) :
             Named(t, name)[k] = PrepareProperty(Named(s, name)[k], cal)
    BY <2>1, NamedPrepared
  <2> QED
    BY <2>2 DEF s, t
<1>2. Get(c, name) = First(u) /\ Get(d, name) = First(v)
  BY DEF Get, GetAll
<1>3. First(u) \subseteq {x \in Range(c.props) : ToUpper(x.name) = name}
  BY TypedPropsIs, NamedIs
<1> HIDE DEF u, v
<1>4. AtMostOne(First(u)) /\ FirstOfBoth(u, v)
  BY <1>1, FirstOfMapped
<1>5. First(v) = {PrepareProperty(p, cal) : p \in First(u)}
  BY <1>1, <1>4 DEF FirstOfBoth
<1>6. \A p \in Range(c.props) : TypedProperty(p)
  BY TypedPropsIs
<1> QED
  BY <1>2, <1>3, <1>4, <1>5, <1>6

\* The parameters that a name finds, prepared.
LEMMA NamedParams ==
  ASSUME NEW p, IsSeq(p.params), NEW strip, NEW name,
         \A q : ToUpper(q.name) = name => ~Dropped(q, p, strip),
         NEW t, t = PreparedParams(p, strip)
  PROVE  /\ IsSeq(Named(p.params, name)) /\ IsSeq(Named(t, name))
         /\ Len(Named(t, name)) = Len(Named(p.params, name))
         /\ \A k \in 1..Len(Named(p.params, name)) :
              Named(t, name)[k] = Param(Named(p.params, name)[k].name,
                                        PreparedValue(Named(p.params, name)[k], p))
<1> DEFINE s == p.params
           I == {i \in DOMAIN s : ~Dropped(s[i], p, strip)}
           f == Picked(s, I)
           m == [i \in DOMAIN f |-> Param(f[i].name, PreparedValue(f[i], p))]
<1>1. t = SortedBy(NamesOf(m), m)
  BY Zenon DEF PreparedParams, PreparedValue, SortedParams
<1>2. I \subseteq DOMAIN s /\ PlacesOf(s, name) \subseteq I
  BY DEF PlacesOf
<1> HIDE DEF I
<1>3. Named(f, name) = Named(s, name)
  BY <1>2, NamedPicked
<1>4. IsSeq(f)
  <2>1. Picks(f, s, I)
    BY <1>2, PickedIs
  <2> QED
    BY <2>1 DEF Picks
<1> HIDE DEF f
<1>5. Len(f) \in Nat /\ DOMAIN f = 1..Len(f)
  BY <1>4, IsSeqProperties
<1>6. /\ \A i \in 1..Len(f) : m[i] = Param(f[i].name, PreparedValue(f[i], p))
      /\ m = [i \in DOMAIN f |-> m[i]]
  BY <1>5
<1> HIDE DEF m
<1>7. IsSeq(m) /\ Len(m) = Len(f)
  BY <1>4, <1>6, MappedIs
<1>8. \A i \in 1..Len(f) : ToUpper(m[i].name) = ToUpper(f[i].name)
  <2> TAKE i \in 1..Len(f)
  <2>1. m[i] = Param(f[i].name, PreparedValue(f[i], p))
    BY <1>6
  <2>2. m[i].name = f[i].name
    BY <2>1, ParamIs
  <2> QED
    BY <2>2
<1>9. /\ IsSeq(Named(f, name)) /\ IsSeq(Named(m, name))
      /\ Len(Named(m, name)) = Len(Named(f, name))
      /\ \A k \in 1..Len(Named(f, name)) : \E i \in 1..Len(f) :
           Named(f, name)[k] = f[i] /\ Named(m, name)[k] = m[i]
  BY ONLY <1>4, <1>7, <1>8, NamedMapped
<1>10. Named(t, name) = Named(m, name)
  BY <1>1, <1>7, NamedSorted
<1> QED
  BY <1>3, <1>6, <1>9, <1>10

LEMMA ParamPrepared ==
  ASSUME NEW p, IsSeq(p.params), NEW strip, NEW name,
         \A q : ToUpper(q.name) = name => ~Dropped(q, p, strip),
         NEW r, r.params = PreparedParams(p, strip)
  PROVE  /\ AtMostOne(ParamValue(p, name))
         /\ ~(DateOnly(p) /\ name = "VALUE") =>
              ParamValue(r, name) = {NfcText(v) : v \in ParamValue(p, name)}
         /\ DateOnly(p) /\ name = "VALUE" =>
              ParamValue(r, name) = {ToUpper(NfcText(v)) : v \in ParamValue(p, name)}
<1> DEFINE u == Named(p.params, name)
           w == Named(r.params, name)
<1>1. /\ IsSeq(u) /\ IsSeq(w) /\ Len(w) = Len(u)
      /\ \A k \in 1..Len(u) : w[k] = Param(u[k].name, PreparedValue(u[k], p))
  <2> DEFINE t == r.params
  <2>1. t = PreparedParams(p, strip)
    OBVIOUS
  <2> HIDE DEF t
  <2>2. /\ IsSeq(Named(p.params, name)) /\ IsSeq(Named(t, name))
        /\ Len(Named(t, name)) = Len(Named(p.params, name))
        /\ \A k \in 1..Len(Named(p.params, name)) :
             Named(t, name)[k] = Param(Named(p.params, name)[k].name,
                                       PreparedValue(Named(p.params, name)[k], p))
    BY <2>1, NamedParams
  <2> QED
    BY <2>2 DEF t
<1>2. /\ ParamValue(p, name) = {q.value : q \in First(u)}
      /\ ParamValue(r, name) = {q.value : q \in First(w)}
  BY DEF ParamValue
<1>3. First(u) \subseteq {x \in Range(p.params) : ToUpper(x.name) = name}
  BY NamedIs
<1> HIDE DEF u, w
<1>4. AtMostOne(First(u)) /\ FirstOfBoth(u, w)
  BY <1>1, FirstOfMapped
<1>5. CASE First(u) = {} /\ First(w) = {}
  <2>1. ParamValue(p, name) = {} /\ ParamValue(r, name) = {}
    BY <1>2, <1>5
  <2> QED
    BY <2>1 DEF AtMostOne
<1>6. CASE First(u) = {u[1]} /\ First(w) = {w[1]} /\ 1 \in 1..Len(u)
  <2>1. ParamValue(p, name) = {u[1].value} /\ ParamValue(r, name) = {w[1].value}
    BY <1>2, <1>6
  <2>2. w[1].value = PreparedValue(u[1], p)
    BY <1>1, <1>6, ParamIs
  <2>3. ToUpper(u[1].name) = name
    BY <1>3, <1>6
  <2> QED
    BY <2>1, <2>2, <2>3 DEF AtMostOne, PreparedValue
<1> QED
  BY <1>4, <1>5, <1>6 DEF FirstOfBoth

\* Normal form changes texts only.
LEMMA KindStays ==
  ASSUME NEW value
  PROVE  /\ Nfc(value)[1] = value[1]
         /\ value[1] # "text" => Nfc(value) = value
BY DEF Nfc

\* What is read from a value is read from its normal form.
LEMMA ReadingStays ==
  ASSUME NEW value
  PROVE  /\ IsDuration(Nfc(value)) <=> IsDuration(value)
         /\ IsDuration(value) => Nfc(value) = value
         /\ ParseTime(Nfc(value)) = ParseTime(value)
         /\ NonNegative(Nfc(value)) = NonNegative(value)
<1>1. CASE value[1] = "text"
  <2>1. Nfc(value)[1] = "text"
    BY <1>1, KindStays
  <2>2. ~IsDuration(value) /\ ~IsDuration(Nfc(value))
    BY <1>1, <2>1 DEF IsDuration
  <2>3. ParseTime(value) = {} /\ ParseTime(Nfc(value)) = {}
    BY <1>1, <2>1 DEF ParseTime
  <2>4. \A v : v[1] = "text" => NonNegative(v) = {}
    BY DEF NonNegative
  <2> QED
    BY <1>1, <2>1, <2>2, <2>3, <2>4
<1>2. CASE value[1] # "text"
  BY <1>2, KindStays
<1> QED
  BY <1>1, <1>2

\* The words that the library looks for are in no other normal form.
LEMMA WordsStay ==
  ASSUME NEW text, NEW word \in Words
  PROVE  ToUpper(NfcText(text)) = word <=> ToUpper(text) = word
<1>1. CASE text \in DOMAIN Composed
  <2>1. NfcText(text) \in Range(Composed)
    BY <1>1 DEF NfcText, Range
  <2> QED
    BY <1>1, <2>1, NormalAssumption
<1>2. CASE text \notin DOMAIN Composed
  BY <1>2 DEF NfcText
<1> QED
  BY <1>1, <1>2

LEMMA UndatedIs ==
  ASSUME NEW p, TypedProperty(p), ~IsDateTimeProperty(p), NEW cal
  PROVE  /\ Resolved(p, cal) = {} /\ ~DateOnly(p) /\ IsSeq(p.params)
         /\ PrepareProperty(p, cal).value = Nfc(p.value)
         /\ PrepareProperty(p, cal).params = PreparedParams(p, FALSE)
         /\ PrepareProperty(p, cal).name = p.name
<1>1. Resolved(p, cal) = {} /\ ~DateOnly(p)
  BY Zenon DEF Resolved, DateOnly
<1>2. IsSeq(p.params)
  BY TypedPropertyIs DEF TypedParams
<1> QED
  BY <1>1, <1>2, PreparedIs

\* What a parameter says.
Said(p, name) == {ToUpper(v) : v \in ParamValue(p, name)}

LEMMA TriggerIs ==
  ASSUME NEW p, NEW tr
  PROVE  tr \in ParseTrigger(p) <=>
           IF Said(p, "RELATED") = {} THEN tr \in TriggerValue(p)
           ELSE \E r \in Said(p, "RELATED") \cap {"START", "END"}, v \in TriggerValue(p) :
                  v.relative /\ tr = WithRelated(v, r)
<1>1. ParseTrigger(p) = IF Said(p, "RELATED") = {} THEN TriggerValue(p)
                        ELSE {[v EXCEPT !.related = r] :
                                r \in Said(p, "RELATED") \cap {"START", "END"},
                                v \in {w \in TriggerValue(p) : w.relative}}
  BY DEF ParseTrigger, Said
<1> QED
  BY <1>1 DEF WithRelated

LEMMA TriggerStays ==
  ASSUME NEW p, TypedProperty(p), ToUpper(p.name) = "TRIGGER", NEW cal
  PROVE  ParseTrigger(PrepareProperty(p, cal)) = ParseTrigger(p)
<1> DEFINE r == PrepareProperty(p, cal)
<1>1. ~IsDateTimeProperty(p)
  BY DEF IsDateTimeProperty, DateTimeProperties
<1>2. /\ ~DateOnly(p) /\ IsSeq(p.params) /\ r.value = Nfc(p.value)
      /\ r.params = PreparedParams(p, FALSE)
  BY <1>1, UndatedIs
<1>3. \A q : ~Dropped(q, p, FALSE)
  BY DEF Dropped
<1> HIDE DEF r
<1>4. ASSUME NEW name
      PROVE  /\ AtMostOne(ParamValue(p, name))
             /\ ParamValue(r, name) = {NfcText(v) : v \in ParamValue(p, name)}
  BY <1>2, <1>3, ParamPrepared
<1>5. ASSUME NEW name
      PROVE  /\ Said(r, name) = {} <=> Said(p, name) = {}
             /\ \A word \in {"DATE-TIME", "DURATION", "END", "START"} :
                  /\ Said(r, name) = {word} <=> Said(p, name) = {word}
                  /\ word \in Said(r, name) <=> word \in Said(p, name)
  <2>1. CASE ParamValue(p, name) = {}
    <3>1. ParamValue(r, name) = {}
      BY <1>4, <2>1
    <3>2. Said(p, name) = {} /\ Said(r, name) = {}
      BY <2>1, <3>1 DEF Said
    <3> QED
      BY <3>2
  <2>2. ASSUME NEW v, ParamValue(p, name) = {v}
        PROVE  <1>5!2
    <3>1. ParamValue(r, name) = {NfcText(v)}
      BY <1>4, <2>2
    <3>2. Said(p, name) = {ToUpper(v)} /\ Said(r, name) = {ToUpper(NfcText(v))}
      BY <2>2, <3>1 DEF Said
    <3>3. \A word \in {"DATE-TIME", "DURATION", "END", "START"} :
            ToUpper(NfcText(v)) = word <=> ToUpper(v) = word
      BY WordsStay DEF Words
    <3> QED
      BY <3>2, <3>3
  <2> QED
    BY <1>4, <2>1, <2>2 DEF AtMostOne
<1>6. TriggerValue(r) = TriggerValue(p)
  <2>1. /\ IsDuration(r.value) <=> IsDuration(p.value)
        /\ IsDuration(p.value) => r.value = p.value
        /\ ParseTime(r.value) = ParseTime(p.value)
    BY <1>2, ReadingStays
  <2> DEFINE D(x) == IF IsDuration(x.value) THEN {Relative(ParseDuration(x.value[2]), "START")}
                      ELSE {}
             T(x) == {Absolute(t) : t \in ParseTime(x.value)}
  <2>2. D(r) = D(p) /\ T(r) = T(p)
    BY <2>1
  <2>3. \A x : TriggerValue(x) = CASE Said(x, "VALUE") = {} -> D(x) \cup T(x)
                                   [] Said(x, "VALUE") = {"DURATION"} -> D(x)
                                   [] Said(x, "VALUE") = {"DATE-TIME"} -> T(x)
                                   [] OTHER -> {}
    BY Zenon DEF TriggerValue, Said
  <2>4. /\ Said(r, "VALUE") = {} <=> Said(p, "VALUE") = {}
        /\ Said(r, "VALUE") = {"DURATION"} <=> Said(p, "VALUE") = {"DURATION"}
        /\ Said(r, "VALUE") = {"DATE-TIME"} <=> Said(p, "VALUE") = {"DATE-TIME"}
    BY <1>5
  <2> HIDE DEF D, T
  <2> QED
    BY <2>2, <2>3, <2>4
<1>7. /\ Said(r, "RELATED") = {} <=> Said(p, "RELATED") = {}
      /\ Said(r, "RELATED") \cap {"START", "END"} = Said(p, "RELATED") \cap {"START", "END"}
  <2>1. /\ "START" \in Said(r, "RELATED") <=> "START" \in Said(p, "RELATED")
        /\ "END" \in Said(r, "RELATED") <=> "END" \in Said(p, "RELATED")
        /\ Said(r, "RELATED") = {} <=> Said(p, "RELATED") = {}
    BY <1>5
  <2> QED
    BY <2>1
<1>8. ASSUME NEW tr
      PROVE  tr \in ParseTrigger(r) <=> tr \in ParseTrigger(p)
  <2>1. /\ tr \in ParseTrigger(r) <=>
             IF Said(r, "RELATED") = {} THEN tr \in TriggerValue(r)
             ELSE \E w \in Said(r, "RELATED") \cap {"START", "END"}, v \in TriggerValue(r) :
                    v.relative /\ tr = WithRelated(v, w)
        /\ tr \in ParseTrigger(p) <=>
             IF Said(p, "RELATED") = {} THEN tr \in TriggerValue(p)
             ELSE \E w \in Said(p, "RELATED") \cap {"START", "END"}, v \in TriggerValue(p) :
                    v.relative /\ tr = WithRelated(v, w)
    BY TriggerIs
  <2> QED
    BY <1>6, <1>7, <2>1
<1> QED
  BY <1>8 DEF r

-----------------------------------------------------------------------------
(* The time of a property. *)

\* As TimeProp reads it.
TimeOfOne(p, cal) ==
  IF HasValueDate(p) THEN {}
  ELSE IF ParamValue(p, "TZID") = {} THEN ParseTime(p.value)
  ELSE UNION {ParseTimeWithTZID(p.value, tzid, cal) : tzid \in ParamValue(p, "TZID")}

LEMMA TimePropIs ==
  ASSUME NEW c, NEW name, NEW cal
  PROVE  TimeProp(c, name, cal) = UNION {TimeOfOne(p, cal) : p \in Get(c, name)}
BY Zenon DEF TimeProp, TimeOfOne

\* A wall time in the zone tzid is an instant of one value at most.
LEMMA WallTimeIs ==
  ASSUME NEW value, NEW tzid, NEW cal, IsSeq(Picked(cal, {i \in DOMAIN cal :
           /\ cal[i].type = "VTIMEZONE"
           /\ \E p \in Get(cal[i], "TZID") : p.value = <<"text", tzid>>}))
  PROVE  AtMostOne(ParseTimeWithTZID(value, tzid, cal))
<1>1. AtMostOne(FindVTimezone(tzid, cal))
  BY FirstOfMapped DEF FindVTimezone
<1> DEFINE R == {LoadTZRules(tz) : tz \in FindVTimezone(tzid, cal)} \ {<<>>}
<1>2. AtMostOne(R)
  BY <1>1 DEF AtMostOne
<1>3. ParseTimeWithTZID(value, tzid, cal) =
        IF tzid = NoText \/ value[1] # "wall" THEN {}
        ELSE {value[2] - SelectActiveRule(value[2], rules) : rules \in R}
  BY Zenon DEF ParseTimeWithTZID
<1> HIDE DEF R
<1>4. CASE R = {} \/ tzid = NoText \/ value[1] # "wall"
  <2>1. ParseTimeWithTZID(value, tzid, cal) = {}
    BY <1>3, <1>4
  <2> QED
    BY <2>1 DEF AtMostOne
<1>5. ASSUME NEW x, R = {x}, ~(tzid = NoText \/ value[1] # "wall")
      PROVE  AtMostOne(ParseTimeWithTZID(value, tzid, cal))
  <2>1. ParseTimeWithTZID(value, tzid, cal) = {value[2] - SelectActiveRule(value[2], x)}
    BY <1>3, <1>5
  <2> QED
    BY <2>1, Zenon DEF AtMostOne
<1> QED
  BY <1>2, <1>4, <1>5 DEF AtMostOne

LEMMA DatedIs ==
  ASSUME NEW p, TypedProperty(p), IsDateTimeProperty(p), NEW cal
  PROVE  /\ IsSeq(p.params)
         /\ DateOnly(p) <=> HasValueDate(p)
         /\ \A q : ~(ToUpper(p.name) = "ATTACH" /\ Inlined(q))
         /\ HasValueDate(p) => Resolved(p, cal) = {}
         /\ ~HasValueDate(p) =>
              Resolved(p, cal) = UNION {ParseTimeWithTZID(p.value, tzid, cal) :
                                          tzid \in ParamValue(p, "TZID")}
<1>1. IsSeq(p.params)
  BY TypedPropertyIs DEF TypedParams
<1>2. DateOnly(p) <=> HasValueDate(p)
  BY DEF DateOnly
<1>3. ToUpper(p.name) # "ATTACH"
  BY DEF IsDateTimeProperty, DateTimeProperties
<1>4. /\ HasValueDate(p) => Resolved(p, cal) = {}
      /\ ~HasValueDate(p) =>
           Resolved(p, cal) = UNION {ParseTimeWithTZID(p.value, tzid, cal) :
                                       tzid \in ParamValue(p, "TZID")}
  BY Zenon DEF Resolved
<1> QED
  BY <1>1, <1>2, <1>3, <1>4

\* VALUE=DATE is there before and after.
LEMMA DateStays ==
  ASSUME NEW p, TypedProperty(p), IsDateTimeProperty(p), NEW cal
  PROVE  HasValueDate(PrepareProperty(p, cal)) <=> HasValueDate(p)
<1> DEFINE r == PrepareProperty(p, cal)
           strip == DateOnly(p) \/ Resolved(p, cal) # {}
<1>1. r.params = PreparedParams(p, strip)
  BY PreparedIs
<1>2. /\ IsSeq(p.params)
      /\ DateOnly(p) <=> HasValueDate(p)
      /\ \A q : ToUpper(q.name) = "VALUE" => ~Dropped(q, p, strip)
  BY DatedIs DEF Dropped
<1> HIDE DEF r, strip
<1>3. /\ ~DateOnly(p) => ParamValue(r, "VALUE") = {NfcText(v) : v \in ParamValue(p, "VALUE")}
      /\ DateOnly(p) =>
           ParamValue(r, "VALUE") = {ToUpper(NfcText(v)) : v \in ParamValue(p, "VALUE")}
  <2> DEFINE name == "VALUE"
  <2>1. \A q : ToUpper(q.name) = name => ~Dropped(q, p, strip)
    BY <1>2
  <2> HIDE DEF name
  <2>2. /\ AtMostOne(ParamValue(p, name))
        /\ ~(DateOnly(p) /\ name = "VALUE") =>
             ParamValue(r, name) = {NfcText(v) : v \in ParamValue(p, name)}
        /\ DateOnly(p) /\ name = "VALUE" =>
             ParamValue(r, name) = {ToUpper(NfcText(v)) : v \in ParamValue(p, name)}
    BY <1>1, <1>2, <2>1, ParamPrepared
  <2> QED
    BY <2>2 DEF name
<1>4. \A v : ToUpper(NfcText(v)) = "DATE" <=> ToUpper(v) = "DATE"
  BY WordsStay DEF Words
<1>5. CASE HasValueDate(p)
  <2>1. PICK v \in ParamValue(p, "VALUE") : ToUpper(v) = "DATE"
    BY <1>5 DEF HasValueDate
  <2>2. ToUpper(NfcText(v)) \in ParamValue(r, "VALUE")
    BY <1>2, <1>3, <1>5
  <2>3. ToUpper(ToUpper(NfcText(v))) = "DATE"
    BY <1>4, <2>1, CapitalsStay
  <2>4. HasValueDate(r)
    BY <2>2, <2>3 DEF HasValueDate
  <2> QED
    BY <1>5, <2>4 DEF r
<1>6. CASE ~HasValueDate(p)
  <2>1. \A v \in ParamValue(p, "VALUE") : ToUpper(v) # "DATE"
    BY <1>6 DEF HasValueDate
  <2>2. \A w \in ParamValue(r, "VALUE") : ToUpper(w) # "DATE"
    <3> TAKE w \in ParamValue(r, "VALUE")
    <3>1. PICK v \in ParamValue(p, "VALUE") : w = NfcText(v)
      BY <1>2, <1>3, <1>6
    <3> QED
      BY <1>4, <2>1, <3>1
  <2>3. ~HasValueDate(r)
    BY <2>2 DEF HasValueDate
  <2> QED
    BY <1>6, <2>3 DEF r
<1> QED
  BY <1>5, <1>6

\* A zone that gives a wall time no instant gives it none in another calendar.
ZoneStays(value, tzid, cal, other) ==
  /\ NfcText(tzid) = tzid
  /\ AtMostOne(ParseTimeWithTZID(value, tzid, cal))
  /\ ParseTimeWithTZID(value, tzid, cal) = {} => ParseTimeWithTZID(value, tzid, other) = {}

LEMMA TimeStays ==
  ASSUME NEW p, TypedProperty(p), IsDateTimeProperty(p), NEW cal, NEW other,
         \A tzid \in ParamValue(p, "TZID") : ZoneStays(p.value, tzid, cal, other)
  PROVE  TimeOfOne(PrepareProperty(p, cal), other) = TimeOfOne(p, cal)
<1> DEFINE r == PrepareProperty(p, cal)
           Z == ParamValue(p, "TZID")
           T == Resolved(p, cal)
<1>1. /\ IsSeq(p.params)
      /\ DateOnly(p) <=> HasValueDate(p)
      /\ \A q : ~(ToUpper(p.name) = "ATTACH" /\ Inlined(q))
      /\ ~HasValueDate(p) => T = UNION {ParseTimeWithTZID(p.value, tzid, cal) : tzid \in Z}
  BY DatedIs
<1>2. HasValueDate(r) <=> HasValueDate(p)
  BY DateStays
<1>3. /\ r.params = PreparedParams(p, DateOnly(p) \/ T # {})
      /\ T = {} => r.value = Nfc(p.value)
      /\ T # {} => r.value = <<"utc", CHOOSE t \in T : TRUE>>
  BY PreparedIs DEF PrepareProperty, Prepared, Property
<1> HIDE DEF r, T
<1>4. CASE HasValueDate(p)
  BY <1>2, <1>4 DEF TimeOfOne, r
<1>5. CASE ~HasValueDate(p) /\ T = {}
  <2>1. r.params = PreparedParams(p, FALSE) /\ ~DateOnly(p) /\ \A q : ~Dropped(q, p, FALSE)
    <3>1. (DateOnly(p) \/ T # {}) = FALSE
      BY <1>1, <1>5
    <3> QED
      BY <1>1, <1>3, <3>1 DEF Dropped
  <2>2. ParamValue(r, "TZID") = {NfcText(v) : v \in Z}
    <3> DEFINE name == "TZID"
    <3> HIDE DEF name
    <3>1. /\ AtMostOne(ParamValue(p, name))
          /\ ~(DateOnly(p) /\ name = "VALUE") =>
               ParamValue(r, name) = {NfcText(v) : v \in ParamValue(p, name)}
      BY <1>1, <2>1, ParamPrepared
    <3> QED
      BY <2>1, <3>1 DEF name
  <2>3. ParamValue(r, "TZID") = Z
    <3>1. \A v \in Z : NfcText(v) = v
      BY DEF ZoneStays
    <3> QED
      BY <2>2, <3>1
  <2> HIDE DEF Z
  <2>4. \A v \in Z : ParseTimeWithTZID(p.value, v, cal) = {}
    BY <1>1, <1>5
  <2>5. \A v \in Z : ParseTimeWithTZID(p.value, v, other) = {}
    BY <2>4 DEF ZoneStays, Z
  <2>6. \A v \in Z : ParseTimeWithTZID(r.value, v, other) = {}
    <3>1. CASE p.value[1] = "text"
      <4>1. r.value[1] = "text"
        BY <1>3, <1>5, <3>1, KindStays
      <4> QED
        BY <4>1 DEF ParseTimeWithTZID
    <3>2. CASE p.value[1] # "text"
      BY <1>3, <1>5, <2>5, <3>2, KindStays
    <3> QED
      BY <3>1, <3>2
  <2>7. ParseTime(r.value) = ParseTime(p.value)
    BY <1>3, <1>5, ReadingStays
  <2>8. /\ UNION {ParseTimeWithTZID(p.value, v, cal) : v \in Z} = {}
        /\ UNION {ParseTimeWithTZID(r.value, v, other) : v \in Z} = {}
    BY <2>4, <2>6
  <2>9. /\ TimeOfOne(p, cal) = IF Z = {} THEN ParseTime(p.value) ELSE {}
        /\ TimeOfOne(r, other) = IF Z = {} THEN ParseTime(r.value) ELSE {}
    BY <1>2, <1>5, <2>3, <2>8 DEF TimeOfOne, Z
  <2> QED
    BY <2>7, <2>9 DEF r
<1>6. CASE ~HasValueDate(p) /\ T # {}
  <2>1. r.params = PreparedParams(p, TRUE) /\ ~DateOnly(p)
    <3>1. (DateOnly(p) \/ T # {}) = TRUE
      BY <1>6
    <3> QED
      BY <1>1, <1>3, <1>6, <3>1
  <2>2. \A q : ToUpper(q.name) = "TZID" => Dropped(q, p, TRUE)
    BY DEF Dropped
  <2>3. IsSeq(r.params) /\ \A x \in Range(r.params) : ToUpper(x.name) # "TZID"
    <3>1. /\ IsSeq(PreparedParams(p, TRUE))
          /\ Range(PreparedParams(p, TRUE)) =
               {Param(q.name, PreparedValue(q, p)) :
                  q \in {x \in Range(p.params) : ~Dropped(x, p, TRUE)}}
      BY <1>1, PreparedParamsAre
    <3>2. ASSUME NEW x \in Range(r.params)
          PROVE  ToUpper(x.name) # "TZID"
      <4>1. PICK q \in Range(p.params) :
              ~Dropped(q, p, TRUE) /\ x = Param(q.name, PreparedValue(q, p))
        BY <2>1, <3>1
      <4>2. x.name = q.name
        BY <4>1, ParamIs
      <4> QED
        BY <2>2, <4>1, <4>2
    <3> QED
      BY <2>1, <3>1, <3>2
  <2>4. ParamValue(r, "TZID") = {}
    BY <2>3, NamedIs DEF ParamValue
  <2>5. AtMostOne(Z)
    <3> DEFINE s == Named(p.params, "TZID")
    <3>1. IsSeq(s)
      <4>1. Picks(s, p.params, PlacesOf(p.params, "TZID"))
        BY <1>1, NamedIs
      <4> QED
        BY <4>1 DEF Picks
    <3>2. Z = {q.value : q \in First(s)}
      BY DEF ParamValue
    <3> HIDE DEF s, Z
    <3>3. AtMostOne(First(s))
      BY <3>1, FirstOfMapped
    <3> QED
      BY <3>2, <3>3 DEF AtMostOne
  <2>6. PICK z \in Z : Z = {z}
    <3>1. Z # {}
      BY <1>1, <1>6
    <3> QED
      BY <2>5, <3>1 DEF AtMostOne
  <2>7. T = ParseTimeWithTZID(p.value, z, cal)
    BY <1>1, <1>6, <2>6
  <2>8. AtMostOne(T)
    BY <2>6, <2>7 DEF ZoneStays
  <2>9. PICK t : T = {t}
    BY <1>6, <2>8 DEF AtMostOne
  <2>10. r.value = <<"utc", t>>
    <3>1. (CHOOSE x \in {t} : TRUE) = t
      OBVIOUS
    <3> QED
      BY <1>3, <1>6, <2>9, <3>1
  <2>11. ParseTime(r.value) = {t}
    BY <2>10 DEF ParseTime
  <2>12. TimeOfOne(r, other) = {t}
    BY <1>2, <1>6, <2>4, <2>11 DEF TimeOfOne
  <2>13. TimeOfOne(p, cal) = T
    BY <1>1, <1>6, <2>6 DEF TimeOfOne
  <2> QED
    BY <2>9, <2>12, <2>13 DEF r
<1> QED
  BY <1>4, <1>5, <1>6

-----------------------------------------------------------------------------
(* Zones in the canonical form. *)

\* d is c, prepared in the calendar cal.
PreparedAs(d, c, cal) ==
  d.type = c.type /\ d.props = PreparedProps(FilterHash(c.props), cal)

LEMMA UndatedFound ==
  ASSUME NEW c, TypedProps(c.props), NEW cal, NEW d, PreparedAs(d, c, cal),
         NEW name, name # "X-VSTAR-HASH", name \notin DateTimeProperties
  PROVE  /\ AtMostOne(Get(c, name))
         /\ Get(d, name) = {PrepareProperty(p, cal) : p \in Get(c, name)}
         /\ \A p \in Get(c, name) :
              PrepareProperty(p, cal).value = Nfc(p.value) /\ ToUpper(p.name) = name
<1>1. /\ Get(d, name) = {PrepareProperty(p, cal) : p \in Get(c, name)}
      /\ AtMostOne(Get(c, name))
      /\ \A p \in Get(c, name) : TypedProperty(p) /\ ToUpper(p.name) = name
  BY GetPrepared DEF PreparedAs
<1>2. \A p \in Get(c, name) : ~IsDateTimeProperty(p)
  BY <1>1 DEF IsDateTimeProperty
<1> QED
  BY <1>1, <1>2, UndatedIs

LEMMA YearlyIs ==
  ASSUME NEW c
  PROVE  ParseTZRule(c).yearly <=>
           Get(c, "RRULE") # {} /\ \A p \in Get(c, "RRULE") : p.value[2] # <<>>
<1> DEFINE s == GetAll(c, "RRULE")
           wire == IF Get(c, "RRULE") = {} THEN <<>> ELSE s[1].value[2]
<1>1. ParseTZRule(c).yearly <=> wire # <<>>
  BY DEF ParseTZRule
<1>2. Get(c, "RRULE") = {} \/ Get(c, "RRULE") = {s[1]}
  BY DEF Get, First
<1> HIDE DEF s
<1> QED
  BY <1>1, <1>2

\* An observance that is read in the canonical form is read as it is written.
LEMMA ObservanceStays ==
  ASSUME NEW c, TypedProps(c.props), NEW cal, NEW d, PreparedAs(d, c, cal), ReadableRule(d)
  PROVE  ReadableRule(c) /\ (ParseTZRule(d).yearly <=> ParseTZRule(c).yearly)
<1>1. ASSUME NEW name \in {"TZOFFSETTO", "TZOFFSETFROM", "RRULE"}
      PROVE  /\ AtMostOne(Get(c, name))
             /\ Get(d, name) = {PrepareProperty(p, cal) : p \in Get(c, name)}
             /\ \A p \in Get(c, name) : PrepareProperty(p, cal).value = Nfc(p.value)
  <2>1. name # "X-VSTAR-HASH" /\ name \notin DateTimeProperties
    BY DEF DateTimeProperties
  <2> QED
    BY <2>1, UndatedFound
<1>2. \A name \in {"TZOFFSETTO", "TZOFFSETFROM"} : \E p \in Get(c, name) : p.value[1] = "offset"
  <2> TAKE name \in {"TZOFFSETTO", "TZOFFSETFROM"}
  <2>1. PICK x \in Get(d, name) : x.value[1] = "offset"
    BY DEF ReadableRule
  <2>2. PICK p \in Get(c, name) : x = PrepareProperty(p, cal)
    BY <1>1, <2>1
  <2> QED
    BY <1>1, <2>1, <2>2, KindStays
<1>3. \E p \in Get(c, "DTSTART") : p.value[1] = "wall"
  <2>1. PICK x \in Get(d, "DTSTART") : x.value[1] = "wall"
    BY DEF ReadableRule
  <2>2. Get(d, "DTSTART") = {PrepareProperty(p, cal) : p \in Get(c, "DTSTART")}
    <3> DEFINE name == "DTSTART"
    <3>1. name # "X-VSTAR-HASH"
      OBVIOUS
    <3> HIDE DEF name
    <3>2. /\ Get(d, name) = {PrepareProperty(p, cal) : p \in Get(c, name)}
          /\ AtMostOne(Get(c, name))
      BY <3>1, GetPrepared DEF PreparedAs
    <3> QED
      BY <3>2 DEF name
  <2>3. PICK p \in Get(c, "DTSTART") : x = PrepareProperty(p, cal)
    BY <2>1, <2>2
  <2>4. CASE Resolved(p, cal) = {}
    BY <2>1, <2>3, <2>4, PreparedIs, KindStays
  <2>5. CASE Resolved(p, cal) # {}
    <3>1. x.value = <<"utc", CHOOSE t \in Resolved(p, cal) : TRUE>>
      BY <2>3, <2>5 DEF PrepareProperty, Prepared, Property
    <3> QED
      BY <2>1, <3>1
  <2> QED
    BY <2>4, <2>5
<1>4. \A p \in Get(c, "RRULE") : PrepareProperty(p, cal).value = p.value
  <2> TAKE p \in Get(c, "RRULE")
  <2>1. PrepareProperty(p, cal) \in Get(d, "RRULE") /\ PrepareProperty(p, cal).value = Nfc(p.value)
    BY <1>1
  <2>2. Nfc(p.value)[1] = "rule"
    BY <2>1 DEF ReadableRule
  <2> QED
    BY <2>1, <2>2, KindStays
<1>5. \A p \in Get(c, "RRULE") : p.value[1] = "rule" /\ Yearly(p.value[2])
  BY <1>1, <1>4 DEF ReadableRule
<1>6. ReadableRule(c)
  BY <1>2, <1>3, <1>5 DEF ReadableRule
<1>7. /\ Get(d, "RRULE") = {} <=> Get(c, "RRULE") = {}
      /\ (\A x \in Get(d, "RRULE") : x.value[2] # <<>>) <=>
           (\A p \in Get(c, "RRULE") : p.value[2] # <<>>)
  <2>1. Get(d, "RRULE") = {PrepareProperty(p, cal) : p \in Get(c, "RRULE")}
    BY <1>1
  <2> QED
    BY <1>4, <2>1
<1> QED
  BY <1>6, <1>7, YearlyIs

\* The observances of a zone.
Observances(tz) == SubsByType(tz, "STANDARD") \o SubsByType(tz, "DAYLIGHT")

Loadable(tz) ==
  /\ ~(Len(SubsByType(tz, "STANDARD")) > 1 \/ Len(SubsByType(tz, "DAYLIGHT")) > 1)
  /\ Observances(tz) # <<>>
  /\ \A c \in ToSet(Observances(tz)) : ReadableRule(c)
  /\ Len(Observances(tz)) = 2 =>
       ParseTZRule(Observances(tz)[1]).yearly /\ ParseTZRule(Observances(tz)[2]).yearly

LEMMA LoadIs ==
  ASSUME NEW tz, IsSeq(Observances(tz))
  PROVE  LoadTZRules(tz) # <<>> <=> Loadable(tz)
<1> DEFINE cs == Observances(tz)
           rs == [i \in DOMAIN cs |-> ParseTZRule(cs[i])]
           Rules == IF \A c \in ToSet(cs) : ReadableRule(c) THEN rs ELSE <<>>
           Many == Len(SubsByType(tz, "STANDARD")) > 1 \/ Len(SubsByType(tz, "DAYLIGHT")) > 1
<1>1. LoadTZRules(tz) = IF Many THEN <<>>
                        ELSE IF Len(Rules) = 2 => Rules[1].yearly /\ Rules[2].yearly
                             THEN Rules ELSE <<>>
  BY Zenon DEF LoadTZRules, Observances
<1>2. Len(cs) \in Nat /\ DOMAIN cs = 1..Len(cs) /\ (cs = <<>> <=> Len(cs) = 0)
  BY IsSeqProperties
<1> HIDE DEF cs, Many
<1>3. IsSeq(rs) /\ Len(rs) = Len(cs)
  <2>1. rs = [i \in DOMAIN cs |-> rs[i]]
    OBVIOUS
  <2>2. IsSeq(cs)
    BY DEF cs
  <2> HIDE DEF rs
  <2> QED
    BY <2>1, <2>2, MappedIs
<1>4. rs # <<>> <=> cs # <<>>
  BY <1>2, <1>3, IsSeqProperties
<1>5. \A i \in 1..Len(cs) : rs[i] = ParseTZRule(cs[i])
  BY <1>2
<1> HIDE DEF rs
<1>6. Loadable(tz) <=>
        /\ ~Many /\ cs # <<>>
        /\ \A c \in ToSet(cs) : ReadableRule(c)
        /\ Len(cs) = 2 => ParseTZRule(cs[1]).yearly /\ ParseTZRule(cs[2]).yearly
  BY DEF Loadable, Many, cs
<1>7. Len(cs) = 2 => rs[1] = ParseTZRule(cs[1]) /\ rs[2] = ParseTZRule(cs[2])
  BY <1>5
<1>8. CASE \A c \in ToSet(cs) : ReadableRule(c)
  <2>1. Rules = rs
    BY <1>8
  <2> HIDE DEF Rules
  <2> QED
    BY <1>1, <1>3, <1>4, <1>6, <1>7, <1>8, <2>1
<1>9. CASE ~\A c \in ToSet(cs) : ReadableRule(c)
  <2>1. Rules = <<>>
    BY <1>9
  <2> HIDE DEF Rules
  <2> QED
    BY <1>1, <1>6, <1>9, <2>1
<1> QED
  BY <1>8, <1>9

\* The nested components of a prepared component are those it had, prepared.
SubsPrepared(s, t, cal) ==
  /\ IsSeq(s) /\ IsSeq(t) /\ Len(t) = Len(s)
  /\ \A i \in 1..Len(s) : TypedProps(s[i].props) /\ PreparedAs(t[i], s[i], cal)

LEMMA NestedIs ==
  ASSUME NEW c, NEW cal
  PROVE  PreparedAs(PrepareNested(c, cal), c, cal)
BY DEF PreparedAs, PrepareNested

LEMMA PreparedSub ==
  ASSUME NEW c, TypedComponent(c), NEW cal
  PROVE  /\ PreparedAs(PrepareComponent(c, cal), c, cal)
         /\ SubsPrepared(c.sub, PrepareComponent(c, cal).sub, cal)
<1> DEFINE s == c.sub
           t == [i \in DOMAIN s |-> PrepareNested(s[i], cal)]
<1>1. PreparedAs(PrepareComponent(c, cal), c, cal) /\ PrepareComponent(c, cal).sub = t
  BY DEF PreparedAs, PrepareComponent
<1>2. IsSeq(s) /\ \A x \in Range(s) : TypedProps(x.props)
  BY TypedComponentIs DEF TypedNested
<1> HIDE DEF s
<1>3. DOMAIN s = 1..Len(s)
  BY <1>2, IsSeqProperties
<1>4. t = [i \in DOMAIN s |-> t[i]] /\ \A i \in 1..Len(s) : t[i] = PrepareNested(s[i], cal)
  BY <1>3
<1> HIDE DEF t
<1>5. IsSeq(t) /\ Len(t) = Len(s)
  BY <1>2, <1>4, MappedIs
<1>6. \A i \in 1..Len(s) : TypedProps(s[i].props) /\ PreparedAs(t[i], s[i], cal)
  BY <1>2, <1>3, <1>4, NestedIs DEF Range
<1> QED
  BY <1>1, <1>2, <1>5, <1>6 DEF SubsPrepared, s

LEMMA SubsByTypeStay ==
  ASSUME NEW c, NEW d, NEW cal, SubsPrepared(c.sub, d.sub, cal), NEW type
  PROVE  SubsPrepared(SubsByType(c, type), SubsByType(d, type), cal)
<1> DEFINE s == c.sub
           t == d.sub
           I == {i \in DOMAIN s : s[i].type = type}
           J == {i \in DOMAIN t : t[i].type = type}
<1>1. SubsByType(c, type) = Picked(s, I) /\ SubsByType(d, type) = Picked(t, J)
  BY DEF SubsByType
<1>2. /\ IsSeq(s) /\ IsSeq(t) /\ Len(t) = Len(s)
      /\ \A i \in 1..Len(s) : TypedProps(s[i].props) /\ PreparedAs(t[i], s[i], cal)
  BY DEF SubsPrepared
<1> HIDE DEF s, t
<1>3. DOMAIN s = 1..Len(s) /\ DOMAIN t = 1..Len(s)
  BY <1>2, IsSeqProperties
<1>4. J = I /\ I \subseteq DOMAIN s /\ I \subseteq DOMAIN t /\ I \subseteq 1..Len(s)
  BY <1>2, <1>3 DEF PreparedAs
<1> HIDE DEF I, J
<1>5. Picks(Picked(s, I), s, I) /\ Picks(Picked(t, I), t, I)
  BY <1>2, <1>4, PickedIs
<1> DEFINE u == Picked(s, I)
           v == Picked(t, I)
<1> HIDE DEF u, v
<1>6. /\ IsSeq(u) /\ IsSeq(v) /\ Len(v) = Len(u)
      /\ \A k \in 1..Len(u) : \E i \in 1..Len(s) : u[k] = s[i] /\ v[k] = t[i]
  BY <1>4, <1>5 DEF Picks, u, v
<1>7. SubsPrepared(u, v, cal)
  BY <1>2, <1>6 DEF SubsPrepared
<1> QED
  BY <1>1, <1>4, <1>7 DEF u, v

LEMMA ObservancesStay ==
  ASSUME NEW c, NEW d, NEW cal, SubsPrepared(c.sub, d.sub, cal)
  PROVE  SubsPrepared(Observances(c), Observances(d), cal)
<1> DEFINE s1 == SubsByType(c, "STANDARD")
           s2 == SubsByType(c, "DAYLIGHT")
           t1 == SubsByType(d, "STANDARD")
           t2 == SubsByType(d, "DAYLIGHT")
           s == s1 \o s2
           t == t1 \o t2
<1>1. SubsPrepared(s1, t1, cal) /\ SubsPrepared(s2, t2, cal)
  BY SubsByTypeStay
<1> HIDE DEF s1, s2, t1, t2
<1>2. /\ IsSeq(s1) /\ IsSeq(t1) /\ Len(t1) = Len(s1)
      /\ IsSeq(s2) /\ IsSeq(t2) /\ Len(t2) = Len(s2)
      /\ \A i \in 1..Len(s1) : TypedProps(s1[i].props) /\ PreparedAs(t1[i], s1[i], cal)
      /\ \A i \in 1..Len(s2) : TypedProps(s2[i].props) /\ PreparedAs(t2[i], s2[i], cal)
  BY <1>1 DEF SubsPrepared
<1>3. Len(s1) \in Nat /\ Len(s2) \in Nat
  BY <1>2, IsSeqProperties
<1>4. /\ IsSeq(s) /\ Len(s) = Len(s1) + Len(s2)
      /\ \A k \in 1..Len(s1) : s[k] = s1[k]
      /\ \A k \in 1..Len(s2) : s[Len(s1) + k] = s2[k]
  BY <1>2, ConcatRange
<1>5. /\ IsSeq(t) /\ Len(t) = Len(s1) + Len(s2)
      /\ \A k \in 1..Len(s1) : t[k] = t1[k]
      /\ \A k \in 1..Len(s2) : t[Len(s1) + k] = t2[k]
  <2>1. /\ IsSeq(t) /\ Len(t) = Len(t1) + Len(t2)
        /\ \A k \in 1..Len(t1) : t[k] = t1[k]
        /\ \A k \in 1..Len(t2) : t[Len(t1) + k] = t2[k]
    <3>1. IsSeq(t1) /\ IsSeq(t2)
      BY <1>2
    <3> QED
      BY ONLY <3>1, ConcatRange DEF t
  <2>2. Len(t1) = Len(s1) /\ Len(t2) = Len(s2)
    BY <1>2
  <2> QED
    BY ONLY <2>1, <2>2
<1> HIDE DEF s, t
<1>6. \A i \in 1..Len(s) : TypedProps(s[i].props) /\ PreparedAs(t[i], s[i], cal)
  <2> TAKE i \in 1..Len(s)
  <2>1. CASE i \in 1..Len(s1)
    BY <1>2, <1>4, <1>5, <2>1
  <2>2. CASE i \notin 1..Len(s1)
    <3> DEFINE k == i - Len(s1)
    <3>1. k \in 1..Len(s2) /\ i = Len(s1) + k
      BY <1>3, <1>4, <2>2
    <3> HIDE DEF k
    <3> QED
      BY <1>2, <1>4, <1>5, <3>1
  <2> QED
    BY <2>1, <2>2
<1>7. SubsPrepared(s, t, cal)
  BY <1>4, <1>5, <1>6 DEF SubsPrepared
<1> QED
  BY <1>7 DEF Observances, s, t, s1, s2, t1, t2

\* A zone that gives an offset in the canonical form gives one as it is written.
LEMMA ZoneLoads ==
  ASSUME NEW c, NEW d, NEW cal, SubsPrepared(c.sub, d.sub, cal), LoadTZRules(d) # <<>>
  PROVE  LoadTZRules(c) # <<>>
<1> DEFINE s == Observances(c)
           t == Observances(d)
<1>1. SubsPrepared(s, t, cal)
  BY ObservancesStay
<1>2. /\ IsSeq(s) /\ IsSeq(t) /\ Len(t) = Len(s)
      /\ \A i \in 1..Len(s) : TypedProps(s[i].props) /\ PreparedAs(t[i], s[i], cal)
  BY <1>1 DEF SubsPrepared
<1>3. Loadable(d)
  BY <1>2, LoadIs
<1>4. /\ Len(SubsByType(d, "STANDARD")) = Len(SubsByType(c, "STANDARD"))
      /\ Len(SubsByType(d, "DAYLIGHT")) = Len(SubsByType(c, "DAYLIGHT"))
  BY SubsByTypeStay DEF SubsPrepared
<1>5. /\ t # <<>> /\ (\A x \in ToSet(t) : ReadableRule(x))
      /\ Len(t) = 2 => ParseTZRule(t[1]).yearly /\ ParseTZRule(t[2]).yearly
  BY <1>3 DEF Loadable
<1>6. /\ Len(s) \in Nat /\ DOMAIN s = 1..Len(s) /\ DOMAIN t = 1..Len(s)
      /\ s = <<>> <=> Len(s) = 0
      /\ t = <<>> <=> Len(s) = 0
  BY <1>2, IsSeqProperties
<1> HIDE DEF s, t
<1>7. ASSUME NEW i \in 1..Len(s)
      PROVE  ReadableRule(s[i]) /\ (ParseTZRule(t[i]).yearly <=> ParseTZRule(s[i]).yearly)
  <2>1. ReadableRule(t[i])
    BY <1>5, <1>6 DEF ToSet
  <2> QED
    BY <1>2, <2>1, ObservanceStays
<1>8. /\ s # <<>> /\ (\A x \in ToSet(s) : ReadableRule(x))
      /\ Len(s) = 2 => ParseTZRule(s[1]).yearly /\ ParseTZRule(s[2]).yearly
  <2>1. \A x \in ToSet(s) : ReadableRule(x)
    BY <1>6, <1>7 DEF ToSet
  <2>2. Len(s) = 2 => ParseTZRule(s[1]).yearly /\ ParseTZRule(s[2]).yearly
    <3> SUFFICES ASSUME Len(s) = 2
                 PROVE  ParseTZRule(s[1]).yearly /\ ParseTZRule(s[2]).yearly
      OBVIOUS
    <3>1. 1 \in 1..Len(s) /\ 2 \in 1..Len(s)
      OBVIOUS
    <3> QED
      BY <1>2, <1>5, <1>7, <3>1
  <2> QED
    BY <1>5, <1>6, <2>1, <2>2
<1>9. Loadable(c)
  BY <1>3, <1>4, <1>8 DEF Loadable, s
<1> QED
  BY <1>2, <1>9, LoadIs DEF s

LEMMA GetIs ==
  ASSUME NEW c, TypedProps(c.props), NEW name
  PROVE  Get(c, name) \subseteq {p \in Range(c.props) : ToUpper(p.name) = name}
BY TypedPropsIs, NamedIs DEF Get, GetAll

-----------------------------------------------------------------------------
(* What FindVTimezone finds in the canonical form. *)

IsZone(c, tzid) ==
  c.type = "VTIMEZONE" /\ \E p \in Get(c, "TZID") : p.value = <<"text", tzid>>

ZonePlaces(tzid, cal) == {i \in DOMAIN cal : IsZone(cal[i], tzid)}

LEMMA FindIs ==
  ASSUME NEW tzid, NEW cal
  PROVE  FindVTimezone(tzid, cal) = First(Picked(cal, ZonePlaces(tzid, cal)))
BY DEF FindVTimezone, ZonePlaces, IsZone

\* A zone is sorted by its name.
LEMMA ZoneKeyIs ==
  ASSUME NEW c, AtMostOne(Get(c, "TZID")), NEW tzid, IsZone(c, tzid)
  PROVE  ComponentSortKey(c) = tzid
<1>1. PICK p \in Get(c, "TZID") : p.value = <<"text", tzid>>
  BY DEF IsZone
<1>2. Get(c, "TZID") = {p}
  BY <1>1 DEF AtMostOne
<1> DEFINE T == {x.value[2] : x \in Get(c, "TZID")}
           one(s) == IF s = {} THEN NoKey ELSE CHOOSE x \in s : TRUE
<1>3. T = {tzid}
  BY <1>1, <1>2
<1>4. ComponentSortKey(c) =
        IF (c.type = "VTIMEZONE" /\ T # {}) \/ UID(c) = NoText THEN one(T) ELSE UID(c)
  BY Zenon DEF ComponentSortKey
<1>5. one({tzid}) = tzid
  OBVIOUS
<1> HIDE DEF T, one
<1>6. c.type = "VTIMEZONE" /\ T # {}
  BY <1>3 DEF IsZone
<1> QED
  BY <1>3, <1>4, <1>5, <1>6

\* Sorting the components leaves the zones of one name in their order.
LEMMA ZonesSorted ==
  ASSUME NEW s, IsSeq(s), \A i \in 1..Len(s) : AtMostOne(Get(s[i], "TZID")), NEW tzid
  PROVE  /\ IsSeq(SortedComponents(s)) /\ Range(SortedComponents(s)) = Range(s)
         /\ Picked(SortedComponents(s), ZonePlaces(tzid, SortedComponents(s)))
              = Picked(s, ZonePlaces(tzid, s))
<1> DEFINE keys == [i \in DOMAIN s |-> ComponentSortKey(s[i])]
           n == Len(s)
           perm == Order(keys)
           t == SortedBy(keys, s)
           I == ZonePlaces(tzid, s)
           J == ZonePlaces(tzid, t)
<1>1. n \in Nat /\ DOMAIN s = 1..n
  BY IsSeqProperties
<1>2. IsSeq(keys) /\ Len(keys) = n /\ \A i \in 1..n : keys[i] = ComponentSortKey(s[i])
  <2>1. keys = [i \in DOMAIN s |-> keys[i]]
    OBVIOUS
  <2>2. \A i \in 1..n : keys[i] = ComponentSortKey(s[i])
    BY <1>1
  <2> HIDE DEF keys
  <2> QED
    BY <2>1, <2>2, MappedIs
<1>3. SortedComponents(s) = t
  BY DEF SortedComponents
<1> HIDE DEF keys
<1>4. Stable(perm, keys, n)
  BY <1>2, OrderIsStable
<1>5. IsSeq(t) /\ Len(t) = n /\ Range(t) = Range(s) /\ \A k \in 1..n : t[k] = s[perm[k]]
  BY <1>2, SortedKeeps
<1>6. DOMAIN t = 1..n
  BY <1>5, IsSeqProperties
<1> HIDE DEF perm, t, n
<1>7. /\ perm \in [1..n -> 1..n]
      /\ \A i \in 1..n : \E k \in 1..n : perm[k] = i
      /\ \A j, k \in 1..n : j < k /\ keys[perm[j]] = keys[perm[k]] => perm[j] < perm[k]
  BY <1>4 DEF Stable
<1>8. /\ I = {i \in 1..n : IsZone(s[i], tzid)}
      /\ J = {k \in 1..n : IsZone(s[perm[k]], tzid)}
  BY <1>1, <1>5, <1>6 DEF ZonePlaces
<1>9. \A i \in I : keys[i] = tzid
  BY <1>2, <1>8, ZoneKeyIs DEF n
<1> HIDE DEF I, J
<1>10. \A k \in J : perm[k] \in I /\ t[k] = s[perm[k]]
  BY <1>5, <1>7, <1>8
<1>11. \A j, k \in J : j < k => perm[j] < perm[k]
  <2>1. J \subseteq 1..n
    BY <1>8
  <2>2. \A k \in J : keys[perm[k]] = tzid
    BY <1>9, <1>10
  <2> QED
    BY <1>7, <2>1, <2>2
<1>12. \A i \in I : \E k \in J : perm[k] = i
  BY <1>7, <1>8
<1>13. I \subseteq DOMAIN s /\ J \subseteq DOMAIN t
  BY <1>1, <1>6, <1>8
<1>14. Picked(t, J) = Picked(s, I)
  BY <1>5, <1>10, <1>11, <1>12, <1>13, PickedKept
<1> QED
  BY <1>3, <1>5, <1>14 DEF I, J

\* The zone properties of a component are in normal form.
NormalZone(c) == \A p \in Range(c.props) : ToUpper(p.name) = "TZID" => Nfc(p.value) = p.value

LEMMA ZoneIsPrepared ==
  ASSUME NEW c, TypedComponent(c), NormalZone(c), NEW cal, NEW tzid
  PROVE  /\ AtMostOne(Get(c, "TZID"))
         /\ IsZone(PrepareComponent(c, cal), tzid) <=> IsZone(c, tzid)
<1> DEFINE d == PrepareComponent(c, cal)
           name == "TZID"
<1>1. PreparedAs(d, c, cal)
  BY PreparedSub
<1>2. TypedProps(c.props)
  BY TypedComponentIs DEF TypedNested
<1>3. name # "X-VSTAR-HASH" /\ name \notin DateTimeProperties
  BY DEF DateTimeProperties
<1>4. \A p \in Range(c.props) : ToUpper(p.name) = name => Nfc(p.value) = p.value
  BY DEF NormalZone
<1> HIDE DEF d, name
<1>5. /\ AtMostOne(Get(c, name))
      /\ Get(d, name) = {PrepareProperty(p, cal) : p \in Get(c, name)}
      /\ \A p \in Get(c, name) : PrepareProperty(p, cal).value = Nfc(p.value)
  BY <1>1, <1>2, <1>3, UndatedFound
<1>6. \A p \in Get(c, name) : p \in Range(c.props) /\ ToUpper(p.name) = name
  BY <1>2, GetIs
<1>7. \A p \in Get(c, name) : PrepareProperty(p, cal).value = p.value
  BY <1>4, <1>5, <1>6
<1>8. (\E x \in Get(d, name) : x.value = <<"text", tzid>>)
        <=> \E p \in Get(c, name) : p.value = <<"text", tzid>>
  BY <1>5, <1>7
<1>9. d.type = c.type
  BY <1>1 DEF PreparedAs
<1> QED
  BY <1>5, <1>8, <1>9 DEF IsZone, d, name

\* The zone that a name finds in the canonical form is the one it finds, prepared.
LEMMA FindStays ==
  ASSUME NEW cal, DocumentTyped(cal), \A c \in Range(cal) : NormalZone(c), NEW tzid
  PROVE  /\ AtMostOne(FindVTimezone(tzid, cal))
         /\ FindVTimezone(tzid, CanonicalCalendar(cal))
              = {PrepareComponent(z, cal) : z \in FindVTimezone(tzid, cal)}
         /\ FindVTimezone(tzid, cal) \subseteq Range(cal)
<1> DEFINE s == SortedComponents(cal)
           t == [i \in DOMAIN s |-> PrepareComponent(s[i], cal)]
           I == ZonePlaces(tzid, s)
           J == ZonePlaces(tzid, t)
           u == Picked(s, I)
           v == Picked(t, J)
<1>1. IsSeq(cal) /\ \A c \in Range(cal) : TypedComponent(c)
  BY DEF DocumentTyped
<1>2. \A i \in 1..Len(cal) : cal[i] \in Range(cal)
  BY <1>1, IsSeqProperties DEF Range
<1>3. \A i \in 1..Len(cal) : AtMostOne(Get(cal[i], "TZID"))
  BY <1>1, <1>2, ZoneIsPrepared
<1>4. IsSeq(s) /\ Range(s) = Range(cal) /\ u = Picked(cal, ZonePlaces(tzid, cal))
  BY <1>1, <1>3, ZonesSorted
<1>5. CanonicalCalendar(cal) = t
  BY DEF CanonicalCalendar
<1> HIDE DEF s
<1>6. DOMAIN s = 1..Len(s) /\ Len(s) \in Nat
  BY <1>4, IsSeqProperties
<1>7. t = [i \in DOMAIN s |-> t[i]] /\ \A i \in 1..Len(s) : t[i] = PrepareComponent(s[i], cal)
  BY <1>6
<1> HIDE DEF t
<1>8. IsSeq(t) /\ Len(t) = Len(s)
  BY <1>4, <1>7, MappedIs
<1>9. DOMAIN t = 1..Len(s)
  BY <1>8, IsSeqProperties
<1>10. \A i \in 1..Len(s) : s[i] \in Range(cal) /\ TypedComponent(s[i]) /\ NormalZone(s[i])
  BY <1>1, <1>4, <1>6 DEF Range
<1>11. \A i \in 1..Len(s) : IsZone(t[i], tzid) <=> IsZone(s[i], tzid)
  BY <1>7, <1>10, ZoneIsPrepared
<1>12. J = I /\ I \subseteq DOMAIN s /\ I \subseteq DOMAIN t /\ I \subseteq 1..Len(s)
  BY <1>6, <1>9, <1>11 DEF ZonePlaces
<1> HIDE DEF I, J
<1>13. Picks(Picked(s, I), s, I) /\ Picks(Picked(t, I), t, I)
  BY <1>4, <1>8, <1>12, PickedIs
<1>14. v = Picked(t, I)
  BY <1>12
<1> HIDE DEF u, v
<1>15. /\ IsSeq(u) /\ IsSeq(v) /\ Len(v) = Len(u)
       /\ \A k \in 1..Len(u) : \E i \in 1..Len(s) : u[k] = s[i] /\ v[k] = t[i]
  BY <1>12, <1>13, <1>14 DEF Picks, u
<1>16. \A k \in 1..Len(u) : v[k] = PrepareComponent(u[k], cal) /\ u[k] \in Range(cal)
  BY <1>7, <1>10, <1>15
<1>17. AtMostOne(First(u)) /\ FirstOfBoth(u, v)
  BY <1>15, FirstOfMapped
<1>18. First(v) = {PrepareComponent(z, cal) : z \in First(u)} /\ First(u) \subseteq Range(cal)
  BY <1>16, <1>17 DEF FirstOfBoth
<1>19. FindVTimezone(tzid, cal) = First(u) /\ FindVTimezone(tzid, t) = First(v)
  BY <1>4, FindIs DEF v, J
<1> QED
  BY <1>5, <1>17, <1>18, <1>19

LEMMA WallTimeStays ==
  ASSUME NEW cal, DocumentTyped(cal), \A c \in Range(cal) : NormalZone(c),
         NEW tzid, NfcText(tzid) = tzid, NEW value
  PROVE  ZoneStays(value, tzid, cal, CanonicalCalendar(cal))
<1> DEFINE other == CanonicalCalendar(cal)
           Z == FindVTimezone(tzid, cal)
           Y == FindVTimezone(tzid, other)
           R == {LoadTZRules(tz) : tz \in Z} \ {<<>>}
           Q == {LoadTZRules(tz) : tz \in Y} \ {<<>>}
<1>1. Y = {PrepareComponent(z, cal) : z \in Z} /\ Z \subseteq Range(cal)
  BY FindStays
<1>2. AtMostOne(ParseTimeWithTZID(value, tzid, cal))
  <2> DEFINE I == {i \in DOMAIN cal :
                     /\ cal[i].type = "VTIMEZONE"
                     /\ \E p \in Get(cal[i], "TZID") : p.value = <<"text", tzid>>}
  <2>1. IsSeq(cal) /\ I \subseteq DOMAIN cal
    BY DEF DocumentTyped
  <2> HIDE DEF I
  <2>2. Picks(Picked(cal, I), cal, I)
    BY <2>1, PickedIs
  <2>3. IsSeq(Picked(cal, I))
    BY <2>2 DEF Picks
  <2> QED
    BY <2>3, WallTimeIs DEF I
<1>3. /\ ParseTimeWithTZID(value, tzid, cal) =
           IF tzid = NoText \/ value[1] # "wall" THEN {}
           ELSE {value[2] - SelectActiveRule(value[2], rules) : rules \in R}
      /\ ParseTimeWithTZID(value, tzid, other) =
           IF tzid = NoText \/ value[1] # "wall" THEN {}
           ELSE {value[2] - SelectActiveRule(value[2], rules) : rules \in Q}
  BY Zenon DEF ParseTimeWithTZID
<1>4. R = {} => Q = {}
  <2>1. ASSUME NEW z \in Z, LoadTZRules(PrepareComponent(z, cal)) # <<>>
        PROVE  LoadTZRules(z) # <<>>
    <3>1. TypedComponent(z)
      BY <1>1 DEF DocumentTyped
    <3>2. SubsPrepared(z.sub, PrepareComponent(z, cal).sub, cal)
      BY <3>1, PreparedSub
    <3> QED
      BY <2>1, <3>2, ZoneLoads
  <2> HIDE DEF Y, Z
  <2> QED
    BY <1>1, <2>1
<1> HIDE DEF R, Q, other
<1>5. CASE tzid = NoText \/ value[1] # "wall"
  BY <1>2, <1>3, <1>5 DEF ZoneStays, other
<1>6. CASE ~(tzid = NoText \/ value[1] # "wall")
  <2>1. ParseTimeWithTZID(value, tzid, cal) = {} => R = {}
    BY <1>3, <1>6
  <2>2. Q = {} => ParseTimeWithTZID(value, tzid, other) = {}
    BY <1>3, <1>6
  <2> QED
    BY <1>2, <1>4, <2>1, <2>2 DEF ZoneStays, other
<1> QED
  BY <1>5, <1>6

\* A calendar that names no zone in two normal forms.
NormalCalendar(cal) ==
  \A c \in Range(cal) :
    /\ NormalZone(c)
    /\ \A p \in Range(c.props) : \A q \in Range(p.params) :
         ToUpper(q.name) = "TZID" => NfcText(q.value) = q.value

LEMMA ZoneParamIs ==
  ASSUME NEW p, TypedProperty(p), NEW tzid \in ParamValue(p, "TZID")
  PROVE  \E q \in Range(p.params) : ToUpper(q.name) = "TZID" /\ tzid = q.value
<1>1. IsSeq(p.params)
  BY TypedPropertyIs DEF TypedParams
<1>2. First(Named(p.params, "TZID")) \subseteq {x \in Range(p.params) : ToUpper(x.name) = "TZID"}
  BY <1>1, NamedIs
<1>3. PICK q \in First(Named(p.params, "TZID")) : tzid = q.value
  BY DEF ParamValue
<1> QED
  BY <1>2, <1>3

\* A time that a component gives, it gives in the canonical form.
LEMMA TimePropStays ==
  ASSUME NEW cal, DocumentTyped(cal), NormalCalendar(cal), NEW c \in Range(cal),
         NEW name \in DateTimeProperties
  PROVE  TimeProp(PrepareComponent(c, cal), name, CanonicalCalendar(cal)) = TimeProp(c, name, cal)
<1> DEFINE d == PrepareComponent(c, cal)
           other == CanonicalCalendar(cal)
<1>1. TypedComponent(c) /\ TypedProps(c.props)
  BY TypedComponentIs DEF DocumentTyped, TypedNested
<1>2. PreparedAs(d, c, cal)
  BY <1>1, PreparedSub
<1>3. name # "X-VSTAR-HASH"
  BY DEF DateTimeProperties
<1>4. ASSUME NEW p \in Get(c, name)
      PROVE  /\ p \in Range(c.props) /\ TypedProperty(p) /\ IsDateTimeProperty(p)
  <2>1. p \in Range(c.props) /\ ToUpper(p.name) = name
    BY <1>1, GetIs
  <2> QED
    BY <1>1, <2>1, TypedPropsIs DEF IsDateTimeProperty
<1>5. ASSUME NEW p \in Get(c, name)
      PROVE  TimeOfOne(PrepareProperty(p, cal), other) = TimeOfOne(p, cal)
  <2>1. \A z \in Range(cal) : NormalZone(z)
    BY DEF NormalCalendar
  <2>2. ASSUME NEW tzid \in ParamValue(p, "TZID")
        PROVE  ZoneStays(p.value, tzid, cal, other)
    <3>1. PICK q \in Range(p.params) : ToUpper(q.name) = "TZID" /\ tzid = q.value
      BY <1>4, ZoneParamIs
    <3>2. NfcText(tzid) = tzid
      BY <1>4, <3>1 DEF NormalCalendar
    <3> QED
      BY <2>1, <3>2, WallTimeStays
  <2> HIDE DEF other
  <2> QED
    BY <1>4, <2>2, TimeStays
<1> HIDE DEF d, other
<1>6. Get(d, name) = {PrepareProperty(p, cal) : p \in Get(c, name)}
  BY <1>1, <1>2, <1>3, GetPrepared DEF PreparedAs
<1>7. {TimeOfOne(x, other) : x \in Get(d, name)} = {TimeOfOne(p, cal) : p \in Get(c, name)}
  BY <1>5, <1>6
<1> QED
  BY <1>7, TimePropIs DEF d, other

LEMMA EventEndIs ==
  ASSUME NEW c, NEW cal
  PROVE  EventEnd(c, cal) =
           IF TimeProp(c, "DTEND", cal) # {} THEN TimeProp(c, "DTEND", cal)
           ELSE {AddTo(ParseDuration(p.value[2]), start) :
                   p \in {q \in Get(c, "DURATION") : IsDuration(q.value)},
                   start \in TimeProp(c, "DTSTART", cal)}
BY DEF EventEnd

LEMMA EventEndStays ==
  ASSUME NEW cal, DocumentTyped(cal), NormalCalendar(cal), NEW c \in Range(cal)
  PROVE  EventEnd(PrepareComponent(c, cal), CanonicalCalendar(cal)) = EventEnd(c, cal)
<1> DEFINE d == PrepareComponent(c, cal)
           other == CanonicalCalendar(cal)
           L == {q \in Get(c, "DURATION") : IsDuration(q.value)}
           K == {q \in Get(d, "DURATION") : IsDuration(q.value)}
<1>1. TimeProp(d, "DTEND", other) = TimeProp(c, "DTEND", cal)
  <2> DEFINE name == "DTEND"
  <2>1. name \in DateTimeProperties
    BY DEF DateTimeProperties
  <2> HIDE DEF name
  <2>2. TimeProp(d, name, other) = TimeProp(c, name, cal)
    BY <2>1, TimePropStays
  <2> QED
    BY <2>2 DEF name
<1>2. TimeProp(d, "DTSTART", other) = TimeProp(c, "DTSTART", cal)
  <2> DEFINE name == "DTSTART"
  <2>1. name \in DateTimeProperties
    BY DEF DateTimeProperties
  <2> HIDE DEF name
  <2>2. TimeProp(d, name, other) = TimeProp(c, name, cal)
    BY <2>1, TimePropStays
  <2> QED
    BY <2>2 DEF name
<1>3. /\ Get(d, "DURATION") = {PrepareProperty(p, cal) : p \in Get(c, "DURATION")}
      /\ \A p \in Get(c, "DURATION") : PrepareProperty(p, cal).value = Nfc(p.value)
  <2> DEFINE name == "DURATION"
  <2>1. name # "X-VSTAR-HASH" /\ name \notin DateTimeProperties
    BY DEF DateTimeProperties
  <2>2. TypedComponent(c) /\ TypedProps(c.props)
    BY TypedComponentIs DEF DocumentTyped, TypedNested
  <2>3. PreparedAs(d, c, cal)
    BY <2>2, PreparedSub
  <2> HIDE DEF name, d
  <2>4. /\ AtMostOne(Get(c, name))
        /\ Get(d, name) = {PrepareProperty(p, cal) : p \in Get(c, name)}
        /\ \A p \in Get(c, name) : PrepareProperty(p, cal).value = Nfc(p.value)
    BY <2>1, <2>2, <2>3, UndatedFound
  <2> QED
    BY <2>4 DEF name
<1>4. /\ K = {PrepareProperty(p, cal) : p \in L}
      /\ \A p \in L : PrepareProperty(p, cal).value = p.value
  <2>1. \A p \in Get(c, "DURATION") :
          IsDuration(PrepareProperty(p, cal).value) <=> IsDuration(p.value)
    BY <1>3, ReadingStays
  <2> HIDE DEF d
  <2> QED
    BY <1>3, <2>1, ReadingStays
<1>5. /\ EventEnd(c, cal) =
           IF TimeProp(c, "DTEND", cal) # {} THEN TimeProp(c, "DTEND", cal)
           ELSE {AddTo(ParseDuration(p.value[2]), start) :
                   p \in L, start \in TimeProp(c, "DTSTART", cal)}
      /\ EventEnd(d, other) =
           IF TimeProp(d, "DTEND", other) # {} THEN TimeProp(d, "DTEND", other)
           ELSE {AddTo(ParseDuration(p.value[2]), start) :
                   p \in K, start \in TimeProp(d, "DTSTART", other)}
  BY EventEndIs
<1> DEFINE S == TimeProp(c, "DTSTART", cal)
           E == TimeProp(c, "DTEND", cal)
<1> HIDE DEF K, L, d, other, S, E
<1>6. {AddTo(ParseDuration(p.value[2]), start) : p \in K, start \in S}
        = {AddTo(ParseDuration(p.value[2]), start) : p \in L, start \in S}
  BY <1>4
<1>7. EventEnd(d, other) = EventEnd(c, cal)
  BY <1>1, <1>2, <1>5, <1>6 DEF S, E
<1> QED
  BY <1>7 DEF d, other

LEMMA AnchorIs ==
  ASSUME NEW related, NEW parent, NEW cal
  PROVE  Anchor(related, parent, cal) =
           IF related = "START" THEN TimeProp(parent, "DTSTART", cal)
           ELSE IF parent.type = "VTODO" /\ TimeProp(parent, "DUE", cal) # {}
                THEN TimeProp(parent, "DUE", cal) ELSE EventEnd(parent, cal)
BY Zenon DEF Anchor

LEMMA AnchorStays ==
  ASSUME NEW cal, DocumentTyped(cal), NormalCalendar(cal), NEW c \in Range(cal), NEW related
  PROVE  Anchor(related, PrepareComponent(c, cal), CanonicalCalendar(cal))
           = Anchor(related, c, cal)
<1> DEFINE d == PrepareComponent(c, cal)
           other == CanonicalCalendar(cal)
<1>1. TimeProp(d, "DUE", other) = TimeProp(c, "DUE", cal)
  <2> DEFINE name == "DUE"
  <2>1. name \in DateTimeProperties
    BY DEF DateTimeProperties
  <2> HIDE DEF name
  <2>2. TimeProp(d, name, other) = TimeProp(c, name, cal)
    BY <2>1, TimePropStays
  <2> QED
    BY <2>2 DEF name
<1>2. TimeProp(d, "DTSTART", other) = TimeProp(c, "DTSTART", cal)
  <2> DEFINE name == "DTSTART"
  <2>1. name \in DateTimeProperties
    BY DEF DateTimeProperties
  <2> HIDE DEF name
  <2>2. TimeProp(d, name, other) = TimeProp(c, name, cal)
    BY <2>1, TimePropStays
  <2> QED
    BY <2>2 DEF name
<1>3. EventEnd(d, other) = EventEnd(c, cal)
  BY EventEndStays
<1>4. d.type = c.type
  BY DEF PrepareComponent
<1> HIDE DEF d, other
<1>5. Anchor(related, d, other) = Anchor(related, c, cal)
  BY <1>1, <1>2, <1>3, <1>4, AnchorIs
<1> QED
  BY <1>5 DEF d, other

\* The instants at which an alarm fires, and how it repeats.
LEMMA FiresStays ==
  ASSUME NEW cal, DocumentTyped(cal), NormalCalendar(cal), NEW c \in Range(cal),
         NEW a, TypedProps(a.props)
  PROVE  AlarmFiresAt(PrepareNested(a, cal), PrepareComponent(c, cal), CanonicalCalendar(cal))
           = AlarmFiresAt(a, c, cal)
<1> DEFINE b == PrepareNested(a, cal)
           d == PrepareComponent(c, cal)
           other == CanonicalCalendar(cal)
           T(x) == UNION {ParseTrigger(p) : p \in Get(x, "TRIGGER")}
<1>1. PreparedAs(b, a, cal)
  BY NestedIs
<1>2. ASSUME NEW related
      PROVE  Anchor(related, d, other) = Anchor(related, c, cal)
  BY AnchorStays
<1> HIDE DEF b, d, other
<1>3. /\ Get(b, "TRIGGER") = {PrepareProperty(p, cal) : p \in Get(a, "TRIGGER")}
      /\ \A p \in Get(a, "TRIGGER") : TypedProperty(p) /\ ToUpper(p.name) = "TRIGGER"
  <2> DEFINE name == "TRIGGER"
  <2>1. name # "X-VSTAR-HASH"
    OBVIOUS
  <2> HIDE DEF name
  <2>2. /\ Get(b, name) = {PrepareProperty(p, cal) : p \in Get(a, name)}
        /\ AtMostOne(Get(a, name))
        /\ \A p \in Get(a, name) :
             p \in Range(a.props) /\ TypedProperty(p) /\ ToUpper(p.name) = name
    BY <1>1, <2>1, GetPrepared DEF PreparedAs
  <2> QED
    BY <2>2 DEF name
<1>4. \A p \in Get(a, "TRIGGER") : ParseTrigger(PrepareProperty(p, cal)) = ParseTrigger(p)
  BY <1>3, TriggerStays
<1>5. T(b) = T(a)
  <2>1. {ParseTrigger(x) : x \in Get(b, "TRIGGER")} = {ParseTrigger(p) : p \in Get(a, "TRIGGER")}
    BY <1>3, <1>4
  <2> QED
    BY <2>1
<1>6. ASSUME NEW tr
      PROVE  Resolve(tr, d, other) = Resolve(tr, c, cal)
  BY <1>2 DEF Resolve
<1>7. /\ AlarmFiresAt(b, d, other) = UNION {Resolve(tr, d, other) : tr \in T(b)}
      /\ AlarmFiresAt(a, c, cal) = UNION {Resolve(tr, c, cal) : tr \in T(a)}
  BY Zenon DEF AlarmFiresAt
<1> HIDE DEF T
<1>8. {Resolve(tr, d, other) : tr \in T(b)} = {Resolve(tr, c, cal) : tr \in T(a)}
  BY <1>5, <1>6
<1> QED
  BY <1>7, <1>8 DEF b, d, other

LEMMA CycleIs ==
  ASSUME NEW a
  PROVE  AlarmRepeatCycle(a) =
           IF Get(a, "DURATION") \cup Get(a, "REPEAT") = {}
           THEN {[every |-> Zero, times |-> <<0>>]}
           ELSE {[every |-> ParseDuration(p.value[2]), times |-> n] :
                   p \in {q \in Get(a, "DURATION") : IsDuration(q.value)},
                   n \in UNION {NonNegative(q.value) : q \in Get(a, "REPEAT")}}
BY DEF AlarmRepeatCycle

LEMMA CycleStays ==
  ASSUME NEW a, TypedProps(a.props), NEW cal
  PROVE  AlarmRepeatCycle(PrepareNested(a, cal)) = AlarmRepeatCycle(a)
<1> DEFINE b == PrepareNested(a, cal)
           L(x) == {q \in Get(x, "DURATION") : IsDuration(q.value)}
           N(x) == UNION {NonNegative(q.value) : q \in Get(x, "REPEAT")}
<1>1. PreparedAs(b, a, cal)
  BY NestedIs
<1> HIDE DEF b
<1>2. ASSUME NEW name \in {"DURATION", "REPEAT"}
      PROVE  /\ Get(b, name) = {PrepareProperty(p, cal) : p \in Get(a, name)}
             /\ \A p \in Get(a, name) : PrepareProperty(p, cal).value = Nfc(p.value)
  <2>1. name # "X-VSTAR-HASH" /\ name \notin DateTimeProperties
    BY DEF DateTimeProperties
  <2>2. /\ AtMostOne(Get(a, name))
        /\ Get(b, name) = {PrepareProperty(p, cal) : p \in Get(a, name)}
        /\ \A p \in Get(a, name) : PrepareProperty(p, cal).value = Nfc(p.value)
    BY <1>1, <2>1, UndatedFound
  <2> QED
    BY <2>2
<1>3. /\ Get(b, "DURATION") = {PrepareProperty(p, cal) : p \in Get(a, "DURATION")}
      /\ \A p \in Get(a, "DURATION") : PrepareProperty(p, cal).value = Nfc(p.value)
  BY <1>2
<1>4. /\ Get(b, "REPEAT") = {PrepareProperty(p, cal) : p \in Get(a, "REPEAT")}
      /\ \A p \in Get(a, "REPEAT") : PrepareProperty(p, cal).value = Nfc(p.value)
  BY <1>2
<1>5. /\ L(b) = {PrepareProperty(p, cal) : p \in L(a)}
      /\ \A p \in L(a) : PrepareProperty(p, cal).value = p.value
  <2>1. \A p \in Get(a, "DURATION") :
          IsDuration(PrepareProperty(p, cal).value) <=> IsDuration(p.value)
    BY <1>3, ReadingStays
  <2> QED
    BY <1>3, <2>1, ReadingStays
<1>6. N(b) = N(a)
  <2>1. \A p \in Get(a, "REPEAT") :
          NonNegative(PrepareProperty(p, cal).value) = NonNegative(p.value)
    BY <1>4, ReadingStays
  <2>2. {NonNegative(q.value) : q \in Get(b, "REPEAT")}
            = {NonNegative(q.value) : q \in Get(a, "REPEAT")}
    BY <1>4, <2>1
  <2> QED
    BY <2>2
<1>7. Get(b, "DURATION") \cup Get(b, "REPEAT") = {}
          <=> Get(a, "DURATION") \cup Get(a, "REPEAT") = {}
  BY <1>3, <1>4
<1>8. /\ AlarmRepeatCycle(a) =
           IF Get(a, "DURATION") \cup Get(a, "REPEAT") = {}
           THEN {[every |-> Zero, times |-> <<0>>]}
           ELSE {[every |-> ParseDuration(p.value[2]), times |-> n] : p \in L(a), n \in N(a)}
      /\ AlarmRepeatCycle(b) =
           IF Get(b, "DURATION") \cup Get(b, "REPEAT") = {}
           THEN {[every |-> Zero, times |-> <<0>>]}
           ELSE {[every |-> ParseDuration(p.value[2]), times |-> n] : p \in L(b), n \in N(b)}
  BY CycleIs
<1> HIDE DEF L, N
<1>9. {[every |-> ParseDuration(p.value[2]), times |-> n] : p \in L(b), n \in N(b)}
        = {[every |-> ParseDuration(p.value[2]), times |-> n] : p \in L(a), n \in N(a)}
  BY <1>5, <1>6
<1> QED
  BY <1>7, <1>8, <1>9 DEF b

\* The document names no zone in two normal forms.
ZonesNormal == NormalCalendar(doc)

LEMMA TypedKeepsAlarms == TypeOK /\ ZonesNormal => CanonicalKeepsAlarms
<1> SUFFICES ASSUME TypeOK, ZonesNormal, NEW i \in DOMAIN doc, NEW j \in DOMAIN doc[i].sub
             PROVE  /\ AlarmFiresAt(doc[i].sub[j], doc[i], doc) =
                         AlarmFiresAt(PrepareNested(doc[i].sub[j], doc),
                                      PrepareComponent(doc[i], doc), CanonicalCalendar(doc))
                    /\ AlarmRepeatCycle(doc[i].sub[j])
                         = AlarmRepeatCycle(PrepareNested(doc[i].sub[j], doc))
  BY Zenon DEF CanonicalKeepsAlarms
<1>1. DocumentTyped(doc)
  BY TypeOKIs
<1>2. NormalCalendar(doc)
  BY DEF ZonesNormal
<1>3. doc[i] \in Range(doc)
  BY DEF Range
<1>4. TypedNested(doc[i].sub[j])
  BY <1>1, DocumentSub
<1>5. TypedProps(doc[i].sub[j].props)
  BY <1>4 DEF TypedNested
<1> QED
  BY <1>1, <1>2, <1>3, <1>5, FiresStays, CycleStays

\* CanonicalKeepsAlarms, in a document that names no zone in two normal forms:
\* an alarm fires when it fires in the canonical document, and as often.
\* PrepareCalendar looks a zone up by the name as it is written, and normalises
\* afterwards, so only there may two spellings of one name meet.
THEOREM CanonicalKeepsAlarmTimes == Spec => [](ZonesNormal => CanonicalKeepsAlarms)
<1>1. TypeOK => (ZonesNormal => CanonicalKeepsAlarms)
  BY TypedKeepsAlarms
<1> QED
  BY <1>1, TypeCorrect, PTL

-----------------------------------------------------------------------------
(* What the validator says of the canonical form. *)

\* Every property but the hash is written there, and nothing else.
LEMMA LinesAre ==
  ASSUME NEW c, TypedProps(c.props), NEW cal
  PROVE  /\ \A x \in Range(CanonicalProps(c, cal)) :
              \E p \in Range(c.props) : ~IsHash(p) /\ x = Spelled(p, cal)
         /\ \A p \in Range(c.props) : ~IsHash(p) => Spelled(p, cal) \in Range(CanonicalProps(c, cal))
<1> DEFINE s == c.props
           I == {i \in DOMAIN s : ~IsHash(s[i])}
           f == FilterHash(s)
           m == [i \in DOMAIN f |-> PrepareProperty(f[i], cal)]
           t == PreparedProps(f, cal)
           e == EncodeLines(t)
<1>1. e = CanonicalProps(c, cal)
  BY Zenon DEF CanonicalProps
<1>2. t = SortedBy(NamesOf(f), m)
  BY Zenon DEF PreparedProps
<1>3. IsSeq(s)
  BY TypedPropsIs
<1>4. I \subseteq DOMAIN s /\ f = Picked(s, I)
  BY Zenon DEF FilterHash
<1>5. IsSeq(f) /\ Range(f) = {s[i] : i \in I}
  <2> HIDE DEF s, I, f
  <2>1. Picks(f, s, I)
    BY <1>3, <1>4, PickedIs
  <2> QED
    BY <2>1 DEF Picks
<1>6. Range(f) = {p \in Range(s) : ~IsHash(p)}
  BY <1>5 DEF Range
<1> HIDE DEF s, I, f
<1>7. Len(f) \in Nat /\ DOMAIN f = 1..Len(f)
  BY <1>5, IsSeqProperties
<1>8. /\ \A i \in 1..Len(f) : m[i] = PrepareProperty(f[i], cal)
      /\ m = [i \in DOMAIN f |-> m[i]]
  BY <1>7
<1> HIDE DEF m, t
<1>9. IsSeq(m) /\ Len(m) = Len(f) /\ Range(m) = {m[i] : i \in 1..Len(f)}
  BY <1>5, <1>8, MappedIs
<1>10. IsSeq(t) /\ Range(t) = Range(m)
  <2>1. IsSeq(NamesOf(f)) /\ Len(NamesOf(f)) = Len(m)
    BY <1>5, <1>9, NamesAre
  <2> QED
    BY <1>2, <1>9, <2>1, SortedKeeps
<1>11. Len(t) \in Nat /\ DOMAIN t = 1..Len(t)
  BY <1>10, IsSeqProperties
<1>12. /\ \A i \in 1..Len(t) : e[i] = EncodeContentLine(t[i])
       /\ e = [i \in DOMAIN t |-> e[i]]
  BY <1>11 DEF EncodeLines
<1> HIDE DEF e
<1>13. Range(e) = {e[i] : i \in 1..Len(t)}
  BY <1>10, <1>12, MappedIs
<1>14. ASSUME NEW x \in Range(e)
       PROVE  \E p \in Range(s) : ~IsHash(p) /\ x = Spelled(p, cal)
  <2>1. PICK k \in 1..Len(t) : x = EncodeContentLine(t[k])
    BY <1>12, <1>13
  <2>2. t[k] \in Range(m)
    BY <1>10, <1>11 DEF Range
  <2>3. PICK i \in 1..Len(f) : t[k] = PrepareProperty(f[i], cal)
    BY <1>8, <1>9, <2>2
  <2>4. f[i] \in Range(s) /\ ~IsHash(f[i])
    BY <1>6, <1>7 DEF Range
  <2> QED
    BY <2>1, <2>3, <2>4 DEF Spelled
<1>15. ASSUME NEW p \in Range(s), ~IsHash(p)
       PROVE  Spelled(p, cal) \in Range(e)
  <2>1. PICK i \in 1..Len(f) : p = f[i]
    BY <1>6, <1>7, <1>15 DEF Range
  <2>2. PrepareProperty(p, cal) \in Range(t)
    BY <1>8, <1>9, <1>10, <2>1
  <2>3. PICK k \in 1..Len(t) : t[k] = PrepareProperty(p, cal)
    BY <1>11, <2>2 DEF Range
  <2> QED
    BY <1>12, <1>13, <2>3 DEF Spelled
<1> QED
  BY <1>1, <1>14, <1>15 DEF s

\* A name and a value that is no time, as they are written.
LEMMA SpelledUndated ==
  ASSUME NEW p, TypedProperty(p), ~IsDateTimeProperty(p), NEW cal
  PROVE  Spelled(p, cal).name = ToUpper(p.name) /\ Spelled(p, cal).value = Nfc(p.value)
BY SpelledIs, UndatedIs

\* The encoder leaves the value of a parameter as it is.
LEMMA EncodedSays ==
  ASSUME NEW r, IsSeq(r.params), NEW name
  PROVE  ParamValue(EncodeContentLine(r), name) = ParamValue(r, name)
<1> DEFINE s == r.params
           t == [i \in DOMAIN s |-> Param(ToUpper(s[i].name), s[i].value)]
           u == Named(s, name)
           w == Named(t, name)
<1>1. EncodeContentLine(r).params = t
  BY DEF EncodeContentLine, Property
<1>2. /\ ParamValue(r, name) = {q.value : q \in First(u)}
      /\ ParamValue(EncodeContentLine(r), name) = {q.value : q \in First(w)}
  BY <1>1, Zenon DEF ParamValue
<1> HIDE DEF s
<1>3. IsSeq(s) /\ Len(s) \in Nat /\ DOMAIN s = 1..Len(s)
  BY IsSeqProperties DEF s
<1>4. /\ \A i \in 1..Len(s) : t[i] = Param(ToUpper(s[i].name), s[i].value)
      /\ t = [i \in DOMAIN s |-> t[i]]
  BY <1>3
<1> HIDE DEF t
<1>5. IsSeq(t) /\ Len(t) = Len(s)
  BY <1>3, <1>4, MappedIs
<1>6. \A i \in 1..Len(s) : ToUpper(t[i].name) = ToUpper(s[i].name) /\ t[i].value = s[i].value
  <2> TAKE i \in 1..Len(s)
  <2>1. t[i] = Param(ToUpper(s[i].name), s[i].value)
    BY <1>4
  <2>2. t[i].name = ToUpper(s[i].name) /\ t[i].value = s[i].value
    BY <2>1, ParamIs
  <2> QED
    BY <2>2, CapitalsStay
<1>7. /\ IsSeq(u) /\ IsSeq(w) /\ Len(w) = Len(u)
      /\ \A k \in 1..Len(u) : \E i \in 1..Len(s) : u[k] = s[i] /\ w[k] = t[i]
  BY ONLY <1>3, <1>5, <1>6, NamedMapped
<1> HIDE DEF u, w
<1>8. FirstOfBoth(u, w)
  BY <1>7, FirstOfMapped
<1>9. {q.value : q \in First(w)} = {q.value : q \in First(u)}
  BY <1>6, <1>7, <1>8 DEF FirstOfBoth
<1> QED
  BY <1>2, <1>9

LEMMA TriggerSpelled ==
  ASSUME NEW p, TypedProperty(p), ToUpper(p.name) = "TRIGGER", NEW cal
  PROVE  ParseTrigger(Spelled(p, cal)) = ParseTrigger(p)
<1> DEFINE r == PrepareProperty(p, cal)
           e == Spelled(p, cal)
<1>1. ParseTrigger(r) = ParseTrigger(p)
  BY TriggerStays
<1>2. IsSeq(r.params)
  BY TypedPropertyIs, PreparedIs, PreparedParamsAre DEF TypedParams
<1>3. e = EncodeContentLine(r) /\ e.value = r.value
  BY SpelledIs DEF Spelled
<1> HIDE DEF r, e
<1>4. \A name : ParamValue(e, name) = ParamValue(r, name)
  BY <1>2, <1>3, EncodedSays
<1>5. TriggerValue(e) = TriggerValue(r)
  BY <1>3, <1>4, Zenon DEF TriggerValue
<1>6. Said(e, "RELATED") = Said(r, "RELATED")
  BY <1>4 DEF Said
<1>7. \A tr : tr \in ParseTrigger(e) <=> tr \in ParseTrigger(r)
  BY <1>5, <1>6, TriggerIs
<1>8. ParseTrigger(e) = ParseTrigger(r)
  BY <1>7
<1> QED
  BY <1>1, <1>8 DEF r, e

\* Findings of c that its canonical form has as well.
SameFindings(F, G) == \A f : f.name # "X-VSTAR-HASH" => (f \in F <=> f \in G)

LEMMA SameIs ==
  ASSUME NEW F, NEW G
  PROVE  SameFindings(F, G) => OfContent(F) = OfContent(G)
BY DEF SameFindings, OfContent

LEMMA SameTogether ==
  ASSUME NEW F, NEW G, SameFindings(F, G), NEW H, NEW K, SameFindings(H, K)
  PROVE  SameFindings(F \cup H, G \cup K)
BY DEF SameFindings

\* A component and its canonical form.
InForm(d, c, cal) ==
  TypedProps(c.props) /\ d.type = c.type /\ d.props = CanonicalProps(c, cal)

\* Findings at the properties in B.
FindingsAt(c, code, B) == {Finding(code, ToUpper(p.name)) : p \in Range(c.props) \cap B}

LEMMA FindingsStay ==
  ASSUME NEW c, NEW d, NEW cal, InForm(d, c, cal), NEW code, NEW B,
         \A p \in Range(c.props) : ~IsHash(p) => (Spelled(p, cal) \in B <=> p \in B)
  PROVE  SameFindings(FindingsAt(c, code, B), FindingsAt(d, code, B))
<1>1. \A p \in Range(c.props) : ToUpper(Spelled(p, cal).name) = ToUpper(p.name)
  BY TypedPropsIs, SpelledIs, CapitalsStay DEF InForm
<1>2. /\ \A x \in Range(d.props) : \E p \in Range(c.props) : ~IsHash(p) /\ x = Spelled(p, cal)
      /\ \A p \in Range(c.props) : ~IsHash(p) => Spelled(p, cal) \in Range(d.props)
  BY LinesAre DEF InForm
<1>3. \A p : Finding(code, ToUpper(p.name)).name = ToUpper(p.name)
  BY DEF Finding
<1>4. ASSUME NEW f \in FindingsAt(c, code, B), f.name # "X-VSTAR-HASH"
      PROVE  f \in FindingsAt(d, code, B)
  <2>1. PICK p \in Range(c.props) : p \in B /\ f = Finding(code, ToUpper(p.name))
    BY <1>4 DEF FindingsAt
  <2>2. ~IsHash(p)
    BY <1>3, <1>4, <2>1 DEF IsHash
  <2>3. Spelled(p, cal) \in Range(d.props) \cap B
    BY <1>2, <2>1, <2>2
  <2> QED
    BY <1>1, <2>1, <2>3 DEF FindingsAt
<1>5. ASSUME NEW f \in FindingsAt(d, code, B)
      PROVE  f \in FindingsAt(c, code, B)
  <2>1. PICK x \in Range(d.props) : x \in B /\ f = Finding(code, ToUpper(x.name))
    BY <1>5 DEF FindingsAt
  <2>2. PICK p \in Range(c.props) : ~IsHash(p) /\ x = Spelled(p, cal)
    BY <1>2
  <2> QED
    BY <1>1, <2>1, <2>2 DEF FindingsAt
<1> QED
  BY <1>4, <1>5 DEF SameFindings

\* Whether a property is there.
LEMMA AbsentStays ==
  ASSUME NEW c, NEW d, NEW cal, InForm(d, c, cal), NEW name, name # "X-VSTAR-HASH"
  PROVE  Get(d, name) = {} <=> Get(c, name) = {}
<1>1. Get(d, name) = {Spelled(p, cal) : p \in Get(c, name)}
  BY FoundStays DEF InForm
<1> QED
  BY <1>1

LEMMA MissingStays ==
  ASSUME NEW c, NEW d, NEW cal, InForm(d, c, cal), NEW name, NEW code
  PROVE  SameFindings(Missing(c, name, code), Missing(d, name, code))
<1>1. CASE name = "X-VSTAR-HASH"
  <2>1. Finding(code, name).name = "X-VSTAR-HASH"
    BY <1>1 DEF Finding
  <2> QED
    BY <2>1 DEF Missing, SameFindings
<1>2. CASE name # "X-VSTAR-HASH"
  <2>1. Missing(c, name, code) = Missing(d, name, code)
    BY <1>2, AbsentStays DEF Missing
  <2> QED
    BY <2>1 DEF SameFindings
<1> QED
  BY <1>1, <1>2

\* A word among the values of a property.
LEMMA WordStays ==
  ASSUME NEW c, NEW d, NEW cal, InForm(d, c, cal), NEW values, values \subseteq Words,
         NEW name, name # "X-VSTAR-HASH", name \notin DateTimeProperties
  PROVE  HasValue(d, name, values) <=> HasValue(c, name, values)
<1> DEFINE is(value) == value[1] = "text" /\ ToUpper(value[2]) \in values
<1>1. \A x : HasValue(x, name, values) <=> \E p \in Get(x, name) : is(p.value)
  BY DEF HasValue
<1>2. /\ Get(d, name) = {Spelled(p, cal) : p \in Get(c, name)}
      /\ \A p \in Get(c, name) : p \in Range(c.props) /\ ToUpper(p.name) = name
  BY FoundStays DEF InForm
<1>3. \A p \in Range(c.props) : TypedProperty(p)
  BY TypedPropsIs DEF InForm
<1>4. \A p \in Get(c, name) : Spelled(p, cal).value = Nfc(p.value)
  BY <1>2, <1>3, SpelledUndated DEF IsDateTimeProperty
<1>5. ASSUME NEW value
      PROVE  is(Nfc(value)) <=> is(value)
  <2>1. CASE value[1] = "text"
    <3>1. Nfc(value)[1] = "text" /\ Nfc(value)[2] = NfcText(value[2])
      BY <2>1 DEF Nfc
    <3>2. ToUpper(NfcText(value[2])) \in values <=> ToUpper(value[2]) \in values
      BY WordsStay
    <3> QED
      BY <2>1, <3>1, <3>2
  <2>2. CASE value[1] # "text"
    BY <2>2, KindStays
  <2> QED
    BY <2>1, <2>2
<1> HIDE DEF is
<1> QED
  BY <1>1, <1>2, <1>4, <1>5

LEMMA VocabularyStays ==
  ASSUME NEW c, NEW d, NEW cal, InForm(d, c, cal), NEW allowed, allowed \subseteq Words,
         NEW name, name # "X-VSTAR-HASH", name \notin DateTimeProperties, NEW code
  PROVE  SameFindings(VocabularyDiagnostic(c, name, allowed, code),
                      VocabularyDiagnostic(d, name, allowed, code))
<1>1. Get(d, name) = {} <=> Get(c, name) = {}
  BY AbsentStays
<1>2. HasValue(d, name, allowed) <=> HasValue(c, name, allowed)
  BY WordStays
<1>3. VocabularyDiagnostic(c, name, allowed, code) = VocabularyDiagnostic(d, name, allowed, code)
  BY <1>1, <1>2 DEF VocabularyDiagnostic
<1> QED
  BY <1>3 DEF SameFindings

LEMMA RequiredStay ==
  ASSUME NEW c, NEW d, NEW cal, InForm(d, c, cal)
  PROVE  SameFindings(CheckRequiredCommon(c), CheckRequiredCommon(d))
<1>1. \A name, code : SameFindings(Missing(c, name, code), Missing(d, name, code))
  BY MissingStays
<1> QED
  BY <1>1, SameTogether DEF CheckRequiredCommon

LEMMA NamespaceStays ==
  ASSUME NEW c, NEW d, NEW cal, InForm(d, c, cal)
  PROVE  SameFindings(CheckExtensionNamespace(c), CheckExtensionNamespace(d))
<1> DEFINE ill(q) == ToUpper(q.name) \notin StandardProperties /\ ~IsExtension(q.name)
           B == {q \in Range(c.props) \cup Range(d.props) : ill(q)}
<1>1. /\ CheckExtensionNamespace(c) = FindingsAt(c, "VS020", B)
      /\ CheckExtensionNamespace(d) = FindingsAt(d, "VS020", B)
  BY ToSetIs DEF CheckExtensionNamespace, FindingsAt
<1>2. \A p \in Range(c.props) :
        ~IsHash(p) => Spelled(p, cal) \in Range(d.props) /\ Spelled(p, cal).name = ToUpper(p.name)
  BY LinesAre, SpelledIs, TypedPropsIs DEF InForm
<1>3. \A p \in Range(c.props) : ~IsHash(p) => (Spelled(p, cal) \in B <=> p \in B)
  BY <1>2, CapitalsStay DEF IsExtension
<1> HIDE DEF B
<1> QED
  BY <1>1, <1>3, FindingsStay

\* Numbers and rules are no texts.
LEMMA DecimalStays ==
  ASSUME NEW value
  PROVE  /\ IsCanonicalDecimal(Nfc(value)) <=> IsCanonicalDecimal(value)
         /\ IsCanonicalDecimal(value) => Nfc(value) = value
BY KindStays DEF IsCanonicalDecimal

LEMMA DomainsStay ==
  ASSUME NEW c, NEW d, NEW cal, InForm(d, c, cal)
  PROVE  SameFindings(CheckIntegerDomains(c), CheckIntegerDomains(d))
<1> DEFINE large(name, value) ==
             \E max \in IntegerDomains[name] : ExceedsDigitString(value[2], max)
           ill(q) == /\ ToUpper(q.name) \in DOMAIN IntegerDomains
                     /\ ~IsCanonicalDecimal(q.value) \/ large(ToUpper(q.name), q.value)
           B == {q \in Range(c.props) \cup Range(d.props) : ill(q)}
<1>1. /\ CheckIntegerDomains(c) = FindingsAt(c, "VS055", B)
      /\ CheckIntegerDomains(d) = FindingsAt(d, "VS055", B)
  BY ToSetIs DEF CheckIntegerDomains, FindingsAt
<1>2. \A p \in Range(c.props) :
        /\ TypedProperty(p)
        /\ ~IsHash(p) => Spelled(p, cal) \in Range(d.props)
        /\ Spelled(p, cal).name = ToUpper(p.name)
  BY LinesAre, SpelledIs, TypedPropsIs DEF InForm
<1>3. DOMAIN IntegerDomains \cap DateTimeProperties = {}
  BY DEF IntegerDomains, DateTimeProperties
<1> HIDE DEF large
<1>4. ASSUME NEW p \in Range(c.props), ~IsHash(p)
      PROVE  Spelled(p, cal) \in B <=> p \in B
  <2> DEFINE e == Spelled(p, cal)
  <2>1. ToUpper(e.name) = ToUpper(p.name)
    BY <1>2, CapitalsStay
  <2>2. e \in Range(d.props)
    BY <1>2, <1>4
  <2>3. CASE ToUpper(p.name) \in DOMAIN IntegerDomains
    <3>1. e.value = Nfc(p.value)
      BY <1>2, <1>3, <2>3, SpelledUndated DEF IsDateTimeProperty
    <3>2. /\ IsCanonicalDecimal(e.value) <=> IsCanonicalDecimal(p.value)
          /\ IsCanonicalDecimal(p.value) => e.value = p.value
      BY <3>1, DecimalStays
    <3> HIDE DEF e
    <3> QED
      BY <2>1, <2>2, <3>2 DEF e
  <2>4. CASE ToUpper(p.name) \notin DOMAIN IntegerDomains
    BY <2>1, <2>4
  <2> QED
    BY <2>3, <2>4
<1> HIDE DEF B
<1> QED
  BY <1>1, <1>4, FindingsStay

\* The lengths, counts and triggers that CheckDuration refuses.
IllFormed(p) ==
  \/ ToUpper(p.name) = "TRIGGER" /\ ParseTrigger(p) = {}
  \/ ToUpper(p.name) = "DURATION" /\ ~IsDuration(p.value)
  \/ ToUpper(p.name) = "REPEAT" /\ ~IsCanonicalDecimal(p.value)

LEMMA CheckDurationIs ==
  ASSUME NEW c
  PROVE  CheckDuration(c) =
           {Finding("VS052", ToUpper(p.name)) : p \in {q \in Range(c.props) : IllFormed(q)}}
<1> DEFINE ill(p) == CASE ToUpper(p.name) = "TRIGGER" -> ParseTrigger(p) = {}
                       [] ToUpper(p.name) = "DURATION" -> ~IsDuration(p.value)
                       [] ToUpper(p.name) = "REPEAT" -> ~IsCanonicalDecimal(p.value)
                       [] OTHER -> FALSE
<1>1. CheckDuration(c) =
        {Finding("VS052", ToUpper(p.name)) : p \in {q \in ToSet(c.props) : ill(q)}}
  BY DEF CheckDuration
<1>2. \A p : ill(p) <=> IllFormed(p)
  BY DEF IllFormed
<1> HIDE DEF ill
<1> QED
  BY <1>1, <1>2, ToSetIs

LEMMA LengthsStay ==
  ASSUME NEW c, NEW d, NEW cal, InForm(d, c, cal)
  PROVE  SameFindings(CheckDuration(c), CheckDuration(d))
<1> DEFINE B == {q \in Range(c.props) \cup Range(d.props) : IllFormed(q)}
<1>1. /\ CheckDuration(c) = FindingsAt(c, "VS052", B)
      /\ CheckDuration(d) = FindingsAt(d, "VS052", B)
  BY CheckDurationIs DEF FindingsAt
<1>2. \A p \in Range(c.props) :
        /\ TypedProperty(p)
        /\ ~IsHash(p) => Spelled(p, cal) \in Range(d.props)
        /\ Spelled(p, cal).name = ToUpper(p.name)
  BY LinesAre, SpelledIs, TypedPropsIs DEF InForm
<1>3. ASSUME NEW p \in Range(c.props), ~IsHash(p)
      PROVE  Spelled(p, cal) \in B <=> p \in B
  <2> DEFINE e == Spelled(p, cal)
  <2>1. ToUpper(e.name) = ToUpper(p.name)
    BY <1>2, CapitalsStay
  <2>2. e \in Range(d.props)
    BY <1>2, <1>3
  <2>3. ToUpper(p.name) = "TRIGGER" => ParseTrigger(e) = ParseTrigger(p)
    BY <1>2, TriggerSpelled
  <2>4. ToUpper(p.name) \in {"DURATION", "REPEAT"} => e.value = Nfc(p.value)
    BY <1>2, SpelledUndated DEF IsDateTimeProperty, DateTimeProperties
  <2>5. /\ IsDuration(Nfc(p.value)) <=> IsDuration(p.value)
        /\ IsCanonicalDecimal(Nfc(p.value)) <=> IsCanonicalDecimal(p.value)
    BY ReadingStays, DecimalStays
  <2> HIDE DEF e
  <2>6. IllFormed(e) <=> IllFormed(p)
    BY <2>1, <2>3, <2>4, <2>5 DEF IllFormed
  <2> QED
    BY <2>2, <2>6 DEF e
<1> HIDE DEF B
<1> QED
  BY <1>1, <1>3, FindingsStay

LEMMA RuleFindingsStay ==
  ASSUME NEW c, NEW d, NEW cal, InForm(d, c, cal)
  PROVE  SameFindings(CheckRRule(c), CheckRRule(d))
<1> DEFINE unsupported(p) == p.value[1] = "rule" /\ ParseRRule(p.value[2]).error = "unsupported"
           F(x) == {Finding(IF unsupported(p) THEN "VS050" ELSE "VS051", "RRULE") :
                      p \in {q \in ToSet(GetAll(x, "RRULE")) : ParsedRule(q) = {}}}
           name == "RRULE"
<1>1. CheckRRule(c) = F(c) /\ CheckRRule(d) = F(d)
  BY DEF CheckRRule
<1>2. name # "X-VSTAR-HASH" /\ name \notin DateTimeProperties
  BY DEF DateTimeProperties
<1>3. /\ ToSet(GetAll(d, name)) = {Spelled(p, cal) : p \in ToSet(GetAll(c, name))}
      /\ \A p \in ToSet(GetAll(c, name)) : p \in Range(c.props) /\ ToUpper(p.name) = name
  <2> HIDE DEF name
  <2> QED
    BY <1>2, FoundStays DEF InForm
<1>4. \A p \in ToSet(GetAll(c, name)) : Spelled(p, cal).value = Nfc(p.value)
  BY <1>2, <1>3, SpelledUndated, TypedPropsIs DEF InForm, IsDateTimeProperty
<1>5. ASSUME NEW p \in ToSet(GetAll(c, name))
      PROVE  /\ unsupported(Spelled(p, cal)) <=> unsupported(p)
             /\ ParsedRule(Spelled(p, cal)) = ParsedRule(p)
  <2>1. /\ Spelled(p, cal).value[1] = p.value[1]
        /\ p.value[1] = "rule" => Spelled(p, cal).value = p.value
    BY <1>4, KindStays
  <2> QED
    BY <2>1 DEF ParsedRule
<1> HIDE DEF unsupported
<1>6. F(c) = F(d)
  BY <1>3, <1>5
<1> QED
  BY <1>1, <1>6 DEF SameFindings

LEMMA TypeSpecificIs ==
  ASSUME NEW c
  PROVE  CheckTypeSpecific(c) =
           IF c.type = "VTODO"
           THEN IF /\ Get(c, "DUE") = {}
                   /\ HasValue(c, "STATUS", {"COMPLETED"}) => Get(c, "COMPLETED") = {}
                THEN {Finding("VS040", NoText)} ELSE {}
           ELSE IF c.type = "VEVENT" THEN Missing(c, "DTSTART", "VS041")
           ELSE IF c.type = "VFREEBUSY" /\ (Get(c, "DTSTART") = {} \/ Get(c, "DTEND") = {})
           THEN {Finding("VS042", NoText)}
           ELSE IF c.type = "VCARD" /\ (Get(c, "VERSION") = {} \/ Get(c, "UID") = {})
           THEN {Finding("VS043", NoText)} ELSE {}
BY DEF CheckTypeSpecific, Lacks

LEMMA TypeSpecificStays ==
  ASSUME NEW c, NEW d, NEW cal, InForm(d, c, cal)
  PROVE  SameFindings(CheckTypeSpecific(c), CheckTypeSpecific(d))
<1>1. \A name : name # "X-VSTAR-HASH" => (Get(d, name) = {} <=> Get(c, name) = {})
  BY AbsentStays
<1>2. HasValue(d, "STATUS", {"COMPLETED"}) <=> HasValue(c, "STATUS", {"COMPLETED"})
  <2> DEFINE name == "STATUS"
             values == {"COMPLETED"}
  <2>1. name # "X-VSTAR-HASH" /\ name \notin DateTimeProperties /\ values \subseteq Words
    BY DEF DateTimeProperties, Words
  <2> HIDE DEF name, values
  <2>2. HasValue(d, name, values) <=> HasValue(c, name, values)
    BY <2>1, WordStays
  <2> QED
    BY <2>2 DEF name, values
<1>3. d.type = c.type
  BY DEF InForm
<1>4. Missing(c, "DTSTART", "VS041") = Missing(d, "DTSTART", "VS041")
  BY <1>1 DEF Missing
<1>5. /\ Get(d, "DUE") = {} <=> Get(c, "DUE") = {}
      /\ Get(d, "COMPLETED") = {} <=> Get(c, "COMPLETED") = {}
      /\ Get(d, "DTSTART") = {} <=> Get(c, "DTSTART") = {}
      /\ Get(d, "DTEND") = {} <=> Get(c, "DTEND") = {}
      /\ Get(d, "VERSION") = {} <=> Get(c, "VERSION") = {}
      /\ Get(d, "UID") = {} <=> Get(c, "UID") = {}
  BY <1>1
<1>6. CheckTypeSpecific(c) = CheckTypeSpecific(d)
  BY <1>2, <1>3, <1>4, <1>5, TypeSpecificIs
<1> QED
  BY <1>6 DEF SameFindings

LEMMA StatusStays ==
  ASSUME NEW c, NEW d, NEW cal, InForm(d, c, cal)
  PROVE  SameFindings(CheckStatusVocabulary(c), CheckStatusVocabulary(d))
<1> DEFINE name == "STATUS"
           code == "VS044"
<1>1. name # "X-VSTAR-HASH" /\ name \notin DateTimeProperties
  BY DEF DateTimeProperties
<1>2. \A type \in DOMAIN StatusVocabularies : StatusVocabularies[type] \subseteq Words
  BY DEF StatusVocabularies, Words
<1>3. d.type = c.type
  BY DEF InForm
<1>4. \A x : CheckStatusVocabulary(x) =
        IF x.type \in DOMAIN StatusVocabularies
        THEN VocabularyDiagnostic(x, name, StatusVocabularies[x.type], code) ELSE {}
  BY Zenon DEF CheckStatusVocabulary
<1> HIDE DEF name, code
<1>5. CASE c.type \in DOMAIN StatusVocabularies
  <2>1. SameFindings(VocabularyDiagnostic(c, name, StatusVocabularies[c.type], code),
                     VocabularyDiagnostic(d, name, StatusVocabularies[c.type], code))
    BY <1>1, <1>2, <1>5, VocabularyStays
  <2> QED
    BY <1>3, <1>4, <1>5, <2>1
<1>6. CASE c.type \notin DOMAIN StatusVocabularies
  BY <1>3, <1>4, <1>6 DEF SameFindings
<1> QED
  BY <1>5, <1>6

LEMMA ClassificationStays ==
  ASSUME NEW c, NEW d, NEW cal, InForm(d, c, cal)
  PROVE  SameFindings(CheckClassification(c), CheckClassification(d))
<1> DEFINE name == "CLASS"
           other == "TRANSP"
           classes == {"PUBLIC", "PRIVATE", "CONFIDENTIAL"}
           transparencies == {"OPAQUE", "TRANSPARENT"}
<1>1. /\ name # "X-VSTAR-HASH" /\ name \notin DateTimeProperties
      /\ other # "X-VSTAR-HASH" /\ other \notin DateTimeProperties
      /\ classes \subseteq Words /\ transparencies \subseteq Words
  BY DEF DateTimeProperties, Words
<1>2. \A x : CheckClassification(x) = VocabularyDiagnostic(x, name, classes, "VS053")
                 \cup VocabularyDiagnostic(x, other, transparencies, "VS054")
  BY DEF CheckClassification
<1> HIDE DEF name, other, classes, transparencies
<1>3. ASSUME NEW code
      PROVE  /\ SameFindings(VocabularyDiagnostic(c, name, classes, code),
                             VocabularyDiagnostic(d, name, classes, code))
             /\ SameFindings(VocabularyDiagnostic(c, other, transparencies, code),
                             VocabularyDiagnostic(d, other, transparencies, code))
  BY <1>1, VocabularyStays
<1> QED
  BY <1>2, <1>3, SameTogether

LEMMA ContentFindingsStay ==
  ASSUME NEW c, NEW d, NEW cal, InForm(d, c, cal)
  PROVE  OfContent(ContentFindings(c)) = OfContent(ContentFindings(d))
<1>1. /\ SameFindings(CheckRequiredCommon(c), CheckRequiredCommon(d))
      /\ SameFindings(CheckExtensionNamespace(c), CheckExtensionNamespace(d))
      /\ SameFindings(CheckTypeSpecific(c), CheckTypeSpecific(d))
      /\ SameFindings(CheckStatusVocabulary(c), CheckStatusVocabulary(d))
      /\ SameFindings(CheckClassification(c), CheckClassification(d))
      /\ SameFindings(CheckIntegerDomains(c), CheckIntegerDomains(d))
      /\ SameFindings(CheckRRule(c), CheckRRule(d))
      /\ SameFindings(CheckDuration(c), CheckDuration(d))
  BY RequiredStay, NamespaceStays, TypeSpecificStays, StatusStays, ClassificationStays,
     DomainsStay, RuleFindingsStay, LengthsStay
<1>2. SameFindings(ContentFindings(c), ContentFindings(d))
  BY <1>1, SameTogether DEF ContentFindings
<1> QED
  BY <1>2, SameIs

-----------------------------------------------------------------------------
(* Scopes of extensions, and alarms that can be repeated. *)

\* The names of a scope.
Scoped(c, scope) ==
  {ToUpper(p.name) : p \in {q \in Range(c.props) : ScopeOf(q.name) = scope /\ ~IsHash(q)}}

LEMMA ScopedIs ==
  ASSUME NEW c, IsSeq(c.props), NEW scope
  PROVE  {ToUpper(p.name) : p \in ToSet(FilterHash(ExtensionsByScope(c, scope)))} = Scoped(c, scope)
<1> DEFINE s == c.props
           I == {i \in DOMAIN s : ScopeOf(s[i].name) = scope}
           f == Picked(s, I)
           J == {j \in DOMAIN f : ~IsHash(f[j])}
           g == Picked(f, J)
<1>1. g = FilterHash(ExtensionsByScope(c, scope))
  BY Zenon DEF FilterHash, ExtensionsByScope
<1>2. I \subseteq DOMAIN s /\ IsSeq(s)
  OBVIOUS
<1>3. IsSeq(f) /\ Range(f) = {s[i] : i \in I}
  <2> HIDE DEF s, I, f
  <2>1. Picks(Picked(s, I), s, I)
    BY <1>2, PickedIs
  <2> QED
    BY <2>1 DEF Picks, f
<1>4. Range(f) = {p \in Range(s) : ScopeOf(p.name) = scope}
  BY <1>3 DEF Range
<1> HIDE DEF s, I, f
<1>5. J \subseteq DOMAIN f
  OBVIOUS
<1>6. Range(g) = {f[j] : j \in J}
  <2> HIDE DEF J, g
  <2>1. Picks(Picked(f, J), f, J)
    BY <1>3, <1>5, PickedIs
  <2> QED
    BY <2>1 DEF Picks, g
<1>7. Range(g) = {p \in Range(f) : ~IsHash(p)}
  BY <1>6 DEF Range
<1> HIDE DEF J, g
<1>8. ToSet(g) = {p \in Range(s) : ScopeOf(p.name) = scope /\ ~IsHash(p)}
  BY <1>4, <1>7, ToSetIs
<1> QED
  BY <1>1, <1>8 DEF Scoped, s

LEMMA ScopeStays ==
  ASSUME NEW c, NEW d, NEW cal, InForm(d, c, cal), NEW scope
  PROVE  Scoped(d, scope) = Scoped(c, scope)
<1>1. /\ \A x \in Range(d.props) : \E p \in Range(c.props) : ~IsHash(p) /\ x = Spelled(p, cal)
      /\ \A p \in Range(c.props) : ~IsHash(p) => Spelled(p, cal) \in Range(d.props)
  BY LinesAre DEF InForm
<1>2. \A p \in Range(c.props) : Spelled(p, cal).name = ToUpper(p.name)
  BY SpelledIs, TypedPropsIs DEF InForm
<1>3. \A name : ScopeOf(ToUpper(name)) = ScopeOf(name)
  BY CapitalsStay DEF ScopeOf, IsExtension, Parts
<1>4. ASSUME NEW p \in Range(c.props)
      PROVE  LET e == Spelled(p, cal)
             IN  /\ ToUpper(e.name) = ToUpper(p.name) /\ ScopeOf(e.name) = ScopeOf(p.name)
                 /\ IsHash(e) <=> IsHash(p)
  BY <1>2, <1>3, CapitalsStay DEF IsHash
<1>5. \A n : n \in Scoped(c, scope) => n \in Scoped(d, scope)
  BY <1>1, <1>4 DEF Scoped
<1>6. \A n : n \in Scoped(d, scope) => n \in Scoped(c, scope)
  BY <1>1, <1>4 DEF Scoped
<1> QED
  BY <1>5, <1>6

\* The digits of a canonical decimal are significant.
LEMMA SignificantIs ==
  ASSUME NEW value, IsCanonicalDecimal(value), IsSeq(value[2])
  PROVE  Significant(value[2]) = value[2]
<1> DEFINE digits == value[2]
<1>0. IsSeq(digits) /\ digits # <<>> /\ (digits = <<0>> \/ digits[1] # 0)
  BY DEF IsCanonicalDecimal
<1> HIDE DEF digits
<1> DEFINE nonzero == {i \in DOMAIN digits : digits[i] # 0}
<1>1. Significant(digits) =
        IF nonzero = {} THEN <<0>> ELSE SubSeq(digits, Min(nonzero), Len(digits))
  BY DEF Significant
<1>2. Len(digits) \in Nat /\ DOMAIN digits = 1..Len(digits) /\ Len(digits) # 0
  BY <1>0, IsSeqProperties
<1>3. CASE digits[1] # 0
  <2>1. 1 \in nonzero /\ nonzero \subseteq Nat
    BY <1>2, <1>3
  <2>2. Min(nonzero) = 1
    <3> HIDE DEF nonzero
    <3>1. Min(nonzero) \in nonzero /\ \A i \in nonzero : Min(nonzero) <= i
      BY <2>1, MinIs
    <3>2. \A i \in nonzero : i >= 1
      BY <1>2 DEF nonzero
    <3>3. Min(nonzero) \in Nat /\ Min(nonzero) >= 1 /\ Min(nonzero) <= 1
      BY <2>1, <3>1, <3>2
    <3> QED
      BY <3>3
  <2>3. SubSeq(digits, 1, Len(digits)) = digits
    <3>1. Len(digits) \in 0..Len(digits)
      BY <1>2
    <3>2. /\ IsSeq(SubSeq(digits, 1, Len(digits)))
          /\ Len(SubSeq(digits, 1, Len(digits))) = Len(digits)
          /\ \A k \in 1..Len(digits) : SubSeq(digits, 1, Len(digits))[k] = digits[k]
      BY <1>0, <3>1, IsSeqCut
    <3> QED
      BY <1>0, <3>2, IsSeqEqual
  <2> HIDE DEF nonzero
  <2> QED
    BY <1>1, <2>1, <2>2, <2>3 DEF digits
<1>4. CASE digits = <<0>>
  <2>1. nonzero = {}
    BY <1>4
  <2> HIDE DEF nonzero
  <2> QED
    BY <1>1, <1>4, <2>1 DEF digits
<1> QED
  BY <1>0, <1>3, <1>4 DEF digits

LEMMA CycleHas ==
  ASSUME NEW a
  PROVE  /\ Get(a, "DURATION") \cup Get(a, "REPEAT") = {} =>
              AlarmRepeatCycle(a) = {[every |-> Zero, times |-> <<0>>]}
         /\ \A p \in Get(a, "DURATION"), q \in Get(a, "REPEAT") : \A n \in NonNegative(q.value) :
              IsDuration(p.value) =>
                [every |-> ParseDuration(p.value[2]), times |-> n] \in AlarmRepeatCycle(a)
<1>1. Get(a, "DURATION") \cup Get(a, "REPEAT") = {} =>
        AlarmRepeatCycle(a) = {[every |-> Zero, times |-> <<0>>]}
  BY CycleIs
<1>2. ASSUME NEW p \in Get(a, "DURATION"), NEW q \in Get(a, "REPEAT"),
             NEW n \in NonNegative(q.value), IsDuration(p.value)
      PROVE  [every |-> ParseDuration(p.value[2]), times |-> n] \in AlarmRepeatCycle(a)
  <2> DEFINE L == {x \in Get(a, "DURATION") : IsDuration(x.value)}
             N == UNION {NonNegative(x.value) : x \in Get(a, "REPEAT")}
  <2>1. AlarmRepeatCycle(a) = {[every |-> ParseDuration(x.value[2]), times |-> k] :
                                 x \in L, k \in N}
    BY CycleIs
  <2>2. p \in L /\ n \in N
    BY <1>2
  <2> HIDE DEF L, N
  <2> QED
    BY <2>1, <2>2
<1> QED
  BY <1>1, <1>2

\* CheckDuration accepts nothing that AlarmRepeatCycle cannot read, but for a
\* count that is larger than an int.
LEMMA AcceptedRepeats ==
  ASSUME NEW a, TypedProps(a.props), CheckDuration(a) = {},
         Get(a, "DURATION") = {} <=> Get(a, "REPEAT") = {},
         \A p \in Get(a, "REPEAT") : ~ExceedsDigitString(p.value[2], MaxInt)
  PROVE  AlarmRepeatCycle(a) # {}
<1>1. \A p \in Range(a.props) : ~IllFormed(p)
  <2>1. {Finding("VS052", ToUpper(p.name)) : p \in {q \in Range(a.props) : IllFormed(q)}} = {}
    BY CheckDurationIs
  <2> QED
    BY <2>1
<1>2. \A name : Get(a, name) \subseteq {p \in Range(a.props) : ToUpper(p.name) = name}
  BY GetIs
<1>3. CASE Get(a, "REPEAT") = {}
  BY <1>3, CycleHas
<1>4. ASSUME NEW p \in Get(a, "DURATION"), NEW q \in Get(a, "REPEAT")
      PROVE  AlarmRepeatCycle(a) # {}
  <2>1. IsDuration(p.value) /\ IsCanonicalDecimal(q.value)
    BY <1>1, <1>2 DEF IllFormed
  <2>2. IsSeq(q.value[2])
    <3>1. TypedProperty(q)
      BY <1>2, TypedPropsIs
    <3>2. IsSequence(q.value[2])
      BY <2>1, <3>1 DEF TypedProperty, TypedValue, IsCanonicalDecimal
    <3> QED
      BY <3>2, IsSequenceIs
  <2>3. Significant(q.value[2]) = q.value[2]
    BY <2>1, <2>2, SignificantIs
  <2>4. NonNegative(q.value) = {q.value[2]}
    <3>1. q.value[1] = "digits" /\ q.value[2] # <<>>
      BY <2>1 DEF IsCanonicalDecimal
    <3>2. ~ExceedsDigitString(q.value[2], MaxInt)
      OBVIOUS
    <3> QED
      BY <2>3, <3>1, <3>2 DEF NonNegative
  <2> QED
    BY <2>1, <2>4, CycleHas
<1> QED
  BY <1>3, <1>4

LEMMA TypedKeepsVerdicts == TypeOK => VerdictsFollowContent
<1> SUFFICES ASSUME TypeOK, NEW i \in DOMAIN doc
             PROVE  /\ /\ OfContent(ContentFindings(doc[i]))
                            = OfContent(ContentFindings(InCanonicalForm(i)))
                       /\ ScopesOf(doc[i]) = ScopesOf(InCanonicalForm(i))
                    /\ \A j \in DOMAIN doc[i].sub :
                         /\ CheckDuration(doc[i].sub[j]) = {}
                         /\ Get(doc[i].sub[j], "DURATION") = {}
                              <=> Get(doc[i].sub[j], "REPEAT") = {}
                         /\ \A p \in Get(doc[i].sub[j], "REPEAT") :
                              ~ExceedsDigitString(p.value[2], MaxInt)
                         => AlarmRepeatCycle(doc[i].sub[j]) # {}
  BY Zenon DEF VerdictsFollowContent
<1> DEFINE c == doc[i]
           d == InCanonicalForm(i)
<1>1. DocumentTyped(doc) /\ TypedProps(c.props)
  BY TypeOKIs, DocumentAt
<1>2. InForm(d, c, doc)
  BY <1>1 DEF InForm, InCanonicalForm, EncodeComponent, PrepareComponent, CanonicalProps
<1> HIDE DEF d
<1>3. OfContent(ContentFindings(c)) = OfContent(ContentFindings(d))
  BY <1>2, ContentFindingsStay
<1>4. ScopesOf(c) = ScopesOf(d)
  <2> DEFINE scopes == {"None", "VStar", "System", "Experimental", "Unknown"}
  <2>1. IsSeq(c.props) /\ IsSeq(d.props)
    <3>1. IsSeq(CanonicalProps(c, doc))
      <4> DEFINE name == "RRULE"
      <4>1. name # "X-VSTAR-HASH"
        OBVIOUS
      <4> HIDE DEF name, c
      <4>2. /\ IsSeq(CanonicalProps(c, doc))
            /\ Len(Named(CanonicalProps(c, doc), name)) = Len(Named(c.props, name))
        BY <1>1, <4>1, NamedStays
      <4> QED
        BY <4>2
    <3> QED
      BY <1>1, <1>2, <3>1, TypedPropsIs DEF InForm
  <2> HIDE DEF scopes, c
  <2>2. /\ ScopesOf(c) = [scope \in scopes |->
             {ToUpper(p.name) : p \in ToSet(FilterHash(ExtensionsByScope(c, scope)))}]
        /\ ScopesOf(d) = [scope \in scopes |->
             {ToUpper(p.name) : p \in ToSet(FilterHash(ExtensionsByScope(d, scope)))}]
    BY Zenon DEF ScopesOf, scopes
  <2>3. /\ ScopesOf(c) = [scope \in scopes |-> Scoped(c, scope)]
        /\ ScopesOf(d) = [scope \in scopes |-> Scoped(d, scope)]
    BY <2>1, <2>2, ScopedIs
  <2>4. \A scope : Scoped(d, scope) = Scoped(c, scope)
    BY <1>2, ScopeStays
  <2> QED
    BY <2>3, <2>4
<1>5. \A j \in DOMAIN c.sub : TypedProps(c.sub[j].props)
  BY <1>1, DocumentSub DEF TypedNested
<1> QED
  BY <1>3, <1>4, <1>5, AcceptedRepeats DEF d

\* VerdictsFollowContent: the validator finds in a component, its hash aside,
\* what it finds in the canonical form, the names of each scope are the same,
\* and CheckDuration accepts no alarm that AlarmRepeatCycle cannot read.
THEOREM CanonicalKeepsVerdicts == Spec => []VerdictsFollowContent
<1> QED
  BY TypedKeepsVerdicts, TypeCorrect, PTL
=============================================================================
