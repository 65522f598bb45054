------------------------- MODULE PropertySlices_proofs -------------------------
(***************************************************************************)
(* Copies of a component are values but for what is added to two of them,  *)
(* for any number of goroutines, calls and copies, each goroutine with a   *)
(* copy of its own.                                                        *)
(***************************************************************************)
EXTENDS PropertySlices, SequenceLemmas

\* Each goroutine calls helpers on a copy of its own.
OwnersAssumption == \A g, h \in Goroutines : Uses[g] = Uses[h] => g = h

-----------------------------------------------------------------------------
(* The invariant. *)

HeaderTyped(c) ==
  /\ props[c].array \in 1..Len(arrays)
  /\ props[c].len \in 0..Len(arrays[props[c].array])

SliceTypes ==
  /\ IsSeq(arrays) /\ \A k \in 1..Len(arrays) : IsSeq(arrays[k])
  /\ props \in [Components -> [array : Nat, len : Nat]]
  /\ \A c \in Components : HeaderTyped(c)
  /\ pc \in [Goroutines -> {"idle", "set", "assign", "stamp"}]
  /\ prop = [g \in Goroutines |-> prop[g]]
  /\ out = [g \in Goroutines |-> out[g]]
  /\ value = [c \in Components |-> value[c]]
  /\ \A c \in Components : IsSeq(value[c])
  /\ added \subseteq Components

\* The only array two copies share is the constructor's.  A copy that still has
\* it holds there what was constructed, and then what was added to it or, in the
\* same places, to another copy.
OnConstructed(c) ==
  /\ Len(Constructed) <= props[c].len
  /\ c \notin added => props[c].len = Len(Constructed)
  /\ \A k \in Len(Constructed) + 1..props[c].len : arrays[1][k].name = "RELATED-TO"

Sharing ==
  /\ \A c, d \in Components :
       c # d /\ props[c].array = props[d].array => props[c].array = 1
  /\ \A c \in Components : props[c].array = 1 => OnConstructed(c)

\* What is still to happen to the properties ps that are being Set.
Finished(p, ps) == IF p.name = "X-VSTAR-HASH" THEN ps ELSE Stamped(ps)

\* ps is what the calls on c make of it, but for what collided.
Expected(c, ps) == Alike(ps, value[c]) /\ (AddedAlone(c) => ps = value[c])

\* What the running call makes of a component is what its caller expects.
OnTheWay(g) ==
  LET c == Uses[g] IN
  /\ pc[g] = "idle" => Expected(c, Props(c))
  /\ pc[g] = "stamp" => Expected(c, Stamped(Props(c)))
  /\ pc[g] = "set" => Expected(c, Finished(prop[g], SetIn(Props(c), prop[g])))
  /\ pc[g] = "assign" => IsSeq(out[g]) /\ Expected(c, Finished(prop[g], out[g]))

Unused ==
  \A c \in Components :
    (\A g \in Goroutines : Uses[g] # c) => c \notin added /\ Props(c) = value[c]

SlicesInv ==
  /\ SliceTypes /\ Sharing
  /\ \A g \in Goroutines : OnTheWay(g)
  /\ Unused

-----------------------------------------------------------------------------
(* What Set makes of a sequence of properties is one. *)

Keeps(f, ps, name, m) ==
  f = [n \in 0..m |->
         IF n = 0 THEN <<>>
         ELSE IF ps[n].name = name THEN f[n - 1]
         ELSE Append(f[n - 1], ps[n])]

LEMMA KeepsAt ==
  ASSUME NEW ps, NEW name, NEW m \in Nat, NEW f, Keeps(f, ps, name, m)
  PROVE  /\ DOMAIN f = 0..m /\ f[0] = <<>>
         /\ \A n \in 0..m : n # 0 => f[n] = IF ps[n].name = name THEN f[n - 1]
                                            ELSE Append(f[n - 1], ps[n])
<1> DEFINE rhs == [n \in 0..m |-> IF n = 0 THEN <<>>
                                  ELSE IF ps[n].name = name THEN f[n - 1]
                                  ELSE Append(f[n - 1], ps[n])]
<1>1. f = rhs
  BY DEF Keeps
<1>2. /\ DOMAIN rhs = 0..m /\ rhs[0] = <<>>
      /\ \A n \in 0..m : n # 0 => rhs[n] = IF ps[n].name = name THEN f[n - 1]
                                           ELSE Append(f[n - 1], ps[n])
  OBVIOUS
<1> HIDE DEF rhs
<1> QED BY <1>1, <1>2

LEMMA KeepsExists ==
  ASSUME NEW ps, NEW name
  PROVE  \A m \in Nat : \E f : Keeps(f, ps, name, m)
<1> DEFINE T == {m \in Nat : \E f : Keeps(f, ps, name, m)}
<1>1. 0 \in T
  <2> DEFINE f == [n \in 0..0 |-> <<>>]
  <2>1. Keeps(f, ps, name, 0)
    BY DEF Keeps
  <2> QED BY <2>1
<1>2. ASSUME NEW m \in Nat, m \in T PROVE m + 1 \in T
  <2>1. PICK f : Keeps(f, ps, name, m)
    BY <1>2
  <2>2. /\ DOMAIN f = 0..m /\ f[0] = <<>>
        /\ \A n \in 0..m : n # 0 => f[n] = IF ps[n].name = name THEN f[n - 1]
                                           ELSE Append(f[n - 1], ps[n])
    BY <2>1, KeepsAt
  <2> DEFINE last == IF ps[m + 1].name = name THEN f[m] ELSE Append(f[m], ps[m + 1])
             g == [n \in 0..m + 1 |-> IF n = m + 1 THEN last ELSE f[n]]
  <2>3. /\ \A n \in 0..m : g[n] = f[n]
        /\ g[m + 1] = last
        /\ DOMAIN g = 0..m + 1
    <3> HIDE DEF last
    <3>1. \A n \in 0..m : n # m + 1 /\ n \in 0..m + 1
      OBVIOUS
    <3>2. m + 1 \in 0..m + 1
      OBVIOUS
    <3> QED BY <3>1, <3>2
  <2> DEFINE rhs == [n \in 0..m + 1 |-> IF n = 0 THEN <<>>
                                        ELSE IF ps[n].name = name THEN g[n - 1]
                                        ELSE Append(g[n - 1], ps[n])]
  <2>4. ASSUME NEW n \in 0..m + 1 PROVE g[n] = rhs[n]
    <3>1. CASE n = 0
      BY <2>2, <2>3, <3>1
    <3>2. CASE n = m + 1
      <4>1. g[n - 1] = f[m] /\ n # 0
        BY <2>3, <3>2
      <4> HIDE DEF g
      <4> QED BY <2>3, <3>2, <4>1
    <3>3. CASE n # 0 /\ n # m + 1
      <4>1. n \in 0..m /\ n - 1 \in 0..m
        BY <3>3
      <4>2. g[n] = f[n] /\ g[n - 1] = f[n - 1]
        BY <2>3, <4>1
      <4> HIDE DEF g
      <4> QED BY <2>2, <3>3, <4>1, <4>2
    <3> QED BY <3>1, <3>2, <3>3
  <2>5. g = rhs
    BY <2>4
  <2>6. Keeps(g, ps, name, m + 1)
    <3> HIDE DEF g
    <3> QED BY <2>5 DEF Keeps
  <2> QED BY <2>6
<1> HIDE DEF T
<1>3. Nat \subseteq T
  BY <1>1, <1>2, SetInduction
<1> QED BY <1>3 DEF T

LEMMA WithoutBySteps ==
  ASSUME NEW ps, Len(ps) \in Nat, NEW name
  PROVE  \E f : /\ Without(ps, name) = f[Len(ps)] /\ f[0] = <<>>
                /\ \A n \in 0..Len(ps) : n # 0 =>
                     f[n] = IF ps[n].name = name THEN f[n - 1]
                            ELSE Append(f[n - 1], ps[n])
<1>1. PICK f : Keeps(f, ps, name, Len(ps)) /\ Without(ps, name) = f[Len(ps)]
  <2> DEFINE f == CHOOSE h : Keeps(h, ps, name, Len(ps))
  <2>1. Keeps(f, ps, name, Len(ps))
    BY KeepsExists
  <2>2. Without(ps, name) = f[Len(ps)]
    BY DEF Without, Keeps
  <2> QED BY <2>1, <2>2
<1>2. /\ f[0] = <<>>
      /\ \A n \in 0..Len(ps) : n # 0 => f[n] = IF ps[n].name = name THEN f[n - 1]
                                               ELSE Append(f[n - 1], ps[n])
  <2> DEFINE m == Len(ps)
  <2>1. m \in Nat /\ Keeps(f, ps, name, m)
    BY <1>1
  <2> HIDE DEF m
  <2>2. /\ DOMAIN f = 0..m /\ f[0] = <<>>
        /\ \A n \in 0..m : n # 0 => f[n] = IF ps[n].name = name THEN f[n - 1]
                                          ELSE Append(f[n - 1], ps[n])
    BY <2>1, KeepsAt
  <2> QED BY <2>2 DEF m
<1> QED BY <1>1, <1>2

LEMMA WithoutIsSeq ==
  ASSUME NEW ps, IsSeq(ps), NEW name
  PROVE  IsSeq(Without(ps, name))
<1>1. Len(ps) \in Nat
  BY IsSeqProperties
<1>2. PICK f : /\ Without(ps, name) = f[Len(ps)] /\ f[0] = <<>>
               /\ \A n \in 0..Len(ps) : n # 0 =>
                    f[n] = IF ps[n].name = name THEN f[n - 1]
                           ELSE Append(f[n - 1], ps[n])
  BY <1>1, WithoutBySteps
<1> DEFINE T == {n \in Nat : n <= Len(ps) => IsSeq(f[n])}
<1>3. 0 \in T
  BY <1>2, IsSeqShort
<1>4. ASSUME NEW n \in Nat, n \in T PROVE n + 1 \in T
  <2> SUFFICES ASSUME n + 1 <= Len(ps) PROVE IsSeq(f[n + 1])
    OBVIOUS
  <2>1. n + 1 \in 0..Len(ps) /\ n + 1 # 0 /\ (n + 1) - 1 = n
    BY <1>1
  <2>2. IsSeq(f[n])
    BY <1>1, <1>4
  <2>3. f[n + 1] = f[n] \/ f[n + 1] = Append(f[n], ps[n + 1])
    BY <1>2, <2>1
  <2>4. IsSeq(Append(f[n], ps[n + 1]))
    BY <2>2, IsSeqAppend
  <2> QED BY <2>2, <2>3, <2>4
<1>5. Nat \subseteq T
  <2> HIDE DEF T
  <2> QED BY <1>3, <1>4, SetInduction
<1> QED BY <1>1, <1>2, <1>5

LEMMA IndexIn ==
  ASSUME NEW ps, IsSeq(ps), NEW name
  PROVE  LET at == Index(ps, name) IN at = 0 \/ (at \in 1..Len(ps) /\ ps[at].name = name)
<1> DEFINE at == Index(ps, name)
           I == {i \in 1..Len(ps) : ps[i].name = name}
<1>1. at = IF I # {} THEN Min(I) ELSE 0
  BY DEF Index, SelectInSeq
<1>2. CASE I # {}
  <2>1. I \in SUBSET Nat
    BY IsSeqProperties
  <2>2. PICK x \in I : \A y \in I : x <= y
    <3> HIDE DEF I
    <3> QED BY <1>2, <2>1, LeastNatural
  <2>3. Min(I) \in I
    <3> HIDE DEF I
    <3> QED BY <2>2 DEF Min
  <2> HIDE DEF at
  <2>4. at \in I
    <3> HIDE DEF I
    <3> QED BY <1>1, <1>2, <2>3
  <2> QED BY <2>4 DEF at
<1> QED BY <1>1, <1>2

LEMMA SetInIsSeq ==
  ASSUME NEW ps, IsSeq(ps), NEW p
  PROVE  IsSeq(SetIn(ps, p))
<1> DEFINE at == Index(ps, p.name)
<1>1. Len(ps) \in Nat /\ (at = 0 \/ at \in 1..Len(ps))
  BY IsSeqProperties, IndexIn
<1> HIDE DEF at
<1>2. SetIn(ps, p) = IF at = 0 THEN Append(ps, p)
                     ELSE SubSeq(ps, 1, at - 1) \o <<p>>
                            \o Without(SubSeq(ps, at + 1, Len(ps)), p.name)
  BY DEF SetIn, at
<1>3. CASE at = 0
  BY <1>2, <1>3, IsSeqAppend
<1>4. CASE at # 0
  <2>1. at - 1 \in 0..Len(ps) /\ at \in 0..Len(ps)
    BY <1>1, <1>4
  <2>2. IsSeq(SubSeq(ps, 1, at - 1)) /\ IsSeq(SubSeq(ps, at + 1, Len(ps)))
    BY <2>1, IsSeqCut
  <2>3. IsSeq(Without(SubSeq(ps, at + 1, Len(ps)), p.name))
    BY <2>2, WithoutIsSeq
  <2>4. IsSeq(SubSeq(ps, 1, at - 1) \o <<p>>)
    BY <2>2, IsSeqShort, IsSeqConcat
  <2> QED BY <1>2, <1>4, <2>3, <2>4, IsSeqConcat
<1> QED BY <1>3, <1>4

LEMMA StampedIsSeq ==
  ASSUME NEW ps, IsSeq(ps)
  PROVE  IsSeq(Stamped(ps))
BY SetInIsSeq DEF Stamped

\* An array the runtime makes for ps begins with ps.
LEMMA GrownHolds ==
  ASSUME NEW ps, IsSeq(ps), NEW capacity \in Nat
  PROVE  /\ IsSeq(Grown(ps, capacity))
         /\ Len(ps) \in 0..Len(Grown(ps, capacity))
         /\ SubSeq(Grown(ps, capacity), 1, Len(ps)) = ps
<1>1. Len(ps) \in Nat
  BY IsSeqProperties
<1>2. ASSUME NEW n \in Int
      PROVE  IsSeq([k \in 1..n |-> Spare]) /\ Len([k \in 1..n |-> Spare]) \in Nat
  <2>1. CASE n \in Nat
    <3>1. [k \in 1..n |-> Spare] \in Seq({Spare})
      BY <2>1
    <3> QED BY <3>1, SeqIsSeq, LenProperties
  <2>2. CASE n \notin Nat
    <3>1. 1..n = {}
      BY <2>2
    <3>2. [k \in 1..n |-> Spare] = <<>>
      BY <3>1
    <3>3. Len(<<>>) = 0
      OBVIOUS
    <3> QED BY <3>2, <3>3, IsSeqShort
  <2> QED BY <2>1, <2>2
<1>3. PICK n \in Int : Grown(ps, capacity) = ps \o [k \in 1..n |-> Spare]
  <2>1. capacity - Len(ps) \in Int /\ Len(ps) - 2 \in Int
    BY <1>1
  <2> QED BY <2>1 DEF Grown
<1> DEFINE rest == [k \in 1..n |-> Spare]
<1>4. IsSeq(rest) /\ Len(rest) \in Nat
  BY <1>2
<1> HIDE DEF rest
<1>5. /\ IsSeq(ps \o rest) /\ Len(ps \o rest) = Len(ps) + Len(rest)
      /\ \A k \in 1..Len(ps) : (ps \o rest)[k] = ps[k]
  BY <1>4, IsSeqConcat
<1>6. Len(ps) \in 0..Len(ps \o rest)
  BY <1>1, <1>4, <1>5
<1>7. SubSeq(ps \o rest, 1, Len(ps)) = ps
  <2>1. /\ IsSeq(SubSeq(ps \o rest, 1, Len(ps)))
        /\ Len(SubSeq(ps \o rest, 1, Len(ps))) = Len(ps)
        /\ \A k \in 1..Len(ps) : SubSeq(ps \o rest, 1, Len(ps))[k] = (ps \o rest)[k]
    BY <1>5, <1>6, IsSeqCut
  <2> QED BY <1>5, <2>1, IsSeqEqual
<1>8. Grown(ps, capacity) = ps \o rest
  BY <1>3 DEF rest
<1> QED BY <1>5, <1>6, <1>7, <1>8

-----------------------------------------------------------------------------
(* What is made of alike components is alike. *)

LEMMA AlikeItself ==
  ASSUME NEW ps
  PROVE  Alike(ps, ps)
BY DEF Alike, AlikeProps

LEMMA AlikeThrough ==
  ASSUME NEW ps, NEW qs, NEW rs, Alike(ps, qs), Alike(qs, rs)
  PROVE  Alike(ps, rs)
BY DEF Alike, AlikeProps

LEMMA AlikeAppend ==
  ASSUME NEW ps, IsSeq(ps), NEW qs, IsSeq(qs), Alike(ps, qs),
         NEW p, NEW q, AlikeProps(p, q)
  PROVE  Alike(Append(ps, p), Append(qs, q))
<1>1. /\ Len(ps) \in Nat /\ Len(qs) = Len(ps)
      /\ \A k \in 1..Len(ps) : AlikeProps(ps[k], qs[k])
  BY IsSeqProperties DEF Alike
<1> DEFINE s == Append(ps, p)
           t == Append(qs, q)
<1>2. /\ Len(s) = Len(ps) + 1 /\ Len(t) = Len(ps) + 1
      /\ \A k \in 1..Len(ps) : s[k] = ps[k] /\ t[k] = qs[k]
      /\ s[Len(ps) + 1] = p /\ t[Len(ps) + 1] = q
  BY <1>1, IsSeqAppend
<1> HIDE DEF s, t
<1>3. \A k \in 1..Len(s) : k \in 1..Len(ps) \/ k = Len(ps) + 1
  BY <1>1, <1>2
<1>4. \A k \in 1..Len(s) : AlikeProps(s[k], t[k])
  BY <1>1, <1>2, <1>3
<1> QED BY <1>2, <1>4 DEF Alike, s, t

LEMMA AlikeConcat ==
  ASSUME NEW ps, IsSeq(ps), NEW qs, IsSeq(qs), Alike(ps, qs),
         NEW us, IsSeq(us), NEW vs, IsSeq(vs), Alike(us, vs)
  PROVE  Alike(ps \o us, qs \o vs)
<1>1. /\ Len(ps) \in Nat /\ Len(us) \in Nat /\ Len(qs) = Len(ps) /\ Len(vs) = Len(us)
      /\ \A k \in 1..Len(ps) : AlikeProps(ps[k], qs[k])
      /\ \A k \in 1..Len(us) : AlikeProps(us[k], vs[k])
  BY IsSeqProperties DEF Alike
<1> DEFINE s == ps \o us
           t == qs \o vs
<1>2. /\ Len(s) = Len(ps) + Len(us) /\ \A k \in 1..Len(ps) : s[k] = ps[k]
      /\ \A k \in 1..Len(us) : s[Len(ps) + k] = us[k]
  <2>1. PICK S : ps \in Seq(S) /\ us \in Seq(S)
    BY IsSeqTogether
  <2> QED BY <2>1, CutConcat
<1>3. /\ Len(t) = Len(ps) + Len(us) /\ \A k \in 1..Len(ps) : t[k] = qs[k]
      /\ \A k \in 1..Len(us) : t[Len(ps) + k] = vs[k]
  <2>1. PICK S : qs \in Seq(S) /\ vs \in Seq(S)
    BY IsSeqTogether
  <2>2. /\ Len(t) = Len(qs) + Len(vs) /\ \A k \in 1..Len(qs) : t[k] = qs[k]
        /\ \A k \in 1..Len(vs) : t[Len(qs) + k] = vs[k]
    BY <2>1, CutConcat
  <2> QED BY <1>1, <2>2
<1> HIDE DEF s, t
<1>4. ASSUME NEW k \in 1..Len(s) PROVE AlikeProps(s[k], t[k])
  <2>1. CASE k \in 1..Len(ps)
    BY <1>1, <1>2, <1>3, <2>1
  <2>2. CASE k \notin 1..Len(ps)
    <3>1. PICK i \in 1..Len(us) : k = Len(ps) + i
      <4>1. k - Len(ps) \in 1..Len(us) /\ k = Len(ps) + (k - Len(ps))
        BY <1>1, <1>2, <2>2
      <4> QED BY <4>1
    <3> QED BY <1>1, <1>2, <1>3, <3>1
  <2> QED BY <2>1, <2>2
<1> QED BY <1>2, <1>3, <1>4 DEF Alike, s, t

LEMMA AlikeCut ==
  ASSUME NEW ps, IsSeq(ps), NEW qs, IsSeq(qs), Alike(ps, qs), NEW n \in 0..Len(ps)
  PROVE  /\ Alike(SubSeq(ps, 1, n), SubSeq(qs, 1, n))
         /\ Alike(SubSeq(ps, n + 1, Len(ps)), SubSeq(qs, n + 1, Len(qs)))
<1>1. /\ Len(ps) \in Nat /\ Len(qs) = Len(ps)
      /\ \A k \in 1..Len(ps) : AlikeProps(ps[k], qs[k])
  BY IsSeqProperties DEF Alike
<1>2. PICK S : ps \in Seq(S) /\ qs \in Seq(S)
  BY IsSeqTogether
<1>3. \A k \in 1..Len(ps) : ps[k] \in S /\ qs[k] \in S
  BY <1>1, <1>2, ElementOfSeq
<1>4. ASSUME NEW a \in Nat \ {0}, NEW b \in 0..Len(ps)
      PROVE  Alike(SubSeq(ps, a, b), SubSeq(qs, a, b))
  <2>1. a \in Int /\ b \in Int /\ \A i \in a..b : i \in 1..Len(ps)
    BY <1>1
  <2>2. \A i \in a..b : ps[i] \in S /\ qs[i] \in S
    BY <1>3, <2>1
  <2> DEFINE s == SubSeq(ps, a, b)
             t == SubSeq(qs, a, b)
  <2>3. /\ Len(s) = IF a <= b THEN b - a + 1 ELSE 0
        /\ \A i \in 1..b - a + 1 : s[i] = ps[a + i - 1]
    BY <2>1, <2>2, SubSeqProperties
  <2>4. /\ Len(t) = IF a <= b THEN b - a + 1 ELSE 0
        /\ \A i \in 1..b - a + 1 : t[i] = qs[a + i - 1]
    BY <2>1, <2>2, SubSeqProperties
  <2> HIDE DEF s, t
  <2>5. \A i \in 1..Len(s) : i \in 1..b - a + 1 /\ a + i - 1 \in 1..Len(ps)
    BY <1>1, <2>1, <2>3
  <2>6. \A i \in 1..Len(s) : AlikeProps(s[i], t[i])
    BY <1>1, <2>3, <2>4, <2>5
  <2> QED BY <2>3, <2>4, <2>6 DEF Alike, s, t
<1>5. 1 \in Nat \ {0} /\ n + 1 \in Nat \ {0} /\ n \in 0..Len(ps) /\ Len(ps) \in 0..Len(ps)
  BY <1>1
<1> QED BY <1>1, <1>4, <1>5

LEMMA AlikeWithout ==
  ASSUME NEW ps, IsSeq(ps), NEW qs, IsSeq(qs), Alike(ps, qs), NEW name
  PROVE  Alike(Without(ps, name), Without(qs, name))
<1> DEFINE n == Len(ps)
<1>1. /\ n \in Nat /\ Len(qs) = n /\ \A k \in 1..n : AlikeProps(ps[k], qs[k])
  BY IsSeqProperties DEF Alike
<1>2. PICK f : /\ Without(ps, name) = f[n] /\ f[0] = <<>>
               /\ \A k \in 0..n : k # 0 => f[k] = IF ps[k].name = name THEN f[k - 1]
                                                  ELSE Append(f[k - 1], ps[k])
  BY <1>1, WithoutBySteps
<1>3. PICK g : /\ Without(qs, name) = g[n] /\ g[0] = <<>>
               /\ \A k \in 0..n : k # 0 => g[k] = IF qs[k].name = name THEN g[k - 1]
                                                  ELSE Append(g[k - 1], qs[k])
  BY <1>1, WithoutBySteps
<1> HIDE DEF n
<1> DEFINE T == {k \in Nat : k <= n => IsSeq(f[k]) /\ IsSeq(g[k]) /\ Alike(f[k], g[k])}
<1>4. 0 \in T
  BY <1>2, <1>3, IsSeqShort, AlikeItself
<1>5. ASSUME NEW k \in Nat, k \in T PROVE k + 1 \in T
  <2> SUFFICES ASSUME k + 1 <= n
               PROVE  IsSeq(f[k + 1]) /\ IsSeq(g[k + 1]) /\ Alike(f[k + 1], g[k + 1])
    OBVIOUS
  <2> DEFINE p == ps[k + 1]
             q == qs[k + 1]
  <2>1. k + 1 \in 0..n /\ k + 1 # 0 /\ (k + 1) - 1 = k /\ k + 1 \in 1..n /\ k <= n
    BY <1>1
  <2>2. IsSeq(f[k]) /\ IsSeq(g[k]) /\ Alike(f[k], g[k]) /\ AlikeProps(p, q)
    BY <1>1, <1>5, <2>1
  <2>3. /\ f[k + 1] = IF p.name = name THEN f[k] ELSE Append(f[k], p)
        /\ g[k + 1] = IF q.name = name THEN g[k] ELSE Append(g[k], q)
    BY <1>2, <1>3, <2>1
  <2>4. p.name = q.name
    BY <2>2 DEF AlikeProps
  <2> HIDE DEF p, q
  <2>5. CASE p.name = name
    BY <2>2, <2>3, <2>4, <2>5
  <2>6. CASE p.name # name
    <3>1. f[k + 1] = Append(f[k], p) /\ g[k + 1] = Append(g[k], q)
      BY <2>3, <2>4, <2>6
    <3> QED BY <2>2, <3>1, AlikeAppend, IsSeqAppend
  <2> QED BY <2>5, <2>6
<1>6. Nat \subseteq T
  <2> HIDE DEF T
  <2> QED BY <1>4, <1>5, SetInduction
<1> QED BY <1>1, <1>2, <1>3, <1>6 DEF n

LEMMA AlikeIndex ==
  ASSUME NEW ps, NEW qs, Alike(ps, qs), NEW name
  PROVE  Index(ps, name) = Index(qs, name)
<1> DEFINE I == {i \in 1..Len(ps) : ps[i].name = name}
           J == {i \in 1..Len(qs) : qs[i].name = name}
<1>1. I = J
  BY DEF Alike, AlikeProps
<1>2. /\ Index(ps, name) = IF I # {} THEN Min(I) ELSE 0
      /\ Index(qs, name) = IF J # {} THEN Min(J) ELSE 0
  BY DEF Index, SelectInSeq
<1> HIDE DEF I, J
<1> QED BY <1>1, <1>2

LEMMA AlikeSetIn ==
  ASSUME NEW ps, IsSeq(ps), NEW qs, IsSeq(qs), Alike(ps, qs),
         NEW p, NEW q, AlikeProps(p, q)
  PROVE  Alike(SetIn(ps, p), SetIn(qs, q))
<1> DEFINE at == Index(ps, p.name)
<1>1. p.name = q.name /\ Index(qs, p.name) = at
  BY AlikeIndex DEF AlikeProps
<1>2. Len(ps) \in Nat /\ Len(qs) = Len(ps) /\ (at = 0 \/ at \in 1..Len(ps))
  BY IsSeqProperties, IndexIn DEF Alike
<1> HIDE DEF at
<1> DEFINE made(s, x) == IF at = 0 THEN Append(s, x)
                         ELSE SubSeq(s, 1, at - 1) \o <<x>>
                                \o Without(SubSeq(s, at + 1, Len(s)), p.name)
<1>3. SetIn(ps, p) = made(ps, p) /\ SetIn(qs, q) = made(qs, q)
  BY <1>1 DEF SetIn, at
<1>4. CASE at = 0
  BY <1>3, <1>4, AlikeAppend
<1>5. CASE at # 0
  <2>1. at - 1 \in 0..Len(ps) /\ at \in 0..Len(ps)
    BY <1>2, <1>5
  <2> DEFINE before(s) == SubSeq(s, 1, at - 1)
             after(s) == SubSeq(s, at + 1, Len(s))
  <2>2. /\ IsSeq(before(ps)) /\ IsSeq(before(qs)) /\ IsSeq(after(ps)) /\ IsSeq(after(qs))
    BY <1>2, <2>1, IsSeqCut
  <2>3. Alike(before(ps), before(qs)) /\ Alike(after(ps), after(qs))
    BY <2>1, AlikeCut
  <2> HIDE DEF before, after
  <2>4. Alike(<<p>>, <<q>>) /\ IsSeq(<<p>>) /\ IsSeq(<<q>>)
    BY IsSeqShort DEF Alike
  <2>5. /\ Alike(before(ps) \o <<p>>, before(qs) \o <<q>>)
        /\ IsSeq(before(ps) \o <<p>>) /\ IsSeq(before(qs) \o <<q>>)
    BY <2>2, <2>3, <2>4, AlikeConcat, IsSeqConcat
  <2>6. /\ Alike(Without(after(ps), p.name), Without(after(qs), p.name))
        /\ IsSeq(Without(after(ps), p.name)) /\ IsSeq(Without(after(qs), p.name))
    BY <2>2, <2>3, AlikeWithout, WithoutIsSeq
  <2>7. Alike(before(ps) \o <<p>> \o Without(after(ps), p.name),
              before(qs) \o <<q>> \o Without(after(qs), p.name))
    BY <2>5, <2>6, AlikeConcat
  <2>8. /\ SetIn(ps, p) = before(ps) \o <<p>> \o Without(after(ps), p.name)
        /\ SetIn(qs, q) = before(qs) \o <<q>> \o Without(after(qs), p.name)
    BY <1>3, <1>5 DEF before, after
  <2> QED BY <2>7, <2>8
<1> QED BY <1>4, <1>5

LEMMA AlikeStamped ==
  ASSUME NEW ps, IsSeq(ps), NEW qs, IsSeq(qs), Alike(ps, qs)
  PROVE  Alike(Stamped(ps), Stamped(qs))
<1>1. AlikeProps(Hash(Content(ps)), Hash(Content(qs)))
  BY DEF AlikeProps, Hash
<1> QED BY <1>1, AlikeSetIn DEF Stamped

LEMMA AlikeFinished ==
  ASSUME NEW ps, IsSeq(ps), NEW qs, IsSeq(qs), Alike(ps, qs), NEW p
  PROVE  Alike(Finished(p, ps), Finished(p, qs))
BY AlikeStamped DEF Finished

LEMMA AlikeRevision ==
  ASSUME NEW ps, IsSeq(ps), NEW qs, Alike(ps, qs)
  PROVE  Revision(ps) = Revision(qs)
<1> DEFINE at == Index(ps, "SEQUENCE")
<1>1. Index(qs, "SEQUENCE") = at
  BY AlikeIndex
<1>2. at # 0 => at \in 1..Len(ps) /\ ps[at].name = "SEQUENCE"
  BY IndexIn
<1> HIDE DEF at
<1>3. at # 0 => ps[at] = qs[at]
  BY <1>2 DEF Alike, AlikeProps
<1>4. /\ Revision(ps) = IF at = 0 THEN 0 ELSE ps[at].value
      /\ Revision(qs) = IF at = 0 THEN 0 ELSE qs[at].value
  BY <1>1 DEF Revision, at
<1> QED BY <1>3, <1>4

LEMMA ConstructedIsSeq == IsSeq(Constructed) /\ Len(Constructed) \in Nat
<1>1. ASSUME NEW x, NEW y PROVE IsSeq(<<x, y>>)
  <2>1. <<x, y>> \in Seq({x, y})
    OBVIOUS
  <2> QED BY <2>1, SeqIsSeq
<1>2. IsSeq(Constructed)
  BY <1>1, StampedIsSeq DEF Constructed
<1> QED BY <1>2, IsSeqProperties

-----------------------------------------------------------------------------
(* One component changes, the others stay as they are. *)

\* c has other properties; a fresh array was allocated for them.
LEMMA Reallocated ==
  ASSUME SliceTypes, Sharing, NEW c \in Components, added \subseteq added',
         NEW ps, IsSeq(ps), NEW capacity \in Nat,
         arrays' = Append(arrays, Grown(ps, capacity)),
         props' = [props EXCEPT ![c] = [array |-> Len(arrays'), len |-> Len(ps)]]
  PROVE  /\ IsSeq(arrays') /\ \A k \in 1..Len(arrays') : IsSeq(arrays'[k])
         /\ props' \in [Components -> [array : Nat, len : Nat]]
         /\ \A d \in Components : HeaderTyped(d)'
         /\ Sharing'
         /\ Props(c)' = ps
         /\ \A d \in Components : d # c => Props(d)' = Props(d)
<1>1. /\ IsSeq(Grown(ps, capacity))
      /\ Len(ps) \in 0..Len(Grown(ps, capacity)) /\ Len(ps) \in Nat
      /\ SubSeq(Grown(ps, capacity), 1, Len(ps)) = ps
  BY GrownHolds, IsSeqProperties
<1>2. /\ IsSeq(arrays) /\ Len(arrays) \in Nat
      /\ \A k \in 1..Len(arrays) : IsSeq(arrays[k])
  BY IsSeqProperties DEF SliceTypes
<1> DEFINE new == Grown(ps, capacity)
<1> HIDE DEF new
<1>3. /\ IsSeq(arrays') /\ Len(arrays') = Len(arrays) + 1
      /\ \A k \in 1..Len(arrays) : arrays'[k] = arrays[k]
      /\ arrays'[Len(arrays) + 1] = new
  <2>1. arrays' = Append(arrays, new)
    BY DEF new
  <2> QED BY <1>2, <2>1, IsSeqAppend
<1>4. \A k \in 1..Len(arrays') : IsSeq(arrays'[k])
  <2> SUFFICES ASSUME NEW k \in 1..Len(arrays') PROVE IsSeq(arrays'[k])
    OBVIOUS
  <2>1. k \in 1..Len(arrays) \/ k = Len(arrays) + 1
    BY <1>2, <1>3
  <2> QED BY <1>1, <1>2, <1>3, <2>1 DEF new
<1>5. props \in [Components -> [array : Nat, len : Nat]]
  BY DEF SliceTypes
<1> DEFINE header == [array |-> Len(arrays'), len |-> Len(ps)]
<1>6. header \in [array : Nat, len : Nat] /\ header.array = Len(arrays) + 1
      /\ header.len = Len(ps)
  BY <1>1, <1>2, <1>3
<1>7. props' = [props EXCEPT ![c] = header]
  OBVIOUS
<1> HIDE DEF header
<1>8. /\ props' \in [Components -> [array : Nat, len : Nat]]
      /\ props'[c] = header /\ \A d \in Components : d # c => props'[d] = props[d]
  BY <1>5, <1>6, <1>7
<1>9. \A d \in Components :
        /\ props[d].array \in 1..Len(arrays) /\ props[d].array # Len(arrays) + 1
        /\ props[d].len \in 0..Len(arrays[props[d].array])
  BY <1>2 DEF SliceTypes, HeaderTyped
<1>10. \A d \in Components : HeaderTyped(d)'
  <2> SUFFICES ASSUME NEW d \in Components PROVE HeaderTyped(d)'
    OBVIOUS
  <2>1. CASE d = c
    <3>1. props'[d].array = Len(arrays) + 1 /\ props'[d].len = Len(ps)
      BY <1>6, <1>8, <2>1
    <3>2. Len(arrays) + 1 \in 1..Len(arrays')
      BY <1>2, <1>3
    <3>3. arrays'[props'[d].array] = new
      BY <1>3, <3>1
    <3> QED BY <1>1, <3>1, <3>2, <3>3 DEF HeaderTyped, new
  <2>2. CASE d # c
    <3>1. props'[d] = props[d] /\ arrays'[props[d].array] = arrays[props[d].array]
      BY <1>3, <1>8, <1>9, <2>2
    <3>2. props[d].array \in 1..Len(arrays')
      BY <1>2, <1>3, <1>9
    <3> QED BY <1>9, <3>1, <3>2 DEF HeaderTyped
  <2> QED BY <2>1, <2>2
<1>11. Sharing'
  <2>1. 1 \in 1..Len(arrays) /\ header.array # 1 /\ arrays'[1] = arrays[1]
    BY <1>2, <1>3, <1>6, <1>9
  <2>2. ASSUME NEW d \in Components, NEW e \in Components, d # e,
               props'[d].array = props'[e].array
        PROVE  props'[d].array = 1
    BY <1>6, <1>8, <1>9, <2>2 DEF Sharing
  <2>3. ASSUME NEW d \in Components, props'[d].array = 1 PROVE OnConstructed(d)'
    <3>1. props'[d] = props[d] /\ OnConstructed(d)
      BY <1>8, <2>1, <2>3 DEF Sharing
    <3>2. d \notin added' => d \notin added
      OBVIOUS
    <3> QED BY <2>1, <3>1, <3>2 DEF OnConstructed
  <2> QED BY <2>2, <2>3 DEF Sharing
<1>12. Props(c)' = ps
  <2>1. arrays'[props'[c].array] = new /\ props'[c].len = Len(ps)
    BY <1>3, <1>6, <1>8
  <2> QED BY <1>1, <2>1 DEF Props, new
<1>13. \A d \in Components : d # c => Props(d)' = Props(d)
  BY <1>3, <1>8, <1>9 DEF Props
<1> QED BY <1>3, <1>4, <1>8, <1>10, <1>11, <1>12, <1>13

\* c is appended to where its array has room: another copy sees it only where
\* something was added to that copy too.
LEMMA InPlace ==
  ASSUME SliceTypes, Sharing, NEW c \in Components, added' = added \cup {c},
         NEW p, p.name = "RELATED-TO",
         props[c].len < Len(arrays[props[c].array]),
         arrays' = [arrays EXCEPT ![props[c].array][props[c].len + 1] = p],
         props' = [props EXCEPT ![c].len = @ + 1]
  PROVE  /\ IsSeq(arrays') /\ \A k \in 1..Len(arrays') : IsSeq(arrays'[k])
         /\ props' \in [Components -> [array : Nat, len : Nat]]
         /\ \A d \in Components : HeaderTyped(d)'
         /\ Sharing'
         /\ Props(c)' = Append(Props(c), p)
         /\ \A d \in Components : d # c =>
              /\ Alike(Props(d)', Props(d))
              /\ AddedAlone(d)' => Props(d)' = Props(d)
<1> DEFINE a == props[c].array
           n == props[c].len
           old == arrays[a]
           new == [old EXCEPT ![n + 1] = p]
<1>2. /\ IsSeq(arrays) /\ Len(arrays) \in Nat /\ DOMAIN arrays = 1..Len(arrays)
      /\ \A k \in 1..Len(arrays) : IsSeq(arrays[k]) /\ Len(arrays[k]) \in Nat
      /\ a \in 1..Len(arrays) /\ n \in 0..Len(old) /\ n \in Nat
  BY IsSeqProperties DEF SliceTypes, HeaderTyped
<1>3. /\ arrays' = [arrays EXCEPT ![a] = new] /\ n < Len(old)
      /\ props' = [props EXCEPT ![c].len = n + 1]
  OBVIOUS
<1>4. IsSeq(old) /\ Len(old) \in Nat /\ DOMAIN old = 1..Len(old) /\ n + 1 \in 1..Len(old)
  BY <1>2, <1>3, IsSeqProperties
<1> HIDE DEF a, n, old
<1>5. /\ IsSeq(new) /\ Len(new) = Len(old) /\ new[n + 1] = p
      /\ \A k \in 1..Len(old) : k # n + 1 => new[k] = old[k]
  <2>1. PICK S : old \in Seq(S) /\ p \in S
    BY <1>4, IsSeqTogether
  <2>2. new \in Seq(S) /\ Len(new) = Len(old) /\ new[n + 1] = p
    BY <1>4, <2>1
  <2>3. \A k \in 1..Len(old) : k # n + 1 => new[k] = old[k]
    BY <1>4
  <2> QED BY <2>2, <2>3, SeqIsSeq
<1> HIDE DEF new
<1>6. /\ IsSeq(arrays') /\ Len(arrays') = Len(arrays) /\ arrays'[a] = new
      /\ \A k \in 1..Len(arrays) : k # a => arrays'[k] = arrays[k]
  <2>1. PICK S : arrays \in Seq(S) /\ new \in S
    BY <1>2, IsSeqTogether
  <2>2. arrays' \in Seq(S) /\ Len(arrays') = Len(arrays) /\ arrays'[a] = new
    <3>1. /\ [arrays EXCEPT ![a] = new] \in Seq(S)
          /\ Len([arrays EXCEPT ![a] = new]) = Len(arrays)
      BY <1>2, <2>1, ExceptSeq
    <3>2. [arrays EXCEPT ![a] = new][a] = new
      BY <1>2
    <3> QED BY <1>3, <3>1, <3>2
  <2>3. \A k \in 1..Len(arrays) : k # a => arrays'[k] = arrays[k]
    BY <1>2, <1>3
  <2> QED BY <2>2, <2>3, SeqIsSeq
<1>7. \A k \in 1..Len(arrays') : IsSeq(arrays'[k]) /\ Len(arrays'[k]) = Len(arrays[k])
  BY <1>2, <1>5, <1>6 DEF old
<1>8. props \in [Components -> [array : Nat, len : Nat]]
  BY DEF SliceTypes
<1>9. /\ props' \in [Components -> [array : Nat, len : Nat]]
      /\ props'[c].array = a /\ props'[c].len = n + 1
      /\ \A d \in Components : d # c => props'[d] = props[d]
  <2> DEFINE header == [props[c] EXCEPT !.len = n + 1]
  <2>1. /\ header \in [array : Nat, len : Nat]
        /\ header.array = a /\ header.len = n + 1
    <3>1. props[c] \in [array : Nat, len : Nat]
      BY <1>8
    <3> QED BY <1>2, <3>1 DEF a
  <2>2. props' = [props EXCEPT ![c] = header]
    BY <1>3
  <2> HIDE DEF header
  <2> QED BY <1>8, <2>1, <2>2
<1>10. \A d \in Components :
         props[d].array \in 1..Len(arrays) /\ props[d].len \in 0..Len(arrays[props[d].array])
  BY DEF SliceTypes, HeaderTyped
<1>11. \A d \in Components : HeaderTyped(d)'
  <2> SUFFICES ASSUME NEW d \in Components PROVE HeaderTyped(d)'
    OBVIOUS
  <2>1. CASE d = c
    <3>1. n + 1 \in 0..Len(new) /\ a \in 1..Len(arrays')
      BY <1>2, <1>4, <1>5, <1>6
    <3> QED BY <1>6, <1>9, <2>1, <3>1 DEF HeaderTyped
  <2>2. CASE d # c
    BY <1>6, <1>7, <1>9, <1>10, <2>2 DEF HeaderTyped
  <2> QED BY <2>1, <2>2
<1>12. \A d \in Components : d # c /\ props[d].array = a =>
         /\ a = 1 /\ props[c].array = 1
         /\ OnConstructed(c) /\ OnConstructed(d)
  BY DEF Sharing, a
<1>13. Sharing'
  <2>1. ASSUME NEW d \in Components, NEW e \in Components, d # e,
               props'[d].array = props'[e].array
        PROVE  props'[d].array = 1
    <3>1. \A x \in Components : props'[x].array = props[x].array
      BY <1>9 DEF a
    <3> QED BY <2>1, <3>1 DEF Sharing
  <2>2. ASSUME NEW d \in Components, props'[d].array = 1 PROVE OnConstructed(d)'
    <3> DEFINE n0 == Len(Constructed)
    <3>1. n0 \in Nat
      BY ConstructedIsSeq
    <3> HIDE DEF n0
    <3>2. props[d].array = 1
      BY <1>9, <2>2 DEF a
    <3>3. /\ n0 <= props[d].len /\ (d \notin added => props[d].len = n0)
          /\ \A k \in n0 + 1..props[d].len : arrays[1][k].name = "RELATED-TO"
      BY <3>2 DEF Sharing, OnConstructed, n0
    <3>4. CASE d = c
      <4>1. a = 1 /\ arrays'[1] = new /\ arrays[1] = old
        BY <1>6, <3>2, <3>4 DEF a, old
      <4>2. props'[d].len = n + 1 /\ props[d].len = n /\ d \in added'
        BY <1>9, <3>4 DEF n
      <4>3. n0 <= n + 1
        BY <1>2, <3>1, <3>3, <4>2
      <4>4. ASSUME NEW k \in n0 + 1..n + 1 PROVE new[k].name = "RELATED-TO"
        <5>1. CASE k = n + 1
          BY <1>5, <5>1
        <5>2. CASE k # n + 1
          <6>1. k \in n0 + 1..n /\ k \in 1..Len(old)
            BY <1>2, <1>4, <3>1, <5>2
          <6> QED BY <1>5, <3>3, <4>1, <4>2, <5>2, <6>1
        <5> QED BY <5>1, <5>2
      <4> QED BY <4>1, <4>2, <4>3, <4>4 DEF OnConstructed, n0
    <3>5. CASE d # c
      <4>1. props'[d] = props[d] /\ (d \notin added' => d \notin added)
        BY <1>9, <3>5
      <4>2. ASSUME NEW k \in n0 + 1..props[d].len PROVE arrays'[1][k].name = "RELATED-TO"
        <5>1. CASE a = 1
          <6>1. arrays'[1] = new /\ arrays[1] = old
            BY <1>6, <5>1 DEF old
          <6>2. k \in 1..Len(old)
            BY <1>4, <1>10, <3>1, <3>2, <6>1
          <6> QED BY <1>5, <3>3, <6>1, <6>2
        <5>2. CASE a # 1
          <6>1. 1 \in 1..Len(arrays)
            BY <1>10, <3>2
          <6> QED BY <1>6, <3>3, <5>2, <6>1
        <5> QED BY <5>1, <5>2
      <4> QED BY <3>3, <4>1, <4>2 DEF OnConstructed, n0
    <3> QED BY <3>4, <3>5
  <2> QED BY <2>1, <2>2 DEF Sharing
<1>14. Props(c)' = Append(Props(c), p)
  <2>1. Props(c) = SubSeq(old, 1, n) /\ Props(c)' = SubSeq(new, 1, n + 1)
    BY <1>6, <1>9 DEF Props, old, a, n
  <2>2. /\ IsSeq(SubSeq(old, 1, n)) /\ Len(SubSeq(old, 1, n)) = n
        /\ \A k \in 1..n : SubSeq(old, 1, n)[k] = old[k]
    BY <1>2, <1>4, IsSeqCut DEF old
  <2>3. /\ IsSeq(SubSeq(new, 1, n + 1)) /\ Len(SubSeq(new, 1, n + 1)) = n + 1
        /\ \A k \in 1..n + 1 : SubSeq(new, 1, n + 1)[k] = new[k]
    <3>1. n + 1 \in 0..Len(new)
      BY <1>4, <1>5
    <3> QED BY <1>5, <3>1, IsSeqCut
  <2> DEFINE front == SubSeq(old, 1, n)
  <2> HIDE DEF front
  <2>4. /\ IsSeq(Append(front, p)) /\ Len(Append(front, p)) = n + 1
        /\ \A k \in 1..n : Append(front, p)[k] = old[k]
        /\ Append(front, p)[n + 1] = p
    <3>1. IsSeq(front) /\ Len(front) = n /\ \A k \in 1..n : front[k] = old[k]
      BY <2>2 DEF front
    <3> QED BY <3>1, IsSeqAppend
  <2>5. ASSUME NEW k \in 1..n + 1 PROVE SubSeq(new, 1, n + 1)[k] = Append(front, p)[k]
    <3>1. CASE k = n + 1
      BY <1>5, <2>3, <2>4, <3>1
    <3>2. CASE k # n + 1
      <4>1. k \in 1..n /\ k \in 1..Len(old)
        BY <1>2, <1>4, <3>2
      <4> QED BY <1>5, <2>3, <2>4, <3>2, <4>1
    <3> QED BY <3>1, <3>2
  <2>6. SubSeq(new, 1, n + 1) = Append(front, p)
    BY <2>3, <2>4, <2>5, IsSeqEqual
  <2> QED BY <2>1, <2>6 DEF front
<1>15. ASSUME NEW d \in Components, d # c
       PROVE  /\ Alike(Props(d)', Props(d))
              /\ AddedAlone(d)' => Props(d)' = Props(d)
  <2> DEFINE b == props[d].array
             m == props[d].len
  <2>1. /\ b \in 1..Len(arrays) /\ m \in 0..Len(arrays[b]) /\ props'[d] = props[d]
        /\ m \in Nat
    BY <1>8, <1>9, <1>10, <1>15
  <2>2. CASE b # a
    <3>1. Props(d)' = Props(d)
      BY <1>6, <2>1, <2>2 DEF Props
    <3> QED BY <3>1, AlikeItself
  <2>3. CASE b = a
    <3> DEFINE n0 == Len(Constructed)
    <3>1. /\ n0 \in Nat /\ m \in 0..Len(old) /\ m \in 0..Len(new)
      BY <1>5, <2>1, <2>3, ConstructedIsSeq DEF old
    <3>2. Props(d) = SubSeq(old, 1, m) /\ Props(d)' = SubSeq(new, 1, m)
      BY <1>6, <2>1, <2>3 DEF Props, old
    <3>3. /\ n0 <= n /\ (d \notin added => m = n0)
          /\ \A k \in n0 + 1..m : old[k].name = "RELATED-TO"
      <4>1. a = 1 /\ OnConstructed(c) /\ OnConstructed(d)
        BY <1>12, <1>15, <2>3
      <4> QED BY <4>1 DEF OnConstructed, n, old
    <3> HIDE DEF b, m, n0
    <3>4. /\ IsSeq(SubSeq(old, 1, m)) /\ Len(SubSeq(old, 1, m)) = m
          /\ \A k \in 1..m : SubSeq(old, 1, m)[k] = old[k]
      BY <1>4, <3>1, IsSeqCut
    <3>5. /\ IsSeq(SubSeq(new, 1, m)) /\ Len(SubSeq(new, 1, m)) = m
          /\ \A k \in 1..m : SubSeq(new, 1, m)[k] = new[k]
      BY <1>5, <3>1, IsSeqCut
    <3>6. CASE m <= n
      <4>1. \A k \in 1..m : k \in 1..Len(old) /\ k # n + 1
        BY <1>2, <1>4, <2>1, <3>1, <3>6
      <4>2. \A k \in 1..m : SubSeq(new, 1, m)[k] = SubSeq(old, 1, m)[k]
        BY <1>5, <3>4, <3>5, <4>1
      <4>3. Props(d)' = Props(d)
        BY <3>2, <3>4, <3>5, <4>2, IsSeqEqual
      <4> QED BY <4>3, AlikeItself
    <3>7. CASE n < m
      <4>1. d \in added /\ c \in added' /\ added \subseteq added'
        BY <1>2, <2>1, <3>1, <3>3, <3>7
      <4>2. ~AddedAlone(d)'
        BY <1>15, <4>1 DEF AddedAlone
      <4>3. ASSUME NEW k \in 1..m
            PROVE  AlikeProps(SubSeq(new, 1, m)[k], SubSeq(old, 1, m)[k])
        <5>1. k \in 1..Len(old)
          BY <1>4, <3>1
        <5>2. CASE k = n + 1
          <6>1. k \in n0 + 1..m
            BY <1>2, <2>1, <3>1, <3>3, <5>2
          <6>2. /\ SubSeq(old, 1, m)[k].name = "RELATED-TO"
                /\ SubSeq(new, 1, m)[k] = p
            BY <1>5, <3>3, <3>4, <3>5, <5>2, <6>1
          <6> QED BY <6>2 DEF AlikeProps
        <5>3. CASE k # n + 1
          BY <1>5, <3>4, <3>5, <5>1, <5>3 DEF AlikeProps
        <5> QED BY <5>2, <5>3
      <4>4. Alike(Props(d)', Props(d))
        BY <3>2, <3>4, <3>5, <4>3 DEF Alike
      <4> QED BY <4>2, <4>4
    <3>8. m <= n \/ n < m
      BY <1>2, <2>1 DEF m
    <3> QED BY <3>6, <3>7, <3>8
  <2> QED BY <2>2, <2>3
<1> QED BY <1>6, <1>7, <1>9, <1>11, <1>13, <1>14, <1>15

-----------------------------------------------------------------------------
(* The steps. *)

LEMMA PropsAreSeq ==
  ASSUME SliceTypes, NEW c \in Components
  PROVE  IsSeq(Props(c)) /\ Len(Props(c)) = props[c].len
<1>1. /\ IsSeq(arrays[props[c].array])
      /\ props[c].len \in 0..Len(arrays[props[c].array])
  BY DEF SliceTypes, HeaderTyped
<1> QED BY <1>1, IsSeqCut DEF Props

LEMMA PropsAreSeqNext ==
  ASSUME SliceTypes', NEW c \in Components
  PROVE  IsSeq(Props(c)')
<1>1. /\ IsSeq(arrays'[props'[c].array])
      /\ props'[c].len \in 0..Len(arrays'[props'[c].array])
  BY DEF SliceTypes, HeaderTyped
<1> QED BY <1>1, IsSeqCut DEF Props

\* A step of goroutine g leaves what the others expect of their components.
LEMMA OthersOnTheWay ==
  ASSUME SlicesInv, SliceTypes', OwnersAssumption, NEW g \in Goroutines,
         added' \in {added, added \cup {Uses[g]}},
         \A d \in Components : d # Uses[g] =>
           /\ Alike(Props(d)', Props(d)) /\ value'[d] = value[d]
           /\ AddedAlone(d)' => Props(d)' = Props(d),
         \A h \in Goroutines : h # g => /\ pc'[h] = pc[h] /\ prop'[h] = prop[h]
                                        /\ out'[h] = out[h],
         OnTheWay(g)'
  PROVE  (\A h \in Goroutines : OnTheWay(h)') /\ Unused'
<1>1. ASSUME NEW h \in Goroutines, h # g PROVE OnTheWay(h)'
  <2> DEFINE c == Uses[h]
             ps == Props(c)
             qs == Props(c)'
             v == value[c]
             p == prop[h]
             alone == AddedAlone(c)
             after == AddedAlone(c)'
  <2>1. c # Uses[g] /\ c \in Components
    BY <1>1, SlicesAssumption DEF OwnersAssumption
  <2>2. /\ Alike(qs, ps) /\ value'[c] = v /\ (after => qs = ps)
        /\ pc'[h] = pc[h] /\ prop'[h] = p /\ out'[h] = out[h]
    BY <1>1, <2>1
  <2>3. after => alone
    BY DEF AddedAlone
  <2>4. IsSeq(ps) /\ IsSeq(qs)
    <3>1. IsSeq(ps)
      BY <2>1, PropsAreSeq DEF SlicesInv
    <3>2. IsSeq(qs)
      BY <2>1, PropsAreSeqNext
    <3> QED BY <3>1, <3>2
  <2>5. /\ pc[h] = "idle" => Alike(ps, v) /\ (alone => ps = v)
        /\ pc[h] = "stamp" => Alike(Stamped(ps), v) /\ (alone => Stamped(ps) = v)
        /\ pc[h] = "set" => /\ Alike(Finished(p, SetIn(ps, p)), v)
                            /\ alone => Finished(p, SetIn(ps, p)) = v
        /\ pc[h] = "assign" => /\ IsSeq(out[h]) /\ Alike(Finished(p, out[h]), v)
                               /\ alone => Finished(p, out[h]) = v
    BY DEF SlicesInv, OnTheWay, Expected
  <2> HIDE DEF ps, qs, v, p, alone, after
  <2>6. pc[h] = "idle" => Alike(qs, v) /\ (after => qs = v)
    BY <2>2, <2>3, <2>5, AlikeThrough
  <2>7. pc[h] = "stamp" => Alike(Stamped(qs), v) /\ (after => Stamped(qs) = v)
    BY <2>2, <2>3, <2>4, <2>5, AlikeStamped, AlikeThrough
  <2>8. pc[h] = "set" => /\ Alike(Finished(p, SetIn(qs, p)), v)
                         /\ after => Finished(p, SetIn(qs, p)) = v
    <3>1. AlikeProps(p, p)
      BY DEF AlikeProps
    <3>2. Alike(SetIn(qs, p), SetIn(ps, p)) /\ IsSeq(SetIn(qs, p)) /\ IsSeq(SetIn(ps, p))
      BY <2>2, <2>4, <3>1, AlikeSetIn, SetInIsSeq
    <3>3. Alike(Finished(p, SetIn(qs, p)), Finished(p, SetIn(ps, p)))
      BY <3>2, AlikeFinished
    <3> QED BY <2>2, <2>3, <2>5, <3>3, AlikeThrough
  <2> QED BY <2>2, <2>3, <2>5, <2>6, <2>7, <2>8
          DEF OnTheWay, Expected, ps, qs, v, p, alone, after
<1>2. Unused'
  <2> SUFFICES ASSUME NEW c \in Components, \A h \in Goroutines : Uses[h] # c
               PROVE  c \notin added' /\ Props(c)' = value'[c]
    BY DEF Unused
  <2>1. c # Uses[g] /\ c \notin added /\ Props(c) = value[c]
    BY DEF SlicesInv, Unused
  <2>2. c \notin added'
    BY <2>1
  <2>3. AddedAlone(c)'
    BY <2>2 DEF AddedAlone
  <2> QED BY <2>1, <2>2, <2>3
<1> QED BY <1>1, <1>2

\* Nothing is assigned.
LEMMA HeadersKept ==
  ASSUME SliceTypes, Sharing, UNCHANGED <<arrays, props, added>>
  PROVE  /\ IsSeq(arrays') /\ \A k \in 1..Len(arrays') : IsSeq(arrays'[k])
         /\ props' \in [Components -> [array : Nat, len : Nat]]
         /\ \A d \in Components : HeaderTyped(d)'
         /\ Sharing'
         /\ \A d \in Components : Props(d)' = Props(d) /\ Alike(Props(d)', Props(d))
BY AlikeItself DEF SliceTypes, HeaderTyped, Sharing, OnConstructed, Props

\* The rest of the types, of variables a step of g changes at g only.
LEMMA TypesTogether ==
  ASSUME SliceTypes, NEW g \in Goroutines,
         IsSeq(arrays'), \A k \in 1..Len(arrays') : IsSeq(arrays'[k]),
         props' \in [Components -> [array : Nat, len : Nat]],
         \A d \in Components : HeaderTyped(d)',
         NEW label \in {"idle", "set", "assign", "stamp"}, GoTo(g, label),
         NEW p, prop' = prop \/ prop' = [prop EXCEPT ![g] = p],
         NEW o, out' = out \/ out' = [out EXCEPT ![g] = o],
         NEW v, IsSeq(v), value' = value \/ value' = [value EXCEPT ![Uses[g]] = v],
         added' \in {added, added \cup {Uses[g]}}
  PROVE  /\ SliceTypes'
         /\ pc'[g] = label
         /\ prop' # prop => prop'[g] = p
         /\ out' # out => out'[g] = o
         /\ value' # value => value'[Uses[g]] = v
         /\ \A h \in Goroutines : h # g => /\ pc'[h] = pc[h] /\ prop'[h] = prop[h]
                                           /\ out'[h] = out[h]
         /\ \A d \in Components : d # Uses[g] => value'[d] = value[d]
<1>1. Uses[g] \in Components
  BY SlicesAssumption
<1>2. ASSUME NEW S, NEW f, f = [h \in S |-> f[h]], NEW x \in S, NEW y, NEW e,
             e = f \/ e = [f EXCEPT ![x] = y]
      PROVE  /\ e = [h \in S |-> e[h]] /\ (e # f => e[x] = y)
             /\ \A h \in S : h # x => e[h] = f[h]
  <2>1. DOMAIN f = S
    BY <1>2
  <2>2. CASE e = f
    BY <1>2, <2>2
  <2>3. CASE e = [f EXCEPT ![x] = y]
    BY <2>1, <2>3
  <2> QED BY <1>2, <2>2, <2>3
<1>3. /\ prop = [h \in Goroutines |-> prop[h]] /\ out = [h \in Goroutines |-> out[h]]
      /\ value = [d \in Components |-> value[d]]
      /\ pc \in [Goroutines -> {"idle", "set", "assign", "stamp"}]
  BY DEF SliceTypes
<1>4. /\ prop' = [h \in Goroutines |-> prop'[h]] /\ (prop' # prop => prop'[g] = p)
      /\ \A h \in Goroutines : h # g => prop'[h] = prop[h]
  BY <1>2, <1>3
<1>5. /\ out' = [h \in Goroutines |-> out'[h]] /\ (out' # out => out'[g] = o)
      /\ \A h \in Goroutines : h # g => out'[h] = out[h]
  BY <1>2, <1>3
<1>6. /\ value' = [d \in Components |-> value'[d]] /\ (value' # value => value'[Uses[g]] = v)
      /\ \A d \in Components : d # Uses[g] => value'[d] = value[d]
  BY <1>1, <1>2, <1>3
<1>7. /\ pc' \in [Goroutines -> {"idle", "set", "assign", "stamp"}] /\ pc'[g] = label
      /\ \A h \in Goroutines : h # g => pc'[h] = pc[h]
  BY <1>3 DEF GoTo
<1>8. SliceTypes'
  <2>1. \A d \in Components : IsSeq(value'[d])
    BY <1>6 DEF SliceTypes
  <2>2. added' \subseteq Components
    BY <1>1 DEF SliceTypes
  <2> QED BY <1>4, <1>5, <1>6, <1>7, <2>1, <2>2 DEF SliceTypes
<1> QED BY <1>4, <1>5, <1>6, <1>7, <1>8

LEMMA StepStarts ==
  ASSUME SlicesInv, OwnersAssumption, NEW g \in Goroutines, IncrementSequence(g)
  PROVE  SlicesInv'
<1> DEFINE c == Uses[g]
           p == Sequence(Revision(Props(c)) + 1)
           after == Stamped(SetIn(value[c], Sequence(Revision(value[c]) + 1)))
<1>1. /\ pc[g] = "idle" /\ prop' = [prop EXCEPT ![g] = p]
      /\ value' = [value EXCEPT ![c] = after] /\ GoTo(g, "set")
      /\ UNCHANGED <<arrays, props, out, added>>
  BY DEF IncrementSequence, Call, Expect
<1>2. SliceTypes /\ Sharing /\ c \in Components
  BY SlicesAssumption DEF SlicesInv
<1>3. /\ IsSeq(arrays') /\ \A k \in 1..Len(arrays') : IsSeq(arrays'[k])
      /\ props' \in [Components -> [array : Nat, len : Nat]]
      /\ \A d \in Components : HeaderTyped(d)'
      /\ Sharing'
      /\ \A d \in Components : Props(d)' = Props(d) /\ Alike(Props(d)', Props(d))
  BY <1>1, <1>2, HeadersKept
<1>4. /\ prop = [h \in Goroutines |-> prop[h]] /\ value = [d \in Components |-> value[d]]
  BY <1>2 DEF SliceTypes
<1>5. prop'[g] = p /\ value'[c] = after
  <2> HIDE DEF p, after
  <2>1. prop'[g] = p
    BY <1>1, <1>4
  <2>2. value'[c] = after
    BY <1>1, <1>2, <1>4
  <2> QED BY <2>1, <2>2
<1>6. Alike(Props(c), value[c]) /\ (AddedAlone(c) => Props(c) = value[c])
  BY <1>1 DEF SlicesInv, OnTheWay, Expected
<1>seq. IsSeq(Props(c)) /\ IsSeq(value[c])
  BY <1>2, PropsAreSeq DEF SliceTypes
<1>7. p.name # "X-VSTAR-HASH" /\ after = Stamped(SetIn(value[c], p))
  <2>1. Revision(Props(c)) = Revision(value[c])
    BY <1>6, <1>seq, AlikeRevision
  <2> QED BY <2>1 DEF Sequence
<1> HIDE DEF p, after
<1>way. /\ IsSeq(after) /\ Alike(Finished(p, SetIn(Props(c), p)), after)
        /\ AddedAlone(c) => Finished(p, SetIn(Props(c), p)) = after
  <2>1. AlikeProps(p, p)
    BY DEF AlikeProps
  <2>2. /\ IsSeq(SetIn(Props(c), p)) /\ IsSeq(SetIn(value[c], p))
        /\ Alike(SetIn(Props(c), p), SetIn(value[c], p))
    BY <1>6, <1>seq, <2>1, AlikeSetIn, SetInIsSeq
  <2>3. Finished(p, SetIn(Props(c), p)) = Stamped(SetIn(Props(c), p))
    BY <1>7 DEF Finished
  <2>4. Alike(Stamped(SetIn(Props(c), p)), after) /\ IsSeq(after)
    BY <1>7, <2>2, AlikeStamped, StampedIsSeq
  <2> QED BY <1>6, <1>7, <2>3, <2>4
<1>8. /\ SliceTypes' /\ pc'[g] = "set"
      /\ \A h \in Goroutines : h # g => /\ pc'[h] = pc[h] /\ prop'[h] = prop[h]
                                        /\ out'[h] = out[h]
      /\ \A d \in Components : d # Uses[g] => value'[d] = value[d]
  BY <1>1, <1>2, <1>3, <1>way, TypesTogether
<1>9. OnTheWay(g)'
  <2>1. AddedAlone(c)' = AddedAlone(c)
    BY <1>1 DEF AddedAlone
  <2> QED BY <1>2, <1>3, <1>5, <1>8, <1>way, <2>1 DEF OnTheWay, Expected
<1> QED BY <1>1, <1>3, <1>8, <1>9, OthersOnTheWay DEF SlicesInv

LEMMA StepStamps ==
  ASSUME SlicesInv, OwnersAssumption, NEW g \in Goroutines, SetXVSTAR(g)
  PROVE  SlicesInv'
<1> DEFINE c == Uses[g]
           p == Hash(Content(Props(c)))
<1>1. /\ pc[g] = "stamp" /\ prop' = [prop EXCEPT ![g] = p] /\ GoTo(g, "set")
      /\ UNCHANGED <<arrays, props, out, value, added>>
  BY DEF SetXVSTAR
<1>2. SliceTypes /\ Sharing /\ c \in Components
  BY SlicesAssumption DEF SlicesInv
<1>3. /\ IsSeq(arrays') /\ \A k \in 1..Len(arrays') : IsSeq(arrays'[k])
      /\ props' \in [Components -> [array : Nat, len : Nat]]
      /\ \A d \in Components : HeaderTyped(d)'
      /\ Sharing'
      /\ \A d \in Components : Props(d)' = Props(d) /\ Alike(Props(d)', Props(d))
  BY <1>1, <1>2, HeadersKept
<1>4. prop'[g] = p
  <2>1. prop = [h \in Goroutines |-> prop[h]]
    BY <1>2 DEF SliceTypes
  <2> HIDE DEF p
  <2> QED BY <1>1, <2>1
<1>5. Expected(c, Stamped(Props(c)))
  BY <1>1 DEF SlicesInv, OnTheWay
<1>6. Expected(c, Finished(p, SetIn(Props(c), p)))
  <2>1. p.name = "X-VSTAR-HASH"
    BY DEF Hash
  <2> QED BY <1>5, <2>1 DEF Finished, Stamped
<1> HIDE DEF p
<1>7. /\ SliceTypes' /\ pc'[g] = "set"
      /\ \A h \in Goroutines : h # g => /\ pc'[h] = pc[h] /\ prop'[h] = prop[h]
                                        /\ out'[h] = out[h]
      /\ \A d \in Components : d # Uses[g] => value'[d] = value[d]
  <2>1. IsSeq(value[c])
    BY <1>2 DEF SliceTypes
  <2> QED BY <1>1, <1>2, <1>3, <2>1, TypesTogether
<1>8. OnTheWay(g)'
  <2>1. AddedAlone(c)' = AddedAlone(c)
    BY <1>1 DEF AddedAlone
  <2> QED BY <1>1, <1>2, <1>3, <1>4, <1>6, <1>7, <2>1 DEF OnTheWay, Expected
<1> QED BY <1>1, <1>3, <1>7, <1>8, OthersOnTheWay DEF SlicesInv

LEMMA StepCopies ==
  ASSUME SlicesInv, OwnersAssumption, NEW g \in Goroutines, SetCopies(g)
  PROVE  SlicesInv'
<1> DEFINE c == Uses[g]
           o == SetIn(Props(c), prop[g])
<1>1. /\ pc[g] = "set" /\ out' = [out EXCEPT ![g] = o] /\ GoTo(g, "assign")
      /\ UNCHANGED <<arrays, props, prop, value, added>>
  BY DEF SetCopies
<1>2. SliceTypes /\ Sharing /\ c \in Components
  BY SlicesAssumption DEF SlicesInv
<1>3. /\ IsSeq(arrays') /\ \A k \in 1..Len(arrays') : IsSeq(arrays'[k])
      /\ props' \in [Components -> [array : Nat, len : Nat]]
      /\ \A d \in Components : HeaderTyped(d)'
      /\ Sharing'
      /\ \A d \in Components : Props(d)' = Props(d) /\ Alike(Props(d)', Props(d))
  BY <1>1, <1>2, HeadersKept
<1>4. out'[g] = o
  <2>1. out = [h \in Goroutines |-> out[h]]
    BY <1>2 DEF SliceTypes
  <2> HIDE DEF o
  <2> QED BY <1>1, <2>1
<1>5. Expected(c, Finished(prop[g], o))
  BY <1>1 DEF SlicesInv, OnTheWay
<1>6. IsSeq(o)
  BY <1>2, PropsAreSeq, SetInIsSeq
<1> HIDE DEF o
<1>7. /\ SliceTypes' /\ pc'[g] = "assign"
      /\ \A h \in Goroutines : h # g => /\ pc'[h] = pc[h] /\ prop'[h] = prop[h]
                                        /\ out'[h] = out[h]
      /\ \A d \in Components : d # Uses[g] => value'[d] = value[d]
  <2>1. IsSeq(value[c])
    BY <1>2 DEF SliceTypes
  <2> QED BY <1>1, <1>2, <1>3, <2>1, TypesTogether
<1>8. OnTheWay(g)'
  <2>1. AddedAlone(c)' = AddedAlone(c)
    BY <1>1 DEF AddedAlone
  <2> QED BY <1>1, <1>2, <1>4, <1>5, <1>6, <1>7, <2>1 DEF OnTheWay, Expected
<1> QED BY <1>1, <1>3, <1>7, <1>8, OthersOnTheWay DEF SlicesInv

LEMMA StepAssigns ==
  ASSUME SlicesInv, OwnersAssumption, NEW g \in Goroutines, SetAssigns(g)
  PROVE  SlicesInv'
<1> DEFINE c == Uses[g]
           ps == out[g]
           capacity == props[c].len
<1>1. /\ pc[g] = "assign" /\ arrays' = Append(arrays, Grown(ps, capacity))
      /\ props' = [props EXCEPT ![c] = [array |-> Len(arrays'), len |-> Len(ps)]]
      /\ GoTo(g, AfterSet(g)) /\ UNCHANGED <<prop, out, value, added>>
  BY DEF SetAssigns
<1>2. SliceTypes /\ Sharing /\ c \in Components
  BY SlicesAssumption DEF SlicesInv
<1>3. IsSeq(ps) /\ Expected(c, Finished(prop[g], ps))
  BY <1>1 DEF SlicesInv, OnTheWay
<1>4. capacity \in Nat
  BY <1>2 DEF SliceTypes
<1> HIDE DEF ps, capacity
<1>5. /\ IsSeq(arrays') /\ \A k \in 1..Len(arrays') : IsSeq(arrays'[k])
      /\ props' \in [Components -> [array : Nat, len : Nat]]
      /\ \A d \in Components : HeaderTyped(d)'
      /\ Sharing'
      /\ Props(c)' = ps
      /\ \A d \in Components : d # c => Props(d)' = Props(d)
  BY <1>1, <1>2, <1>3, <1>4, Reallocated
<1>6. /\ AfterSet(g) \in {"idle", "set", "assign", "stamp"}
      /\ AfterSet(g) \in {"idle", "stamp"}
      /\ AfterSet(g) = "idle" <=> prop[g].name = "X-VSTAR-HASH"
  BY DEF AfterSet
<1>7. /\ SliceTypes' /\ pc'[g] = AfterSet(g)
      /\ \A h \in Goroutines : h # g => /\ pc'[h] = pc[h] /\ prop'[h] = prop[h]
                                        /\ out'[h] = out[h]
      /\ \A d \in Components : d # Uses[g] => value'[d] = value[d]
  <2>1. IsSeq(value[c])
    BY <1>2 DEF SliceTypes
  <2> QED BY <1>1, <1>2, <1>5, <1>6, <2>1, TypesTogether
<1>8. OnTheWay(g)'
  <2>2. AddedAlone(c)' = AddedAlone(c)
    BY <1>1 DEF AddedAlone
  <2>3. CASE AfterSet(g) = "idle"
    <3>1. Expected(c, ps)
      BY <1>3, <1>6, <2>3 DEF Finished
    <3> QED BY <1>1, <1>5, <1>7, <2>2, <2>3, <3>1 DEF OnTheWay, Expected
  <2>4. CASE AfterSet(g) = "stamp"
    <3>1. Expected(c, Stamped(ps))
      BY <1>3, <1>6, <2>4 DEF Finished
    <3> QED BY <1>1, <1>5, <1>7, <2>2, <2>4, <3>1 DEF OnTheWay, Expected
  <2> QED BY <1>6, <2>3, <2>4
<1>9. \A d \in Components : d # c => Alike(Props(d)', Props(d))
  BY <1>5, AlikeItself
<1> QED BY <1>1, <1>5, <1>7, <1>8, <1>9, OthersOnTheWay DEF SlicesInv

LEMMA AppendsOne ==
  ASSUME SlicesInv, OwnersAssumption, NEW g \in Goroutines,
         added' = added \cup {Uses[g]}, NEW p, p.name = "RELATED-TO",
         AppendProp(Uses[g], p)
  PROVE  /\ IsSeq(arrays') /\ \A k \in 1..Len(arrays') : IsSeq(arrays'[k])
         /\ props' \in [Components -> [array : Nat, len : Nat]]
         /\ \A d \in Components : HeaderTyped(d)'
         /\ Sharing'
         /\ Props(Uses[g])' = Append(Props(Uses[g]), p)
         /\ \A d \in Components : d # Uses[g] =>
              /\ Alike(Props(d)', Props(d))
              /\ AddedAlone(d)' => Props(d)' = Props(d)
<1>1. SliceTypes /\ Sharing /\ Uses[g] \in Components
  BY SlicesAssumption DEF SlicesInv
<1> DEFINE c == Uses[g]
<1>2. CASE props[c].len < Len(arrays[props[c].array])
  <2>1. /\ arrays' = [arrays EXCEPT ![props[c].array][props[c].len + 1] = p]
        /\ props' = [props EXCEPT ![c].len = @ + 1]
    BY <1>2 DEF AppendProp
  <2> QED BY <1>1, <1>2, <2>1, InPlace
<1>3. CASE ~(props[c].len < Len(arrays[props[c].array]))
  <2> DEFINE ps == Append(Props(c), p)
             capacity == props[c].len
  <2>1. /\ arrays' = Append(arrays, Grown(ps, capacity))
        /\ props' = [props EXCEPT ![c] = [array |-> Len(arrays'), len |-> capacity + 1]]
    BY <1>3 DEF AppendProp
  <2>2. IsSeq(ps) /\ Len(ps) = capacity + 1 /\ capacity \in Nat
    <3>1. capacity \in Nat /\ IsSeq(Props(c)) /\ Len(Props(c)) = capacity
      BY <1>1, PropsAreSeq DEF SliceTypes
    <3> QED BY <3>1, IsSeqAppend
  <2>3. props' = [props EXCEPT ![c] = [array |-> Len(arrays'), len |-> Len(ps)]]
    BY <2>1, <2>2
  <2> HIDE DEF ps, capacity
  <2>4. /\ IsSeq(arrays') /\ \A k \in 1..Len(arrays') : IsSeq(arrays'[k])
        /\ props' \in [Components -> [array : Nat, len : Nat]]
        /\ \A d \in Components : HeaderTyped(d)'
        /\ Sharing'
        /\ Props(c)' = ps
        /\ \A d \in Components : d # c => Props(d)' = Props(d)
    BY <1>1, <2>1, <2>2, <2>3, Reallocated
  <2> QED BY <2>4, AlikeItself DEF ps
<1> QED BY <1>2, <1>3

LEMMA StepAdds ==
  ASSUME SlicesInv, OwnersAssumption, NEW g \in Goroutines, NEW uid,
         Add(g, uid) \/ AddRelatedTo(g, uid)
  PROVE  SlicesInv'
<1> DEFINE c == Uses[g]
           p == RelatedTo(uid)
<1>1. /\ pc[g] = "idle" /\ AppendProp(c, p) /\ UNCHANGED <<prop, out>>
      /\ added' = added \cup {c} /\ p.name = "RELATED-TO"
  BY DEF Add, AddRelatedTo, Call, RelatedTo
<1> HIDE DEF p
<1>2. SliceTypes /\ Sharing /\ c \in Components
  BY SlicesAssumption DEF SlicesInv
<1>3. /\ IsSeq(arrays') /\ \A k \in 1..Len(arrays') : IsSeq(arrays'[k])
      /\ props' \in [Components -> [array : Nat, len : Nat]]
      /\ \A d \in Components : HeaderTyped(d)'
      /\ Sharing'
      /\ Props(c)' = Append(Props(c), p)
      /\ \A d \in Components : d # c =>
           /\ Alike(Props(d)', Props(d))
           /\ AddedAlone(d)' => Props(d)' = Props(d)
  BY <1>1, AppendsOne
<1>4. Expected(c, Props(c))
  BY <1>1 DEF SlicesInv, OnTheWay
<1>more. /\ IsSeq(Append(Props(c), p)) /\ IsSeq(Append(value[c], p))
         /\ Alike(Append(Props(c), p), Append(value[c], p))
         /\ AddedAlone(c)' => Append(Props(c), p) = Append(value[c], p)
  <2>1. IsSeq(Props(c)) /\ IsSeq(value[c])
    BY <1>2, PropsAreSeq DEF SliceTypes
  <2>2. AlikeProps(p, p)
    BY DEF AlikeProps
  <2>3. Alike(Props(c), value[c]) /\ (AddedAlone(c)' => Props(c) = value[c])
    BY <1>1, <1>4 DEF Expected, AddedAlone
  <2> QED BY <2>1, <2>2, <2>3, AlikeAppend, IsSeqAppend
<1>label. PICK label \in {"idle", "set", "assign", "stamp"} : \E v :
        /\ value' = [value EXCEPT ![c] = v] /\ GoTo(g, label)
        /\ \/ label = "idle" /\ v = Append(value[c], p)
           \/ label = "stamp" /\ v = Stamped(Append(value[c], p))
  <2>1. CASE Add(g, uid)
    <3>1. value' = [value EXCEPT ![c] = Append(value[c], p)] /\ pc' = pc
      BY <2>1 DEF Add, Expect, p
    <3>2. GoTo(g, "idle")
      <4>1. pc = [pc EXCEPT ![g] = "idle"]
        BY <1>1, <1>2 DEF SliceTypes
      <4> QED BY <3>1, <4>1 DEF GoTo
    <3> QED BY <3>1, <3>2
  <2>2. CASE AddRelatedTo(g, uid)
    <3>1. value' = [value EXCEPT ![c] = Stamped(Append(value[c], p))] /\ GoTo(g, "stamp")
      BY <2>2 DEF AddRelatedTo, Expect, p
    <3> QED BY <3>1
  <2> QED BY <2>1, <2>2
<1>5. PICK v :
        /\ value' = [value EXCEPT ![c] = v] /\ GoTo(g, label)
        /\ \/ label = "idle" /\ v = Append(value[c], p)
           \/ label = "stamp" /\ v = Stamped(Append(value[c], p))
  BY <1>label
<1>6. value'[c] = v
  <2>1. value = [d \in Components |-> value[d]]
    BY <1>2 DEF SliceTypes
  <2> QED BY <1>2, <1>5, <2>1
<1>7. /\ SliceTypes' /\ pc'[g] = label
      /\ \A h \in Goroutines : h # g => /\ pc'[h] = pc[h] /\ prop'[h] = prop[h]
                                        /\ out'[h] = out[h]
      /\ \A d \in Components : d # Uses[g] => value'[d] = value[d]
  <2>1. IsSeq(v)
    BY <1>5, <1>more, StampedIsSeq
  <2> QED BY <1>1, <1>2, <1>3, <1>5, <2>1, TypesTogether
<1>8. OnTheWay(g)'
  <2>1. CASE label = "idle" /\ v = Append(value[c], p)
    BY <1>3, <1>6, <1>7, <1>more, <2>1 DEF OnTheWay, Expected
  <2>2. CASE label = "stamp" /\ v = Stamped(Append(value[c], p))
    <3>1. /\ Alike(Stamped(Append(Props(c), p)), v)
          /\ AddedAlone(c)' => Stamped(Append(Props(c), p)) = v
      BY <1>more, <2>2, AlikeStamped
    <3> QED BY <1>3, <1>6, <1>7, <2>2, <3>1 DEF OnTheWay, Expected
  <2> QED BY <1>5, <2>1, <2>2
<1> QED BY <1>1, <1>3, <1>7, <1>8, OthersOnTheWay DEF SlicesInv

LEMMA SlicesStep ==
  ASSUME OwnersAssumption, SlicesInv, [Next]_vars
  PROVE  SlicesInv'
<1>1. CASE Next
  BY <1>1, StepStarts, StepStamps, StepCopies, StepAssigns, StepAdds DEF Next
<1>2. CASE UNCHANGED vars
  BY <1>2 DEF vars, SlicesInv, SliceTypes, HeaderTyped, Sharing, OnConstructed,
              OnTheWay, Expected, AddedAlone, Unused, Props
<1> QED BY <1>1, <1>2

LEMMA SlicesInit == Init => SlicesInv
<1> SUFFICES ASSUME Init PROVE SlicesInv
  OBVIOUS
<1> DEFINE ps == Constructed
           array == Grown(ps, 2)
<1>1. /\ arrays = <<array>>
      /\ props = [c \in Components |-> [array |-> 1, len |-> Len(ps)]]
      /\ pc = [g \in Goroutines |-> "idle"]
      /\ prop = [g \in Goroutines |-> Spare]
      /\ out = [g \in Goroutines |-> <<>>]
      /\ value = [c \in Components |-> ps] /\ added = {}
  BY DEF Init
<1>2. IsSeq(ps) /\ Len(ps) \in Nat
  BY ConstructedIsSeq
<1> HIDE DEF ps
<1>3. /\ IsSeq(array) /\ Len(ps) \in 0..Len(array) /\ SubSeq(array, 1, Len(ps)) = ps
  BY <1>2, GrownHolds
<1> HIDE DEF array
<1>4. IsSeq(arrays) /\ Len(arrays) = 1 /\ arrays[1] = array
  BY <1>1, IsSeqShort
<1>5. \A c \in Components : props[c].array = 1 /\ props[c].len = Len(ps)
  BY <1>1
<1>6. \A c \in Components : Props(c) = ps /\ HeaderTyped(c)
  BY <1>3, <1>4, <1>5 DEF Props, HeaderTyped
<1>7. props \in [Components -> [array : Nat, len : Nat]]
  BY <1>1, <1>2
<1>8. /\ prop = [g \in Goroutines |-> prop[g]] /\ out = [g \in Goroutines |-> out[g]]
      /\ value = [c \in Components |-> value[c]]
      /\ pc \in [Goroutines -> {"idle", "set", "assign", "stamp"}]
      /\ (\A c \in Components : value[c] = ps) /\ added = {}
  BY <1>1
<1>9. \A k \in 1..Len(arrays) : IsSeq(arrays[k])
  BY <1>3, <1>4
<1>10. SliceTypes
  BY <1>2, <1>4, <1>6, <1>7, <1>8, <1>9 DEF SliceTypes
<1>11. Sharing
  BY <1>2, <1>5 DEF Sharing, OnConstructed, ps
<1>12. \A g \in Goroutines : OnTheWay(g)
  BY <1>1, <1>6, SlicesAssumption, AlikeItself DEF OnTheWay, Expected
<1>13. Unused
  BY <1>1, <1>6 DEF Unused
<1> QED BY <1>10, <1>11, <1>12, <1>13 DEF SlicesInv

\* Copies of a component are values but for what is added to two of them:
\* whatever helpers other goroutines call on their copies meanwhile, in whatever
\* order their reads and assignments come, a component no call is running on has
\* every property its own calls gave it, in its place, and is exactly what they
\* made of it if it was never appended to or no other copy was.  Each goroutine
\* has a copy of its own; any of them may append.
THEOREM AdditionsAloneCollide ==
  ASSUME OwnersAssumption
  PROVE  Spec => []OnlyAdditionsCollide
<1>1. SlicesInv /\ [Next]_vars => SlicesInv'
  BY SlicesStep
<1>2. SlicesInv => OnlyAdditionsCollide
  <2> SUFFICES ASSUME SlicesInv, NEW c \in Components, Quiet(c)
               PROVE  Alike(Props(c), value[c]) /\ (AddedAlone(c) => Props(c) = value[c])
    BY DEF OnlyAdditionsCollide
  <2>1. CASE \E g \in Goroutines : Uses[g] = c
    BY <2>1 DEF Quiet, SlicesInv, OnTheWay, Expected
  <2>2. CASE \A g \in Goroutines : Uses[g] # c
    BY <2>2, AlikeItself DEF SlicesInv, Unused
  <2> QED BY <2>1, <2>2
<1> QED BY SlicesInit, <1>1, <1>2, PTL DEF Spec
=============================================================================
