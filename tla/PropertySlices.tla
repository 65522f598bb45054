---------------------------- MODULE PropertySlices ----------------------------
(***************************************************************************)
(* Component.Props as the Go slice it is: a header over an array that      *)
(* copies of the Component share.  Goroutines call helpers on components   *)
(* that start as copies of one constructed component.                      *)
(*                                                                         *)
(* Component.Set copies the properties into a fresh array and then assigns *)
(* the header; Component.Add appends, in place while there is capacity.    *)
(* A step reads or assigns one header, as a unit: an array whose header    *)
(* was assigned by Set is never written again, so what else a step of Set  *)
(* reads cannot change under it.                                           *)
(***************************************************************************)
EXTENDS Integers, Sequences, SequencesExt

CONSTANTS
  Goroutines,
  Components,
  Uses,        \* the component each goroutine calls helpers on
  Uids,        \* RELATED-TO values
  MaxCalls     \* bound: calls of a goroutine

ASSUME SlicesAssumption ==
  /\ Uses \in [Goroutines -> Components]
  /\ MaxCalls \in Nat

VARIABLES
  arrays,    \* the arrays allocated, each a sequence as long as its capacity
  props,     \* per component, the header: its array and its length
  pc,        \* what a goroutine does next, "idle" between calls
  prop,      \* the property being Set
  out,       \* Set's out
  calls,     \* calls made per goroutine
  value,     \* history: the component a caller that knows no slices expects
  added      \* history: the components that were appended to

vars == <<arrays, props, pc, prop, out, calls, value, added>>

-----------------------------------------------------------------------------
(* Properties and slices of them. *)

Spare == [name |-> "", value |-> 0]

Sequence(n) == [name |-> "SEQUENCE", value |-> n]
RelatedTo(uid) == [name |-> "RELATED-TO", value |-> uid]
Hash(content) == [name |-> "X-VSTAR-HASH", value |-> content]

\* The properties of any other name, in their order.
Without(ps, name) ==
  LET kept[n \in 0..Len(ps)] ==
        IF n = 0 THEN <<>>
        ELSE IF ps[n].name = name THEN kept[n - 1]
        ELSE Append(kept[n - 1], ps[n])
  IN  kept[Len(ps)]

Content(ps) == Without(ps, "X-VSTAR-HASH")

\* Component.Get.
Index(ps, name) == SelectInSeq(ps, LAMBDA p : p.name = name)

\* Component.Set: the first property of that name replaced, the others dropped.
SetIn(ps, p) ==
  LET at == Index(ps, p.name) IN
  IF at = 0
  THEN Append(ps, p)
  ELSE SubSeq(ps, 1, at - 1) \o <<p>>
         \o Without(SubSeq(ps, at + 1, Len(ps)), p.name)

Stamped(ps) == SetIn(ps, Hash(Content(ps)))

Revision(ps) ==
  IF Index(ps, "SEQUENCE") = 0 THEN 0 ELSE ps[Index(ps, "SEQUENCE")].value

Props(c) == SubSeq(arrays[props[c].array], 1, props[c].len)

\* append: an array that is full is replaced by one of twice the size.
Grown(ps, capacity) ==
  IF Len(ps) <= capacity
  THEN ps \o [k \in 1..capacity - Len(ps) |-> Spare]
  ELSE ps \o [k \in 1..Len(ps) - 2 |-> Spare]

-----------------------------------------------------------------------------

\* A constructor leaves room in the array: each Set makes one just large enough
\* for what there was, and its append doubles it.
Constructed == Stamped(<<[name |-> "UID", value |-> "u"], Sequence(0)>>)

Init ==
  /\ arrays = <<Grown(Constructed, 2)>>
  /\ props = [c \in Components |-> [array |-> 1, len |-> Len(Constructed)]]
  /\ pc = [g \in Goroutines |-> "idle"]
  /\ prop = [g \in Goroutines |-> Spare]
  /\ out = [g \in Goroutines |-> <<>>]
  /\ calls = [g \in Goroutines |-> 0]
  /\ value = [c \in Components |-> Constructed]
  /\ added = {}

Call(g) ==
  /\ pc[g] = "idle"
  /\ calls[g] < MaxCalls
  /\ calls' = [calls EXCEPT ![g] = @ + 1]

GoTo(g, label) == pc' = [pc EXCEPT ![g] = label]

\* What a call makes of a component, seen from outside.
Expect(g, after) == value' = [value EXCEPT ![Uses[g]] = after]

-----------------------------------------------------------------------------
(* IncrementSequence: read the Set it, Set the hash. *)

IncrementSequence(g) ==
  /\ Call(g)
  /\ LET c == Uses[g] IN
       /\ prop' = [prop EXCEPT ![g] = Sequence(Revision(Props(c)) + 1)]
       /\ Expect(g, Stamped(SetIn(value[c], Sequence(Revision(value[c]) + 1))))
  /\ GoTo(g, "set")
  /\ UNCHANGED <<arrays, props, out, added>>

\* hashing.SetXVSTAR: the hash of the properties as they are now.
SetXVSTAR(g) ==
  /\ pc[g] = "stamp"
  /\ prop' = [prop EXCEPT ![g] = Hash(Content(Props(Uses[g])))]
  /\ GoTo(g, "set")
  /\ UNCHANGED <<arrays, props, out, calls, value, added>>

\* Slip: a property that is already there is replaced where it is.
SetInPlace(g) ==
  /\ pc[g] = "set"
  /\ out' = [out EXCEPT ![g] = SetIn(Props(Uses[g]), prop[g])]
  /\ IF Index(Props(Uses[g]), prop[g].name) # 0
     THEN arrays' = [arrays EXCEPT ![props[Uses[g]].array] =
                       Grown(SetIn(Props(Uses[g]), prop[g]), Len(@))]
     ELSE UNCHANGED arrays
  /\ GoTo(g, "assign")
  /\ UNCHANGED <<props, prop, calls, value, added>>

\* Component.Set, its loop over the properties.
SetCopies(g) ==
  /\ pc[g] = "set"
  /\ out' = [out EXCEPT ![g] = SetIn(Props(Uses[g]), prop[g])]
  /\ GoTo(g, "assign")
  /\ UNCHANGED <<arrays, props, prop, calls, value, added>>

AfterSet(g) == IF prop[g].name = "X-VSTAR-HASH" THEN "idle" ELSE "stamp"

\* Component.Set, c.Props = out.
SetAssigns(g) ==
  /\ pc[g] = "assign"
  /\ arrays' = Append(arrays, Grown(out[g], props[Uses[g]].len))
  /\ props' = [props EXCEPT ![Uses[g]] =
                 [array |-> Len(arrays'), len |-> Len(out[g])]]
  /\ GoTo(g, AfterSet(g))
  /\ UNCHANGED <<prop, out, calls, value, added>>

-----------------------------------------------------------------------------
(* Component.Add, alone and as the first half of AddRelatedTo. *)

AppendProp(c, p) ==
  LET h == props[c]
      room == h.len < Len(arrays[h.array])
  IN IF room
     THEN /\ arrays' = [arrays EXCEPT ![h.array][h.len + 1] = p]
          /\ props' = [props EXCEPT ![c].len = @ + 1]
     ELSE /\ arrays' = Append(arrays, Grown(Append(Props(c), p), h.len))
          /\ props' = [props EXCEPT ![c] = [array |-> Len(arrays'), len |-> h.len + 1]]

Add(g, uid) ==
  /\ Call(g)
  /\ AppendProp(Uses[g], RelatedTo(uid))
  /\ Expect(g, Append(value[Uses[g]], RelatedTo(uid)))
  /\ added' = added \cup {Uses[g]}
  /\ UNCHANGED <<pc, prop, out>>

AddRelatedTo(g, uid) ==
  /\ Call(g)
  /\ AppendProp(Uses[g], RelatedTo(uid))
  /\ Expect(g, Stamped(Append(value[Uses[g]], RelatedTo(uid))))
  /\ added' = added \cup {Uses[g]}
  /\ GoTo(g, "stamp")
  /\ UNCHANGED <<prop, out>>

Next ==
  \E g \in Goroutines :
    \/ IncrementSequence(g) \/ SetXVSTAR(g)
    \/ SetCopies(g) \/ SetAssigns(g)
    \/ \E uid \in Uids : Add(g, uid)
    \/ \E uid \in Uids : AddRelatedTo(g, uid)

Spec == Init /\ [][Next]_vars

-----------------------------------------------------------------------------
(* Correctness. *)

Quiet(c) == \A g \in Goroutines : Uses[g] = c => pc[g] = "idle"

\* Two components with the same properties in the same places, but for the uids
\* of their RELATED-TO and for their hash.
AlikeProps(p, q) ==
  p.name = q.name /\ (p.name \notin {"RELATED-TO", "X-VSTAR-HASH"} => p = q)

Alike(ps, qs) ==
  Len(ps) = Len(qs) /\ \A k \in 1..Len(ps) : AlikeProps(ps[k], qs[k])

\* Either this copy was never appended to, or no other copy was.
AddedAlone(c) == c \notin added \/ added \subseteq {c}

\* Copies of a component are values except for what is added to two of them: a
\* component no call is running on has every property its own calls gave it, in
\* its place, and can differ from what they made of it only in the uid of a
\* RELATED-TO and so in its hash; and it is exactly what they made of it if it was
\* never appended to, or if no other copy was.  The comment at component.go:63
\* promises more, that Add touches no existing property of the same name: of two
\* copies that were added to, the second overwrites what the first appended.
OnlyAdditionsCollide ==
  \A c \in Components : Quiet(c) =>
    /\ Alike(Props(c), value[c])
    /\ AddedAlone(c) => Props(c) = value[c]
=============================================================================
