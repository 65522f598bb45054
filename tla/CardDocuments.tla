----------------------------- MODULE CardDocuments -----------------------------
(***************************************************************************)
(* Cards that programs edit through the containers of card.go, by          *)
(* assigning the fields UID and Kind, or by writing the same in another    *)
(* order and in other capitals; and what canonical.Card, hashing.Card and  *)
(* diff.OfCard make of them.                                               *)
(***************************************************************************)
EXTENDS ComponentDiff

CONSTANTS SavedCards,     \* sequences of cards to start from
          CardProps,      \* properties that are set or added
          CardUIDs,       \* what is assigned to the field UID
          CardKinds,      \* what is assigned to the field Kind
          MaxCardEdits

ASSUME CardEditsAssumption == MaxCardEdits \in Nat

\* cards as they were saved, and as they are
VARIABLES savedCards, cards, cardEdits

cardVars == <<savedCards, cards, cardEdits>>

CardInit ==
  /\ savedCards \in SavedCards
  /\ cards = savedCards
  /\ cardEdits = 0

EditCard(i, c) ==
  /\ cardEdits < MaxCardEdits
  /\ cardEdits' = cardEdits + 1
  /\ cards' = [cards EXCEPT ![i] = c]
  /\ UNCHANGED savedCards

-----------------------------------------------------------------------------
\* Card.Set, Add and Remove are those of a component.
SetOnCard ==
  \E i \in DOMAIN cards, p \in CardProps : EditCard(i, SetProperty(cards[i], p))

AddToCard ==
  \E i \in DOMAIN cards, p \in CardProps :
    EditCard(i, [cards[i] EXCEPT !.props = Append(@, p)])

RemoveFromCard ==
  \E i \in DOMAIN cards : \E p \in ToSet(cards[i].props) :
    EditCard(i, RemoveProperty(cards[i], ToUpper(p.name)))

AssignField ==
  \E i \in DOMAIN cards :
    \/ \E uid \in CardUIDs : EditCard(i, [cards[i] EXCEPT !.uid = uid])
    \/ \E kind \in CardKinds : EditCard(i, [cards[i] EXCEPT !.kind = kind])

\* Another program writes the same in another order or in other capitals.
MoveOnCard ==
  \E i \in DOMAIN cards : \E k \in 1..(Len(cards[i].props) - 1) :
    EditCard(i, [cards[i] EXCEPT !.props[k] = cards[i].props[k + 1],
                                 !.props[k + 1] = cards[i].props[k]])

RecaseOnCard ==
  \E i \in DOMAIN cards : \E k \in DOMAIN cards[i].props, name \in DOMAIN Capitals :
    /\ Capitals[name] = cards[i].props[k].name
    /\ EditCard(i, [cards[i] EXCEPT !.props[k].name = name])

CardNext ==
  \/ SetOnCard \/ AddToCard \/ RemoveFromCard \/ AssignField
  \/ MoveOnCard \/ RecaseOnCard

-----------------------------------------------------------------------------
HasProp(props, name) == \E p \in ToSet(props) : ToUpper(p.name) = name

\* A field is a property of the canonical form unless the properties have one
\* of its name.
Absorbed(c, name, field) ==
  IF field = NoText \/ HasProp(c.props, name) THEN <<>>
  ELSE <<Property(name, <<>>, <<"text", field>>)>>

\* canonical.Card: VERSION is added to whatever there is, and comes first.
CanonicalCard(c) ==
  LET version == Property("VERSION", <<>>, <<"text", "4.0">>)
      props == <<version>> \o Absorbed(c, "UID", c.uid)
                 \o Absorbed(c, "KIND", c.kind) \o c.props
      sorted == PreparedProps(FilterHash(props), <<>>)
      isVersion(p) == ToUpper(p.name) = "VERSION"
      first == First(SelectSeq(sorted, isVersion))
      at == CHOOSE k \in DOMAIN sorted : isVersion(sorted[k]) /\ {sorted[k]} = first
  IN  EncodeLines(<<sorted[at]>> \o RemoveAt(sorted, at))

\* hashing.Card.
CardDigest(c) == CanonicalCard([c EXCEPT !.props = FilterHash(@)])

\* diff.OfCard looks at the properties only.
OfCard(a, b) == DiffProperties(FilterHash(a.props), FilterHash(b.props))
=============================================================================
