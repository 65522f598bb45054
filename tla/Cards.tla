--------------------------------- MODULE Cards ---------------------------------
(***************************************************************************)
(* vCards and their content lines: vstar.Card, rfc6350's encoder and       *)
(* helpers.NewCard.                                                        *)
(*                                                                         *)
(* A line is its bare name, its value and whether a group qualifies the    *)
(* name ("home.UID").  How a line is spelled is ContentLine's subject.     *)
(***************************************************************************)
EXTENDS Sequences

CONSTANT NoValue    \* the empty string

Bare(name) == [name |-> name, value |-> NoValue, grouped |-> FALSE]

Plain(name, value) == [Bare(name) EXCEPT !.value = value]

Begin   == Bare("BEGIN")
EndCard == Bare("END")

Supported == "4.0"

\* VERSION is not a part of a card; the parsers keep UID and KIND in fields.
EmptyCard == [uid |-> NoValue, kind |-> NoValue, props |-> <<>>]

\* The fields are written in front of whatever the properties are.
EncodeCard(c) ==
  <<Begin, Plain("VERSION", Supported), Plain("UID", c.uid)>>
  \o (IF c.kind # NoValue THEN <<Plain("KIND", c.kind)>> ELSE <<>>)
  \o c.props
  \o <<EndCard>>

\* NewCard sets three properties besides the two fields.
NewCard(uid, kind) ==
  [uid |-> uid, kind |-> kind,
   props |-> <<Plain("VERSION", Supported), Plain("KIND", kind), Plain("UID", uid)>>]
=============================================================================
