---------------------------- MODULE MCWireRoundTrip ----------------------------
(* Values of every octet the grammar knows, folded at every place. *)
EXTENDS WireRoundTrip

MCCapital == [s |-> "S", x |-> "X", g |-> "G", p |-> "P", n |-> "N"]

MCTextNames == {<<"S">>}

Prop(name, params, value) == [name |-> name, params |-> params, value |-> value]

P(value) == [name |-> <<"p">>, value |-> value]

TextOctets == {"a", "n", "\\", ",", ";", ":", DQ, LF, CR, SP}

ParamOctets == {"a", ",", ";", ":", "=", SP}

Codecs == {"ical", "vcard"}

\* Every short value of a TEXT property, and of another one without line
\* breaks; parameters with and without quotes; groups, also empty ones; two
\* properties.
MCDrafts ==
  [codec : Codecs, props : {<<Prop(<<"s">>, <<>>, v)>> : v \in BoundedSeq(TextOctets, 3)}]
  \cup [codec : Codecs,
        props : {<<Prop(<<"X">>, <<>>, v)>> : v \in BoundedSeq(TextOctets \ {LF}, 2)}]
  \cup [codec : Codecs,
        props : {<<Prop(<<"s">>, <<P(v), P(w)>>, <<"a", ":">>)>> :
                   v \in BoundedSeq(ParamOctets, 2), w \in BoundedSeq(ParamOctets, 1)}]
  \cup [codec : {"ical"},
        props : {<<Prop(<<"x">>, <<P(v)>>, <<>>)>> : v \in BoundedSeq({"a", ",", DQ}, 3)}]
  \cup [codec : {"vcard"},
        props : {<<Prop(<<"g", ".", "s">>, <<P(v)>>, <<";">>),
                   Prop(<<"x">>, <<>>, <<"\\">>)>> : v \in BoundedSeq(ParamOctets, 1)}]
  \cup [codec : Codecs,
        props : {<<Prop(<<"p">>, <<>>, <<"a">>), Prop(<<".">> \o name, <<>>, <<";">>)>> :
                   name \in {<<"s">>, <<".", "s">>}}]

MCWritten == {Document(draft) : draft \in MCDrafts}
=============================================================================
