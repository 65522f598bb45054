---------------------------- MODULE MCCardExchange ----------------------------
(* Small instances of CardExchange: cards that callers filled in by hand and *)
(* parsers return, and cards that helpers.NewCard made.                      *)
EXTENDS CardExchange

MCVersions == {"", "3.0", "4.0"}

FilledIn == [i \in {"i1", "i2", "i3"} |->
  CASE i = "i1" -> [uid |-> "u1", kind |-> "org", props |-> <<Plain("X", "x")>>]
    [] i = "i2" -> [uid |-> "u1", kind |-> NoValue, props |-> <<>>]
    [] i = "i3" -> [uid |-> NoValue, kind |-> "org", props |-> <<>>]]

Made == [i \in {"i1"} |-> NewCard("u1", "org")]
=============================================================================
