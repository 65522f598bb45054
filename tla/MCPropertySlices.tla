---------------------------- MODULE MCPropertySlices ----------------------------
(* Small instances of PropertySlices. *)
EXTENDS PropertySlices, TLC

CONSTANTS g1, g2, a, b, x, y

MCGoroutines == {g1, g2}
MCComponents == {a, b}
MCUids == {x, y}

OwnCopies == g1 :> a @@ g2 :> b

AlikeUids == Permutations(MCUids)
=============================================================================
