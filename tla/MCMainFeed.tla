----------------------------- MODULE MCMainFeed -----------------------------
(* Small instances of MainFeed: up to three posts of two authors.          *)
EXTENDS MainFeed

CONSTANTS p1, p2, p3, ann, ben, tea, rice

Three == {p1, p2, p3}
Both  == {tea, rice}

(* A student who waits; one who does not; one whose reads may fail.  Fewer *)
(* posts are published for the last two.                                   *)
Paces       == {{}, {"hurry", "peek"}, {"offline"}}
At(n, m)    == [r \in Regimes |-> IF r = {} THEN n ELSE m]
ThreeOrTwo  == At(3, 2)
ThreeEach   == At(3, 3)

Alternate(x, y) == [p \in Post |-> IF p \in {p1, p3} THEN x ELSE y]
Authors    == Alternate(ann, ben)
Categories == IF Category = Both THEN Alternate(tea, rice) ELSE [p \in Post |-> tea]
=============================================================================
