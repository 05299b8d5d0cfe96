--------------------------- MODULE MCRecruitment ---------------------------
(* Instances of Recruitment for TLC.                                       *)
EXTENDS Recruitment, TLC

CONSTANTS u1, u2, u3, p1, p2

Three == {u1, u2, u3}
Two   == {u1, u2}
Both  == {p1, p2}
One   == {p1}

Students == Permutations(User)
=============================================================================
