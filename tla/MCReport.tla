------------------------------ MODULE MCReport ------------------------------
(* The page of ann's post, and a room with two other members.              *)
EXTENDS Report

CONSTANTS ann, ben

AnnAndBen == {ann, ben}
Screens   == [writer : {ann, Nil},
              may : {{}, {"slow", "offline"}, {"slow", "again", "offline"}}]
Reports   == [s \in Screens |-> IF "again" \in s.may THEN 2 ELSE 3]
=============================================================================
