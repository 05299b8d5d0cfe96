-------------------------- MODULE MCWritePipeline ---------------------------
(* Instances of WritePipeline for TLC.                                     *)
EXTENDS WritePipeline

CONSTANTS ann, ben

Both == {ann, ben}

Bounds(writes, losses, kills, signIns, ends) ==
    [writes |-> writes, losses |-> losses, kills |-> kills, signIns |-> signIns,
     ends |-> ends]

(* Two kinds of fault with three writes, and each kind twice with two; one *)
(* stream that the service ends.                                           *)
Some == {Bounds(3, 1, 1, 0, 0), Bounds(3, 1, 0, 1, 0), Bounds(2, 0, 1, 1, 0),
         Bounds(2, 2, 0, 0, 0), Bounds(2, 0, 2, 0, 0), Bounds(2, 0, 0, 2, 0),
         Bounds(2, 1, 0, 0, 1), Bounds(2, 0, 0, 1, 1)}
=============================================================================
