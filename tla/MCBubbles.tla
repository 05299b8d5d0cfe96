----------------------------- MODULE MCBubbles -----------------------------
(* Conversations of two students with the one whose screen it is; a day    *)
(* has two minutes.                                                        *)
EXTENDS Bubbles
=============================================================================
