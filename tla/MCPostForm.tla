---------------------------- MODULE MCPostForm ----------------------------
(* A form with up to three seats and two presses of "done".                *)
EXTENDS PostForm
===========================================================================
