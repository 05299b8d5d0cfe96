----------------------------- MODULE MCAccount ------------------------------
(* Instances of Account for TLC.                                           *)
EXTENDS Account

Courses == {{}, {"retap"}, {"retap", "kill", "offline"}}
Peaceful == {{}}
=============================================================================
