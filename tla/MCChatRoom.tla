---------------------------- MODULE MCChatRoom ----------------------------
(* Small instances of ChatRoom: two students, who take turns and may leave *)
(* and come back, send and type at will, or have requests that fail.       *)
EXTENDS ChatRoom

TurnsAndCrowd == {{}, {"errors"}, {"together"}, {"typing", "together"}}
TwoSends == [r \in Regimes |-> 2]
Visits   == [r \in Regimes |-> IF r = {} THEN 3 ELSE 2]
===========================================================================
