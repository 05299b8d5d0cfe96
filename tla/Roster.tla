------------------------------- MODULE Roster -------------------------------
(***************************************************************************)
(* What a post promises, without databases, copies and messages: the host  *)
(* offers a number of seats, students enter while one is free and leave,   *)
(* and the post is closed once and for all when the last one leaves or the *)
(* host deletes it.  Every step is atomic.                                 *)
(***************************************************************************)
EXTENDS Naturals, FiniteSets

CONSTANTS User, Post, MaxSeats

VARIABLES
    phase,   (* "new", "open" or "closed"         *)
    roster,  (* the students taking part          *)
    seats    (* the seats offered at the moment   *)

vars == <<phase, roster, seats>>

TypeOK ==
    /\ phase \in [Post -> {"new", "open", "closed"}]
    /\ roster \in [Post -> SUBSET User]
    /\ seats \in [Post -> Nat]

Init ==
    /\ phase = [p \in Post |-> "new"]
    /\ roster = [p \in Post |-> {}]
    /\ seats = [p \in Post |-> 0]

Offer(p, m) ==
    /\ phase[p] # "closed"
    /\ seats' = [seats EXCEPT ![p] = m]
    /\ UNCHANGED <<phase, roster>>

Start(u, p) ==
    /\ phase[p] = "new" /\ seats[p] > 0
    /\ phase' = [phase EXCEPT ![p] = "open"]
    /\ roster' = [roster EXCEPT ![p] = {u}]
    /\ UNCHANGED seats

Enter(u, p) ==
    /\ phase[p] = "open" /\ u \notin roster[p]
    /\ Cardinality(roster[p]) < seats[p]
    /\ roster' = [roster EXCEPT ![p] = @ \cup {u}]
    /\ UNCHANGED <<phase, seats>>

Exit(u, p) ==
    /\ phase[p] = "open" /\ u \in roster[p] /\ roster[p] # {u}
    /\ roster' = [roster EXCEPT ![p] = @ \ {u}]
    /\ UNCHANGED <<phase, seats>>

Close(p) ==
    /\ phase[p] = "open"
    /\ phase' = [phase EXCEPT ![p] = "closed"]
    /\ roster' = [roster EXCEPT ![p] = {}]
    /\ UNCHANGED seats

Next == \E p \in Post :
    \/ \E m \in 2..MaxSeats : Offer(p, m)
    \/ \E u \in User : Start(u, p) \/ Enter(u, p) \/ Exit(u, p)
    \/ Close(p)

Spec == Init /\ [][Next]_vars
=============================================================================
