----------------------------- MODULE WriteQueue -----------------------------
(***************************************************************************)
(* What the database library promises of the writes an app hands to it,    *)
(* without streams, pipelines, batch numbers and restarts.  Writes are     *)
(* numbered in the order of the calls.  The writes of a student reach the  *)
(* service in that order and none is skipped; one may be applied again     *)
(* while it is unsettled; they are settled in that order, and a write is   *)
(* settled as done only after it has been applied.                         *)
(***************************************************************************)
EXTENDS Naturals

CONSTANTS User, MaxWrites

VARIABLES
    pending,   (* writes of a student that are filed and not settled        *)
    applied,   (* writes the service has applied                            *)
    latest,    (* the write of a student that was applied last; 0: none     *)
    outcome    (* how a write was settled                                   *)

vars == <<pending, applied, latest, outcome>>

Write == 1..MaxWrites

TypeOK ==
    /\ pending \in [User -> SUBSET Write] /\ applied \subseteq Write
    /\ latest \in [User -> Write \cup {0}]
    /\ outcome \in [Write -> {"none", "ok", "refused"}]

Init ==
    /\ pending = [u \in User |-> {}] /\ applied = {}
    /\ latest = [u \in User |-> 0]
    /\ outcome = [w \in Write |-> "none"]

File(u, w) ==
    /\ outcome[w] = "none" /\ w \notin applied
    /\ \A v \in pending[u] : v < w
    /\ pending' = [pending EXCEPT ![u] = @ \cup {w}]
    /\ UNCHANGED <<applied, latest, outcome>>

Apply(u, w) ==
    /\ w \in pending[u]
    /\ \A v \in pending[u] : v < w => v \in applied
    /\ applied' = applied \cup {w}
    /\ latest' = [latest EXCEPT ![u] = w]
    /\ UNCHANGED <<pending, outcome>>

Settle(u, w, how) ==
    /\ w \in pending[u] /\ \A v \in pending[u] : w <= v
    /\ how = "ok" => w \in applied
    /\ pending' = [pending EXCEPT ![u] = @ \ {w}]
    /\ outcome' = [outcome EXCEPT ![w] = how]
    /\ UNCHANGED <<applied, latest>>

Next == \E u \in User, w \in Write :
    \/ File(u, w)
    \/ Apply(u, w)
    \/ \E how \in {"ok", "refused"} : Settle(u, w, how)

Spec == Init /\ [][Next]_vars
=============================================================================
