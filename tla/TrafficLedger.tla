---------------------------- MODULE TrafficLedger ----------------------------
(***************************************************************************)
(* What the traffic path of the agent promises for every unit of traffic a *)
(* user causes, with no mention of counters, spool files or requests.      *)
(*                                                                         *)
(* A unit is metered by the core, then recorded in the spool, then billed  *)
(* by the panel, once.  The crash window of docs/TRAFFIC_DELIVERY.md is    *)
(* the action Lose: only a unit no spool file holds can be lost.  There is *)
(* no action that takes a unit away from "spooled" except to "billed", and *)
(* none at all that leaves "billed" or "lost".                             *)
(***************************************************************************)
CONSTANT Unit

VARIABLE status

Status == {"idle", "metered", "spooled", "billed", "lost"}

TypeOK == status \in [Unit -> Status]

Init == status = [u \in Unit |-> "idle"]

\* Every unit of S moves from one status to another; the others stay.
Move(S, from, to) ==
    /\ S # {}
    /\ \A u \in S : status[u] = from
    /\ status' = [u \in Unit |-> IF u \in S THEN to ELSE status[u]]

Meter == \E u \in Unit : Move({u}, "idle", "metered")
Spool == \E S \in SUBSET Unit : Move(S, "metered", "spooled")
Bill  == \E S \in SUBSET Unit : Move(S, "spooled", "billed")
Lose  == \E S \in SUBSET Unit : Move(S, "metered", "lost")

Next == Meter \/ Spool \/ Bill \/ Lose

Spec == Init /\ [][Next]_status
=============================================================================
