------------------------ MODULE MCMaintenanceDelivery ------------------------
(* The three versions of one maintenance action.                        *)
EXTENDS MaintenanceDelivery, TLC

CONSTANTS a1, a2, a3, machine, actionA

MCStream    == [e \in Events |-> machine]
MCLifecycle == [e \in Events |-> actionA]
MCVersion   == [e \in Events |-> CASE e = a1 -> 1 [] e = a2 -> 2 [] e = a3 -> 3]

(* Two dispatchers on either transport, or one whose disk fails twice.  *)
MCDeployments ==
  {[transport |-> t, dispatchers |-> Workers, diskErrors |-> 0] : t \in {"jsonl", "http"}}
  \cup {[transport |-> "jsonl", dispatchers |-> {w}, diskErrors |-> 2] : w \in Workers}

Symmetry == Permutations(Workers)
=============================================================================
