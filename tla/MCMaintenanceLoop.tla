------------------------- MODULE MCMaintenanceLoop -------------------------
(* Bounds: one machine and two cases about it, two request threads. *)
EXTENDS MaintenanceLoop, TLC

CONSTANTS c1, c2, m1

MCCases == {c1, c2}
MCEquipmentOf == [c \in MCCases |-> m1]

(* One case from its beginning, or two with accepted recommendations. *)
MCOpenings ==
  {o \in [MCCases -> Opening] :
     \/ {o[c] : c \in MCCases} = {"new", "rejected"}
     \/ {o[c] : c \in MCCases} = {"accepted"}}

Symmetry ==
  Permutations(Threads) \cup Permutations(Keys) \cup Permutations(Operators)
    \cup Permutations(MCCases)
=============================================================================
