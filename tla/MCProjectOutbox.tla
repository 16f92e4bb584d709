--------------------------- MODULE MCProjectOutbox ---------------------------
(* Events of two maintenance actions on one machine (a1, a2 are versions 1   *)
(* and 2 of the first, b1 is version 1 of the second) and of another machine *)
(* (c1).                                                                     *)
EXTENDS ProjectOutbox, TLC

CONSTANTS a1, a2, b1, c1, machine1, machine2, actionA, actionB, actionC

MCStream    == [e \in Events |-> IF e = c1 THEN machine2 ELSE machine1]
MCLifecycle == [e \in Events |-> CASE e = b1 -> actionB [] e = c1 -> actionC [] OTHER -> actionA]
MCVersion   == [e \in Events |-> IF e = a2 THEN 2 ELSE 1]

Symmetry == Permutations(Workers)
=============================================================================
