-------------------------- MODULE MCDiagnosisInbox --------------------------
(* Bounds: a batch; other content under the same batch id; the same        *)
(* results in another batch, in either order; under that id, a result that *)
(* is not valid, and results of which one is listed twice.                 *)
(* The ids of the two events sort the other way than their results.        *)
EXTENDS DiagnosisInbox, TLC

CONSTANTS h1, h2, b1, b2, e1, e2, i1, i2, x1, p1, p2, p3, p4, p5

MCEventOf == i1 :> e1 @@ x1 :> e1 @@ i2 :> e2
MCBatchOf == p1 :> b1 @@ p2 :> b1 @@ p3 :> b2 @@ p4 :> b2 @@ p5 :> b2
MCListings == p1 :> {<<i1, i2>>} @@ p2 :> {<<x1, i2>>} @@ p3 :> {<<i1, i2>>, <<i2, i1>>}
                @@ p4 :> {<<i2>>} @@ p5 :> {<<i2, i1, i2>>}
MCInvalid == [p \in {p1, p2, p3, p4, p5} |-> IF p = p4 THEN {i2} ELSE {}]
MCPromotable == 1 :> {i1, x1} @@ 2 :> {i1, i2, x1}
MCIdOrder == e1 :> 2 @@ e2 :> 1
MCResultOrder == e1 :> 1 @@ e2 :> 2

Symmetry == Permutations({h1, h2})
=============================================================================
