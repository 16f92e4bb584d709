------------------------ MODULE MCPredictionDelivery ------------------------
(* Two sources: one of live readings, and one that replays a maintenance     *)
(* event.                                                                    *)
EXTENDS PredictionDelivery

CONSTANTS live, replay, l1, l2, m1, k

MCKeyOf == [e \in Event |-> IF e = m1 THEN k ELSE NoKey]

(* One source with a single batch.                                           *)
MCSingle  == [s \in Source |-> <<m1>>]
(* Two live batches of one source, then one replayed.                        *)
MCBacklog == [s \in Source |-> IF s = live THEN <<l1, l2>> ELSE <<m1>>]
=============================================================================
