------------------------ MODULE MCExtractionHandoff ------------------------
(* One dataset, handed over by the event loop and one request thread. *)
EXTENDS ExtractionHandoff

CONSTANTS h1, loop, r1
MCHandoffs == {h1}
MCRequests == {r1}
=============================================================================
