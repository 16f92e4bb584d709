---------------------------- MODULE MCExtraction ----------------------------
(* A stream of five records over three windows. *)
EXTENDS Extraction

MCStream == <<1, 1, 2, 2, 3>>
=============================================================================
