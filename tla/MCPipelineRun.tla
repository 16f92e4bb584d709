--------------------------- MODULE MCPipelineRun ---------------------------
(* Two models and four model sets: setB changes a schema of setA, setC only *)
(* a model, setD lacks one.                                                 *)
EXTENDS PipelineRun, TLC

CONSTANTS setA, setB, setC, setD, model1, model2

MCSchema ==
  setA :> (model1 :> 1 @@ model2 :> 1) @@ setB :> (model1 :> 2 @@ model2 :> 1)
    @@ setC :> (model1 :> 1 @@ model2 :> 1) @@ setD :> (model1 :> 1)

Symmetry == Permutations({setA, setC})
=============================================================================
