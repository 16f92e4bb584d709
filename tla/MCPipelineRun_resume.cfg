SPECIFICATION Spec
CONSTANTS
  setA = setA
  setB = setB
  setC = setC
  setD = setD
  model1 = model1
  model2 = model2
  Models = {model1, model2}
  ModelSets = {setA, setB, setC, setD}
  Schema <- MCSchema
  Runs = {r1}
  NoSet = NoSet
  NoId = NoId
  MaxExecutions = 4
  MaxUpdates = 2
SYMMETRY Symmetry
INVARIANT FeaturesFit
PROPERTIES ChangeRecalculated RefusedOnlyAfterLateResume
CHECK_DEADLOCK FALSE
