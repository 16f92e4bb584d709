SPECIFICATION Spec
CONSTANTS
  c1 = c1
  c2 = c2
  m1 = m1
  Cases <- MCCases
  Operators = {o1}
  Nobody = nobody
  Equipment = {m1}
  EquipmentOf <- MCEquipmentOf
  Openings <- MCOpenings
  Threads = {t1, t2}
  Keys = {k1, k2}
  Engines = {"postgresql"}
SYMMETRY Symmetry
INVARIANTS ChainAgrees EquipmentCounts AnswersHold
PROPERTY ImplementsLifecycle
