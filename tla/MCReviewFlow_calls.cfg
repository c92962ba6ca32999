SPECIFICATION MCSpec
CONSTANTS
  p1 = p1
  p2 = p2
  i1 = i1
  i2 = i2
  i3 = i3
  u = u
  concept = concept
  topic = topic
  state = state
  Procs = {p1, p2}
  Items = {i1, i2, i3}
  Updates = {u}
  Files = {concept, topic, state}
  Target <- MCTargets
  Compiled = {i1, i3}
  Project = {i2, i3, u}
  Original <- MCOriginal
  Crashes = TRUE
INVARIANTS
  TypeOK
  DecisionIsTruth
  AppliedEventOnce
PROPERTIES
  RollbackRestores
SYMMETRY MCSymmetry
CHECK_DEADLOCK FALSE
