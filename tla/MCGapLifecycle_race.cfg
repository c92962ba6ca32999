SPECIFICATION Spec
CONSTANTS
  p1 = p1
  p2 = p2
  q1 = q1
  q2 = q2
  Procs = {p1, p2}
  Questions = {q1, q2}
  InitialRows = {"absent"}
  Modes = {"beside"}
  MaxCalls <- MCCalls
PROPERTIES
  AppendOnly
CHECK_DEADLOCK FALSE
