SPECIFICATION Spec
CONSTANTS
  k1 = k1
  k2 = k2
  optA = optA
  optB = optB
  young = young
  old = old
  None = None
  Keys <- MCKeys
  Options <- MCOptions
  Groups <- MCGroups
  GroupOf <- MCGroupOf
  Requests = {q1, q2, q3}
  RemovalsMayBeLost = TRUE
SYMMETRY MCSymmetry
CHECK_DEADLOCK FALSE
INVARIANTS
  CountsAddUp
  CaughtUp
