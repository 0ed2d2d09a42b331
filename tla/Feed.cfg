SPECIFICATION MCSpec
CONSTANTS
  k1 = k1
  optA = optA
  optB = optB
  None = None
  Keys <- MCKeys
  Options <- MCOptions
  Groups <- MCGroups
  GroupOf <- MCGroupOf
  Requests = {q1, q2, q3}
  RemovalsMayBeLost = TRUE
  MaxUpdates = 1
CHECK_DEADLOCK FALSE
INVARIANTS
  EarlyVotesKept
  ItemCounts
  ItemShowsPoll
PROPERTIES
  EventuallyListed
