SPECIFICATION MCSpec
CONSTANTS
  k1 = k1
  optA = optA
  optB = optB
  None = None
  Keys <- MCKeys
  Options <- MCOneOption
  Groups <- MCGroups
  GroupOf <- MCGroupOf
  Requests = {q1}
  RemovalsMayBeLost = FALSE
  MaxUpdates = 1
CHECK_DEADLOCK FALSE
PROPERTIES
  FeedContainsCreatedPoll
