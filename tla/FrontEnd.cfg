SPECIFICATION MCSpec
CONSTANTS
  a = a
  b = b
  r1 = r1
  r2 = r2
  x = x
  y = y
  Tabs = {a, b}
  Requests = {r1, r2}
  MaxSessions = 3
  MaxFaults = 1
  Options = {x, y}
  MaxClicks = 2
  Unknown = Unknown
SYMMETRY Symmetry
INVARIANTS
  RequestTakesEffectOnce
  CalmBrowserHoldsItsSession
  ShownVoteIsRecent
PROPERTIES
  OneTabStoresLive
  LiveSessionDropped
CHECK_DEADLOCK FALSE
