SPECIFICATION FairSpec
CONSTANTS
  Processes <- MCProcesses
  Requests = {r1}
  MaxStarts = 2
  Faults = {"ping", "listen", "serve", "relay", "handler"}
  MaxFaults = 2
  NoEvent = NoEvent
CHECK_DEADLOCK FALSE
INVARIANTS
  UsedWhileOpen
  AnsweredUnlessKilled
PROPERTIES
  EndsOnSignal
  LeftoversPublished
