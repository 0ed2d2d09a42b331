SPECIFICATION FairSpec
CONSTANTS
  Users = {u1}
  Polls <- MCPolls
  Voters = {v1, v2}
  Removers = {m1}
  Readers = {g1}
  None = None
  single = single
  multi = multi
  optA = optA
  optB = optB
  Options <- MCOptions
  OptionsOf <- MCOptionsOf
  SingleChoice <- MCSingleChoice
INVARIANTS
  OneSelection
  RemovalWholeOrLost
  ReadsWholeSelection
  EventsMatchVotes
PROPERTIES
  ImplementsLedger
  EveryRequestEnds
