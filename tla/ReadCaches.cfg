SPECIFICATION MCSpec
CONSTANTS
  Requests = {q1, q2, q3}
  MaxVotes = 1
  MaxFaults = 1
  Absent = Absent
  None = None
  Readers = {r1, r2}
  MaxEvents = 2
  Sections <- MCSections
CHECK_DEADLOCK FALSE
INVARIANTS
  AnswersShowChanges
  PollOutdatedOnlyByOverlap
  OutdatedOnlyByOverlap
