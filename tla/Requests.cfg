SPECIFICATION MCSpec
CONSTANTS
  Users = {u1, u2}
  Logins = {l1, l2}
  Refreshes = {f1, f2}
  Logouts = {o1}
  LogoutAlls = {a1}
  None = None
  x = 1
  y = 2
  Tags = {1, 2}
  q1 = q1
  q2 = q2
  q3 = q3
  Updaters = {q1, q2, q3}
  Kinds <- MCKinds
  InitialTags <- MCInitialTags
  Votes = 1
  Initial = Initial
  CreateForms = {create}
  EditForms = {edit}
  First = First
  asked = asked
  other = other
  Questions <- MCQuestions
  Fields <- MCFields
  MaxTags = 1
  Blank = Blank
  MaxSubmits = 2
  MaxFaults = 1
CHECK_DEADLOCK FALSE
INVARIANTS
  EndsOnce
  LogoutAllHolds
  UpdatesAreKept
  DeadlockNeedsDelete
  ImagesAreStored
  OnePollPerForm
  SavedAsShown
PROPERTIES
  ImplementsSessions
  EventsShowPoll
