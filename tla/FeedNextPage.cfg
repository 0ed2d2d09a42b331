SPECIFICATION MCSpec
CONSTANTS
  alice = alice
  bob = bob
  guest = guest
  N = 3
  Creator <- MCCreator
  Viewers <- MCViewers
  Readers = {r}
  Limits = {0, 9}
  DefaultLimit = 1
  MaxLimit = 2
  DiscoverySlots = 1
  ChronologicalSlots = 1
  ExposureTarget = 1
  MaxChanges = 0
  NotYet = NotYet
  Deleted = Deleted
  NoCursor = NoCursor
  Polls = {1, 2, 3}
  news = news
  Tags <- MCTags
  Filters <- MCFilters
  Microsecond = 2
  MaxTime = 2
  None = None
CHECK_DEADLOCK FALSE
INVARIANTS
  CursorsAreAccepted
