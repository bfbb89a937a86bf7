CONSTANTS
  t1 = t1  t2 = t2  a = a  b = b  c = c  d = d
  Threads = {t1, t2}
  Producers = {a}
  Consumers = {c, d}
  NoThread = NoThread
  MaxNodes = 6
  MaxStored = 2
  MaxLoads = 6
  StoreFails = FALSE
  Crashes = TRUE
  Opener = {t1}
  ClosesInUse = FALSE
  Repeats = FALSE
SPECIFICATION FairSpec
INVARIANTS TypeOK IdentityUnique MemoryMatchesStore SlotSurvivesReload
PROPERTIES LockReleased
