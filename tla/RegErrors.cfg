CONSTANTS
  t1 = t1  t2 = t2  a = a  b = b  c = c  d = d
  Threads = {t1}
  Producers = {a, b}
  Consumers = {c, d}
  NoThread = NoThread
  MaxNodes = 5
  MaxStored = 3
  MaxLoads = 5
  StoreFails = TRUE
  Crashes = TRUE
  Opener = {t1}
  ClosesInUse = FALSE
  Repeats = TRUE
SPECIFICATION Spec
INVARIANTS SlotsDistinct UsersDurable
CHECK_DEADLOCK FALSE
SYMMETRY ThreadsAndUsers
