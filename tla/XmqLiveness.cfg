CONSTANTS
  q1 = q1  q2 = q2  p1 = p1  p2 = p2  c1 = c1  c2 = c2  d1 = d1  d2 = d2
  Queues = {q1}
  Producers = {p1}
  Consumers = {c1, c2}
  PQueue <- P1OnQ1
  CQueue <- C12OnQ1
  BlockQueues = {q1}
  Timed = {c2}
  Overlong = {}
  NthIndexes = {}
  Data = {d1, d2}
  NoMsg = NoMsg
  MaxMsgs = 2
  StoreFails = FALSE
  Crashes = FALSE
  Reopens = FALSE
SPECIFICATION FairSpec
INVARIANTS NextLeavesNoGap
PROPERTIES StoredIsFetched TimedWaitEnds
