CONSTANTS
  q1 = q1  q2 = q2  p1 = p1  p2 = p2  c1 = c1  c2 = c2  d1 = d1  d2 = d2
  Queues = {q1}
  Producers = {p1}
  Consumers = {c1}
  PQueue <- P1OnQ1
  CQueue <- C1OnQ1
  BlockQueues = {q1}
  Timed = {c1}
  Overlong = {}
  NthIndexes = {0, 1, 2}
  Data = {d1, d2}
  NoMsg = NoMsg
  MaxMsgs = 3
  StoreFails = TRUE
  Crashes = TRUE
  Reopens = TRUE
SPECIFICATION Spec
INVARIANTS TypeOK LogIntact CapacityIsLastIndex FetchFindsMessage
PROPERTIES ImplementsLog
