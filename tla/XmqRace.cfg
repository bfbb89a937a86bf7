CONSTANTS
  q1 = q1  q2 = q2  p1 = p1  p2 = p2  c1 = c1  c2 = c2  d1 = d1  d2 = d2
  Queues = {q1}
  Producers = {p1, p2}
  Consumers = {c1}
  PQueue <- P12OnQ1
  CQueue <- C1OnQ1
  BlockQueues = {q1}
  Timed = {}
  Overlong = {}
  NthIndexes = {}
  Data = {d1, d2}
  NoMsg = NoMsg
  MaxMsgs = 2
  StoreFails = FALSE
  Crashes = FALSE
  Reopens = FALSE
SPECIFICATION Spec
INVARIANTS LogIntact
