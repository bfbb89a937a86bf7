CONSTANTS
  a = a  b = b  k1 = k1  k2 = k2  k3 = k3
  Names = {a, b}
  Coros = {k1, k2, k3}
  NoName = NoName
  NoMsg = NoMsg
  Capacity = 3
  PoolSize = 2
  MaxMsgs = 5
  WriteErrors = TRUE
  PushErrors = TRUE
  BadRequests = TRUE
  Signals = TRUE
  Crashes = TRUE
SPECIFICATION FairSpec
INVARIANTS TypeOK OnePlaceEach DisorderInFront PoolIsServed
PROPERTIES Drains FrameStops LossBounded
