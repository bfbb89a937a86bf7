SPECIFICATION Spec
CONSTANTS
  Second = 7
  Waits <- MCWaits
  MaxSec = 3
INVARIANTS SpinsUnderASecond NeverCutShort LateByUnderASecond
CHECK_DEADLOCK FALSE
