CONSTANTS
  a = a
  b = b
  c = c
  Timer = {a, b, c}
  Period <- MCPeriod
  FirstDelay <- MCFirstDelay
  MAX_ASYNC_TIME_NUM = 2
  Wrap = 7
  MaxLag = 2
  Delays = {2}
SPECIFICATION FairSpec
INVARIANT IInv
PROPERTY NeverEarly
PROPERTY DelayIsLongEnough
PROPERTY DueIsCalled
