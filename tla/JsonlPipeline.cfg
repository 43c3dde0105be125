SPECIFICATION MCSpec
CONSTANTS
  x1 = x1
  x2 = x2
  w1 = w1
  w2 = w2
  Records = {x1, x2}
  LastPartition = 2
  Writers = {w1, w2}
  MaxFaults = 1
INVARIANTS AppendedIsKept 
PROPERTY WaitingAreRead
CHECK_DEADLOCK FALSE
