SPECIFICATION FairSpec
CONSTANTS
  d1 = d1
  d2 = d2
  Devices = {d1, d2}
  Stuck = {d2}
  MaxCalls = 4
INVARIANT TypeOK
INVARIANT JobsMatchOperations
PROPERTY Implements
PROPERTY CallsAnswered
CHECK_DEADLOCK FALSE
