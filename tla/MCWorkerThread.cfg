SPECIFICATION FairSpec
CONSTANT MaxJobs = 4
INVARIANT TypeOK
INVARIANT NoLostWakeup
PROPERTY Implements
PROPERTY ShutdownCompletes
PROPERTY JobsServed
CHECK_DEADLOCK FALSE
