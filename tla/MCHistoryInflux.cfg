SPECIFICATION FairSpec
CONSTANT MaxLines = 5
INVARIANT OneRound
PROPERTY Implements
PROPERTY LinesLeave
CHECK_DEADLOCK FALSE
