SPECIFICATION FairSpec
CONSTANTS
  Values = {1, 2}
  NaN = NaN
  None = None
  Calls <- InterlockCalls
  Updates = {"interlockState"}
  ConfigArmed = TRUE
  ConfigLimit = 1
  MaxCalls = 3
INVARIANT TripIsJustified
PROPERTY InterlockCloses
