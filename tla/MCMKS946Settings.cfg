SPECIFICATION Spec
CONSTANTS
  Values = {1, 2}
  NaN = NaN
  None = None
  Calls <- DeviceCalls
  Updates = {"configuration"}
  ConfigArmed = FALSE
  ConfigLimit = NaN
  MaxCalls = 3
INVARIANT TypeOK
INVARIANT RelayCoherent
INVARIANT ShownIsDevice
PROPERTY RecipeUntouched
