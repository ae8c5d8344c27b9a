SPECIFICATION TPGSpec
CONSTANTS
  SwitchingFunctions <- TPG362Relays
  MaxTries = 15
  MaxLate = 4
INVARIANT RelayIsReal
