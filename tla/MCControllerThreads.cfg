SPECIFICATION Spec
CONSTANTS
  d1 = d1
  a1 = a1
  Devices = {d1}
  Addresses = {a1}
  Configured = {d1}
  None = None
  Main = Main
  Updates <- OnlyMeasured
  ConfigAddress <- MCConfigAddress
  MaxCalls = 1
  MaxCrashes = 1
  MaxBacklog = 1
INVARIANT OneThreadExchanges
CHECK_DEADLOCK FALSE
