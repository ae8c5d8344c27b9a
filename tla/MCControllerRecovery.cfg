SPECIFICATION Spec
CONSTANTS
  d1 = d1
  d2 = d2
  a1 = a1
  a2 = a2
  Devices = {d1, d2}
  Addresses = {a1, a2}
  Configured = {d1}
  None = None
  Main = Main
  Updates <- OnlyMeasured
  ConfigAddress <- MCConfigAddress
  MaxCalls = 3
  MaxCrashes = 1
  MaxBacklog = 1
INVARIANT TypeOK
INVARIANT ConnectedIsRecorded
INVARIANT DisconnectedStays
INVARIANT CleanExitForgets
PROPERTY StartRecovers
CHECK_DEADLOCK FALSE
