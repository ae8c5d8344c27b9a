SPECIFICATION FairSpec
CONSTANTS
  d1 = d1
  a1 = a1
  Devices = {d1}
  Addresses = {a1}
  Configured = {d1}
  None = None
  Main = Main
  Updates <- StatusAndMeasured
  ConfigAddress <- MCConfigAddress
  MaxCalls = 2
  MaxCrashes = 1
  MaxBacklog = 2
PROPERTY MonitoringTellsDisconnect
PROPERTY DisconnectHappens
CHECK_DEADLOCK FALSE
