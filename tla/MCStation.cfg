SPECIFICATION MCSpec
CONSTANTS
  SwitchingFunctions <- TPG362Relays
  MaxTries = 15
  MaxLate = 5
  RelayNo = {1}
  Levels <- RelayLevels
  Unit = {"PASCAL", "BAR"}
  Size = 2
  Settings = {0, 1}
  Controllers = {c1, c2}
  Names = {"None", "p", "q"}
  Bodies = {b1}
  Intervals = {1, 2}
  MaxNow = 4
  MaxTraces = 4
INVARIANT StationTypeOK
PROPERTY RelayInTime
INVARIANT RelayOfOneCall
INVARIANT ReadingsOfChannel
PROPERTY SettingsOfChannel
INVARIANT NoProfileLost
INVARIANT DisconnectedIsDark
INVARIANT ReportedIsShown
PROPERTY PanelCatchesUp
INVARIANT HeldIsShown
