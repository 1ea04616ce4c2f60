SPECIFICATION Spec
CONSTANTS
  IPs = {a, b}
  Ports = {p, q}
  DdosConfigs <- MCDdosConfigs
  ScanConfigs <- ShortScanConfigs
  ManualBlock = 2
  U64 = 64
  MaxTime = 2
  MaxAttempts = 3
  MaxCommands = 1
  Lagging = TRUE
  StepsBack = TRUE
INVARIANTS TypeOK BlockTakesEffect
SYMMETRY Interchangeable
PROPERTIES FloodBlockJustified ScanBlockJustified BlockChangesOnlyWhenOver
