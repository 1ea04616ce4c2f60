SPECIFICATION Spec
CONSTANTS
  IPs = {a, b}
  Ports = {p, q}
  DdosConfigs <- SteadyDdosConfigs
  ScanConfigs <- MCScanConfigs
  ManualBlock = 2
  U64 = 64
  MaxTime = 3
  MaxAttempts = 3
  MaxCommands = 1
  Lagging = FALSE
  StepsBack = FALSE
PROPERTIES ImplementsPolicy
