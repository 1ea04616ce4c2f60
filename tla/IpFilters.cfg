SPECIFICATION FairSpec
CONSTANTS
  a = a
  b = b
  IPs <- Addresses
  Handles = {h1, h2}
  NoIP = NoIP
  NoHandle = NoHandle
  DetectBlock = 1
  ManualBlock = 2
  MaxLag = 1
  MaxCommands = 2
  MaxRefusals = 1
INVARIANTS TypeOK FiltersAccounted
PROPERTIES EveryFilterLifted TrustedInTheEndFree
