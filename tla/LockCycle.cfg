SPECIFICATION FairSpec
CONSTANTS
  Threads <- ThreeThreads
  RemovesRules = TRUE
PROPERTIES TickerGoesOn
CHECK_DEADLOCK FALSE
