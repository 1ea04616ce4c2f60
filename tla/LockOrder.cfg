SPECIFICATION FairSpec
CONSTANTS
  Threads <- ThreeThreads
  RemovesRules = FALSE
INVARIANTS TypeOK NoCircularWait
PROPERTIES TickerGoesOn
