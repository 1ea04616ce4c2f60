SPECIFICATION FairSpec
CONSTANTS
  p1 = p1
  p2 = p2
  a1 = a1
  consumer = consumer
  snapshotter = snapshotter
  Paths = {p1}
  Apps = {a1}
  IdOf <- OneApp
  Observers = {consumer}
  Sees <- OwnSpelling
  Commands <- AllCommands
  Schedules <- Healing
  Seen = {"tcp"}
  Targets = {}
  Handles = {h1,h2,h3}
  Nothing = Nothing
PROPERTIES QuarantineEnforced
