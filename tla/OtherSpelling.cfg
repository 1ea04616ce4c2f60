SPECIFICATION Spec
CONSTANTS
  p1 = p1
  p2 = p2
  a1 = a1
  consumer = consumer
  snapshotter = snapshotter
  Paths = {p1,p2}
  Apps = {a1}
  IdOf <- OneApp
  Observers = {consumer,snapshotter}
  Sees <- OwnSpelling
  Commands <- AllCommands
  Schedules <- Settings
  Seen = {"tcp","udp"}
  Targets = {}
  Handles = {h1,h2,h3}
  Nothing = Nothing
INVARIANTS AllowedConnects
