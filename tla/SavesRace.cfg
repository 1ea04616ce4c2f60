SPECIFICATION Spec
CONSTANTS
  always = always
  timed = timed
  Rules = {always, timed}
  Timed = {timed}
  Home = "home"
  Profiles = {"home", "game", "work"}
  DefaultProfiles = {"home", "game"}
  Imports <- MCImports
  Observers = {consumer}
  Empty = Empty
  Torn = Torn
  Missing = Missing
  MaxJobs = 3
  MaxFailures = 1
  MaxRestarts = 1
INVARIANTS TypeOK SavedWhenQuiet ToldSurvives ActiveKnown
CHECK_DEADLOCK FALSE
