SPECIFICATION FairSpec
CONSTANTS
  Paths = {"demo"}
  Ids = {"id"}
  Profiles = {"home", "work"}
  Ports = {53, 443}
  AnyPort = 0
  Width = 2
  Nobody = Nobody
  Forms <- SomeForms
  Imports <- SomeImports
  Connections <- SomeConnections
  Tried <- SomeTried
  Observers = {"consumer"}
  Handles = {1, 2, 3, 4, 5, 6}
  MaxCommands = 2
  MaxFailures = 1
INVARIANTS TypeOK LookupIsBest BlocksWhole BlocksExact FiltersKnown ServiceAgrees
PROPERTIES RuleTakesEffect
CHECK_DEADLOCK FALSE
