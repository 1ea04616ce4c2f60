SPECIFICATION FairSpec
CONSTANTS
  Rules <- MCRules
  Broken <- MCBroken
  CoarseClock = FALSE
  Profiles = {"home", "lockdown"}
  DenyProfiles = {"lockdown"}
  Contents <- MCContents
  DefaultDeny = DefaultDeny
  Torn = Torn
  Missing = Missing
  NoSave = NoSave
  MaxStamp = 5
  MaxFailures = 1
INVARIANTS TypeOK OneState DenyKeepsAllowed
PROPERTIES PolicyCatchesUp CutOffEnds
