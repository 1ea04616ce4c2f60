SPECIFICATION FairSpec
CONSTANTS
  Rules <- MCRules
  Broken <- MCBroken
  CoarseClock = FALSE
  Profiles = {"home", "lockdown"}
  DenyProfiles = {"lockdown"}
  Contents <- MCContents
  DefaultDeny = DefaultDeny
  Torn = Torn
  Missing = Missing
  NoSave = NoSave
  MaxStamp = 3
  MaxFailures = 0
PROPERTIES PolicyEnforced
CHECK_DEADLOCK FALSE
