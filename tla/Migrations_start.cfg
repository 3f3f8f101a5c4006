SPECIFICATION FairSpec
CONSTANTS
  None = None
  Starters = {s1, s2}
  Contents = {"one", "two", "three", "edited", "broken"}
  Broken = {"broken"}
  Releases <- MCReleases
  Rerunnable = {3}
  MaxFaults = 2
  MaxDeploys = 2
INVARIANTS SchemaIsRecorded ServesItsSchema
PROPERTIES ComesUp
CHECK_DEADLOCK FALSE
