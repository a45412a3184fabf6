\* Two registrations, judged by what the decision record says of versions.
CONSTANTS
  Calls = {c1, c2}
  Versions = {1, 2}
  Contents = {x, y}
  Upgrades <- NewerVersions
  None = None
  MaxFaults = 0
SPECIFICATION Spec
PROPERTIES
  VersionsImmutable
CHECK_DEADLOCK FALSE
