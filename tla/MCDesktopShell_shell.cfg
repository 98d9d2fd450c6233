SPECIFICATION Spec
CONSTANTS
  l1 = l1
  l2 = l2
  NoOne = NoOne
  Launches <- MCLaunches
  Ids <- MCIds
  Limits <- MCLimits
INVARIANTS LaunchesAreExclusive CallsAreKept UnlockIsConfirmed
PROPERTIES NoOrphan
CHECK_DEADLOCK FALSE
