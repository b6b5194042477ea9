SPECIFICATION Spec
CONSTANTS
  DEADLINE = 1
  BOOT_GRACE = 1
  RETRIEVE_GRACE = 2
  LEASE_TTL = 2
  SNAPSHOT_LEAD = 1
  SNAPSHOT_WAIT = 2
  SnapshotAt = 2
  CapAt = 3
  Horizon = 4
  MaxTime = 5
  HasCap = TRUE
  LEASE_RENEW = 1
  STALL = 2
  DEADLINE_MARGIN = 1
INVARIANTS
  RetrievedMeansCollected
  CapArmedBeforeJob
  KeptIsLeft
PROPERTIES
  DeadlineRespectsHolder
CHECK_DEADLOCK FALSE
