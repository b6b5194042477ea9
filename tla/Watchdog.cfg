SPECIFICATION WFairSpec
CONSTANTS
  DEADLINE = 4
  BOOT_GRACE = 2
  RETRIEVE_GRACE = 3
  LEASE_TTL = 2
  SNAPSHOT_LEAD = 2
  SNAPSHOT_WAIT = 2
  SnapshotAt = 5
  CapAt = 6
  Horizon = 5
  MaxTime = 9
INVARIANTS
  SnapshotFirst
  SnapshotKept
PROPERTIES
  Released
CHECK_DEADLOCK FALSE
