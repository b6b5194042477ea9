SPECIFICATION FairSpec
CONSTANTS
  MAX_FAILURES = 1
INVARIANTS
  RecordHolds
  OnlyAskedIsCancelled
PROPERTIES
  ResultStays
  FlowsEnd
  FollowsStatus
CHECK_DEADLOCK FALSE
