SPECIFICATION MCSpec
CONSTANTS
    Runs = {r1}
    Ids <- MCIds
    Others = {"compare"}
    STAGES = 1
    None = None
INVARIANTS
  OneAtATime
  StartNeverCut
  Accounted
PROPERTIES
  CancelKept
  NothingNew
  GoesOn
CHECK_DEADLOCK FALSE
