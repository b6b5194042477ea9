SPECIFICATION MCSpec
CONSTANTS
    Runs = {r1}
    Ids <- MCIds
    Others = {"compare"}
    STAGES = 1
    None = None
PROPERTIES
  DetachedOnceStarted
CHECK_DEADLOCK FALSE
