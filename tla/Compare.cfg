SPECIFICATION MCSpec
CONSTANTS
  Example <- MCExample
  topic <- MCtopic
  subtopic <- MCsubtopic
  hash <- MChash
  hash_id <- MChash_id
  Ratio <- MCRatio
  MaxChanges = 2
  Setting <- MCSetting
  line <- MCline
  MaxExports = 2
  MaxQuestions = 2
INVARIANTS
  SplitIsWhole
  EvalIsFair
  JudgedOnce
  ReportIsWhole
PROPERTIES
  HeldOut
  ServedAsRecorded
CHECK_DEADLOCK FALSE
