SPECIFICATION Spec
CONSTANTS
  Names = {a, b}
  Texts = {t, u, v}
  Wanted = 2
  Target = 2
  Batch = 2
  Patience = 1
  Concurrency = 2
  None = none
  MaxEdits = 1
  MaxStops = 1
SYMMETRY Interchangeable
INVARIANTS
  FilesHold
  AskedOnce
PROPERTIES
  NeverRegenerated
  StageAdds
  KeptFinished
  StageEnds
