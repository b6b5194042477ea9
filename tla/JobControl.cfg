SPECIFICATION Spec
CONSTANTS
  Cancels = {c1, c2}
  Readers = {r1}
INVARIANTS
  ReadsAreTrue
  FinishedKeepsItsResult
PROPERTIES
  ImplementsStatus
