CONSTANTS
  TYPES = 2
  MAX_AMBIGUOUS = 2
  MAX_CALLS = 2
SPECIFICATION Spec
INVARIANTS
  NoSecondPod
  DeletedIsGone
  StaysNamed
  RmComplete
PROPERTIES
  RmKeepsTraining
  ImplementsAccount
