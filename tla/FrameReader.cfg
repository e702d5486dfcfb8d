SPECIFICATION Spec
CONSTANTS
  MaxJson = 4
  MaxBinary = 4
  MetaLimit = 3
CHECK_DEADLOCK FALSE
INVARIANTS
  WholeIsRead
  OnlyWholeIsActedOn
