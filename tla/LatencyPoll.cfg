SPECIFICATION Spec
CONSTANTS
  Slacks <- MCSlacks
  MaxSamples = 2
INVARIANTS
  TypeOK
  CountsExact
  LinesBackCounts
PROPERTIES
  WholeReplyKept
  CollectorSpec
CHECK_DEADLOCK FALSE
