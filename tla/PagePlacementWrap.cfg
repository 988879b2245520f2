SPECIFICATION Spec
CONSTANTS
  Segments = {"s1"}
  PageCounts = {15}
  PagesPerInt = 10
  MoveFaults = FALSE
INVARIANT
  WeightedInterleave
