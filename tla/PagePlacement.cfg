SPECIFICATION Spec
CONSTANTS
  Segments = {"s1", "s2"}
  PageCounts = {1, 2, 3, 4, 7, 10, 13, 16, 31, 57, 101}
  PagesPerInt = 60
  MoveFaults = TRUE
INVARIANTS
  TypeOK
  SharesFollowWeights
  LastPageOnly
  FullMeansAll
PROPERTIES
  RemoteGrows
  PlacementSpec
