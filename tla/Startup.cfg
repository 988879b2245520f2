SPECIFICATION FairSpec
CONSTANTS
  MaxApps = 2
  ListSize = 3
  Settings <- MCSettings
  Throttles = {10}
INVARIANTS
  TypeOK
  StartUnthrottled
  ConsumedBeforeControl
PROPERTIES
  TenancySpec
  TakesWholeList
