SPECIFICATION FairSpec
CONSTANTS
  p = p
  q = q
  Sources <- MCSources
  Setups <- MCSetups
  MaxQoS = 1
  IdSpace = 65536
INVARIANTS InOrder   AckedIsTaken RoutedAsDocumented
PROPERTIES RoutedIsTaken
CHECK_DEADLOCK FALSE
