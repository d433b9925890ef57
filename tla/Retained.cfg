SPECIFICATION FairSpec
CONSTANTS
  Topics <- MCTopics
  Lives <- MCLives
  MaxSets = 3
  MaxTime = 3
  NoRetain = NoRetain
INVARIANTS ExpiryIsCurrent IndexMatchesTrie NothingLost NeverLate
PROPERTIES ExpiryNeverPanics ImplementsBook Expires
CHECK_DEADLOCK FALSE
