SPECIFICATION FairSpec
CONSTANTS
  Inos = {1, 2, 3, 4, 5, 6, 7, 8}
  Root = 1
  Docs = {1, 2, 3}
  Bases = {"a", "b"}
  Contexts = {"a"}
  DeferRemovals = TRUE
  MaxEvents = 2
  MaxRetries = 1
  MaxVal = 1
  MaxOpen = 1
INVARIANTS TypeOK TreeConsistent SavesAreStored
PROPERTIES RefreshKeepsCurrent ViewConverges EventuallySubscribed
