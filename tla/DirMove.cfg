CONSTANTS
  Dirs = {a, b, c}
  Home = a
  MaxMoves = 2
  MaxSaves = 1
  MaxRemovals = 2
  MaxFaults = 1
SPECIFICATION FairSpec
CHECK_DEADLOCK FALSE
INVARIANTS TypeOK LedgerMatchesFolder SyncedIsCarried QueueEmptyMeansSame
PROPERTIES MovesAreRelayed Drains
