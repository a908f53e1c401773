CONSTANTS
  Keys = {k1, k2}
  MaxVersion = 2
  Deletes = "propagate"
  FolderEdits = FALSE
  MaxFaults = 1
  MaxRenames = 1
  Synced = {k1}
  MaxActs = 2
SPECIFICATION ProtectedSpec
INVARIANT ProtectedTypeOK
INVARIANT NoSaveLost
INVARIANT SavesAreTracked
INVARIANT UnionReached
PROPERTY FolderHeld
PROPERTY HubHeld
INVARIANT NothingElseTrashed
PROPERTY UnionSurvives
