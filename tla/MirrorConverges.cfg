CONSTANTS
  Keys = {k1}
  MaxVersion = 2
  Deletes = "propagate"
  FolderEdits = FALSE
  MaxFaults = 1
  MaxRenames = 0
SPECIFICATION FairSpec
INVARIANT KnownVersions
PROPERTY Converges
