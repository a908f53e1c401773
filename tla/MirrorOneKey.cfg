CONSTANTS
  Keys = {k1}
  MaxVersion = 3
  Deletes = "propagate"
  FolderEdits = TRUE
  MaxFaults = 1
  MaxRenames = 0
SPECIFICATION Spec
INVARIANT TypeOK
INVARIANT NoSaveLost
INVARIANT SavesAreTracked
INVARIANT TrashOnlyRemoved
PROPERTY NoBlindOverwrite
