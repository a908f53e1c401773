CONSTANTS
  Keys = {k1, k2}
  MaxVersion = 2
  Deletes = "propagate"
  FolderEdits = FALSE
  MaxFaults = 0
  MaxRenames = 1
SPECIFICATION Spec
SYMMETRY KeySymmetry
INVARIANT NoSaveLost
INVARIANT SavesAreTracked
PROPERTY HubKeepsSynced
