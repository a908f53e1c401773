CONSTANTS
  Keys = {k1}
  MaxVersion = 3
  Deletes = "propagate"
  FolderEdits = FALSE
  MaxFaults = 0
  MaxRenames = 0
SPECIFICATION Spec
PROPERTY PullsKeepSaves
