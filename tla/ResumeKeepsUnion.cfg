CONSTANTS
  Keys = {k1, k2}
  MaxVersion = 2
  Deletes = "propagate"
  FolderEdits = FALSE
  MaxFaults = 0
  MaxRenames = 1
  Synced = {k1}
  MaxActs = 2
SPECIFICATION ProtectedSpec
PROPERTY ResumeKeepsUnion
