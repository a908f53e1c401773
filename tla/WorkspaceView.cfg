SPECIFICATION FairSpec
CONSTANTS
  Inos = {1, 2, 3, 4, 5, 6, 7, 8, 9, 10, 11, 12, 13, 14, 15, 16}
  Root = 1
  Trash = 2
  Docs = {1, 2}
  Bases = {"directory", "context", "x", "y", "f", "g"}
  Places <- MCPlaces
  DefaultTree = "directory"
  ContextTrees = {"context"}
  MaxEvents = 2
  MaxOthers = 1
  MaxVal = 1
  MaxOpen = 1
INVARIANTS TypeOK PathsIndexed
PROPERTIES MovesKeepDocuments WorkspaceConverges
