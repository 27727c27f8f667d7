CONSTANTS
  Bodies <- MCBodies
  ZipNames = {"a.zip"}
  Archives <- MCArchives
  Excluded = {"__MACOSX"}
  Wanted <- MCWanted
  Edits <- LikedOnly
  Modes = {"producer"}
  MaxInitial = 1
  MaxMessages = 2
  MaxUpdates = 1

SPECIFICATION Spec

INVARIANTS
  EditedZipsAreFolders

CHECK_DEADLOCK FALSE
