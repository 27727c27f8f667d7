CONSTANTS
  Bodies <- MCBodies
  ZipNames = {"a.zip"}
  Archives <- MCArchives
  Excluded = {"__MACOSX"}
  Wanted <- MCWanted
  Edits <- MCEdits
  Modes = {"producer", "wrapper"}
  MaxInitial = 1
  MaxMessages = 2
  MaxUpdates = 4

SPECIFICATION Spec

INVARIANTS
  TypeOK
  ZipsAreFolders
  NamesDiffer
  FsShowsListing
  GoneIsGone

CHECK_DEADLOCK FALSE
