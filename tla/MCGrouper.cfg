CONSTANTS
  A = A
  B = B
  dirA = dirA
  dirB = dirB
  music = music
  rest = rest
  Contents <- MCContents
  KeysOf <- MCKeysOf
  DirOf <- MCDirOf
  InRoot <- MCInRoot
  Passing <- MCContents
  Parts <- MCParts
  Wanted <- MCWanted
  Edits <- MCEdits
  Wrapped = {0, 1}
  MaxMessages = 3

SPECIFICATION Spec

INVARIANTS
  TypeOK
  TreeAgrees
  GroupsFollowSource
  DirsShowGroups
  EventsTellListing

PROPERTIES
  OthersUndisturbed

CHECK_DEADLOCK FALSE
