CONSTANTS
  Top = Top
  Dirs = {d1}
  a = a
  b = b
  message = message
  Names <- TwoNames
  MessageOf <- TwoOfOne
  Versions = {v1, v2}
  Mistaken = {b}
  MaxChanges = 4
  MaxHandles = 0

SPECIFICATION Spec

SYMMETRY Symmetry

INVARIANTS
  TypeOK
  InodesConnected
  WalkFindsTree
  ListsTree

PROPERTIES
  GoneOnlyFromTree

CHECK_DEADLOCK FALSE
