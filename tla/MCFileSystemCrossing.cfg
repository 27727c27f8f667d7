CONSTANTS
  Top = Top
  Dirs = {d1}
  a = a
  b = b
  message = message
  Names <- OneName
  MessageOf <- OneMessage
  Versions = {v1, v2}
  Mistaken = {a}
  MaxChanges = 2
  MaxHandles = 0

SPECIFICATION Spec

SYMMETRY Symmetry

INVARIANTS
  ListsTreeAlways

CHECK_DEADLOCK FALSE
