CONSTANTS
  e1 = e1
  e2 = e2
  s1 = s1
  s2 = s2
  all = all
  texts = texts
  other = other
  Entities = {e1}
  SourceOrder <- OneSource
  EntityOf <- FirstEntity
  Dirs = {all, texts}
  SourceOf <- DirsOfFirst
  Wanted <- WantedOfFirst
  Bodies = {"text", "document", "bare"}
  Reactions = {"none", "like"}
  Edits <- KeepingEdits
  Supported <- Files
  Texts <- TextFiles
  MaxInitial = 1
  MaxUpdates = 2

SPECIFICATION Spec

INVARIANT
  OneUpdateAtATime

CHECK_DEADLOCK FALSE
