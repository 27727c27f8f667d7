CONSTANTS
  e1 = e1
  e2 = e2
  s1 = s1
  s2 = s2
  all = all
  texts = texts
  other = other
  Entities = {e1, e2}
  SourceOrder <- TwoSources
  EntityOf <- TwoEntities
  Dirs = {all, texts, other}
  SourceOf <- DirsOfThree
  Wanted <- WantedOfThree
  Bodies = {"text", "document"}
  Reactions = {"none"}
  Edits <- KeepingEdits
  Supported <- Files
  Texts <- TextFiles
  MaxInitial = 1
  MaxUpdates = 2

SPECIFICATION FairSpec

INVARIANTS
  ConnectedSourcesFollow

PROPERTIES
  Settles

CHECK_DEADLOCK FALSE
