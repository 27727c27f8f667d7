CONSTANTS
  None = None
  Error = Error
  ByteCounts <- MCByteCounts
  Dates = {}
  Configs <- MCConfigs
  Bodies <- MCBodies
  Edits <- MCEdits
  Entities = {"s1", "s2"}
  MaxInitial = 1
  MaxUpdates <- MCMaxUpdates

SPECIFICATION Spec

INVARIANTS
  TypeOK
  SourceByTheRules
  FiltersAddUp
  MountsUnlessAmiss
  DirsShowWhatPasses

CHECK_DEADLOCK FALSE
