CONSTANTS
  d1 = d1
  d2 = d2
  Docs <- MCDocs
  Size <- MCSize
  Tasks = {t1, t2}
  Ranges <- MCRanges
  BlockSize = 2
  Capacity = 5
  MaxReads = 4

SPECIFICATION FairSpec

INVARIANTS
  TypeOK
  CountsMatchStorage
  CapacityBound
  StoredBlocksGenuine

PROPERTIES
  ReadsLikeUncached
  OneBlockPerDiscard
  ReadsEnd

CHECK_DEADLOCK FALSE
