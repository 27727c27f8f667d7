CONSTANTS
  doc = doc
  Docs = {doc}
  Size <- MCSize
  Tasks = {t1, t2}
  Ranges <- MCRanges
  Align = 2
  RequestSize = 4
  MaxExpiries = 2

SPECIFICATION FairSpec

INVARIANTS
  TypeOK
  RetryIsFresh

PROPERTIES
  ReadsExact
  ReadsEnd

CHECK_DEADLOCK FALSE
