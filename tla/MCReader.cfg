SPECIFICATION ReaderFairSpec
CONSTANTS
  m1 = m1
  m2 = m2
  a1 = a1
  v1 = v1
  v2 = v2
  MaxTs = 15
  InitCap = 1
  CopyOrders <- ForwardCopies
  Units <- OrderedStream
  Start <- StartOf
  Index <- IndexOf
  Time <- TimeOf
  RefTs = 1
  Queries <- TwoSearches
  NoQuery = NoQuery
  Nobody = Nobody
  ClientResumes = TRUE
  ResumesAfterSearch = TRUE
INVARIANTS
  DeliveriesMatch
  PreambleReadOnce
  SearchReadsAll
PROPERTIES
  TailReaderCatchesUp
  SearchEnds
