SPECIFICATION ReaderSpec
CONSTANTS
  m1 = m1
  m2 = m2
  a1 = a1
  v1 = v1
  v2 = v2
  MaxTs = 15
  InitCap = 2
  CopyOrders <- ForwardCopies
  Units <- CompleteStream
  Start <- StartOf
  Index <- IndexOf
  Time <- TimeOf
  RefTs = 1
  Queries <- SmallQueries
  NoQuery = NoQuery
  Nobody = Nobody
  ClientResumes = TRUE
  ResumesAfterSearch = FALSE
INVARIANTS
  TypeOK
  TimestampsExact
  MemoryBounded
PROPERTIES
  ImplementsLogEventStream
CHECK_DEADLOCK FALSE
