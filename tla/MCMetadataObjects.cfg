SPECIFICATION ObjectsFairSpec
CHECK_DEADLOCK FALSE
CONSTANTS
  m1 = m1
  m2 = m2
  a1 = a1
  v1 = v1
  v2 = v2
  MaxTs = 15
  InitCap = 2
  CopyOrders <- ForwardCopies
  Units <- DamagedStream
  Start <- StartOf
  Index <- IndexOf
  Time <- TimeOf
  RefTs = 1
  Queries <- OneQuery
  NoQuery = NoQuery
  ClientResumes = TRUE
  MaxLogEvents = 2
INVARIANTS
  IndexIsPosition
  DeliveredInOrder
  ObjectsAlive
  OnlyTheseLeak
PROPERTIES
  CallsProgress
  EveryCallReturns
