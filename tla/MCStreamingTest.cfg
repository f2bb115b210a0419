SPECIFICATION TestSpec
CONSTANTS
  InitCap = 3
  StreamLen = 8
  CopyOrders <- ForwardCopies
  MaxRequest = 4
CHECK_DEADLOCK FALSE
INVARIANTS
  TypeOK
  BytesIntact
  ProtocolOnlyWhileReading
  StreamingReturnsStream
PROPERTIES
  CapacityFollowsBacklog
  IncompleteOnlyWhenDrained
  ImplementsByteQueue
