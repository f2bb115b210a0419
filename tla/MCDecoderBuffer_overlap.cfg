SPECIFICATION Spec
CONSTANTS
  InitCap = 3
  StreamLen = 8
  CopyOrders <- AnyCopies
INVARIANT BytesIntact
