SPECIFICATION Spec
CONSTANTS
  InitCap = 0
  StreamLen = 8
  CopyOrders <- ForwardCopies
PROPERTY IncompleteOnlyWhenDrained
