CONSTANTS
  MaxTs = 3
  Wildcards = {{m1}}
  AttrNames = {a1}
  AttrValues = {v1}
  PyInts <- SmallInts
  Calls <- SmallCalls
  DefaultMargin = 1
  LogEvents <- PlainLogEvents
  None = None
  NoQuery = NoQuery
  m1 = m1
  m2 = m2
  a1 = a1
  v1 = v1
  v2 = v2
SPECIFICATION Spec
CHECK_DEADLOCK FALSE
INVARIANT InterpreterRuns
