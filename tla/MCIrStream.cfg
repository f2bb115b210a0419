CONSTANTS
  MaxTs = 2
  DeltaMax = 1
  KnownZones = {utc}
  Zones = {utc, nowhere}
  AndroidNames <- AndroidTable
  ForeignTables <- OneForeignTable
  Messages = {m1}
  AttributeValues = {v1, v2, v3, null}
  LogCalls <- SmallLogCalls
  Queries <- SmallQueries
  NumLogEvents = 2
  None = None
  m1 = m1
  utc = utc
  nowhere = nowhere
  v1 = v1
  v2 = v2
  v3 = v3
  null = null
SPECIFICATION FairSpec
CHECK_DEADLOCK FALSE
INVARIANTS TypeOK ReadsWhatWasLogged SearchAgreesWithMatch PreambleAccepted
PROPERTY EverythingLoggedIsRead
