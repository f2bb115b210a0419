CONSTANTS
  Threads = {t1, t2}
  Objects = {o1, o2}
  Sources <- SmallSources
  Contents = {c1}
  Timestamps = {near, far}
  Zones <- SmallZones
  Utc = utc
  Representable <- SmallRepresentable
  None = None
  NoObject = NoObject
  NoText = NoText
  Error = Error
  c1 = c1
  utc = utc
  chicago = chicago
  notzinfo = notzinfo
  near = near
  far = far
SPECIFICATION Spec
SYMMETRY Symmetry
INVARIANTS TypeOK OneDefaultText OnePickledState ExplicitZoneHonoured
