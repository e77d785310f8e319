CONSTANTS
  a = a
  b = b
  None = None
  Nets = {a, b}
  Coppers <- MCCoppers
  Stub = "stub"
  TrackRows = {1, 2, 3, 4}
  ViaRows = {1, 2, 3, 4}
  TrackStamp <- MCTrackStamp
  ViaStamp <- MCViaStamp
  SmallStamp <- MCSmallStamp
  KeepOut <- MCKeepOut
  Ring <- MCRing
  MaxRings = 3
  BaseTrack = {4}
  BaseVia = {4}
  TieRows = {4}
  Modes <- TieModes
SPECIFICATION Spec
INVARIANTS
  CorridorOpens
