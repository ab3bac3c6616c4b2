CONSTANTS
  p1 = p1
  Paths = {p1}
  Broken = {}
  full = full
  view = view
  FullSize = full
  Sizes = {full, view}
  Rotations = {0}
  Written <- TurnedPictures
  Given <- AnyKind
  LoadCache = 1
  MaxQueue = 1
  MaxEvents = 1
  NoBmp = NoBmp
  NoEntry = NoEntry
  NoTicket = NoTicket
  NoCall = NoCall
SPECIFICATION FairSpec
INVARIANTS
  TypeOK
PROPERTIES
  NoPreviewCached
  ShutdownCompletes
  CallReturns
  UpdateEnds
