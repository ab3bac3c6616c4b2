CONSTANTS
  p1 = p1
  p2 = p2
  Paths = {p1, p2}
  Broken = {}
  full = full
  FullSize = full
  Sizes = {full}
  Rotations = {0}
  Written = {}
  Given <- GoodBitmaps
  LoadCache = 1
  MaxQueue = 1
  MaxEvents = 1
  NoBmp = NoBmp
  NoEntry = NoEntry
  NoTicket = NoTicket
  NoCall = NoCall
SPECIFICATION Spec
INVARIANT
  PopsATicket
