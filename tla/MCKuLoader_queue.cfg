CONSTANTS
  p1 = p1
  p2 = p2
  p3 = p3
  Paths = {p1, p2, p3}
  Broken = {p3}
  full = full
  FullSize = full
  Sizes = {full}
  Rotations = {0}
  Written = {}
  Given <- GoodBitmaps
  LoadCache = 2
  MaxQueue = 2
  MaxEvents = 1
  NoBmp = NoBmp
  NoEntry = NoEntry
  NoTicket = NoTicket
  NoCall = NoCall
SYMMETRY Symmetry
SPECIFICATION Spec
INVARIANTS
  CacheInHash
  NoDuplicates
  PriorFirst
  Conservation
  ExitAfterLoader
