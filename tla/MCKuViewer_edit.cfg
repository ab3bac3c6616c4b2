CONSTANTS
  p1 = p1
  p2 = p2
  Paths = {p1, p2}
  Broken = {}
  full = full
  view = view
  FullSize = full
  View = view
  Sizes = {full, view}
  Rotations <- AllRotations
  Written <- AllPictures
  Given <- AnyBitmap
  LoadCache = 1
  MaxQueue = 6
  MaxEvents = 6
  NoBmp = NoBmp
  NoEntry = NoEntry
  NoTicket = NoTicket
  NoCall = NoCall
  NoPath = NoPath
  Siblings <- NoSiblings
  Jpeg = {p1, p2}
  Lossless = {p1}
  Commands = {"select", "selectdir", "reload", "cw", "save", "saveas"}
  MaxOps = 5
SPECIFICATION Spec
INVARIANTS
  EditedIsComplete
  SavesWhatIsShown
