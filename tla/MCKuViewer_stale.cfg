CONSTANTS
  p1 = p1
  p2 = p2
  Paths = {p1, p2}
  Broken = {}
  full = full
  view = view
  FullSize = full
  View = view
  Sizes = {full, view}
  Rotations <- AllRotations
  Written <- AllPictures
  Given <- AnyBitmap
  LoadCache = 1
  MaxQueue = 6
  MaxEvents = 6
  NoBmp = NoBmp
  NoEntry = NoEntry
  NoTicket = NoTicket
  NoCall = NoCall
  NoPath = NoPath
  Siblings <- Each
  Jpeg = {p1, p2}
  Lossless = {p1}
  Commands = {"select", "cw", "ccw"}
  MaxOps = 3
SPECIFICATION Spec
PROPERTY
  ShowsDisk
