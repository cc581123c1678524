CONSTANTS
  Black = black
  red = red
  Colors <- TwoColors
  Garbage = black
  s1 = s1
  s2 = s2
  SurfaceIds <- OneSurface
  CacheSlots = {}
  Sizes <- OnePixel
  Rects <- NoSet
  RectLists <- Whole
  PointLists <- NoSet
  Origins <- SpreadOrigins
  Desktops <- OneByOne
  Regions <- NoSet
  TileSize = 1
  MaxFrames = 2
  Window <- TallWindow
  MaxPdus = 2
SPECIFICATION PixelSpec
INVARIANT SupersedingLosesNothing
CHECK_DEADLOCK FALSE
