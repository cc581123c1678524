CONSTANTS
  Black = black
  red = red
  Colors <- TwoColors
  Garbage = black
  s1 = s1
  s2 = s2
  SurfaceIds <- OneSurface
  CacheSlots = {}
  Sizes <- OnePixel
  Rects <- NoSet
  RectLists <- Whole
  PointLists <- NoSet
  Origins <- LeftOrigin
  Desktops <- OneByOne
  Regions <- NoSet
  TileSize = 1
  MaxFrames = 3
  Window <- SmallWindow
  MaxPdus = 2
SPECIFICATION PresentationSpec
INVARIANTS LatestWins ActionsAreLatestFrames PresentationTypeOK AcknowledgedInOrder StopsAfterClose
PROPERTY RelaySpec
CHECK_DEADLOCK FALSE
