CONSTANTS
  Black = black
  red = red
  nothing = nothing
  Colors <- TwoColors
  NoColor = nothing
  Garbage = black
  s1 = s1
  s2 = s2
  SurfaceIds <- TwoSurfaces
  CacheSlots = {1}
  Sizes <- CopySizes
  Rects <- CopyRects
  RectLists <- CopyRectLists
  PointLists <- CopyPoints
  Origins <- NoSet
  Desktops <- OneDesktop
  Regions <- NoSet
  TileSize = 1
  MaxFrames = 0
SPECIFICATION PromiseSpec
INVARIANTS TypeOK AppliedOrAccountedFor
SYMMETRY SurfaceSymmetry
CHECK_DEADLOCK FALSE
