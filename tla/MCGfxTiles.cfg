CONSTANTS
  Black = black
  red = red
  nothing = nothing
  Colors <- TwoColors
  NoColor = nothing
  Garbage = black
  s1 = s1
  s2 = s2
  SurfaceIds <- TwoSurfaces
  CacheSlots = {}
  Sizes <- TileSizes
  Rects <- TileRects
  RectLists <- NoSet
  PointLists <- NoSet
  Origins <- OneOrigin
  Desktops <- OneDesktop
  Regions <- RedRegions
  TileSize = 1
  MaxFrames = 1
SPECIFICATION PromiseSpec
INVARIANTS AppliedOrAccountedFor BaselinesCurrent MappedOnce
SYMMETRY SurfaceSymmetry
CHECK_DEADLOCK FALSE
