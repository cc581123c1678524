CONSTANTS
  Edge = 8
  Quants <- ThreeQuants
  Progs <- TwoProgs
  Headers <- FewHeaders
  Pictures <- TwoPictures
  NoTile = nothing
  MaxPasses = 3
SPECIFICATION Spec
INVARIANTS TileTypeOK TileHoldsWhatWasSent LastBitShowsThePicture
CHECK_DEADLOCK FALSE
