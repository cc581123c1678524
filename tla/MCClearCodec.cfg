CONSTANTS
  SeqModulus = 2
  GlyphIds = {1}
  VBarSize = 2
  ShortVBarSize = 2
  MaxVBarHeight = 2
  NoSeq = nothing
  NoGlyph = nothing
  Headers <- SmallHeaders
  ShortVBars <- SmallShortVBars
  Offsets = {1}
  Residuals <- ResidualRuns
  Bands <- SmallBands
  Subcodecs <- SmallSubcodecs
  OldServers <- OldServer
  MaxMessages = 3
  MaxColumns = 2
SPECIFICATION Spec
INVARIANTS CachesInStep PaintsWhatWasSent TakenUnlessMissed
PROPERTY MissesAreNotFatal
CHECK_DEADLOCK FALSE
