CONSTANTS
  gfx = gfx
  disp = disp
  c1 = c1
  c2 = c2
  Gfx = gfx
  OtherNames <- OtherName
  Ids <- TwoIds
  NoId = none
  PendingLimit = 1
  MaxWire = 2
  MaxMessages = 1
  MaxOffers = 2
  MaxStray = 3
  MaxNoise = 1
SPECIFICATION Spec
INVARIANT GraphicsNotDeclined
CHECK_DEADLOCK FALSE
