CONSTANTS
  gfx = gfx
  disp = disp
  c1 = c1
  c2 = c2
  Gfx = gfx
  OtherNames <- OtherName
  Ids <- TwoIds
  NoId = none
  PendingLimit = 0
  MaxWire = 1
  MaxMessages = 2
  MaxOffers = 2
  MaxStray = 2
  MaxNoise = 1
SPECIFICATION FairSpec
INVARIANT IoAccountedFor
PROPERTIES
  OffersAnswered PendingBounded GraphicsPiped EveryOfferAnswered
  FinalizationEnds
CHECK_DEADLOCK FALSE
