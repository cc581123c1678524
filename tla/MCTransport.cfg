CONSTANTS
  Objects <- SmallObjects
  Bodies <- SmallBodies
  Padding <- NulOrNothing
  MaxInput = 2
  MaxActive = 1
SPECIFICATION FairSpec
INVARIANTS TransportTypeOK InputInOrder
PROPERTIES ReadsWhatWasSent FramingHolds HandshakeEnds InputSent
CHECK_DEADLOCK FALSE
