CONSTANTS
  Bytes <- AllBytes
  Zero = 0
  HistorySize = 3
  Distances = {}
  Counts = {}
  MaxText = 8
  Messages <- SomeMessages
  MaxMessages = 2
SPECIFICATION StreamSpec
INVARIANTS TypeOK HistoryIsRecentText NeverReadsUnwritten TokensAsEncoded
PROPERTY TextSpec
CHECK_DEADLOCK FALSE
