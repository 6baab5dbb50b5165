SPECIFICATION FairRecSpec
CONSTANTS
  w1 = w1
  w2 = w2
  Torn = Torn
  Producers = {w1, w2}
  Capacity = 2
  MaxCalls = 4
  Batch = 2
  MaxFaults = 2
INVARIANTS NeverOverrun NothingLost PublishedComplete
PROPERTIES ImplementsQueue DropReturns
CHECK_DEADLOCK FALSE
