CONSTANTS
  MinTime <- FourBitMin
  MaxTime = 7
  Keys = {1, 2}
  Size = 2
  Slide = 1
  AllowedLateness = 1
  WatermarkInterval = 1
  MaxOutOfOrderness = 0
  BarrierInterval = 2
  MaxCrashes = 1
  PersonsPerCycle = 1
  AuctionsPerCycle = 0
  BidsPerCycle = 2
  BaseEventTime <- Base
  EventTimeStep = 1
  MaxLag = 4
  First = 1
  Count = 4
  Lags = {3, 4}
  Records <- NexmarkRecords
  Inputs <- NexmarkInputs
SPECIFICATION NexmarkSpec
INVARIANTS
  StageTwoKeepsUp
  HotItemsAgree
  WinnersAgree
