CONSTANTS
  MinTime <- FourBitMin
  MaxTime = 7
  Keys = {1}
  Size = 4
  Slide = 2
  AllowedLateness = 1
  WatermarkInterval = 1
  MaxOutOfOrderness = 0
  BarrierInterval = 1
  MaxCrashes = 1
  MaxLen = 4
  EventTimes <- AtTheEnds
  Records <- KeyAndTime
  Inputs <- AnyInput
SPECIFICATION Spec
INVARIANTS
  TypeOK
  TimersHaveState
  NothingUnreported
PROPERTIES
  FiredInTime
