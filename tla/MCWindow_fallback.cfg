CONSTANTS
  MinTime <- FourBitMin
  MaxTime = 7
  Keys = {1}
  Size = 2
  Slide = 2
  AllowedLateness = 0
  WatermarkInterval = 1
  MaxOutOfOrderness = 0
  BarrierInterval = 1
  MaxCrashes = 1
  MaxLen = 4
  EventTimes <- AroundZero
  Records <- KeyAndTime
  Inputs <- AnyInput
SPECIFICATION Spec
INVARIANTS
  RecoveredLikeClean
