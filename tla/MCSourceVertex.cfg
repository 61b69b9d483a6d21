CONSTANTS
  MinTime <- FourBitMin
  MaxTime = 7
  MaxCount = 8
  MaxParallelism = 4
  MaxInterval = 3
  MaxCrashes = 2
CHECK_DEADLOCK FALSE
SPECIFICATION Spec
INVARIANTS
  TypeOK
  EachRecordOnce
  SameBarriers
  OneCutPerID
