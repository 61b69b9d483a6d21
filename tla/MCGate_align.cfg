CONSTANTS
  NumInputs = 2
  MinTime = 0
  MaxTime = 3
  RestoredID = 0
  MaxLen = 4
  Watermarks = {1, 3}
  MaxBarriers = 3
  MaxRecords = 4
  MaxEOS = 2
  Streams <- MCMixedStreams
SPECIFICATION Spec
INVARIANTS
  TypeOK
  PerInputOrder
  ConsistentCut
  NothingLeftBehind
  NoRecordMadeLate
  OutputContract
PROPERTIES
  ImplementsAlignedMerge
