CONSTANTS
  Declarations <- MCDeclarations
  MaxParallelism = 256
  MaxEdges = 4
  MaxChannels = 3
  MinTime = 0
  MaxTime = 1
  Capacity = 1
  Hashes = {1}
  Emission <- MCEmission
SPECIFICATION FairSpec
INVARIANTS
  TypeOK
  OrderIsExecutable
  NilMeansDelivered
PROPERTIES
  RunReturns
CHECK_DEADLOCK FALSE
