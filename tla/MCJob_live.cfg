CONSTANTS
  a = a
  b = b
  j = j
  m = m
  s1 = s1
  s2 = s2
  NoFile = NoFile
  Payloads = {}
  Subtasks = {a, b, j, s1}
  Sources = {a, b}
  Sinks = {s1}
  IDs = {1, 2}
  Up <- JoinUp
  Dest <- JoinDest
  Count <- OneAndTwo
  Floor <- OneAndTwo
  Records <- OneAndTwoRecords
  Interval <- One
  MaxFailures = 1
  MaxLostNotifications = 0
SPECIFICATION FairSpec
INVARIANTS
  TypeOK
  CheckpointsAreCuts
PROPERTIES
  Termination
  ImplementsOutput
