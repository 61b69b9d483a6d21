CONSTANTS
  a = a
  b = b
  j = j
  m = m
  s1 = s1
  s2 = s2
  NoFile = NoFile
  Payloads = {}
  Subtasks = {a, j, s1, s2}
  Sources = {a}
  Sinks = {s1, s2}
  IDs = {1, 2}
  Up <- ChainUp
  Dest <- ChainDest
  Count <- TwoAlone
  Floor <- TwoAlone
  Records <- TwoAloneRecords
  Interval <- One
  MaxFailures = 2
  MaxLostNotifications = 1
SPECIFICATION Spec
INVARIANTS
  CommittedIsCovered
  NoDuplicates
  NothingMissing
  NoDrift
