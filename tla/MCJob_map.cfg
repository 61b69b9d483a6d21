CONSTANTS
  a = a
  b = b
  j = j
  m = m
  s1 = s1
  s2 = s2
  NoFile = NoFile
  Payloads = {}
  Subtasks = {a, b, m, j, s1}
  Sources = {a, b}
  Sinks = {s1}
  IDs = {1, 2}
  Up <- MapUp
  Dest <- MapDest
  Count <- OneAndTwo
  Floor <- OneAndTwo
  Records <- OneAndTwoRecords
  Interval <- One
  MaxFailures = 0
  MaxLostNotifications = 0
CHECK_DEADLOCK FALSE
SPECIFICATION FairSpec
PROPERTIES
  Termination
