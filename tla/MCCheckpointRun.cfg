CONSTANTS
  Subtasks = {a, b, o, s}
  Sources = {a, b}
  Sinks = {s}
  MaxID = 2
  IDs = {1, 2}
  Payloads = {0, 1, 2}
  NoFile = NoFile
CHECK_DEADLOCK FALSE
SPECIFICATION Spec
INVARIANTS
  TypeOK
  MarkerVouches
  NeverRefused
  NoneLeftReady
  NoLostWakeup
PROPERTIES
  TerminalIsFinal
