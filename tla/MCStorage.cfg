CONSTANTS
  p = p
  q = q
  None = None
  AllSubtasks = {p, q}
  Jobs <- OneOrBoth
  MaxID = 2
  MaxRuns = 2
SPECIFICATION Spec
INVARIANTS
  TypeOK
  MarkerVouches
  AnnouncedSurvivesIfOrdered
PROPERTY
  CompleteIsFinal
CHECK_DEADLOCK FALSE
