CONSTANTS
  p = p
  q = q
  None = None
  AllSubtasks = {p, q}
  Jobs <- OneOrBoth
  MaxID = 2
  MaxRuns = 2
SPECIFICATION Spec
CHECK_DEADLOCK FALSE
INVARIANT AnnouncedSurvives
