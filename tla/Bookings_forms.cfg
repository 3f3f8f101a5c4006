SPECIFICATION Spec
CONSTANTS
  b1 = b1
  b2 = b2
  p1 = p1
  p2 = p2
  p3 = p3
  g1 = g1
  g2 = g2
  Browsers = {b1, b2}
  Panels = {p1, p2, p3}
  Targets = {g1}
  Calls = {c1, c2, c3}
  None = None
  BrowserOf <- FormsIn
  TargetOf <- FormsFor
  AllowPlans = TRUE
  MaxFailures = 1
SYMMETRY Symmetry
CHECK_DEADLOCK FALSE
INVARIANTS OneOpenPerTarget RecordedIsListed SavedIsOnRecord
PROPERTIES RefusedOnlyWhileOpen OnlyItsSessionCloses
