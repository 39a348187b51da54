SPECIFICATION Spec
CONSTANTS
  r1 = r1
  r2 = r2
  t1 = t1
  t2 = t2
  t3 = t3
  Routes <- MCRoutes
  Tables <- MCTables
  NumChunks = 1
  MaxExpiries = 1
  MaxCrashes = 1
  IoErrors = FALSE
  None = None
SYMMETRY MCSymmetry
INVARIANTS
  EnteredTablesPersist
CHECK_DEADLOCK FALSE
