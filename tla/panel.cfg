SPECIFICATION Spec
CONSTANTS
  Polls = {p1, p2}
  Calls = {c1}
  RevMax = 1
INVARIANTS TypeOK ButtonHeld
PROPERTIES BusyEnds ViewCurrent StaleTabLeaves
