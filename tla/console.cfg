SPECIFICATION Spec
CONSTANTS
  ArmedCap = 11
  LinesMax = 2
INVARIANTS TypeOK WarningTrue
PROPERTIES CloseTwice InstallReported
