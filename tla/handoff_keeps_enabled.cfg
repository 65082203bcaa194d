SPECIFICATION OnSpec
CONSTANTS
  N = 2
  CoreOf <- Cores
  DiskFails = FALSE
INVARIANT KeepsEnabled
