SPECIFICATION FairSpec
CONSTANTS
  N = 2
  CoreOf <- Cores
  DiskFails = TRUE
INVARIANTS TypeOK OwnCore EditsSaved NoOrphan
PROPERTIES SavesAtomically PanelBack
