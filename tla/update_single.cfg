SPECIFICATION FairSpec
CONSTANTS
  web = web  console = console  i1 = i1  i2 = i2  i3 = i3  i4 = i4
  Appliers = {web}
  Inodes = {i1, i2, i3, i4}
  Depth = 2
  Systems = {"linux", "windows", "darwin"}
  Faults = TRUE
  Original = i1
  None = None
  Running <- Fzp11
  Releases <- Tags
INVARIANTS TypeOK NothingLost VerifiedExe
PROPERTIES KeepsPromise ApplyEnds InstalledStays
