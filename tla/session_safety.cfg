SPECIFICATION Spec
CONSTANTS
  a = a  b = b  r1 = r1  r2 = r2  k1 = k1  k2 = k2  c1 = c1  c2 = c2
  Ids = {a}
  Slots = {1, 2}
  Rooms = {r1}
  Keys = {k1}
  Clients = {c1, c2}
  Monitor = Monitor  Main = Main  None = None  Stray = Stray
  SpawnResults = {"spawned", "failed"}
SYMMETRY ClientSymmetry
INVARIANTS TypeOK OneTunnel NoStalePidFile SavedState
PROPERTIES KeepsTunnels
