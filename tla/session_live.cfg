SPECIFICATION FairSpec
CONSTANTS
  a = a  b = b  r1 = r1  r2 = r2  k1 = k1  k2 = k2  c1 = c1  c2 = c2
  Ids = {a}
  Slots = {1}
  Rooms = {r1}
  Keys = {k1}
  Clients = {c1}
  Monitor = Monitor  Main = Main  None = None  Stray = Stray
  SpawnResults = {"spawned"}
PROPERTIES StopsEnd ShutdownEnds Revived LimitEnforced CleanShutdown
