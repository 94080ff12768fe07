SPECIFICATION MCSpec
CONSTANTS
  t1 = t1
  t2 = t2
  m1 = m1
  m2 = m2
  da = da
  db = db
  dc = dc
  x = x
  y = y
  z = z
  NoFile = NoFile
  None = None
  Builds = {m1, m2}
  Dlls = {da, db, dc}
  Shas = {x, y, z}
  ShaIn <- MCShaIn
  Native = {z}
  Entities <- MCEntities
  Asked <- MCAsked
  OnDisk <- MCOnDisk
  Tasks = {t1, t2}
  MaxFailures = 1
  MaxCrashes = 1
SYMMETRY TasksAlike
INVARIANTS DoneAfterLinks DecompileRight
CHECK_DEADLOCK FALSE
