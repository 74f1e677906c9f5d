SPECIFICATION FairSpec
CONSTANTS
  t1 = t1
  t2 = t2
  k1 = k1
  k2 = k2
  k3 = k3
  v1 = v1
  v2 = v2
  NoValue = NoValue
  Shared = Shared
  Threads = {t1, t2}
  Keys = {k1}
  Values = {v1, v2}
  CleanValues = {v2}
  Size <- SizeZero
  PrevRow <- PrevRowOne
  Owner <- OwnerOne
  Scheduling = "any"
  EnableTraverse = TRUE
  Batches = {}
  CapMod = 1
  MaxSaves = 1
  MaxLog = 1
INVARIANTS
  TypeOK
  CleanRowsMatchPrev
PROPERTIES
  TraverseProceeds
