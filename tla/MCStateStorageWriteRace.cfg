SPECIFICATION Spec
CONSTANTS
  t1 = t1
  t2 = t2
  k1 = k1
  k2 = k2
  k3 = k3
  v1 = v1
  v2 = v2
  NoValue = NoValue
  Shared = Shared
  Threads = {t1, t2}
  Keys = {k1}
  Values = {v1, v2}
  CleanValues = {}
  Size <- SizeZero
  PrevRow <- PrevRowOne
  Owner <- OwnerOne
  Scheduling = "one writer"
  EnableTraverse = TRUE
  Batches <- BatchesOne
  CapMod = 1
  MaxSaves = 0
  MaxLog = 1
INVARIANTS
  AckedWriteStored
