SPECIFICATION Spec
CONSTANTS
  t1 = t1
  t2 = t2
  k1 = k1
  k2 = k2
  k3 = k3
  v1 = v1
  v2 = v2
  NoValue = NoValue
  Shared = Shared
  Threads = {t1}
  Keys = {k1, k2}
  Values = {v1, v2}
  CleanValues = {v2}
  Size <- SizeZero
  PrevRow <- PrevRowsAlone
  Owner <- OwnerAlone
  Scheduling = "exclusive"
  EnableTraverse = FALSE
  Batches <- BatchesAlone
  CapMod = 1
  MaxSaves = 2
  MaxLog = 3
INVARIANTS
  RollbackRestores
  RollbackNeverThrows
