SPECIFICATION Spec
CONSTANTS
  t1 = t1
  t2 = t2
  k1 = k1
  k2 = k2
  k3 = k3
  v1 = v1
  v2 = v2
  NoValue = NoValue
  Shared = Shared
  Threads = {t1}
  Keys = {k1, k2}
  Values = {v1, v2}
  CleanValues = {}
  Size <- SizeOf
  PrevRow <- PrevRowsAlone
  Owner <- OwnerAlone
  Scheduling = "exclusive"
  EnableTraverse = TRUE
  Batches <- BatchesAlone
  CapMod = 16
  MaxSaves = 0
  MaxLog = 1
INVARIANTS
  CapacityIsDirtyBytes
