SPECIFICATION Spec
CONSTANTS
  t1 = t1
  t2 = t2
  k1 = k1
  k2 = k2
  k3 = k3
  v1 = v1
  v2 = v2
  NoValue = NoValue
  Shared = Shared
  Threads = {t1, t2}
  Keys = {k1, k2, k3}
  Values = {v1}
  CleanValues = {}
  Size <- SizeZero
  PrevRow <- PrevRows
  Owner <- OwnerOf
  Scheduling = "exclusive"
  EnableTraverse = TRUE
  Batches <- BatchesOf
  CapMod = 1
  MaxSaves = 1
  MaxLog = 1
INVARIANTS
  RollbackRestores
  ReadsReturnView
  AckedWriteStored
PROPERTIES
  OverlayStable
  ImplementsSavepoints
