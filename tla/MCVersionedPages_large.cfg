CONSTANTS
  w1 = w1
  w2 = w2
  Workers = {w1, w2}
  Updaters = {w1}
  NoWorker = NoWorker
  NFrames = 5
  MaxPages = 2
  MaxVersion = 2
  MaxHeld = 1
  UnpinnedEdit = TRUE
SPECIFICATION Spec
CHECK_DEADLOCK FALSE
PROPERTY ImplementsSnapshotStore
