CONSTANTS
  w1 = w1
  w2 = w2
  Workers = {w1, w2}
  Updaters = {w1, w2}
  NoWorker = NoWorker
  NFrames = 3
  MaxPages = 2
  MaxVersion = 2
  MaxHeld = 2
  UnpinnedEdit = FALSE
SPECIFICATION LiveSpec
CHECK_DEADLOCK FALSE
INVARIANTS
  TypeOK
  PinsAreCounted
  PinnedFramesKeepTheirPage
  RunningVersionsAreCounted
  ChainsAreOrdered
  ClosedFileIsComplete
PROPERTY RequestsReturn
