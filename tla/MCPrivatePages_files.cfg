CONSTANTS
  u1 = u1
  u2 = u2
  Users = {u1, u2}
  NFrames = 2
  MaxFiles = 1
  MaxPages = 3
  Bytes = {0, 1}
  Zero = 0
  NoUser = NoUser
SPECIFICATION LiveSpec
INVARIANTS
  TypeOK
  RemovedFilesLeaveNothing
PROPERTIES
  ImplementsTmpFiles
  RequestsReturn
