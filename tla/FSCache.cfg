SPECIFICATION Spec
CONSTANTS
  Reqs = {r1, r2}
  NoFile = NoFile
INVARIANTS ReadersCounted NoHandleLeft
PROPERTIES LeaseKept FilesReleased
