SPECIFICATION Spec
CONSTANTS
  worker = worker
  admin = admin
  Conns = {worker, admin}
  Names = {a, b}
  MaxDatabases = 2
  MaxFrames = 6
  MaxStatements = 2
  MaxSnapshotBytes = 3
  MaxChunk = 2
  Scripts <- MCScripts
  None = None
INVARIANTS
  TypeOK
  TransactionHasDatabase
  ExecutesWhatWasAcknowledged
  ReadOnlyNeverMutates
  UploadsContiguous
PROPERTY
  DroppedStaysUntouched
SYMMETRY Symmetry
CHECK_DEADLOCK FALSE
