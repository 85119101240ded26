SPECIFICATION FairSpec
CONSTANTS
  Chunk = {1, 2}
  Version = {v1}
  Conn = {k1, k2}
  Finalizer = {f1, f2}
  MaxConns = 3
  IOErrors = TRUE
  NoFile = NoFile
  Nobody = Nobody
  v1 = v1
  k1 = k1
  k2 = k2
  f1 = f1
  f2 = f2
INVARIANTS
  TypeOK
  AckedIsKept
  DoneHasOutput
PROPERTIES
  CompleteIsMerged
  StoreSpec
