SPECIFICATION Spec
CONSTANTS
  Chunk = {1, 2}
  Version = {v1}
  Conn = {k1, k2}
  Finalizer = {f1, f2}
  MaxConns = 4
  IOErrors = FALSE
  NoFile = NoFile
  Nobody = Nobody
  v1 = v1
  k1 = k1
  k2 = k2
  f1 = f1
  f2 = f2
SYMMETRY ReceiverSymmetry
INVARIANTS
  FinalizeIdempotent
