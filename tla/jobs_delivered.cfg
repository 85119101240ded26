SPECIFICATION Spec
CONSTANTS
  MaxJobs = 2
  f0 = f0
  f1 = f1
  f2 = f2
  File = {f1}
  Empty <- NoneEmpty
  Staged <- NoneStaged
  Dir = {d1, d2}
  Chunk = {c1, c2}
  Run = {1, 2, 3, 4}
  JobOf <- MCJobOf
  MayAsk <- OneFile
  History = 2
  MaxTrouble = 0
  NoRun = NoRun
CHECK_DEADLOCK FALSE
INVARIANTS
  SentIsDelivered
