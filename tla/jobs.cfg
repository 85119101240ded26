SPECIFICATION Spec
CONSTANTS
  MaxJobs = 2
  f0 = f0
  f1 = f1
  f2 = f2
  File = {f0, f1, f2}
  Empty <- MCEmpty
  Staged <- MCStaged
  Dir = {d1}
  Chunk = {c1}
  Run = {1, 2, 3, 4}
  JobOf <- MCJobOf
  MayAsk <- MCMayAsk
  History = 1
  MaxTrouble = 1
  NoRun = NoRun
CHECK_DEADLOCK FALSE
INVARIANTS
  TypeOK
  ActiveJobsHaveOneCall
  ForgottenStaysForgotten
  DoneIsDelivered
  StagingIsOwned
  ResumableKeepsStaging
PROPERTIES
  DoneStaysDone
  LifeSpec
