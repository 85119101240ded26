SPECIFICATION Spec
CONSTANTS
  NumChunks = 2
  Worker = {w1}
  Blocks = 1
  MaxRuns = 2
  FaultyRuns = {1}
  SlowChunks = {1}
  MaxAttempts = 1
  ResumeAttempts = 1
  NoFile = NoFile
  Torn = Torn
  w1 = w1
INVARIANTS
  TypeOK
  FinalComplete
  DoneHasFinal
  RunningHasRun
  SendingHasWorker
  Persisted
