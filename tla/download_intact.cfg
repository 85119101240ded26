SPECIFICATION Spec
CONSTANTS
  NumChunks = 1
  Worker = {w1, w2}
  Blocks = 2
  MaxRuns = 1
  FaultyRuns = {}
  SlowChunks = {}
  MaxAttempts = 2
  ResumeAttempts = 1
  NoFile = NoFile
  Torn = Torn
  w1 = w1
  w2 = w2
SYMMETRY WorkerSymmetry
INVARIANTS
  FinalIntact
