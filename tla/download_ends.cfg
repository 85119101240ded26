SPECIFICATION FairSpec
CONSTANTS
  NumChunks = 1
  Worker = {w1}
  Blocks = 1
  MaxRuns = 2
  FaultyRuns = {}
  SlowChunks = {}
  MaxAttempts = 2
  ResumeAttempts = 1
  NoFile = NoFile
  Torn = Torn
  w1 = w1
PROPERTIES
  RunsEnd
  JobSettles
