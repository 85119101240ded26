SPECIFICATION Spec
CONSTANTS
  NumChunks = 1
  Worker = {w1}
  Blocks = 1
  MaxRuns = 1
  FaultyRuns = {}
  SlowChunks = {}
  MaxAttempts = 1
  ResumeAttempts = 1
  NoFile = NoFile
  Torn = Torn
  w1 = w1
PROPERTIES
  ForgottenStaysForgotten
