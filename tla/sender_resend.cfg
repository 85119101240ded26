SPECIFICATION Spec
CONSTANTS
  Chunk = {1, 2}
  MiB = 1
  MaxBytes = 24
  MaxChunkSize = 7
  Rate = {0, 92, 96, 100, 104}
  MaxInFlight = 1
  MaxChannels = 3
  MaxFailures = 8
  MaxCooldown = 12
  Run = {r1}
  Worker = {w1, w2}
  MaxCalls = 2
  MaxAttempts = 2
  IOErrors = FALSE
  r1 = r1
  w1 = w1
  w2 = w2
INVARIANTS
  CleanSendSucceeds
