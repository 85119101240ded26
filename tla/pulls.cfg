SPECIFICATION FairSpec
CONSTANTS
  MaxPulls = 1
  Req = {r1, r2}
  History = 1
  MaxRestarts = 2
INVARIANTS
  TypeOK
  DoneWasDone
PROPERTIES
  RemovedStaysAway
  CurrentStaysCurrent
  PullConverges
