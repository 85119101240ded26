SPECIFICATION TimedSpec
CONSTANTS
  Node = {n1}
  MaxAddr = 2
  TTL = 5
  Cooldown = 2
  Recent = 2
  Fast = 1
  Slow = 2
  Jitter = 1
  MaxHosts = 2
  Dials = 1
INVARIANTS
  TypeOK
  FoundInTime
  GoneInTime
  RightInTime
