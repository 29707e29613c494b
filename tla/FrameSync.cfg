SPECIFICATION Spec
CONSTANTS
  c1 = c1
  c2 = c2
  c3 = c3
  A = A
  B = B
  CPUs <- MCCPUs
  BSP = c1
  Majors <- MCMajors
  FirstMajor = A
  Plans <- MCPlans
  WordSize = 8
  BootSkew = 1
INVARIANTS FrameInv FrameStable SyncSeparation
PROPERTY Progress
