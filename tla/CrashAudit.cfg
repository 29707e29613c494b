CONSTANTS
  CPUs = {c1, c2, c3}
  Max_Dumps = 2
  MaxBoots = 3
SPECIFICATION Spec
INVARIANTS RecordIntact ReportSound IndInv
PROPERTY CrashRestarts
