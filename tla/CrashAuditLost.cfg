CONSTANTS
  CPUs = {c1, c2}
  Max_Dumps = 3
  MaxBoots = 2
SPECIFICATION Safety
INVARIANT AllReported
