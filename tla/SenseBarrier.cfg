\* Four CPUs and three rounds: a fast CPU is two calls ahead of a straggler's
\* spin loop, and both senses and the return to the first one occur.
CONSTANTS
  CPUs = {c1, c2, c3, c4}
  MaxRounds = 3
SPECIFICATION Spec
INVARIANTS NoEarlyLeave ReleaserExists IndInv
PROPERTY Refinement
