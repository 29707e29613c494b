CONSTANTS
  Elements = 2
  MaxEpoch = 3
  MaxWrites = 4
SPECIFICATION Spec
INVARIANT ChannelInv
PROPERTIES ReadCorrect Refinement CatchesUp
