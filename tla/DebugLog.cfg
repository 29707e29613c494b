CONSTANTS
  NSubjects = 2
  Elements = 1
  QueueSize = 1
  MaxInputs = 5
  MaxStarts = 3
  MaxCommands = 1
SPECIFICATION Spec
INVARIANTS Reassembled Attributed NoSilentGap
PROPERTIES OldestFirst MessagePrinted
