CONSTANTS
  IDs <- MCIDs
  Self_Governed <- MCSelf
  Initial_Erase <- MCErase
  Run_Deps <- MCDeps
  Slot_1 <- MCSlot
  Time = 1
  Monitor = 2
  Loader = 3
  MaxRequests = 3
  MaxFailures = 1
SPECIFICATION Spec
INVARIANTS LifecycleInv ConfusedOnlyByReset
PROPERTIES EpochsIncrease SlotRecovers
