\* Four commands of any kind, the first of them the boot; one close; the worker may panic.
CONSTANTS
  Clicks = {"Daily", "Open", "Prepare"}
  MaxOperations = 4
  MaxEpoch = 1
  MayStop = TRUE
SPECIFICATION FairSpec
INVARIANTS TypeOK NothingSkipped PanelAgrees
PROPERTIES ImplementsRequests EveryCommandIsAnswered
CHECK_DEADLOCK FALSE
