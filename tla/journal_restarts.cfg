\* Two saves of any kind, other saves up to three snapshots, two boots, two retries.
CONSTANTS
  Kinds = {"create", "daily", "change"}
  MaxOperations = 2
  MaxRevision = 3
  MaxBoots = 2
  MaxCommands = 2
SPECIFICATION Spec
INVARIANTS TypeOK RecordHolds AnswersAreTrue
CHECK_DEADLOCK FALSE
