\* Two operations at once, two repositories opened, two search requests, two task versions.
CONSTANTS
  Slots = {s1, s2}
  MaxGenerations = 2
  MaxRequests = 2
  MaxVersions = 2
SPECIFICATION FairSpec
INVARIANTS TypeOK OperationsAreTracked
PROPERTIES NothingIsReplaced CleanedIsGone EveryPreviewEnds
