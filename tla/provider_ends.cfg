\* Two requests, of any kind, to their end.
CONSTANTS
  Kinds = {"generate", "modify", "discover"}
  MaxRequests = 2
SPECIFICATION FairSpec
INVARIANTS RequestsAreAccounted
PROPERTIES EverySentRequestEnds
