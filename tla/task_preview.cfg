\* As git_client, and a preview that the review queue offers.
CONSTANTS
  w1 = w1  w2 = w2
  Windows = {w1, w2}
  MaxRelease = 2
  MaxRequest = 3
  MaxTask = 3
  Parts = {"files", "HEAD"}
  MaxSource = 1
  MaxRun = 2
  MaxEdit = 2
  MaxElsewhere = 1
SYMMETRY Symmetry
SPECIFICATION Spec
INVARIANTS OfferedIsAccepted
CHECK_DEADLOCK FALSE
