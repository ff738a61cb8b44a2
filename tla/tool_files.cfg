\* Two hosts, two destinations or folders, and two spellings of one path.  An upgrade meets
\* two power losses, the rest one; two instances, attempts, saved revisions and sources, one
\* request; the bounds of the other parts are in the module.
CONSTANTS
  h1 = h1  h2 = h2  f1 = f1  f2 = f2
  Hosts = {h1, h2}
  Directories = {f1, f2}
  PlaceOf <- Spellings
  MaxVersion = 3
  MaxRevision = 3
  MaxLosses = 2
  MaxInstance = 2
  MaxSaved = 2
  MaxMove = 1
  MaxAttempt = 2
  MaxBasis = 2
  MaxSource = 2
  MaxRequest = 1
  MaxTask = 2
  MaxLoss = 1
  MaxFolder = 2
  MaxOperation = 3
SYMMETRY Symmetry
SPECIFICATION Spec
INVARIANTS TypeOK UpgradesSurvive RecoveriesAreApart OutcomesAreKept OrderToolIsKept ChoicesAreReal IntentionsAreKept
PROPERTY ScopesHold
\* A host may end, and the bounds stop the others.
CHECK_DEADLOCK FALSE
