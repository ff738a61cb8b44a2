\* As store_adoptions, on a file system that may persist a directory's
\* renames in any order between two syncs.
CONSTANTS
  h1 = h1  h2 = h2  o1 = o1  o2 = o2  i1 = i1  t1 = t1
  None = None
  Handles = {h1, h2}
  Operations = {o1, o2}
  Inputs = {i1}
  Targets = {t1}
  Seeds <- OnlyRecovered
  MaxRevision = 2
  MaxLosses = 1
  OrderedRenames = FALSE
SYMMETRY HandleSymmetry
SPECIFICATION Spec
INVARIANTS ActivationIsAtomic
