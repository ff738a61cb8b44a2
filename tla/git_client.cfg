\* Two windows; two releases and three requests; three tasks; two runs on a source
\* of two parts; two edits of a source, so that one may be put back, behind a run, a combined
\* or a delivered result; one change by another program.
CONSTANTS
  w1 = w1  w2 = w2
  Windows = {w1, w2}
  MaxRelease = 2
  MaxRequest = 3
  MaxTask = 3
  Parts = {"files", "HEAD"}
  MaxSource = 1
  MaxRun = 2
  MaxEdit = 2
  MaxElsewhere = 1
SYMMETRY Symmetry
SPECIFICATION Spec
INVARIANTS TypeOK UpdatesAreRight OrderIsRight PassedMeansRun CombinedPassIsReal CurrentIsCurrent UpdateIsWholeOrUndone
PROPERTY ChangesAreMadeOnTheFile
\* An update may replace the program, and a window close, at the end.
CHECK_DEADLOCK FALSE
