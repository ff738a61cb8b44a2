\* One worktree, a second directory at its path, one commit, two removals, on either build.
CONSTANTS
  Platforms = {"unix", "windows"}
  MaxDirectories = 2
  MaxHead = 1
  MaxRemovals = 2
SPECIFICATION Spec
INVARIANTS TypeOK WorkIsKept
PROPERTIES RemovesAsShown OwnLockOnly
\* A worktree that was removed and whose path stays empty has nothing left to do.
CHECK_DEADLOCK FALSE
