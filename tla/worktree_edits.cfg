\* One removal of one worktree beside an editor.
CONSTANTS
  Platforms = {"unix"}
  MaxDirectories = 1
  MaxHead = 0
  MaxRemovals = 1
SPECIFICATION Spec
INVARIANT UncommittedIsKept
CHECK_DEADLOCK FALSE
