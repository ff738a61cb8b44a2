------------------------ MODULE WorktreeRemovalProofs ------------------------
(* Proofs that WorktreeRemoval keeps its promises, for any number of removals,
   directories and commits, on either build. *)
EXTENDS WorktreeRemoval, TLAPS

Scalars ==
    /\ platform \in Platforms
    /\ metadata \in {"kept", "pruned"} /\ head \in Nat /\ seen \in Nat
    /\ refs \in {"free", "removal", "left"}
    /\ lock \in {"none", "user", "removal", "left"}
    /\ listed \in {"none", "missing", "unavailable", "identified"}
    /\ pc \in PC /\ attempt \in 0 .. 2 /\ removals \in Nat

\* A deletion is tried twice at most.
Tries ==
    /\ pc \in {"validate", "lockRefs", "inspect", "checkLock", "remove", "acquire",
                "recheck", "rename", "fallback", "checkStaged"} => attempt = 0
    /\ pc \in {"burn", "delete"} => attempt < 2

\* The steps during which HEAD and its branch are locked, and those during which a
\* regular removal holds its own entry.
Compared == {"inspect", "checkLock", "remove", "acquire", "recheck", "rename", "fallback",
             "guard", "burn", "checkStaged", "delete", "restore", "unlock", "missing",
             "relock", "checkOwner", "checkHead", "prune"}
Entered == {"recheck", "rename", "fallback", "guard", "burn", "checkStaged", "delete",
            "restore", "unlock", "checkOwner", "checkHead", "prune"}

\* HEAD stays the commit shown while its lock is held.
Shown ==
    pc \in Compared /\ (pc = "prune" => platform # "windows") => refs = "removal" /\ head = seen

\* The removal's own entry: who makes it, and what it protects.
Holding ==
    /\ pc \in Entered => (owned <=> ~ force)
    /\ pc \in {"recheck", "unlock"} => owned
    /\ pc \in {"acquire", "relock"} => ~ force
    /\ pc \in {"validate", "lockRefs", "inspect", "checkLock", "remove", "acquire",
                "missing", "relock"} => ~ owned
    /\ pc \in Entered /\ owned /\ ~ unlocked => lock = "removal" /\ metadata = "kept"

\* No directory is at two places, and a deleted one is at none.
Places ==
    /\ path # Nothing => path # staging
    /\ path \notin discarded /\ staging \notin discarded
    /\ edited \cap discarded = {}
    /\ staging # Nothing => pc \in {"checkStaged", "delete", "restore", "unlock", "finish"}

\* Once its second look found nothing, a regular removal meets only directories
\* without the work there was when its entry was made.
Unguarded ==
    /\ GuardedWorkIsKept
    /\ pc = "recheck" => (path \in guarded => path \in edited)
    /\ pc \in {"rename", "fallback", "guard", "burn", "checkStaged", "delete"} /\ ~ force =>
         path \notin guarded /\ staging \notin guarded

\* What is still to be put back, unless a call was refused or the thread killed.
Owed ==
    ~ crashed /\ ~ refused =>
      /\ stranded = {} /\ lock # "left"
      /\ staging # Nothing => pc \in {"checkStaged", "delete", "restore"}
      /\ lock = "removal" => pc \in Entered /\ owned

IInv == DirectoriesOK /\ FlagsOK /\ Scalars /\ Tries /\ Shown /\ Holding /\ Places /\ Unguarded /\ Owed

\* A step keeps the directories among those made.
LEMMA DirectoriesStep == IInv /\ [Next]_vars => DirectoriesOK'
<1> SUFFICES ASSUME IInv, [Next]_vars PROVE DirectoriesOK'
    OBVIOUS
<1> USE ConstantsAssumption
<1> USE DEF IInv
<1>1. CASE List
    BY <1>1 DEF DirectoriesOK, PC, files, window, fallback, ghosts, others, vars,
           Nothing, Compared, Entered, List, Registered
<1>2. CASE \E requested \in BOOLEAN : Preview(requested)
    BY <1>2 DEF DirectoriesOK, PC, files, window, fallback, ghosts, others, vars,
           Nothing, Compared, Entered, Preview, Registered
<1>3. CASE Dismiss
    BY <1>3 DEF DirectoriesOK, PC, files, window, fallback, ghosts, others, vars,
           Nothing, Compared, Entered, Dismiss
<1>4. CASE Confirm
    BY <1>4 DEF DirectoriesOK, PC, files, window, fallback, ghosts, others, vars,
           Nothing, Compared, Entered, Confirm
<1>5. CASE Validate
    BY <1>5 DEF DirectoriesOK, PC, files, window, fallback, ghosts, others, vars,
           Nothing, Compared, Entered, Validate, Fail, Registered
<1>6. CASE LockRefs
    BY <1>6 DEF DirectoriesOK, PC, files, window, fallback, ghosts, others, vars,
           Nothing, Compared, Entered, LockRefs, LocksRefs, Fail
<1>7. CASE Inspect
    BY <1>7 DEF DirectoriesOK, PC, files, window, fallback, ghosts, others, vars,
           Nothing, Compared, Entered, Inspect, Fail, Registered
<1>8. CASE CheckLock
    BY <1>8 DEF DirectoriesOK, PC, files, window, fallback, ghosts, others, vars,
           Nothing, Compared, Entered, CheckLock, Fail
<1>9. CASE Remove
    BY <1>9 DEF DirectoriesOK, PC, files, window, fallback, ghosts, others, vars,
           Nothing, Compared, Entered, Remove, Fail, Registered
<1>10. CASE Acquire
    BY <1>10 DEF DirectoriesOK, PC, files, window, fallback, ghosts, others, vars,
           Nothing, Compared, Entered, Acquire, TakesLock, Locks, Fail
<1>11. CASE Recheck
    BY <1>11 DEF DirectoriesOK, PC, files, window, fallback, ghosts, others, vars,
           Nothing, Compared, Entered, Recheck, Clean, Registered, Undo, Fail
<1>12. CASE Rename
    BY <1>12 DEF DirectoriesOK, PC, files, window, fallback, ghosts, others, vars,
           Nothing, Compared, Entered, Rename, Undo, Fail
<1>13. CASE Fallback
    BY <1>13 DEF DirectoriesOK, PC, files, window, fallback, ghosts, others, vars,
           Nothing, Compared, Entered, Fallback, Undo, Fail
<1>14. CASE Guard
    BY <1>14 DEF DirectoriesOK, PC, files, window, fallback, ghosts, others, vars,
           Nothing, Compared, Entered, Guard, Guarded, MayTry, Succeeds, Undo,
           Fail
<1>15. CASE Burn
    <2> USE <1>15 DEF DirectoriesOK, Burn, Discards, files, window, ghosts, Nothing
    <2>1. CASE path # Nothing /\ Gone(path) /\ path' = Nothing /\ Discards(path)
        BY <2>1 DEF Gone
    <2>2. CASE path # Nothing /\ Torn(path) /\ UNCHANGED <<path, discarded>>
        BY <2>2 DEF Torn
    <2>3. CASE path = Nothing /\ UNCHANGED <<path, linked, edited, discarded>>
        BY <2>3
    <2> QED
        BY <2>1, <2>2, <2>3
<1>16. CASE CheckStaged
    BY <1>16 DEF DirectoriesOK, PC, files, window, fallback, ghosts, others, vars,
           Nothing, Compared, Entered, CheckStaged, StagedMatches, Fail
<1>17. CASE Delete
    <2> USE <1>17 DEF DirectoriesOK, Delete, Discards, window, ghosts, Nothing, Fail, Succeeds
    <2>1. CASE Gone(staging) /\ staging' = Nothing /\ Discards(staging)
                /\ deleted' = deleted \cup {staging} /\ StagedMatches /\ Succeeds
        BY <2>1 DEF Gone, StagedMatches
    <2>2. CASE Torn(staging) /\ StagedMatches /\ UNCHANGED <<staging, removed, deleted, discarded>>
        BY <2>2 DEF Torn
    <2>3. CASE ~ StagedMatches /\ UNCHANGED <<staging, linked, edited, removed, deleted, discarded>>
        BY <2>3
    <2> QED
        BY <2>1, <2>2, <2>3
<1>18. CASE Restore
    BY <1>18 DEF DirectoriesOK, PC, files, window, fallback, ghosts, others, vars,
           Nothing, Compared, Entered, Restore, Undo, Fail
<1>19. CASE Unlock
    BY <1>19 DEF DirectoriesOK, PC, files, window, fallback, ghosts, others, vars,
           Nothing, Compared, Entered, Unlock
<1>20. CASE Missing
    BY <1>20 DEF DirectoriesOK, PC, files, window, fallback, ghosts, others, vars,
           Nothing, Compared, Entered, Missing, Fail
<1>21. CASE Relock
    BY <1>21 DEF DirectoriesOK, PC, files, window, fallback, ghosts, others, vars,
           Nothing, Compared, Entered, Relock, TakesLock, Locks, Fail
<1>22. CASE CheckOwner
    BY <1>22 DEF DirectoriesOK, PC, files, window, fallback, ghosts, others, vars,
           Nothing, Compared, Entered, CheckOwner, Fail
<1>23. CASE CheckHead
    BY <1>23 DEF DirectoriesOK, PC, files, window, fallback, ghosts, others, vars,
           Nothing, Compared, Entered, CheckHead, Fail
<1>24. CASE Prune
    BY <1>24 DEF DirectoriesOK, PC, files, window, fallback, ghosts, others, vars,
           Nothing, Compared, Entered, Prune
<1>25. CASE Finish
    BY <1>25 DEF DirectoriesOK, PC, files, window, fallback, ghosts, others, vars,
           Nothing, Compared, Entered, Finish, LeavesStaged
<1>26. CASE \E d \in 1 .. MaxDirectories : Edit(d)
    BY <1>26 DEF DirectoriesOK, PC, files, window, fallback, ghosts, others, vars,
           Nothing, Compared, Entered, Edit
<1>27. CASE MoveHead
    BY <1>27 DEF DirectoriesOK, PC, files, window, fallback, ghosts, others, vars,
           Nothing, Compared, Entered, MoveHead, Registered
<1>28. CASE DeleteElsewhere
    BY <1>28 DEF DirectoriesOK, PC, files, window, fallback, ghosts, others, vars,
           Nothing, Compared, Entered, DeleteElsewhere, Gone
<1>29. CASE \E copied \in BOOLEAN : Create(copied)
    BY <1>29 DEF DirectoriesOK, PC, files, window, fallback, ghosts, others, vars,
           Nothing, Compared, Entered, Create
<1>30. CASE LockElsewhere
    BY <1>30 DEF DirectoriesOK, PC, files, window, fallback, ghosts, others, vars,
           Nothing, Compared, Entered, LockElsewhere
<1>31. CASE UnlockElsewhere
    BY <1>31 DEF DirectoriesOK, PC, files, window, fallback, ghosts, others, vars,
           Nothing, Compared, Entered, UnlockElsewhere
<1>32. CASE PruneElsewhere
    BY <1>32 DEF DirectoriesOK, PC, files, window, fallback, ghosts, others, vars,
           Nothing, Compared, Entered, PruneElsewhere
<1>33. CASE ClearRefs
    BY <1>33 DEF DirectoriesOK, PC, files, window, fallback, ghosts, others, vars,
           Nothing, Compared, Entered, ClearRefs
<1>34. CASE Crash
    BY <1>34 DEF DirectoriesOK, PC, files, window, fallback, ghosts, others, vars,
           Nothing, Compared, Entered, Crash, LeavesStaged
<1>35. CASE UNCHANGED vars
    BY <1>35 DEF DirectoriesOK, PC, files, window, fallback, ghosts, others, vars,
           Nothing, Compared, Entered
<1> QED
    BY <1>1, <1>2, <1>3, <1>4, <1>5, <1>6, <1>7, <1>8, <1>9, <1>10, <1>11,
       <1>12, <1>13, <1>14, <1>15, <1>16, <1>17, <1>18, <1>19, <1>20,
       <1>21, <1>22, <1>23, <1>24, <1>25, <1>26, <1>27, <1>28, <1>29,
       <1>30, <1>31, <1>32, <1>33, <1>34, <1>35 DEF Next, Asks, Removal, Elsewhere

\* A step keeps the flags flags.
LEMMA FlagsStep == IInv /\ [Next]_vars => FlagsOK'
<1> SUFFICES ASSUME IInv, [Next]_vars PROVE FlagsOK'
    OBVIOUS
<1> USE ConstantsAssumption
<1> USE DEF IInv
<1>1. CASE List
    BY <1>1 DEF FlagsOK, PC, files, window, fallback, ghosts, others, vars,
           Nothing, Compared, Entered, List, Registered
<1>2. CASE \E requested \in BOOLEAN : Preview(requested)
    BY <1>2 DEF FlagsOK, PC, files, window, fallback, ghosts, others, vars,
           Nothing, Compared, Entered, Preview, Registered
<1>3. CASE Dismiss
    BY <1>3 DEF FlagsOK, PC, files, window, fallback, ghosts, others, vars,
           Nothing, Compared, Entered, Dismiss
<1>4. CASE Confirm
    BY <1>4 DEF FlagsOK, PC, files, window, fallback, ghosts, others, vars,
           Nothing, Compared, Entered, Confirm
<1>5. CASE Validate
    BY <1>5 DEF FlagsOK, PC, files, window, fallback, ghosts, others, vars,
           Nothing, Compared, Entered, Validate, Fail, Registered
<1>6. CASE LockRefs
    BY <1>6 DEF FlagsOK, PC, files, window, fallback, ghosts, others, vars,
           Nothing, Compared, Entered, LockRefs, LocksRefs, Fail
<1>7. CASE Inspect
    BY <1>7 DEF FlagsOK, PC, files, window, fallback, ghosts, others, vars,
           Nothing, Compared, Entered, Inspect, Fail, Registered
<1>8. CASE CheckLock
    BY <1>8 DEF FlagsOK, PC, files, window, fallback, ghosts, others, vars,
           Nothing, Compared, Entered, CheckLock, Fail
<1>9. CASE Remove
    BY <1>9 DEF FlagsOK, PC, files, window, fallback, ghosts, others, vars,
           Nothing, Compared, Entered, Remove, Fail, Registered
<1>10. CASE Acquire
    BY <1>10 DEF FlagsOK, PC, files, window, fallback, ghosts, others, vars,
           Nothing, Compared, Entered, Acquire, TakesLock, Locks, Fail
<1>11. CASE Recheck
    BY <1>11 DEF FlagsOK, PC, files, window, fallback, ghosts, others, vars,
           Nothing, Compared, Entered, Recheck, Clean, Registered, Undo, Fail
<1>12. CASE Rename
    BY <1>12 DEF FlagsOK, PC, files, window, fallback, ghosts, others, vars,
           Nothing, Compared, Entered, Rename, Undo, Fail
<1>13. CASE Fallback
    BY <1>13 DEF FlagsOK, PC, files, window, fallback, ghosts, others, vars,
           Nothing, Compared, Entered, Fallback, Undo, Fail
<1>14. CASE Guard
    BY <1>14 DEF FlagsOK, PC, files, window, fallback, ghosts, others, vars,
           Nothing, Compared, Entered, Guard, Guarded, MayTry, Succeeds, Undo,
           Fail
<1>15. CASE Burn
    BY <1>15 DEF FlagsOK, PC, files, window, fallback, ghosts, others, vars,
           Nothing, Compared, Entered, Burn, Gone, Torn, Discards
<1>16. CASE CheckStaged
    BY <1>16 DEF FlagsOK, PC, files, window, fallback, ghosts, others, vars,
           Nothing, Compared, Entered, CheckStaged, StagedMatches, Fail
<1>17. CASE Delete
    BY <1>17 DEF FlagsOK, PC, files, window, fallback, ghosts, others, vars,
           Nothing, Compared, Entered, Delete, StagedMatches, Gone, Torn,
           Discards, Succeeds, Fail
<1>18. CASE Restore
    BY <1>18 DEF FlagsOK, PC, files, window, fallback, ghosts, others, vars,
           Nothing, Compared, Entered, Restore, Undo, Fail
<1>19. CASE Unlock
    BY <1>19 DEF FlagsOK, PC, files, window, fallback, ghosts, others, vars,
           Nothing, Compared, Entered, Unlock
<1>20. CASE Missing
    BY <1>20 DEF FlagsOK, PC, files, window, fallback, ghosts, others, vars,
           Nothing, Compared, Entered, Missing, Fail
<1>21. CASE Relock
    BY <1>21 DEF FlagsOK, PC, files, window, fallback, ghosts, others, vars,
           Nothing, Compared, Entered, Relock, TakesLock, Locks, Fail
<1>22. CASE CheckOwner
    BY <1>22 DEF FlagsOK, PC, files, window, fallback, ghosts, others, vars,
           Nothing, Compared, Entered, CheckOwner, Fail
<1>23. CASE CheckHead
    BY <1>23 DEF FlagsOK, PC, files, window, fallback, ghosts, others, vars,
           Nothing, Compared, Entered, CheckHead, Fail
<1>24. CASE Prune
    BY <1>24 DEF FlagsOK, PC, files, window, fallback, ghosts, others, vars,
           Nothing, Compared, Entered, Prune
<1>25. CASE Finish
    BY <1>25 DEF FlagsOK, PC, files, window, fallback, ghosts, others, vars,
           Nothing, Compared, Entered, Finish, LeavesStaged
<1>26. CASE \E d \in 1 .. MaxDirectories : Edit(d)
    BY <1>26 DEF FlagsOK, PC, files, window, fallback, ghosts, others, vars,
           Nothing, Compared, Entered, Edit
<1>27. CASE MoveHead
    BY <1>27 DEF FlagsOK, PC, files, window, fallback, ghosts, others, vars,
           Nothing, Compared, Entered, MoveHead, Registered
<1>28. CASE DeleteElsewhere
    BY <1>28 DEF FlagsOK, PC, files, window, fallback, ghosts, others, vars,
           Nothing, Compared, Entered, DeleteElsewhere, Gone
<1>29. CASE \E copied \in BOOLEAN : Create(copied)
    BY <1>29 DEF FlagsOK, PC, files, window, fallback, ghosts, others, vars,
           Nothing, Compared, Entered, Create
<1>30. CASE LockElsewhere
    BY <1>30 DEF FlagsOK, PC, files, window, fallback, ghosts, others, vars,
           Nothing, Compared, Entered, LockElsewhere
<1>31. CASE UnlockElsewhere
    BY <1>31 DEF FlagsOK, PC, files, window, fallback, ghosts, others, vars,
           Nothing, Compared, Entered, UnlockElsewhere
<1>32. CASE PruneElsewhere
    BY <1>32 DEF FlagsOK, PC, files, window, fallback, ghosts, others, vars,
           Nothing, Compared, Entered, PruneElsewhere
<1>33. CASE ClearRefs
    BY <1>33 DEF FlagsOK, PC, files, window, fallback, ghosts, others, vars,
           Nothing, Compared, Entered, ClearRefs
<1>34. CASE Crash
    BY <1>34 DEF FlagsOK, PC, files, window, fallback, ghosts, others, vars,
           Nothing, Compared, Entered, Crash, LeavesStaged
<1>35. CASE UNCHANGED vars
    BY <1>35 DEF FlagsOK, PC, files, window, fallback, ghosts, others, vars,
           Nothing, Compared, Entered
<1> QED
    BY <1>1, <1>2, <1>3, <1>4, <1>5, <1>6, <1>7, <1>8, <1>9, <1>10, <1>11,
       <1>12, <1>13, <1>14, <1>15, <1>16, <1>17, <1>18, <1>19, <1>20,
       <1>21, <1>22, <1>23, <1>24, <1>25, <1>26, <1>27, <1>28, <1>29,
       <1>30, <1>31, <1>32, <1>33, <1>34, <1>35 DEF Next, Asks, Removal, Elsewhere

\* A step keeps the types of the rest.
LEMMA ScalarsStep == IInv /\ [Next]_vars => Scalars'
<1> SUFFICES ASSUME IInv, [Next]_vars PROVE Scalars'
    OBVIOUS
<1> USE ConstantsAssumption
<1> USE DEF IInv
<1>1. CASE List
    BY <1>1 DEF Scalars, Tries, PC, files, window, fallback, ghosts, others, vars,
           Nothing, Compared, Entered, List, Registered
<1>2. CASE \E requested \in BOOLEAN : Preview(requested)
    BY <1>2 DEF Scalars, Tries, PC, files, window, fallback, ghosts, others, vars,
           Nothing, Compared, Entered, Preview, Registered
<1>3. CASE Dismiss
    BY <1>3 DEF Scalars, Tries, PC, files, window, fallback, ghosts, others, vars,
           Nothing, Compared, Entered, Dismiss
<1>4. CASE Confirm
    BY <1>4 DEF Scalars, Tries, PC, files, window, fallback, ghosts, others, vars,
           Nothing, Compared, Entered, Confirm
<1>5. CASE Validate
    BY <1>5 DEF Scalars, Tries, PC, files, window, fallback, ghosts, others, vars,
           Nothing, Compared, Entered, Validate, Fail, Registered
<1>6. CASE LockRefs
    BY <1>6 DEF Scalars, Tries, PC, files, window, fallback, ghosts, others, vars,
           Nothing, Compared, Entered, LockRefs, LocksRefs, Fail
<1>7. CASE Inspect
    BY <1>7 DEF Scalars, Tries, PC, files, window, fallback, ghosts, others, vars,
           Nothing, Compared, Entered, Inspect, Fail, Registered
<1>8. CASE CheckLock
    BY <1>8 DEF Scalars, Tries, PC, files, window, fallback, ghosts, others, vars,
           Nothing, Compared, Entered, CheckLock, Fail
<1>9. CASE Remove
    BY <1>9 DEF Scalars, Tries, PC, files, window, fallback, ghosts, others, vars,
           Nothing, Compared, Entered, Remove, Fail, Registered
<1>10. CASE Acquire
    BY <1>10 DEF Scalars, Tries, PC, files, window, fallback, ghosts, others, vars,
           Nothing, Compared, Entered, Acquire, TakesLock, Locks, Fail
<1>11. CASE Recheck
    BY <1>11 DEF Scalars, Tries, PC, files, window, fallback, ghosts, others, vars,
           Nothing, Compared, Entered, Recheck, Clean, Registered, Undo, Fail
<1>12. CASE Rename
    BY <1>12 DEF Scalars, Tries, PC, files, window, fallback, ghosts, others, vars,
           Nothing, Compared, Entered, Rename, Undo, Fail
<1>13. CASE Fallback
    BY <1>13 DEF Scalars, Tries, PC, files, window, fallback, ghosts, others, vars,
           Nothing, Compared, Entered, Fallback, Undo, Fail
<1>14. CASE Guard
    BY <1>14 DEF Scalars, Tries, PC, files, window, fallback, ghosts, others, vars,
           Nothing, Compared, Entered, Guard, Guarded, MayTry, Succeeds, Undo,
           Fail
<1>15. CASE Burn
    BY <1>15 DEF Scalars, Tries, PC, files, window, fallback, ghosts, others, vars,
           Nothing, Compared, Entered, Burn, Gone, Torn, Discards
<1>16. CASE CheckStaged
    BY <1>16 DEF Scalars, Tries, PC, files, window, fallback, ghosts, others, vars,
           Nothing, Compared, Entered, CheckStaged, StagedMatches, Fail
<1>17. CASE Delete
    BY <1>17 DEF Scalars, Tries, PC, files, window, fallback, ghosts, others, vars,
           Nothing, Compared, Entered, Delete, StagedMatches, Gone, Torn,
           Discards, Succeeds, Fail
<1>18. CASE Restore
    BY <1>18 DEF Scalars, Tries, PC, files, window, fallback, ghosts, others, vars,
           Nothing, Compared, Entered, Restore, Undo, Fail
<1>19. CASE Unlock
    BY <1>19 DEF Scalars, Tries, PC, files, window, fallback, ghosts, others, vars,
           Nothing, Compared, Entered, Unlock
<1>20. CASE Missing
    BY <1>20 DEF Scalars, Tries, PC, files, window, fallback, ghosts, others, vars,
           Nothing, Compared, Entered, Missing, Fail
<1>21. CASE Relock
    BY <1>21 DEF Scalars, Tries, PC, files, window, fallback, ghosts, others, vars,
           Nothing, Compared, Entered, Relock, TakesLock, Locks, Fail
<1>22. CASE CheckOwner
    BY <1>22 DEF Scalars, Tries, PC, files, window, fallback, ghosts, others, vars,
           Nothing, Compared, Entered, CheckOwner, Fail
<1>23. CASE CheckHead
    BY <1>23 DEF Scalars, Tries, PC, files, window, fallback, ghosts, others, vars,
           Nothing, Compared, Entered, CheckHead, Fail
<1>24. CASE Prune
    BY <1>24 DEF Scalars, Tries, PC, files, window, fallback, ghosts, others, vars,
           Nothing, Compared, Entered, Prune
<1>25. CASE Finish
    BY <1>25 DEF Scalars, Tries, PC, files, window, fallback, ghosts, others, vars,
           Nothing, Compared, Entered, Finish, LeavesStaged
<1>26. CASE \E d \in 1 .. MaxDirectories : Edit(d)
    BY <1>26 DEF Scalars, Tries, PC, files, window, fallback, ghosts, others, vars,
           Nothing, Compared, Entered, Edit
<1>27. CASE MoveHead
    BY <1>27 DEF Scalars, Tries, PC, files, window, fallback, ghosts, others, vars,
           Nothing, Compared, Entered, MoveHead, Registered
<1>28. CASE DeleteElsewhere
    BY <1>28 DEF Scalars, Tries, PC, files, window, fallback, ghosts, others, vars,
           Nothing, Compared, Entered, DeleteElsewhere, Gone
<1>29. CASE \E copied \in BOOLEAN : Create(copied)
    BY <1>29 DEF Scalars, Tries, PC, files, window, fallback, ghosts, others, vars,
           Nothing, Compared, Entered, Create
<1>30. CASE LockElsewhere
    BY <1>30 DEF Scalars, Tries, PC, files, window, fallback, ghosts, others, vars,
           Nothing, Compared, Entered, LockElsewhere
<1>31. CASE UnlockElsewhere
    BY <1>31 DEF Scalars, Tries, PC, files, window, fallback, ghosts, others, vars,
           Nothing, Compared, Entered, UnlockElsewhere
<1>32. CASE PruneElsewhere
    BY <1>32 DEF Scalars, Tries, PC, files, window, fallback, ghosts, others, vars,
           Nothing, Compared, Entered, PruneElsewhere
<1>33. CASE ClearRefs
    BY <1>33 DEF Scalars, Tries, PC, files, window, fallback, ghosts, others, vars,
           Nothing, Compared, Entered, ClearRefs
<1>34. CASE Crash
    BY <1>34 DEF Scalars, Tries, PC, files, window, fallback, ghosts, others, vars,
           Nothing, Compared, Entered, Crash, LeavesStaged
<1>35. CASE UNCHANGED vars
    BY <1>35 DEF Scalars, Tries, PC, files, window, fallback, ghosts, others, vars,
           Nothing, Compared, Entered
<1> QED
    BY <1>1, <1>2, <1>3, <1>4, <1>5, <1>6, <1>7, <1>8, <1>9, <1>10, <1>11,
       <1>12, <1>13, <1>14, <1>15, <1>16, <1>17, <1>18, <1>19, <1>20,
       <1>21, <1>22, <1>23, <1>24, <1>25, <1>26, <1>27, <1>28, <1>29,
       <1>30, <1>31, <1>32, <1>33, <1>34, <1>35 DEF Next, Asks, Removal, Elsewhere

\* A step counts the attempts.
LEMMA TriesStep == IInv /\ [Next]_vars => Tries'
<1> SUFFICES ASSUME IInv, [Next]_vars PROVE Tries'
    OBVIOUS
<1> USE ConstantsAssumption
<1> USE DEF IInv
<1>1. CASE List
    BY <1>1 DEF Scalars, Tries, PC, files, window, fallback, ghosts, others, vars,
           Nothing, Compared, Entered, List, Registered
<1>2. CASE \E requested \in BOOLEAN : Preview(requested)
    BY <1>2 DEF Scalars, Tries, PC, files, window, fallback, ghosts, others, vars,
           Nothing, Compared, Entered, Preview, Registered
<1>3. CASE Dismiss
    BY <1>3 DEF Scalars, Tries, PC, files, window, fallback, ghosts, others, vars,
           Nothing, Compared, Entered, Dismiss
<1>4. CASE Confirm
    BY <1>4 DEF Scalars, Tries, PC, files, window, fallback, ghosts, others, vars,
           Nothing, Compared, Entered, Confirm
<1>5. CASE Validate
    BY <1>5 DEF Scalars, Tries, PC, files, window, fallback, ghosts, others, vars,
           Nothing, Compared, Entered, Validate, Fail, Registered
<1>6. CASE LockRefs
    BY <1>6 DEF Scalars, Tries, PC, files, window, fallback, ghosts, others, vars,
           Nothing, Compared, Entered, LockRefs, LocksRefs, Fail
<1>7. CASE Inspect
    BY <1>7 DEF Scalars, Tries, PC, files, window, fallback, ghosts, others, vars,
           Nothing, Compared, Entered, Inspect, Fail, Registered
<1>8. CASE CheckLock
    BY <1>8 DEF Scalars, Tries, PC, files, window, fallback, ghosts, others, vars,
           Nothing, Compared, Entered, CheckLock, Fail
<1>9. CASE Remove
    BY <1>9 DEF Scalars, Tries, PC, files, window, fallback, ghosts, others, vars,
           Nothing, Compared, Entered, Remove, Fail, Registered
<1>10. CASE Acquire
    BY <1>10 DEF Scalars, Tries, PC, files, window, fallback, ghosts, others, vars,
           Nothing, Compared, Entered, Acquire, TakesLock, Locks, Fail
<1>11. CASE Recheck
    BY <1>11 DEF Scalars, Tries, PC, files, window, fallback, ghosts, others, vars,
           Nothing, Compared, Entered, Recheck, Clean, Registered, Undo, Fail
<1>12. CASE Rename
    BY <1>12 DEF Scalars, Tries, PC, files, window, fallback, ghosts, others, vars,
           Nothing, Compared, Entered, Rename, Undo, Fail
<1>13. CASE Fallback
    BY <1>13 DEF Scalars, Tries, PC, files, window, fallback, ghosts, others, vars,
           Nothing, Compared, Entered, Fallback, Undo, Fail
<1>14. CASE Guard
    BY <1>14 DEF Scalars, Tries, PC, files, window, fallback, ghosts, others, vars,
           Nothing, Compared, Entered, Guard, Guarded, MayTry, Succeeds, Undo,
           Fail
<1>15. CASE Burn
    BY <1>15 DEF Scalars, Tries, PC, files, window, fallback, ghosts, others, vars,
           Nothing, Compared, Entered, Burn, Gone, Torn, Discards
<1>16. CASE CheckStaged
    BY <1>16 DEF Scalars, Tries, PC, files, window, fallback, ghosts, others, vars,
           Nothing, Compared, Entered, CheckStaged, StagedMatches, Fail
<1>17. CASE Delete
    BY <1>17 DEF Scalars, Tries, PC, files, window, fallback, ghosts, others, vars,
           Nothing, Compared, Entered, Delete, StagedMatches, Gone, Torn,
           Discards, Succeeds, Fail
<1>18. CASE Restore
    BY <1>18 DEF Scalars, Tries, PC, files, window, fallback, ghosts, others, vars,
           Nothing, Compared, Entered, Restore, Undo, Fail
<1>19. CASE Unlock
    BY <1>19 DEF Scalars, Tries, PC, files, window, fallback, ghosts, others, vars,
           Nothing, Compared, Entered, Unlock
<1>20. CASE Missing
    BY <1>20 DEF Scalars, Tries, PC, files, window, fallback, ghosts, others, vars,
           Nothing, Compared, Entered, Missing, Fail
<1>21. CASE Relock
    BY <1>21 DEF Scalars, Tries, PC, files, window, fallback, ghosts, others, vars,
           Nothing, Compared, Entered, Relock, TakesLock, Locks, Fail
<1>22. CASE CheckOwner
    BY <1>22 DEF Scalars, Tries, PC, files, window, fallback, ghosts, others, vars,
           Nothing, Compared, Entered, CheckOwner, Fail
<1>23. CASE CheckHead
    BY <1>23 DEF Scalars, Tries, PC, files, window, fallback, ghosts, others, vars,
           Nothing, Compared, Entered, CheckHead, Fail
<1>24. CASE Prune
    BY <1>24 DEF Scalars, Tries, PC, files, window, fallback, ghosts, others, vars,
           Nothing, Compared, Entered, Prune
<1>25. CASE Finish
    BY <1>25 DEF Scalars, Tries, PC, files, window, fallback, ghosts, others, vars,
           Nothing, Compared, Entered, Finish, LeavesStaged
<1>26. CASE \E d \in 1 .. MaxDirectories : Edit(d)
    BY <1>26 DEF Scalars, Tries, PC, files, window, fallback, ghosts, others, vars,
           Nothing, Compared, Entered, Edit
<1>27. CASE MoveHead
    BY <1>27 DEF Scalars, Tries, PC, files, window, fallback, ghosts, others, vars,
           Nothing, Compared, Entered, MoveHead, Registered
<1>28. CASE DeleteElsewhere
    BY <1>28 DEF Scalars, Tries, PC, files, window, fallback, ghosts, others, vars,
           Nothing, Compared, Entered, DeleteElsewhere, Gone
<1>29. CASE \E copied \in BOOLEAN : Create(copied)
    BY <1>29 DEF Scalars, Tries, PC, files, window, fallback, ghosts, others, vars,
           Nothing, Compared, Entered, Create
<1>30. CASE LockElsewhere
    BY <1>30 DEF Scalars, Tries, PC, files, window, fallback, ghosts, others, vars,
           Nothing, Compared, Entered, LockElsewhere
<1>31. CASE UnlockElsewhere
    BY <1>31 DEF Scalars, Tries, PC, files, window, fallback, ghosts, others, vars,
           Nothing, Compared, Entered, UnlockElsewhere
<1>32. CASE PruneElsewhere
    BY <1>32 DEF Scalars, Tries, PC, files, window, fallback, ghosts, others, vars,
           Nothing, Compared, Entered, PruneElsewhere
<1>33. CASE ClearRefs
    BY <1>33 DEF Scalars, Tries, PC, files, window, fallback, ghosts, others, vars,
           Nothing, Compared, Entered, ClearRefs
<1>34. CASE Crash
    BY <1>34 DEF Scalars, Tries, PC, files, window, fallback, ghosts, others, vars,
           Nothing, Compared, Entered, Crash, LeavesStaged
<1>35. CASE UNCHANGED vars
    BY <1>35 DEF Scalars, Tries, PC, files, window, fallback, ghosts, others, vars,
           Nothing, Compared, Entered
<1> QED
    BY <1>1, <1>2, <1>3, <1>4, <1>5, <1>6, <1>7, <1>8, <1>9, <1>10, <1>11,
       <1>12, <1>13, <1>14, <1>15, <1>16, <1>17, <1>18, <1>19, <1>20,
       <1>21, <1>22, <1>23, <1>24, <1>25, <1>26, <1>27, <1>28, <1>29,
       <1>30, <1>31, <1>32, <1>33, <1>34, <1>35 DEF Next, Asks, Removal, Elsewhere

\* A step keeps HEAD at the commit shown while it is locked.
LEMMA ShownStep == IInv /\ [Next]_vars => Shown'
<1> SUFFICES ASSUME IInv, [Next]_vars PROVE Shown'
    OBVIOUS
<1> USE ConstantsAssumption
<1> USE DEF IInv
<1>1. CASE List
    BY <1>1 DEF Shown, PC, files, window, fallback, ghosts, others, vars, Nothing,
           Compared, Entered, List, Registered
<1>2. CASE \E requested \in BOOLEAN : Preview(requested)
    BY <1>2 DEF Shown, PC, files, window, fallback, ghosts, others, vars, Nothing,
           Compared, Entered, Preview, Registered
<1>3. CASE Dismiss
    BY <1>3 DEF Shown, PC, files, window, fallback, ghosts, others, vars, Nothing,
           Compared, Entered, Dismiss
<1>4. CASE Confirm
    BY <1>4 DEF Shown, PC, files, window, fallback, ghosts, others, vars, Nothing,
           Compared, Entered, Confirm
<1>5. CASE Validate
    BY <1>5 DEF Shown, PC, files, window, fallback, ghosts, others, vars, Nothing,
           Compared, Entered, Validate, Fail, Registered
<1>6. CASE LockRefs
    BY <1>6 DEF Shown, PC, files, window, fallback, ghosts, others, vars, Nothing,
           Compared, Entered, LockRefs, LocksRefs, Fail
<1>7. CASE Inspect
    BY <1>7 DEF Shown, PC, files, window, fallback, ghosts, others, vars, Nothing,
           Compared, Entered, Inspect, Fail, Registered
<1>8. CASE CheckLock
    BY <1>8 DEF Shown, PC, files, window, fallback, ghosts, others, vars, Nothing,
           Compared, Entered, CheckLock, Fail
<1>9. CASE Remove
    BY <1>9 DEF Shown, PC, files, window, fallback, ghosts, others, vars, Nothing,
           Compared, Entered, Remove, Fail, Registered
<1>10. CASE Acquire
    BY <1>10 DEF Shown, PC, files, window, fallback, ghosts, others, vars, Nothing,
           Compared, Entered, Acquire, TakesLock, Locks, Fail
<1>11. CASE Recheck
    BY <1>11 DEF Shown, PC, files, window, fallback, ghosts, others, vars, Nothing,
           Compared, Entered, Recheck, Clean, Registered, Undo, Fail
<1>12. CASE Rename
    BY <1>12 DEF Shown, PC, files, window, fallback, ghosts, others, vars, Nothing,
           Compared, Entered, Rename, Undo, Fail
<1>13. CASE Fallback
    BY <1>13 DEF Shown, PC, files, window, fallback, ghosts, others, vars, Nothing,
           Compared, Entered, Fallback, Undo, Fail
<1>14. CASE Guard
    BY <1>14 DEF Shown, PC, files, window, fallback, ghosts, others, vars, Nothing,
           Compared, Entered, Guard, Guarded, MayTry, Succeeds, Undo, Fail
<1>15. CASE Burn
    BY <1>15 DEF Shown, PC, files, window, fallback, ghosts, others, vars, Nothing,
           Compared, Entered, Burn, Gone, Torn, Discards
<1>16. CASE CheckStaged
    BY <1>16 DEF Shown, PC, files, window, fallback, ghosts, others, vars, Nothing,
           Compared, Entered, CheckStaged, StagedMatches, Fail
<1>17. CASE Delete
    BY <1>17 DEF Shown, PC, files, window, fallback, ghosts, others, vars, Nothing,
           Compared, Entered, Delete, StagedMatches, Gone, Torn, Discards,
           Succeeds, Fail
<1>18. CASE Restore
    BY <1>18 DEF Shown, PC, files, window, fallback, ghosts, others, vars, Nothing,
           Compared, Entered, Restore, Undo, Fail
<1>19. CASE Unlock
    BY <1>19 DEF Shown, PC, files, window, fallback, ghosts, others, vars, Nothing,
           Compared, Entered, Unlock
<1>20. CASE Missing
    BY <1>20 DEF Shown, PC, files, window, fallback, ghosts, others, vars, Nothing,
           Compared, Entered, Missing, Fail
<1>21. CASE Relock
    BY <1>21 DEF Shown, PC, files, window, fallback, ghosts, others, vars, Nothing,
           Compared, Entered, Relock, TakesLock, Locks, Fail
<1>22. CASE CheckOwner
    BY <1>22 DEF Shown, PC, files, window, fallback, ghosts, others, vars, Nothing,
           Compared, Entered, CheckOwner, Fail
<1>23. CASE CheckHead
    BY <1>23 DEF Shown, PC, files, window, fallback, ghosts, others, vars, Nothing,
           Compared, Entered, CheckHead, Fail
<1>24. CASE Prune
    BY <1>24 DEF Shown, PC, files, window, fallback, ghosts, others, vars, Nothing,
           Compared, Entered, Prune
<1>25. CASE Finish
    BY <1>25 DEF Shown, PC, files, window, fallback, ghosts, others, vars, Nothing,
           Compared, Entered, Finish, LeavesStaged
<1>26. CASE \E d \in 1 .. MaxDirectories : Edit(d)
    BY <1>26 DEF Shown, PC, files, window, fallback, ghosts, others, vars, Nothing,
           Compared, Entered, Edit
<1>27. CASE MoveHead
    BY <1>27 DEF Shown, PC, files, window, fallback, ghosts, others, vars, Nothing,
           Compared, Entered, MoveHead, Registered
<1>28. CASE DeleteElsewhere
    BY <1>28 DEF Shown, PC, files, window, fallback, ghosts, others, vars, Nothing,
           Compared, Entered, DeleteElsewhere, Gone
<1>29. CASE \E copied \in BOOLEAN : Create(copied)
    BY <1>29 DEF Shown, PC, files, window, fallback, ghosts, others, vars, Nothing,
           Compared, Entered, Create
<1>30. CASE LockElsewhere
    BY <1>30 DEF Shown, PC, files, window, fallback, ghosts, others, vars, Nothing,
           Compared, Entered, LockElsewhere
<1>31. CASE UnlockElsewhere
    BY <1>31 DEF Shown, PC, files, window, fallback, ghosts, others, vars, Nothing,
           Compared, Entered, UnlockElsewhere
<1>32. CASE PruneElsewhere
    BY <1>32 DEF Shown, PC, files, window, fallback, ghosts, others, vars, Nothing,
           Compared, Entered, PruneElsewhere
<1>33. CASE ClearRefs
    BY <1>33 DEF Shown, PC, files, window, fallback, ghosts, others, vars, Nothing,
           Compared, Entered, ClearRefs
<1>34. CASE Crash
    BY <1>34 DEF Shown, PC, files, window, fallback, ghosts, others, vars, Nothing,
           Compared, Entered, Crash, LeavesStaged
<1>35. CASE UNCHANGED vars
    BY <1>35 DEF Shown, PC, files, window, fallback, ghosts, others, vars, Nothing,
           Compared, Entered
<1> QED
    BY <1>1, <1>2, <1>3, <1>4, <1>5, <1>6, <1>7, <1>8, <1>9, <1>10, <1>11,
       <1>12, <1>13, <1>14, <1>15, <1>16, <1>17, <1>18, <1>19, <1>20,
       <1>21, <1>22, <1>23, <1>24, <1>25, <1>26, <1>27, <1>28, <1>29,
       <1>30, <1>31, <1>32, <1>33, <1>34, <1>35 DEF Next, Asks, Removal, Elsewhere

\* A step keeps the entry of a regular removal.
LEMMA HoldingStep == IInv /\ [Next]_vars => Holding'
<1> SUFFICES ASSUME IInv, [Next]_vars PROVE Holding'
    OBVIOUS
<1> USE ConstantsAssumption
<1> USE DEF IInv
<1>1. CASE List
    BY <1>1 DEF Shown, Holding, PC, files, window, fallback, ghosts, others, vars,
           Nothing, Compared, Entered, List, Registered
<1>2. CASE \E requested \in BOOLEAN : Preview(requested)
    BY <1>2 DEF Shown, Holding, PC, files, window, fallback, ghosts, others, vars,
           Nothing, Compared, Entered, Preview, Registered
<1>3. CASE Dismiss
    BY <1>3 DEF Shown, Holding, PC, files, window, fallback, ghosts, others, vars,
           Nothing, Compared, Entered, Dismiss
<1>4. CASE Confirm
    BY <1>4 DEF Shown, Holding, PC, files, window, fallback, ghosts, others, vars,
           Nothing, Compared, Entered, Confirm
<1>5. CASE Validate
    BY <1>5 DEF Shown, Holding, PC, files, window, fallback, ghosts, others, vars,
           Nothing, Compared, Entered, Validate, Fail, Registered
<1>6. CASE LockRefs
    BY <1>6 DEF Shown, Holding, PC, files, window, fallback, ghosts, others, vars,
           Nothing, Compared, Entered, LockRefs, LocksRefs, Fail
<1>7. CASE Inspect
    BY <1>7 DEF Shown, Holding, PC, files, window, fallback, ghosts, others, vars,
           Nothing, Compared, Entered, Inspect, Fail, Registered
<1>8. CASE CheckLock
    BY <1>8 DEF Shown, Holding, PC, files, window, fallback, ghosts, others, vars,
           Nothing, Compared, Entered, CheckLock, Fail
<1>9. CASE Remove
    BY <1>9 DEF Shown, Holding, PC, files, window, fallback, ghosts, others, vars,
           Nothing, Compared, Entered, Remove, Fail, Registered
<1>10. CASE Acquire
    BY <1>10 DEF Shown, Holding, PC, files, window, fallback, ghosts, others, vars,
           Nothing, Compared, Entered, Acquire, TakesLock, Locks, Fail
<1>11. CASE Recheck
    BY <1>11 DEF Shown, Holding, PC, files, window, fallback, ghosts, others, vars,
           Nothing, Compared, Entered, Recheck, Clean, Registered, Undo, Fail
<1>12. CASE Rename
    BY <1>12 DEF Shown, Holding, PC, files, window, fallback, ghosts, others, vars,
           Nothing, Compared, Entered, Rename, Undo, Fail
<1>13. CASE Fallback
    BY <1>13 DEF Shown, Holding, PC, files, window, fallback, ghosts, others, vars,
           Nothing, Compared, Entered, Fallback, Undo, Fail
<1>14. CASE Guard
    BY <1>14 DEF Shown, Holding, PC, files, window, fallback, ghosts, others, vars,
           Nothing, Compared, Entered, Guard, Guarded, MayTry, Succeeds, Undo,
           Fail
<1>15. CASE Burn
    BY <1>15 DEF Shown, Holding, PC, files, window, fallback, ghosts, others, vars,
           Nothing, Compared, Entered, Burn, Gone, Torn, Discards
<1>16. CASE CheckStaged
    BY <1>16 DEF Shown, Holding, PC, files, window, fallback, ghosts, others, vars,
           Nothing, Compared, Entered, CheckStaged, StagedMatches, Fail
<1>17. CASE Delete
    BY <1>17 DEF Shown, Holding, PC, files, window, fallback, ghosts, others, vars,
           Nothing, Compared, Entered, Delete, StagedMatches, Gone, Torn,
           Discards, Succeeds, Fail
<1>18. CASE Restore
    BY <1>18 DEF Shown, Holding, PC, files, window, fallback, ghosts, others, vars,
           Nothing, Compared, Entered, Restore, Undo, Fail
<1>19. CASE Unlock
    BY <1>19 DEF Shown, Holding, PC, files, window, fallback, ghosts, others, vars,
           Nothing, Compared, Entered, Unlock
<1>20. CASE Missing
    BY <1>20 DEF Shown, Holding, PC, files, window, fallback, ghosts, others, vars,
           Nothing, Compared, Entered, Missing, Fail
<1>21. CASE Relock
    BY <1>21 DEF Shown, Holding, PC, files, window, fallback, ghosts, others, vars,
           Nothing, Compared, Entered, Relock, TakesLock, Locks, Fail
<1>22. CASE CheckOwner
    BY <1>22 DEF Shown, Holding, PC, files, window, fallback, ghosts, others, vars,
           Nothing, Compared, Entered, CheckOwner, Fail
<1>23. CASE CheckHead
    BY <1>23 DEF Shown, Holding, PC, files, window, fallback, ghosts, others, vars,
           Nothing, Compared, Entered, CheckHead, Fail
<1>24. CASE Prune
    BY <1>24 DEF Shown, Holding, PC, files, window, fallback, ghosts, others, vars,
           Nothing, Compared, Entered, Prune
<1>25. CASE Finish
    BY <1>25 DEF Shown, Holding, PC, files, window, fallback, ghosts, others, vars,
           Nothing, Compared, Entered, Finish, LeavesStaged
<1>26. CASE \E d \in 1 .. MaxDirectories : Edit(d)
    BY <1>26 DEF Shown, Holding, PC, files, window, fallback, ghosts, others, vars,
           Nothing, Compared, Entered, Edit
<1>27. CASE MoveHead
    BY <1>27 DEF Shown, Holding, PC, files, window, fallback, ghosts, others, vars,
           Nothing, Compared, Entered, MoveHead, Registered
<1>28. CASE DeleteElsewhere
    BY <1>28 DEF Shown, Holding, PC, files, window, fallback, ghosts, others, vars,
           Nothing, Compared, Entered, DeleteElsewhere, Gone
<1>29. CASE \E copied \in BOOLEAN : Create(copied)
    BY <1>29 DEF Shown, Holding, PC, files, window, fallback, ghosts, others, vars,
           Nothing, Compared, Entered, Create
<1>30. CASE LockElsewhere
    BY <1>30 DEF Shown, Holding, PC, files, window, fallback, ghosts, others, vars,
           Nothing, Compared, Entered, LockElsewhere
<1>31. CASE UnlockElsewhere
    BY <1>31 DEF Shown, Holding, PC, files, window, fallback, ghosts, others, vars,
           Nothing, Compared, Entered, UnlockElsewhere
<1>32. CASE PruneElsewhere
    BY <1>32 DEF Shown, Holding, PC, files, window, fallback, ghosts, others, vars,
           Nothing, Compared, Entered, PruneElsewhere
<1>33. CASE ClearRefs
    BY <1>33 DEF Shown, Holding, PC, files, window, fallback, ghosts, others, vars,
           Nothing, Compared, Entered, ClearRefs
<1>34. CASE Crash
    BY <1>34 DEF Shown, Holding, PC, files, window, fallback, ghosts, others, vars,
           Nothing, Compared, Entered, Crash, LeavesStaged
<1>35. CASE UNCHANGED vars
    BY <1>35 DEF Shown, Holding, PC, files, window, fallback, ghosts, others, vars,
           Nothing, Compared, Entered
<1> QED
    BY <1>1, <1>2, <1>3, <1>4, <1>5, <1>6, <1>7, <1>8, <1>9, <1>10, <1>11,
       <1>12, <1>13, <1>14, <1>15, <1>16, <1>17, <1>18, <1>19, <1>20,
       <1>21, <1>22, <1>23, <1>24, <1>25, <1>26, <1>27, <1>28, <1>29,
       <1>30, <1>31, <1>32, <1>33, <1>34, <1>35 DEF Next, Asks, Removal, Elsewhere

\* A step keeps every directory at one place.
LEMMA PlacesStep == IInv /\ [Next]_vars => Places'
<1> SUFFICES ASSUME IInv, [Next]_vars PROVE Places'
    OBVIOUS
<1> USE ConstantsAssumption
<1> USE DEF IInv
<1>1. CASE List
    BY <1>1 DEF Places, DirectoriesOK, PC, files, window, fallback, ghosts, others,
           vars, Nothing, Compared, Entered, List, Registered
<1>2. CASE \E requested \in BOOLEAN : Preview(requested)
    BY <1>2 DEF Places, DirectoriesOK, PC, files, window, fallback, ghosts, others,
           vars, Nothing, Compared, Entered, Preview, Registered
<1>3. CASE Dismiss
    BY <1>3 DEF Places, DirectoriesOK, PC, files, window, fallback, ghosts, others,
           vars, Nothing, Compared, Entered, Dismiss
<1>4. CASE Confirm
    BY <1>4 DEF Places, DirectoriesOK, PC, files, window, fallback, ghosts, others,
           vars, Nothing, Compared, Entered, Confirm
<1>5. CASE Validate
    BY <1>5 DEF Places, DirectoriesOK, PC, files, window, fallback, ghosts, others,
           vars, Nothing, Compared, Entered, Validate, Fail, Registered
<1>6. CASE LockRefs
    BY <1>6 DEF Places, DirectoriesOK, PC, files, window, fallback, ghosts, others,
           vars, Nothing, Compared, Entered, LockRefs, LocksRefs, Fail
<1>7. CASE Inspect
    BY <1>7 DEF Places, DirectoriesOK, PC, files, window, fallback, ghosts, others,
           vars, Nothing, Compared, Entered, Inspect, Fail, Registered
<1>8. CASE CheckLock
    BY <1>8 DEF Places, DirectoriesOK, PC, files, window, fallback, ghosts, others,
           vars, Nothing, Compared, Entered, CheckLock, Fail
<1>9. CASE Remove
    BY <1>9 DEF Places, DirectoriesOK, PC, files, window, fallback, ghosts, others,
           vars, Nothing, Compared, Entered, Remove, Fail, Registered
<1>10. CASE Acquire
    BY <1>10 DEF Places, DirectoriesOK, PC, files, window, fallback, ghosts, others,
           vars, Nothing, Compared, Entered, Acquire, TakesLock, Locks, Fail
<1>11. CASE Recheck
    BY <1>11 DEF Places, DirectoriesOK, PC, files, window, fallback, ghosts, others,
           vars, Nothing, Compared, Entered, Recheck, Clean, Registered, Undo,
           Fail
<1>12. CASE Rename
    BY <1>12 DEF Places, DirectoriesOK, PC, files, window, fallback, ghosts, others,
           vars, Nothing, Compared, Entered, Rename, Undo, Fail
<1>13. CASE Fallback
    BY <1>13 DEF Places, DirectoriesOK, PC, files, window, fallback, ghosts, others,
           vars, Nothing, Compared, Entered, Fallback, Undo, Fail
<1>14. CASE Guard
    BY <1>14 DEF Places, DirectoriesOK, PC, files, window, fallback, ghosts, others,
           vars, Nothing, Compared, Entered, Guard, Guarded, MayTry, Succeeds,
           Undo, Fail
<1>15. CASE Burn
    <2> USE <1>15 DEF DirectoriesOK, Places, Burn, Discards, files, window, ghosts, Nothing
    <2>1. CASE path # Nothing /\ Gone(path) /\ path' = Nothing /\ Discards(path)
        BY <2>1 DEF Gone
    <2>2. CASE path # Nothing /\ Torn(path) /\ UNCHANGED <<path, discarded>>
        BY <2>2 DEF Torn
    <2>3. CASE path = Nothing /\ UNCHANGED <<path, linked, edited, discarded>>
        BY <2>3
    <2> QED
        BY <2>1, <2>2, <2>3
<1>16. CASE CheckStaged
    BY <1>16 DEF Places, DirectoriesOK, PC, files, window, fallback, ghosts, others,
           vars, Nothing, Compared, Entered, CheckStaged, StagedMatches, Fail
<1>17. CASE Delete
    <2> USE <1>17 DEF DirectoriesOK, Places, Delete, Discards, window, ghosts, Nothing, Fail, Succeeds
    <2>1. CASE Gone(staging) /\ staging' = Nothing /\ Discards(staging)
                /\ deleted' = deleted \cup {staging} /\ StagedMatches /\ Succeeds
        BY <2>1 DEF Gone, StagedMatches
    <2>2. CASE Torn(staging) /\ StagedMatches /\ UNCHANGED <<staging, removed, deleted, discarded>>
        BY <2>2 DEF Torn
    <2>3. CASE ~ StagedMatches /\ UNCHANGED <<staging, linked, edited, removed, deleted, discarded>>
        BY <2>3
    <2> QED
        BY <2>1, <2>2, <2>3
<1>18. CASE Restore
    BY <1>18 DEF Places, DirectoriesOK, PC, files, window, fallback, ghosts, others,
           vars, Nothing, Compared, Entered, Restore, Undo, Fail
<1>19. CASE Unlock
    BY <1>19 DEF Places, DirectoriesOK, PC, files, window, fallback, ghosts, others,
           vars, Nothing, Compared, Entered, Unlock
<1>20. CASE Missing
    BY <1>20 DEF Places, DirectoriesOK, PC, files, window, fallback, ghosts, others,
           vars, Nothing, Compared, Entered, Missing, Fail
<1>21. CASE Relock
    BY <1>21 DEF Places, DirectoriesOK, PC, files, window, fallback, ghosts, others,
           vars, Nothing, Compared, Entered, Relock, TakesLock, Locks, Fail
<1>22. CASE CheckOwner
    BY <1>22 DEF Places, DirectoriesOK, PC, files, window, fallback, ghosts, others,
           vars, Nothing, Compared, Entered, CheckOwner, Fail
<1>23. CASE CheckHead
    BY <1>23 DEF Places, DirectoriesOK, PC, files, window, fallback, ghosts, others,
           vars, Nothing, Compared, Entered, CheckHead, Fail
<1>24. CASE Prune
    BY <1>24 DEF Places, DirectoriesOK, PC, files, window, fallback, ghosts, others,
           vars, Nothing, Compared, Entered, Prune
<1>25. CASE Finish
    BY <1>25 DEF Places, DirectoriesOK, PC, files, window, fallback, ghosts, others,
           vars, Nothing, Compared, Entered, Finish, LeavesStaged
<1>26. CASE \E d \in 1 .. MaxDirectories : Edit(d)
    BY <1>26 DEF Places, DirectoriesOK, PC, files, window, fallback, ghosts, others,
           vars, Nothing, Compared, Entered, Edit
<1>27. CASE MoveHead
    BY <1>27 DEF Places, DirectoriesOK, PC, files, window, fallback, ghosts, others,
           vars, Nothing, Compared, Entered, MoveHead, Registered
<1>28. CASE DeleteElsewhere
    BY <1>28 DEF Places, DirectoriesOK, PC, files, window, fallback, ghosts, others,
           vars, Nothing, Compared, Entered, DeleteElsewhere, Gone
<1>29. CASE \E copied \in BOOLEAN : Create(copied)
    BY <1>29 DEF Places, DirectoriesOK, PC, files, window, fallback, ghosts, others,
           vars, Nothing, Compared, Entered, Create
<1>30. CASE LockElsewhere
    BY <1>30 DEF Places, DirectoriesOK, PC, files, window, fallback, ghosts, others,
           vars, Nothing, Compared, Entered, LockElsewhere
<1>31. CASE UnlockElsewhere
    BY <1>31 DEF Places, DirectoriesOK, PC, files, window, fallback, ghosts, others,
           vars, Nothing, Compared, Entered, UnlockElsewhere
<1>32. CASE PruneElsewhere
    BY <1>32 DEF Places, DirectoriesOK, PC, files, window, fallback, ghosts, others,
           vars, Nothing, Compared, Entered, PruneElsewhere
<1>33. CASE ClearRefs
    BY <1>33 DEF Places, DirectoriesOK, PC, files, window, fallback, ghosts, others,
           vars, Nothing, Compared, Entered, ClearRefs
<1>34. CASE Crash
    BY <1>34 DEF Places, DirectoriesOK, PC, files, window, fallback, ghosts, others,
           vars, Nothing, Compared, Entered, Crash, LeavesStaged
<1>35. CASE UNCHANGED vars
    BY <1>35 DEF Places, DirectoriesOK, PC, files, window, fallback, ghosts, others,
           vars, Nothing, Compared, Entered
<1> QED
    BY <1>1, <1>2, <1>3, <1>4, <1>5, <1>6, <1>7, <1>8, <1>9, <1>10, <1>11,
       <1>12, <1>13, <1>14, <1>15, <1>16, <1>17, <1>18, <1>19, <1>20,
       <1>21, <1>22, <1>23, <1>24, <1>25, <1>26, <1>27, <1>28, <1>29,
       <1>30, <1>31, <1>32, <1>33, <1>34, <1>35 DEF Next, Asks, Removal, Elsewhere

\* A step keeps the work that was guarded.
LEMMA UnguardedStep == IInv /\ [Next]_vars => Unguarded'
<1> SUFFICES ASSUME IInv, [Next]_vars PROVE Unguarded'
    OBVIOUS
<1> USE ConstantsAssumption
<1> USE DEF IInv
<1>1. CASE List
    BY <1>1 DEF DirectoriesOK, Shown, Holding, Places, Unguarded,
           GuardedWorkIsKept, PC, files, window, fallback, ghosts, others,
           vars, Nothing, Compared, Entered, List, Registered
<1>2. CASE \E requested \in BOOLEAN : Preview(requested)
    BY <1>2 DEF DirectoriesOK, Shown, Holding, Places, Unguarded,
           GuardedWorkIsKept, PC, files, window, fallback, ghosts, others,
           vars, Nothing, Compared, Entered, Preview, Registered
<1>3. CASE Dismiss
    BY <1>3 DEF DirectoriesOK, Shown, Holding, Places, Unguarded,
           GuardedWorkIsKept, PC, files, window, fallback, ghosts, others,
           vars, Nothing, Compared, Entered, Dismiss
<1>4. CASE Confirm
    BY <1>4 DEF DirectoriesOK, Shown, Holding, Places, Unguarded,
           GuardedWorkIsKept, PC, files, window, fallback, ghosts, others,
           vars, Nothing, Compared, Entered, Confirm
<1>5. CASE Validate
    BY <1>5 DEF DirectoriesOK, Shown, Holding, Places, Unguarded,
           GuardedWorkIsKept, PC, files, window, fallback, ghosts, others,
           vars, Nothing, Compared, Entered, Validate, Fail, Registered
<1>6. CASE LockRefs
    BY <1>6 DEF DirectoriesOK, Shown, Holding, Places, Unguarded,
           GuardedWorkIsKept, PC, files, window, fallback, ghosts, others,
           vars, Nothing, Compared, Entered, LockRefs, LocksRefs, Fail
<1>7. CASE Inspect
    BY <1>7 DEF DirectoriesOK, Shown, Holding, Places, Unguarded,
           GuardedWorkIsKept, PC, files, window, fallback, ghosts, others,
           vars, Nothing, Compared, Entered, Inspect, Fail, Registered
<1>8. CASE CheckLock
    BY <1>8 DEF DirectoriesOK, Shown, Holding, Places, Unguarded,
           GuardedWorkIsKept, PC, files, window, fallback, ghosts, others,
           vars, Nothing, Compared, Entered, CheckLock, Fail
<1>9. CASE Remove
    BY <1>9 DEF DirectoriesOK, Shown, Holding, Places, Unguarded,
           GuardedWorkIsKept, PC, files, window, fallback, ghosts, others,
           vars, Nothing, Compared, Entered, Remove, Fail, Registered
<1>10. CASE Acquire
    BY <1>10 DEF DirectoriesOK, Shown, Holding, Places, Unguarded,
           GuardedWorkIsKept, PC, files, window, fallback, ghosts, others,
           vars, Nothing, Compared, Entered, Acquire, TakesLock, Locks, Fail
<1>11. CASE Recheck
    BY <1>11 DEF DirectoriesOK, Shown, Holding, Places, Unguarded,
           GuardedWorkIsKept, PC, files, window, fallback, ghosts, others,
           vars, Nothing, Compared, Entered, Recheck, Clean, Registered, Undo,
           Fail
<1>12. CASE Rename
    BY <1>12 DEF DirectoriesOK, Shown, Holding, Places, Unguarded,
           GuardedWorkIsKept, PC, files, window, fallback, ghosts, others,
           vars, Nothing, Compared, Entered, Rename, Undo, Fail
<1>13. CASE Fallback
    BY <1>13 DEF DirectoriesOK, Shown, Holding, Places, Unguarded,
           GuardedWorkIsKept, PC, files, window, fallback, ghosts, others,
           vars, Nothing, Compared, Entered, Fallback, Undo, Fail
<1>14. CASE Guard
    BY <1>14 DEF DirectoriesOK, Shown, Holding, Places, Unguarded,
           GuardedWorkIsKept, PC, files, window, fallback, ghosts, others,
           vars, Nothing, Compared, Entered, Guard, Guarded, MayTry, Succeeds,
           Undo, Fail
<1>15. CASE Burn
    BY <1>15 DEF DirectoriesOK, Shown, Holding, Places, Unguarded,
           GuardedWorkIsKept, PC, files, window, fallback, ghosts, others,
           vars, Nothing, Compared, Entered, Burn, Gone, Torn, Discards
<1>16. CASE CheckStaged
    BY <1>16 DEF DirectoriesOK, Shown, Holding, Places, Unguarded,
           GuardedWorkIsKept, PC, files, window, fallback, ghosts, others,
           vars, Nothing, Compared, Entered, CheckStaged, StagedMatches, Fail
<1>17. CASE Delete
    BY <1>17 DEF DirectoriesOK, Shown, Holding, Places, Unguarded,
           GuardedWorkIsKept, PC, files, window, fallback, ghosts, others,
           vars, Nothing, Compared, Entered, Delete, StagedMatches, Gone,
           Torn, Discards, Succeeds, Fail
<1>18. CASE Restore
    BY <1>18 DEF DirectoriesOK, Shown, Holding, Places, Unguarded,
           GuardedWorkIsKept, PC, files, window, fallback, ghosts, others,
           vars, Nothing, Compared, Entered, Restore, Undo, Fail
<1>19. CASE Unlock
    BY <1>19 DEF DirectoriesOK, Shown, Holding, Places, Unguarded,
           GuardedWorkIsKept, PC, files, window, fallback, ghosts, others,
           vars, Nothing, Compared, Entered, Unlock
<1>20. CASE Missing
    BY <1>20 DEF DirectoriesOK, Shown, Holding, Places, Unguarded,
           GuardedWorkIsKept, PC, files, window, fallback, ghosts, others,
           vars, Nothing, Compared, Entered, Missing, Fail
<1>21. CASE Relock
    BY <1>21 DEF DirectoriesOK, Shown, Holding, Places, Unguarded,
           GuardedWorkIsKept, PC, files, window, fallback, ghosts, others,
           vars, Nothing, Compared, Entered, Relock, TakesLock, Locks, Fail
<1>22. CASE CheckOwner
    BY <1>22 DEF DirectoriesOK, Shown, Holding, Places, Unguarded,
           GuardedWorkIsKept, PC, files, window, fallback, ghosts, others,
           vars, Nothing, Compared, Entered, CheckOwner, Fail
<1>23. CASE CheckHead
    BY <1>23 DEF DirectoriesOK, Shown, Holding, Places, Unguarded,
           GuardedWorkIsKept, PC, files, window, fallback, ghosts, others,
           vars, Nothing, Compared, Entered, CheckHead, Fail
<1>24. CASE Prune
    BY <1>24 DEF DirectoriesOK, Shown, Holding, Places, Unguarded,
           GuardedWorkIsKept, PC, files, window, fallback, ghosts, others,
           vars, Nothing, Compared, Entered, Prune
<1>25. CASE Finish
    BY <1>25 DEF DirectoriesOK, Shown, Holding, Places, Unguarded,
           GuardedWorkIsKept, PC, files, window, fallback, ghosts, others,
           vars, Nothing, Compared, Entered, Finish, LeavesStaged
<1>26. CASE \E d \in 1 .. MaxDirectories : Edit(d)
    BY <1>26 DEF DirectoriesOK, Shown, Holding, Places, Unguarded,
           GuardedWorkIsKept, PC, files, window, fallback, ghosts, others,
           vars, Nothing, Compared, Entered, Edit
<1>27. CASE MoveHead
    BY <1>27 DEF DirectoriesOK, Shown, Holding, Places, Unguarded,
           GuardedWorkIsKept, PC, files, window, fallback, ghosts, others,
           vars, Nothing, Compared, Entered, MoveHead, Registered
<1>28. CASE DeleteElsewhere
    BY <1>28 DEF DirectoriesOK, Shown, Holding, Places, Unguarded,
           GuardedWorkIsKept, PC, files, window, fallback, ghosts, others,
           vars, Nothing, Compared, Entered, DeleteElsewhere, Gone
<1>29. CASE \E copied \in BOOLEAN : Create(copied)
    BY <1>29 DEF DirectoriesOK, Shown, Holding, Places, Unguarded,
           GuardedWorkIsKept, PC, files, window, fallback, ghosts, others,
           vars, Nothing, Compared, Entered, Create
<1>30. CASE LockElsewhere
    BY <1>30 DEF DirectoriesOK, Shown, Holding, Places, Unguarded,
           GuardedWorkIsKept, PC, files, window, fallback, ghosts, others,
           vars, Nothing, Compared, Entered, LockElsewhere
<1>31. CASE UnlockElsewhere
    BY <1>31 DEF DirectoriesOK, Shown, Holding, Places, Unguarded,
           GuardedWorkIsKept, PC, files, window, fallback, ghosts, others,
           vars, Nothing, Compared, Entered, UnlockElsewhere
<1>32. CASE PruneElsewhere
    BY <1>32 DEF DirectoriesOK, Shown, Holding, Places, Unguarded,
           GuardedWorkIsKept, PC, files, window, fallback, ghosts, others,
           vars, Nothing, Compared, Entered, PruneElsewhere
<1>33. CASE ClearRefs
    BY <1>33 DEF DirectoriesOK, Shown, Holding, Places, Unguarded,
           GuardedWorkIsKept, PC, files, window, fallback, ghosts, others,
           vars, Nothing, Compared, Entered, ClearRefs
<1>34. CASE Crash
    BY <1>34 DEF DirectoriesOK, Shown, Holding, Places, Unguarded,
           GuardedWorkIsKept, PC, files, window, fallback, ghosts, others,
           vars, Nothing, Compared, Entered, Crash, LeavesStaged
<1>35. CASE UNCHANGED vars
    BY <1>35 DEF DirectoriesOK, Shown, Holding, Places, Unguarded,
           GuardedWorkIsKept, PC, files, window, fallback, ghosts, others,
           vars, Nothing, Compared, Entered
<1> QED
    BY <1>1, <1>2, <1>3, <1>4, <1>5, <1>6, <1>7, <1>8, <1>9, <1>10, <1>11,
       <1>12, <1>13, <1>14, <1>15, <1>16, <1>17, <1>18, <1>19, <1>20,
       <1>21, <1>22, <1>23, <1>24, <1>25, <1>26, <1>27, <1>28, <1>29,
       <1>30, <1>31, <1>32, <1>33, <1>34, <1>35 DEF Next, Asks, Removal, Elsewhere

\* A step keeps what is still to be put back.
LEMMA OwedStep == IInv /\ [Next]_vars => Owed'
<1> SUFFICES ASSUME IInv, [Next]_vars PROVE Owed'
    OBVIOUS
<1> USE ConstantsAssumption
<1> USE DEF IInv
<1>1. CASE List
    BY <1>1 DEF Holding, Places, Owed, PC, files, window, fallback, ghosts, others,
           vars, Nothing, Compared, Entered, List, Registered
<1>2. CASE \E requested \in BOOLEAN : Preview(requested)
    BY <1>2 DEF Holding, Places, Owed, PC, files, window, fallback, ghosts, others,
           vars, Nothing, Compared, Entered, Preview, Registered
<1>3. CASE Dismiss
    BY <1>3 DEF Holding, Places, Owed, PC, files, window, fallback, ghosts, others,
           vars, Nothing, Compared, Entered, Dismiss
<1>4. CASE Confirm
    BY <1>4 DEF Holding, Places, Owed, PC, files, window, fallback, ghosts, others,
           vars, Nothing, Compared, Entered, Confirm
<1>5. CASE Validate
    BY <1>5 DEF Holding, Places, Owed, PC, files, window, fallback, ghosts, others,
           vars, Nothing, Compared, Entered, Validate, Fail, Registered
<1>6. CASE LockRefs
    BY <1>6 DEF Holding, Places, Owed, PC, files, window, fallback, ghosts, others,
           vars, Nothing, Compared, Entered, LockRefs, LocksRefs, Fail
<1>7. CASE Inspect
    BY <1>7 DEF Holding, Places, Owed, PC, files, window, fallback, ghosts, others,
           vars, Nothing, Compared, Entered, Inspect, Fail, Registered
<1>8. CASE CheckLock
    BY <1>8 DEF Holding, Places, Owed, PC, files, window, fallback, ghosts, others,
           vars, Nothing, Compared, Entered, CheckLock, Fail
<1>9. CASE Remove
    BY <1>9 DEF Holding, Places, Owed, PC, files, window, fallback, ghosts, others,
           vars, Nothing, Compared, Entered, Remove, Fail, Registered
<1>10. CASE Acquire
    BY <1>10 DEF Holding, Places, Owed, PC, files, window, fallback, ghosts, others,
           vars, Nothing, Compared, Entered, Acquire, TakesLock, Locks, Fail
<1>11. CASE Recheck
    BY <1>11 DEF Holding, Places, Owed, PC, files, window, fallback, ghosts, others,
           vars, Nothing, Compared, Entered, Recheck, Clean, Registered, Undo,
           Fail
<1>12. CASE Rename
    BY <1>12 DEF Holding, Places, Owed, PC, files, window, fallback, ghosts, others,
           vars, Nothing, Compared, Entered, Rename, Undo, Fail
<1>13. CASE Fallback
    BY <1>13 DEF Holding, Places, Owed, PC, files, window, fallback, ghosts, others,
           vars, Nothing, Compared, Entered, Fallback, Undo, Fail
<1>14. CASE Guard
    BY <1>14 DEF Holding, Places, Owed, PC, files, window, fallback, ghosts, others,
           vars, Nothing, Compared, Entered, Guard, Guarded, MayTry, Succeeds,
           Undo, Fail
<1>15. CASE Burn
    BY <1>15 DEF Holding, Places, Owed, PC, files, window, fallback, ghosts, others,
           vars, Nothing, Compared, Entered, Burn, Gone, Torn, Discards
<1>16. CASE CheckStaged
    BY <1>16 DEF Holding, Places, Owed, PC, files, window, fallback, ghosts, others,
           vars, Nothing, Compared, Entered, CheckStaged, StagedMatches, Fail
<1>17. CASE Delete
    BY <1>17 DEF Holding, Places, Owed, PC, files, window, fallback, ghosts, others,
           vars, Nothing, Compared, Entered, Delete, StagedMatches, Gone,
           Torn, Discards, Succeeds, Fail
<1>18. CASE Restore
    BY <1>18 DEF Holding, Places, Owed, PC, files, window, fallback, ghosts, others,
           vars, Nothing, Compared, Entered, Restore, Undo, Fail
<1>19. CASE Unlock
    BY <1>19 DEF Holding, Places, Owed, PC, files, window, fallback, ghosts, others,
           vars, Nothing, Compared, Entered, Unlock
<1>20. CASE Missing
    BY <1>20 DEF Holding, Places, Owed, PC, files, window, fallback, ghosts, others,
           vars, Nothing, Compared, Entered, Missing, Fail
<1>21. CASE Relock
    BY <1>21 DEF Holding, Places, Owed, PC, files, window, fallback, ghosts, others,
           vars, Nothing, Compared, Entered, Relock, TakesLock, Locks, Fail
<1>22. CASE CheckOwner
    BY <1>22 DEF Holding, Places, Owed, PC, files, window, fallback, ghosts, others,
           vars, Nothing, Compared, Entered, CheckOwner, Fail
<1>23. CASE CheckHead
    BY <1>23 DEF Holding, Places, Owed, PC, files, window, fallback, ghosts, others,
           vars, Nothing, Compared, Entered, CheckHead, Fail
<1>24. CASE Prune
    BY <1>24 DEF Holding, Places, Owed, PC, files, window, fallback, ghosts, others,
           vars, Nothing, Compared, Entered, Prune
<1>25. CASE Finish
    BY <1>25 DEF Holding, Places, Owed, PC, files, window, fallback, ghosts, others,
           vars, Nothing, Compared, Entered, Finish, LeavesStaged
<1>26. CASE \E d \in 1 .. MaxDirectories : Edit(d)
    BY <1>26 DEF Holding, Places, Owed, PC, files, window, fallback, ghosts, others,
           vars, Nothing, Compared, Entered, Edit
<1>27. CASE MoveHead
    BY <1>27 DEF Holding, Places, Owed, PC, files, window, fallback, ghosts, others,
           vars, Nothing, Compared, Entered, MoveHead, Registered
<1>28. CASE DeleteElsewhere
    BY <1>28 DEF Holding, Places, Owed, PC, files, window, fallback, ghosts, others,
           vars, Nothing, Compared, Entered, DeleteElsewhere, Gone
<1>29. CASE \E copied \in BOOLEAN : Create(copied)
    BY <1>29 DEF Holding, Places, Owed, PC, files, window, fallback, ghosts, others,
           vars, Nothing, Compared, Entered, Create
<1>30. CASE LockElsewhere
    BY <1>30 DEF Holding, Places, Owed, PC, files, window, fallback, ghosts, others,
           vars, Nothing, Compared, Entered, LockElsewhere
<1>31. CASE UnlockElsewhere
    BY <1>31 DEF Holding, Places, Owed, PC, files, window, fallback, ghosts, others,
           vars, Nothing, Compared, Entered, UnlockElsewhere
<1>32. CASE PruneElsewhere
    BY <1>32 DEF Holding, Places, Owed, PC, files, window, fallback, ghosts, others,
           vars, Nothing, Compared, Entered, PruneElsewhere
<1>33. CASE ClearRefs
    BY <1>33 DEF Holding, Places, Owed, PC, files, window, fallback, ghosts, others,
           vars, Nothing, Compared, Entered, ClearRefs
<1>34. CASE Crash
    BY <1>34 DEF Holding, Places, Owed, PC, files, window, fallback, ghosts, others,
           vars, Nothing, Compared, Entered, Crash, LeavesStaged
<1>35. CASE UNCHANGED vars
    BY <1>35 DEF Holding, Places, Owed, PC, files, window, fallback, ghosts, others,
           vars, Nothing, Compared, Entered
<1> QED
    BY <1>1, <1>2, <1>3, <1>4, <1>5, <1>6, <1>7, <1>8, <1>9, <1>10, <1>11,
       <1>12, <1>13, <1>14, <1>15, <1>16, <1>17, <1>18, <1>19, <1>20,
       <1>21, <1>22, <1>23, <1>24, <1>25, <1>26, <1>27, <1>28, <1>29,
       <1>30, <1>31, <1>32, <1>33, <1>34, <1>35 DEF Next, Asks, Removal, Elsewhere

\* The worktree stands, nothing is removed and nobody holds anything.
LEMMA Initially == Init => IInv
<1> SUFFICES ASSUME Init PROVE IInv
    OBVIOUS
<1> USE ConstantsAssumption DEF Init, Nothing
<1>1. DirectoriesOK
    BY DEF DirectoriesOK
<1>6. FlagsOK
    BY DEF FlagsOK
<1>2. Scalars /\ Tries
    BY DEF Scalars, Tries, PC
<1>3. Shown /\ Holding
    BY DEF Shown, Holding, Compared, Entered
<1>4. Places /\ Unguarded
    BY DEF Places, Unguarded, GuardedWorkIsKept
<1>5. Owed
    BY DEF Owed, Entered
<1> QED
    BY <1>1, <1>2, <1>3, <1>4, <1>5, <1>6 DEF IInv

\* The invariant behind the others holds in every state of every behaviour.
THEOREM Inductive == Spec => []IInv
<1>1. Init => IInv
    BY Initially
<1>2. IInv /\ [Next]_vars => IInv'
    BY DirectoriesStep, FlagsStep, ScalarsStep, TriesStep, ShownStep, HoldingStep,
       PlacesStep, UnguardedStep, OwedStep DEF IInv
<1> QED
    BY <1>1, <1>2, PTL DEF Spec

\* Every variable keeps its type, and every directory is one of those made.
THEOREM TypeCorrect == Spec => []TypeOK
<1>1. IInv => TypeOK
    BY DEF IInv, TypeOK, Scalars
<1> QED
    BY <1>1, Inductive, PTL

\* A regular removal never deletes the work it could see once it had its lock.
THEOREM GuardedCorrect == Spec => []GuardedWorkIsKept
<1>1. IInv => GuardedWorkIsKept
    BY DEF IInv, Unguarded
<1> QED
    BY <1>1, Inductive, PTL

\* A removal that failed, unless it was killed or refused a restoring call, leaves
\* neither a staged directory nor its own entry.
THEOREM RestoresCorrect == Spec => []FailureRestores
<1>1. IInv => FailureRestores
    BY DEF IInv, Owed, FailureRestores, Entered
<1> QED
    BY <1>1, Inductive, PTL

\* Only the directory that was previewed is deleted from the staging path.
THEOREM PreviewedCorrect == Spec => OnlyPreviewedIsDeleted
<1>1. [Next]_vars => [deleted' # deleted => deleted' = deleted \cup {link}]_vars
  <2> SUFFICES ASSUME [Next]_vars, deleted' # deleted
               PROVE  deleted' = deleted \cup {link}
      OBVIOUS
  <2>1. Delete
      BY DEF Next, Asks, Removal, Elsewhere, vars, ghosts, files, window, fallback, others,
         List, Preview, Dismiss, Confirm, Validate, LockRefs, Inspect, CheckLock,
         Remove, Acquire, Recheck, Rename, Fallback, Guard, Burn, CheckStaged,
         Restore, Unlock, Missing, Relock, CheckOwner, CheckHead, Prune, Finish,
         Edit, MoveHead, DeleteElsewhere, Create, LockElsewhere, UnlockElsewhere,
         PruneElsewhere, ClearRefs, Crash, TakesLock, LeavesStaged
  <2> QED
      BY <2>1 DEF Delete, StagedMatches, Fail
<1> QED
    BY <1>1, PTL DEF Spec, OnlyPreviewedIsDeleted

\* Metadata is pruned only at the commit the dialog showed.
THEOREM PrunedCorrect == Spec => PrunedAsShown
<1>1. IInv /\ [Next]_vars =>
        [pc = "prune" /\ metadata' # metadata /\ platform # "windows" => head = seen]_vars
    BY DEF IInv, Shown, Compared
<1> QED
    BY <1>1, Inductive, PTL DEF Spec, PrunedAsShown

\* A regular removal destroys something only while its own entry stands.
THEOREM LocksCorrect == Spec => LocksAreRespected
<1>1. IInv /\ [Next]_vars => [Destroys /\ ~ force /\ ~ unlocked => lock = "removal"]_vars
  <2> SUFFICES ASSUME IInv, [Next]_vars, Destroys, ~ force, ~ unlocked
               PROVE  lock = "removal"
      OBVIOUS
  <2>1. CASE deleted' # deleted
    <3>1. Delete
        BY <2>1 DEF Next, Asks, Removal, Elsewhere, vars, ghosts, files, window, fallback, others,
         List, Preview, Dismiss, Confirm, Validate, LockRefs, Inspect, CheckLock,
         Remove, Acquire, Recheck, Rename, Fallback, Guard, Burn, CheckStaged,
         Restore, Unlock, Missing, Relock, CheckOwner, CheckHead, Prune, Finish,
         Edit, MoveHead, DeleteElsewhere, Create, LockElsewhere, UnlockElsewhere,
         PruneElsewhere, ClearRefs, Crash, TakesLock, LeavesStaged
    <3> QED
        BY <3>1 DEF Delete, IInv, Holding, Entered
  <2>2. CASE pc \in {"burn", "prune"}
      BY <2>2 DEF IInv, Holding, Entered
  <2> QED
      BY <2>1, <2>2 DEF Destroys
<1> QED
    BY <1>1, Inductive, PTL DEF Spec, LocksAreRespected

\* A directory that a regular removal puts back still has its metadata.
THEOREM RegisteredCorrect == Spec => RestoredIsRegistered
<1>1. IInv /\ [Next]_vars =>
        [pc = "restore" /\ path' # path /\ owned /\ ~ unlocked => metadata = "kept"]_vars
    BY DEF IInv, Holding, Entered
<1> QED
    BY <1>1, Inductive, PTL DEF Spec, RestoredIsRegistered

\* Nothing a regular removal finds is lost: it is kept, or put back.
THEOREM KeptCorrect == Spec => []WorkIsKept
<1>1. GuardedWorkIsKept /\ FailureRestores => WorkIsKept
    BY DEF WorkIsKept
<1> QED
    BY <1>1, GuardedCorrect, RestoresCorrect, PTL

\* Only what the dialog showed is destroyed, at the commit it showed.
THEOREM AsShownCorrect == Spec => RemovesAsShown
<1> QED
    BY PreviewedCorrect, PrunedCorrect DEF RemovesAsShown

\* Nothing is destroyed or put back but under the removal's own lock.
THEOREM OwnLockCorrect == Spec => OwnLockOnly
<1> QED
    BY LocksCorrect, RegisteredCorrect DEF OwnLockOnly
==============================================================================
