--------------------- MODULE RepositoryOperationsProofs ---------------------
(* Proofs that RepositoryOperations keeps its promises, for any number of
   operations, repositories, searches and changes of the task. *)
EXTENDS RepositoryOperations, TLAPS

NumbersOK ==
    /\ generation \in 0 .. MaxGenerations /\ home \subseteq 1 .. generation
    /\ shownFor \in 0 .. generation /\ confirmFor \in 0 .. generation
    /\ cleanupFor \in 0 .. generation /\ launchFor \in 0 .. generation
    /\ asked \in 0 .. MaxRequests /\ commits \in 0 .. asked
    /\ version \in 1 .. MaxVersions /\ known \in 1 .. version
    /\ confirmTask \in 0 .. version /\ cleanupTask \in 0 .. version
    /\ launchTask \in 0 .. version /\ context \in 0 .. version

WindowOK ==
    /\ shown \in Listings /\ confirm \in {"none", "operation", "cleanup"}
    /\ cleanup \in {"none", "waiting", "ready"}
    /\ launch \in {"none", "waiting", "ready"}
    /\ stage \in {"user", "poll", "launch", "refresh"}
    /\ worktree \in {"listed", "missing", "absent", "orphan"}

FlagsOK == cleanupMissing \in BOOLEAN /\ cleaned \in BOOLEAN /\ needsRefresh \in BOOLEAN

ThreadsOK ==
    /\ ops \subseteq Slots /\ visit \subseteq ops /\ late \subseteq Slots
    /\ stage # "poll" => visit = {}
    /\ worker \in [Slots -> {"none", "running"} \cup Ended]
    /\ kind \in [Slots -> Kinds] /\ issued \in [Slots -> 0 .. generation]
    /\ request \in [Slots -> 0 .. asked] /\ report \in [Slots -> Listings]

\* A slot is pending exactly while its thread runs or its answer waits: not even a
\* time-out frees it.
Pending == \A i \in Slots : i \in ops <=> worker[i] # "none"

\* What an operation can answer.
Answers ==
    \A i \in ops :
        /\ kind[i] = "removal" => worker[i] \in {"running", "success", "error", "dead"}
        /\ worker[i] = "success" => kind[i] \in {"mutate", "removal"}

\* Only searches run beside another operation.
Alone == \A i, j \in ops : kind[i] # "search" /\ kind[j] # "search" => i = j

\* Nothing else is under way while a confirmation stands.
Modal ==
    confirm # "none" =>
      /\ ops = {}
      /\ confirmTask # 0 => confirm = "cleanup"

\* A launch and the preview it leads to follow each other, and a launch that is ready
\* has the list it waited for.
Cleanups ==
    /\ launch # "none" => cleanup = "none"
    /\ launch = "ready" /\ launchFor = generation => shownFor = generation

IInv ==
    /\ NumbersOK /\ WindowOK /\ FlagsOK /\ ThreadsOK /\ Pending /\ Answers
    /\ Alone /\ Modal /\ ResultsAreCurrent /\ Cleanups /\ ContextHasRemoval

\* A step keeps the numbers in their ranges.
LEMMA NumbersStep == IInv /\ [Next]_vars => NumbersOK'
<1> SUFFICES ASSUME IInv, [Next]_vars PROVE NumbersOK'
    OBVIOUS
<1> USE ConstantsAssumption
<1> USE DEF IInv
<1>1. CASE Opens
    BY <1>1 DEF NumbersOK, lists, dialog, preview, launching, threads, task,
           window, vars, Opens, Acting, Busy, Open, DropsLaunch, DropsPreview
<1>2. CASE Mutates
    BY <1>2 DEF NumbersOK, lists, dialog, preview, launching, threads, task,
           window, vars, Mutates, Acting, Busy, MayStart, Starts
<1>3. CASE Clones
    BY <1>3 DEF NumbersOK, lists, dialog, preview, launching, threads, task,
           window, vars, Clones, Acting, Busy, Starts
<1>4. CASE Refreshes
    BY <1>4 DEF NumbersOK, lists, dialog, preview, launching, threads, task,
           window, vars, Refreshes, Acting, Busy, MayStart, Starts
<1>5. CASE Searches
    BY <1>5 DEF NumbersOK, lists, dialog, preview, launching, threads, task,
           window, vars, Searches, Acting, MayStart, Starts
<1>6. CASE Asks
    BY <1>6 DEF NumbersOK, lists, dialog, preview, launching, threads, task,
           window, vars, Asks, Acting, Busy
<1>7. CASE PreviewsListed
    BY <1>7 DEF NumbersOK, lists, dialog, preview, launching, threads, task,
           window, vars, PreviewsListed, Acting, Busy, Previews, Starts
<1>8. CASE PreviewsTask
  <2>1. /\ known' = version /\ version' = version /\ confirmFor' = confirmFor
        /\ confirmTask' = confirmTask /\ context' = context
      BY <1>8 DEF PreviewsTask, Acting, dialog
  <2>2. CASE generation \in home
    <3>1. /\ generation' = generation /\ home' = home /\ shownFor' = shownFor
          /\ asked' = asked /\ commits' = commits
          /\ launchFor' = launchFor /\ launchTask' = launchTask
        BY <1>8, <2>2 DEF PreviewsTask, lists, launching
    <3>2. \/ cleanupFor' = generation /\ cleanupTask' = known
          \/ cleanupFor' = cleanupFor /\ cleanupTask' = cleanupTask
        BY <1>8, <2>2 DEF PreviewsTask, StartsCleanup, Previews, preview
    <3> QED
        BY <2>1, <3>1, <3>2 DEF NumbersOK
  <2>3. CASE generation \notin home
    <3>1. Open(TRUE) /\ launchFor' = generation' /\ launchTask' = known
        BY <1>8, <2>3 DEF PreviewsTask
    <3> QED
        BY <2>1, <3>1 DEF NumbersOK, Open, DropsPreview
  <2> QED
      BY <2>2, <2>3
<1>9. CASE Confirms
    BY <1>9 DEF NumbersOK, lists, dialog, preview, launching, threads, task,
           window, vars, Confirms, Acting, DropsDialog, Matches, Starts
<1>10. CASE Cancels
    BY <1>10 DEF NumbersOK, lists, dialog, preview, launching, threads, task,
           window, vars, Cancels, Acting, DropsDialog
<1>11. CASE Frame
    BY <1>11 DEF NumbersOK, lists, dialog, preview, launching, threads, task,
           window, vars, Frame
<1>12. CASE \E i \in Slots : Waits(i)
  <2>1. PICK i \in Slots : Waits(i)
      BY <1>12
  <2> QED
      BY <2>1 DEF NumbersOK, lists, dialog, preview, launching, threads, task,
             window, vars, Waits, Polls
<1>13. CASE \E i \in Slots : TimesOut(i)
  <2>1. PICK i \in Slots : TimesOut(i)
      BY <1>13
  <2> QED
      BY <2>1 DEF NumbersOK, lists, dialog, preview, launching, threads, task,
             window, vars, TimesOut, Polls, GivesUp, DropsPreview
<1>14. CASE \E i \in Slots : Succeeds(i)
  <2>1. PICK i \in Slots : Succeeds(i)
      BY <1>14
  <2> QED
      BY <2>1 DEF NumbersOK, lists, dialog, preview, launching, threads, task,
             window, vars, Succeeds, Receives, Polls, Records, TakesContext
<1>15. CASE \E i \in Slots : Fails(i)
  <2>1. PICK i \in Slots : Fails(i)
      BY <1>15
  <2> QED
      BY <2>1 DEF NumbersOK, lists, dialog, preview, launching, threads, task,
             window, vars, Fails, Receives, Polls, DropsPreview, DropsLaunch,
             Awaited, TakesContext
<1>16. CASE \E i \in Slots : Dies(i)
  <2>1. PICK i \in Slots : Dies(i)
      BY <1>16
  <2> QED
      BY <2>1 DEF NumbersOK, lists, dialog, preview, launching, threads, task,
             window, vars, Dies, Receives, Polls, DropsPreview, DropsLaunch,
             Awaited, TakesContext
<1>17. CASE \E i \in Slots : Views(i)
  <2>1. PICK i \in Slots : Views(i)
      BY <1>17
  <2> QED
      BY <2>1 DEF NumbersOK, lists, dialog, preview, launching, threads, task,
             window, vars, Views, Receives, Polls
<1>18. CASE \E i \in Slots : Cloned(i)
  <2>1. PICK i \in Slots : Cloned(i)
      BY <1>18
  <2>2. CASE Open(FALSE) /\ DropsLaunch
      BY <2>1, <2>2 DEF NumbersOK, lists, dialog, preview, launching, threads, task,
             window, vars, Cloned, Receives, Polls, Open, DropsPreview,
             DropsLaunch
  <2>3. CASE UNCHANGED <<generation, home, lists, asked, preview, launching, needsRefresh>>
      BY <2>1, <2>3 DEF NumbersOK, lists, dialog, preview, launching, threads, task,
             window, vars, Cloned, Receives, Polls
  <2> QED
      BY <2>1, <2>2, <2>3 DEF Cloned
<1>19. CASE \E i \in Slots : Searched(i)
  <2>1. PICK i \in Slots : Searched(i)
      BY <1>19
  <2> QED
      BY <2>1 DEF NumbersOK, lists, dialog, preview, launching, threads, task,
             window, vars, Searched, Receives, Polls, Newest
<1>20. CASE \E i \in Slots : Refreshed(i)
  <2>1. PICK i \in Slots : Refreshed(i)
      BY <1>20
  <2> QED
      BY <2>1 DEF NumbersOK, lists, dialog, preview, launching, threads, task,
             window, vars, Refreshed, Receives, Polls, DropsPreview,
             DropsLaunch, Awaited
<1>21. CASE FinishesPreview
    BY <1>21 DEF NumbersOK, lists, dialog, preview, launching, threads, task,
           window, vars, FinishesPreview, DropsPreview, Unchanged, Absent,
           Matches, Records
<1>22. CASE LaunchesCleanup
    BY <1>22 DEF NumbersOK, lists, dialog, preview, launching, threads, task,
           window, vars, LaunchesCleanup, LaunchIsReady, DropsLaunch,
           StartsCleanup, Matches, Previews, Starts
<1>23. CASE RefreshesQueued
    BY <1>23 DEF NumbersOK, lists, dialog, preview, launching, threads, task,
           window, vars, RefreshesQueued, MayStart, Starts
<1>24. CASE \E i \in Slots : Reads(i)
  <2>1. PICK i \in Slots : Reads(i)
      BY <1>24
  <2> QED
      BY <2>1 DEF NumbersOK, lists, dialog, preview, launching, threads, task,
             window, vars, Reads, Ends, Lists
<1>25. CASE \E i \in Slots : Works(i)
  <2>1. PICK i \in Slots : Works(i)
      BY <1>25
  <2> QED
      BY <2>1 DEF NumbersOK, lists, dialog, preview, launching, threads, task,
             window, vars, Works, Ends
<1>26. CASE ChangesWorktree
    BY <1>26 DEF NumbersOK, lists, dialog, preview, launching, threads, task,
           window, vars, ChangesWorktree
<1>27. CASE EditsTask
    BY <1>27 DEF NumbersOK, lists, dialog, preview, launching, threads, task,
           window, vars, EditsTask
<1>28. CASE Reloads
    BY <1>28 DEF NumbersOK, lists, dialog, preview, launching, threads, task,
           window, vars, Reloads
<1>29. CASE UNCHANGED vars
    BY <1>29 DEF NumbersOK, lists, dialog, preview, launching, threads, task,
           window, vars
<1> QED
    BY <1>1, <1>2, <1>3, <1>4, <1>5, <1>6, <1>7, <1>8, <1>9, <1>10, <1>11,
       <1>12, <1>13, <1>14, <1>15, <1>16, <1>17, <1>18, <1>19, <1>20,
       <1>21, <1>22, <1>23, <1>24, <1>25, <1>26, <1>27, <1>28, <1>29
       DEF Next, UserActs, Processes, Visits, Elsewhere

\* A step keeps the types of the window's variables.
LEMMA WindowStep == IInv /\ [Next]_vars => WindowOK'
<1> SUFFICES ASSUME IInv, [Next]_vars PROVE WindowOK'
    OBVIOUS
<1> USE ConstantsAssumption
<1> USE DEF IInv
<1>1. CASE Opens
    BY <1>1 DEF WindowOK, Listings, lists, dialog, preview, launching, threads,
           task, window, vars, Opens, Acting, Busy, Open, DropsLaunch,
           DropsPreview
<1>2. CASE Mutates
    BY <1>2 DEF WindowOK, Listings, lists, dialog, preview, launching, threads,
           task, window, vars, Mutates, Acting, Busy, MayStart, Starts
<1>3. CASE Clones
    BY <1>3 DEF WindowOK, Listings, lists, dialog, preview, launching, threads,
           task, window, vars, Clones, Acting, Busy, Starts
<1>4. CASE Refreshes
    BY <1>4 DEF WindowOK, Listings, lists, dialog, preview, launching, threads,
           task, window, vars, Refreshes, Acting, Busy, MayStart, Starts
<1>5. CASE Searches
    BY <1>5 DEF WindowOK, Listings, lists, dialog, preview, launching, threads,
           task, window, vars, Searches, Acting, MayStart, Starts
<1>6. CASE Asks
    BY <1>6 DEF WindowOK, Listings, lists, dialog, preview, launching, threads,
           task, window, vars, Asks, Acting, Busy
<1>7. CASE PreviewsListed
    BY <1>7 DEF WindowOK, Listings, lists, dialog, preview, launching, threads,
           task, window, vars, PreviewsListed, Acting, Busy, Previews, Starts
<1>8. CASE PreviewsTask
  <2>1. CASE generation \in home /\ Previews(known, shown # "listed")
      BY <1>8, <2>1 DEF WindowOK, Listings, lists, dialog, preview, launching, threads,
             task, window, vars, PreviewsTask, Acting, Busy, Previews, Starts
  <2>2. CASE generation \in home /\ UNCHANGED <<preview, needsRefresh, ops, late, threads>>
      BY <1>8, <2>2 DEF WindowOK, Listings, lists, dialog, preview, launching, threads,
             task, window, vars, PreviewsTask, Acting, Busy
  <2>3. CASE generation \notin home /\ Open(TRUE)
      BY <1>8, <2>3 DEF WindowOK, Listings, lists, dialog, preview, launching, threads,
             task, window, vars, PreviewsTask, Acting, Busy, Open, DropsPreview
  <2> QED
      BY <1>8, <2>1, <2>2, <2>3 DEF PreviewsTask, StartsCleanup
<1>9. CASE Confirms
    BY <1>9 DEF WindowOK, Listings, lists, dialog, preview, launching, threads,
           task, window, vars, Confirms, Acting, DropsDialog, Matches, Starts
<1>10. CASE Cancels
    BY <1>10 DEF WindowOK, Listings, lists, dialog, preview, launching, threads,
           task, window, vars, Cancels, Acting, DropsDialog
<1>11. CASE Frame
    BY <1>11 DEF WindowOK, Listings, lists, dialog, preview, launching, threads,
           task, window, vars, Frame
<1>12. CASE \E i \in Slots : Waits(i)
  <2>1. PICK i \in Slots : Waits(i)
      BY <1>12
  <2> QED
      BY <2>1 DEF WindowOK, Listings, lists, dialog, preview, launching, threads,
             task, window, vars, Waits, Polls
<1>13. CASE \E i \in Slots : TimesOut(i)
  <2>1. PICK i \in Slots : TimesOut(i)
      BY <1>13
  <2> QED
      BY <2>1 DEF WindowOK, Listings, lists, dialog, preview, launching, threads,
             task, window, vars, TimesOut, Polls, GivesUp, DropsPreview
<1>14. CASE \E i \in Slots : Succeeds(i)
  <2>1. PICK i \in Slots : Succeeds(i)
      BY <1>14
  <2> QED
      BY <2>1 DEF WindowOK, Listings, lists, dialog, preview, launching, threads,
             task, window, vars, Succeeds, Receives, Polls, Records,
             TakesContext
<1>15. CASE \E i \in Slots : Fails(i)
  <2>1. PICK i \in Slots : Fails(i)
      BY <1>15
  <2> QED
      BY <2>1 DEF WindowOK, Listings, lists, dialog, preview, launching, threads,
             task, window, vars, Fails, Receives, Polls, DropsPreview,
             DropsLaunch, Awaited, TakesContext
<1>16. CASE \E i \in Slots : Dies(i)
  <2>1. PICK i \in Slots : Dies(i)
      BY <1>16
  <2> QED
      BY <2>1 DEF WindowOK, Listings, lists, dialog, preview, launching, threads,
             task, window, vars, Dies, Receives, Polls, DropsPreview,
             DropsLaunch, Awaited, TakesContext
<1>17. CASE \E i \in Slots : Views(i)
  <2>1. PICK i \in Slots : Views(i)
      BY <1>17
  <2> QED
      BY <2>1 DEF WindowOK, Listings, lists, dialog, preview, launching, threads,
             task, window, vars, Views, Receives, Polls
<1>18. CASE \E i \in Slots : Cloned(i)
  <2>1. PICK i \in Slots : Cloned(i)
      BY <1>18
  <2>2. CASE Open(FALSE) /\ DropsLaunch
      BY <2>1, <2>2 DEF WindowOK, Listings, lists, dialog, preview, launching, threads,
             task, window, vars, Cloned, Receives, Polls, Open, DropsPreview,
             DropsLaunch
  <2>3. CASE UNCHANGED <<generation, home, lists, asked, preview, launching, needsRefresh>>
      BY <2>1, <2>3 DEF WindowOK, Listings, lists, dialog, preview, launching, threads,
             task, window, vars, Cloned, Receives, Polls
  <2> QED
      BY <2>1, <2>2, <2>3 DEF Cloned
<1>19. CASE \E i \in Slots : Searched(i)
  <2>1. PICK i \in Slots : Searched(i)
      BY <1>19
  <2> QED
      BY <2>1 DEF WindowOK, Listings, lists, dialog, preview, launching, threads,
             task, window, vars, Searched, Receives, Polls, Newest
<1>20. CASE \E i \in Slots : Refreshed(i)
  <2>1. PICK i \in Slots : Refreshed(i)
      BY <1>20
  <2> QED
      BY <2>1 DEF WindowOK, Listings, ThreadsOK, lists, dialog, preview, launching,
             threads, task, window, vars, Refreshed, Receives, Polls,
             DropsPreview, DropsLaunch, Awaited
<1>21. CASE FinishesPreview
    BY <1>21 DEF WindowOK, Listings, lists, dialog, preview, launching, threads,
           task, window, vars, FinishesPreview, DropsPreview, Unchanged,
           Absent, Matches, Records
<1>22. CASE LaunchesCleanup
    BY <1>22 DEF WindowOK, Listings, lists, dialog, preview, launching, threads,
           task, window, vars, LaunchesCleanup, LaunchIsReady, DropsLaunch,
           StartsCleanup, Matches, Previews, Starts
<1>23. CASE RefreshesQueued
    BY <1>23 DEF WindowOK, Listings, lists, dialog, preview, launching, threads,
           task, window, vars, RefreshesQueued, MayStart, Starts
<1>24. CASE \E i \in Slots : Reads(i)
  <2>1. PICK i \in Slots : Reads(i)
      BY <1>24
  <2> QED
      BY <2>1 DEF WindowOK, Listings, lists, dialog, preview, launching, threads,
             task, window, vars, Reads, Ends, Lists
<1>25. CASE \E i \in Slots : Works(i)
  <2>1. PICK i \in Slots : Works(i)
      BY <1>25
  <2> QED
      BY <2>1 DEF WindowOK, Listings, lists, dialog, preview, launching, threads,
             task, window, vars, Works, Ends
<1>26. CASE ChangesWorktree
    BY <1>26 DEF WindowOK, Listings, lists, dialog, preview, launching, threads,
           task, window, vars, ChangesWorktree
<1>27. CASE EditsTask
    BY <1>27 DEF WindowOK, Listings, lists, dialog, preview, launching, threads,
           task, window, vars, EditsTask
<1>28. CASE Reloads
    BY <1>28 DEF WindowOK, Listings, lists, dialog, preview, launching, threads,
           task, window, vars, Reloads
<1>29. CASE UNCHANGED vars
    BY <1>29 DEF WindowOK, Listings, lists, dialog, preview, launching, threads,
           task, window, vars
<1> QED
    BY <1>1, <1>2, <1>3, <1>4, <1>5, <1>6, <1>7, <1>8, <1>9, <1>10, <1>11,
       <1>12, <1>13, <1>14, <1>15, <1>16, <1>17, <1>18, <1>19, <1>20,
       <1>21, <1>22, <1>23, <1>24, <1>25, <1>26, <1>27, <1>28, <1>29
       DEF Next, UserActs, Processes, Visits, Elsewhere

\* A step keeps the flags flags.
LEMMA FlagsStep == IInv /\ [Next]_vars => FlagsOK'
<1> SUFFICES ASSUME IInv, [Next]_vars PROVE FlagsOK'
    OBVIOUS
<1> USE ConstantsAssumption
<1> USE DEF IInv
<1>1. CASE Opens
    BY <1>1 DEF FlagsOK, lists, dialog, preview, launching, threads, task, window,
           vars, Opens, Acting, Busy, Open, DropsLaunch, DropsPreview
<1>2. CASE Mutates
    BY <1>2 DEF FlagsOK, lists, dialog, preview, launching, threads, task, window,
           vars, Mutates, Acting, Busy, MayStart, Starts
<1>3. CASE Clones
    BY <1>3 DEF FlagsOK, lists, dialog, preview, launching, threads, task, window,
           vars, Clones, Acting, Busy, Starts
<1>4. CASE Refreshes
    BY <1>4 DEF FlagsOK, lists, dialog, preview, launching, threads, task, window,
           vars, Refreshes, Acting, Busy, MayStart, Starts
<1>5. CASE Searches
    BY <1>5 DEF FlagsOK, lists, dialog, preview, launching, threads, task, window,
           vars, Searches, Acting, MayStart, Starts
<1>6. CASE Asks
    BY <1>6 DEF FlagsOK, lists, dialog, preview, launching, threads, task, window,
           vars, Asks, Acting, Busy
<1>7. CASE PreviewsListed
    BY <1>7 DEF FlagsOK, lists, dialog, preview, launching, threads, task, window,
           vars, PreviewsListed, Acting, Busy, Previews, Starts
<1>8. CASE PreviewsTask
  <2>1. CASE generation \in home /\ Previews(known, shown # "listed")
      BY <1>8, <2>1 DEF FlagsOK, lists, dialog, preview, launching, threads, task, window,
             vars, PreviewsTask, Acting, Busy, Previews, Starts
  <2>2. CASE generation \in home /\ UNCHANGED <<preview, needsRefresh, ops, late, threads>>
      BY <1>8, <2>2 DEF FlagsOK, lists, dialog, preview, launching, threads, task, window,
             vars, PreviewsTask, Acting, Busy
  <2>3. CASE generation \notin home /\ Open(TRUE)
      BY <1>8, <2>3 DEF FlagsOK, lists, dialog, preview, launching, threads, task, window,
             vars, PreviewsTask, Acting, Busy, Open, DropsPreview
  <2> QED
      BY <1>8, <2>1, <2>2, <2>3 DEF PreviewsTask, StartsCleanup
<1>9. CASE Confirms
    BY <1>9 DEF FlagsOK, lists, dialog, preview, launching, threads, task, window,
           vars, Confirms, Acting, DropsDialog, Matches, Starts
<1>10. CASE Cancels
    BY <1>10 DEF FlagsOK, lists, dialog, preview, launching, threads, task, window,
           vars, Cancels, Acting, DropsDialog
<1>11. CASE Frame
    BY <1>11 DEF FlagsOK, lists, dialog, preview, launching, threads, task, window,
           vars, Frame
<1>12. CASE \E i \in Slots : Waits(i)
  <2>1. PICK i \in Slots : Waits(i)
      BY <1>12
  <2> QED
      BY <2>1 DEF FlagsOK, lists, dialog, preview, launching, threads, task, window,
             vars, Waits, Polls
<1>13. CASE \E i \in Slots : TimesOut(i)
  <2>1. PICK i \in Slots : TimesOut(i)
      BY <1>13
  <2> QED
      BY <2>1 DEF FlagsOK, lists, dialog, preview, launching, threads, task, window,
             vars, TimesOut, Polls, GivesUp, DropsPreview
<1>14. CASE \E i \in Slots : Succeeds(i)
  <2>1. PICK i \in Slots : Succeeds(i)
      BY <1>14
  <2> QED
      BY <2>1 DEF FlagsOK, lists, dialog, preview, launching, threads, task, window,
             vars, Succeeds, Receives, Polls, Records, TakesContext
<1>15. CASE \E i \in Slots : Fails(i)
  <2>1. PICK i \in Slots : Fails(i)
      BY <1>15
  <2> QED
      BY <2>1 DEF FlagsOK, lists, dialog, preview, launching, threads, task, window,
             vars, Fails, Receives, Polls, DropsPreview, DropsLaunch, Awaited,
             TakesContext
<1>16. CASE \E i \in Slots : Dies(i)
  <2>1. PICK i \in Slots : Dies(i)
      BY <1>16
  <2> QED
      BY <2>1 DEF FlagsOK, lists, dialog, preview, launching, threads, task, window,
             vars, Dies, Receives, Polls, DropsPreview, DropsLaunch, Awaited,
             TakesContext
<1>17. CASE \E i \in Slots : Views(i)
  <2>1. PICK i \in Slots : Views(i)
      BY <1>17
  <2> QED
      BY <2>1 DEF FlagsOK, lists, dialog, preview, launching, threads, task, window,
             vars, Views, Receives, Polls
<1>18. CASE \E i \in Slots : Cloned(i)
  <2>1. PICK i \in Slots : Cloned(i)
      BY <1>18
  <2>2. CASE Open(FALSE) /\ DropsLaunch
      BY <2>1, <2>2 DEF FlagsOK, lists, dialog, preview, launching, threads, task, window,
             vars, Cloned, Receives, Polls, Open, DropsPreview, DropsLaunch
  <2>3. CASE UNCHANGED <<generation, home, lists, asked, preview, launching, needsRefresh>>
      BY <2>1, <2>3 DEF FlagsOK, lists, dialog, preview, launching, threads, task, window,
             vars, Cloned, Receives, Polls
  <2> QED
      BY <2>1, <2>2, <2>3 DEF Cloned
<1>19. CASE \E i \in Slots : Searched(i)
  <2>1. PICK i \in Slots : Searched(i)
      BY <1>19
  <2> QED
      BY <2>1 DEF FlagsOK, lists, dialog, preview, launching, threads, task, window,
             vars, Searched, Receives, Polls, Newest
<1>20. CASE \E i \in Slots : Refreshed(i)
  <2>1. PICK i \in Slots : Refreshed(i)
      BY <1>20
  <2> QED
      BY <2>1 DEF FlagsOK, lists, dialog, preview, launching, threads, task, window,
             vars, Refreshed, Receives, Polls, DropsPreview, DropsLaunch,
             Awaited
<1>21. CASE FinishesPreview
    BY <1>21 DEF FlagsOK, lists, dialog, preview, launching, threads, task, window,
           vars, FinishesPreview, DropsPreview, Unchanged, Absent, Matches,
           Records
<1>22. CASE LaunchesCleanup
    BY <1>22 DEF FlagsOK, lists, dialog, preview, launching, threads, task, window,
           vars, LaunchesCleanup, LaunchIsReady, DropsLaunch, StartsCleanup,
           Matches, Previews, Starts
<1>23. CASE RefreshesQueued
    BY <1>23 DEF FlagsOK, lists, dialog, preview, launching, threads, task, window,
           vars, RefreshesQueued, MayStart, Starts
<1>24. CASE \E i \in Slots : Reads(i)
  <2>1. PICK i \in Slots : Reads(i)
      BY <1>24
  <2> QED
      BY <2>1 DEF FlagsOK, lists, dialog, preview, launching, threads, task, window,
             vars, Reads, Ends, Lists
<1>25. CASE \E i \in Slots : Works(i)
  <2>1. PICK i \in Slots : Works(i)
      BY <1>25
  <2> QED
      BY <2>1 DEF FlagsOK, lists, dialog, preview, launching, threads, task, window,
             vars, Works, Ends
<1>26. CASE ChangesWorktree
    BY <1>26 DEF FlagsOK, lists, dialog, preview, launching, threads, task, window,
           vars, ChangesWorktree
<1>27. CASE EditsTask
    BY <1>27 DEF FlagsOK, lists, dialog, preview, launching, threads, task, window,
           vars, EditsTask
<1>28. CASE Reloads
    BY <1>28 DEF FlagsOK, lists, dialog, preview, launching, threads, task, window,
           vars, Reloads
<1>29. CASE UNCHANGED vars
    BY <1>29 DEF FlagsOK, lists, dialog, preview, launching, threads, task, window,
           vars
<1> QED
    BY <1>1, <1>2, <1>3, <1>4, <1>5, <1>6, <1>7, <1>8, <1>9, <1>10, <1>11,
       <1>12, <1>13, <1>14, <1>15, <1>16, <1>17, <1>18, <1>19, <1>20,
       <1>21, <1>22, <1>23, <1>24, <1>25, <1>26, <1>27, <1>28, <1>29
       DEF Next, UserActs, Processes, Visits, Elsewhere

\* A step keeps the types of the operations.
LEMMA ThreadsStep == IInv /\ [Next]_vars => ThreadsOK'
<1> SUFFICES ASSUME IInv, [Next]_vars PROVE ThreadsOK'
    OBVIOUS
<1> USE ConstantsAssumption
<1> USE DEF IInv
<1>1. CASE Opens
    BY <1>1 DEF ThreadsOK, NumbersOK, Kinds, Ended, Listings, lists, dialog,
           preview, launching, threads, task, window, vars, Opens, Acting,
           Busy, Open, DropsLaunch, DropsPreview
<1>2. CASE Mutates
    BY <1>2 DEF ThreadsOK, NumbersOK, Kinds, Ended, Listings, lists, dialog,
           preview, launching, threads, task, window, vars, Mutates, Acting,
           Busy, MayStart, Starts
<1>3. CASE Clones
    BY <1>3 DEF ThreadsOK, NumbersOK, Kinds, Ended, Listings, lists, dialog,
           preview, launching, threads, task, window, vars, Clones, Acting,
           Busy, Starts
<1>4. CASE Refreshes
    BY <1>4 DEF ThreadsOK, NumbersOK, Kinds, Ended, Listings, lists, dialog,
           preview, launching, threads, task, window, vars, Refreshes, Acting,
           Busy, MayStart, Starts
<1>5. CASE Searches
    BY <1>5 DEF ThreadsOK, NumbersOK, Kinds, Ended, Listings, lists, dialog,
           preview, launching, threads, task, window, vars, Searches, Acting,
           MayStart, Starts
<1>6. CASE Asks
    BY <1>6 DEF ThreadsOK, NumbersOK, Kinds, Ended, Listings, lists, dialog,
           preview, launching, threads, task, window, vars, Asks, Acting,
           Busy
<1>7. CASE PreviewsListed
    BY <1>7 DEF ThreadsOK, NumbersOK, Kinds, Ended, Listings, lists, dialog,
           preview, launching, threads, task, window, vars, PreviewsListed,
           Acting, Busy, Previews, Starts
<1>8. CASE PreviewsTask
  <2>1. CASE generation \in home /\ Previews(known, shown # "listed")
      BY <1>8, <2>1 DEF ThreadsOK, NumbersOK, Kinds, Ended, Listings, lists, dialog,
             preview, launching, threads, task, window, vars, PreviewsTask,
             Acting, Busy, Previews, Starts
  <2>2. CASE generation \in home /\ UNCHANGED <<preview, needsRefresh, ops, late, threads>>
      BY <1>8, <2>2 DEF ThreadsOK, NumbersOK, Kinds, Ended, Listings, lists, dialog,
             preview, launching, threads, task, window, vars, PreviewsTask,
             Acting, Busy
  <2>3. CASE generation \notin home /\ Open(TRUE)
      BY <1>8, <2>3 DEF ThreadsOK, NumbersOK, Kinds, Ended, Listings, lists, dialog,
             preview, launching, threads, task, window, vars, PreviewsTask,
             Acting, Busy, Open, DropsPreview
  <2> QED
      BY <1>8, <2>1, <2>2, <2>3 DEF PreviewsTask, StartsCleanup
<1>9. CASE Confirms
    BY <1>9 DEF ThreadsOK, NumbersOK, Kinds, Ended, Listings, lists, dialog,
           preview, launching, threads, task, window, vars, Confirms, Acting,
           DropsDialog, Matches, Starts
<1>10. CASE Cancels
    BY <1>10 DEF ThreadsOK, NumbersOK, Kinds, Ended, Listings, lists, dialog,
           preview, launching, threads, task, window, vars, Cancels, Acting,
           DropsDialog
<1>11. CASE Frame
    BY <1>11 DEF ThreadsOK, NumbersOK, Kinds, Ended, Listings, lists, dialog,
           preview, launching, threads, task, window, vars, Frame
<1>12. CASE \E i \in Slots : Waits(i)
  <2>1. PICK i \in Slots : Waits(i)
      BY <1>12
  <2> QED
      BY <2>1 DEF ThreadsOK, NumbersOK, Kinds, Ended, Listings, lists, dialog,
             preview, launching, threads, task, window, vars, Waits, Polls
<1>13. CASE \E i \in Slots : TimesOut(i)
  <2>1. PICK i \in Slots : TimesOut(i)
      BY <1>13
  <2> QED
      BY <2>1 DEF ThreadsOK, NumbersOK, Kinds, Ended, Listings, lists, dialog,
             preview, launching, threads, task, window, vars, TimesOut, Polls,
             GivesUp, DropsPreview
<1>14. CASE \E i \in Slots : Succeeds(i)
  <2>1. PICK i \in Slots : Succeeds(i)
      BY <1>14
  <2> QED
      BY <2>1 DEF ThreadsOK, NumbersOK, Kinds, Ended, Listings, lists, dialog,
             preview, launching, threads, task, window, vars, Succeeds,
             Receives, Polls, Records, TakesContext
<1>15. CASE \E i \in Slots : Fails(i)
  <2>1. PICK i \in Slots : Fails(i)
      BY <1>15
  <2> QED
      BY <2>1 DEF ThreadsOK, NumbersOK, Kinds, Ended, Listings, lists, dialog,
             preview, launching, threads, task, window, vars, Fails, Receives,
             Polls, DropsPreview, DropsLaunch, Awaited, TakesContext
<1>16. CASE \E i \in Slots : Dies(i)
  <2>1. PICK i \in Slots : Dies(i)
      BY <1>16
  <2> QED
      BY <2>1 DEF ThreadsOK, NumbersOK, Kinds, Ended, Listings, lists, dialog,
             preview, launching, threads, task, window, vars, Dies, Receives,
             Polls, DropsPreview, DropsLaunch, Awaited, TakesContext
<1>17. CASE \E i \in Slots : Views(i)
  <2>1. PICK i \in Slots : Views(i)
      BY <1>17
  <2> QED
      BY <2>1 DEF ThreadsOK, NumbersOK, Kinds, Ended, Listings, lists, dialog,
             preview, launching, threads, task, window, vars, Views, Receives,
             Polls
<1>18. CASE \E i \in Slots : Cloned(i)
  <2>1. PICK i \in Slots : Cloned(i)
      BY <1>18
  <2>2. CASE Open(FALSE) /\ DropsLaunch
      BY <2>1, <2>2 DEF ThreadsOK, NumbersOK, Kinds, Ended, Listings, lists, dialog,
             preview, launching, threads, task, window, vars, Cloned, Receives,
             Polls, Open, DropsPreview, DropsLaunch
  <2>3. CASE UNCHANGED <<generation, home, lists, asked, preview, launching, needsRefresh>>
      BY <2>1, <2>3 DEF ThreadsOK, NumbersOK, Kinds, Ended, Listings, lists, dialog,
             preview, launching, threads, task, window, vars, Cloned, Receives,
             Polls
  <2> QED
      BY <2>1, <2>2, <2>3 DEF Cloned
<1>19. CASE \E i \in Slots : Searched(i)
  <2>1. PICK i \in Slots : Searched(i)
      BY <1>19
  <2> QED
      BY <2>1 DEF ThreadsOK, NumbersOK, Kinds, Ended, Listings, lists, dialog,
             preview, launching, threads, task, window, vars, Searched,
             Receives, Polls, Newest
<1>20. CASE \E i \in Slots : Refreshed(i)
  <2>1. PICK i \in Slots : Refreshed(i)
      BY <1>20
  <2> QED
      BY <2>1 DEF ThreadsOK, NumbersOK, Kinds, Ended, Listings, lists, dialog,
             preview, launching, threads, task, window, vars, Refreshed,
             Receives, Polls, DropsPreview, DropsLaunch, Awaited
<1>21. CASE FinishesPreview
    BY <1>21 DEF ThreadsOK, NumbersOK, Kinds, Ended, Listings, lists, dialog,
           preview, launching, threads, task, window, vars, FinishesPreview,
           DropsPreview, Unchanged, Absent, Matches, Records
<1>22. CASE LaunchesCleanup
    BY <1>22 DEF ThreadsOK, NumbersOK, Kinds, Ended, Listings, lists, dialog,
           preview, launching, threads, task, window, vars, LaunchesCleanup,
           LaunchIsReady, DropsLaunch, StartsCleanup, Matches, Previews,
           Starts
<1>23. CASE RefreshesQueued
    BY <1>23 DEF ThreadsOK, NumbersOK, Kinds, Ended, Listings, lists, dialog,
           preview, launching, threads, task, window, vars, RefreshesQueued,
           MayStart, Starts
<1>24. CASE \E i \in Slots : Reads(i)
  <2>1. PICK i \in Slots : Reads(i)
      BY <1>24
  <2> QED
      BY <2>1 DEF ThreadsOK, NumbersOK, Kinds, Ended, Listings, lists, dialog,
             preview, launching, threads, task, window, vars, Reads, Ends,
             Lists
<1>25. CASE \E i \in Slots : Works(i)
  <2>1. PICK i \in Slots : Works(i)
      BY <1>25
  <2> QED
      BY <2>1 DEF ThreadsOK, NumbersOK, Kinds, Ended, Listings, lists, dialog,
             preview, launching, threads, task, window, vars, Works, Ends
<1>26. CASE ChangesWorktree
    BY <1>26 DEF ThreadsOK, NumbersOK, Kinds, Ended, Listings, lists, dialog,
           preview, launching, threads, task, window, vars, ChangesWorktree
<1>27. CASE EditsTask
    BY <1>27 DEF ThreadsOK, NumbersOK, Kinds, Ended, Listings, lists, dialog,
           preview, launching, threads, task, window, vars, EditsTask
<1>28. CASE Reloads
    BY <1>28 DEF ThreadsOK, NumbersOK, Kinds, Ended, Listings, lists, dialog,
           preview, launching, threads, task, window, vars, Reloads
<1>29. CASE UNCHANGED vars
    BY <1>29 DEF ThreadsOK, NumbersOK, Kinds, Ended, Listings, lists, dialog,
           preview, launching, threads, task, window, vars
<1> QED
    BY <1>1, <1>2, <1>3, <1>4, <1>5, <1>6, <1>7, <1>8, <1>9, <1>10, <1>11,
       <1>12, <1>13, <1>14, <1>15, <1>16, <1>17, <1>18, <1>19, <1>20,
       <1>21, <1>22, <1>23, <1>24, <1>25, <1>26, <1>27, <1>28, <1>29
       DEF Next, UserActs, Processes, Visits, Elsewhere

\* A step keeps an operation pending exactly while it has a thread or an answer.
LEMMA PendingStep == IInv /\ [Next]_vars => Pending'
<1> SUFFICES ASSUME IInv, [Next]_vars PROVE Pending'
    OBVIOUS
<1> USE ConstantsAssumption
<1> USE DEF IInv
<1>1. CASE Opens
    BY <1>1 DEF Pending, ThreadsOK, lists, dialog, preview, launching, threads,
           task, window, vars, Opens, Acting, Busy, Open, DropsLaunch,
           DropsPreview
<1>2. CASE Mutates
    BY <1>2 DEF Pending, ThreadsOK, lists, dialog, preview, launching, threads,
           task, window, vars, Mutates, Acting, Busy, MayStart, Starts
<1>3. CASE Clones
    BY <1>3 DEF Pending, ThreadsOK, lists, dialog, preview, launching, threads,
           task, window, vars, Clones, Acting, Busy, Starts
<1>4. CASE Refreshes
    BY <1>4 DEF Pending, ThreadsOK, lists, dialog, preview, launching, threads,
           task, window, vars, Refreshes, Acting, Busy, MayStart, Starts
<1>5. CASE Searches
    BY <1>5 DEF Pending, ThreadsOK, lists, dialog, preview, launching, threads,
           task, window, vars, Searches, Acting, MayStart, Starts
<1>6. CASE Asks
    BY <1>6 DEF Pending, ThreadsOK, lists, dialog, preview, launching, threads,
           task, window, vars, Asks, Acting, Busy
<1>7. CASE PreviewsListed
    BY <1>7 DEF Pending, ThreadsOK, lists, dialog, preview, launching, threads,
           task, window, vars, PreviewsListed, Acting, Busy, Previews, Starts
<1>8. CASE PreviewsTask
  <2>1. CASE generation \in home /\ Previews(known, shown # "listed")
      BY <1>8, <2>1 DEF Pending, ThreadsOK, lists, dialog, preview, launching, threads,
             task, window, vars, PreviewsTask, Acting, Busy, Previews, Starts
  <2>2. CASE generation \in home /\ UNCHANGED <<preview, needsRefresh, ops, late, threads>>
      BY <1>8, <2>2 DEF Pending, ThreadsOK, lists, dialog, preview, launching, threads,
             task, window, vars, PreviewsTask, Acting, Busy
  <2>3. CASE generation \notin home /\ Open(TRUE)
      BY <1>8, <2>3 DEF Pending, ThreadsOK, lists, dialog, preview, launching, threads,
             task, window, vars, PreviewsTask, Acting, Busy, Open, DropsPreview
  <2> QED
      BY <1>8, <2>1, <2>2, <2>3 DEF PreviewsTask, StartsCleanup
<1>9. CASE Confirms
    BY <1>9 DEF Pending, ThreadsOK, lists, dialog, preview, launching, threads,
           task, window, vars, Confirms, Acting, DropsDialog, Matches, Starts
<1>10. CASE Cancels
    BY <1>10 DEF Pending, ThreadsOK, lists, dialog, preview, launching, threads,
           task, window, vars, Cancels, Acting, DropsDialog
<1>11. CASE Frame
    BY <1>11 DEF Pending, ThreadsOK, lists, dialog, preview, launching, threads,
           task, window, vars, Frame
<1>12. CASE \E i \in Slots : Waits(i)
  <2>1. PICK i \in Slots : Waits(i)
      BY <1>12
  <2> QED
      BY <2>1 DEF Pending, ThreadsOK, lists, dialog, preview, launching, threads,
             task, window, vars, Waits, Polls
<1>13. CASE \E i \in Slots : TimesOut(i)
  <2>1. PICK i \in Slots : TimesOut(i)
      BY <1>13
  <2> QED
      BY <2>1 DEF Pending, ThreadsOK, lists, dialog, preview, launching, threads,
             task, window, vars, TimesOut, Polls, GivesUp, DropsPreview
<1>14. CASE \E i \in Slots : Succeeds(i)
  <2>1. PICK i \in Slots : Succeeds(i)
      BY <1>14
  <2> QED
      BY <2>1 DEF Pending, ThreadsOK, lists, dialog, preview, launching, threads,
             task, window, vars, Succeeds, Receives, Polls, Records,
             TakesContext
<1>15. CASE \E i \in Slots : Fails(i)
  <2>1. PICK i \in Slots : Fails(i)
      BY <1>15
  <2> QED
      BY <2>1 DEF Pending, ThreadsOK, lists, dialog, preview, launching, threads,
             task, window, vars, Fails, Receives, Polls, DropsPreview,
             DropsLaunch, Awaited, TakesContext
<1>16. CASE \E i \in Slots : Dies(i)
  <2>1. PICK i \in Slots : Dies(i)
      BY <1>16
  <2> QED
      BY <2>1 DEF Pending, ThreadsOK, lists, dialog, preview, launching, threads,
             task, window, vars, Dies, Receives, Polls, DropsPreview,
             DropsLaunch, Awaited, TakesContext
<1>17. CASE \E i \in Slots : Views(i)
  <2>1. PICK i \in Slots : Views(i)
      BY <1>17
  <2> QED
      BY <2>1 DEF Pending, ThreadsOK, lists, dialog, preview, launching, threads,
             task, window, vars, Views, Receives, Polls
<1>18. CASE \E i \in Slots : Cloned(i)
  <2>1. PICK i \in Slots : Cloned(i)
      BY <1>18
  <2>2. CASE Open(FALSE) /\ DropsLaunch
      BY <2>1, <2>2 DEF Pending, ThreadsOK, lists, dialog, preview, launching, threads,
             task, window, vars, Cloned, Receives, Polls, Open, DropsPreview,
             DropsLaunch
  <2>3. CASE UNCHANGED <<generation, home, lists, asked, preview, launching, needsRefresh>>
      BY <2>1, <2>3 DEF Pending, ThreadsOK, lists, dialog, preview, launching, threads,
             task, window, vars, Cloned, Receives, Polls
  <2> QED
      BY <2>1, <2>2, <2>3 DEF Cloned
<1>19. CASE \E i \in Slots : Searched(i)
  <2>1. PICK i \in Slots : Searched(i)
      BY <1>19
  <2> QED
      BY <2>1 DEF Pending, ThreadsOK, lists, dialog, preview, launching, threads,
             task, window, vars, Searched, Receives, Polls, Newest
<1>20. CASE \E i \in Slots : Refreshed(i)
  <2>1. PICK i \in Slots : Refreshed(i)
      BY <1>20
  <2> QED
      BY <2>1 DEF Pending, ThreadsOK, lists, dialog, preview, launching, threads,
             task, window, vars, Refreshed, Receives, Polls, DropsPreview,
             DropsLaunch, Awaited
<1>21. CASE FinishesPreview
    BY <1>21 DEF Pending, ThreadsOK, lists, dialog, preview, launching, threads,
           task, window, vars, FinishesPreview, DropsPreview, Unchanged,
           Absent, Matches, Records
<1>22. CASE LaunchesCleanup
    BY <1>22 DEF Pending, ThreadsOK, lists, dialog, preview, launching, threads,
           task, window, vars, LaunchesCleanup, LaunchIsReady, DropsLaunch,
           StartsCleanup, Matches, Previews, Starts
<1>23. CASE RefreshesQueued
    BY <1>23 DEF Pending, ThreadsOK, lists, dialog, preview, launching, threads,
           task, window, vars, RefreshesQueued, MayStart, Starts
<1>24. CASE \E i \in Slots : Reads(i)
  <2>1. PICK i \in Slots : Reads(i)
      BY <1>24
  <2> QED
      BY <2>1 DEF Pending, ThreadsOK, lists, dialog, preview, launching, threads,
             task, window, vars, Reads, Ends, Lists
<1>25. CASE \E i \in Slots : Works(i)
  <2>1. PICK i \in Slots : Works(i)
      BY <1>25
  <2> QED
      BY <2>1 DEF Pending, ThreadsOK, lists, dialog, preview, launching, threads,
             task, window, vars, Works, Ends
<1>26. CASE ChangesWorktree
    BY <1>26 DEF Pending, ThreadsOK, lists, dialog, preview, launching, threads,
           task, window, vars, ChangesWorktree
<1>27. CASE EditsTask
    BY <1>27 DEF Pending, ThreadsOK, lists, dialog, preview, launching, threads,
           task, window, vars, EditsTask
<1>28. CASE Reloads
    BY <1>28 DEF Pending, ThreadsOK, lists, dialog, preview, launching, threads,
           task, window, vars, Reloads
<1>29. CASE UNCHANGED vars
    BY <1>29 DEF Pending, ThreadsOK, lists, dialog, preview, launching, threads,
           task, window, vars
<1> QED
    BY <1>1, <1>2, <1>3, <1>4, <1>5, <1>6, <1>7, <1>8, <1>9, <1>10, <1>11,
       <1>12, <1>13, <1>14, <1>15, <1>16, <1>17, <1>18, <1>19, <1>20,
       <1>21, <1>22, <1>23, <1>24, <1>25, <1>26, <1>27, <1>28, <1>29
       DEF Next, UserActs, Processes, Visits, Elsewhere

\* A step keeps the answers those of their operations.
LEMMA AnswersStep == IInv /\ [Next]_vars => Answers'
<1> SUFFICES ASSUME IInv, [Next]_vars PROVE Answers'
    OBVIOUS
<1> USE ConstantsAssumption
<1> USE DEF IInv
<1>1. CASE Opens
    BY <1>1 DEF Answers, ThreadsOK, Pending, lists, dialog, preview, launching,
           threads, task, window, vars, Opens, Acting, Busy, Open,
           DropsLaunch, DropsPreview
<1>2. CASE Mutates
    BY <1>2 DEF Answers, ThreadsOK, Pending, lists, dialog, preview, launching,
           threads, task, window, vars, Mutates, Acting, Busy, MayStart,
           Starts
<1>3. CASE Clones
    BY <1>3 DEF Answers, ThreadsOK, Pending, lists, dialog, preview, launching,
           threads, task, window, vars, Clones, Acting, Busy, Starts
<1>4. CASE Refreshes
    BY <1>4 DEF Answers, ThreadsOK, Pending, lists, dialog, preview, launching,
           threads, task, window, vars, Refreshes, Acting, Busy, MayStart,
           Starts
<1>5. CASE Searches
    BY <1>5 DEF Answers, ThreadsOK, Pending, lists, dialog, preview, launching,
           threads, task, window, vars, Searches, Acting, MayStart, Starts
<1>6. CASE Asks
    BY <1>6 DEF Answers, ThreadsOK, Pending, lists, dialog, preview, launching,
           threads, task, window, vars, Asks, Acting, Busy
<1>7. CASE PreviewsListed
    BY <1>7 DEF Answers, ThreadsOK, Pending, lists, dialog, preview, launching,
           threads, task, window, vars, PreviewsListed, Acting, Busy,
           Previews, Starts
<1>8. CASE PreviewsTask
  <2>1. CASE generation \in home /\ Previews(known, shown # "listed")
      BY <1>8, <2>1 DEF Answers, ThreadsOK, Pending, lists, dialog, preview, launching,
             threads, task, window, vars, PreviewsTask, Acting, Busy, Previews,
             Starts
  <2>2. CASE generation \in home /\ UNCHANGED <<preview, needsRefresh, ops, late, threads>>
      BY <1>8, <2>2 DEF Answers, ThreadsOK, Pending, lists, dialog, preview, launching,
             threads, task, window, vars, PreviewsTask, Acting, Busy
  <2>3. CASE generation \notin home /\ Open(TRUE)
      BY <1>8, <2>3 DEF Answers, ThreadsOK, Pending, lists, dialog, preview, launching,
             threads, task, window, vars, PreviewsTask, Acting, Busy, Open,
             DropsPreview
  <2> QED
      BY <1>8, <2>1, <2>2, <2>3 DEF PreviewsTask, StartsCleanup
<1>9. CASE Confirms
    BY <1>9 DEF Answers, ThreadsOK, Pending, lists, dialog, preview, launching,
           threads, task, window, vars, Confirms, Acting, DropsDialog,
           Matches, Starts
<1>10. CASE Cancels
    BY <1>10 DEF Answers, ThreadsOK, Pending, lists, dialog, preview, launching,
           threads, task, window, vars, Cancels, Acting, DropsDialog
<1>11. CASE Frame
    BY <1>11 DEF Answers, ThreadsOK, Pending, lists, dialog, preview, launching,
           threads, task, window, vars, Frame
<1>12. CASE \E i \in Slots : Waits(i)
  <2>1. PICK i \in Slots : Waits(i)
      BY <1>12
  <2> QED
      BY <2>1 DEF Answers, ThreadsOK, Pending, lists, dialog, preview, launching,
             threads, task, window, vars, Waits, Polls
<1>13. CASE \E i \in Slots : TimesOut(i)
  <2>1. PICK i \in Slots : TimesOut(i)
      BY <1>13
  <2> QED
      BY <2>1 DEF Answers, ThreadsOK, Pending, lists, dialog, preview, launching,
             threads, task, window, vars, TimesOut, Polls, GivesUp,
             DropsPreview
<1>14. CASE \E i \in Slots : Succeeds(i)
  <2>1. PICK i \in Slots : Succeeds(i)
      BY <1>14
  <2> QED
      BY <2>1 DEF Answers, ThreadsOK, Pending, lists, dialog, preview, launching,
             threads, task, window, vars, Succeeds, Receives, Polls, Records,
             TakesContext
<1>15. CASE \E i \in Slots : Fails(i)
  <2>1. PICK i \in Slots : Fails(i)
      BY <1>15
  <2> QED
      BY <2>1 DEF Answers, ThreadsOK, Pending, lists, dialog, preview, launching,
             threads, task, window, vars, Fails, Receives, Polls, DropsPreview,
             DropsLaunch, Awaited, TakesContext
<1>16. CASE \E i \in Slots : Dies(i)
  <2>1. PICK i \in Slots : Dies(i)
      BY <1>16
  <2> QED
      BY <2>1 DEF Answers, ThreadsOK, Pending, lists, dialog, preview, launching,
             threads, task, window, vars, Dies, Receives, Polls, DropsPreview,
             DropsLaunch, Awaited, TakesContext
<1>17. CASE \E i \in Slots : Views(i)
  <2>1. PICK i \in Slots : Views(i)
      BY <1>17
  <2> QED
      BY <2>1 DEF Answers, ThreadsOK, Pending, lists, dialog, preview, launching,
             threads, task, window, vars, Views, Receives, Polls
<1>18. CASE \E i \in Slots : Cloned(i)
  <2>1. PICK i \in Slots : Cloned(i)
      BY <1>18
  <2>2. CASE Open(FALSE) /\ DropsLaunch
      BY <2>1, <2>2 DEF Answers, ThreadsOK, Pending, lists, dialog, preview, launching,
             threads, task, window, vars, Cloned, Receives, Polls, Open,
             DropsPreview, DropsLaunch
  <2>3. CASE UNCHANGED <<generation, home, lists, asked, preview, launching, needsRefresh>>
      BY <2>1, <2>3 DEF Answers, ThreadsOK, Pending, lists, dialog, preview, launching,
             threads, task, window, vars, Cloned, Receives, Polls
  <2> QED
      BY <2>1, <2>2, <2>3 DEF Cloned
<1>19. CASE \E i \in Slots : Searched(i)
  <2>1. PICK i \in Slots : Searched(i)
      BY <1>19
  <2> QED
      BY <2>1 DEF Answers, ThreadsOK, Pending, lists, dialog, preview, launching,
             threads, task, window, vars, Searched, Receives, Polls, Newest
<1>20. CASE \E i \in Slots : Refreshed(i)
  <2>1. PICK i \in Slots : Refreshed(i)
      BY <1>20
  <2> QED
      BY <2>1 DEF Answers, ThreadsOK, Pending, lists, dialog, preview, launching,
             threads, task, window, vars, Refreshed, Receives, Polls,
             DropsPreview, DropsLaunch, Awaited
<1>21. CASE FinishesPreview
    BY <1>21 DEF Answers, ThreadsOK, Pending, lists, dialog, preview, launching,
           threads, task, window, vars, FinishesPreview, DropsPreview,
           Unchanged, Absent, Matches, Records
<1>22. CASE LaunchesCleanup
    BY <1>22 DEF Answers, ThreadsOK, Pending, lists, dialog, preview, launching,
           threads, task, window, vars, LaunchesCleanup, LaunchIsReady,
           DropsLaunch, StartsCleanup, Matches, Previews, Starts
<1>23. CASE RefreshesQueued
    BY <1>23 DEF Answers, ThreadsOK, Pending, lists, dialog, preview, launching,
           threads, task, window, vars, RefreshesQueued, MayStart, Starts
<1>24. CASE \E i \in Slots : Reads(i)
  <2>1. PICK i \in Slots : Reads(i)
      BY <1>24
  <2> QED
      BY <2>1 DEF Answers, ThreadsOK, Pending, lists, dialog, preview, launching,
             threads, task, window, vars, Reads, Ends, Lists
<1>25. CASE \E i \in Slots : Works(i)
  <2>1. PICK i \in Slots : Works(i)
      BY <1>25
  <2> QED
      BY <2>1 DEF Answers, ThreadsOK, Pending, lists, dialog, preview, launching,
             threads, task, window, vars, Works, Ends
<1>26. CASE ChangesWorktree
    BY <1>26 DEF Answers, ThreadsOK, Pending, lists, dialog, preview, launching,
           threads, task, window, vars, ChangesWorktree
<1>27. CASE EditsTask
    BY <1>27 DEF Answers, ThreadsOK, Pending, lists, dialog, preview, launching,
           threads, task, window, vars, EditsTask
<1>28. CASE Reloads
    BY <1>28 DEF Answers, ThreadsOK, Pending, lists, dialog, preview, launching,
           threads, task, window, vars, Reloads
<1>29. CASE UNCHANGED vars
    BY <1>29 DEF Answers, ThreadsOK, Pending, lists, dialog, preview, launching,
           threads, task, window, vars
<1> QED
    BY <1>1, <1>2, <1>3, <1>4, <1>5, <1>6, <1>7, <1>8, <1>9, <1>10, <1>11,
       <1>12, <1>13, <1>14, <1>15, <1>16, <1>17, <1>18, <1>19, <1>20,
       <1>21, <1>22, <1>23, <1>24, <1>25, <1>26, <1>27, <1>28, <1>29
       DEF Next, UserActs, Processes, Visits, Elsewhere

\* A step keeps every operation alone, searches apart.
LEMMA AloneStep == IInv /\ [Next]_vars => Alone'
<1> SUFFICES ASSUME IInv, [Next]_vars PROVE Alone'
    OBVIOUS
<1> USE ConstantsAssumption
<1> USE DEF IInv
<1>1. CASE Opens
    BY <1>1 DEF Alone, ThreadsOK, Pending, Modal, lists, dialog, preview,
           launching, threads, task, window, vars, Opens, Acting, Busy, Open,
           DropsLaunch, DropsPreview
<1>2. CASE Mutates
    BY <1>2 DEF Alone, ThreadsOK, Pending, Modal, lists, dialog, preview,
           launching, threads, task, window, vars, Mutates, Acting, Busy,
           MayStart, Starts
<1>3. CASE Clones
    BY <1>3 DEF Alone, ThreadsOK, Pending, Modal, lists, dialog, preview,
           launching, threads, task, window, vars, Clones, Acting, Busy,
           Starts
<1>4. CASE Refreshes
    BY <1>4 DEF Alone, ThreadsOK, Pending, Modal, lists, dialog, preview,
           launching, threads, task, window, vars, Refreshes, Acting, Busy,
           MayStart, Starts
<1>5. CASE Searches
    BY <1>5 DEF Alone, ThreadsOK, Pending, Modal, lists, dialog, preview,
           launching, threads, task, window, vars, Searches, Acting, MayStart,
           Starts
<1>6. CASE Asks
    BY <1>6 DEF Alone, ThreadsOK, Pending, Modal, lists, dialog, preview,
           launching, threads, task, window, vars, Asks, Acting, Busy
<1>7. CASE PreviewsListed
    BY <1>7 DEF Alone, ThreadsOK, Pending, Modal, lists, dialog, preview,
           launching, threads, task, window, vars, PreviewsListed, Acting,
           Busy, Previews, Starts
<1>8. CASE PreviewsTask
  <2>1. CASE generation \in home /\ Previews(known, shown # "listed")
      BY <1>8, <2>1 DEF Alone, ThreadsOK, Pending, Modal, lists, dialog, preview,
             launching, threads, task, window, vars, PreviewsTask, Acting, Busy,
             Previews, Starts
  <2>2. CASE generation \in home /\ UNCHANGED <<preview, needsRefresh, ops, late, threads>>
      BY <1>8, <2>2 DEF Alone, ThreadsOK, Pending, Modal, lists, dialog, preview,
             launching, threads, task, window, vars, PreviewsTask, Acting, Busy
  <2>3. CASE generation \notin home /\ Open(TRUE)
      BY <1>8, <2>3 DEF Alone, ThreadsOK, Pending, Modal, lists, dialog, preview,
             launching, threads, task, window, vars, PreviewsTask, Acting, Busy,
             Open, DropsPreview
  <2> QED
      BY <1>8, <2>1, <2>2, <2>3 DEF PreviewsTask, StartsCleanup
<1>9. CASE Confirms
    BY <1>9 DEF Alone, ThreadsOK, Pending, Modal, lists, dialog, preview,
           launching, threads, task, window, vars, Confirms, Acting,
           DropsDialog, Matches, Starts
<1>10. CASE Cancels
    BY <1>10 DEF Alone, ThreadsOK, Pending, Modal, lists, dialog, preview,
           launching, threads, task, window, vars, Cancels, Acting,
           DropsDialog
<1>11. CASE Frame
    BY <1>11 DEF Alone, ThreadsOK, Pending, Modal, lists, dialog, preview,
           launching, threads, task, window, vars, Frame
<1>12. CASE \E i \in Slots : Waits(i)
  <2>1. PICK i \in Slots : Waits(i)
      BY <1>12
  <2> QED
      BY <2>1 DEF Alone, ThreadsOK, Pending, Modal, lists, dialog, preview,
             launching, threads, task, window, vars, Waits, Polls
<1>13. CASE \E i \in Slots : TimesOut(i)
  <2>1. PICK i \in Slots : TimesOut(i)
      BY <1>13
  <2> QED
      BY <2>1 DEF Alone, ThreadsOK, Pending, Modal, lists, dialog, preview,
             launching, threads, task, window, vars, TimesOut, Polls, GivesUp,
             DropsPreview
<1>14. CASE \E i \in Slots : Succeeds(i)
  <2>1. PICK i \in Slots : Succeeds(i)
      BY <1>14
  <2> QED
      BY <2>1 DEF Alone, ThreadsOK, Pending, Modal, lists, dialog, preview,
             launching, threads, task, window, vars, Succeeds, Receives, Polls,
             Records, TakesContext
<1>15. CASE \E i \in Slots : Fails(i)
  <2>1. PICK i \in Slots : Fails(i)
      BY <1>15
  <2> QED
      BY <2>1 DEF Alone, ThreadsOK, Pending, Modal, lists, dialog, preview,
             launching, threads, task, window, vars, Fails, Receives, Polls,
             DropsPreview, DropsLaunch, Awaited, TakesContext
<1>16. CASE \E i \in Slots : Dies(i)
  <2>1. PICK i \in Slots : Dies(i)
      BY <1>16
  <2> QED
      BY <2>1 DEF Alone, ThreadsOK, Pending, Modal, lists, dialog, preview,
             launching, threads, task, window, vars, Dies, Receives, Polls,
             DropsPreview, DropsLaunch, Awaited, TakesContext
<1>17. CASE \E i \in Slots : Views(i)
  <2>1. PICK i \in Slots : Views(i)
      BY <1>17
  <2> QED
      BY <2>1 DEF Alone, ThreadsOK, Pending, Modal, lists, dialog, preview,
             launching, threads, task, window, vars, Views, Receives, Polls
<1>18. CASE \E i \in Slots : Cloned(i)
  <2>1. PICK i \in Slots : Cloned(i)
      BY <1>18
  <2>2. CASE Open(FALSE) /\ DropsLaunch
      BY <2>1, <2>2 DEF Alone, ThreadsOK, Pending, Modal, lists, dialog, preview,
             launching, threads, task, window, vars, Cloned, Receives, Polls,
             Open, DropsPreview, DropsLaunch
  <2>3. CASE UNCHANGED <<generation, home, lists, asked, preview, launching, needsRefresh>>
      BY <2>1, <2>3 DEF Alone, ThreadsOK, Pending, Modal, lists, dialog, preview,
             launching, threads, task, window, vars, Cloned, Receives, Polls
  <2> QED
      BY <2>1, <2>2, <2>3 DEF Cloned
<1>19. CASE \E i \in Slots : Searched(i)
  <2>1. PICK i \in Slots : Searched(i)
      BY <1>19
  <2> QED
      BY <2>1 DEF Alone, ThreadsOK, Pending, Modal, lists, dialog, preview,
             launching, threads, task, window, vars, Searched, Receives, Polls,
             Newest
<1>20. CASE \E i \in Slots : Refreshed(i)
  <2>1. PICK i \in Slots : Refreshed(i)
      BY <1>20
  <2> QED
      BY <2>1 DEF Alone, ThreadsOK, Pending, Modal, lists, dialog, preview,
             launching, threads, task, window, vars, Refreshed, Receives, Polls,
             DropsPreview, DropsLaunch, Awaited
<1>21. CASE FinishesPreview
    BY <1>21 DEF Alone, ThreadsOK, Pending, Modal, lists, dialog, preview,
           launching, threads, task, window, vars, FinishesPreview,
           DropsPreview, Unchanged, Absent, Matches, Records
<1>22. CASE LaunchesCleanup
    BY <1>22 DEF Alone, ThreadsOK, Pending, Modal, lists, dialog, preview,
           launching, threads, task, window, vars, LaunchesCleanup,
           LaunchIsReady, DropsLaunch, StartsCleanup, Matches, Previews,
           Starts
<1>23. CASE RefreshesQueued
    BY <1>23 DEF Alone, ThreadsOK, Pending, Modal, lists, dialog, preview,
           launching, threads, task, window, vars, RefreshesQueued, MayStart,
           Starts
<1>24. CASE \E i \in Slots : Reads(i)
  <2>1. PICK i \in Slots : Reads(i)
      BY <1>24
  <2> QED
      BY <2>1 DEF Alone, ThreadsOK, Pending, Modal, lists, dialog, preview,
             launching, threads, task, window, vars, Reads, Ends, Lists
<1>25. CASE \E i \in Slots : Works(i)
  <2>1. PICK i \in Slots : Works(i)
      BY <1>25
  <2> QED
      BY <2>1 DEF Alone, ThreadsOK, Pending, Modal, lists, dialog, preview,
             launching, threads, task, window, vars, Works, Ends
<1>26. CASE ChangesWorktree
    BY <1>26 DEF Alone, ThreadsOK, Pending, Modal, lists, dialog, preview,
           launching, threads, task, window, vars, ChangesWorktree
<1>27. CASE EditsTask
    BY <1>27 DEF Alone, ThreadsOK, Pending, Modal, lists, dialog, preview,
           launching, threads, task, window, vars, EditsTask
<1>28. CASE Reloads
    BY <1>28 DEF Alone, ThreadsOK, Pending, Modal, lists, dialog, preview,
           launching, threads, task, window, vars, Reloads
<1>29. CASE UNCHANGED vars
    BY <1>29 DEF Alone, ThreadsOK, Pending, Modal, lists, dialog, preview,
           launching, threads, task, window, vars
<1> QED
    BY <1>1, <1>2, <1>3, <1>4, <1>5, <1>6, <1>7, <1>8, <1>9, <1>10, <1>11,
       <1>12, <1>13, <1>14, <1>15, <1>16, <1>17, <1>18, <1>19, <1>20,
       <1>21, <1>22, <1>23, <1>24, <1>25, <1>26, <1>27, <1>28, <1>29
       DEF Next, UserActs, Processes, Visits, Elsewhere

\* A step keeps confirmations free of anything else.
LEMMA ModalStep == IInv /\ [Next]_vars => Modal'
<1> SUFFICES ASSUME IInv, [Next]_vars PROVE Modal'
    OBVIOUS
<1> USE ConstantsAssumption
<1> USE DEF IInv
<1>1. CASE Opens
    BY <1>1 DEF Modal, ThreadsOK, lists, dialog, preview, launching, threads, task,
           window, vars, Opens, Acting, Busy, Open, DropsLaunch, DropsPreview
<1>2. CASE Mutates
    BY <1>2 DEF Modal, ThreadsOK, lists, dialog, preview, launching, threads, task,
           window, vars, Mutates, Acting, Busy, MayStart, Starts
<1>3. CASE Clones
    BY <1>3 DEF Modal, ThreadsOK, lists, dialog, preview, launching, threads, task,
           window, vars, Clones, Acting, Busy, Starts
<1>4. CASE Refreshes
    BY <1>4 DEF Modal, ThreadsOK, lists, dialog, preview, launching, threads, task,
           window, vars, Refreshes, Acting, Busy, MayStart, Starts
<1>5. CASE Searches
    BY <1>5 DEF Modal, ThreadsOK, lists, dialog, preview, launching, threads, task,
           window, vars, Searches, Acting, MayStart, Starts
<1>6. CASE Asks
    BY <1>6 DEF Modal, ThreadsOK, lists, dialog, preview, launching, threads, task,
           window, vars, Asks, Acting, Busy
<1>7. CASE PreviewsListed
    BY <1>7 DEF Modal, ThreadsOK, lists, dialog, preview, launching, threads, task,
           window, vars, PreviewsListed, Acting, Busy, Previews, Starts
<1>8. CASE PreviewsTask
  <2>1. CASE generation \in home /\ Previews(known, shown # "listed")
      BY <1>8, <2>1 DEF Modal, ThreadsOK, lists, dialog, preview, launching, threads, task,
             window, vars, PreviewsTask, Acting, Busy, Previews, Starts
  <2>2. CASE generation \in home /\ UNCHANGED <<preview, needsRefresh, ops, late, threads>>
      BY <1>8, <2>2 DEF Modal, ThreadsOK, lists, dialog, preview, launching, threads, task,
             window, vars, PreviewsTask, Acting, Busy
  <2>3. CASE generation \notin home /\ Open(TRUE)
      BY <1>8, <2>3 DEF Modal, ThreadsOK, lists, dialog, preview, launching, threads, task,
             window, vars, PreviewsTask, Acting, Busy, Open, DropsPreview
  <2> QED
      BY <1>8, <2>1, <2>2, <2>3 DEF PreviewsTask, StartsCleanup
<1>9. CASE Confirms
    BY <1>9 DEF Modal, ThreadsOK, lists, dialog, preview, launching, threads, task,
           window, vars, Confirms, Acting, DropsDialog, Matches, Starts
<1>10. CASE Cancels
    BY <1>10 DEF Modal, ThreadsOK, lists, dialog, preview, launching, threads, task,
           window, vars, Cancels, Acting, DropsDialog
<1>11. CASE Frame
    BY <1>11 DEF Modal, ThreadsOK, lists, dialog, preview, launching, threads, task,
           window, vars, Frame
<1>12. CASE \E i \in Slots : Waits(i)
  <2>1. PICK i \in Slots : Waits(i)
      BY <1>12
  <2> QED
      BY <2>1 DEF Modal, ThreadsOK, lists, dialog, preview, launching, threads, task,
             window, vars, Waits, Polls
<1>13. CASE \E i \in Slots : TimesOut(i)
  <2>1. PICK i \in Slots : TimesOut(i)
      BY <1>13
  <2> QED
      BY <2>1 DEF Modal, ThreadsOK, lists, dialog, preview, launching, threads, task,
             window, vars, TimesOut, Polls, GivesUp, DropsPreview
<1>14. CASE \E i \in Slots : Succeeds(i)
  <2>1. PICK i \in Slots : Succeeds(i)
      BY <1>14
  <2> QED
      BY <2>1 DEF Modal, ThreadsOK, lists, dialog, preview, launching, threads, task,
             window, vars, Succeeds, Receives, Polls, Records, TakesContext
<1>15. CASE \E i \in Slots : Fails(i)
  <2>1. PICK i \in Slots : Fails(i)
      BY <1>15
  <2> QED
      BY <2>1 DEF Modal, ThreadsOK, lists, dialog, preview, launching, threads, task,
             window, vars, Fails, Receives, Polls, DropsPreview, DropsLaunch,
             Awaited, TakesContext
<1>16. CASE \E i \in Slots : Dies(i)
  <2>1. PICK i \in Slots : Dies(i)
      BY <1>16
  <2> QED
      BY <2>1 DEF Modal, ThreadsOK, lists, dialog, preview, launching, threads, task,
             window, vars, Dies, Receives, Polls, DropsPreview, DropsLaunch,
             Awaited, TakesContext
<1>17. CASE \E i \in Slots : Views(i)
  <2>1. PICK i \in Slots : Views(i)
      BY <1>17
  <2> QED
      BY <2>1 DEF Modal, ThreadsOK, lists, dialog, preview, launching, threads, task,
             window, vars, Views, Receives, Polls
<1>18. CASE \E i \in Slots : Cloned(i)
  <2>1. PICK i \in Slots : Cloned(i)
      BY <1>18
  <2>2. CASE Open(FALSE) /\ DropsLaunch
      BY <2>1, <2>2 DEF Modal, ThreadsOK, lists, dialog, preview, launching, threads, task,
             window, vars, Cloned, Receives, Polls, Open, DropsPreview,
             DropsLaunch
  <2>3. CASE UNCHANGED <<generation, home, lists, asked, preview, launching, needsRefresh>>
      BY <2>1, <2>3 DEF Modal, ThreadsOK, lists, dialog, preview, launching, threads, task,
             window, vars, Cloned, Receives, Polls
  <2> QED
      BY <2>1, <2>2, <2>3 DEF Cloned
<1>19. CASE \E i \in Slots : Searched(i)
  <2>1. PICK i \in Slots : Searched(i)
      BY <1>19
  <2> QED
      BY <2>1 DEF Modal, ThreadsOK, lists, dialog, preview, launching, threads, task,
             window, vars, Searched, Receives, Polls, Newest
<1>20. CASE \E i \in Slots : Refreshed(i)
  <2>1. PICK i \in Slots : Refreshed(i)
      BY <1>20
  <2> QED
      BY <2>1 DEF Modal, ThreadsOK, lists, dialog, preview, launching, threads, task,
             window, vars, Refreshed, Receives, Polls, DropsPreview,
             DropsLaunch, Awaited
<1>21. CASE FinishesPreview
    BY <1>21 DEF Modal, ThreadsOK, lists, dialog, preview, launching, threads, task,
           window, vars, FinishesPreview, DropsPreview, Unchanged, Absent,
           Matches, Records
<1>22. CASE LaunchesCleanup
    BY <1>22 DEF Modal, ThreadsOK, lists, dialog, preview, launching, threads, task,
           window, vars, LaunchesCleanup, LaunchIsReady, DropsLaunch,
           StartsCleanup, Matches, Previews, Starts
<1>23. CASE RefreshesQueued
    BY <1>23 DEF Modal, ThreadsOK, lists, dialog, preview, launching, threads, task,
           window, vars, RefreshesQueued, MayStart, Starts
<1>24. CASE \E i \in Slots : Reads(i)
  <2>1. PICK i \in Slots : Reads(i)
      BY <1>24
  <2> QED
      BY <2>1 DEF Modal, ThreadsOK, lists, dialog, preview, launching, threads, task,
             window, vars, Reads, Ends, Lists
<1>25. CASE \E i \in Slots : Works(i)
  <2>1. PICK i \in Slots : Works(i)
      BY <1>25
  <2> QED
      BY <2>1 DEF Modal, ThreadsOK, lists, dialog, preview, launching, threads, task,
             window, vars, Works, Ends
<1>26. CASE ChangesWorktree
    BY <1>26 DEF Modal, ThreadsOK, lists, dialog, preview, launching, threads, task,
           window, vars, ChangesWorktree
<1>27. CASE EditsTask
    BY <1>27 DEF Modal, ThreadsOK, lists, dialog, preview, launching, threads, task,
           window, vars, EditsTask
<1>28. CASE Reloads
    BY <1>28 DEF Modal, ThreadsOK, lists, dialog, preview, launching, threads, task,
           window, vars, Reloads
<1>29. CASE UNCHANGED vars
    BY <1>29 DEF Modal, ThreadsOK, lists, dialog, preview, launching, threads, task,
           window, vars
<1> QED
    BY <1>1, <1>2, <1>3, <1>4, <1>5, <1>6, <1>7, <1>8, <1>9, <1>10, <1>11,
       <1>12, <1>13, <1>14, <1>15, <1>16, <1>17, <1>18, <1>19, <1>20,
       <1>21, <1>22, <1>23, <1>24, <1>25, <1>26, <1>27, <1>28, <1>29
       DEF Next, UserActs, Processes, Visits, Elsewhere

\* A step keeps what is pending or shown with the open repository.
LEMMA CurrentStep == IInv /\ [Next]_vars => ResultsAreCurrent'
<1> SUFFICES ASSUME IInv, [Next]_vars PROVE ResultsAreCurrent'
    OBVIOUS
<1> USE ConstantsAssumption
<1> USE DEF IInv
<1>1. CASE Opens
    BY <1>1 DEF ResultsAreCurrent, ThreadsOK, Pending, lists, dialog, preview,
           launching, threads, task, window, vars, Opens, Acting, Busy, Open,
           DropsLaunch, DropsPreview
<1>2. CASE Mutates
    BY <1>2 DEF ResultsAreCurrent, ThreadsOK, Pending, lists, dialog, preview,
           launching, threads, task, window, vars, Mutates, Acting, Busy,
           MayStart, Starts
<1>3. CASE Clones
    BY <1>3 DEF ResultsAreCurrent, ThreadsOK, Pending, lists, dialog, preview,
           launching, threads, task, window, vars, Clones, Acting, Busy,
           Starts
<1>4. CASE Refreshes
    BY <1>4 DEF ResultsAreCurrent, ThreadsOK, Pending, lists, dialog, preview,
           launching, threads, task, window, vars, Refreshes, Acting, Busy,
           MayStart, Starts
<1>5. CASE Searches
    BY <1>5 DEF ResultsAreCurrent, ThreadsOK, Pending, lists, dialog, preview,
           launching, threads, task, window, vars, Searches, Acting, MayStart,
           Starts
<1>6. CASE Asks
    BY <1>6 DEF ResultsAreCurrent, ThreadsOK, Pending, lists, dialog, preview,
           launching, threads, task, window, vars, Asks, Acting, Busy
<1>7. CASE PreviewsListed
    BY <1>7 DEF ResultsAreCurrent, ThreadsOK, Pending, lists, dialog, preview,
           launching, threads, task, window, vars, PreviewsListed, Acting,
           Busy, Previews, Starts
<1>8. CASE PreviewsTask
  <2>1. CASE generation \in home /\ Previews(known, shown # "listed")
      BY <1>8, <2>1 DEF ResultsAreCurrent, ThreadsOK, Pending, lists, dialog, preview,
             launching, threads, task, window, vars, PreviewsTask, Acting, Busy,
             Previews, Starts
  <2>2. CASE generation \in home /\ UNCHANGED <<preview, needsRefresh, ops, late, threads>>
      BY <1>8, <2>2 DEF ResultsAreCurrent, ThreadsOK, Pending, lists, dialog, preview,
             launching, threads, task, window, vars, PreviewsTask, Acting, Busy
  <2>3. CASE generation \notin home /\ Open(TRUE)
      BY <1>8, <2>3 DEF ResultsAreCurrent, ThreadsOK, Pending, lists, dialog, preview,
             launching, threads, task, window, vars, PreviewsTask, Acting, Busy,
             Open, DropsPreview
  <2> QED
      BY <1>8, <2>1, <2>2, <2>3 DEF PreviewsTask, StartsCleanup
<1>9. CASE Confirms
    BY <1>9 DEF ResultsAreCurrent, ThreadsOK, Pending, lists, dialog, preview,
           launching, threads, task, window, vars, Confirms, Acting,
           DropsDialog, Matches, Starts
<1>10. CASE Cancels
    BY <1>10 DEF ResultsAreCurrent, ThreadsOK, Pending, lists, dialog, preview,
           launching, threads, task, window, vars, Cancels, Acting,
           DropsDialog
<1>11. CASE Frame
    BY <1>11 DEF ResultsAreCurrent, ThreadsOK, Pending, lists, dialog, preview,
           launching, threads, task, window, vars, Frame
<1>12. CASE \E i \in Slots : Waits(i)
  <2>1. PICK i \in Slots : Waits(i)
      BY <1>12
  <2> QED
      BY <2>1 DEF ResultsAreCurrent, ThreadsOK, Pending, lists, dialog, preview,
             launching, threads, task, window, vars, Waits, Polls
<1>13. CASE \E i \in Slots : TimesOut(i)
  <2>1. PICK i \in Slots : TimesOut(i)
      BY <1>13
  <2> QED
      BY <2>1 DEF ResultsAreCurrent, ThreadsOK, Pending, lists, dialog, preview,
             launching, threads, task, window, vars, TimesOut, Polls, GivesUp,
             DropsPreview
<1>14. CASE \E i \in Slots : Succeeds(i)
  <2>1. PICK i \in Slots : Succeeds(i)
      BY <1>14
  <2> QED
      BY <2>1 DEF ResultsAreCurrent, ThreadsOK, Pending, lists, dialog, preview,
             launching, threads, task, window, vars, Succeeds, Receives, Polls,
             Records, TakesContext
<1>15. CASE \E i \in Slots : Fails(i)
  <2>1. PICK i \in Slots : Fails(i)
      BY <1>15
  <2> QED
      BY <2>1 DEF ResultsAreCurrent, ThreadsOK, Pending, lists, dialog, preview,
             launching, threads, task, window, vars, Fails, Receives, Polls,
             DropsPreview, DropsLaunch, Awaited, TakesContext
<1>16. CASE \E i \in Slots : Dies(i)
  <2>1. PICK i \in Slots : Dies(i)
      BY <1>16
  <2> QED
      BY <2>1 DEF ResultsAreCurrent, ThreadsOK, Pending, lists, dialog, preview,
             launching, threads, task, window, vars, Dies, Receives, Polls,
             DropsPreview, DropsLaunch, Awaited, TakesContext
<1>17. CASE \E i \in Slots : Views(i)
  <2>1. PICK i \in Slots : Views(i)
      BY <1>17
  <2> QED
      BY <2>1 DEF ResultsAreCurrent, ThreadsOK, Pending, lists, dialog, preview,
             launching, threads, task, window, vars, Views, Receives, Polls
<1>18. CASE \E i \in Slots : Cloned(i)
  <2>1. PICK i \in Slots : Cloned(i)
      BY <1>18
  <2>2. CASE Open(FALSE) /\ DropsLaunch
      BY <2>1, <2>2 DEF ResultsAreCurrent, ThreadsOK, Pending, lists, dialog, preview,
             launching, threads, task, window, vars, Cloned, Receives, Polls,
             Open, DropsPreview, DropsLaunch
  <2>3. CASE UNCHANGED <<generation, home, lists, asked, preview, launching, needsRefresh>>
      BY <2>1, <2>3 DEF ResultsAreCurrent, ThreadsOK, Pending, lists, dialog, preview,
             launching, threads, task, window, vars, Cloned, Receives, Polls
  <2> QED
      BY <2>1, <2>2, <2>3 DEF Cloned
<1>19. CASE \E i \in Slots : Searched(i)
  <2>1. PICK i \in Slots : Searched(i)
      BY <1>19
  <2> QED
      BY <2>1 DEF ResultsAreCurrent, ThreadsOK, Pending, lists, dialog, preview,
             launching, threads, task, window, vars, Searched, Receives, Polls,
             Newest
<1>20. CASE \E i \in Slots : Refreshed(i)
  <2>1. PICK i \in Slots : Refreshed(i)
      BY <1>20
  <2> QED
      BY <2>1 DEF ResultsAreCurrent, ThreadsOK, Pending, lists, dialog, preview,
             launching, threads, task, window, vars, Refreshed, Receives, Polls,
             DropsPreview, DropsLaunch, Awaited
<1>21. CASE FinishesPreview
    BY <1>21 DEF ResultsAreCurrent, ThreadsOK, Pending, lists, dialog, preview,
           launching, threads, task, window, vars, FinishesPreview,
           DropsPreview, Unchanged, Absent, Matches, Records
<1>22. CASE LaunchesCleanup
    BY <1>22 DEF ResultsAreCurrent, ThreadsOK, Pending, lists, dialog, preview,
           launching, threads, task, window, vars, LaunchesCleanup,
           LaunchIsReady, DropsLaunch, StartsCleanup, Matches, Previews,
           Starts
<1>23. CASE RefreshesQueued
    BY <1>23 DEF ResultsAreCurrent, ThreadsOK, Pending, lists, dialog, preview,
           launching, threads, task, window, vars, RefreshesQueued, MayStart,
           Starts
<1>24. CASE \E i \in Slots : Reads(i)
  <2>1. PICK i \in Slots : Reads(i)
      BY <1>24
  <2> QED
      BY <2>1 DEF ResultsAreCurrent, ThreadsOK, Pending, lists, dialog, preview,
             launching, threads, task, window, vars, Reads, Ends, Lists
<1>25. CASE \E i \in Slots : Works(i)
  <2>1. PICK i \in Slots : Works(i)
      BY <1>25
  <2> QED
      BY <2>1 DEF ResultsAreCurrent, ThreadsOK, Pending, lists, dialog, preview,
             launching, threads, task, window, vars, Works, Ends
<1>26. CASE ChangesWorktree
    BY <1>26 DEF ResultsAreCurrent, ThreadsOK, Pending, lists, dialog, preview,
           launching, threads, task, window, vars, ChangesWorktree
<1>27. CASE EditsTask
    BY <1>27 DEF ResultsAreCurrent, ThreadsOK, Pending, lists, dialog, preview,
           launching, threads, task, window, vars, EditsTask
<1>28. CASE Reloads
    BY <1>28 DEF ResultsAreCurrent, ThreadsOK, Pending, lists, dialog, preview,
           launching, threads, task, window, vars, Reloads
<1>29. CASE UNCHANGED vars
    BY <1>29 DEF ResultsAreCurrent, ThreadsOK, Pending, lists, dialog, preview,
           launching, threads, task, window, vars
<1> QED
    BY <1>1, <1>2, <1>3, <1>4, <1>5, <1>6, <1>7, <1>8, <1>9, <1>10, <1>11,
       <1>12, <1>13, <1>14, <1>15, <1>16, <1>17, <1>18, <1>19, <1>20,
       <1>21, <1>22, <1>23, <1>24, <1>25, <1>26, <1>27, <1>28, <1>29
       DEF Next, UserActs, Processes, Visits, Elsewhere

\* A step keeps the two stages of a cleanup apart.
LEMMA CleanupsStep == IInv /\ [Next]_vars => Cleanups'
<1> SUFFICES ASSUME IInv, [Next]_vars PROVE Cleanups'
    OBVIOUS
<1> USE ConstantsAssumption
<1> USE DEF IInv
<1>1. CASE Opens
    BY <1>1 DEF Cleanups, ThreadsOK, ResultsAreCurrent, Pending, lists, dialog,
           preview, launching, threads, task, window, vars, Opens, Acting,
           Busy, Open, DropsLaunch, DropsPreview
<1>2. CASE Mutates
    BY <1>2 DEF Cleanups, ThreadsOK, ResultsAreCurrent, Pending, lists, dialog,
           preview, launching, threads, task, window, vars, Mutates, Acting,
           Busy, MayStart, Starts
<1>3. CASE Clones
    BY <1>3 DEF Cleanups, ThreadsOK, ResultsAreCurrent, Pending, lists, dialog,
           preview, launching, threads, task, window, vars, Clones, Acting,
           Busy, Starts
<1>4. CASE Refreshes
    BY <1>4 DEF Cleanups, ThreadsOK, ResultsAreCurrent, Pending, lists, dialog,
           preview, launching, threads, task, window, vars, Refreshes, Acting,
           Busy, MayStart, Starts
<1>5. CASE Searches
    BY <1>5 DEF Cleanups, ThreadsOK, ResultsAreCurrent, Pending, lists, dialog,
           preview, launching, threads, task, window, vars, Searches, Acting,
           MayStart, Starts
<1>6. CASE Asks
    BY <1>6 DEF Cleanups, ThreadsOK, ResultsAreCurrent, Pending, lists, dialog,
           preview, launching, threads, task, window, vars, Asks, Acting,
           Busy
<1>7. CASE PreviewsListed
    BY <1>7 DEF Cleanups, ThreadsOK, ResultsAreCurrent, Pending, lists, dialog,
           preview, launching, threads, task, window, vars, PreviewsListed,
           Acting, Busy, Previews, Starts
<1>8. CASE PreviewsTask
  <2>1. CASE generation \in home /\ Previews(known, shown # "listed")
      BY <1>8, <2>1 DEF Cleanups, ThreadsOK, ResultsAreCurrent, Pending, lists, dialog,
             preview, launching, threads, task, window, vars, PreviewsTask,
             Acting, Busy, Previews, Starts
  <2>2. CASE generation \in home /\ UNCHANGED <<preview, needsRefresh, ops, late, threads>>
      BY <1>8, <2>2 DEF Cleanups, ThreadsOK, ResultsAreCurrent, Pending, lists, dialog,
             preview, launching, threads, task, window, vars, PreviewsTask,
             Acting, Busy
  <2>3. CASE generation \notin home /\ Open(TRUE)
      BY <1>8, <2>3 DEF Cleanups, ThreadsOK, ResultsAreCurrent, Pending, lists, dialog,
             preview, launching, threads, task, window, vars, PreviewsTask,
             Acting, Busy, Open, DropsPreview
  <2> QED
      BY <1>8, <2>1, <2>2, <2>3 DEF PreviewsTask, StartsCleanup
<1>9. CASE Confirms
    BY <1>9 DEF Cleanups, ThreadsOK, ResultsAreCurrent, Pending, lists, dialog,
           preview, launching, threads, task, window, vars, Confirms, Acting,
           DropsDialog, Matches, Starts
<1>10. CASE Cancels
    BY <1>10 DEF Cleanups, ThreadsOK, ResultsAreCurrent, Pending, lists, dialog,
           preview, launching, threads, task, window, vars, Cancels, Acting,
           DropsDialog
<1>11. CASE Frame
    BY <1>11 DEF Cleanups, ThreadsOK, ResultsAreCurrent, Pending, lists, dialog,
           preview, launching, threads, task, window, vars, Frame
<1>12. CASE \E i \in Slots : Waits(i)
  <2>1. PICK i \in Slots : Waits(i)
      BY <1>12
  <2> QED
      BY <2>1 DEF Cleanups, ThreadsOK, ResultsAreCurrent, Pending, lists, dialog,
             preview, launching, threads, task, window, vars, Waits, Polls
<1>13. CASE \E i \in Slots : TimesOut(i)
  <2>1. PICK i \in Slots : TimesOut(i)
      BY <1>13
  <2> QED
      BY <2>1 DEF Cleanups, ThreadsOK, ResultsAreCurrent, Pending, lists, dialog,
             preview, launching, threads, task, window, vars, TimesOut, Polls,
             GivesUp, DropsPreview
<1>14. CASE \E i \in Slots : Succeeds(i)
  <2>1. PICK i \in Slots : Succeeds(i)
      BY <1>14
  <2> QED
      BY <2>1 DEF Cleanups, ThreadsOK, ResultsAreCurrent, Pending, lists, dialog,
             preview, launching, threads, task, window, vars, Succeeds,
             Receives, Polls, Records, TakesContext
<1>15. CASE \E i \in Slots : Fails(i)
  <2>1. PICK i \in Slots : Fails(i)
      BY <1>15
  <2> QED
      BY <2>1 DEF Cleanups, ThreadsOK, ResultsAreCurrent, Pending, lists, dialog,
             preview, launching, threads, task, window, vars, Fails, Receives,
             Polls, DropsPreview, DropsLaunch, Awaited, TakesContext
<1>16. CASE \E i \in Slots : Dies(i)
  <2>1. PICK i \in Slots : Dies(i)
      BY <1>16
  <2> QED
      BY <2>1 DEF Cleanups, ThreadsOK, ResultsAreCurrent, Pending, lists, dialog,
             preview, launching, threads, task, window, vars, Dies, Receives,
             Polls, DropsPreview, DropsLaunch, Awaited, TakesContext
<1>17. CASE \E i \in Slots : Views(i)
  <2>1. PICK i \in Slots : Views(i)
      BY <1>17
  <2> QED
      BY <2>1 DEF Cleanups, ThreadsOK, ResultsAreCurrent, Pending, lists, dialog,
             preview, launching, threads, task, window, vars, Views, Receives,
             Polls
<1>18. CASE \E i \in Slots : Cloned(i)
  <2>1. PICK i \in Slots : Cloned(i)
      BY <1>18
  <2>2. CASE Open(FALSE) /\ DropsLaunch
      BY <2>1, <2>2 DEF Cleanups, ThreadsOK, ResultsAreCurrent, Pending, lists, dialog,
             preview, launching, threads, task, window, vars, Cloned, Receives,
             Polls, Open, DropsPreview, DropsLaunch
  <2>3. CASE UNCHANGED <<generation, home, lists, asked, preview, launching, needsRefresh>>
      BY <2>1, <2>3 DEF Cleanups, ThreadsOK, ResultsAreCurrent, Pending, lists, dialog,
             preview, launching, threads, task, window, vars, Cloned, Receives,
             Polls
  <2> QED
      BY <2>1, <2>2, <2>3 DEF Cloned
<1>19. CASE \E i \in Slots : Searched(i)
  <2>1. PICK i \in Slots : Searched(i)
      BY <1>19
  <2> QED
      BY <2>1 DEF Cleanups, ThreadsOK, ResultsAreCurrent, Pending, lists, dialog,
             preview, launching, threads, task, window, vars, Searched,
             Receives, Polls, Newest
<1>20. CASE \E i \in Slots : Refreshed(i)
  <2>1. PICK i \in Slots : Refreshed(i)
      BY <1>20
  <2> QED
      BY <2>1 DEF Cleanups, ThreadsOK, ResultsAreCurrent, Pending, lists, dialog,
             preview, launching, threads, task, window, vars, Refreshed,
             Receives, Polls, DropsPreview, DropsLaunch, Awaited
<1>21. CASE FinishesPreview
    BY <1>21 DEF Cleanups, ThreadsOK, ResultsAreCurrent, Pending, lists, dialog,
           preview, launching, threads, task, window, vars, FinishesPreview,
           DropsPreview, Unchanged, Absent, Matches, Records
<1>22. CASE LaunchesCleanup
    BY <1>22 DEF Cleanups, ThreadsOK, ResultsAreCurrent, Pending, lists, dialog,
           preview, launching, threads, task, window, vars, LaunchesCleanup,
           LaunchIsReady, DropsLaunch, StartsCleanup, Matches, Previews,
           Starts
<1>23. CASE RefreshesQueued
    BY <1>23 DEF Cleanups, ThreadsOK, ResultsAreCurrent, Pending, lists, dialog,
           preview, launching, threads, task, window, vars, RefreshesQueued,
           MayStart, Starts
<1>24. CASE \E i \in Slots : Reads(i)
  <2>1. PICK i \in Slots : Reads(i)
      BY <1>24
  <2> QED
      BY <2>1 DEF Cleanups, ThreadsOK, ResultsAreCurrent, Pending, lists, dialog,
             preview, launching, threads, task, window, vars, Reads, Ends,
             Lists
<1>25. CASE \E i \in Slots : Works(i)
  <2>1. PICK i \in Slots : Works(i)
      BY <1>25
  <2> QED
      BY <2>1 DEF Cleanups, ThreadsOK, ResultsAreCurrent, Pending, lists, dialog,
             preview, launching, threads, task, window, vars, Works, Ends
<1>26. CASE ChangesWorktree
    BY <1>26 DEF Cleanups, ThreadsOK, ResultsAreCurrent, Pending, lists, dialog,
           preview, launching, threads, task, window, vars, ChangesWorktree
<1>27. CASE EditsTask
    BY <1>27 DEF Cleanups, ThreadsOK, ResultsAreCurrent, Pending, lists, dialog,
           preview, launching, threads, task, window, vars, EditsTask
<1>28. CASE Reloads
    BY <1>28 DEF Cleanups, ThreadsOK, ResultsAreCurrent, Pending, lists, dialog,
           preview, launching, threads, task, window, vars, Reloads
<1>29. CASE UNCHANGED vars
    BY <1>29 DEF Cleanups, ThreadsOK, ResultsAreCurrent, Pending, lists, dialog,
           preview, launching, threads, task, window, vars
<1> QED
    BY <1>1, <1>2, <1>3, <1>4, <1>5, <1>6, <1>7, <1>8, <1>9, <1>10, <1>11,
       <1>12, <1>13, <1>14, <1>15, <1>16, <1>17, <1>18, <1>19, <1>20,
       <1>21, <1>22, <1>23, <1>24, <1>25, <1>26, <1>27, <1>28, <1>29
       DEF Next, UserActs, Processes, Visits, Elsewhere

\* A step keeps a task's context with its removal.
LEMMA ContextStep == IInv /\ [Next]_vars => ContextHasRemoval'
<1> SUFFICES ASSUME IInv, [Next]_vars PROVE ContextHasRemoval'
    OBVIOUS
<1> USE ConstantsAssumption
<1> USE DEF IInv
<1>1. CASE Opens
    BY <1>1 DEF ContextHasRemoval, ThreadsOK, Pending, Modal, Answers, lists,
           dialog, preview, launching, threads, task, window, vars, Opens,
           Acting, Busy, Open, DropsLaunch, DropsPreview
<1>2. CASE Mutates
    BY <1>2 DEF ContextHasRemoval, ThreadsOK, Pending, Modal, Answers, lists,
           dialog, preview, launching, threads, task, window, vars, Mutates,
           Acting, Busy, MayStart, Starts
<1>3. CASE Clones
    BY <1>3 DEF ContextHasRemoval, ThreadsOK, Pending, Modal, Answers, lists,
           dialog, preview, launching, threads, task, window, vars, Clones,
           Acting, Busy, Starts
<1>4. CASE Refreshes
    BY <1>4 DEF ContextHasRemoval, ThreadsOK, Pending, Modal, Answers, lists,
           dialog, preview, launching, threads, task, window, vars, Refreshes,
           Acting, Busy, MayStart, Starts
<1>5. CASE Searches
    BY <1>5 DEF ContextHasRemoval, ThreadsOK, Pending, Modal, Answers, lists,
           dialog, preview, launching, threads, task, window, vars, Searches,
           Acting, MayStart, Starts
<1>6. CASE Asks
    BY <1>6 DEF ContextHasRemoval, ThreadsOK, Pending, Modal, Answers, lists,
           dialog, preview, launching, threads, task, window, vars, Asks,
           Acting, Busy
<1>7. CASE PreviewsListed
    BY <1>7 DEF ContextHasRemoval, ThreadsOK, Pending, Modal, Answers, lists,
           dialog, preview, launching, threads, task, window, vars,
           PreviewsListed, Acting, Busy, Previews, Starts
<1>8. CASE PreviewsTask
  <2>1. CASE generation \in home /\ Previews(known, shown # "listed")
      BY <1>8, <2>1 DEF ContextHasRemoval, ThreadsOK, Pending, Modal, Answers, lists,
             dialog, preview, launching, threads, task, window, vars,
             PreviewsTask, Acting, Busy, Previews, Starts
  <2>2. CASE generation \in home /\ UNCHANGED <<preview, needsRefresh, ops, late, threads>>
      BY <1>8, <2>2 DEF ContextHasRemoval, ThreadsOK, Pending, Modal, Answers, lists,
             dialog, preview, launching, threads, task, window, vars,
             PreviewsTask, Acting, Busy
  <2>3. CASE generation \notin home /\ Open(TRUE)
      BY <1>8, <2>3 DEF ContextHasRemoval, ThreadsOK, Pending, Modal, Answers, lists,
             dialog, preview, launching, threads, task, window, vars,
             PreviewsTask, Acting, Busy, Open, DropsPreview
  <2> QED
      BY <1>8, <2>1, <2>2, <2>3 DEF PreviewsTask, StartsCleanup
<1>9. CASE Confirms
    BY <1>9 DEF ContextHasRemoval, ThreadsOK, Pending, Modal, Answers, lists,
           dialog, preview, launching, threads, task, window, vars, Confirms,
           Acting, DropsDialog, Matches, Starts
<1>10. CASE Cancels
    BY <1>10 DEF ContextHasRemoval, ThreadsOK, Pending, Modal, Answers, lists,
           dialog, preview, launching, threads, task, window, vars, Cancels,
           Acting, DropsDialog
<1>11. CASE Frame
    BY <1>11 DEF ContextHasRemoval, ThreadsOK, Pending, Modal, Answers, lists,
           dialog, preview, launching, threads, task, window, vars, Frame
<1>12. CASE \E i \in Slots : Waits(i)
  <2>1. PICK i \in Slots : Waits(i)
      BY <1>12
  <2> QED
      BY <2>1 DEF ContextHasRemoval, ThreadsOK, Pending, Modal, Answers, lists,
             dialog, preview, launching, threads, task, window, vars, Waits,
             Polls
<1>13. CASE \E i \in Slots : TimesOut(i)
  <2>1. PICK i \in Slots : TimesOut(i)
      BY <1>13
  <2> QED
      BY <2>1 DEF ContextHasRemoval, ThreadsOK, Pending, Modal, Answers, lists,
             dialog, preview, launching, threads, task, window, vars, TimesOut,
             Polls, GivesUp, DropsPreview
<1>14. CASE \E i \in Slots : Succeeds(i)
  <2>1. PICK i \in Slots : Succeeds(i)
      BY <1>14
  <2> QED
      BY <2>1 DEF ContextHasRemoval, ThreadsOK, Pending, Modal, Answers, lists,
             dialog, preview, launching, threads, task, window, vars, Succeeds,
             Receives, Polls, Records, TakesContext
<1>15. CASE \E i \in Slots : Fails(i)
  <2>1. PICK i \in Slots : Fails(i)
      BY <1>15
  <2> QED
      BY <2>1 DEF ContextHasRemoval, ThreadsOK, Pending, Modal, Answers, lists,
             dialog, preview, launching, threads, task, window, vars, Fails,
             Receives, Polls, DropsPreview, DropsLaunch, Awaited, TakesContext
<1>16. CASE \E i \in Slots : Dies(i)
  <2>1. PICK i \in Slots : Dies(i)
      BY <1>16
  <2> QED
      BY <2>1 DEF ContextHasRemoval, ThreadsOK, Pending, Modal, Answers, lists,
             dialog, preview, launching, threads, task, window, vars, Dies,
             Receives, Polls, DropsPreview, DropsLaunch, Awaited, TakesContext
<1>17. CASE \E i \in Slots : Views(i)
  <2>1. PICK i \in Slots : Views(i)
      BY <1>17
  <2> QED
      BY <2>1 DEF ContextHasRemoval, ThreadsOK, Pending, Modal, Answers, lists,
             dialog, preview, launching, threads, task, window, vars, Views,
             Receives, Polls
<1>18. CASE \E i \in Slots : Cloned(i)
  <2>1. PICK i \in Slots : Cloned(i)
      BY <1>18
  <2>2. CASE Open(FALSE) /\ DropsLaunch
      BY <2>1, <2>2 DEF ContextHasRemoval, ThreadsOK, Pending, Modal, Answers, lists,
             dialog, preview, launching, threads, task, window, vars, Cloned,
             Receives, Polls, Open, DropsPreview, DropsLaunch
  <2>3. CASE UNCHANGED <<generation, home, lists, asked, preview, launching, needsRefresh>>
      BY <2>1, <2>3 DEF ContextHasRemoval, ThreadsOK, Pending, Modal, Answers, lists,
             dialog, preview, launching, threads, task, window, vars, Cloned,
             Receives, Polls
  <2> QED
      BY <2>1, <2>2, <2>3 DEF Cloned
<1>19. CASE \E i \in Slots : Searched(i)
  <2>1. PICK i \in Slots : Searched(i)
      BY <1>19
  <2> QED
      BY <2>1 DEF ContextHasRemoval, ThreadsOK, Pending, Modal, Answers, lists,
             dialog, preview, launching, threads, task, window, vars, Searched,
             Receives, Polls, Newest
<1>20. CASE \E i \in Slots : Refreshed(i)
  <2>1. PICK i \in Slots : Refreshed(i)
      BY <1>20
  <2> QED
      BY <2>1 DEF ContextHasRemoval, ThreadsOK, Pending, Modal, Answers, lists,
             dialog, preview, launching, threads, task, window, vars, Refreshed,
             Receives, Polls, DropsPreview, DropsLaunch, Awaited
<1>21. CASE FinishesPreview
    BY <1>21 DEF ContextHasRemoval, ThreadsOK, Pending, Modal, Answers, lists,
           dialog, preview, launching, threads, task, window, vars,
           FinishesPreview, DropsPreview, Unchanged, Absent, Matches, Records
<1>22. CASE LaunchesCleanup
    BY <1>22 DEF ContextHasRemoval, ThreadsOK, Pending, Modal, Answers, lists,
           dialog, preview, launching, threads, task, window, vars,
           LaunchesCleanup, LaunchIsReady, DropsLaunch, StartsCleanup,
           Matches, Previews, Starts
<1>23. CASE RefreshesQueued
    BY <1>23 DEF ContextHasRemoval, ThreadsOK, Pending, Modal, Answers, lists,
           dialog, preview, launching, threads, task, window, vars,
           RefreshesQueued, MayStart, Starts
<1>24. CASE \E i \in Slots : Reads(i)
  <2>1. PICK i \in Slots : Reads(i)
      BY <1>24
  <2> QED
      BY <2>1 DEF ContextHasRemoval, ThreadsOK, Pending, Modal, Answers, lists,
             dialog, preview, launching, threads, task, window, vars, Reads,
             Ends, Lists
<1>25. CASE \E i \in Slots : Works(i)
  <2>1. PICK i \in Slots : Works(i)
      BY <1>25
  <2> QED
      BY <2>1 DEF ContextHasRemoval, ThreadsOK, Pending, Modal, Answers, lists,
             dialog, preview, launching, threads, task, window, vars, Works,
             Ends
<1>26. CASE ChangesWorktree
    BY <1>26 DEF ContextHasRemoval, ThreadsOK, Pending, Modal, Answers, lists,
           dialog, preview, launching, threads, task, window, vars,
           ChangesWorktree
<1>27. CASE EditsTask
    BY <1>27 DEF ContextHasRemoval, ThreadsOK, Pending, Modal, Answers, lists,
           dialog, preview, launching, threads, task, window, vars, EditsTask
<1>28. CASE Reloads
    BY <1>28 DEF ContextHasRemoval, ThreadsOK, Pending, Modal, Answers, lists,
           dialog, preview, launching, threads, task, window, vars, Reloads
<1>29. CASE UNCHANGED vars
    BY <1>29 DEF ContextHasRemoval, ThreadsOK, Pending, Modal, Answers, lists,
           dialog, preview, launching, threads, task, window, vars
<1> QED
    BY <1>1, <1>2, <1>3, <1>4, <1>5, <1>6, <1>7, <1>8, <1>9, <1>10, <1>11,
       <1>12, <1>13, <1>14, <1>15, <1>16, <1>17, <1>18, <1>19, <1>20,
       <1>21, <1>22, <1>23, <1>24, <1>25, <1>26, <1>27, <1>28, <1>29
       DEF Next, UserActs, Processes, Visits, Elsewhere

\* Nothing is open, pending or asked.
LEMMA Initially == Init => IInv
<1> SUFFICES ASSUME Init PROVE IInv
    OBVIOUS
<1> USE ConstantsAssumption DEF Init
<1>1. NumbersOK
    BY DEF NumbersOK
<1>2. WindowOK /\ FlagsOK
    BY DEF WindowOK, FlagsOK, Listings
<1>3. ThreadsOK
    BY DEF ThreadsOK, Kinds, Ended, Listings
<1>4. Pending /\ Answers /\ Alone
    BY DEF Pending, Answers, Alone
<1>5. Modal /\ Cleanups
    BY DEF Modal, Cleanups
<1>6. ResultsAreCurrent /\ ContextHasRemoval
    BY DEF ResultsAreCurrent, ContextHasRemoval
<1> QED
    BY <1>1, <1>2, <1>3, <1>4, <1>5, <1>6 DEF IInv

\* The invariant behind the others holds in every state of every behaviour.
THEOREM Inductive == Spec => []IInv
<1>1. Init => IInv
    BY Initially
<1>2. IInv /\ [Next]_vars => IInv'
    BY NumbersStep, WindowStep, FlagsStep, ThreadsStep, PendingStep, AnswersStep,
       AloneStep, ModalStep, CurrentStep, CleanupsStep, ContextStep DEF IInv
<1> QED
    BY <1>1, <1>2, PTL DEF Spec

\* Every variable keeps its type.
THEOREM TypeCorrect == Spec => []TypeOK
<1>1. IInv => TypeOK
    BY DEF IInv, TypeOK, NumbersOK, WindowOK, FlagsOK, ThreadsOK
<1> QED
    BY <1>1, Inductive, PTL

\* Two operations never run at once, searches apart, not even after a time-out.
THEOREM OneAtATimeCorrect == Spec => []OneAtATime
<1>1. IInv => OneAtATime
    BY DEF IInv, Pending, Alone, OneAtATime
<1> QED
    BY <1>1, Inductive, PTL

\* Nothing is pending while a confirmation stands.
THEOREM DialogCorrect == Spec => []NothingUnderDialog
<1>1. IInv => NothingUnderDialog
    BY DEF IInv, Modal, NothingUnderDialog
<1> QED
    BY <1>1, Inductive, PTL

\* Whatever is pending or shown belongs to the repository that is open.
THEOREM CurrentCorrect == Spec => []ResultsAreCurrent
<1>1. IInv => ResultsAreCurrent
    BY DEF IInv
<1> QED
    BY <1>1, Inductive, PTL

\* A task's context is kept only as long as its removal is pending.
THEOREM ContextCorrect == Spec => []ContextHasRemoval
<1>1. IInv => ContextHasRemoval
    BY DEF IInv
<1> QED
    BY <1>1, Inductive, PTL

\* What a confirmation was asked about is not replaced behind it.
THEOREM DialogStaysTrueCorrect == Spec => DialogStaysTrue
<1>1. IInv /\ [Next]_vars => [confirm # "none" /\ confirm' # "none" => UNCHANGED <<generation, shown, shownFor>>]_vars
  <2> SUFFICES ASSUME IInv, [Next]_vars, confirm # "none", confirm' # "none"
               PROVE  UNCHANGED <<generation, shown, shownFor>>
      BY DEF vars
  <2> USE DEF IInv
  <2>1. CASE Opens
      BY <2>1 DEF Modal, ThreadsOK, lists, dialog, preview, launching, threads, task,
             window, vars, Opens, Acting, Busy, Open, DropsLaunch, DropsPreview
  <2>2. CASE Mutates
      BY <2>2 DEF Modal, ThreadsOK, lists, dialog, preview, launching, threads, task,
             window, vars, Mutates, Acting, Busy, MayStart, Starts
  <2>3. CASE Clones
      BY <2>3 DEF Modal, ThreadsOK, lists, dialog, preview, launching, threads, task,
             window, vars, Clones, Acting, Busy, Starts
  <2>4. CASE Refreshes
      BY <2>4 DEF Modal, ThreadsOK, lists, dialog, preview, launching, threads, task,
             window, vars, Refreshes, Acting, Busy, MayStart, Starts
  <2>5. CASE Searches
      BY <2>5 DEF Modal, ThreadsOK, lists, dialog, preview, launching, threads, task,
             window, vars, Searches, Acting, MayStart, Starts
  <2>6. CASE Asks
      BY <2>6 DEF Modal, ThreadsOK, lists, dialog, preview, launching, threads, task,
             window, vars, Asks, Acting, Busy
  <2>7. CASE PreviewsListed
      BY <2>7 DEF Modal, ThreadsOK, lists, dialog, preview, launching, threads, task,
             window, vars, PreviewsListed, Acting, Busy, Previews, Starts
  <2>8. CASE PreviewsTask
      BY <2>8 DEF Modal, ThreadsOK, lists, dialog, preview, launching, threads, task,
             window, vars, PreviewsTask, Acting, Busy, Open, DropsPreview,
             StartsCleanup, Matches, Previews, Starts
  <2>9. CASE Confirms
      BY <2>9 DEF Modal, ThreadsOK, lists, dialog, preview, launching, threads, task,
             window, vars, Confirms, Acting, DropsDialog, Matches, Starts
  <2>10. CASE Cancels
      BY <2>10 DEF Modal, ThreadsOK, lists, dialog, preview, launching, threads, task,
             window, vars, Cancels, Acting, DropsDialog
  <2>11. CASE Frame
      BY <2>11 DEF Modal, ThreadsOK, lists, dialog, preview, launching, threads, task,
             window, vars, Frame
  <2>12. CASE \E i \in Slots : Waits(i)
      BY <2>12 DEF Modal, ThreadsOK, lists, dialog, preview, launching, threads, task,
             window, vars, Waits, Polls
  <2>13. CASE \E i \in Slots : TimesOut(i)
      BY <2>13 DEF Modal, ThreadsOK, lists, dialog, preview, launching, threads, task,
             window, vars, TimesOut, Polls, GivesUp, DropsPreview
  <2>14. CASE \E i \in Slots : Succeeds(i)
      BY <2>14 DEF Modal, ThreadsOK, lists, dialog, preview, launching, threads, task,
             window, vars, Succeeds, Receives, Polls, Records, TakesContext
  <2>15. CASE \E i \in Slots : Fails(i)
      BY <2>15 DEF Modal, ThreadsOK, lists, dialog, preview, launching, threads, task,
             window, vars, Fails, Receives, Polls, DropsPreview, DropsLaunch,
             Awaited, TakesContext
  <2>16. CASE \E i \in Slots : Dies(i)
      BY <2>16 DEF Modal, ThreadsOK, lists, dialog, preview, launching, threads, task,
             window, vars, Dies, Receives, Polls, DropsPreview, DropsLaunch,
             Awaited, TakesContext
  <2>17. CASE \E i \in Slots : Views(i)
      BY <2>17 DEF Modal, ThreadsOK, lists, dialog, preview, launching, threads, task,
             window, vars, Views, Receives, Polls
  <2>18. CASE \E i \in Slots : Cloned(i)
      BY <2>18 DEF Modal, ThreadsOK, lists, dialog, preview, launching, threads, task,
             window, vars, Cloned, Receives, Polls, Open, DropsPreview,
             DropsLaunch
  <2>19. CASE \E i \in Slots : Searched(i)
      BY <2>19 DEF Modal, ThreadsOK, lists, dialog, preview, launching, threads, task,
             window, vars, Searched, Receives, Polls, Newest
  <2>20. CASE \E i \in Slots : Refreshed(i)
      BY <2>20 DEF Modal, ThreadsOK, lists, dialog, preview, launching, threads, task,
             window, vars, Refreshed, Receives, Polls, DropsPreview,
             DropsLaunch, Awaited
  <2>21. CASE FinishesPreview
      BY <2>21 DEF Modal, ThreadsOK, lists, dialog, preview, launching, threads, task,
             window, vars, FinishesPreview, DropsPreview, Unchanged, Absent,
             Matches, Records
  <2>22. CASE LaunchesCleanup
      BY <2>22 DEF Modal, ThreadsOK, lists, dialog, preview, launching, threads, task,
             window, vars, LaunchesCleanup, LaunchIsReady, DropsLaunch,
             StartsCleanup, Matches, Previews, Starts
  <2>23. CASE RefreshesQueued
      BY <2>23 DEF Modal, ThreadsOK, lists, dialog, preview, launching, threads, task,
             window, vars, RefreshesQueued, MayStart, Starts
  <2>24. CASE \E i \in Slots : Reads(i)
      BY <2>24 DEF Modal, ThreadsOK, lists, dialog, preview, launching, threads, task,
             window, vars, Reads, Ends, Lists
  <2>25. CASE \E i \in Slots : Works(i)
      BY <2>25 DEF Modal, ThreadsOK, lists, dialog, preview, launching, threads, task,
             window, vars, Works, Ends
  <2>26. CASE ChangesWorktree
      BY <2>26 DEF Modal, ThreadsOK, lists, dialog, preview, launching, threads, task,
             window, vars, ChangesWorktree
  <2>27. CASE EditsTask
      BY <2>27 DEF Modal, ThreadsOK, lists, dialog, preview, launching, threads, task,
             window, vars, EditsTask
  <2>28. CASE Reloads
      BY <2>28 DEF Modal, ThreadsOK, lists, dialog, preview, launching, threads, task,
             window, vars, Reloads
  <2>29. CASE UNCHANGED vars
      BY <2>29 DEF Modal, ThreadsOK, lists, dialog, preview, launching, threads, task,
             window, vars
  <2> QED
      BY <2>1, <2>2, <2>3, <2>4, <2>5, <2>6, <2>7, <2>8, <2>9, <2>10, <2>11,
         <2>12, <2>13, <2>14, <2>15, <2>16, <2>17, <2>18, <2>19, <2>20,
         <2>21, <2>22, <2>23, <2>24, <2>25, <2>26, <2>27, <2>28, <2>29
         DEF Next, UserActs, Processes, Visits, Elsewhere
<1> QED
    BY <1>1, Inductive, PTL DEF Spec, DialogStaysTrue

\* The results of an older search never replace those of a newer one.
THEOREM SearchesCorrect == Spec => SearchesInOrder
<1>1. IInv /\ [Next]_vars => [commits' # 0 => commits' >= commits]_vars
  <2> SUFFICES ASSUME IInv, [Next]_vars, commits' # 0
               PROVE  commits' >= commits
      BY DEF vars
  <2> USE DEF IInv
  <2>1. CASE Opens
      BY <2>1 DEF NumbersOK, lists, dialog, preview, launching, threads, task,
             window, vars, Opens, Acting, Busy, Open, DropsLaunch, DropsPreview
  <2>2. CASE Mutates
      BY <2>2 DEF NumbersOK, lists, dialog, preview, launching, threads, task,
             window, vars, Mutates, Acting, Busy, MayStart, Starts
  <2>3. CASE Clones
      BY <2>3 DEF NumbersOK, lists, dialog, preview, launching, threads, task,
             window, vars, Clones, Acting, Busy, Starts
  <2>4. CASE Refreshes
      BY <2>4 DEF NumbersOK, lists, dialog, preview, launching, threads, task,
             window, vars, Refreshes, Acting, Busy, MayStart, Starts
  <2>5. CASE Searches
      BY <2>5 DEF NumbersOK, lists, dialog, preview, launching, threads, task,
             window, vars, Searches, Acting, MayStart, Starts
  <2>6. CASE Asks
      BY <2>6 DEF NumbersOK, lists, dialog, preview, launching, threads, task,
             window, vars, Asks, Acting, Busy
  <2>7. CASE PreviewsListed
      BY <2>7 DEF NumbersOK, lists, dialog, preview, launching, threads, task,
             window, vars, PreviewsListed, Acting, Busy, Previews, Starts
  <2>8. CASE PreviewsTask
      BY <2>8 DEF NumbersOK, lists, dialog, preview, launching, threads, task,
             window, vars, PreviewsTask, Acting, Busy, Open, DropsPreview,
             StartsCleanup, Matches, Previews, Starts
  <2>9. CASE Confirms
      BY <2>9 DEF NumbersOK, lists, dialog, preview, launching, threads, task,
             window, vars, Confirms, Acting, DropsDialog, Matches, Starts
  <2>10. CASE Cancels
      BY <2>10 DEF NumbersOK, lists, dialog, preview, launching, threads, task,
             window, vars, Cancels, Acting, DropsDialog
  <2>11. CASE Frame
      BY <2>11 DEF NumbersOK, lists, dialog, preview, launching, threads, task,
             window, vars, Frame
  <2>12. CASE \E i \in Slots : Waits(i)
      BY <2>12 DEF NumbersOK, lists, dialog, preview, launching, threads, task,
             window, vars, Waits, Polls
  <2>13. CASE \E i \in Slots : TimesOut(i)
      BY <2>13 DEF NumbersOK, lists, dialog, preview, launching, threads, task,
             window, vars, TimesOut, Polls, GivesUp, DropsPreview
  <2>14. CASE \E i \in Slots : Succeeds(i)
      BY <2>14 DEF NumbersOK, lists, dialog, preview, launching, threads, task,
             window, vars, Succeeds, Receives, Polls, Records, TakesContext
  <2>15. CASE \E i \in Slots : Fails(i)
      BY <2>15 DEF NumbersOK, lists, dialog, preview, launching, threads, task,
             window, vars, Fails, Receives, Polls, DropsPreview, DropsLaunch,
             Awaited, TakesContext
  <2>16. CASE \E i \in Slots : Dies(i)
      BY <2>16 DEF NumbersOK, lists, dialog, preview, launching, threads, task,
             window, vars, Dies, Receives, Polls, DropsPreview, DropsLaunch,
             Awaited, TakesContext
  <2>17. CASE \E i \in Slots : Views(i)
      BY <2>17 DEF NumbersOK, lists, dialog, preview, launching, threads, task,
             window, vars, Views, Receives, Polls
  <2>18. CASE \E i \in Slots : Cloned(i)
      BY <2>18 DEF NumbersOK, lists, dialog, preview, launching, threads, task,
             window, vars, Cloned, Receives, Polls, Open, DropsPreview,
             DropsLaunch
  <2>19. CASE \E i \in Slots : Searched(i)
      BY <2>19 DEF NumbersOK, lists, dialog, preview, launching, threads, task,
             window, vars, Searched, Receives, Polls, Newest
  <2>20. CASE \E i \in Slots : Refreshed(i)
      BY <2>20 DEF NumbersOK, lists, dialog, preview, launching, threads, task,
             window, vars, Refreshed, Receives, Polls, DropsPreview,
             DropsLaunch, Awaited
  <2>21. CASE FinishesPreview
      BY <2>21 DEF NumbersOK, lists, dialog, preview, launching, threads, task,
             window, vars, FinishesPreview, DropsPreview, Unchanged, Absent,
             Matches, Records
  <2>22. CASE LaunchesCleanup
      BY <2>22 DEF NumbersOK, lists, dialog, preview, launching, threads, task,
             window, vars, LaunchesCleanup, LaunchIsReady, DropsLaunch,
             StartsCleanup, Matches, Previews, Starts
  <2>23. CASE RefreshesQueued
      BY <2>23 DEF NumbersOK, lists, dialog, preview, launching, threads, task,
             window, vars, RefreshesQueued, MayStart, Starts
  <2>24. CASE \E i \in Slots : Reads(i)
      BY <2>24 DEF NumbersOK, lists, dialog, preview, launching, threads, task,
             window, vars, Reads, Ends, Lists
  <2>25. CASE \E i \in Slots : Works(i)
      BY <2>25 DEF NumbersOK, lists, dialog, preview, launching, threads, task,
             window, vars, Works, Ends
  <2>26. CASE ChangesWorktree
      BY <2>26 DEF NumbersOK, lists, dialog, preview, launching, threads, task,
             window, vars, ChangesWorktree
  <2>27. CASE EditsTask
      BY <2>27 DEF NumbersOK, lists, dialog, preview, launching, threads, task,
             window, vars, EditsTask
  <2>28. CASE Reloads
      BY <2>28 DEF NumbersOK, lists, dialog, preview, launching, threads, task,
             window, vars, Reloads
  <2>29. CASE UNCHANGED vars
      BY <2>29 DEF NumbersOK, lists, dialog, preview, launching, threads, task,
             window, vars
  <2> QED
      BY <2>1, <2>2, <2>3, <2>4, <2>5, <2>6, <2>7, <2>8, <2>9, <2>10, <2>11,
         <2>12, <2>13, <2>14, <2>15, <2>16, <2>17, <2>18, <2>19, <2>20,
         <2>21, <2>22, <2>23, <2>24, <2>25, <2>26, <2>27, <2>28, <2>29
         DEF Next, UserActs, Processes, Visits, Elsewhere
<1> QED
    BY <1>1, Inductive, PTL DEF Spec, SearchesInOrder

\* A task is recorded as cleaned up only after its own removal, or once its
\* directory is gone.
THEOREM CleanedCorrect == Spec => CleanedIsGone
<1>1. IInv /\ [Next]_vars => [cleaned' # cleaned =>
         \/ context = version /\ \E i \in ops : kind[i] = "removal" /\ worker[i] = "success"
         \/ cleanupTask = version /\ worktree \in {"missing", "absent"}]_vars
  <2> SUFFICES ASSUME IInv, [Next]_vars, cleaned' # cleaned
               PROVE  \/ context = version /\ \E i \in ops : kind[i] = "removal" /\ worker[i] = "success"
                      \/ cleanupTask = version /\ worktree \in {"missing", "absent"}
      BY DEF vars
  <2> USE DEF IInv
  <2>1. CASE Opens
      BY <2>1 DEF lists, dialog, preview, launching, threads, task, window, vars,
             Opens, Acting, Busy, Open, DropsLaunch, DropsPreview
  <2>2. CASE Mutates
      BY <2>2 DEF lists, dialog, preview, launching, threads, task, window, vars,
             Mutates, Acting, Busy, MayStart, Starts
  <2>3. CASE Clones
      BY <2>3 DEF lists, dialog, preview, launching, threads, task, window, vars,
             Clones, Acting, Busy, Starts
  <2>4. CASE Refreshes
      BY <2>4 DEF lists, dialog, preview, launching, threads, task, window, vars,
             Refreshes, Acting, Busy, MayStart, Starts
  <2>5. CASE Searches
      BY <2>5 DEF lists, dialog, preview, launching, threads, task, window, vars,
             Searches, Acting, MayStart, Starts
  <2>6. CASE Asks
      BY <2>6 DEF lists, dialog, preview, launching, threads, task, window, vars,
             Asks, Acting, Busy
  <2>7. CASE PreviewsListed
      BY <2>7 DEF lists, dialog, preview, launching, threads, task, window, vars,
             PreviewsListed, Acting, Busy, Previews, Starts
  <2>8. CASE PreviewsTask
      BY <2>8 DEF lists, dialog, preview, launching, threads, task, window, vars,
             PreviewsTask, Acting, Busy, Open, DropsPreview, StartsCleanup,
             Matches, Previews, Starts
  <2>9. CASE Confirms
      BY <2>9 DEF lists, dialog, preview, launching, threads, task, window, vars,
             Confirms, Acting, DropsDialog, Matches, Starts
  <2>10. CASE Cancels
      BY <2>10 DEF lists, dialog, preview, launching, threads, task, window, vars,
             Cancels, Acting, DropsDialog
  <2>11. CASE Frame
      BY <2>11 DEF lists, dialog, preview, launching, threads, task, window, vars,
             Frame
  <2>12. CASE \E i \in Slots : Waits(i)
      BY <2>12 DEF lists, dialog, preview, launching, threads, task, window, vars,
             Waits, Polls
  <2>13. CASE \E i \in Slots : TimesOut(i)
      BY <2>13 DEF lists, dialog, preview, launching, threads, task, window, vars,
             TimesOut, Polls, GivesUp, DropsPreview
  <2>14. CASE \E i \in Slots : Succeeds(i)
    <3>1. PICK i \in Slots : Succeeds(i)
        BY <2>14
    <3>2. i \in ops /\ worker[i] = "success" /\ context # 0 /\ context = version
        BY <3>1 DEF Succeeds, Receives, Polls, Records, ThreadsOK
    <3>3. PICK j \in ops : kind[j] = "removal"
        BY <3>2 DEF ContextHasRemoval
    <3>4. kind[i] # "search"
        BY <3>2 DEF Answers
    <3> QED
        BY <3>2, <3>3, <3>4 DEF Alone
  <2>15. CASE \E i \in Slots : Fails(i)
      BY <2>15 DEF lists, dialog, preview, launching, threads, task, window, vars,
             Fails, Receives, Polls, DropsPreview, DropsLaunch, Awaited,
             TakesContext
  <2>16. CASE \E i \in Slots : Dies(i)
      BY <2>16 DEF lists, dialog, preview, launching, threads, task, window, vars,
             Dies, Receives, Polls, DropsPreview, DropsLaunch, Awaited,
             TakesContext
  <2>17. CASE \E i \in Slots : Views(i)
      BY <2>17 DEF lists, dialog, preview, launching, threads, task, window, vars,
             Views, Receives, Polls
  <2>18. CASE \E i \in Slots : Cloned(i)
      BY <2>18 DEF lists, dialog, preview, launching, threads, task, window, vars,
             Cloned, Receives, Polls, Open, DropsPreview, DropsLaunch
  <2>19. CASE \E i \in Slots : Searched(i)
      BY <2>19 DEF lists, dialog, preview, launching, threads, task, window, vars,
             Searched, Receives, Polls, Newest
  <2>20. CASE \E i \in Slots : Refreshed(i)
      BY <2>20 DEF lists, dialog, preview, launching, threads, task, window, vars,
             Refreshed, Receives, Polls, DropsPreview, DropsLaunch, Awaited
  <2>21. CASE FinishesPreview
      BY <2>21 DEF lists, dialog, preview, launching, threads, task, window, vars,
             FinishesPreview, DropsPreview, Unchanged, Absent, Matches, Records
  <2>22. CASE LaunchesCleanup
      BY <2>22 DEF lists, dialog, preview, launching, threads, task, window, vars,
             LaunchesCleanup, LaunchIsReady, DropsLaunch, StartsCleanup,
             Matches, Previews, Starts
  <2>23. CASE RefreshesQueued
      BY <2>23 DEF lists, dialog, preview, launching, threads, task, window, vars,
             RefreshesQueued, MayStart, Starts
  <2>24. CASE \E i \in Slots : Reads(i)
      BY <2>24 DEF lists, dialog, preview, launching, threads, task, window, vars,
             Reads, Ends, Lists
  <2>25. CASE \E i \in Slots : Works(i)
      BY <2>25 DEF lists, dialog, preview, launching, threads, task, window, vars,
             Works, Ends
  <2>26. CASE ChangesWorktree
      BY <2>26 DEF lists, dialog, preview, launching, threads, task, window, vars,
             ChangesWorktree
  <2>27. CASE EditsTask
      BY <2>27 DEF lists, dialog, preview, launching, threads, task, window, vars,
             EditsTask
  <2>28. CASE Reloads
      BY <2>28 DEF lists, dialog, preview, launching, threads, task, window, vars,
             Reloads
  <2>29. CASE UNCHANGED vars
      BY <2>29 DEF lists, dialog, preview, launching, threads, task, window, vars
  <2> QED
      BY <2>1, <2>2, <2>3, <2>4, <2>5, <2>6, <2>7, <2>8, <2>9, <2>10, <2>11,
         <2>12, <2>13, <2>14, <2>15, <2>16, <2>17, <2>18, <2>19, <2>20,
         <2>21, <2>22, <2>23, <2>24, <2>25, <2>26, <2>27, <2>28, <2>29
         DEF Next, UserActs, Processes, Visits, Elsewhere
<1> QED
    BY <1>1, Inductive, PTL DEF Spec, CleanedIsGone

\* A task's cleanup starts from a list read since its repository was opened.
THEOREM LaunchesCorrect == Spec => LaunchesOnFreshList
<1>1. IInv /\ [Next]_vars => [launch # "none" /\ cleanup' = "waiting" => shownFor = generation]_vars
  <2> SUFFICES ASSUME IInv, [Next]_vars, launch # "none", cleanup' = "waiting"
               PROVE  shownFor = generation
      BY DEF vars
  <2> USE DEF IInv
  <2>1. CASE Opens
      BY <2>1 DEF Cleanups, lists, dialog, preview, launching, threads, task, window,
             vars, Opens, Acting, Busy, Open, DropsLaunch, DropsPreview
  <2>2. CASE Mutates
      BY <2>2 DEF Cleanups, lists, dialog, preview, launching, threads, task, window,
             vars, Mutates, Acting, Busy, MayStart, Starts
  <2>3. CASE Clones
      BY <2>3 DEF Cleanups, lists, dialog, preview, launching, threads, task, window,
             vars, Clones, Acting, Busy, Starts
  <2>4. CASE Refreshes
      BY <2>4 DEF Cleanups, lists, dialog, preview, launching, threads, task, window,
             vars, Refreshes, Acting, Busy, MayStart, Starts
  <2>5. CASE Searches
      BY <2>5 DEF Cleanups, lists, dialog, preview, launching, threads, task, window,
             vars, Searches, Acting, MayStart, Starts
  <2>6. CASE Asks
      BY <2>6 DEF Cleanups, lists, dialog, preview, launching, threads, task, window,
             vars, Asks, Acting, Busy
  <2>7. CASE PreviewsListed
      BY <2>7 DEF Cleanups, lists, dialog, preview, launching, threads, task, window,
             vars, PreviewsListed, Acting, Busy, Previews, Starts
  <2>8. CASE PreviewsTask
      BY <2>8 DEF Cleanups, lists, dialog, preview, launching, threads, task, window,
             vars, PreviewsTask, Acting, Busy, Open, DropsPreview,
             StartsCleanup, Matches, Previews, Starts
  <2>9. CASE Confirms
      BY <2>9 DEF Cleanups, lists, dialog, preview, launching, threads, task, window,
             vars, Confirms, Acting, DropsDialog, Matches, Starts
  <2>10. CASE Cancels
      BY <2>10 DEF Cleanups, lists, dialog, preview, launching, threads, task, window,
             vars, Cancels, Acting, DropsDialog
  <2>11. CASE Frame
      BY <2>11 DEF Cleanups, lists, dialog, preview, launching, threads, task, window,
             vars, Frame
  <2>12. CASE \E i \in Slots : Waits(i)
      BY <2>12 DEF Cleanups, lists, dialog, preview, launching, threads, task, window,
             vars, Waits, Polls
  <2>13. CASE \E i \in Slots : TimesOut(i)
      BY <2>13 DEF Cleanups, lists, dialog, preview, launching, threads, task, window,
             vars, TimesOut, Polls, GivesUp, DropsPreview
  <2>14. CASE \E i \in Slots : Succeeds(i)
      BY <2>14 DEF Cleanups, lists, dialog, preview, launching, threads, task, window,
             vars, Succeeds, Receives, Polls, Records, TakesContext
  <2>15. CASE \E i \in Slots : Fails(i)
      BY <2>15 DEF Cleanups, lists, dialog, preview, launching, threads, task, window,
             vars, Fails, Receives, Polls, DropsPreview, DropsLaunch, Awaited,
             TakesContext
  <2>16. CASE \E i \in Slots : Dies(i)
      BY <2>16 DEF Cleanups, lists, dialog, preview, launching, threads, task, window,
             vars, Dies, Receives, Polls, DropsPreview, DropsLaunch, Awaited,
             TakesContext
  <2>17. CASE \E i \in Slots : Views(i)
      BY <2>17 DEF Cleanups, lists, dialog, preview, launching, threads, task, window,
             vars, Views, Receives, Polls
  <2>18. CASE \E i \in Slots : Cloned(i)
      BY <2>18 DEF Cleanups, lists, dialog, preview, launching, threads, task, window,
             vars, Cloned, Receives, Polls, Open, DropsPreview, DropsLaunch
  <2>19. CASE \E i \in Slots : Searched(i)
      BY <2>19 DEF Cleanups, lists, dialog, preview, launching, threads, task, window,
             vars, Searched, Receives, Polls, Newest
  <2>20. CASE \E i \in Slots : Refreshed(i)
      BY <2>20 DEF Cleanups, lists, dialog, preview, launching, threads, task, window,
             vars, Refreshed, Receives, Polls, DropsPreview, DropsLaunch,
             Awaited
  <2>21. CASE FinishesPreview
      BY <2>21 DEF Cleanups, lists, dialog, preview, launching, threads, task, window,
             vars, FinishesPreview, DropsPreview, Unchanged, Absent, Matches,
             Records
  <2>22. CASE LaunchesCleanup
      BY <2>22 DEF Cleanups, lists, dialog, preview, launching, threads, task, window,
             vars, LaunchesCleanup, LaunchIsReady, DropsLaunch, StartsCleanup,
             Matches, Previews, Starts
  <2>23. CASE RefreshesQueued
      BY <2>23 DEF Cleanups, lists, dialog, preview, launching, threads, task, window,
             vars, RefreshesQueued, MayStart, Starts
  <2>24. CASE \E i \in Slots : Reads(i)
      BY <2>24 DEF Cleanups, lists, dialog, preview, launching, threads, task, window,
             vars, Reads, Ends, Lists
  <2>25. CASE \E i \in Slots : Works(i)
      BY <2>25 DEF Cleanups, lists, dialog, preview, launching, threads, task, window,
             vars, Works, Ends
  <2>26. CASE ChangesWorktree
      BY <2>26 DEF Cleanups, lists, dialog, preview, launching, threads, task, window,
             vars, ChangesWorktree
  <2>27. CASE EditsTask
      BY <2>27 DEF Cleanups, lists, dialog, preview, launching, threads, task, window,
             vars, EditsTask
  <2>28. CASE Reloads
      BY <2>28 DEF Cleanups, lists, dialog, preview, launching, threads, task, window,
             vars, Reloads
  <2>29. CASE UNCHANGED vars
      BY <2>29 DEF Cleanups, lists, dialog, preview, launching, threads, task, window,
             vars
  <2> QED
      BY <2>1, <2>2, <2>3, <2>4, <2>5, <2>6, <2>7, <2>8, <2>9, <2>10, <2>11,
         <2>12, <2>13, <2>14, <2>15, <2>16, <2>17, <2>18, <2>19, <2>20,
         <2>21, <2>22, <2>23, <2>24, <2>25, <2>26, <2>27, <2>28, <2>29
         DEF Next, UserActs, Processes, Visits, Elsewhere
<1> QED
    BY <1>1, Inductive, PTL DEF Spec, LaunchesOnFreshList


\* What runs, what is pending and what is shown belong together.
THEOREM TrackedCorrect == Spec => []OperationsAreTracked
<1>1. OneAtATime /\ ContextHasRemoval /\ ResultsAreCurrent => OperationsAreTracked
    BY DEF OperationsAreTracked
<1> QED
    BY <1>1, OneAtATimeCorrect, ContextCorrect, CurrentCorrect, PTL

\* No late answer replaces what a dialog or a newer search shows.
THEOREM NothingReplacedCorrect == Spec => NothingIsReplaced
<1> QED
    BY DialogStaysTrueCorrect, SearchesCorrect DEF NothingIsReplaced
==============================================================================
