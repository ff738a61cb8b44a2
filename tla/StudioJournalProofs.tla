------------------------- MODULE StudioJournalProofs -------------------------
(* Proofs that StudioJournal keeps its invariants, for any number of saves,
   restarts and commands. *)
EXTENDS StudioJournal, TLAPS

\* The file, what a power loss leaves of it and the host's memory of it.
Files == disk \in lasting /\ RecordIsCoherent

\* What a power loss leaves of the store: of the receipts, all but doubted ones.
Stored ==
    /\ [revision |-> revision, receipts |-> receipts] \in left
    /\ \A s \in left : s.receipts \subseteq receipts /\ receipts \ s.receipts \subseteq doubted

\* The operation of the running command is recorded from Record to Settle.
Working ==
    /\ pc \notin {"down", "idle"} => operation \in Operations
    /\ pc \in {"checking", "committing", "applying", "verifying", "settling"} =>
         ~ blocked /\ value = operation
    /\ pc = "recording" => ~ blocked /\ value = None /\ command = "save"
    /\ pc \in {"committing", "applying", "verifying"} => command # "boot"
    /\ pc = "checking" => command # "save"

\* The store was given what had passed its gate, and nothing else.
Launched ==
    /\ receipts \subseteq launched
    /\ \A o \in launched : o <= issued
    /\ pc \in {"applying", "verifying"} => operation \in launched
    /\ \A p \in lasting : p <= issued
    /\ pc \notin {"down", "idle"} => operation <= issued
    /\ pc \notin {"down", "idle"} /\ command = "save" =>
         /\ pc \in {"recording", "committing"} => operation \notin launched
         /\ gate # "committed" => operation \notin launched

\* Every unknown outcome is recorded, and only known ones are settled.
Recorded ==
    /\ UnknownStaysRecorded
    /\ pc = "settling" => operation \in known \/ operation \notin launched

\* The answers given, and the one on its way.
Truth ==
    /\ AnswersAreTrue
    /\ \A o \in Operations : issued < o => told[o] = "nothing"
    /\ pc \notin {"down", "idle"} /\ command # "boot" => told[operation] = "nothing"
    /\ pc \notin {"down", "idle"} /\ committed => operation \in receipts
    /\ pc \in {"settling", "answering"} =>
         /\ answer = "saved" => operation \in receipts
         /\ answer = "unsaved" => operation \notin receipts
    /\ pc \in {"committing", "applying"} => operation \notin receipts

IInv == TypeOK /\ Files /\ Stored /\ Working /\ Launched /\ Recorded /\ Truth

\* Operations are the numbers from one; None is none of them.
LEMMA Identifiers ==
    /\ Operations \subseteq Nat
    /\ None \in Nat
    /\ None \notin Operations
    /\ \A o \in Operations : o <= MaxOperations
    /\ \A n \in 0 .. MaxOperations : n \in Nat
    /\ \A n \in Nat : n < MaxOperations => n + 1 \in Operations /\ n + 1 \in 0 .. MaxOperations
    /\ 0 \in 0 .. MaxOperations
    /\ \A n \in Nat : None <= n
    /\ Kinds \subseteq {"create", "daily", "change"}
BY ConstantsAssumption DEF Operations, None

\* What TypeOK says of the store.
StoreTypes ==
    /\ made \in Nat /\ revision \in 1 .. made /\ receipts \in SUBSET Operations
    /\ left \in SUBSET [revision : 1 .. made, receipts : SUBSET Operations]
    /\ doubted \in SUBSET Operations

\* Whether or not its sync fails, a snapshot published on top of the others is one
\* more, and what a power loss may take of it is doubted.
LEMMA Publishing ==
    ASSUME StoreTypes, Stored, NEW rs \in SUBSET Operations, Published(rs)
    PROVE  /\ StoreTypes' /\ Stored'
           /\ made' = made + 1 /\ receipts' = receipts \cup rs
           /\ doubted \ rs \subseteq doubted'
<1> DEFINE new == {[revision |-> made + 1, receipts |-> s.receipts \cup rs] : s \in left}
<1>1. /\ made' = made + 1 /\ revision' = made + 1 /\ receipts' = receipts \cup rs
      /\ \/ left' = new /\ doubted' = doubted \ rs
         \/ left' = left \cup new /\ doubted' = doubted \cup (rs \ receipts)
    BY DEF Published
<1>2. /\ made' \in Nat /\ revision' \in 1 .. made' /\ receipts' \in SUBSET Operations
      /\ doubted' \in SUBSET Operations
    BY <1>1 DEF StoreTypes
<1>3. \A s \in left :
        /\ s \in [revision : 1 .. made', receipts : SUBSET Operations]
        /\ [revision |-> made + 1, receipts |-> s.receipts \cup rs]
             \in [revision : 1 .. made', receipts : SUBSET Operations]
    BY <1>1 DEF StoreTypes
<1>4. left' \in SUBSET [revision : 1 .. made', receipts : SUBSET Operations]
    BY <1>1, <1>3
<1>5. [revision |-> made + 1, receipts |-> receipts \cup rs] \in new
    <2> PICK s \in left : s = [revision |-> revision, receipts |-> receipts]
        BY DEF Stored
    <2>1. s.receipts = receipts
        OBVIOUS
    <2> QED
        BY <2>1
<1>6. \A s \in new : s.receipts \subseteq receipts' /\ receipts' \ s.receipts \subseteq doubted \ rs
    BY <1>1 DEF Stored
<1>7. \A s \in left : s.receipts \subseteq receipts'
                       /\ receipts' \ s.receipts \subseteq doubted \cup (rs \ receipts)
    BY <1>1 DEF Stored
<1>8. Stored'
    <2>1. [revision |-> revision', receipts |-> receipts'] \in left'
        BY <1>1, <1>5
    <2>2. \A s \in left' : s.receipts \subseteq receipts' /\ receipts' \ s.receipts \subseteq doubted'
        BY <1>1, <1>6, <1>7
    <2> QED
        BY <2>1, <2>2 DEF Stored
<1> HIDE DEF new
<1> QED
    BY <1>1, <1>2, <1>4, <1>8 DEF StoreTypes

\* The same of a new tool's activation.
LEMMA Creating ==
    ASSUME StoreTypes, Stored, NEW o \in Operations, Created(o)
    PROVE  /\ StoreTypes' /\ Stored'
           /\ made' = made /\ receipts' = receipts \cup {o}
           /\ doubted \ {o} \subseteq doubted'
<1> DEFINE new == {[s EXCEPT !.receipts = @ \cup {o}] : s \in left}
<1>1. /\ made' = made /\ revision' = revision /\ receipts' = receipts \cup {o}
      /\ \/ left' = new /\ doubted' = doubted \ {o}
         \/ left' = left \cup new /\ doubted' = doubted \cup {o}
    BY DEF Created
<1>2. /\ made' \in Nat /\ revision' \in 1 .. made' /\ receipts' \in SUBSET Operations
      /\ doubted' \in SUBSET Operations
    BY <1>1 DEF StoreTypes
<1>3. \A s \in left :
        /\ s \in [revision : 1 .. made', receipts : SUBSET Operations]
        /\ [s EXCEPT !.receipts = @ \cup {o}]
             = [revision |-> s.revision, receipts |-> s.receipts \cup {o}]
    <2>1. left \in SUBSET [revision : 1 .. made', receipts : SUBSET Operations]
        BY <1>1 DEF StoreTypes
    <2> QED
        BY <2>1
<1>4. left' \in SUBSET [revision : 1 .. made', receipts : SUBSET Operations]
    <2>1. \A s \in left : s.revision \in 1 .. made' /\ s.receipts \cup {o} \in SUBSET Operations
        BY <1>1 DEF StoreTypes
    <2>2. \A s \in left : [revision |-> s.revision, receipts |-> s.receipts \cup {o}]
                            \in [revision : 1 .. made', receipts : SUBSET Operations]
        BY <2>1
    <2>3. \A n \in new : n \in [revision : 1 .. made', receipts : SUBSET Operations]
        BY <1>3, <2>2
    <2>4. \A n \in left : n \in [revision : 1 .. made', receipts : SUBSET Operations]
        BY <1>3
    <2>5. \A n \in left' : n \in new \/ n \in left
        BY <1>1
    <2> QED
        BY <2>3, <2>4, <2>5
<1>5. [revision |-> revision, receipts |-> receipts \cup {o}] \in new
    <2> PICK s \in left : s = [revision |-> revision, receipts |-> receipts]
        BY DEF Stored
    <2>1. s.receipts = receipts /\ s.revision = revision
        OBVIOUS
    <2>2. [s EXCEPT !.receipts = @ \cup {o}] = [revision |-> revision, receipts |-> receipts \cup {o}]
        BY <1>3, <2>1
    <2> QED
        BY <2>2
<1>6. \A s \in new : s.receipts \subseteq receipts' /\ receipts' \ s.receipts \subseteq doubted \ {o}
    <2> SUFFICES ASSUME NEW n \in new
                 PROVE  n.receipts \subseteq receipts' /\ receipts' \ n.receipts \subseteq doubted \ {o}
        OBVIOUS
    <2> PICK s \in left : n = [s EXCEPT !.receipts = @ \cup {o}]
        OBVIOUS
    <2>1. n.receipts = s.receipts \cup {o}
        BY <1>3
    <2> QED
        BY <1>1, <2>1 DEF Stored
<1>7. \A s \in left : s.receipts \subseteq receipts'
                       /\ receipts' \ s.receipts \subseteq doubted \cup {o}
    BY <1>1 DEF Stored
<1>8. Stored'
    <2>1. [revision |-> revision', receipts |-> receipts'] \in left'
        BY <1>1, <1>5
    <2>2. \A s \in left' : s.receipts \subseteq receipts' /\ receipts' \ s.receipts \subseteq doubted'
        BY <1>1, <1>6, <1>7
    <2> QED
        BY <2>1, <2>2 DEF Stored
<1> HIDE DEF new
<1> QED
    BY <1>1, <1>2, <1>4, <1>8 DEF StoreTypes

\* A power loss takes doubted saves only.
LEMMA Losing ==
    ASSUME StoreTypes, Stored, PowerLoss
    PROVE  /\ StoreTypes' /\ Stored' /\ made' = made
           /\ receipts' \subseteq receipts /\ receipts \ receipts' \subseteq doubted'
           /\ doubted \ receipts' \subseteq doubted'
<1> PICK s \in left :
        /\ revision' = s.revision /\ receipts' = s.receipts
        /\ left' = {s} /\ doubted' = doubted \ s.receipts
    BY DEF PowerLoss
<1>1. made' = made
    BY DEF PowerLoss
<1>2. s = [revision |-> s.revision, receipts |-> s.receipts] /\ s.revision \in 1 .. made
      /\ s.receipts \in SUBSET Operations
    BY DEF StoreTypes
<1>3. StoreTypes'
    BY <1>1, <1>2 DEF StoreTypes
<1>4. Stored'
    BY <1>2 DEF Stored
<1> QED
    BY <1>1, <1>3, <1>4 DEF Stored

\* What any step does to the store: it saves the running operation, another host's
\* snapshot, or is a power loss.
LEMMA StoreStep ==
    ASSUME IInv, [Next]_vars
    PROVE  /\ StoreTypes' /\ Stored' /\ made' \in Nat
           /\ \A n \in 0 .. made : n \in 0 .. made'
           /\ receipts \cup doubted \subseteq receipts' \cup doubted'
           /\ receipts' \subseteq receipts \/ (Apply /\ receipts' = receipts \cup {operation})
<1>1. StoreTypes /\ Stored
    BY DEF IInv, TypeOK, StoreTypes
<1>2. CASE UNCHANGED store
    <2>1. made' = made /\ revision' = revision /\ receipts' = receipts /\ left' = left
          /\ doubted' = doubted
        BY <1>2 DEF store
    <2>2. StoreTypes' /\ Stored'
        BY <1>1, <2>1 DEF StoreTypes, Stored
    <2> QED
        BY <2>1, <2>2 DEF StoreTypes
<1>3. CASE Apply
    <2>1. operation \in Operations
        BY <1>3 DEF Apply, IInv, Working
    <2>2. CASE Created(operation)
        BY <1>1, <1>3, <2>1, <2>2, Creating DEF StoreTypes
    <2>3. CASE Published(Daily \cup {operation})
        <3>1. Daily \cup {operation} \in SUBSET Operations
            BY <1>1, <2>1 DEF Daily, StoreTypes
        <3>2. receipts \cup (Daily \cup {operation}) = receipts \cup {operation}
            BY DEF Daily
        <3> QED
            BY <1>1, <1>3, <2>3, <3>1, <3>2, Publishing DEF StoreTypes
    <2> QED
        BY <1>2, <1>3, <2>2, <2>3 DEF Apply
<1>4. CASE SaveElsewhere
    <2>1. Daily \in SUBSET Operations /\ Daily \subseteq receipts
        BY <1>1 DEF Daily, StoreTypes
    <2>2. Published(Daily)
        BY <1>4 DEF SaveElsewhere
    <2>3. StoreTypes' /\ Stored' /\ made' = made + 1 /\ receipts' = receipts \cup Daily
          /\ doubted \ Daily \subseteq doubted'
        BY <1>1, <2>1, <2>2, Publishing
    <2> QED
        BY <1>1, <2>1, <2>3 DEF StoreTypes
<1>5. CASE PowerLoss
    <2>1. /\ StoreTypes' /\ Stored' /\ made' = made
          /\ receipts' \subseteq receipts /\ receipts \ receipts' \subseteq doubted'
          /\ doubted \ receipts' \subseteq doubted'
        BY <1>1, <1>5, Losing
    <2>2. receipts \cup doubted \subseteq receipts' \cup doubted'
        BY <2>1
    <2>3. made \in Nat
        BY <1>1 DEF StoreTypes
    <2> QED
        BY <2>1, <2>2, <2>3
<1>6. CASE UNCHANGED vars
    BY <1>2, <1>6 DEF vars, store
<1> QED
    BY <1>2, <1>3, <1>4, <1>5, <1>6
       DEF Next, Click, Refuse, Record, Stale, Cancel, Commit, Verify, Settle, Answer, Check,
           Open, Crash, Boot, Resume

\* A step keeps every type.
LEMMA TypeStep == IInv /\ [Next]_vars => TypeOK'
<1> SUFFICES ASSUME IInv, [Next]_vars PROVE TypeOK'
    OBVIOUS
<1> USE Identifiers
<1>a. /\ StoreTypes' /\ made' \in Nat
      /\ opened \in 0 .. made' /\ basis \in [Operations -> 0 .. made']
      /\ revision \in 0 .. made'
    <2>1. opened \in 0 .. made /\ basis \in [Operations -> 0 .. made] /\ revision \in 0 .. made
        BY DEF IInv, TypeOK
    <2> QED
        BY <2>1, StoreStep
<1>1. CASE \E k \in Kinds : Click(k)
    <2> PICK k \in Kinds : Click(k)
        BY <1>1
    <2>1. /\ issued' \in 0 .. MaxOperations /\ issued + 1 \in Operations
          /\ operation' \in Pending /\ k \in {"create", "daily", "change"}
        BY DEF Click, NewOperation, IInv, TypeOK, Pending
    <2>2. /\ kind' \in [Operations -> {"create", "daily", "change"}]
          /\ basis' \in [Operations -> 0 .. made']
        BY <2>1, <1>a DEF Click, IInv, TypeOK
    <2> QED
        BY <2>1, <2>2, <1>a DEF Click, IInv, TypeOK, StoreTypes, PC, files, ghosts, bounds
<1>2. CASE Refuse
    BY <1>2, <1>a DEF IInv, Working, TypeOK, StoreTypes, Pending, Answers, PC, files, store, asked,
           run, ghosts, bounds, vars, Refuse, Ends
<1>3. CASE Record
    BY <1>3, <1>a DEF IInv, Working, TypeOK, StoreTypes, Pending, Answers, PC, files, store, asked,
           run, ghosts, bounds, vars, Record, Written, RefusedWrite,
           UnresolvedWrite, Ends, Goes
<1>4. CASE Stale
    BY <1>4, <1>a DEF IInv, Working, TypeOK, StoreTypes, Pending, Answers, PC, files, store, asked,
           run, ghosts, bounds, vars, Stale
<1>5. CASE Cancel
    BY <1>5, <1>a DEF IInv, Working, TypeOK, StoreTypes, Pending, Answers, PC, files, store, asked,
           run, ghosts, bounds, vars, Cancel
<1>6. CASE Commit
    BY <1>6, <1>a DEF IInv, Working, TypeOK, StoreTypes, Pending, Answers, PC, files, store, asked,
           run, ghosts, bounds, vars, Commit, Authorized, Ends, Goes
<1>7. CASE Apply
    BY <1>7, <1>a DEF Apply, Goes, IInv, TypeOK, StoreTypes, PC, files, asked, run, ghosts, bounds
<1>8. CASE Verify
    BY <1>8, <1>a DEF IInv, Working, TypeOK, StoreTypes, Pending, Answers, PC, files, store, asked,
           run, ghosts, bounds, vars, Verify, Unreadable, Found, Missing,
           Settles, Ends, Goes
<1>9. CASE Settle
    BY <1>9, <1>a DEF IInv, Working, TypeOK, StoreTypes, Pending, Answers, PC, files, store, asked,
           run, ghosts, bounds, vars, Settle, Written, RefusedWrite,
           UnresolvedWrite, Installs, Ends
<1>10. CASE Answer
    BY <1>10, <1>a DEF IInv, Working, TypeOK, StoreTypes, Pending, Answers, PC, files, store, asked,
           run, ghosts, bounds, vars, Answer, Done, Tells
<1>11. CASE Check
    BY <1>11, <1>a DEF IInv, Working, TypeOK, StoreTypes, Pending, Answers, PC, files, store, asked,
           run, ghosts, bounds, vars, Check, Unreadable, Found, Activated,
           Inspected, MayProceed, Settles, Ends, Goes
<1>12. CASE Open
    <2>1. opened' \in 0 .. made' /\ blocked' \in BOOLEAN
        BY <1>12, <1>a DEF Open, IInv, TypeOK
    <2> QED
        BY <1>12, <1>a, <2>1 DEF IInv, TypeOK, StoreTypes, asked, run, ghosts, bounds, Open
<1>13. CASE SaveElsewhere
    BY <1>13, <1>a DEF SaveElsewhere, IInv, TypeOK, StoreTypes, files, asked, run, ghosts, bounds
<1>14. CASE Crash
    <2>1. disk' \in Pending /\ lasting' \in SUBSET Pending
        BY <1>14 DEF Crash, PowerLoss, Kept, IInv, TypeOK
    <2>2. None \in 0 .. made'
        BY <1>a DEF None
    <2> QED
        BY <1>14, <1>a, <2>1, <2>2 DEF Crash, Forgotten, Done, IInv, TypeOK, StoreTypes, Pending,
           Answers, PC, asked, ghosts, bounds, None
<1>15. CASE Boot
    <2>1. /\ disk' \in Pending /\ lasting' \in SUBSET Pending /\ value' \in Pending
          /\ operation' \in Pending
        BY <1>15 DEF Boot, Reopened, IInv, TypeOK
    <2>2. pc' \in PC /\ opened' \in 0 .. made' /\ boots' \in Nat
        BY <1>15, <1>a DEF Boot, IInv, TypeOK, PC, None
    <2> QED
        BY <1>15, <1>a, <2>1, <2>2 DEF Boot, IInv, TypeOK, StoreTypes, asked, ghosts
<1>16. CASE \E c \in {"retry", "aside"} : Resume(c)
    <2> PICK c \in {"retry", "aside"} : Resume(c)
        BY <1>16
    <2>1. tries' \in Nat
        BY DEF Resume, IInv, TypeOK
    <2>2. told' \in [Operations -> Answers \cup {"nothing"}]
        BY DEF Resume, IInv, TypeOK
    <2> QED
        BY <2>1, <2>2, <1>a DEF Resume, IInv, TypeOK, StoreTypes, PC, files, asked
<1>17. CASE UNCHANGED vars
    BY <1>17, <1>a DEF IInv, Working, TypeOK, StoreTypes, Pending, Answers, PC, files, store, asked,
           run, ghosts, bounds, vars
<1> QED
    BY <1>1, <1>2, <1>3, <1>4, <1>5, <1>6, <1>7, <1>8, <1>9, <1>10, <1>11, <1>12, <1>13, <1>14, <1>15, <1>16, <1>17 DEF Next

\* A step keeps the file and the memory of it together.
LEMMA FilesStep == IInv /\ [Next]_vars => Files'
<1> SUFFICES ASSUME IInv, [Next]_vars PROVE Files'
    OBVIOUS
<1> USE Identifiers
<1>1. CASE \E k \in Kinds : Click(k)
    BY <1>1 DEF IInv, Files, RecordIsCoherent, Working, TypeOK, Pending, Answers,
           PC, files, store, asked, run, ghosts, bounds, vars, Click,
           NoPending, NewOperation
<1>2. CASE Refuse
    BY <1>2 DEF IInv, Files, RecordIsCoherent, Working, TypeOK, Pending, Answers,
           PC, files, store, asked, run, ghosts, bounds, vars, Refuse, Ends
<1>3. CASE Record
    BY <1>3 DEF IInv, Files, RecordIsCoherent, Working, TypeOK, Pending, Answers,
           PC, files, store, asked, run, ghosts, bounds, vars, Record,
           Written, RefusedWrite, UnresolvedWrite, Ends, Goes
<1>4. CASE Stale
    BY <1>4 DEF IInv, Files, RecordIsCoherent, Working, TypeOK, Pending, Answers,
           PC, files, store, asked, run, ghosts, bounds, vars, Stale
<1>5. CASE Cancel
    BY <1>5 DEF IInv, Files, RecordIsCoherent, Working, TypeOK, Pending, Answers,
           PC, files, store, asked, run, ghosts, bounds, vars, Cancel
<1>6. CASE Commit
    BY <1>6 DEF IInv, Files, RecordIsCoherent, Working, TypeOK, Pending, Answers,
           PC, files, store, asked, run, ghosts, bounds, vars, Commit,
           Authorized, Ends, Goes
<1>7. CASE Apply
    BY <1>7, StoreStep DEF IInv, Files, RecordIsCoherent, Working, TypeOK, Pending, Answers,
           PC, files, store, asked, run, ghosts, bounds, vars, Apply, Goes
<1>8. CASE Verify
    BY <1>8 DEF IInv, Files, RecordIsCoherent, Working, TypeOK, Pending, Answers,
           PC, files, store, asked, run, ghosts, bounds, vars, Verify,
           Unreadable, Found, Missing, Settles, Ends, Goes
<1>9. CASE Settle
    BY <1>9 DEF IInv, Files, RecordIsCoherent, Working, TypeOK, Pending, Answers,
           PC, files, store, asked, run, ghosts, bounds, vars, Settle,
           Written, RefusedWrite, UnresolvedWrite, Installs, Ends
<1>10. CASE Answer
    BY <1>10 DEF IInv, Files, RecordIsCoherent, Working, TypeOK, Pending, Answers,
           PC, files, store, asked, run, ghosts, bounds, vars, Answer, Done,
           Tells
<1>11. CASE Check
    BY <1>11 DEF IInv, Files, RecordIsCoherent, Working, TypeOK, Pending, Answers,
           PC, files, store, asked, run, ghosts, bounds, vars, Check,
           Unreadable, Found, Activated, Inspected, MayProceed, Settles, Ends,
           Goes
<1>12. CASE Open
    BY <1>12 DEF IInv, Files, RecordIsCoherent, Working, TypeOK, Pending, Answers,
           PC, files, store, asked, run, ghosts, bounds, vars, Open
<1>13. CASE SaveElsewhere
    BY <1>13, StoreStep DEF IInv, Files, RecordIsCoherent, Working, TypeOK, Pending, Answers,
           PC, files, store, asked, run, ghosts, bounds, vars, SaveElsewhere
<1>14. CASE Crash
    BY <1>14, StoreStep DEF IInv, Files, RecordIsCoherent, Working, TypeOK, Pending, Answers,
           PC, files, store, asked, run, ghosts, bounds, vars, Crash, PowerLoss,
           Forgotten, Done, Kept
<1>15. CASE Boot
    BY <1>15 DEF IInv, Files, RecordIsCoherent, Working, TypeOK, Pending, Answers,
           PC, files, store, asked, run, ghosts, bounds, vars, Boot, Reopened
<1>16. CASE \E c \in {"retry", "aside"} : Resume(c)
    BY <1>16 DEF IInv, Files, RecordIsCoherent, Working, TypeOK, Pending, Answers,
           PC, files, store, asked, run, ghosts, bounds, vars, Resume
<1>17. CASE UNCHANGED vars
    BY <1>17 DEF IInv, Files, RecordIsCoherent, Working, TypeOK, Pending, Answers,
           PC, files, store, asked, run, ghosts, bounds, vars
<1> QED
    BY <1>1, <1>2, <1>3, <1>4, <1>5, <1>6, <1>7, <1>8, <1>9, <1>10, <1>11, <1>12, <1>13, <1>14, <1>15, <1>16, <1>17 DEF Next

\* A step keeps the running command on the record.
LEMMA WorkingStep == IInv /\ [Next]_vars => Working'
<1> SUFFICES ASSUME IInv, [Next]_vars PROVE Working'
    OBVIOUS
<1> USE Identifiers
<1>1. CASE \E k \in Kinds : Click(k)
    BY <1>1 DEF IInv, Files, RecordIsCoherent, Working, Launched, TypeOK, Pending,
           Answers, PC, files, store, asked, run, ghosts, bounds, vars, Click,
           NoPending, NewOperation
<1>2. CASE Refuse
    BY <1>2 DEF IInv, Files, RecordIsCoherent, Working, Launched, TypeOK, Pending,
           Answers, PC, files, store, asked, run, ghosts, bounds, vars,
           Refuse, Ends
<1>3. CASE Record
    BY <1>3 DEF IInv, Files, RecordIsCoherent, Working, Launched, TypeOK, Pending,
           Answers, PC, files, store, asked, run, ghosts, bounds, vars,
           Record, Written, RefusedWrite, UnresolvedWrite, Ends, Goes
<1>4. CASE Stale
    BY <1>4 DEF IInv, Files, RecordIsCoherent, Working, Launched, TypeOK, Pending,
           Answers, PC, files, store, asked, run, ghosts, bounds, vars, Stale
<1>5. CASE Cancel
    BY <1>5 DEF IInv, Files, RecordIsCoherent, Working, Launched, TypeOK, Pending,
           Answers, PC, files, store, asked, run, ghosts, bounds, vars,
           Cancel
<1>6. CASE Commit
    BY <1>6 DEF IInv, Files, RecordIsCoherent, Working, Launched, TypeOK, Pending,
           Answers, PC, files, store, asked, run, ghosts, bounds, vars,
           Commit, Authorized, Ends, Goes
<1>7. CASE Apply
    BY <1>7, StoreStep DEF IInv, Files, RecordIsCoherent, Working, Launched, TypeOK, Pending,
           Answers, PC, files, store, asked, run, ghosts, bounds, vars, Apply,
           Goes
<1>8. CASE Verify
    BY <1>8 DEF IInv, Files, RecordIsCoherent, Working, Launched, TypeOK, Pending,
           Answers, PC, files, store, asked, run, ghosts, bounds, vars,
           Verify, Unreadable, Found, Missing, Settles, Ends, Goes
<1>9. CASE Settle
    BY <1>9 DEF IInv, Files, RecordIsCoherent, Working, Launched, TypeOK, Pending,
           Answers, PC, files, store, asked, run, ghosts, bounds, vars,
           Settle, Written, RefusedWrite, UnresolvedWrite, Installs, Ends
<1>10. CASE Answer
    BY <1>10 DEF IInv, Files, RecordIsCoherent, Working, Launched, TypeOK, Pending,
           Answers, PC, files, store, asked, run, ghosts, bounds, vars,
           Answer, Done, Tells
<1>11. CASE Check
    BY <1>11 DEF IInv, Files, RecordIsCoherent, Working, Launched, TypeOK, Pending,
           Answers, PC, files, store, asked, run, ghosts, bounds, vars, Check,
           Unreadable, Found, Activated, Inspected, MayProceed, Settles, Ends,
           Goes
<1>12. CASE Open
    BY <1>12 DEF IInv, Files, RecordIsCoherent, Working, Launched, TypeOK, Pending,
           Answers, PC, files, store, asked, run, ghosts, bounds, vars, Open
<1>13. CASE SaveElsewhere
    BY <1>13, StoreStep DEF IInv, Files, RecordIsCoherent, Working, Launched, TypeOK, Pending,
           Answers, PC, files, store, asked, run, ghosts, bounds, vars,
           SaveElsewhere
<1>14. CASE Crash
    BY <1>14, StoreStep DEF IInv, Files, RecordIsCoherent, Working, Launched, TypeOK, Pending,
           Answers, PC, files, store, asked, run, ghosts, bounds, vars, Crash,
           PowerLoss, Forgotten, Done, Kept
<1>15. CASE Boot
    BY <1>15 DEF IInv, Files, RecordIsCoherent, Working, Launched, TypeOK, Pending,
           Answers, PC, files, store, asked, run, ghosts, bounds, vars, Boot,
           Reopened
<1>16. CASE \E c \in {"retry", "aside"} : Resume(c)
    BY <1>16 DEF IInv, Files, RecordIsCoherent, Working, Launched, TypeOK, Pending,
           Answers, PC, files, store, asked, run, ghosts, bounds, vars,
           Resume
<1>17. CASE UNCHANGED vars
    BY <1>17 DEF IInv, Files, RecordIsCoherent, Working, Launched, TypeOK, Pending,
           Answers, PC, files, store, asked, run, ghosts, bounds, vars
<1> QED
    BY <1>1, <1>2, <1>3, <1>4, <1>5, <1>6, <1>7, <1>8, <1>9, <1>10, <1>11, <1>12, <1>13, <1>14, <1>15, <1>16, <1>17 DEF Next

\* A step keeps track of what the store was given.
LEMMA LaunchedStep == IInv /\ [Next]_vars => Launched'
<1> SUFFICES ASSUME IInv, [Next]_vars PROVE Launched'
    OBVIOUS
<1> USE Identifiers
<1>1. CASE \E k \in Kinds : Click(k)
    BY <1>1 DEF IInv, Working, Launched, Files, RecordIsCoherent, TypeOK, Pending,
           Answers, PC, files, store, asked, run, ghosts, bounds, vars, Click,
           NoPending, NewOperation
<1>2. CASE Refuse
    BY <1>2 DEF IInv, Working, Launched, Files, RecordIsCoherent, TypeOK, Pending,
           Answers, PC, files, store, asked, run, ghosts, bounds, vars,
           Refuse, Ends
<1>3. CASE Record
    BY <1>3 DEF IInv, Working, Launched, Files, RecordIsCoherent, TypeOK, Pending,
           Answers, PC, files, store, asked, run, ghosts, bounds, vars,
           Record, Written, RefusedWrite, UnresolvedWrite, Ends, Goes
<1>4. CASE Stale
    BY <1>4 DEF IInv, Working, Launched, Files, RecordIsCoherent, TypeOK, Pending,
           Answers, PC, files, store, asked, run, ghosts, bounds, vars, Stale
<1>5. CASE Cancel
    BY <1>5 DEF IInv, Working, Launched, Files, RecordIsCoherent, TypeOK, Pending,
           Answers, PC, files, store, asked, run, ghosts, bounds, vars,
           Cancel
<1>6. CASE Commit
    BY <1>6 DEF IInv, Working, Launched, Files, RecordIsCoherent, TypeOK, Pending,
           Answers, PC, files, store, asked, run, ghosts, bounds, vars,
           Commit, Authorized, Ends, Goes
<1>7. CASE Apply
    BY <1>7, StoreStep DEF IInv, Working, Launched, Files, RecordIsCoherent, TypeOK, Pending,
           Answers, PC, files, store, asked, run, ghosts, bounds, vars, Apply,
           Goes
<1>8. CASE Verify
    BY <1>8 DEF IInv, Working, Launched, Files, RecordIsCoherent, TypeOK, Pending,
           Answers, PC, files, store, asked, run, ghosts, bounds, vars,
           Verify, Unreadable, Found, Missing, Settles, Ends, Goes
<1>9. CASE Settle
    BY <1>9 DEF IInv, Working, Launched, Files, RecordIsCoherent, TypeOK, Pending,
           Answers, PC, files, store, asked, run, ghosts, bounds, vars,
           Settle, Written, RefusedWrite, UnresolvedWrite, Installs, Ends
<1>10. CASE Answer
    BY <1>10 DEF IInv, Working, Launched, Files, RecordIsCoherent, TypeOK, Pending,
           Answers, PC, files, store, asked, run, ghosts, bounds, vars,
           Answer, Done, Tells
<1>11. CASE Check
    BY <1>11 DEF IInv, Working, Launched, Files, RecordIsCoherent, TypeOK, Pending,
           Answers, PC, files, store, asked, run, ghosts, bounds, vars, Check,
           Unreadable, Found, Activated, Inspected, MayProceed, Settles, Ends,
           Goes
<1>12. CASE Open
    BY <1>12 DEF IInv, Working, Launched, Files, RecordIsCoherent, TypeOK, Pending,
           Answers, PC, files, store, asked, run, ghosts, bounds, vars, Open
<1>13. CASE SaveElsewhere
    <2>1. receipts' \subseteq receipts /\ receipts \cup doubted \subseteq receipts' \cup doubted'
        BY <1>13, StoreStep DEF SaveElsewhere, Apply, Goes
    <2>2. \A o \in receipts : o \in receipts'
        BY <1>13 DEF SaveElsewhere, Published
    <2> QED
        BY <1>13, <2>1, <2>2 DEF IInv, Working, Launched, Files, RecordIsCoherent,
           TypeOK, Pending, Answers, PC, files, asked, run, ghosts, bounds, vars,
           SaveElsewhere
<1>14. CASE Crash
    <2>1. receipts' \subseteq receipts /\ receipts \cup doubted \subseteq receipts' \cup doubted'
        BY <1>14, StoreStep DEF Crash, Forgotten, Apply, Goes
    <2>2. disk' \in lasting \cup {disk} /\ lasting' \subseteq lasting \cup {disk'}
        BY <1>14 DEF Crash, PowerLoss, Kept
    <2> QED
        BY <1>14, <2>1, <2>2 DEF IInv, Working, Launched, Files, RecordIsCoherent,
           TypeOK, Pending, Answers, PC, files, asked, run, ghosts, bounds, vars, Crash,
           Forgotten, Done
<1>15. CASE Boot
    BY <1>15 DEF IInv, Working, Launched, Files, RecordIsCoherent, TypeOK, Pending,
           Answers, PC, files, store, asked, run, ghosts, bounds, vars, Boot,
           Reopened
<1>16. CASE \E c \in {"retry", "aside"} : Resume(c)
    BY <1>16 DEF IInv, Working, Launched, Files, RecordIsCoherent, TypeOK, Pending,
           Answers, PC, files, store, asked, run, ghosts, bounds, vars,
           Resume
<1>17. CASE UNCHANGED vars
    BY <1>17 DEF IInv, Working, Launched, Files, RecordIsCoherent, TypeOK, Pending,
           Answers, PC, files, store, asked, run, ghosts, bounds, vars
<1> QED
    BY <1>1, <1>2, <1>3, <1>4, <1>5, <1>6, <1>7, <1>8, <1>9, <1>10, <1>11, <1>12, <1>13, <1>14, <1>15, <1>16, <1>17 DEF Next

\* A step keeps the unknown outcomes recorded.
LEMMA RecordedStep == IInv /\ [Next]_vars => Recorded'
<1> SUFFICES ASSUME IInv, [Next]_vars PROVE Recorded'
    OBVIOUS
<1> USE Identifiers
<1>1. CASE \E k \in Kinds : Click(k)
    BY <1>1 DEF IInv, Files, RecordIsCoherent, Working, Launched, Recorded,
           UnknownStaysRecorded, TypeOK, Pending, Answers, PC, files, store,
           asked, run, ghosts, bounds, vars, Click, NoPending, NewOperation
<1>2. CASE Refuse
    BY <1>2 DEF IInv, Files, RecordIsCoherent, Working, Launched, Recorded,
           UnknownStaysRecorded, TypeOK, Pending, Answers, PC, files, store,
           asked, run, ghosts, bounds, vars, Refuse, Ends
<1>3. CASE Record
    BY <1>3 DEF IInv, Files, RecordIsCoherent, Working, Launched, Recorded,
           UnknownStaysRecorded, TypeOK, Pending, Answers, PC, files, store,
           asked, run, ghosts, bounds, vars, Record, Written, RefusedWrite,
           UnresolvedWrite, Ends, Goes
<1>4. CASE Stale
    BY <1>4 DEF IInv, Files, RecordIsCoherent, Working, Launched, Recorded,
           UnknownStaysRecorded, TypeOK, Pending, Answers, PC, files, store,
           asked, run, ghosts, bounds, vars, Stale
<1>5. CASE Cancel
    BY <1>5 DEF IInv, Files, RecordIsCoherent, Working, Launched, Recorded,
           UnknownStaysRecorded, TypeOK, Pending, Answers, PC, files, store,
           asked, run, ghosts, bounds, vars, Cancel
<1>6. CASE Commit
    BY <1>6 DEF IInv, Files, RecordIsCoherent, Working, Launched, Recorded,
           UnknownStaysRecorded, TypeOK, Pending, Answers, PC, files, store,
           asked, run, ghosts, bounds, vars, Commit, Authorized, Ends, Goes
<1>7. CASE Apply
    BY <1>7, StoreStep DEF IInv, Files, RecordIsCoherent, Working, Launched, Recorded,
           UnknownStaysRecorded, TypeOK, Pending, Answers, PC, files, store,
           asked, run, ghosts, bounds, vars, Apply, Goes
<1>8. CASE Verify
    BY <1>8 DEF IInv, Files, RecordIsCoherent, Working, Launched, Recorded,
           UnknownStaysRecorded, TypeOK, Pending, Answers, PC, files, store,
           asked, run, ghosts, bounds, vars, Verify, Unreadable, Found,
           Missing, Settles, Ends, Goes
<1>9. CASE Settle
    BY <1>9 DEF IInv, Files, RecordIsCoherent, Working, Launched, Recorded,
           UnknownStaysRecorded, TypeOK, Pending, Answers, PC, files, store,
           asked, run, ghosts, bounds, vars, Settle, Written, RefusedWrite,
           UnresolvedWrite, Installs, Ends
<1>10. CASE Answer
    BY <1>10 DEF IInv, Files, RecordIsCoherent, Working, Launched, Recorded,
           UnknownStaysRecorded, TypeOK, Pending, Answers, PC, files, store,
           asked, run, ghosts, bounds, vars, Answer, Done,
           Tells
<1>11. CASE Check
    BY <1>11 DEF IInv, Files, RecordIsCoherent, Working, Launched, Recorded,
           UnknownStaysRecorded, TypeOK, Pending, Answers, PC, files, store,
           asked, run, ghosts, bounds, vars, Check, Unreadable, Found,
           Activated, Inspected, MayProceed, Settles, Ends, Goes
<1>12. CASE Open
    BY <1>12 DEF IInv, Files, RecordIsCoherent, Working, Launched, Recorded,
           UnknownStaysRecorded, TypeOK, Pending, Answers, PC, files, store,
           asked, run, ghosts, bounds, vars, Open
<1>13. CASE SaveElsewhere
    BY <1>13, StoreStep DEF IInv, Files, RecordIsCoherent, Working, Launched, Recorded,
           UnknownStaysRecorded, TypeOK, Pending, Answers, PC, files, store,
           asked, run, ghosts, bounds, vars, SaveElsewhere
<1>14. CASE Crash
    BY <1>14, StoreStep DEF IInv, Files, RecordIsCoherent, Working, Launched, Recorded,
           UnknownStaysRecorded, TypeOK, Pending, Answers, PC, files, store,
           asked, run, ghosts, bounds, vars, Crash, PowerLoss,
           Forgotten, Done, Kept
<1>15. CASE Boot
    BY <1>15 DEF IInv, Files, RecordIsCoherent, Working, Launched, Recorded,
           UnknownStaysRecorded, TypeOK, Pending, Answers, PC, files, store,
           asked, run, ghosts, bounds, vars, Boot, Reopened
<1>16. CASE \E c \in {"retry", "aside"} : Resume(c)
    BY <1>16 DEF IInv, Files, RecordIsCoherent, Working, Launched, Recorded,
           UnknownStaysRecorded, TypeOK, Pending, Answers, PC, files, store,
           asked, run, ghosts, bounds, vars, Resume
<1>17. CASE UNCHANGED vars
    BY <1>17 DEF IInv, Files, RecordIsCoherent, Working, Launched, Recorded,
           UnknownStaysRecorded, TypeOK, Pending, Answers, PC, files, store,
           asked, run, ghosts, bounds, vars
<1> QED
    BY <1>1, <1>2, <1>3, <1>4, <1>5, <1>6, <1>7, <1>8, <1>9, <1>10, <1>11, <1>12, <1>13, <1>14, <1>15, <1>16, <1>17 DEF Next

\* A step keeps the answers true.
LEMMA TruthStep == IInv /\ [Next]_vars => Truth'
<1> SUFFICES ASSUME IInv, [Next]_vars PROVE Truth'
    OBVIOUS
<1> USE Identifiers
<1>1. CASE \E k \in Kinds : Click(k)
    BY <1>1 DEF IInv, Working, Launched, Truth, AnswersAreTrue, TypeOK, Pending,
           Answers, PC, files, store, asked, run, ghosts, bounds, vars, Click,
           NoPending, NewOperation
<1>2. CASE Refuse
    BY <1>2 DEF IInv, Working, Launched, Truth, AnswersAreTrue, TypeOK, Pending,
           Answers, PC, files, store, asked, run, ghosts, bounds, vars,
           Refuse, Ends
<1>3. CASE Record
    BY <1>3 DEF IInv, Working, Launched, Truth, AnswersAreTrue, TypeOK, Pending,
           Answers, PC, files, store, asked, run, ghosts, bounds, vars,
           Record, Written, RefusedWrite, UnresolvedWrite, Ends, Goes
<1>4. CASE Stale
    BY <1>4 DEF IInv, Working, Launched, Truth, AnswersAreTrue, TypeOK, Pending,
           Answers, PC, files, store, asked, run, ghosts, bounds, vars, Stale
<1>5. CASE Cancel
    BY <1>5 DEF IInv, Working, Launched, Truth, AnswersAreTrue, TypeOK, Pending,
           Answers, PC, files, store, asked, run, ghosts, bounds, vars,
           Cancel
<1>6. CASE Commit
    BY <1>6 DEF IInv, Working, Launched, Truth, AnswersAreTrue, TypeOK, Pending,
           Answers, PC, files, store, asked, run, ghosts, bounds, vars,
           Commit, Authorized, Ends, Goes
<1>7. CASE Apply
    BY <1>7, StoreStep DEF IInv, Working, Launched, Truth, AnswersAreTrue, TypeOK, Pending,
           Answers, PC, files, store, asked, run, ghosts, bounds, vars, Apply,
           Goes
<1>8. CASE Verify
    BY <1>8 DEF IInv, Working, Launched, Truth, AnswersAreTrue, TypeOK, Pending,
           Answers, PC, files, store, asked, run, ghosts, bounds, vars,
           Verify, Unreadable, Found, Missing, Settles, Ends, Goes
<1>9. CASE Settle
    BY <1>9 DEF IInv, Working, Launched, Truth, AnswersAreTrue, TypeOK, Pending,
           Answers, PC, files, store, asked, run, ghosts, bounds, vars,
           Settle, Written, RefusedWrite, UnresolvedWrite, Installs, Ends
<1>10. CASE Answer
    BY <1>10 DEF IInv, Working, Launched, Truth, AnswersAreTrue, TypeOK, Pending,
           Answers, PC, files, store, asked, run, ghosts, bounds, vars,
           Answer, Done, Tells
<1>11. CASE Check
    BY <1>11 DEF IInv, Working, Launched, Truth, AnswersAreTrue, TypeOK, Pending,
           Answers, PC, files, store, asked, run, ghosts, bounds, vars, Check,
           Unreadable, Found, Activated, Inspected, MayProceed, Settles, Ends,
           Goes
<1>12. CASE Open
    BY <1>12 DEF IInv, Working, Launched, Truth, AnswersAreTrue, TypeOK, Pending,
           Answers, PC, files, store, asked, run, ghosts, bounds, vars, Open
<1>13. CASE SaveElsewhere
    <2>1. receipts' \subseteq receipts /\ receipts \cup doubted \subseteq receipts' \cup doubted'
        BY <1>13, StoreStep DEF SaveElsewhere, Apply, Goes
    <2>2. \A o \in receipts : o \in receipts'
        BY <1>13 DEF SaveElsewhere, Published
    <2> QED
        BY <1>13, <2>1, <2>2 DEF IInv, Working, Launched, Truth, AnswersAreTrue, TypeOK,
           Pending, Answers, PC, files, asked, run, ghosts, bounds, vars, SaveElsewhere
<1>14. CASE Crash
    <2>1. receipts' \subseteq receipts /\ receipts \cup doubted \subseteq receipts' \cup doubted'
        BY <1>14, StoreStep DEF Crash, Forgotten, Apply, Goes
    <2>2. disk' \in lasting \cup {disk} /\ lasting' \subseteq lasting \cup {disk'}
        BY <1>14 DEF Crash, PowerLoss, Kept
    <2> QED
        BY <1>14, <2>1, <2>2 DEF IInv, Working, Launched, Truth, AnswersAreTrue, TypeOK,
           Pending, Answers, PC, files, asked, run, ghosts, bounds, vars, Crash,
           Forgotten, Done
<1>15. CASE Boot
    BY <1>15 DEF IInv, Working, Launched, Truth, AnswersAreTrue, TypeOK, Pending,
           Answers, PC, files, store, asked, run, ghosts, bounds, vars, Boot,
           Reopened
<1>16. CASE \E c \in {"retry", "aside"} : Resume(c)
    BY <1>16 DEF IInv, Working, Launched, Truth, AnswersAreTrue, TypeOK, Pending,
           Answers, PC, files, store, asked, run, ghosts, bounds, vars,
           Resume
<1>17. CASE UNCHANGED vars
    BY <1>17 DEF IInv, Working, Launched, Truth, AnswersAreTrue, TypeOK, Pending,
           Answers, PC, files, store, asked, run, ghosts, bounds, vars
<1> QED
    BY <1>1, <1>2, <1>3, <1>4, <1>5, <1>6, <1>7, <1>8, <1>9, <1>10, <1>11, <1>12, <1>13, <1>14, <1>15, <1>16, <1>17 DEF Next

\* Nothing is recorded, saved or told before the first boot.
LEMMA Initially == Init => IInv
<1> SUFFICES ASSUME Init PROVE IInv
    OBVIOUS
<1> USE Identifiers, ConstantsAssumption
<1>1. TypeOK
    <2>1. revision \in 1 .. made /\ opened \in 0 .. made /\ made \in Nat /\ None \in 0 .. made
        BY DEF Init, None
    <2>2. left \in SUBSET [revision : 1 .. made, receipts : SUBSET Operations]
        BY <2>1 DEF Init
    <2> QED
        BY <2>1, <2>2 DEF Init, TypeOK, Pending, Answers, PC
<1>4. Stored
    BY DEF Init, Stored
<1>2. Files /\ Working /\ Launched
    BY DEF Init, Files, RecordIsCoherent, Working, Launched, None
<1>3. Recorded /\ Truth
    BY DEF Init, Recorded, UnknownStaysRecorded, Truth, AnswersAreTrue
<1> QED
    BY <1>1, <1>2, <1>3, <1>4 DEF IInv

\* The invariant behind the others holds in every state of every behaviour.
THEOREM Inductive == Spec => []IInv
<1>1. Init => IInv
    BY Initially
<1>2. IInv /\ [Next]_vars => IInv'
    BY TypeStep, StoreStep, FilesStep, WorkingStep, LaunchedStep, RecordedStep, TruthStep DEF IInv
<1> QED
    BY <1>1, <1>2, PTL DEF Spec

\* Every variable of the worker, its restart record and the store keeps its type.
THEOREM TypeCorrect == Spec => []TypeOK
<1>1. IInv => TypeOK
    BY DEF IInv
<1> QED
    BY <1>1, Inductive, PTL

\* JournalFile never writes on while its memory may differ from the file.
THEOREM CoherenceCorrect == Spec => []RecordIsCoherent
<1>1. IInv => RecordIsCoherent
    BY DEF IInv, Files
<1> QED
    BY <1>1, Inductive, PTL

\* No crash, power loss or failed write makes the host forget a save whose
\* outcome it has not read back from the store.
THEOREM RecordedCorrect == Spec => []UnknownStaysRecorded
<1>1. IInv => UnknownStaysRecorded
    BY DEF IInv, Recorded
<1> QED
    BY <1>1, Inductive, PTL

\* What the host said of a save stays true until the user asks again.
THEOREM AnswersCorrect == Spec => []AnswersAreTrue
<1>1. IInv => AnswersAreTrue
    BY DEF IInv, Truth
<1> QED
    BY <1>1, Inductive, PTL

\* The record is one and the same wherever it is read, and holds what is not known.
THEOREM RecordCorrect == Spec => []RecordHolds
<1>1. RecordIsCoherent /\ UnknownStaysRecorded => RecordHolds
    BY DEF RecordHolds
<1> QED
    BY <1>1, CoherenceCorrect, RecordedCorrect, PTL
=============================================================================
