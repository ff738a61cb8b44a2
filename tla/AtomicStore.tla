----------------------------- MODULE AtomicStore -----------------------------
(***************************************************************************)
(* What one generated tool's store promises, without folders, locks,       *)
(* objects or renames: one committed snapshot that only ever grows by one  *)
(* receipt at a time.  A power loss may take it back, but only to a        *)
(* snapshot it has been since the last confirmed save.                     *)
(***************************************************************************)
EXTENDS Naturals

CONSTANTS Operations, Request, Seeds, MaxRevision, None

VARIABLES
    committed,    \* the snapshot every new load returns
    recoverable,  \* what a power loss may take it back to
    confirmed     \* receipts of the saves reported as saved

vars == <<committed, recoverable, confirmed>>

Init ==
    /\ committed = None
    /\ recoverable = {None}
    /\ confirmed = {}

Install(s) ==
    /\ committed' = s
    /\ recoverable' = recoverable \cup {s}
    /\ UNCHANGED confirmed

\* A tool is created or recovered once.
Activate == committed = None /\ \E s \in Seeds : Install(s)

\* One operation, never saved before, extends the committed snapshot.
Commit ==
    /\ committed # None
    /\ committed.revision < MaxRevision
    /\ \E o \in Operations, q \in Request :
         /\ \A r \in committed.receipts : r.operation # o
         /\ Install([revision |-> committed.revision + 1,
                     receipts |-> committed.receipts \cup
                       {[operation |-> o, request |-> q,
                         revision |-> committed.revision + 1]}])

\* What is committed now can no longer be taken back; a host may be told.
Confirm ==
    /\ recoverable' = {committed}
    /\ \/ UNCHANGED confirmed
       \/ /\ committed # None
          /\ \E r \in committed.receipts : confirmed' = confirmed \cup {r}
    /\ UNCHANGED committed

PowerLoss ==
    /\ committed' \in recoverable
    /\ recoverable' = {committed'}
    /\ UNCHANGED confirmed

Next == Activate \/ Commit \/ Confirm \/ PowerLoss

Spec == Init /\ [][Next]_vars
=============================================================================
