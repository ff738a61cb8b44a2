------------------------ MODULE CancellableRequests ------------------------
(***************************************************************************)
(* What the generated-tool host promises about one request, without        *)
(* threads, channels or gates: a request is saved or withdrawn, never       *)
(* both, and what the user is told about it is and stays true.              *)
(***************************************************************************)
CONSTANT Operations

VARIABLES
    fate,    \* what became of each request
    told     \* what the user has been told about each request

vars == <<fate, told>>

Init ==
    /\ fate = [o \in Operations |-> "new"]
    /\ told = [o \in Operations |-> "nothing"]

Decide(o, from, to) ==
    /\ fate[o] = from
    /\ fate' = [fate EXCEPT ![o] = to]
    /\ UNCHANGED told

Ask(o) == Decide(o, "new", "asked")

\* The user takes back what is not saved yet.
Withdraw(o) == Decide(o, "asked", "withdrawn")

Save(o) == Decide(o, "asked", "saved")

\* The one answer to a request.  Only "unresolved" leaves open whether it is
\* saved; any other answer to an unsaved request ends it.
Answer(o) ==
    /\ told[o] = "nothing"
    /\ fate[o] # "new"
    /\ \/ /\ fate[o] = "saved"
          /\ told' = [told EXCEPT ![o] = "saved"]
          /\ UNCHANGED fate
       \/ /\ fate[o] # "saved"
          /\ \E a \in {"done", "unsaved"} : told' = [told EXCEPT ![o] = a]
          /\ fate' = [fate EXCEPT ![o] = "over"]
       \/ /\ fate[o] # "withdrawn"
          /\ told' = [told EXCEPT ![o] = "unresolved"]
          /\ fate' = [fate EXCEPT ![o] = IF fate[o] = "saved" THEN "saved" ELSE "over"]

Next == \E o \in Operations : Ask(o) \/ Withdraw(o) \/ Save(o) \/ Answer(o)

Spec == Init /\ [][Next]_vars
=============================================================================
