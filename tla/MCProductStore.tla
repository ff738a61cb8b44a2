--------------------------- MODULE MCProductStore ---------------------------
(* Small instances of ProductStore for TLC. *)
EXTENDS ProductStore, TLC

CONSTANTS h1, h2, o1, o2, i1, t1

\* A created tool, and one recovered with a retained receipt.
Created == [revision |-> 0, receipts |-> {}]
Recovered == [revision |-> 1,
              receipts |-> {[operation |-> o1, request |-> i1, revision |-> 1]}]

OnlyCreated == {Created}
OnlyRecovered == {Recovered}

HandleSymmetry == Permutations({h1, h2})
Symmetry == Permutations({h1, h2}) \cup Permutations({o1, o2})
=============================================================================
