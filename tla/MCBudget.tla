------------------------------ MODULE MCBudget ------------------------------
(* Two threads of one instance race with each other over client(), and     *)
(* with the thread of a second instance over the counter in Redis.         *)
EXTENDS Budget, TLC

CONSTANTS t1, t2, t3, i1, i2

Homes    == [t \in Threads |-> IF t = t3 THEN i2 ELSE i1]
Symmetry == Permutations({t1, t2})
=============================================================================
