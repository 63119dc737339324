--------------------------- MODULE MCAskPipeline ---------------------------
(* The threads of one instance race for one key; threads and keys are      *)
(* interchangeable.                                                        *)
EXTENDS AskPipeline, TLC

OneInstance == [t \in Threads |-> CHOOSE i \in Instances : TRUE]
Symmetry    == Permutations(Threads) \cup Permutations(Keys)
=============================================================================
