----------------------------- MODULE MCScreening -----------------------------
(* k1 is a chart at the limit of what the heuristic takes for one and a    *)
(* question that both kinds of layer flag; k2 is a plain drawing, which    *)
(* CLIP blocks and the heuristic does not, with a harmless question; k3 is *)
(* a busy picture that the LLM flags, where CLIP and heuristic differ too. *)
EXTENDS Screening, TLC

CONSTANTS k1, k2, k3

MCLayers == <<"injection">>

MCContent ==
    k1 :> [flags |-> {"injection", "llm"},
           prob |-> 900, digits |-> FALSE, dominant |-> 180, distinct |-> 48]
 @@ k2 :> [flags |-> {},
           prob |-> 300, digits |-> TRUE, dominant |-> 900, distinct |-> 20]
 @@ k3 :> [flags |-> {"llm"},
           prob |-> 450, digits |-> TRUE, dominant |-> 100, distinct |-> 500]

Symmetry == Permutations(Threads)

=============================================================================
