------------------------------ MODULE Programs -------------------------------
(* Four parts of the repository that run apart from each other and share   *)
(* no state.  A behaviour is one of one of them (focus); the other three   *)
(* stay as they begin.                                                     *)
EXTENDS AnswerCache, Orchestrator, Training, Evaluation

VARIABLE focus

vars == <<focus, cacheVars, orchVars, trainVars, evalVars>>

Init ==
    /\ focus \in {"cache", "orchestrator", "training", "evaluation"}
    /\ CacheInit /\ OrchInit /\ TrainInit /\ EvalInit

CacheStep ==
    focus = "cache" /\ CacheNext /\ UNCHANGED <<focus, orchVars, trainVars, evalVars>>

OrchStep ==
    focus = "orchestrator" /\ OrchNext
    /\ UNCHANGED <<focus, cacheVars, trainVars, evalVars>>

TrainStep ==
    focus = "training" /\ TrainNext /\ UNCHANGED <<focus, cacheVars, orchVars, evalVars>>

EvalStep ==
    focus = "evaluation" /\ EvalNext /\ UNCHANGED <<focus, cacheVars, orchVars, trainVars>>

Next == CacheStep \/ OrchStep \/ TrainStep \/ EvalStep

(* What the orchestrator does about a child that died: it polls every half *)
(* second, a child has 8 s to go, and the commands it calls then return.   *)
EndingStep ==
    focus = "orchestrator" /\ Ending /\ UNCHANGED <<focus, cacheVars, trainVars, evalVars>>

Spec == Init /\ [][Next]_vars /\ WF_vars(EndingStep)

(* The state of each part is of its type.                                  *)
TypeOK == CacheTypeOK /\ OrchTypeOK /\ TrainTypeOK /\ EvalTypeOK

=============================================================================
