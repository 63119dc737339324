----------------------------- MODULE MCPrograms ------------------------------
EXTENDS Programs

CONSTANTS k1, k2, k3, k4

(* A remainder in every epoch, without and with a cap that ends the second *)
(* epoch early; validation at every other step only; no remainder, and a   *)
(* cap of 0; epochs too short for a single step.                           *)
Config(b, g, e, m, v, s) ==
    [batches |-> b, gradAccum |-> g, epochs |-> e, maxSteps |-> m,
     evalSteps |-> v, saveSteps |-> s]

MCConfigs ==
    {Config(5, 2, 2, NoCap, 1, 2), Config(4, 1, 2, 7, 2, 3), Config(5, 3, 3, 2, 1, 1),
     Config(4, 2, 2, 0, 1, 3), Config(2, 3, 2, NoCap, 1, 1)}

MCLosses == {1, 2, 4}  \* 4 is NaN

Answer(t, l, x) == [text |-> t, lower |-> l, number |-> x]

MCGold == <<Answer("100", "100", 100), Answer("Yes", "yes", NoNumber)>>

MCPredictions ==
    << {Answer("100", "100", 100), Answer("96", "96", 96), Answer("94", "94", 94)},
       {Answer("Yes", "yes", NoNumber), Answer("yes", "yes", NoNumber),
        Answer("0", "0", 0)} >>

=============================================================================
