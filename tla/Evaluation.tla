----------------------------- MODULE Evaluation ------------------------------
(***************************************************************************)
(* modeling/chartqa/evaluation/evaluate.py with the scoring of metrics.py, *)
(* run into an errors folder, and the two programs that read such folders: *)
(* analysis/compare_errors.py, which sets a zero-shot run against a LoRA   *)
(* run, and results_from_errors.py.  One runs at a time; any of them may   *)
(* be killed, and be started again with other settings.                    *)
(*                                                                         *)
(* An answer is what the scoring sees of it: the text without surrounding  *)
(* blanks, the same in lower case, and the number that _to_number reads (a *)
(* natural here), or NoNumber; "nan" and "inf", which float() also reads,  *)
(* are left out.                                                           *)
(* An errors.json that was cut short cannot be read, and is none.          *)
(***************************************************************************)
EXTENDS Integers, Sequences

CONSTANTS
    Folders,      \* the errors folders: "zero_shot" and "lora_finetune"
    Gold,         \* the answers of the dataset, in order
    Predictions,  \* what a model may say of each sample
    Limits        \* the values of --limit that are tried

NoNumber == -1

ASSUME EvaluationAssumption ==
    /\ Folders = {"zero_shot", "lora_finetune"}
    /\ Limits \subseteq Nat /\ \A l \in Limits : l <= Len(Gold)
    /\ Gold \in Seq({Gold[i] : i \in DOMAIN Gold})
    /\ DOMAIN Predictions = DOMAIN Gold
    /\ \A i \in DOMAIN Gold : \A a, b \in Predictions[i] \cup {Gold[i]} :
         /\ a.number \in Nat \cup {NoNumber}
         /\ a.text = b.text => a.lower = b.lower /\ a.number = b.number

VARIABLES
    folder,   \* the folder that the running evaluation writes, or "none"
    metric,   \* its --metric
    n,        \* how many samples it takes
    errors,   \* errors: the samples it failed so far
    images,   \* in each folder: the images, by index
    report,   \* in each folder: errors.json, as a set of at most one
    said,     \* history: what the last run into each folder predicted
    compared  \* comparison.json of the runs now in the folders, as a set of at most one

evalVars == <<folder, metric, n, errors, images, report, said, compared>>

EvalInit ==
    /\ folder = "none" /\ metric = "exact" /\ n = 0 /\ errors = {}
    /\ images = [f \in Folders |-> {}]
    /\ report = [f \in Folders |-> {}]
    /\ said = [f \in Folders |-> <<>>]
    /\ compared = {}

(* ----------------------------- metrics.py ------------------------------ *)
Abs(x) == IF x < 0 THEN -x ELSE x

(* RELAXED_TOLERANCE is 5 %, of the gold answer.                           *)
RelaxedMatch(pred, gold) ==
    IF pred.number # NoNumber /\ gold.number # NoNumber
    THEN IF gold.number = 0 THEN pred.number = 0
         ELSE 100 * Abs(pred.number - gold.number) <= 5 * gold.number
    ELSE pred.lower = gold.lower

ExactMatch(pred, gold) == pred.text = gold.text

MatchFn(m, pred, gold) ==
    IF m = "exact" THEN ExactMatch(pred, gold) ELSE RelaxedMatch(pred, gold)

(* ----------------------------- evaluate.py ----------------------------- *)
StartUnwiped(f) ==
    /\ folder = "none"
    /\ folder' = f /\ metric' \in {"exact", "relaxed"} /\ n' \in Limits
    /\ errors' = {}
    /\ said' = [said EXCEPT ![f] = <<>>]
    /\ compared' = {}
    /\ UNCHANGED <<images, report>>

(* The folder is wiped before the first sample.  A comparison made before  *)
(* stays on disk and is not followed further.                              *)
Start(f) ==
    /\ folder = "none"
    /\ folder' = f /\ metric' \in {"exact", "relaxed"} /\ n' \in Limits
    /\ errors' = {}
    /\ images' = [images EXCEPT ![f] = {}]
    /\ report' = [report EXCEPT ![f] = {}]
    /\ said' = [said EXCEPT ![f] = <<>>]
    /\ compared' = {}

(* Samples count from 0.  The image of a failed one is saved first.        *)
Sample ==
    LET i == Len(said[folder])
    IN  /\ folder # "none" /\ i < n
        /\ \E pred \in Predictions[i + 1] :
             /\ said' = [said EXCEPT ![folder] = Append(@, pred)]
             /\ IF MatchFn(metric, pred, Gold[i + 1])
                THEN UNCHANGED <<errors, images>>
                ELSE /\ images' = [images EXCEPT ![folder] = @ \cup {i}]
                     /\ errors' = errors \cup
                           {[index |-> i, gold |-> Gold[i + 1], pred |-> pred]}
        /\ UNCHANGED <<folder, metric, n, report, compared>>

Report ==
    /\ folder # "none" /\ Len(said[folder]) = n
    /\ report' = [report EXCEPT
                    ![folder] = {[metric |-> metric, n |-> n, errors |-> errors]}]
    /\ folder' = "none"
    /\ UNCHANGED <<metric, n, errors, images, said, compared>>

Killed ==
    /\ folder # "none"
    /\ folder' = "none"
    /\ UNCHANGED <<metric, n, errors, images, report, said, compared>>

(* -------------------------- compare_errors.py -------------------------- *)
Failed(r) == {e.index : e \in r.errors}

(* A row: the technique that did not fail is said to have predicted gold.  *)
Row(e, by) ==
    [index |-> e.index, gold |-> e.gold, by |-> by,
     zeroShot |-> IF by = "zero_shot" THEN e.pred ELSE e.gold,
     lora |-> IF by = "zero_shot" THEN e.gold ELSE e.pred]

RowsOfAll(zs, lora) ==
    {Row(e, "zero_shot") : e \in zs.errors} \cup
    {Row(e, "lora_finetune") : e \in lora.errors}

Rows(zs, lora) ==
    {Row(e, "zero_shot") : e \in {x \in zs.errors : x.index \notin Failed(lora)}} \cup
    {Row(e, "lora_finetune") : e \in {x \in lora.errors : x.index \notin Failed(zs)}}

(* Both reports are read before the output folder is cleared; without one  *)
(* nothing happens.  Killed in between, or at an image that is not there,  *)
(* it leaves no comparison.                                                *)
Compare ==
    /\ folder = "none"
    /\ \E zs \in report["zero_shot"], lora \in report["lora_finetune"] :
         \/ /\ Failed(zs) \subseteq images["zero_shot"]
            /\ Failed(lora) \subseteq images["lora_finetune"]
            /\ compared' = {[metric |-> zs.metric, rows |-> Rows(zs, lora)]}
         \/ compared' = {}
    /\ UNCHANGED <<folder, metric, n, errors, images, report, said>>

(* ------------------------ results_from_errors.py ----------------------- *)
Results(r) == [i \in 0 .. r.n - 1 |-> IF i \in Failed(r) THEN "failure" ELSE "success"]

EvalNext == (\E f \in Folders : Start(f)) \/ Sample \/ Report \/ Killed \/ Compare

EvalSpec == EvalInit /\ [][EvalNext]_evalVars

(* ----------------------------- properties ------------------------------ *)

EvalTypeOK ==
    /\ folder \in Folders \cup {"none"} /\ metric \in {"exact", "relaxed"}
    /\ n \in Nat
    /\ {e.index : e \in errors} \subseteq 0 .. n
    /\ \A f \in Folders :
         /\ images[f] \subseteq Nat
         /\ \A i \in DOMAIN said[f] : said[f][i] \in Predictions[i]

(* Where there is an errors.json it is of the last run into that folder,   *)
(* the images beside it are those that it names and no others, and what    *)
(* results_from_errors makes of it is how each sample of that run went.    *)
ErrorsAreLastRun ==
    \A f \in Folders : \A r \in report[f] :
        /\ folder # f
        /\ Failed(r) = images[f]
        /\ DOMAIN said[f] = 1 .. r.n
        /\ \A i \in 0 .. r.n - 1 :
             Results(r)[i] = "success" <=> MatchFn(r.metric, said[f][i + 1], Gold[i + 1])

(* compare_errors notes that for the technique that did not fail "pred ==  *)
(* gold (exact metric)", and never looks at --metric or n.  Its rows are   *)
(* the samples that exactly one run got wrong, and the predictions in them *)
(* what the models said, if both runs scored the same samples exactly.     *)
(* Scored by "relaxed", the other one is only within the tolerance.        *)
ComparisonSound ==
    \A c \in compared, zs \in report["zero_shot"], lora \in report["lora_finetune"] :
        LET saidZs == said["zero_shot"]  saidLora == said["lora_finetune"]
            Right(r, s, i) == MatchFn(r.metric, s[i + 1], Gold[i + 1])
        IN  zs.n = lora.n /\ zs.metric = lora.metric =>
              /\ {w.index : w \in c.rows} =
                   {i \in 0 .. zs.n - 1 : Right(zs, saidZs, i) # Right(lora, saidLora, i)}
              /\ \A w \in c.rows :
                   /\ RelaxedMatch(saidZs[w.index + 1], w.zeroShot)
                   /\ RelaxedMatch(saidLora[w.index + 1], w.lora)
                   /\ c.metric = "exact" =>
                        /\ w.zeroShot.text = saidZs[w.index + 1].text
                        /\ w.lora.text = saidLora[w.index + 1].text

=============================================================================
