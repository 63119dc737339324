------------------------------ MODULE Training -------------------------------
(***************************************************************************)
(* The loop of modeling/chartqa/training/finetune_lora.py and the          *)
(* checkpoints it leaves in its run folder.  A run may be killed at any    *)
(* moment, also between the adapter and the trainer state of a checkpoint; *)
(* a later run may be given the same --run-name and then writes into the   *)
(* same folder.                                                            *)
(*                                                                         *)
(* A gradient is the batch it came from, so what matters is how many are   *)
(* waiting and how many have been applied.  A validation loss is a number; *)
(* Infinity is what best_loss starts from, and one above it stands for     *)
(* NaN, which is below nothing.  Left out: the plot, the log lines, the    *)
(* learning rate, what the loss of a step is.                              *)
(***************************************************************************)
EXTENDS Integers, Sequences, Functions, FiniteSetsExt

CONSTANTS
    Configs,  \* the values of HPARAMS and --max-steps that are tried
    Losses,   \* what run_validation may return
    Infinity, \* float("inf")
    MaxTrainings  \* bound: how many runs there are

NoCap == 1000000  \* max_steps is None

ASSUME TrainingAssumption ==
    /\ Losses \subseteq Nat /\ Infinity \in Nat /\ Configs # {}
    /\ \A c \in Configs :
         /\ c.batches \in Nat
         /\ {c.epochs, c.gradAccum, c.evalSteps, c.saveSteps} \subseteq Nat \ {0}
         /\ c.maxSteps \in Int

VARIABLES
    hp,        \* the settings of this run
    stage,     \* where the loop is
    epoch,     \* epoch
    batch,     \* batches of this epoch that have been through backward()
    grads,     \* gradients that accumulate
    applied,   \* history: gradients that optimizer.step() has used
    step,      \* optimizer_step
    evalLoss,  \* eval_loss
    bestLoss,  \* best_loss
    lowest,    \* history: the lowest validation loss of this run
    saving,    \* the checkpoints to write now
    half,      \* whether the adapter of the first of them is written
    adapters,  \* the run folder: whose weights each checkpoint holds
    logs,      \* the run folder: whose trainer state it holds
    mixed,     \* history: the checkpoints that a kill left between the two
    trainings  \* runs so far

loopVars == <<hp, stage, epoch, batch, grads, applied, step, evalLoss, bestLoss,
              lowest>>
diskVars == <<saving, half, adapters, logs, mixed>>
trainVars == <<loopVars, diskVars, trainings>>

BlankTag == [run |-> 0, step |-> 0, loss |-> Infinity]
Tag == [run |-> trainings, step |-> step, loss |-> evalLoss]

Best     == <<"best", 0>>
Final    == <<"final", 0>>
Regular(n) == <<"step", n>>

StepsPerEpoch == hp.batches \div hp.gradAccum
TotalSteps == Min({StepsPerEpoch * hp.epochs, hp.maxSteps})
Remainder == hp.batches % hp.gradAccum

TrainInit ==
    /\ hp = CHOOSE c \in Configs : TRUE
    /\ stage = "off"
    /\ epoch = 0 /\ batch = 0 /\ grads = 0 /\ applied = 0 /\ step = 0
    /\ evalLoss = Infinity /\ bestLoss = Infinity /\ lowest = Infinity
    /\ saving = <<>> /\ half = FALSE /\ mixed = {}
    /\ adapters = [c \in {Best, Final} |-> BlankTag]
    /\ logs = adapters
    /\ trainings = 0

(* best_loss starts over, whatever the folder holds.                       *)
StartTraining ==
    /\ stage \in {"off", "done"} /\ trainings < MaxTrainings
    /\ hp' \in Configs
    /\ stage' = "train" /\ trainings' = trainings + 1
    /\ epoch' = 0 /\ batch' = 0 /\ grads' = 0 /\ applied' = 0 /\ step' = 0
    /\ evalLoss' = Infinity /\ bestLoss' = Infinity /\ lowest' = Infinity
    /\ saving' = <<>> /\ half' = FALSE
    /\ UNCHANGED <<adapters, logs, mixed>>

Accumulate ==
    /\ stage = "train" /\ batch < hp.batches
    /\ (batch + 1) % hp.gradAccum # 0
    /\ batch' = batch + 1 /\ grads' = grads + 1
    /\ UNCHANGED <<hp, stage, epoch, applied, step, evalLoss, bestLoss, lowest,
                   diskVars, trainings>>

OptimizerStepKeepsGrads ==
    /\ stage = "train" /\ batch < hp.batches
    /\ (batch + 1) % hp.gradAccum = 0
    /\ batch' = batch + 1
    /\ applied' = applied + grads + 1 /\ grads' = grads + 1
    /\ step' = step + 1 /\ stage' = "stepped"
    /\ UNCHANGED <<hp, epoch, evalLoss, bestLoss, lowest, diskVars, trainings>>

(* The groups start over with every epoch; what is left of the last one is *)
(* not dropped, so the first step of the next epoch uses it too.           *)
OptimizerStep ==
    /\ stage = "train" /\ batch < hp.batches
    /\ (batch + 1) % hp.gradAccum = 0
    /\ batch' = batch + 1
    /\ applied' = applied + grads + 1 /\ grads' = 0
    /\ step' = step + 1 /\ stage' = "stepped"
    /\ UNCHANGED <<hp, epoch, evalLoss, bestLoss, lowest, diskVars, trainings>>

RegularDue == IF step % hp.saveSteps = 0 THEN <<Regular(step)>> ELSE <<>>

NoValidation ==
    /\ stage = "stepped" /\ step % hp.evalSteps # 0
    /\ stage' = "saving" /\ saving' = RegularDue
    /\ UNCHANGED <<hp, epoch, batch, grads, applied, step, evalLoss, bestLoss, lowest,
                   half, adapters, logs, mixed, trainings>>

ValidateAgainstFirst ==
    /\ stage = "stepped" /\ step % hp.evalSteps = 0
    /\ evalLoss' \in Losses
    /\ bestLoss' = IF bestLoss = Infinity /\ evalLoss' < bestLoss THEN evalLoss' ELSE bestLoss
    /\ lowest' = Min({lowest, evalLoss'})
    /\ stage' = "saving"
    /\ saving' = (IF evalLoss' <= bestLoss THEN <<Best>> ELSE <<>>) \o RegularDue
    /\ UNCHANGED <<hp, epoch, batch, grads, applied, step,
                   half, adapters, logs, mixed, trainings>>

Validate ==
    /\ stage = "stepped" /\ step % hp.evalSteps = 0
    /\ evalLoss' \in Losses
    /\ bestLoss' = IF evalLoss' < bestLoss THEN evalLoss' ELSE bestLoss
    /\ lowest' = Min({lowest, evalLoss'})
    /\ stage' = "saving"
    /\ saving' = (IF evalLoss' < bestLoss THEN <<Best>> ELSE <<>>) \o RegularDue
    /\ UNCHANGED <<hp, epoch, batch, grads, applied, step,
                   half, adapters, logs, mixed, trainings>>

Written(files, c) == [d \in DOMAIN files \cup {c} |-> IF d = c THEN Tag ELSE files[d]]

(* model.save_pretrained, and processor.save_pretrained                    *)
SaveAdapter ==
    /\ saving # <<>> /\ stage \in {"saving", "finishing"} /\ ~ half
    /\ adapters' = Written(adapters, Head(saving)) /\ half' = TRUE
    /\ UNCHANGED <<loopVars, saving, logs, mixed, trainings>>

SaveTrainerState ==
    /\ half /\ stage \in {"saving", "finishing"}
    /\ logs' = Written(logs, Head(saving)) /\ half' = FALSE
    /\ mixed' = mixed \ {Head(saving)}
    /\ saving' = Tail(saving)
    /\ UNCHANGED <<loopVars, adapters, trainings>>

Finish == stage' = "finishing" /\ saving' = <<Final>>

SavedCapLate ==
    /\ stage = "saving" /\ saving = <<>>
    /\ IF step > hp.maxSteps THEN Finish ELSE stage' = "train" /\ UNCHANGED saving
    /\ UNCHANGED <<hp, epoch, batch, grads, applied, step, evalLoss, bestLoss, lowest,
                   half, adapters, logs, mixed, trainings>>

(* The end of an optimizer step: the cap is only looked at here.           *)
Saved ==
    /\ stage = "saving" /\ saving = <<>>
    /\ IF step >= hp.maxSteps THEN Finish ELSE stage' = "train" /\ UNCHANGED saving
    /\ UNCHANGED <<hp, epoch, batch, grads, applied, step, evalLoss, bestLoss, lowest,
                   half, adapters, logs, mixed, trainings>>

EpochEnds ==
    /\ stage = "train" /\ batch = hp.batches
    /\ IF epoch + 1 < hp.epochs
       THEN epoch' = epoch + 1 /\ batch' = 0 /\ UNCHANGED <<stage, saving>>
       ELSE Finish /\ UNCHANGED <<epoch, batch>>
    /\ UNCHANGED <<hp, grads, applied, step, evalLoss, bestLoss, lowest,
                   half, adapters, logs, mixed, trainings>>

Done ==
    /\ stage = "finishing" /\ saving = <<>>
    /\ stage' = "done"
    /\ UNCHANGED <<hp, epoch, batch, grads, applied, step, evalLoss, bestLoss, lowest,
                   diskVars, trainings>>

Kill ==
    /\ stage \notin {"off", "done"}
    /\ stage' = "off"
    /\ mixed' = IF half THEN mixed \cup {Head(saving)} ELSE mixed
    /\ UNCHANGED <<hp, epoch, batch, grads, applied, step, evalLoss, bestLoss, lowest,
                   saving, half, adapters, logs, trainings>>

TrainNext ==
    \/ StartTraining \/ Accumulate \/ OptimizerStep \/ NoValidation \/ Validate
    \/ SaveAdapter \/ SaveTrainerState \/ Saved \/ EpochEnds \/ Done \/ Kill

TrainSpec == TrainInit /\ [][TrainNext]_trainVars

(* ----------------------------- properties ------------------------------ *)

TrainTypeOK ==
    /\ hp \in Configs
    /\ stage \in {"off", "train", "stepped", "saving", "finishing", "done"}
    /\ {epoch, batch, grads, applied, step, trainings} \subseteq Nat
    /\ evalLoss \in Losses \cup {Infinity}
    /\ bestLoss \in 0 .. Infinity /\ lowest \in 0 .. Infinity
    /\ half \in BOOLEAN /\ (half => saving # <<>>)
    /\ DOMAIN logs \subseteq DOMAIN adapters

(* What a run that is done has put through backward() and never into a     *)
(* step: no optimizer.step() follows the loop, so the remainder of the last*)
(* or only epoch is lost unless the cap stopped the run before it, and     *)
(* every batch is where an epoch has too few for one step.                 *)
Unused ==
    IF StepsPerEpoch = 0 THEN hp.epochs * hp.batches
    ELSE IF hp.maxSteps <= StepsPerEpoch * hp.epochs THEN 0
    ELSE Remainder

(* No gradient is used twice or dropped while the run goes on, "one        *)
(* optimizer step = grad_accum batches" (finetune_lora.py:208) holds but   *)
(* for the remainder of the epochs before, which the first step of an epoch*)
(* takes along, and a run that is done has left out just the Unused ones:  *)
(* with a remainder it has not quite covered "the whole training set       *)
(* num_epochs times" (finetune_lora.py:209).                               *)
GradientLedger ==
    /\ applied + grads = epoch * hp.batches + batch
    /\ applied - step * hp.gradAccum =
         Remainder * (IF StepsPerEpoch = 0 THEN 0
                      ELSE IF batch >= hp.gradAccum THEN epoch ELSE Max({epoch - 1, 0}))
    /\ stage = "done" => grads = Unused

(* A run takes the total_steps that the scheduler is told, except that the *)
(* cap is looked at after a step: with a cap below 1 it still takes one.   *)
StepBudget ==
    LET bound == Min({StepsPerEpoch * hp.epochs, Max({hp.maxSteps, 1})})
    IN  /\ hp.maxSteps >= 1 => bound = TotalSteps
        /\ step <= bound
        /\ stage = "done" => step = bound

(* checkpoint-best holds the weights with the lowest validation loss of    *)
(* the latest run that validated in this folder, NaN aside, and a          *)
(* checkpoint's trainer state is that of its weights unless a kill came    *)
(* between the two.                                                        *)
BestIsLowest ==
    /\ lowest < Infinity /\ Best \notin Range(saving) =>
         adapters[Best].run = trainings /\ adapters[Best].loss = lowest
    /\ \A c \in DOMAIN adapters \ mixed :
         (half => c # Head(saving)) => c \in DOMAIN logs /\ adapters[c] = logs[c]

=============================================================================
