----------------------------- MODULE TrainerLoop -----------------------------
(***************************************************************************)
(* The outer loop of the synchronous trainer: RayPPOTrainer.fit,           *)
(* _save_checkpoint and _load_checkpoint (verl/trainer/ppo/ray_trainer.py),*)
(* with the recurrent path that may skip the rest of an iteration.         *)
(* A step takes one batch of the stateful dataloader, generates, trains    *)
(* the actor, saves, and hands the weights to the rollout replicas, which  *)
(* sleep while the actor trains.  The process may crash anywhere, and the  *)
(* job may be submitted again after it ended.  What one step does to its   *)
(* batch is RecurrentStep; the files of a checkpoint are in Checkpointing. *)
(* A validation leaves the replicas as it found them, awake.               *)
(* Operators introduced by "Slip:" are mistakes the properties notice.     *)
(***************************************************************************)
EXTENDS Integers, Sequences, FiniteSets

CONSTANTS
    EpochSteps,    \* len(train_dataloader)
    TotalEpochs,   \* trainer.total_epochs
    TotalSteps,    \* trainer.total_training_steps, None for what the epochs hold
    SaveFreq,      \* trainer.save_freq
    TestFreq,      \* trainer.test_freq
    CriticWarmup,  \* trainer.critic_warmup
    FilterGroups,  \* a step may be skipped by the filter of the recurrent path
    MaxStarts,     \* bound: times the job is started
    None

StepsAssumption ==
    /\ EpochSteps \in Nat \ {0} /\ TotalEpochs \in Nat \ {0}
    /\ TotalSteps \in Nat \cup {None} /\ MaxStarts \in Nat \ {0}
FrequencyAssumption ==
    SaveFreq \in Int /\ TestFreq \in Int /\ CriticWarmup \in Nat /\ FilterGroups \in BOOLEAN
(* None is no checkpoint.                                                  *)
NoneAssumption ==
    None \notin [step : Nat, version : Nat, yielded : Nat,
                 log : Seq([batch : Nat \X Nat, outcome : {"skip", "warmup", "train"}])]

VARIABLES
    pc,                  \* "start", "next", "generate", "reward", "save",
                         \* "refresh", "validate", "returned", "ended"
    global_steps,
    epoch, yielded,      \* of the loop; batches the loader gave in this epoch
    version,             \* updates of the actor
    awake, served,       \* the replicas, and the version they serve
    ckpt,                \* the latest checkpoint, None before the first
    validated,           \* the last step that was validated
    log,                 \* what became of each step: batch and outcome
    starts

loop     == <<global_steps, epoch, yielded>>
replicas == <<awake, served>>
vars     == <<pc, loop, version, replicas, ckpt, validated, log, starts>>

TotalTrainingSteps == IF TotalSteps = None THEN EpochSteps * TotalEpochs ELSE TotalSteps
IsLastStep == global_steps >= TotalTrainingSteps

Init ==
    /\ pc = "start" /\ starts = 0
    /\ global_steps = 0 /\ epoch = 0 /\ yielded = 0
    /\ version = 0 /\ awake = FALSE /\ served = 0
    /\ ckpt = None /\ validated = 0 /\ log = << >>

UpdateWeights == awake' = TRUE /\ served' = version

(* The loader's state is restored, except at the end of an epoch, where it *)
(* was saved exhausted.                                                    *)
(* Slip: it is restored there, too. *)
RestoredPositionAlways == ckpt.yielded

RestoredPosition ==
    IF ckpt.step % EpochSteps = 0 THEN 0 ELSE ckpt.yielded

(* fit begins: _load_checkpoint, update_weights, and the next step's number*)
Start ==
    /\ pc = "start" /\ starts < MaxStarts
    /\ starts' = starts + 1 /\ pc' = "next"
    /\ awake' = TRUE
    /\ IF ckpt = None
       THEN /\ global_steps' = 1 /\ epoch' = 0 /\ yielded' = 0
            /\ version' = 0 /\ served' = 0 /\ log' = << >>
       ELSE /\ global_steps' = ckpt.step + 1
            /\ epoch' = ckpt.step \div EpochSteps
            /\ yielded' = RestoredPosition
            /\ version' = ckpt.version /\ served' = ckpt.version
            /\ log' = ckpt.log
    /\ UNCHANGED <<ckpt, validated>>

NextBatch ==
    /\ pc = "next" /\ epoch < TotalEpochs /\ yielded < EpochSteps
    /\ yielded' = yielded + 1
    /\ pc' = "generate"
    /\ UNCHANGED <<global_steps, epoch, version, replicas, ckpt, validated, log, starts>>

NextEpoch ==
    /\ pc = "next" /\ epoch < TotalEpochs /\ yielded = EpochSteps
    /\ epoch' = epoch + 1 /\ yielded' = 0
    /\ UNCHANGED <<pc, global_steps, version, replicas, ckpt, validated, log, starts>>

RunOut ==
    /\ pc = "next" /\ epoch = TotalEpochs
    /\ pc' = "ended"
    /\ UNCHANGED <<loop, version, replicas, ckpt, validated, log, starts>>

Generate ==
    /\ pc = "generate"
    /\ awake' = FALSE
    /\ pc' = "reward"
    /\ UNCHANGED <<loop, version, served, ckpt, validated, log, starts>>

Logged(outcome) == Append(log, [batch |-> <<epoch, yielded>>, outcome |-> outcome])

(* Every reward of the batch is equal within its group: the step counts,   *)
(* and the replicas are woken, but nothing is trained, saved or validated. *)
(* Slip: the replicas are left asleep. *)
SkipStepAsleep ==
    /\ pc = "reward" /\ FilterGroups
    /\ log' = Logged("skip")
    /\ global_steps' = global_steps + 1
    /\ pc' = "next"
    /\ UNCHANGED <<epoch, yielded, version, replicas, ckpt, validated, starts>>

SkipStep ==
    /\ pc = "reward" /\ FilterGroups
    /\ UpdateWeights
    /\ log' = Logged("skip")
    /\ global_steps' = global_steps + 1
    /\ pc' = "next"
    /\ UNCHANGED <<epoch, yielded, version, ckpt, validated, starts>>

(* Only the critic learns during its warmup.                               *)
WarmUp ==
    /\ pc = "reward" /\ CriticWarmup > global_steps
    /\ log' = Logged("warmup")
    /\ UpdateWeights
    /\ pc' = "validate"
    /\ UNCHANGED <<loop, version, ckpt, validated, starts>>

UpdateActor ==
    /\ pc = "reward" /\ CriticWarmup <= global_steps
    /\ log' = Logged("train")
    /\ version' = version + 1
    /\ pc' = "save"
    /\ UNCHANGED <<loop, replicas, ckpt, validated, starts>>

(* Slip: the last step is not saved on its own account. *)
SaveDueByFrequency == SaveFreq > 0 /\ global_steps % SaveFreq = 0

(* Slip: the number of the next step decides. *)
SaveDueNext == SaveFreq > 0 /\ (IsLastStep \/ (global_steps + 1) % SaveFreq = 0)

SaveDue == SaveFreq > 0 /\ (IsLastStep \/ global_steps % SaveFreq = 0)

(* Slip: the number of the next step is saved. *)
SaveCheckpointAhead ==
    /\ pc = "save" /\ pc' = "refresh"
    /\ SaveFreq > 0
    /\ ckpt' = [step |-> global_steps + 1, version |-> version, yielded |-> yielded, log |-> log]
    /\ UNCHANGED <<loop, version, replicas, validated, log, starts>>

(* Saving is possible at every step: the training plan may be about to     *)
(* expire (should_save_ckpt_esi).                                          *)
SaveCheckpoint ==
    /\ pc = "save" /\ pc' = "refresh"
    /\ SaveFreq > 0
    /\ ckpt' = [step |-> global_steps, version |-> version, yielded |-> yielded, log |-> log]
    /\ UNCHANGED <<loop, version, replicas, validated, log, starts>>

DontSave ==
    /\ pc = "save" /\ pc' = "refresh"
    /\ ~ SaveDue
    /\ UNCHANGED <<loop, version, replicas, ckpt, validated, log, starts>>

Refresh ==
    /\ pc = "refresh" /\ pc' = "validate"
    /\ UpdateWeights
    /\ UNCHANGED <<loop, version, ckpt, validated, log, starts>>

TestDue == TestFreq > 0 /\ (IsLastStep \/ global_steps % TestFreq = 0)

EndStep ==
    /\ pc = "validate"
    /\ validated' = IF TestDue THEN global_steps ELSE validated
    /\ global_steps' = global_steps + 1
    /\ pc' = IF IsLastStep THEN "returned" ELSE "next"
    /\ UNCHANGED <<epoch, yielded, version, replicas, ckpt, log, starts>>

(* The process is gone, and what it had in memory; or the job that ended   *)
(* is submitted once more.                                                 *)
Crash ==
    /\ pc \notin {"start", "returned", "ended"} /\ starts < MaxStarts
    /\ pc' = "start" /\ awake' = FALSE
    /\ UNCHANGED <<loop, version, served, ckpt, validated, log, starts>>

SubmitAgain ==
    /\ pc \in {"returned", "ended"} /\ starts < MaxStarts
    /\ pc' = "start" /\ awake' = FALSE
    /\ UNCHANGED <<loop, version, served, ckpt, validated, log, starts>>

Next ==
    \/ Start \/ NextBatch \/ NextEpoch \/ RunOut \/ Generate
    \/ SkipStep \/ WarmUp \/ UpdateActor
    \/ SaveCheckpoint \/ DontSave \/ Refresh \/ EndStep
    \/ Crash \/ SubmitAgain

Spec == Init /\ [][Next]_vars
-----------------------------------------------------------------------------
(* Types, and the progress bar's view of the steps: the loop is never more *)
(* than one step ahead of the log.                                         *)
TypeOK ==
    /\ pc \in {"start", "next", "generate", "reward", "save", "refresh", "validate",
               "returned", "ended"}
    /\ epoch \in 0 .. TotalEpochs /\ yielded \in 0 .. EpochSteps
    /\ awake \in BOOLEAN /\ served \in Nat /\ version \in Nat /\ validated \in Nat
    /\ global_steps \in {Len(log), Len(log) + 1}

(* Whenever the replicas generate, for training or for validation, they are*)
(* awake and serve the actor's latest weights, whichever way the step      *)
(* before went: trained, in warmup, skipped, or lost with the process.     *)
GeneratesWithCurrentWeights ==
    pc \in {"generate", "validate"} => awake /\ served = version

(* Step s takes batch s, across epochs, crashes and restarts: no batch is  *)
(* trained twice on the weights that survive, and none is left out.        *)
EveryBatchInTurn ==
    \A s \in DOMAIN log :
        log[s].batch = <<(s - 1) \div EpochSteps, ((s - 1) % EpochSteps) + 1>>

Outcomes(history, outcome) == {s \in DOMAIN history : history[s].outcome = outcome}

(* The weights are those of the steps in the log, and a checkpoint puts    *)
(* together a step number, weights and a history that belong together.     *)
WeightsMatchTheLog ==
    /\ pc # "start" => version = Cardinality(Outcomes(log, "train"))
    /\ ckpt # None => /\ ckpt.step = Len(ckpt.log)
                      /\ ckpt.version = Cardinality(Outcomes(ckpt.log, "train"))

(* A crash loses no step that trained the actor and whose turn it was to be*)
(* saved: what is not saved yet lies after the last multiple of save_freq  *)
(* that was trained.                                                       *)
DueStepsAreSaved ==
    pc \notin {"start", "save"} /\ SaveFreq > 0 =>
        \A s \in Outcomes(log, "train") :
            s % SaveFreq = 0 => ckpt # None /\ ckpt.step >= s

(* A run that returns has saved and validated the step it returns from.    *)
ReturnsSavedAndValidated ==
    pc = "returned" =>
        /\ TestFreq > 0 => validated = Len(log)
        /\ SaveFreq > 0 /\ log[Len(log)].outcome = "train" =>
               ckpt # None /\ ckpt.step = Len(log)
=============================================================================
