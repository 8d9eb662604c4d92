----------------------------- MODULE MCTrainers -----------------------------
(***************************************************************************)
(* A job runs one of the trainers, and what they have in common is asked   *)
(* of each: that generation has the weights it should have, and that a     *)
(* restart goes on where the checkpoint was taken.  The checkpoints of the *)
(* fully asynchronous trainer are the fourth model, FullyAsync being its   *)
(* loop.  A behaviour is one of the chosen model; the others stay in their *)
(* initial states.                                                         *)
(***************************************************************************)
EXTENDS OneStepOff, FiniteSets

CONSTANTS
    l_EpochSteps, l_TotalEpochs, l_TotalSteps, l_CriticWarmup, FilterGroups,
                                               \* of TrainerLoop, where they differ
    q_EpochSteps, q_TotalEpochs, q_SaveFreq, q_CriticWarmup,
                                               \* of TransferQueueTrainer
    TriggerSteps, KeepMax, MaxVersion, MaxCrashes
                                               \* of Checkpointing

VARIABLES
    trainer,  \* the model that runs
    l_pc, l_global_steps, l_epoch, l_yielded, l_version, l_awake, l_served, l_ckpt,
    l_validated, l_log, l_starts,
    q_pc, q_global_steps, q_epoch, q_yielded, q_version, q_awake, q_served, q_ckpt,
    q_log, q_starts,
    c_phase, c_updates, c_rolled, c_localStep, c_version, c_lastCkpt, c_kept, c_actor,
    c_data, c_latest, c_crashes

Loop == INSTANCE TrainerLoop WITH
    EpochSteps <- l_EpochSteps, TotalEpochs <- l_TotalEpochs, TotalSteps <- l_TotalSteps,
    CriticWarmup <- l_CriticWarmup,
    pc <- l_pc, global_steps <- l_global_steps, epoch <- l_epoch, yielded <- l_yielded,
    version <- l_version, awake <- l_awake, served <- l_served, ckpt <- l_ckpt,
    validated <- l_validated, log <- l_log, starts <- l_starts

Queue == INSTANCE TransferQueueTrainer WITH
    EpochSteps <- q_EpochSteps, TotalEpochs <- q_TotalEpochs, SaveFreq <- q_SaveFreq,
    CriticWarmup <- q_CriticWarmup,
    pc <- q_pc, global_steps <- q_global_steps, epoch <- q_epoch, yielded <- q_yielded,
    version <- q_version, awake <- q_awake, served <- q_served, ckpt <- q_ckpt,
    log <- q_log, starts <- q_starts

Async == INSTANCE Checkpointing WITH
    phase <- c_phase, updates <- c_updates, rolled <- c_rolled, localStep <- c_localStep,
    version <- c_version, lastCkpt <- c_lastCkpt, kept <- c_kept, actor <- c_actor,
    data <- c_data, latest <- c_latest, crashes <- c_crashes

ASSUME InstancesAssumption ==
    /\ Loop!StepsAssumption /\ Loop!FrequencyAssumption /\ Loop!NoneAssumption
    /\ Queue!StepsAssumption
    /\ Async!TriggerAssumption /\ Async!SavingAssumption /\ Async!BoundsAssumption

loopVars  == <<l_pc, l_global_steps, l_epoch, l_yielded, l_version, l_awake, l_served, l_ckpt,
               l_validated, l_log, l_starts>>
queueVars == <<q_pc, q_global_steps, q_epoch, q_yielded, q_version, q_awake, q_served, q_ckpt,
               q_log, q_starts>>
asyncVars == <<c_phase, c_updates, c_rolled, c_localStep, c_version, c_lastCkpt, c_kept, c_actor,
               c_data, c_latest, c_crashes>>
allVars   == <<trainer, vars, loopVars, queueVars, asyncVars>>

InitOfAll ==
    /\ trainer \in {"one step off", "colocated", "transfer queue", "fully async"}
    /\ Init /\ Loop!Init /\ Queue!Init /\ Async!Init

NextOfOne ==
    /\ UNCHANGED trainer
    /\ \/ /\ trainer = "one step off" /\ Next
          /\ UNCHANGED <<loopVars, queueVars, asyncVars>>
       \/ /\ trainer = "colocated" /\ Loop!Next
          /\ UNCHANGED <<vars, queueVars, asyncVars>>
       \/ /\ trainer = "transfer queue" /\ Queue!Next
          /\ UNCHANGED <<vars, loopVars, asyncVars>>
       \/ /\ trainer = "fully async" /\ Async!Next
          /\ UNCHANGED <<vars, loopVars, queueVars>>

SpecOfAll == InitOfAll /\ [][NextOfOne]_allVars
-----------------------------------------------------------------------------
(* Types of all the models; the logs keep step with the counters.           *)
TypesOK == TypeOK /\ Loop!TypeOK /\ Queue!TypeOK /\ Async!TypeOK

(* Whenever replicas generate, for training or for validation, they are     *)
(* awake and serve the actor's latest weights, whichever way the step       *)
(* before went: trained, in warmup, skipped, or lost with the process.      *)
GeneratesWithCurrentWeights == Loop!GeneratesWithCurrentWeights /\ Queue!GeneratesWithCurrentWeights

(* RayPPOTrainer: step s takes batch s, across epochs, crashes and restarts.*)
EveryBatchInTurn == Loop!EveryBatchInTurn

(* RayPPOTrainer: a checkpoint puts together a step number, weights and a   *)
(* history that belong together, and a restart restores them together.      *)
WeightsMatchTheLog == Loop!WeightsMatchTheLog

(* RayPPOTrainer: a crash loses no step whose turn it was to be saved, even *)
(* if the filter skips steps around it.                                     *)
DueStepsAreSaved == Loop!DueStepsAreSaved

(* RayPPOTrainer: a job that returns has saved and validated the step it    *)
(* returns from.                                                            *)
ReturnsSavedAndValidated == Loop!ReturnsSavedAndValidated

(* Trainer with TransferQueue: over a restart no batch is trained twice.    *)
NoBatchTwice == Queue!NoBatchTwice

(* Fully asynchronous trainer: whatever moment a crash comes at, what the   *)
(* tracker names can be loaded.                                             *)
TrackerIsLoadable == Async!TrackerIsLoadable

(* Fully asynchronous trainer: between two steps fewer than save_freq       *)
(* versions are at risk, also after any number of crashes.                  *)
FewVersionsAtRisk == Async!FewVersionsAtRisk

(* Fully asynchronous trainer: the rollouter lags behind by the local steps *)
(* of the running cycle, and by nothing after a restart.                    *)
RollouterLagsByTheCycle == Async!RollouterLagsByTheCycle

(* Fully asynchronous trainer: a run that ends between two cycles leaves    *)
(* its last weights on disk.                                                *)
WholeCyclesAreSaved == Async!WholeCyclesAreSaved

(* Every trainer generates with the weights it should have, takes the       *)
(* batches in turn and goes on there after a crash.                         *)
TrainersGoOnInTurn ==
    /\ GeneratesWithCurrentWeights
    /\ EveryBatchInTurn /\ NoBatchTwice /\ AtMostOneBatchIsLost /\ TrainsToTheTotal

(* What is on disk belongs together and can be loaded, whatever moment a    *)
(* crash comes at, and little is lost.                                      *)
CheckpointsFitTogether ==
    /\ WeightsMatchTheLog /\ DueStepsAreSaved /\ ReturnsSavedAndValidated
    /\ TrackerIsLoadable /\ FewVersionsAtRisk /\ RollouterLagsByTheCycle /\ WholeCyclesAreSaved
=============================================================================
