----------------------------- MODULE OneStepOff -----------------------------
(***************************************************************************)
(* The one-step-off-policy trainer: OneStepOffRayTrainer.fit and fit_step  *)
(* (verl/experimental/one_step_off_policy/ray_trainer.py) with the steps   *)
(* it takes over from SeparateRayPPOTrainer (separation/ray_trainer.py)    *)
(* and the checkpoints of RayPPOTrainer.                                   *)
(* The next batch is taken from the loader and generated while the present *)
(* one is trained; the weights go to the rollout replicas between the end  *)
(* of one generation and the start of the next.  A process may crash and   *)
(* be started again.  The loop of the synchronous trainer is TrainerLoop.  *)
(* Operators introduced by "Slip:" are mistakes the properties notice.     *)
(***************************************************************************)
EXTENDS Integers, Sequences

CONSTANTS
    EpochSteps,    \* len(train_dataloader)
    TotalEpochs,   \* trainer.total_epochs
    TotalSteps,    \* trainer.total_training_steps, None for what the epochs hold
    SaveFreq,      \* trainer.save_freq
    TestFreq,      \* trainer.test_freq
    CriticWarmup,  \* trainer.critic_warmup
    MaxStarts,     \* bound: times the job is started
    None

ASSUME StepsAssumption ==
    /\ EpochSteps \in Nat \ {0} /\ TotalEpochs \in Nat \ {0}
    /\ TotalSteps \in (Nat \ {0}) \cup {None} /\ MaxStarts \in Nat \ {0} /\ None \notin Nat
ASSUME FrequencyAssumption == SaveFreq \in Int /\ TestFreq \in Int /\ CriticWarmup \in Nat
(* None is no task of _async_gen_next_batch.                               *)
ASSUME NoneAssumption ==
    None \notin [batch : (0 .. EpochSteps) \cup {None}, version : Nat,
                 state : {"running", "done", "exhausted"}]

VARIABLES
    pc,              \* "start", "launch first", "await", "sync", "launch", "train",
                     \* "validate", "save", "post", "returned", "failed"
    global_steps,
    epoch, yielded,  \* of the iterator; batches the loader gave in this epoch
    future,          \* batch_data_future: the generation under way
    batch,           \* the batch of the step: what the future returned
    version,         \* updates of the actor
    served,          \* the version the replicas have; those of the model they are started
                     \* with are the actor's, too (vllm_async_server.py:134): version 0
    ckpt,            \* the latest checkpoint, None before the first
    validated,       \* the versions of the last validation, None before
    log,             \* what was trained: batch, and the versions of both sides
    starts

iterator == <<epoch, yielded>>
vars == <<pc, global_steps, iterator, future, batch, version, served, ckpt, validated, log, starts>>

TotalTrainingSteps == IF TotalSteps = None THEN EpochSteps * TotalEpochs ELSE TotalSteps
IsLastStep == global_steps >= TotalTrainingSteps
ActorLearns == CriticWarmup <= global_steps

Init ==
    /\ pc = "start" /\ starts = 0
    /\ global_steps = 0 /\ epoch = 0 /\ yielded = 0
    /\ future = None /\ batch = None
    /\ version = 0 /\ served = 0
    /\ ckpt = None /\ validated = None /\ log = << >>

(* fit begins: _load_checkpoint, _fit_update_weights, the next step's number.*)
(* In the warmup nothing is handed over: new replicas keep what they have.  *)
Start ==
    /\ pc = "start" /\ starts < MaxStarts
    /\ starts' = starts + 1 /\ pc' = "launch first"
    /\ LET from == IF ckpt = None THEN [step |-> 0, version |-> 0, yielded |-> 0, log |-> << >>]
                   ELSE ckpt
       IN  /\ global_steps' = from.step + 1 /\ version' = from.version /\ log' = from.log
           /\ yielded' = IF from.step % EpochSteps = 0 THEN 0 ELSE from.yielded
           /\ served' = IF CriticWarmup <= from.step THEN from.version ELSE 0
    /\ epoch' = 0 /\ future' = None /\ batch' = None
    /\ UNCHANGED <<ckpt, validated>>

Generation(b) == [batch |-> b, version |-> served, state |-> "running"]

(* create_task(_async_gen_next_batch), up to its first await: next() of the*)
(* continuous iterator, and the request for the batch.                     *)
LaunchNext ==
    IF yielded < EpochSteps /\ epoch < TotalEpochs
    THEN /\ yielded' = yielded + 1 /\ UNCHANGED epoch
         /\ future' = Generation(yielded + 1)
    ELSE IF epoch + 1 < TotalEpochs
    THEN /\ epoch' = epoch + 1 /\ yielded' = 1
         /\ future' = Generation(1)
    ELSE /\ epoch' = TotalEpochs /\ UNCHANGED yielded
         /\ future' = [Generation(None) EXCEPT !.state = "exhausted"]

LaunchFirst ==
    /\ pc = "launch first" /\ pc' = "await"
    /\ LaunchNext
    /\ UNCHANGED <<global_steps, batch, version, served, ckpt, validated, log, starts>>

FinishGeneration ==
    /\ future # None /\ future.state = "running"
    /\ future' = [future EXCEPT !.state = "done"]
    /\ UNCHANGED <<pc, global_steps, iterator, batch, version, served, ckpt, validated, log, starts>>

AwaitBatch ==
    /\ pc = "await" /\ future.state = "done"
    /\ batch' = future
    /\ pc' = "sync"
    /\ UNCHANGED <<global_steps, iterator, future, version, served, ckpt, validated, log, starts>>

(* The task returned None, which cannot be taken apart.                    *)
AwaitNothing ==
    /\ pc = "await" /\ future.state = "exhausted"
    /\ pc' = "failed"
    /\ UNCHANGED <<global_steps, iterator, future, batch, version, served, ckpt, validated, log, starts>>

(* _fit_update_weights                                                     *)
(* Slip: the weights are handed over only to replicas that still have the first. *)
SyncWeightsOnce ==
    /\ pc = "sync" /\ pc' = "launch"
    /\ served' = IF ActorLearns /\ served = 0 THEN version ELSE served
    /\ UNCHANGED <<global_steps, iterator, future, batch, version, ckpt, validated, log, starts>>

SyncWeights ==
    /\ pc = "sync" /\ pc' = "launch"
    /\ served' = IF ActorLearns THEN version ELSE served
    /\ UNCHANGED <<global_steps, iterator, future, batch, version, ckpt, validated, log, starts>>

(* Slip: the step before the last one counts as the last. *)
LaunchTooShort ==
    /\ pc = "launch" /\ pc' = "train"
    /\ IF global_steps + 1 >= TotalTrainingSteps
       THEN future' = None /\ UNCHANGED iterator ELSE LaunchNext
    /\ UNCHANGED <<global_steps, batch, version, served, ckpt, validated, log, starts>>

(* Slip: a batch is launched in the last step, too. *)
LaunchAlways ==
    /\ pc = "launch" /\ pc' = "train"
    /\ LaunchNext
    /\ UNCHANGED <<global_steps, batch, version, served, ckpt, validated, log, starts>>

Launch ==
    /\ pc = "launch" /\ pc' = "train"
    /\ IF IsLastStep THEN future' = None /\ UNCHANGED iterator ELSE LaunchNext
    /\ UNCHANGED <<global_steps, batch, version, served, ckpt, validated, log, starts>>

(* Slip: the weights are handed over as soon as they are trained. *)
TrainAndSync ==
    /\ pc = "train" /\ pc' = "validate"
    /\ version' = IF ActorLearns THEN version + 1 ELSE version
    /\ served' = IF ActorLearns THEN version' ELSE served
    /\ log' = Append(log, [batch |-> batch.batch, generated |-> batch.version, trained |-> version])
    /\ UNCHANGED <<global_steps, iterator, future, batch, ckpt, validated, starts>>

(* Slip: the batch that is trained is the one that is being generated. *)
TrainNext ==
    /\ pc = "train" /\ pc' = "validate"
    /\ version' = IF ActorLearns THEN version + 1 ELSE version
    /\ LET b == IF future = None THEN batch ELSE future
       IN  log' = Append(log, [batch |-> b.batch, generated |-> b.version, trained |-> version])
    /\ UNCHANGED <<global_steps, iterator, future, batch, served, ckpt, validated, starts>>

(* From the rewards to _fit_update_actor                                   *)
Train ==
    /\ pc = "train" /\ pc' = "validate"
    /\ version' = IF ActorLearns THEN version + 1 ELSE version
    /\ log' = Append(log, [batch |-> batch.batch, generated |-> batch.version, trained |-> version])
    /\ UNCHANGED <<global_steps, iterator, future, batch, served, ckpt, validated, starts>>

TestDue == TestFreq > 0 /\ (IsLastStep \/ global_steps % TestFreq = 0)

Validate ==
    /\ pc = "validate" /\ pc' = "save"
    /\ validated' = IF TestDue THEN [trained |-> version, served |-> served] ELSE validated
    /\ UNCHANGED <<global_steps, iterator, future, batch, version, served, ckpt, log, starts>>

SaveDue == SaveFreq > 0 /\ (IsLastStep \/ global_steps % SaveFreq = 0)

(* The loader's state is that of the iterator, which has already given the *)
(* batch that is being generated.  The plan may expire at any step.        *)
SaveCheckpoint ==
    /\ pc = "save" /\ pc' = "post"
    /\ SaveFreq > 0
    /\ ckpt' = [step |-> global_steps, version |-> version, yielded |-> yielded, log |-> log]
    /\ UNCHANGED <<global_steps, iterator, future, batch, version, served, validated, log, starts>>

DontSave ==
    /\ pc = "save" /\ pc' = "post"
    /\ ~ SaveDue
    /\ UNCHANGED <<global_steps, iterator, future, batch, version, served, ckpt, validated, log, starts>>

Postprocess ==
    /\ pc = "post"
    /\ global_steps' = global_steps + 1
    /\ pc' = IF IsLastStep \/ future = None THEN "returned" ELSE "await"
    /\ UNCHANGED <<iterator, future, batch, version, served, ckpt, validated, log, starts>>

(* The process is gone, and what it had in memory.                         *)
Crash ==
    /\ pc \notin {"start", "returned"} /\ starts < MaxStarts
    /\ pc' = "start" /\ future' = None /\ batch' = None
    /\ UNCHANGED <<global_steps, iterator, version, served, ckpt, validated, log, starts>>

FitStep ==
    \/ AwaitBatch \/ AwaitNothing \/ SyncWeights \/ Launch \/ Train \/ Validate
    \/ SaveCheckpoint \/ DontSave \/ Postprocess

Next == Start \/ LaunchFirst \/ FinishGeneration \/ FitStep \/ Crash

Spec == Init /\ [][Next]_vars
-----------------------------------------------------------------------------
(* Types; the log is one step behind the counter, and a job that returned  *)
(* has left no generation under way.                                       *)
TypeOK ==
    /\ pc \in {"start", "launch first", "await", "sync", "launch", "train", "validate",
               "save", "post", "returned", "failed"}
    /\ global_steps \in Nat /\ version \in Nat /\ served \in Nat
    /\ epoch \in 0 .. TotalEpochs /\ yielded \in 0 .. EpochSteps
    /\ future # None => future.state \in {"running", "done", "exhausted"}
    /\ pc # "start" => Len(log) \in {global_steps - 1, global_steps}
    /\ pc = "returned" => future = None

(* Generation and training stay one step apart: a batch is trained by an   *)
(* actor that has had at most one update the batch did not see.            *)
OneStepApart ==
    \A s \in DOMAIN log : log[s].trained - log[s].generated \in {0, 1}

(* The weights of the replicas change only while they generate nothing for *)
(* the training, so that no batch mixes two versions.                      *)
NoGenerationAcrossSync ==
    [][served' # served => future = None \/ future.state # "running"]_vars

(* The validation of a step sees the actor before that step's update, and  *)
(* never an older one.                                                     *)
ValidationIsOneBehind ==
    validated # None => validated.trained - validated.served \in {0, 1}

Following(b) == (b % EpochSteps) + 1

(* Over one restart: the steps take the batches in order, none twice, and  *)
(* the restart loses no more than the one that was prefetched.  (After that*)
(* the loader is ahead of the step numbers, and a second restart may take  *)
(* the middle of an epoch for its end.)                                    *)
AtMostOneBatchIsLost ==
    starts <= 2 =>
    \A s \in 1 .. Len(log) - 1 :
        log[s + 1].batch \in {Following(log[s].batch), Following(Following(log[s].batch))}

(* A job that returns has trained to the total, however often it was       *)
(* started and whatever the iterator held.                                 *)
TrainsToTheTotal == pc = "returned" => Len(log) >= TotalTrainingSteps
(* Neither a batch nor a validation sees weights further behind than one    *)
(* update, over any number of restarts and for any warmup of the critic: no *)
(* weights are handed over in it, but the actor is not updated either, so   *)
(* that the replicas' first weights are still its own (also after a load).  *)
StaysOneStepBehind == OneStepApart /\ ValidationIsOneBehind
=============================================================================
