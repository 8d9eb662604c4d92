------------------------ MODULE TransferQueueTrainer ------------------------
(***************************************************************************)
(* The outer loop of the trainer with TransferQueue: PPOTrainer.fit, step, *)
(* _save_checkpoint and _load_checkpoint (verl/trainer/main_ppo_sync.py).  *)
(* Unlike RayPPOTrainer (TrainerLoop) it saves during the warmup of the    *)
(* critic, too, and restores the loader wherever the checkpoint was taken. *)
(* How a batch is collected is ReplayBuffer.                               *)
(* Operators introduced by "Slip:" are mistakes the properties notice.     *)
(***************************************************************************)
EXTENDS Integers, Sequences, FiniteSets

CONSTANTS
    EpochSteps,    \* len(train_dataloader)
    TotalEpochs,   \* trainer.total_epochs
    SaveFreq,      \* trainer.save_freq
    CriticWarmup,  \* trainer.critic_warmup
    MaxStarts,     \* bound: times the job is started
    None

StepsAssumption ==
    /\ EpochSteps \in Nat \ {0} /\ TotalEpochs \in Nat \ {0} /\ MaxStarts \in Nat \ {0}
    /\ SaveFreq \in Int /\ CriticWarmup \in Nat

VARIABLES
    pc,              \* "start", "next", "rollout", "update", "save", "refresh",
                     \* "end step", "returned", "ended"
    global_steps,
    epoch, yielded,  \* of the loop; batches the loader gave in this epoch
    version,         \* updates of the actor
    awake, served,   \* the replicas, and the version they serve
    ckpt,            \* the latest checkpoint, None before the first
    log,             \* the steps taken: batch, and whether the actor learned
    starts

replicas == <<awake, served>>
vars == <<pc, global_steps, epoch, yielded, version, replicas, ckpt, log, starts>>

TotalTrainingSteps == EpochSteps * TotalEpochs
IsLastStep == global_steps >= TotalTrainingSteps

Init ==
    /\ pc = "start" /\ starts = 0
    /\ global_steps = 0 /\ epoch = 0 /\ yielded = 0
    /\ version = 0 /\ awake = FALSE /\ served = 0
    /\ ckpt = None /\ log = << >>

(* _load_checkpoint, update_weights, and the next step's number. A loader  *)
(* saved at the end of an epoch is exhausted.                              *)
Start ==
    /\ pc = "start" /\ starts < MaxStarts
    /\ starts' = starts + 1 /\ pc' = "next"
    /\ LET from == IF ckpt = None THEN [step |-> 0, version |-> 0, yielded |-> 0, log |-> << >>]
                   ELSE ckpt
       IN  /\ global_steps' = from.step + 1 /\ epoch' = from.step \div EpochSteps
           /\ yielded' = from.yielded
           /\ version' = from.version /\ served' = from.version /\ log' = from.log
    /\ awake' = TRUE
    /\ UNCHANGED ckpt

NextBatch ==
    /\ pc = "next" /\ epoch < TotalEpochs /\ yielded < EpochSteps
    /\ yielded' = yielded + 1 /\ pc' = "rollout"
    /\ UNCHANGED <<global_steps, epoch, version, replicas, ckpt, log, starts>>

NextEpoch ==
    /\ pc = "next" /\ epoch < TotalEpochs /\ yielded = EpochSteps
    /\ epoch' = epoch + 1 /\ yielded' = 0
    /\ UNCHANGED <<pc, global_steps, version, replicas, ckpt, log, starts>>

RunOut ==
    /\ pc = "next" /\ epoch = TotalEpochs
    /\ pc' = "ended"
    /\ UNCHANGED <<global_steps, epoch, yielded, version, replicas, ckpt, log, starts>>

(* step, 1 and 2: the batch is sampled and the replicas put to sleep       *)
Rollout ==
    /\ pc = "rollout" /\ pc' = "update"
    /\ awake' = FALSE
    /\ UNCHANGED <<global_steps, epoch, yielded, version, served, ckpt, log, starts>>

(* step, 3 to 10                                                           *)
Update ==
    /\ pc = "update" /\ pc' = "save"
    /\ LET learns == CriticWarmup <= global_steps
       IN  /\ version' = IF learns THEN version + 1 ELSE version
           /\ log' = Append(log, [batch |-> <<epoch, yielded>>, learns |-> learns])
    /\ UNCHANGED <<global_steps, epoch, yielded, replicas, ckpt, starts>>

SaveDue == SaveFreq > 0 /\ (IsLastStep \/ global_steps % SaveFreq = 0)

(* Slip: the loader is saved as it was before the step. *)
SaveBehind ==
    /\ pc = "save" /\ pc' = "refresh"
    /\ ckpt' = IF SaveDue THEN [step |-> global_steps, version |-> version,
                                yielded |-> yielded - 1, log |-> log]
               ELSE ckpt
    /\ UNCHANGED <<global_steps, epoch, yielded, version, replicas, log, starts>>

Save ==
    /\ pc = "save" /\ pc' = "refresh"
    /\ ckpt' = IF SaveDue THEN [step |-> global_steps, version |-> version,
                                yielded |-> yielded, log |-> log]
               ELSE ckpt
    /\ UNCHANGED <<global_steps, epoch, yielded, version, replicas, log, starts>>

Refresh ==
    /\ pc = "refresh" /\ pc' = "end step"
    /\ awake' = TRUE /\ served' = version
    /\ UNCHANGED <<global_steps, epoch, yielded, version, ckpt, log, starts>>

EndStep ==
    /\ pc = "end step"
    /\ global_steps' = global_steps + 1
    /\ pc' = IF IsLastStep THEN "returned" ELSE "next"
    /\ UNCHANGED <<epoch, yielded, version, replicas, ckpt, log, starts>>

(* The process is gone, and what it had in memory.                         *)
Crash ==
    /\ pc \notin {"start", "returned", "ended"} /\ starts < MaxStarts
    /\ pc' = "start" /\ awake' = FALSE
    /\ UNCHANGED <<global_steps, epoch, yielded, version, served, ckpt, log, starts>>

Next ==
    \/ Start \/ NextBatch \/ NextEpoch \/ RunOut \/ Rollout \/ Update \/ Save \/ Refresh
    \/ EndStep \/ Crash

Spec == Init /\ [][Next]_vars
-----------------------------------------------------------------------------
(* Types, and weights that are those of the steps in the log.              *)
TypeOK ==
    /\ pc \in {"start", "next", "rollout", "update", "save", "refresh", "end step",
               "returned", "ended"}
    /\ epoch \in 0 .. TotalEpochs /\ yielded \in 0 .. EpochSteps
    /\ awake \in BOOLEAN /\ served \in Nat
    /\ global_steps \in {Len(log), Len(log) + 1}
    /\ pc # "start" => version = Cardinality({s \in DOMAIN log : log[s].learns})

(* Whatever the last step did to the actor, and wherever the process was   *)
(* lost: what generates is awake and has the actor's weights.              *)
GeneratesWithCurrentWeights ==
    pc \in {"rollout", "end step"} => awake /\ served = version

Position(s) == log[s].batch[1] * EpochSteps + log[s].batch[2]

(* Over a crash and a restart no batch is trained twice on weights that    *)
(* survive, and none is left out but a whole epoch.  (After a lost epoch   *)
(* the step's number lags behind the loader, and a second restart counts   *)
(* the epochs again from that number.)                                     *)
NoBatchTwice ==
    starts <= 2 =>
        \A s \in 1 .. Len(log) - 1 :
            Position(s + 1) > Position(s) /\ (Position(s + 1) - Position(s) - 1) % EpochSteps = 0

(* What the other trainer's comment promises of a checkpoint at the end of *)
(* an epoch (ray_trainer.py:1278-1283): the next epoch is iterated from its*)
(* beginning.                                                              *)
EveryEpochIsTrained ==
    \A s \in DOMAIN log : Position(s) = s
=============================================================================
