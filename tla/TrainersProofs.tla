--------------------------- MODULE TrainersProofs ---------------------------
(***************************************************************************)
(* Theorems about the loops of the trainers for any numbers of steps,      *)
(* epochs, crashes and restarts: OneStepOff, then TrainerLoop (definitions *)
(* l_...), TransferQueueTrainer (q_...), Checkpointing (c_...) and         *)
(* MCTrainers, which runs one of the four.                                 *)
(***************************************************************************)
EXTENDS MCTrainers, SequenceTheorems, FiniteSetTheorems, TLAPS

Batches == (0 .. EpochSteps) \cup {None}
Generations == [batch : Batches, version : Nat, state : {"running", "done", "exhausted"}]
Entries == [batch : Batches, generated : Nat, trained : Nat]
Checkpoints == {c \in [step : Nat, version : Nat, yielded : 0 .. EpochSteps, log : Seq(Entries)] :
                    Len(c.log) = c.step}

Before == {"launch first", "await", "sync", "launch", "train"}
After == {"validate", "save", "post"}

(* The counters, the log and the checkpoint agree; the last step launches  *)
(* nothing.                                                                *)
Counted ==
    /\ pc \in {"start", "returned", "failed"} \cup Before \cup After
    /\ global_steps \in Nat /\ version \in Nat /\ served \in Nat
    /\ epoch \in 0 .. TotalEpochs /\ yielded \in 0 .. EpochSteps
    /\ log \in Seq(Entries)
    /\ pc \in Before \cup {"returned", "failed"} => Len(log) = global_steps - 1
    /\ pc \in After => Len(log) = global_steps
    /\ pc \in {"train"} \cup After /\ IsLastStep => future = None
    /\ ckpt = None \/ ckpt \in Checkpoints

(* A batch is taken over when its generation has ended, and none is under  *)
(* way where weights are handed over.                                      *)
Awaited ==
    /\ future = None \/ future \in Generations
    /\ pc \in {"start", "returned", "launch first"} => future = None
    /\ pc \in {"await", "sync"} => future \in Generations
    /\ pc = "sync" => future.state = "done"
    /\ pc \in {"sync", "launch"} \cup {"train"} => batch \in Generations

(* The inductive invariant for any warmup                                  *)
IInv == Counted /\ Awaited
-----------------------------------------------------------------------------
USE DEF Before, After

LEMMA InitIInv == Init => IInv
BY StepsAssumption DEF Init, IInv, Counted, Awaited

LEMMA ConstantTypes == EpochSteps \in Nat /\ EpochSteps > 0 /\ TotalEpochs \in Nat /\ TotalEpochs > 0
BY StepsAssumption

LEMMA LaunchNextTypes ==
    ASSUME IInv, LaunchNext
    PROVE  future' \in Generations /\ epoch' \in 0 .. TotalEpochs /\ yielded' \in 0 .. EpochSteps
<1>0. /\ yielded \in 0 .. EpochSteps /\ epoch \in 0 .. TotalEpochs
      /\ served \in Nat
    BY DEF IInv, Counted
<1>1. ASSUME NEW b \in Batches PROVE
         /\ Generation(b) \in Generations
         /\ [Generation(b) EXCEPT !.state = "exhausted"] \in Generations
    BY <1>0 DEF Generation, Generations
<1>2. CASE yielded < EpochSteps /\ epoch < TotalEpochs
    <2>1. yielded + 1 \in Batches /\ yielded + 1 \in 0 .. EpochSteps
        BY <1>0, <1>2, ConstantTypes DEF Batches
    <2> QED BY <1>0, <1>1, <1>2, <2>1 DEF LaunchNext
<1>3. CASE ~(yielded < EpochSteps /\ epoch < TotalEpochs) /\ epoch + 1 < TotalEpochs
    <2>1. 1 \in Batches /\ 1 \in 0 .. EpochSteps /\ epoch + 1 \in 0 .. TotalEpochs
        BY <1>0, <1>3, ConstantTypes DEF Batches
    <2> QED BY <1>0, <1>1, <1>3, <2>1 DEF LaunchNext
<1>4. CASE ~(yielded < EpochSteps /\ epoch < TotalEpochs) /\ ~(epoch + 1 < TotalEpochs)
    <2>1. None \in Batches /\ TotalEpochs \in 0 .. TotalEpochs
        BY ConstantTypes DEF Batches
    <2> QED BY <1>0, <1>1, <1>4, <2>1 DEF LaunchNext
<1> QED BY <1>2, <1>3, <1>4

(* What a start goes on from: the checkpoint or nothing.                   *)
Resumes(from) ==
    /\ global_steps' = from.step + 1 /\ version' = from.version /\ log' = from.log
    /\ yielded' = IF from.step % EpochSteps = 0 THEN 0 ELSE from.yielded
    /\ served' = IF CriticWarmup <= from.step THEN from.version ELSE 0

LEMMA StartResumes ==
    ASSUME IInv, Start
    PROVE  \E from \in Checkpoints : Resumes(from) /\ (from.log = << >> \/ (ckpt # None /\ from = ckpt))
<1>1. CASE ckpt = None
    <2> DEFINE new == [step |-> 0, version |-> 0, yielded |-> 0, log |-> << >>]
    <2>1. new \in Checkpoints
        BY ConstantTypes, EmptySeq DEF Checkpoints
    <2>2. Resumes(new)
        BY <1>1 DEF Start, Resumes
    <2> QED BY <2>1, <2>2
<1>2. CASE ckpt # None
    <2>1. ckpt \in Checkpoints /\ Resumes(ckpt)
        BY <1>2 DEF IInv, Counted, Start, Resumes
    <2> QED BY <1>2, <2>1
<1> QED BY <1>1, <1>2

LEMMA StartIInv == ASSUME IInv, Start PROVE IInv'
<1>2. PICK from \in Checkpoints : Resumes(from)
    BY StartResumes
<1>3. Counted'
    <2>1. global_steps' \in Nat /\ version' \in Nat /\ served' \in Nat
        BY <1>2 DEF Resumes, Checkpoints
    <2>2. yielded' \in 0 .. EpochSteps /\ epoch' \in 0 .. TotalEpochs
        <3>1. from.yielded \in 0 .. EpochSteps /\ 0 \in 0 .. EpochSteps
            BY ConstantTypes DEF Checkpoints
        <3>2. epoch' = 0
            BY DEF Start
        <3>3. 0 \in 0 .. TotalEpochs
            BY ConstantTypes
        <3> QED BY <1>2, <3>1, <3>2, <3>3 DEF Resumes
    <2>3. log' \in Seq(Entries) /\ Len(log') = global_steps' - 1
        BY <1>2 DEF Resumes, Checkpoints
    <2>4. pc' = "launch first" /\ (ckpt' = None \/ ckpt' \in Checkpoints)
        BY DEF IInv, Counted, Start
    <2> QED BY <2>1, <2>2, <2>3, <2>4 DEF Counted
<1>4. Awaited'
    BY DEF Awaited, Start
<1> QED BY <1>3, <1>4 DEF IInv

LEMMA LaunchFirstIInv == ASSUME IInv, LaunchFirst PROVE IInv'
<1>1. Counted'
    BY LaunchNextTypes DEF IInv, Counted, Awaited, LaunchFirst, IsLastStep, iterator
<1>2. Awaited'
    BY LaunchNextTypes DEF IInv, Counted, Awaited, LaunchFirst, iterator
<1> QED BY <1>1, <1>2 DEF IInv

LEMMA FinishGenerationIInv == ASSUME IInv, FinishGeneration PROVE IInv'
<1>1. Counted'
    BY DEF IInv, Counted, Awaited, FinishGeneration, IsLastStep, iterator, Generations
<1>2. Awaited'
    BY DEF IInv, Counted, Awaited, FinishGeneration, iterator, Generations
<1> QED BY <1>1, <1>2 DEF IInv

LEMMA AwaitBatchIInv == ASSUME IInv, AwaitBatch PROVE IInv'
<1>1. Counted'
    BY DEF IInv, Counted, Awaited, AwaitBatch, IsLastStep, iterator, Generations
<1>2. Awaited'
    BY DEF IInv, Counted, Awaited, AwaitBatch, iterator, Generations
<1> QED BY <1>1, <1>2 DEF IInv

LEMMA AwaitNothingIInv == ASSUME IInv, AwaitNothing PROVE IInv'
<1>1. Counted'
    BY DEF IInv, Counted, Awaited, AwaitNothing, IsLastStep, iterator
<1>2. Awaited'
    BY DEF IInv, Counted, Awaited, AwaitNothing, iterator
<1> QED BY <1>1, <1>2 DEF IInv

LEMMA SyncWeightsIInv == ASSUME IInv, SyncWeights PROVE IInv'
<1>1. Counted'
    BY DEF IInv, Counted, Awaited, SyncWeights, IsLastStep, iterator
<1>2. Awaited'
    BY DEF IInv, Counted, Awaited, SyncWeights, iterator
<1> QED BY <1>1, <1>2 DEF IInv

LEMMA LaunchIInv == ASSUME IInv, Launch PROVE IInv'
<1>1. Counted'
    BY LaunchNextTypes DEF IInv, Counted, Awaited, Launch, IsLastStep, iterator
<1>2. Awaited'
    BY LaunchNextTypes DEF IInv, Counted, Awaited, Launch, iterator
<1> QED BY <1>1, <1>2 DEF IInv

LEMMA TrainIInv == ASSUME IInv, Train PROVE IInv'
<1>1. Counted'
    BY DEF IInv, Counted, Awaited, Train, IsLastStep, iterator, Generations, Entries
<1>2. Awaited'
    BY DEF IInv, Counted, Awaited, Train, iterator, Generations, Entries
<1> QED BY <1>1, <1>2 DEF IInv

LEMMA ValidateIInv == ASSUME IInv, Validate PROVE IInv'
<1>1. Counted'
    BY DEF IInv, Counted, Awaited, Validate, IsLastStep, iterator
<1>2. Awaited'
    BY DEF IInv, Counted, Awaited, Validate, iterator
<1> QED BY <1>1, <1>2 DEF IInv

LEMMA SaveCheckpointIInv == ASSUME IInv, SaveCheckpoint PROVE IInv'
<1>1. Counted'
    BY DEF IInv, Counted, Awaited, SaveCheckpoint, IsLastStep, iterator, Checkpoints
<1>2. Awaited'
    BY DEF IInv, Counted, Awaited, SaveCheckpoint, iterator, Checkpoints
<1> QED BY <1>1, <1>2 DEF IInv

LEMMA DontSaveIInv == ASSUME IInv, DontSave PROVE IInv'
<1>1. Counted'
    BY DEF IInv, Counted, Awaited, DontSave, IsLastStep, iterator
<1>2. Awaited'
    BY DEF IInv, Counted, Awaited, DontSave, iterator
<1> QED BY <1>1, <1>2 DEF IInv

LEMMA PostprocessIInv == ASSUME IInv, Postprocess PROVE IInv'
<1>1. Counted'
    BY DEF IInv, Counted, Awaited, Postprocess, IsLastStep, iterator
<1>2. Awaited'
    BY DEF IInv, Counted, Awaited, Postprocess, iterator
<1> QED BY <1>1, <1>2 DEF IInv

LEMMA CrashIInv == ASSUME IInv, Crash PROVE IInv'
<1>1. Counted'
    BY DEF IInv, Counted, Awaited, Crash, IsLastStep, iterator
<1>2. Awaited'
    BY DEF IInv, Counted, Awaited, Crash, iterator
<1> QED BY <1>1, <1>2 DEF IInv

LEMMA NextIInv == IInv /\ [Next]_vars => IInv'
<1> SUFFICES ASSUME IInv, [Next]_vars PROVE IInv'
    OBVIOUS
<1>1. CASE FitStep
    BY <1>1, AwaitBatchIInv, AwaitNothingIInv, SyncWeightsIInv, LaunchIInv, TrainIInv, ValidateIInv,
       SaveCheckpointIInv, DontSaveIInv, PostprocessIInv DEF FitStep
<1>2. CASE UNCHANGED vars
    BY <1>2 DEF IInv, Counted, Awaited, IsLastStep, vars, iterator
<1> QED BY <1>1, <1>2, StartIInv, LaunchFirstIInv, FinishGenerationIInv, CrashIInv DEF Next

LEMMA InvariantHolds == Spec => []IInv
<1>1. Init => IInv
    BY InitIInv
<1>2. IInv /\ [Next]_vars => IInv'
    BY NextIInv
<1> QED BY <1>1, <1>2, PTL DEF Spec
-----------------------------------------------------------------------------
(* Type correctness, the log one step behind the counter, and nothing under*)
(* way in a job that returned, over all crashes and restarts.              *)
THEOREM TypeCorrect == Spec => []TypeOK
<1>1. IInv => TypeOK
    BY DEF IInv, Counted, Awaited, TypeOK, Generations
<1> QED BY <1>1, InvariantHolds, PTL

(* The replicas get new weights only when no generation is under way.      *)
THEOREM NoMixedBatch == Spec => NoGenerationAcrossSync
<1>1. IInv /\ [Next]_vars => [served' # served => future = None \/ future.state # "running"]_vars
    <2> SUFFICES ASSUME IInv, Next, served' # served
                 PROVE  future = None \/ future.state # "running"
        OBVIOUS
    <2>1. Start \/ SyncWeights
        BY DEF Next, FitStep, LaunchFirst, FinishGeneration, AwaitBatch, AwaitNothing, Launch,
               Train, Validate, SaveCheckpoint, DontSave, Postprocess, Crash
    <2> QED BY <2>1 DEF IInv, Awaited, Start, SyncWeights
<1> QED BY <1>1, InvariantHolds, PTL DEF Spec, NoGenerationAcrossSync
-----------------------------------------------------------------------------
(* Until the warmup of the critic is over the actor is as it was, also in  *)
(* the checkpoints of the time.                                            *)
Unlearned ==
    /\ pc # "start" /\ (global_steps < CriticWarmup \/ (global_steps = CriticWarmup /\ pc \in Before))
          => version = 0
    /\ ckpt # None /\ ckpt.step < CriticWarmup => ckpt.version = 0

LEMMA StartUnlearned == ASSUME IInv, Unlearned, Start PROVE Unlearned'
<1>1. pc' = "launch first" /\ ckpt' = ckpt
    BY DEF Start
<1>2. CASE ckpt = None
    <2>1. version' = 0
        BY <1>2 DEF Start
    <2> QED BY <1>1, <1>2, <2>1 DEF Unlearned
<1>3. CASE ckpt # None
    <2>1. global_steps' = ckpt.step + 1 /\ version' = ckpt.version
        BY <1>3 DEF Start
    <2>2. ckpt.step \in Nat /\ (ckpt.step < CriticWarmup => ckpt.version = 0)
        BY <1>3 DEF IInv, Counted, Checkpoints, Unlearned
    <2>3. PICK n \in Nat : n = ckpt.step
        BY <2>2
    <2>4. (global_steps' < CriticWarmup \/ global_steps' = CriticWarmup) => version' = 0
        <3>1. global_steps' = n + 1 /\ (n < CriticWarmup => version' = 0)
            BY <2>1, <2>2, <2>3
        <3>2. (n + 1 < CriticWarmup \/ n + 1 = CriticWarmup) => n < CriticWarmup
            BY FrequencyAssumption
        <3> QED BY <3>1, <3>2
    <2> QED BY <1>1, <2>2, <2>4 DEF Unlearned
<1> QED BY <1>2, <1>3

LEMMA StepUnlearned ==
    ASSUME IInv, Unlearned,
           \/ LaunchFirst \/ FinishGeneration \/ FitStep \/ Crash \/ UNCHANGED vars
    PROVE  Unlearned'
<1>1. global_steps \in Nat /\ CriticWarmup \in Nat
    BY FrequencyAssumption DEF IInv, Counted
<1>2. CASE Train
    <2>1. /\ pc = "train" /\ pc' = "validate" /\ UNCHANGED <<global_steps, ckpt>>
          /\ version' = IF CriticWarmup <= global_steps THEN version + 1 ELSE version
        BY <1>2 DEF Train, ActorLearns
    <2> QED BY <1>1, <2>1 DEF Unlearned
<1>3. CASE SaveCheckpoint
    <2>1. /\ pc = "save" /\ pc' = "post" /\ UNCHANGED <<global_steps, version>>
          /\ (ckpt').step = global_steps /\ (ckpt').version = version
        BY <1>3 DEF SaveCheckpoint
    <2> QED BY <1>1, <2>1 DEF Unlearned
<1>4. CASE Postprocess
    BY <1>1, <1>4 DEF Postprocess, Unlearned
<1>5. CASE \/ LaunchFirst \/ FinishGeneration \/ AwaitBatch \/ AwaitNothing \/ SyncWeights \/ Launch
           \/ Validate \/ DontSave \/ Crash \/ UNCHANGED vars
    BY <1>1, <1>5 DEF LaunchFirst, FinishGeneration, AwaitBatch, AwaitNothing, SyncWeights, Launch,
                      Validate, DontSave, Crash, vars, Unlearned
<1> QED BY <1>2, <1>3, <1>4, <1>5 DEF FitStep

LEMMA UnlearnedHolds == Spec => []Unlearned
<1>1. Init => Unlearned
    BY DEF Init, Unlearned
<1>2. IInv /\ Unlearned /\ [Next]_vars => Unlearned'
    BY StartUnlearned, StepUnlearned DEF Next
<1> QED BY <1>1, <1>2, InvariantHolds, PTL DEF Spec

(* The replicas are at most one update behind: the one that was made since *)
(* the last hand-over.                                                     *)
Apart(trained, generated) == generated \in Nat /\ trained - generated \in {0, 1}

LogApart(entries) == \A s \in 1 .. Len(entries) : Apart(entries[s].trained, entries[s].generated)

Behind ==
    /\ pc \in {"launch first", "launch", "train"} => served = version
    /\ pc \in {"await", "sync"} => version - served \in {0, 1}
    /\ pc \in After => version = IF ActorLearns THEN served + 1 ELSE served
    /\ pc \in {"await", "sync"} => future.version = served
    /\ pc \in {"train"} \cup After /\ future # None => future.version = served
    /\ pc = "sync" => batch.version = served
    /\ pc \in {"launch", "train"} => Apart(version, batch.version)

Apartness ==
    /\ Behind
    /\ LogApart(log) /\ (ckpt # None => LogApart(ckpt.log))
    /\ validated # None => validated.trained - validated.served \in {0, 1}

LEMMA InitApartness == Init => Apartness
BY DEF Init, Apartness, Behind, LogApart, Apart

LEMMA LaunchNextVersion == ASSUME LaunchNext PROVE future'.version = served
BY DEF LaunchNext, Generation

LEMMA StartApartness == ASSUME IInv, Unlearned, Apartness, Start PROVE Apartness'
<1>1. PICK from \in Checkpoints :
         Resumes(from) /\ (from.log = << >> \/ (ckpt # None /\ from = ckpt))
    BY StartResumes
<1>2. from.version \in Nat /\ from.step \in Nat
    BY DEF Checkpoints
<1>3. version' = from.version /\ served' = from.version /\ log' = from.log
    <2>1. CASE CriticWarmup <= from.step
        BY <1>1, <2>1 DEF Resumes
    <2>2. CASE ~(CriticWarmup <= from.step)
        <3>1. version' = from.version /\ served' = 0 /\ log' = from.log /\ global_steps' = from.step + 1
            BY <1>1, <2>2 DEF Resumes
        <3>2. from.step < CriticWarmup /\ global_steps' <= CriticWarmup
            BY <1>2, <2>2, <3>1, FrequencyAssumption
        <3>3. pc' = "launch first" /\ Unlearned'
            BY StartUnlearned DEF Start
        <3>4. global_steps' < CriticWarmup \/ global_steps' = CriticWarmup
            BY <1>2, <3>1, <3>2, FrequencyAssumption
        <3>5. version' = 0
            BY <3>3, <3>4 DEF Unlearned
        <3> QED BY <3>1, <3>5
    <2> QED BY <2>1, <2>2
<1>4. pc' = "launch first" /\ future' = None /\ UNCHANGED <<ckpt, validated>>
    BY DEF Start
<1>5. LogApart(log')
    BY <1>1, <1>3 DEF Apartness, LogApart
<1>6. Behind'
    BY <1>2, <1>3, <1>4 DEF Behind
<1> QED BY <1>4, <1>5, <1>6 DEF Apartness

LEMMA TrainApartness == ASSUME IInv, Apartness, Train PROVE Apartness'
<1>1. /\ version \in Nat /\ version' = (IF ActorLearns THEN version + 1 ELSE version)
      /\ served = version /\ Apart(version, batch.version)
    BY DEF IInv, Counted, Apartness, Behind, Train
<1>2. Behind'
    BY <1>1 DEF Apartness, Behind, Train, ActorLearns
<1>3. LogApart(log')
    <2> DEFINE entry == [batch |-> batch.batch, generated |-> batch.version, trained |-> version]
    <2>1. log' = Append(log, entry) /\ log \in Seq(Entries) /\ entry \in Entries
        BY DEF Train, IInv, Counted, Awaited, Generations, Entries
    <2>2. /\ Len(log') = Len(log) + 1 /\ log'[Len(log) + 1] = entry
          /\ \A s \in 1 .. Len(log) : log'[s] = log[s]
        BY <2>1, AppendProperties
    <2>3. Apart(entry.trained, entry.generated) /\ LogApart(log)
        BY <1>1 DEF Apartness
    <2> QED BY <2>1, <2>2, <2>3, LenProperties DEF LogApart
<1> QED BY <1>2, <1>3 DEF Apartness, Train

(* The actions that leave the log alone                                    *)
LEMMA BehindIsEnough ==
    ASSUME Apartness, Behind', UNCHANGED <<log, validated>>, ckpt' = ckpt \/ (ckpt').log = log
    PROVE  Apartness'
BY DEF Apartness

LEMMA StepApartness ==
    ASSUME IInv, Unlearned, Apartness,
           \/ LaunchFirst \/ FinishGeneration \/ AwaitBatch \/ AwaitNothing \/ SyncWeights
           \/ Launch \/ Validate \/ SaveCheckpoint \/ DontSave \/ Postprocess \/ Crash
    PROVE  Apartness'
<1> USE DEF IInv, Counted, Awaited, Apartness, Behind, iterator
<1>1. CASE LaunchFirst
    <2>1. Behind'
        <3>1. version \in Nat /\ served = version
            BY <1>1 DEF LaunchFirst
        <3>2. /\ pc' = "await" /\ UNCHANGED <<version, served, batch>>
              /\ future'.version = served
            BY <1>1, LaunchNextVersion DEF LaunchFirst
        <3> HIDE DEF IInv, Apartness
        <3> QED BY <3>1, <3>2
    <2>2. UNCHANGED <<log, validated>> /\ (ckpt' = ckpt \/ (ckpt').log = log)
        BY <1>1 DEF LaunchFirst
    <2> HIDE DEF Behind, Apartness
    <2> QED BY <2>1, <2>2, BehindIsEnough
<1>2. CASE Launch
    <2>1. Behind'
        BY <1>2, LaunchNextVersion DEF Launch
    <2>2. UNCHANGED <<log, validated>> /\ (ckpt' = ckpt \/ (ckpt').log = log)
        BY <1>2 DEF Launch
    <2> HIDE DEF Behind, Apartness
    <2> QED BY <2>1, <2>2, BehindIsEnough
<1>3. CASE FinishGeneration
    <2>1. Behind'
        BY <1>3 DEF FinishGeneration, Generations, ActorLearns
    <2>2. UNCHANGED <<log, validated>> /\ (ckpt' = ckpt \/ (ckpt').log = log)
        BY <1>3 DEF FinishGeneration
    <2> HIDE DEF Behind, Apartness
    <2> QED BY <2>1, <2>2, BehindIsEnough
<1>4. CASE AwaitBatch
    <2>1. Behind'
        BY <1>4 DEF AwaitBatch, Apart
    <2>2. UNCHANGED <<log, validated>> /\ (ckpt' = ckpt \/ (ckpt').log = log)
        BY <1>4 DEF AwaitBatch
    <2> HIDE DEF Behind, Apartness
    <2> QED BY <2>1, <2>2, BehindIsEnough
<1>5. CASE AwaitNothing
    <2>1. Behind'
        BY <1>5 DEF AwaitNothing
    <2>2. UNCHANGED <<log, validated>> /\ (ckpt' = ckpt \/ (ckpt').log = log)
        BY <1>5 DEF AwaitNothing
    <2> HIDE DEF Behind, Apartness
    <2> QED BY <2>1, <2>2, BehindIsEnough
<1>6. CASE SyncWeights
    <2>0. ~ActorLearns => version = 0 /\ served = 0
        BY <1>6, FrequencyAssumption DEF SyncWeights, ActorLearns, Unlearned
    <2>1. Behind'
        BY <1>6, <2>0 DEF SyncWeights, Apart
    <2>2. UNCHANGED <<log, validated>> /\ (ckpt' = ckpt \/ (ckpt').log = log)
        BY <1>6 DEF SyncWeights
    <2> HIDE DEF Behind, Apartness
    <2> QED BY <2>1, <2>2, BehindIsEnough
<1>7. CASE Validate
    BY <1>7 DEF Validate, ActorLearns
<1>8. CASE SaveCheckpoint
    <2>1. Behind'
        BY <1>8 DEF SaveCheckpoint, ActorLearns
    <2>2. UNCHANGED <<log, validated>> /\ (ckpt' = ckpt \/ (ckpt').log = log)
        BY <1>8 DEF SaveCheckpoint
    <2> HIDE DEF Behind, Apartness
    <2> QED BY <2>1, <2>2, BehindIsEnough
<1>9. CASE DontSave
    <2>1. Behind'
        BY <1>9 DEF DontSave, ActorLearns
    <2>2. UNCHANGED <<log, validated>> /\ (ckpt' = ckpt \/ (ckpt').log = log)
        BY <1>9 DEF DontSave
    <2> HIDE DEF Behind, Apartness
    <2> QED BY <2>1, <2>2, BehindIsEnough
<1>10. CASE Postprocess
    <2>1. Behind'
        BY <1>10 DEF Postprocess, ActorLearns
    <2>2. UNCHANGED <<log, validated>> /\ (ckpt' = ckpt \/ (ckpt').log = log)
        BY <1>10 DEF Postprocess
    <2> HIDE DEF Behind, Apartness
    <2> QED BY <2>1, <2>2, BehindIsEnough
<1>11. CASE Crash
    <2>1. Behind'
        BY <1>11 DEF Crash
    <2>2. UNCHANGED <<log, validated>> /\ (ckpt' = ckpt \/ (ckpt').log = log)
        BY <1>11 DEF Crash
    <2> HIDE DEF Behind, Apartness
    <2> QED BY <2>1, <2>2, BehindIsEnough
<1> QED BY <1>1, <1>2, <1>3, <1>4, <1>5, <1>6, <1>7, <1>8, <1>9, <1>10, <1>11

LEMMA ApartnessHolds == Spec => []Apartness
<1>1. Init => Apartness
    BY InitApartness
<1>2. IInv /\ Unlearned /\ Apartness /\ [Next]_vars => Apartness'
    <2>1. ASSUME UNCHANGED vars, Apartness PROVE Apartness'
        BY <2>1 DEF Apartness, Behind, ActorLearns, vars, iterator
    <2> QED BY <2>1, StartApartness, TrainApartness, StepApartness DEF Next, FitStep
<1> QED BY <1>1, <1>2, InvariantHolds, UnlearnedHolds, PTL DEF Spec

(* Every batch that was ever trained was generated by the weights it       *)
(* updated or by those one update before, for any warmup of the critic.    *)
THEOREM StaysOneStepApart == Spec => []OneStepApart
<1>1. IInv /\ Apartness => OneStepApart
    BY StepsAssumption, LenProperties DEF IInv, Counted, Apartness, LogApart, Apart, OneStepApart
<1> QED BY <1>1, InvariantHolds, ApartnessHolds, PTL

(* A validation never sees weights more than one update old.               *)
THEOREM ValidatesOneBehind == Spec => []ValidationIsOneBehind
<1>1. Apartness => ValidationIsOneBehind
    BY DEF Apartness, ValidationIsOneBehind
<1> QED BY <1>1, ApartnessHolds, PTL
(* Both together, for any epochs, frequencies, crashes and restarts.       *)
THEOREM NothingLagsFurther == Spec => []StaysOneStepBehind
<1> QED BY StaysOneStepApart, ValidatesOneBehind, PTL DEF StaysOneStepBehind
-----------------------------------------------------------------------------
(* The batches in turn.  The batch to be trained next is the one after the *)
(* last of the log; in a first run also that of its step number, which is  *)
(* why a restart recognizes the end of an epoch.                           *)
LastBatch(entries) == entries[Len(entries)].batch

InLine(entries) == \A s \in 1 .. Len(entries) : entries[s].batch = ((s - 1) % EpochSteps) + 1

Follows(next, last) == next \in {Following(last), Following(Following(last))}

Chained(entries) == \A s \in 1 .. Len(entries) - 1 : Follows(entries[s + 1].batch, entries[s].batch)

Fits(b) ==
    /\ starts <= 1 => b = (Len(log) % EpochSteps) + 1
    /\ starts <= 2 /\ Len(log) > 0 => Follows(b, LastBatch(log))

(* The iterator is at the last batch, or at the next, which is prefetched. *)
Ahead(last) ==
    IF future = None \/ future.state = "exhausted" THEN yielded = last
    ELSE yielded = Following(last) /\ future.batch = yielded

Resumable(c) ==
    /\ c.step > 0 /\ InLine(c.log)
    /\ c.yielded \in {LastBatch(c.log), Following(LastBatch(c.log))}

Recorded ==
    /\ starts \in Nat
    /\ starts = 0 => pc = "start" /\ ckpt = None
    /\ starts <= 1 => InLine(log) /\ (ckpt # None => Resumable(ckpt))
    /\ starts <= 2 => Chained(log)

Positioned ==
    /\ pc = "launch first" => Fits(Following(yielded))
    /\ pc = "await" /\ future.state # "exhausted" => future.batch = yielded /\ Fits(yielded)
    /\ pc \in {"sync", "launch", "train"} => Fits(batch.batch)
    /\ pc \in {"sync", "launch"} => batch.batch = yielded
    /\ pc = "train" => Ahead(batch.batch)
    /\ pc \in After => Len(log) > 0 /\ Ahead(LastBatch(log))

(* Only the last step launches nothing, and only it or nothing ends a job. *)
Completed ==
    /\ pc \in {"train"} \cup After => (future = None => IsLastStep)
    /\ pc = "returned" => Len(log) >= TotalTrainingSteps

InTurn == Recorded /\ Positioned /\ Completed

LEMMA Remainder ==
    ASSUME NEW n \in Nat, n > 0, NEW q \in Int, NEW r \in 0 .. n - 1, NEW x \in Int, x = n * q + r
    PROVE  x % n = r
<1> DEFINE s == x % n
           k == x \div n
<1>1. s \in 0 .. n - 1 /\ k \in Int /\ x = n * k + s
    BY SMT
<1> HIDE DEF s, k
<1>2. n * (q - k) = s - r /\ q - k \in Int
    BY <1>1, SMT
<1>3. \A y \in Int : (y >= 1 => n * y >= n) /\ (y <= -1 => n * y <= -n)
    BY SMT
<1>4. q - k = 0
    BY <1>1, <1>2, <1>3, SMT
<1>5. s = r
    BY <1>1, <1>2, <1>4, SMT
<1> QED BY <1>5 DEF s

LEMMA ModuloSucc ==
    ASSUME NEW n \in Nat, n > 0, NEW a \in Nat
    PROVE  ((a % n) + 1) % n = (a + 1) % n /\ 0 % n = 0 /\ n % n = 0
<1> DEFINE r == a % n
           q == a \div n
<1>1. r \in 0 .. n - 1 /\ q \in Int /\ a = n * q + r
    BY SMT
<1>2. 0 % n = 0
    <2>1. 0 \in 0 .. n - 1 /\ 0 = n * 0 + 0
        BY SMT
    <2> QED BY <2>1, Remainder
<1>3. n % n = 0
    <2>1. 0 \in 0 .. n - 1 /\ n = n * 1 + 0 /\ n \in Int
        BY SMT
    <2> QED BY <2>1, Remainder
<1> HIDE DEF r, q
<1>4. CASE r + 1 < n
    <2>1. r + 1 \in 0 .. n - 1 /\ a + 1 = n * q + (r + 1) /\ a + 1 \in Int
        BY <1>1, <1>4, SMT
    <2>2. (a + 1) % n = r + 1
        BY <1>1, <2>1, Remainder
    <2>3. (r + 1) % n = r + 1
        BY <2>1, SMT
    <2> QED BY <1>2, <1>3, <2>2, <2>3 DEF r
<1>5. CASE r + 1 = n
    <2>1. 0 \in 0 .. n - 1 /\ a + 1 = n * (q + 1) + 0 /\ a + 1 \in Int /\ q + 1 \in Int
        BY <1>1, <1>5, SMT
    <2>2. (a + 1) % n = 0
        BY <2>1, Remainder
    <2> QED BY <1>2, <1>3, <1>5, <2>2 DEF r
<1> QED BY <1>1, <1>4, <1>5

LEMMA InitInTurn == Init => InTurn
BY DEF Init, InTurn, Recorded, Positioned, Completed, InLine, Chained

(* What next() gives: the batch that follows, across the end of an epoch.  *)
LEMMA LaunchYields ==
    ASSUME IInv, LaunchNext
    PROVE  /\ future' # None
           /\ future'.state = "exhausted" => yielded' = yielded
           /\ future'.state # "exhausted" => yielded' = Following(yielded) /\ future'.batch = yielded'
<1>1. future' # None
    BY LaunchNextTypes, NoneAssumption DEF Generations, Batches
<1>2. yielded \in 0 .. EpochSteps /\ epoch \in 0 .. TotalEpochs
    BY DEF IInv, Counted
<1>3. CASE yielded < EpochSteps /\ epoch < TotalEpochs
    <2>1. yielded % EpochSteps = yielded
        BY <1>2, <1>3, ConstantTypes
    <2> QED BY <1>1, <1>3, <2>1 DEF LaunchNext, Generation, Following
<1>4. CASE ~(yielded < EpochSteps /\ epoch < TotalEpochs) /\ epoch + 1 < TotalEpochs
    <2>1. yielded = EpochSteps
        BY <1>2, <1>4, ConstantTypes
    <2>2. Following(yielded) = 1
        BY <2>1, ModuloSucc, ConstantTypes DEF Following
    <2> QED BY <1>1, <1>4, <2>2 DEF LaunchNext, Generation
<1>5. CASE ~(yielded < EpochSteps /\ epoch < TotalEpochs) /\ ~(epoch + 1 < TotalEpochs)
    BY <1>1, <1>5 DEF LaunchNext, Generation
<1> QED BY <1>3, <1>4, <1>5

LEMMA InLineChained == ASSUME NEW entries \in Seq(Entries), InLine(entries) PROVE Chained(entries)
<1> SUFFICES ASSUME NEW s \in 1 .. Len(entries) - 1
             PROVE  Follows(entries[s + 1].batch, entries[s].batch)
    BY DEF Chained
<1>1. Len(entries) \in Nat
    BY LenProperties
<1>2. s \in 1 .. Len(entries) /\ s + 1 \in 1 .. Len(entries) /\ s - 1 \in Nat /\ (s - 1) + 1 = s
      /\ (s + 1) - 1 = s
    BY <1>1
<1>3. entries[s].batch = ((s - 1) % EpochSteps) + 1 /\ entries[s + 1].batch = (s % EpochSteps) + 1
    BY <1>2 DEF InLine
<1>4. (((s - 1) % EpochSteps) + 1) % EpochSteps = s % EpochSteps
    BY <1>2, ModuloSucc, ConstantTypes
<1> QED BY <1>3, <1>4 DEF Follows, Following

LEMMA LastInLine ==
    ASSUME NEW entries \in Seq(Entries), InLine(entries), Len(entries) > 0
    PROVE  Following(LastBatch(entries)) = (Len(entries) % EpochSteps) + 1
<1> DEFINE n == Len(entries)
<1>1. n \in Nat /\ n \in 1 .. n /\ n - 1 \in Nat /\ (n - 1) + 1 = n
    BY LenProperties
<1>2. LastBatch(entries) = ((n - 1) % EpochSteps) + 1
    BY <1>1 DEF InLine, LastBatch
<1>3. (((n - 1) % EpochSteps) + 1) % EpochSteps = n % EpochSteps
    BY <1>1, ModuloSucc, ConstantTypes
<1> QED BY <1>2, <1>3 DEF Following

LEMMA StartInTurn == ASSUME IInv, InTurn, Start PROVE InTurn'
<1>0. pc' = "launch first" /\ starts' = starts + 1 /\ ckpt' = ckpt
    BY DEF Start
<1>a. starts \in Nat
    BY DEF InTurn, Recorded
<1>b. \A n \in Nat : n + 1 \in Nat /\ n + 1 # 0 /\ (n + 1 <= 1 => n = 0) /\ (n + 1 <= 2 => n \in {0, 1})
    OBVIOUS
<1>1. /\ pc' = "launch first" /\ starts \in Nat /\ starts' \in Nat /\ ckpt' = ckpt /\ starts' # 0
      /\ starts' <= 1 => starts = 0
      /\ starts' <= 2 => starts \in {0, 1}
    BY <1>0, <1>a, <1>b
<1>2. PICK from \in Checkpoints :
         Resumes(from) /\ (from.log = << >> \/ (ckpt # None /\ from = ckpt))
    BY StartResumes
<1>3. log' = from.log /\ from.log \in Seq(Entries) /\ Len(from.log) = from.step /\ from.step \in Nat
    BY <1>2 DEF Resumes, Checkpoints
<1>4. CASE from.log = << >>
    <2>1. from.step = 0 /\ log' = << >> /\ Len(log') = 0
        BY <1>3, <1>4, EmptySeq
    <2>2. yielded' = 0
        BY <1>2, <2>1, ModuloSucc, ConstantTypes DEF Resumes
    <2>3. InLine(log') /\ Chained(log')
        BY <2>1 DEF InLine, Chained
    <2>4. Recorded'
        <3>1. starts' <= 1 => (ckpt' # None => Resumable(ckpt'))
            BY <1>1 DEF InTurn, Recorded
        <3> QED BY <1>1, <2>3, <3>1 DEF Recorded
    <2>5. Positioned'
        <3>1. Following(0) = (0 % EpochSteps) + 1
            BY DEF Following
        <3>2. Fits(Following(yielded))'
            BY <2>1, <2>2, <3>1 DEF Fits, Following
        <3> QED BY <1>1, <3>2 DEF Positioned
    <2> QED BY <1>1, <2>4, <2>5 DEF InTurn, Completed
<1>5. CASE starts = 1 /\ ckpt # None /\ from = ckpt /\ from.log # << >>
    <2>1. Resumable(from)
        BY <1>5 DEF InTurn, Recorded
    <2>a. ~(starts' <= 1)
        <3>1. starts # 0
            BY <1>5
        <3> QED BY <1>1, <3>1
    <2>2. InLine(log') /\ from.step > 0 /\ Len(log') > 0 /\ ~(starts' <= 1)
        BY <1>3, <2>1, <2>a DEF Resumable
    <2>3. Recorded'
        BY <1>1, <1>3, <2>2, InLineChained DEF Recorded
    <2>4. Follows(Following(yielded'), LastBatch(log'))
        <3>1. CASE from.step % EpochSteps = 0
            <4>1. yielded' = 0 /\ 0 % EpochSteps = 0
                BY <1>2, <3>1, ModuloSucc, ConstantTypes DEF Resumes
            <4>2. Following(LastBatch(log')) = (from.step % EpochSteps) + 1
                BY <1>3, <2>2, LastInLine
            <4>3. Following(yielded') = Following(LastBatch(log'))
                BY <3>1, <4>1, <4>2 DEF Following
            <4> QED BY <4>3 DEF Follows
        <3>2. CASE from.step % EpochSteps # 0
            <4>1. yielded' \in {LastBatch(log'), Following(LastBatch(log'))}
                BY <1>2, <1>3, <2>1, <3>2 DEF Resumes, Resumable
            <4> QED BY <4>1 DEF Follows
        <3> QED BY <3>1, <3>2
    <2>5. Positioned'
        <3>1. Fits(Following(yielded))'
            BY <2>2, <2>4 DEF Fits
        <3> QED BY <1>1, <3>1 DEF Positioned
    <2> QED BY <1>1, <2>3, <2>5 DEF InTurn, Completed
<1>6. CASE starts # 1 /\ ckpt # None /\ from = ckpt
    <2>1. ~(starts' <= 1) /\ ~(starts' <= 2)
        <3>1. starts # 0
            BY <1>6 DEF InTurn, Recorded
        <3> QED BY <1>1, <1>6, <3>1
    <2>2. Recorded'
        BY <1>1, <2>1 DEF Recorded
    <2>3. Positioned'
        <3>1. Fits(Following(yielded))'
            BY <2>1 DEF Fits
        <3> QED BY <1>1, <3>1 DEF Positioned
    <2> QED BY <1>1, <2>2, <2>3 DEF InTurn, Completed
<1> QED BY <1>2, <1>4, <1>5, <1>6

LEMMA LaunchFirstInTurn == ASSUME IInv, InTurn, LaunchFirst PROVE InTurn'
<1>1. pc = "launch first" /\ pc' = "await" /\ UNCHANGED <<global_steps, log, starts, ckpt>>
    BY DEF LaunchFirst
<1>2. Recorded'
    BY <1>1 DEF InTurn, Recorded
<1>3. Fits(Following(yielded))
    BY <1>1 DEF InTurn, Positioned
<1>4. future'.state # "exhausted" => yielded' = Following(yielded) /\ future'.batch = yielded'
    BY LaunchYields DEF LaunchFirst
<1>5. Positioned'
    BY <1>1, <1>3, <1>4 DEF Positioned, Fits
<1> QED BY <1>1, <1>2, <1>5 DEF InTurn, Completed

LEMMA FinishGenerationInTurn == ASSUME IInv, InTurn, FinishGeneration PROVE InTurn'
<1>1. /\ future # None /\ future.state = "running"
      /\ UNCHANGED <<pc, global_steps, yielded, batch, ckpt, log, starts>>
    BY DEF FinishGeneration, iterator
<1>2. future \in Generations /\ future' \in Generations /\ future' # None
      /\ future'.batch = future.batch /\ future'.state = "done"
    BY <1>1, NoneAssumption DEF FinishGeneration, IInv, Awaited, Generations, Batches
<1>3. Recorded'
    BY <1>1 DEF InTurn, Recorded
<1>4. \A last : Ahead(last) => Ahead(last)'
    BY <1>1, <1>2 DEF Ahead
<1>5. \A b : Fits(b) => Fits(b)'
    BY <1>1 DEF Fits
<1>6. Positioned'
    BY <1>1, <1>2, <1>4, <1>5 DEF InTurn, Positioned
<1>7. Completed'
    BY <1>1, <1>2 DEF InTurn, Completed, IsLastStep
<1> QED BY <1>3, <1>6, <1>7 DEF InTurn

LEMMA AwaitBatchInTurn == ASSUME IInv, InTurn, AwaitBatch PROVE InTurn'
<1>1. /\ pc = "await" /\ pc' = "sync" /\ future.state = "done" /\ batch' = future
      /\ UNCHANGED <<global_steps, yielded, future, ckpt, log, starts>>
    BY DEF AwaitBatch, iterator
<1>2. batch'.batch = yielded /\ Fits(yielded)
    BY <1>1 DEF InTurn, Positioned
<1>3. Recorded'
    BY <1>1 DEF InTurn, Recorded
<1>4. Positioned'
    BY <1>1, <1>2 DEF Positioned, Fits
<1> QED BY <1>1, <1>3, <1>4 DEF InTurn, Completed

LEMMA AwaitNothingInTurn == ASSUME IInv, InTurn, AwaitNothing PROVE InTurn'
<1>1. pc = "await" /\ pc' = "failed" /\ UNCHANGED <<ckpt, log, starts>>
    BY DEF AwaitNothing
<1> QED BY <1>1 DEF InTurn, Recorded, Positioned, Completed

LEMMA SyncWeightsInTurn == ASSUME IInv, InTurn, SyncWeights PROVE InTurn'
<1>1. /\ pc = "sync" /\ pc' = "launch"
      /\ UNCHANGED <<global_steps, yielded, future, batch, ckpt, log, starts>>
    BY DEF SyncWeights, iterator
<1>2. Recorded'
    BY <1>1 DEF InTurn, Recorded
<1>3. Positioned'
    BY <1>1 DEF InTurn, Positioned, Fits
<1> QED BY <1>1, <1>2, <1>3 DEF InTurn, Completed

LEMMA LaunchInTurn == ASSUME IInv, InTurn, Launch PROVE InTurn'
<1>1. /\ pc = "launch" /\ pc' = "train"
      /\ UNCHANGED <<global_steps, batch, ckpt, log, starts>>
    BY DEF Launch
<1>2. Recorded'
    BY <1>1 DEF InTurn, Recorded
<1>3. Fits(batch.batch) /\ batch.batch = yielded
    BY <1>1 DEF InTurn, Positioned
<1>4. CASE IsLastStep
    <2>1. future' = None /\ yielded' = yielded
        BY <1>4 DEF Launch, iterator
    <2>2. Positioned'
        BY <1>1, <1>3, <2>1 DEF Positioned, Fits, Ahead
    <2>3. Completed'
        BY <1>1, <1>4 DEF Completed, IsLastStep
    <2> QED BY <1>2, <2>2, <2>3 DEF InTurn
<1>5. CASE ~IsLastStep
    <2>1. /\ future' # None
          /\ future'.state = "exhausted" => yielded' = yielded
          /\ future'.state # "exhausted" => yielded' = Following(yielded) /\ future'.batch = yielded'
        BY <1>5, LaunchYields DEF Launch
    <2>2. Positioned'
        BY <1>1, <1>3, <2>1 DEF Positioned, Fits, Ahead
    <2>3. Completed'
        BY <1>1, <2>1 DEF Completed
    <2> QED BY <1>2, <2>2, <2>3 DEF InTurn
<1> QED BY <1>4, <1>5

LEMMA TrainInTurn == ASSUME IInv, InTurn, Train PROVE InTurn'
<1> DEFINE entry == [batch |-> batch.batch, generated |-> batch.version, trained |-> version]
<1>1. /\ pc = "train" /\ pc' = "validate"
      /\ UNCHANGED <<global_steps, yielded, future, ckpt, starts>>
    BY DEF Train, iterator
<1>2. log' = Append(log, entry) /\ log \in Seq(Entries) /\ entry \in Entries /\ Len(log) \in Nat
    BY LenProperties DEF Train, IInv, Counted, Awaited, Generations, Entries
<1>3. /\ Len(log') = Len(log) + 1 /\ log'[Len(log) + 1] = entry
      /\ \A s \in 1 .. Len(log) : log'[s] = log[s]
    BY <1>2, AppendProperties
<1>4. LastBatch(log') = batch.batch
    BY <1>3 DEF LastBatch
<1>5. Fits(batch.batch) /\ Ahead(batch.batch)
    BY <1>1 DEF InTurn, Positioned
<1>6. starts <= 1 => InLine(log')
    <2> SUFFICES ASSUME starts <= 1, NEW s \in 1 .. Len(log')
                 PROVE  log'[s].batch = ((s - 1) % EpochSteps) + 1
        BY DEF InLine
    <2>1. CASE s \in 1 .. Len(log)
        BY <1>3, <2>1 DEF InTurn, Recorded, InLine
    <2>2. CASE s = Len(log) + 1
        <3>1. s - 1 = Len(log) /\ log'[s].batch = batch.batch
            BY <1>2, <1>3, <2>2
        <3> QED BY <1>5, <3>1 DEF Fits
    <2> QED BY <1>2, <1>3, <2>1, <2>2
<1>7. starts <= 2 => Chained(log')
    <2> SUFFICES ASSUME starts <= 2, NEW s \in 1 .. Len(log') - 1
                 PROVE  Follows(log'[s + 1].batch, log'[s].batch)
        BY DEF Chained
    <2>1. CASE s \in 1 .. Len(log) - 1
        <3>1. log'[s + 1] = log[s + 1] /\ log'[s] = log[s]
            BY <1>2, <1>3, <2>1
        <3> QED BY <2>1, <3>1 DEF InTurn, Recorded, Chained
    <2>2. CASE s = Len(log)
        <3>1. Len(log) > 0 /\ log'[s] = log[s] /\ log'[s + 1].batch = batch.batch
            BY <1>2, <1>3, <2>2
        <3> QED BY <1>5, <2>2, <3>1 DEF Fits, LastBatch
    <2> QED BY <1>2, <1>3, <2>1, <2>2
<1>8. Recorded'
    BY <1>1, <1>6, <1>7 DEF InTurn, Recorded
<1>9. Positioned'
    <2>1. Len(log') > 0
        BY <1>2, <1>3
    <2>2. Ahead(LastBatch(log))'
        BY <1>1, <1>4, <1>5 DEF Ahead
    <2> QED BY <1>1, <2>1, <2>2 DEF Positioned
<1>10. Completed'
    BY <1>1 DEF InTurn, Completed, IsLastStep
<1> QED BY <1>8, <1>9, <1>10 DEF InTurn

LEMMA SaveCheckpointInTurn == ASSUME IInv, InTurn, SaveCheckpoint PROVE InTurn'
<1>1. /\ pc = "save" /\ pc' = "post"
      /\ UNCHANGED <<global_steps, yielded, future, log, starts>>
    BY DEF SaveCheckpoint, iterator
<1>2. starts <= 1 => Resumable(ckpt')
    <2>1. ckpt'.step = global_steps /\ ckpt'.yielded = yielded /\ ckpt'.log = log
        BY DEF SaveCheckpoint
    <2>2. yielded \in {LastBatch(log), Following(LastBatch(log))}
        BY <1>1 DEF InTurn, Positioned, Ahead
    <2>3. global_steps > 0
        BY <1>1 DEF IInv, Counted, InTurn, Positioned
    <2> QED BY <2>1, <2>2, <2>3 DEF InTurn, Recorded, Resumable
<1>3. Recorded'
    BY <1>1, <1>2 DEF InTurn, Recorded
<1>4. Positioned'
    BY <1>1 DEF InTurn, Positioned, Ahead
<1>5. Completed'
    BY <1>1 DEF InTurn, Completed, IsLastStep
<1> QED BY <1>3, <1>4, <1>5 DEF InTurn

LEMMA PostprocessInTurn == ASSUME IInv, InTurn, Postprocess PROVE InTurn'
<1>1. /\ pc = "post" /\ UNCHANGED <<yielded, future, ckpt, log, starts>>
      /\ pc' = IF IsLastStep \/ future = None THEN "returned" ELSE "await"
    BY DEF Postprocess, iterator
<1>2. Recorded'
    BY <1>1 DEF InTurn, Recorded
<1>3. log \in Seq(Entries) /\ Len(log) = global_steps /\ global_steps \in Nat /\ global_steps > 0
    BY <1>1 DEF IInv, Counted, InTurn, Positioned
<1>4. CASE pc' = "returned"
    <2>1. Len(log') >= TotalTrainingSteps
        BY <1>1, <1>3, <1>4 DEF InTurn, Completed, IsLastStep
    <2> QED BY <1>2, <1>4, <2>1 DEF InTurn, Positioned, Completed
<1>5. CASE pc' = "await" /\ future # None
    <2>1. Ahead(LastBatch(log))
        BY <1>1 DEF InTurn, Positioned
    <2>2. ASSUME future.state # "exhausted" PROVE future.batch = yielded /\ Fits(yielded)
        <3>1. yielded = Following(LastBatch(log)) /\ future.batch = yielded
            BY <1>5, <2>1, <2>2 DEF Ahead
        <3>2. starts <= 1 => yielded = (Len(log) % EpochSteps) + 1
            BY <1>3, <3>1, LastInLine DEF InTurn, Recorded
        <3> QED BY <3>1, <3>2 DEF Fits, Follows
    <2>3. Positioned'
        BY <1>1, <1>5, <2>2 DEF Positioned, Fits
    <2> QED BY <1>2, <1>5, <2>3 DEF InTurn, Completed
<1> QED BY <1>1, <1>4, <1>5

LEMMA QuietInTurn == ASSUME InTurn, Validate \/ DontSave \/ UNCHANGED vars PROVE InTurn'
<1>1. /\ UNCHANGED <<global_steps, yielded, future, batch, ckpt, log, starts>>
      /\ pc' = pc \/ (pc \in {"validate", "save"} /\ pc' \in {"save", "post"})
    BY DEF Validate, DontSave, vars, iterator
<1>2. Recorded'
    BY <1>1 DEF InTurn, Recorded
<1>3. Positioned'
    BY <1>1 DEF InTurn, Positioned, Fits, Ahead
<1>4. Completed'
    BY <1>1 DEF InTurn, Completed, IsLastStep
<1> QED BY <1>2, <1>3, <1>4 DEF InTurn

LEMMA CrashInTurn == ASSUME IInv, InTurn, Crash PROVE InTurn'
<1>1. pc # "start" /\ pc' = "start" /\ UNCHANGED <<ckpt, log, starts>>
    BY DEF Crash
<1> QED BY <1>1 DEF InTurn, Recorded, Positioned, Completed

LEMMA InTurnHolds == Spec => [](IInv /\ InTurn)
<1>1. Init => InTurn
    BY InitInTurn
<1>2. IInv /\ InTurn /\ [Next]_vars => InTurn'
    BY StartInTurn, LaunchFirstInTurn, FinishGenerationInTurn, AwaitBatchInTurn, AwaitNothingInTurn,
       SyncWeightsInTurn, LaunchInTurn, TrainInTurn, SaveCheckpointInTurn, PostprocessInTurn,
       QuietInTurn, CrashInTurn DEF Next, FitStep
<1> QED BY <1>1, <1>2, InvariantHolds, PTL DEF Spec

(* A job that returns has trained to the total, over any number of crashes *)
(* and restarts and whatever the iterator held.                            *)
THEOREM ReturnsAfterTheTotal == Spec => []TrainsToTheTotal
<1>1. InTurn => TrainsToTheTotal
    BY DEF InTurn, Completed, TrainsToTheTotal
<1> QED BY <1>1, InTurnHolds, PTL

(* Over one restart, for any length of an epoch and from any checkpoint of *)
(* the first run: no batch is trained twice and none is lost but the one   *)
(* that was prefetched.                                                    *)
THEOREM RestartLosesOneBatch == Spec => []AtMostOneBatchIsLost
<1>1. InTurn => AtMostOneBatchIsLost
    BY DEF InTurn, Recorded, Chained, Follows, AtMostOneBatchIsLost
<1> QED BY <1>1, InTurnHolds, PTL
-----------------------------------------------------------------------------
(* Quotient and remainder of a sum.                                        *)
LEMMA Division ==
    ASSUME NEW n \in Nat, n > 0, NEW q \in Int, NEW r \in 0 .. n - 1, NEW x \in Int, x = n * q + r
    PROVE  x % n = r /\ x \div n = q
<1> DEFINE s == x % n
           k == x \div n
<1>1. s \in 0 .. n - 1 /\ k \in Int /\ x = n * k + s
    BY SMT
<1> HIDE DEF s, k
<1>2. n * (q - k) = s - r /\ q - k \in Int
    BY <1>1, SMT
<1>3. \A y \in Int : (y >= 1 => n * y >= n) /\ (y <= -1 => n * y <= -n)
    BY SMT
<1>4. q - k = 0
    BY <1>1, <1>2, <1>3, SMT
<1>5. s = r
    BY <1>1, <1>2, <1>4, SMT
<1> QED BY <1>4, <1>5, <1>1, SMT DEF s, k

(* The batches of epoch e have the positions behind e * n.                 *)
LEMMA Positions ==
    ASSUME NEW n \in Nat, n > 0, NEW e \in Nat
    PROVE  /\ (e + 1) * n = e * n + n /\ 0 * n = 0 /\ e * n \in Nat
           /\ \A y \in 1 .. n : (e * n + y - 1) \div n = e /\ (e * n + y - 1) % n = y - 1
           /\ \A y \in 0 .. n - 1 : (e * n + y) \div n = e /\ (e * n + y) % n = y
           /\ \A t \in Nat : e < t => e * n + n <= t * n
<1>1. (e + 1) * n = e * n + n /\ 0 * n = 0 /\ e * n \in Nat /\ e * n = n * e
    BY SMT
<1>2. ASSUME NEW y \in 0 .. n - 1 PROVE (e * n + y) \div n = e /\ (e * n + y) % n = y
    <2>1. e * n + y \in Int /\ e * n + y = n * e + y /\ e \in Int
        BY <1>1, SMT
    <2> QED BY <2>1, Division
<1>3. ASSUME NEW y \in 1 .. n PROVE (e * n + y - 1) \div n = e /\ (e * n + y - 1) % n = y - 1
    <2>1. y - 1 \in 0 .. n - 1 /\ e * n + (y - 1) = e * n + y - 1
        BY <1>1, SMT
    <2> QED BY <1>2, <2>1
<1>4. ASSUME NEW t \in Nat, e < t PROVE e * n + n <= t * n
    <2>1. t - (e + 1) \in Nat /\ t = (e + 1) + (t - (e + 1))
        BY <1>4, SMT
    <2>2. (t - (e + 1)) * n \in Nat /\ t * n = (e + 1) * n + (t - (e + 1)) * n
        BY <2>1, SMT
    <2> QED BY <1>1, <2>2, SMT
<1> QED BY <1>1, <1>2, <1>3, <1>4

(* Where a number of steps stands in the epochs.                           *)
LEMMA Epochs ==
    ASSUME NEW n \in Nat, n > 0, NEW x \in Nat
    PROVE  /\ x \div n \in Nat /\ x % n \in 0 .. n - 1 /\ x = (x \div n) * n + (x % n)
           /\ \A t \in Nat : x <= t * n => x \div n <= t
<1> DEFINE q == x \div n
           r == x % n
<1>1. q \in Int /\ r \in 0 .. n - 1 /\ x = n * q + r
    BY SMT
<1> HIDE DEF q, r
<1>2. q >= 0
    <2>1. ~(q <= -1)
        <3> SUFFICES ASSUME q <= -1 PROVE FALSE
            BY <1>1, SMT
        <3>1. n * q <= -n
            <4>1. \A y \in Int : y <= -1 => n * y <= -n
                BY SMT
            <4> QED BY <1>1, <4>1
        <3>2. n * q \in Int
            BY <1>1, SMT
        <3> QED BY <1>1, <3>1, <3>2, SMT
    <2> QED BY <1>1, <2>1, SMT
<1>3. q * n = n * q /\ q \in Nat
    BY <1>1, <1>2, SMT
<1>4. ASSUME NEW t \in Nat, x <= t * n PROVE q <= t
    <2> SUFFICES ASSUME t < q PROVE FALSE
        BY <1>3, SMT
    <2>1. t * n + n <= q * n /\ t * n \in Nat
        BY <1>3, Positions
    <2> QED BY <1>1, <1>3, <1>4, <2>1, SMT
<1>5. x = q * n + r
    BY <1>1, <1>3, SMT
<1> QED BY <1>1, <1>3, <1>4, <1>5 DEF q, r

(* Appending an entry to a log.                                            *)
LEMMA Appended ==
    ASSUME NEW S, NEW entries \in Seq(S), NEW entry \in S
    PROVE  /\ Append(entries, entry) \in Seq(S) /\ Len(entries) \in Nat
           /\ Len(Append(entries, entry)) = Len(entries) + 1
           /\ DOMAIN Append(entries, entry) = DOMAIN entries \cup {Len(entries) + 1}
           /\ DOMAIN entries = 1 .. Len(entries)
           /\ Append(entries, entry)[Len(entries) + 1] = entry
           /\ \A s \in DOMAIN entries : Append(entries, entry)[s] = entries[s]
BY AppendProperties, LenProperties

(* A chosen part of the steps grows by the appended one or not at all.     *)
LEMMA OneMoreChosen ==
    ASSUME NEW n \in Nat, NEW T \in SUBSET (1 .. n)
    PROVE  /\ IsFiniteSet(T) /\ Cardinality(T) \in Nat
           /\ Cardinality(T \cup {n + 1}) = Cardinality(T) + 1
<1>1. IsFiniteSet(1 .. n)
    BY FS_Interval
<1>2. IsFiniteSet(T)
    BY <1>1, FS_Subset
<1>3. n + 1 \notin T
    BY SMT
<1> QED BY <1>2, <1>3, FS_CardinalityType, FS_AddElement
-----------------------------------------------------------------------------
(* TrainerLoop.  The position of a batch: how many batches the epochs hold *)
(* up to it.                                                               *)
l_Position == l_epoch * l_EpochSteps + l_yielded

l_Entries == [batch : Nat \X Nat, outcome : {"skip", "warmup", "train"}]

l_Trained(entries) == {s \in DOMAIN entries : entries[s].outcome = "train"}

l_BatchOf(s) == <<(s - 1) \div l_EpochSteps, ((s - 1) % l_EpochSteps) + 1>>

l_InOrder(entries) == \A s \in DOMAIN entries : entries[s].batch = l_BatchOf(s)

l_Restorable(c) ==
    /\ c \in [step : Nat, version : Nat, yielded : Nat, log : Seq(l_Entries)]
    /\ Len(c.log) = c.step /\ c.version = Cardinality(l_Trained(c.log)) /\ l_InOrder(c.log)
    /\ c.yielded \in 1 .. l_EpochSteps
    /\ \E e \in 0 .. l_TotalEpochs - 1 : e * l_EpochSteps + c.yielded = c.step

(* The counters and the log, and the loader in step with them.             *)
l_Counted ==
    /\ l_pc \in {"start", "next", "generate", "reward", "save", "refresh", "validate",
                 "returned", "ended"}
    /\ l_epoch \in 0 .. l_TotalEpochs /\ l_yielded \in 0 .. l_EpochSteps
    /\ l_awake \in BOOLEAN /\ l_served \in Nat /\ l_validated \in Nat
    /\ l_global_steps \in Nat /\ l_log \in Seq(l_Entries)
    /\ l_pc = "start" => l_global_steps \in {Len(l_log), Len(l_log) + 1}
    /\ l_pc \in {"next", "generate", "reward", "returned", "ended"} => l_global_steps = Len(l_log) + 1
    /\ l_pc \in {"save", "refresh", "validate"} => l_global_steps = Len(l_log)
    /\ l_pc = "next" => l_Position = Len(l_log)
    /\ l_pc \in {"generate", "reward"} => l_Position = Len(l_log) + 1
    /\ l_pc \in {"save", "refresh", "validate"} => l_Position = Len(l_log)
    /\ l_pc \in {"generate", "reward", "save", "refresh", "validate"} =>
           l_epoch < l_TotalEpochs /\ l_yielded >= 1

(* Log and checkpoint describe the weights.                                *)
l_Matched ==
    /\ l_version \in Nat /\ (l_pc # "start" => l_version = Cardinality(l_Trained(l_log)))
    /\ l_InOrder(l_log)
    /\ l_ckpt = None \/ l_Restorable(l_ckpt)

(* Replicas that are about to generate have been given the weights.        *)
l_Current == l_pc \in {"next", "generate", "validate"} => l_awake /\ l_served = l_version

(* What was due is on disk, except for the step that is about to be saved. *)
l_Saved ==
    /\ l_pc # "start" /\ SaveFreq > 0 =>
           \A s \in l_Trained(l_log) :
               s % SaveFreq = 0 /\ ~(l_pc = "save" /\ s = Len(l_log)) =>
                   l_ckpt # None /\ l_ckpt.step >= s
    /\ l_pc \in {"refresh", "validate"} /\ Loop!IsLastStep /\ SaveFreq > 0 /\ l_log[Len(l_log)].outcome = "train" =>
           l_ckpt # None /\ l_ckpt.step = Len(l_log)
    /\ l_pc = "validate" => Len(l_log) > 0
    /\ Loop!ReturnsSavedAndValidated

l_IInv == l_Counted /\ l_Matched /\ l_Current /\ l_Saved
-----------------------------------------------------------------------------
LEMMA l_Constants ==
    /\ l_EpochSteps \in Nat /\ l_EpochSteps > 0 /\ l_TotalEpochs \in Nat /\ l_TotalEpochs > 0
    /\ None \notin [step : Nat, version : Nat, yielded : Nat, log : Seq(l_Entries)]
    /\ SaveFreq \in Int
BY InstancesAssumption, FrequencyAssumption DEF Loop!StepsAssumption, Loop!NoneAssumption, l_Entries

LEMMA l_Types == ASSUME l_IInv PROVE
    /\ l_epoch \in Nat /\ l_yielded \in Nat /\ l_log \in Seq(l_Entries) /\ Len(l_log) \in Nat
    /\ l_Position \in Nat /\ DOMAIN l_log = 1 .. Len(l_log)
BY l_Constants, Positions, LenProperties DEF l_IInv, l_Counted, l_Position

LEMMA l_InitIInv == Loop!Init => l_IInv
<1> SUFFICES ASSUME Loop!Init PROVE l_IInv
    OBVIOUS
<1>1. l_log = << >> /\ Len(l_log) = 0 /\ DOMAIN l_log = {} /\ l_log \in Seq(l_Entries)
    BY EmptySeq DEF Loop!Init
<1>2. l_Counted
    <2>1. /\ 0 \in 0 .. l_TotalEpochs /\ 0 \in 0 .. l_EpochSteps /\ 0 \in Nat /\ FALSE \in BOOLEAN
          /\ 0 \in {0, 0 + 1}
        BY l_Constants
    <2>2. /\ l_pc = "start" /\ l_epoch = 0 /\ l_yielded = 0 /\ l_awake = FALSE /\ l_served = 0
          /\ l_validated = 0 /\ l_global_steps = 0
        BY DEF Loop!Init
    <2> QED BY <1>1, <2>1, <2>2 DEF l_Counted
<1>3. l_Matched /\ l_Current
    BY <1>1 DEF Loop!Init, l_Matched, l_Current, l_InOrder
<1>4. l_Saved
    BY <1>1 DEF Loop!Init, l_Saved, Loop!ReturnsSavedAndValidated
<1> QED BY <1>2, <1>3, <1>4 DEF l_IInv

(* A start from nothing, and one from a checkpoint.                        *)
LEMMA l_StartAfresh == ASSUME l_IInv, Loop!Start, l_ckpt = None PROVE l_IInv'
<1>1. /\ l_pc' = "next" /\ l_awake' = TRUE /\ l_global_steps' = 1 /\ l_epoch' = 0 /\ l_yielded' = 0
      /\ l_version' = 0 /\ l_served' = 0 /\ l_log' = << >> /\ l_ckpt' = None /\ l_validated' = l_validated
    BY DEF Loop!Start
<1>2. Len(l_log') = 0 /\ DOMAIN l_log' = {} /\ l_log' \in Seq(l_Entries) /\ l_Position' = 0
    BY <1>1, EmptySeq, l_Constants, Positions DEF l_Position
<1>3. l_Counted'
    BY <1>1, <1>2, l_Constants DEF l_IInv, l_Counted
<1>4. Cardinality({}) = 0
    BY FS_EmptySet
<1>5. l_Matched' /\ l_Current'
    BY <1>1, <1>2, <1>4 DEF l_Matched, l_Current, l_InOrder, l_Trained
<1>6. l_Saved'
    BY <1>1, <1>2 DEF l_Saved, l_Trained, Loop!ReturnsSavedAndValidated
<1> QED BY <1>3, <1>5, <1>6 DEF l_IInv

LEMMA l_StartAgain == ASSUME l_IInv, Loop!Start, l_ckpt # None PROVE l_IInv'
<1>1. /\ l_pc' = "next" /\ l_awake' = TRUE /\ l_global_steps' = l_ckpt.step + 1
      /\ l_epoch' = l_ckpt.step \div l_EpochSteps
      /\ l_yielded' = IF l_ckpt.step % l_EpochSteps = 0 THEN 0 ELSE l_ckpt.yielded
      /\ l_version' = l_ckpt.version /\ l_served' = l_ckpt.version
      /\ l_log' = l_ckpt.log /\ l_ckpt' = l_ckpt /\ l_validated' = l_validated
    BY DEF Loop!Start, Loop!RestoredPosition
<1>2. l_Restorable(l_ckpt)
    BY DEF l_IInv, l_Matched
<1>3. /\ l_ckpt.step \in Nat /\ l_ckpt.version \in Nat /\ l_ckpt.log \in Seq(l_Entries)
      /\ Len(l_ckpt.log) = l_ckpt.step /\ l_ckpt.yielded \in 1 .. l_EpochSteps
    BY <1>2 DEF l_Restorable
<1>4. PICK e \in 0 .. l_TotalEpochs - 1 : e * l_EpochSteps + l_ckpt.yielded = l_ckpt.step
    BY <1>2 DEF l_Restorable
<1>5. l_epoch' \in 0 .. l_TotalEpochs /\ l_yielded' \in 0 .. l_EpochSteps /\ l_Position' = l_ckpt.step
    <2>1. e \in Nat /\ e < l_TotalEpochs
        BY l_Constants
    <2>2. CASE l_ckpt.yielded = l_EpochSteps
        <3>1. l_ckpt.step = (e + 1) * l_EpochSteps /\ e + 1 \in 0 .. l_TotalEpochs /\ e + 1 \in Nat
            BY <1>4, <2>1, <2>2, l_Constants, Positions
        <3>2. 0 \in 0 .. l_EpochSteps - 1 /\ (e + 1) * l_EpochSteps \in Nat
            BY <3>1, l_Constants, <1>3
        <3>3. ((e + 1) * l_EpochSteps + 0) \div l_EpochSteps = e + 1
              /\ ((e + 1) * l_EpochSteps + 0) % l_EpochSteps = 0
            BY <3>1, <3>2, l_Constants, Positions
        <3>4. l_epoch' = e + 1 /\ l_yielded' = 0
            BY <1>1, <3>1, <3>2, <3>3
        <3> QED BY <3>1, <3>2, <3>4, l_Constants DEF l_Position
    <2>3. CASE l_ckpt.yielded # l_EpochSteps
        <3>1. l_ckpt.yielded \in 0 .. l_EpochSteps - 1 /\ l_ckpt.yielded # 0
            BY <1>3, <2>3, l_Constants
        <3>2. l_ckpt.step \div l_EpochSteps = e /\ l_ckpt.step % l_EpochSteps = l_ckpt.yielded
            <4>1. \A y \in 0 .. l_EpochSteps - 1 : /\ (e * l_EpochSteps + y) \div l_EpochSteps = e
                                                   /\ (e * l_EpochSteps + y) % l_EpochSteps = y
                BY <2>1, l_Constants, Positions
            <4>2. /\ (e * l_EpochSteps + l_ckpt.yielded) \div l_EpochSteps = e
                  /\ (e * l_EpochSteps + l_ckpt.yielded) % l_EpochSteps = l_ckpt.yielded
                BY <3>1, <4>1, Zenon
            <4> QED BY <1>4, <4>2, Zenon
        <3>3. l_epoch' = e /\ l_yielded' = l_ckpt.yielded
            BY <1>1, <3>1, <3>2
        <3> QED BY <1>3, <1>4, <2>1, <3>3, l_Constants DEF l_Position
    <2> QED BY <2>2, <2>3
<1>6. l_Counted'
    BY <1>1, <1>3, <1>5, l_Constants DEF l_IInv, l_Counted
<1>7. l_Matched' /\ l_Current'
    BY <1>1, <1>2, <1>3 DEF l_Matched, l_Current, l_Restorable
<1>8. l_Saved'
    <2>1. DOMAIN l_log' = 1 .. l_ckpt.step
        BY <1>1, <1>3, LenProperties
    <2>2. \A s \in l_Trained(l_log') : l_ckpt' # None /\ l_ckpt'.step >= s
        BY <1>1, <1>3, <2>1 DEF l_Trained
    <2> QED BY <1>1, <2>2 DEF l_Saved, Loop!ReturnsSavedAndValidated
<1> QED BY <1>6, <1>7, <1>8 DEF l_IInv

LEMMA l_NextBatchIInv == ASSUME l_IInv, Loop!NextBatch PROVE l_IInv'
<1>1. /\ l_pc = "next" /\ l_pc' = "generate" /\ l_epoch < l_TotalEpochs /\ l_yielded < l_EpochSteps
      /\ l_yielded' = l_yielded + 1
      /\ UNCHANGED <<l_global_steps, l_epoch, l_version, l_awake, l_served, l_ckpt, l_validated, l_log>>
    BY DEF Loop!NextBatch, Loop!replicas
<1>2. l_yielded' \in 0 .. l_EpochSteps /\ l_yielded' >= 1 /\ l_Position' = Len(l_log) + 1
    BY <1>1, l_Types, l_Constants, Positions DEF l_IInv, l_Counted, l_Position
<1>3. l_Counted'
    BY <1>1, <1>2 DEF l_IInv, l_Counted
<1>4. l_Matched' /\ l_Current'
    BY <1>1 DEF l_IInv, l_Matched, l_Current
<1>5. l_Saved'
    BY <1>1 DEF l_IInv, l_Saved, Loop!ReturnsSavedAndValidated
<1> QED BY <1>3, <1>4, <1>5 DEF l_IInv

LEMMA l_NextEpochIInv == ASSUME l_IInv, Loop!NextEpoch PROVE l_IInv'
<1>1. /\ l_pc = "next" /\ l_epoch < l_TotalEpochs /\ l_yielded = l_EpochSteps
      /\ l_epoch' = l_epoch + 1 /\ l_yielded' = 0
      /\ UNCHANGED <<l_pc, l_global_steps, l_version, l_awake, l_served, l_ckpt, l_validated, l_log>>
    BY DEF Loop!NextEpoch, Loop!replicas
<1>2. l_epoch' \in 0 .. l_TotalEpochs /\ l_yielded' \in 0 .. l_EpochSteps /\ l_Position' = Len(l_log)
    BY <1>1, l_Types, l_Constants, Positions DEF l_IInv, l_Counted, l_Position
<1>3. l_Counted'
    BY <1>1, <1>2 DEF l_IInv, l_Counted
<1>4. l_Matched' /\ l_Current'
    BY <1>1 DEF l_IInv, l_Matched, l_Current
<1>5. l_Saved'
    BY <1>1 DEF l_IInv, l_Saved, Loop!ReturnsSavedAndValidated
<1> QED BY <1>3, <1>4, <1>5 DEF l_IInv

LEMMA l_QuietIInv ==
    ASSUME l_IInv,
           \/ l_pc = "next" /\ l_pc' = "ended" /\ UNCHANGED l_awake
           \/ l_pc = "generate" /\ l_pc' = "reward" /\ l_awake' = FALSE
           \/ l_pc # "start" /\ l_pc' = "start" /\ l_awake' = FALSE
           \/ UNCHANGED <<l_pc, l_awake>>,
           UNCHANGED <<l_global_steps, l_epoch, l_yielded, l_version, l_served, l_ckpt,
                       l_validated, l_log>>
    PROVE  l_IInv'
<1>1. l_Position' = l_Position
    BY DEF l_Position
<1>2. l_Counted'
    BY <1>1 DEF l_IInv, l_Counted
<1>3. l_Matched' /\ l_Current'
    BY DEF l_IInv, l_Matched, l_Current
<1>4. l_Saved'
    BY DEF l_IInv, l_Saved, Loop!ReturnsSavedAndValidated, Loop!IsLastStep
<1> QED BY <1>2, <1>3, <1>4 DEF l_IInv

(* A step enters the log: its batch is the one whose turn it is.           *)
LEMMA l_StepLogged ==
    ASSUME l_IInv, l_pc = "reward", NEW outcome \in {"skip", "warmup", "train"},
           l_log' = Loop!Logged(outcome)
    PROVE  /\ l_log' \in Seq(l_Entries) /\ Len(l_log') = Len(l_log) + 1
           /\ l_InOrder(l_log') /\ l_log'[Len(l_log')].outcome = outcome
           /\ outcome = "train" => /\ l_Trained(l_log') = l_Trained(l_log) \cup {Len(l_log) + 1}
                                   /\ Cardinality(l_Trained(l_log')) = Cardinality(l_Trained(l_log)) + 1
           /\ outcome # "train" => l_Trained(l_log') = l_Trained(l_log)
<1> DEFINE n == Len(l_log)
           entry == [batch |-> <<l_epoch, l_yielded>>, outcome |-> outcome]
<1>1. l_log' = Append(l_log, entry) /\ entry \in l_Entries /\ l_log \in Seq(l_Entries) /\ n \in Nat
    BY l_Types DEF Loop!Logged, l_Entries
<1>2. /\ l_log' \in Seq(l_Entries) /\ Len(l_log') = n + 1
      /\ DOMAIN l_log' = DOMAIN l_log \cup {n + 1} /\ DOMAIN l_log = 1 .. n
      /\ l_log'[n + 1] = entry /\ \A s \in DOMAIN l_log : l_log'[s] = l_log[s]
    BY <1>1, Appended
<1>3. l_BatchOf(n + 1) = <<l_epoch, l_yielded>>
    <2>1. /\ l_epoch \in Nat /\ l_yielded \in 1 .. l_EpochSteps
          /\ l_epoch * l_EpochSteps + l_yielded = n + 1
        BY l_Types DEF l_IInv, l_Counted, l_Position
    <2>2. /\ (l_epoch * l_EpochSteps + l_yielded - 1) \div l_EpochSteps = l_epoch
          /\ (l_epoch * l_EpochSteps + l_yielded - 1) % l_EpochSteps = l_yielded - 1
        BY <2>1, l_Constants, Positions
    <2>3. (l_yielded - 1) + 1 = l_yielded
        BY <2>1
    <2>4. l_epoch * l_EpochSteps \in Int
        BY <2>1, l_Constants, Positions
    <2>5. (n + 1) - 1 = l_epoch * l_EpochSteps + l_yielded - 1
        <3> DEFINE k == l_epoch * l_EpochSteps
        <3> HIDE DEF k
        <3> QED BY <1>1, <2>1, <2>4, SMT DEF k
    <2> QED BY <2>2, <2>3, <2>5, Zenon DEF l_BatchOf
<1>4. l_InOrder(l_log')
    BY <1>2, <1>3 DEF l_IInv, l_Matched, l_InOrder
<1>5. l_Trained(l_log) \in SUBSET (1 .. n)
    BY <1>2 DEF l_Trained
<1>6. outcome = "train" => l_Trained(l_log') = l_Trained(l_log) \cup {n + 1}
    BY <1>2 DEF l_Trained
<1>7. outcome # "train" => l_Trained(l_log') = l_Trained(l_log)
    BY <1>2 DEF l_Trained
<1>8. Cardinality(l_Trained(l_log) \cup {n + 1}) = Cardinality(l_Trained(l_log)) + 1
    BY <1>1, <1>5, OneMoreChosen
<1>9. l_log'[Len(l_log')].outcome = outcome
    BY <1>2
<1> HIDE DEF n, entry
<1>10. n = Len(l_log)
    BY DEF n
<1> QED BY <1>2, <1>4, <1>6, <1>7, <1>8, <1>9, <1>10

(* What was due before the step was logged is on disk.                     *)
LEMMA l_DueBefore ==
    ASSUME l_IInv, l_pc = "reward", SaveFreq > 0, NEW s \in l_Trained(l_log), s % SaveFreq = 0
    PROVE  l_ckpt # None /\ l_ckpt.step >= s
BY DEF l_IInv, l_Saved

LEMMA l_SkipStepIInv == ASSUME l_IInv, Loop!SkipStep PROVE l_IInv'
<1>1. /\ l_pc = "reward" /\ l_pc' = "next" /\ l_log' = Loop!Logged("skip")
      /\ l_global_steps' = l_global_steps + 1 /\ l_awake' = TRUE /\ l_served' = l_version
      /\ UNCHANGED <<l_epoch, l_yielded, l_version, l_ckpt, l_validated>>
    BY DEF Loop!SkipStep, Loop!UpdateWeights
<1>2. /\ l_log' \in Seq(l_Entries) /\ Len(l_log') = Len(l_log) + 1 /\ l_InOrder(l_log')
      /\ l_Trained(l_log') = l_Trained(l_log)
    BY <1>1, l_StepLogged
<1>3. l_Position' = l_Position /\ l_global_steps = Len(l_log) + 1 /\ Len(l_log) \in Nat /\ l_version \in Nat
    BY <1>1, l_Types DEF l_IInv, l_Counted, l_Matched, l_Position
<1>4. l_Counted'
    BY <1>1, <1>2, <1>3 DEF l_IInv, l_Counted
<1>5. l_Matched' /\ l_Current'
    BY <1>1, <1>2 DEF l_IInv, l_Matched, l_Current
<1>6. l_Saved'
    BY <1>1, <1>2, l_DueBefore DEF l_Saved, Loop!ReturnsSavedAndValidated
<1> QED BY <1>4, <1>5, <1>6 DEF l_IInv

LEMMA l_WarmUpIInv == ASSUME l_IInv, Loop!WarmUp PROVE l_IInv'
<1>1. /\ l_pc = "reward" /\ l_pc' = "validate" /\ l_log' = Loop!Logged("warmup")
      /\ l_awake' = TRUE /\ l_served' = l_version
      /\ UNCHANGED <<l_global_steps, l_epoch, l_yielded, l_version, l_ckpt, l_validated>>
    BY DEF Loop!WarmUp, Loop!UpdateWeights, Loop!loop
<1>2. /\ l_log' \in Seq(l_Entries) /\ Len(l_log') = Len(l_log) + 1 /\ l_InOrder(l_log')
      /\ l_Trained(l_log') = l_Trained(l_log) /\ l_log'[Len(l_log')].outcome = "warmup"
    BY <1>1, l_StepLogged
<1>3. l_Position' = l_Position /\ l_global_steps = Len(l_log) + 1 /\ Len(l_log) \in Nat /\ l_version \in Nat
    BY <1>1, l_Types DEF l_IInv, l_Counted, l_Matched, l_Position
<1>4. l_Counted'
    BY <1>1, <1>2, <1>3 DEF l_IInv, l_Counted
<1>5. l_Matched' /\ l_Current'
    BY <1>1, <1>2 DEF l_IInv, l_Matched, l_Current
<1>6. Len(l_log') > 0
    BY <1>2, <1>3
<1>7. l_Saved'
    BY <1>1, <1>2, <1>6, l_DueBefore DEF l_Saved, Loop!ReturnsSavedAndValidated
<1> QED BY <1>4, <1>5, <1>7 DEF l_IInv

LEMMA l_UpdateActorIInv == ASSUME l_IInv, Loop!UpdateActor PROVE l_IInv'
<1>1. /\ l_pc = "reward" /\ l_pc' = "save" /\ l_log' = Loop!Logged("train")
      /\ l_version' = l_version + 1
      /\ UNCHANGED <<l_global_steps, l_epoch, l_yielded, l_awake, l_served, l_ckpt, l_validated>>
    BY DEF Loop!UpdateActor, Loop!loop, Loop!replicas
<1>2. /\ l_log' \in Seq(l_Entries) /\ Len(l_log') = Len(l_log) + 1 /\ l_InOrder(l_log')
      /\ l_Trained(l_log') = l_Trained(l_log) \cup {Len(l_log) + 1}
      /\ Cardinality(l_Trained(l_log')) = Cardinality(l_Trained(l_log)) + 1
    BY <1>1, l_StepLogged
<1>3. l_Position' = l_Position /\ l_global_steps = Len(l_log) + 1 /\ Len(l_log) \in Nat /\ l_version \in Nat
    BY <1>1, l_Types DEF l_IInv, l_Counted, l_Matched, l_Position
<1>4. l_Counted'
    BY <1>1, <1>2, <1>3 DEF l_IInv, l_Counted
<1>5. l_Matched' /\ l_Current'
    BY <1>1, <1>2, <1>3 DEF l_IInv, l_Matched, l_Current
<1>6. l_Saved'
    BY <1>1, <1>2, l_DueBefore DEF l_Saved, Loop!ReturnsSavedAndValidated
<1> QED BY <1>4, <1>5, <1>6 DEF l_IInv

LEMMA l_SaveCheckpointIInv == ASSUME l_IInv, Loop!SaveCheckpoint PROVE l_IInv'
<1>1. /\ l_pc = "save" /\ l_pc' = "refresh"
      /\ l_ckpt' = [step |-> l_global_steps, version |-> l_version, yielded |-> l_yielded, log |-> l_log]
      /\ UNCHANGED <<l_global_steps, l_epoch, l_yielded, l_version, l_awake, l_served, l_validated, l_log>>
    BY DEF Loop!SaveCheckpoint, Loop!loop, Loop!replicas
<1>2. /\ l_global_steps = Len(l_log) /\ l_Position = Len(l_log) /\ l_version = Cardinality(l_Trained(l_log))
      /\ l_epoch < l_TotalEpochs /\ l_yielded >= 1 /\ l_InOrder(l_log) /\ l_version \in Nat
      /\ l_epoch \in 0 .. l_TotalEpochs /\ l_yielded \in 0 .. l_EpochSteps
    BY <1>1 DEF l_IInv, l_Counted, l_Matched
<1>3. l_ckpt' \in [step : Nat, version : Nat, yielded : Nat, log : Seq(l_Entries)] /\ l_ckpt' # None
    BY <1>1, <1>2, l_Types, l_Constants
<1>4. l_Restorable(l_ckpt')
    <2>1. l_yielded \in 1 .. l_EpochSteps /\ l_epoch \in 0 .. l_TotalEpochs - 1
        BY <1>2, l_Constants
    <2> QED BY <1>1, <1>2, <1>3, <2>1 DEF l_Restorable, l_Position
<1>5. l_Counted'
    BY <1>1 DEF l_IInv, l_Counted, l_Position
<1>6. l_Matched' /\ l_Current'
    BY <1>1, <1>4 DEF l_IInv, l_Matched, l_Current
<1>7. l_Saved'
    <2>1. \A s \in l_Trained(l_log) : l_ckpt' # None /\ l_ckpt'.step >= s
        BY <1>1, <1>2, <1>3, l_Types DEF l_Trained
    <2> QED BY <1>1, <1>2, <1>3, <2>1 DEF l_Saved, Loop!ReturnsSavedAndValidated
<1> QED BY <1>5, <1>6, <1>7 DEF l_IInv

LEMMA l_DontSaveIInv == ASSUME l_IInv, Loop!DontSave PROVE l_IInv'
<1>1. /\ l_pc = "save" /\ l_pc' = "refresh" /\ ~Loop!SaveDue
      /\ UNCHANGED <<l_global_steps, l_epoch, l_yielded, l_version, l_awake, l_served, l_ckpt,
                     l_validated, l_log>>
    BY DEF Loop!DontSave, Loop!loop, Loop!replicas
<1>2. l_global_steps = Len(l_log)
    BY <1>1 DEF l_IInv, l_Counted
<1>3. SaveFreq > 0 => ~Loop!IsLastStep /\ Len(l_log) % SaveFreq # 0
    BY <1>1, <1>2 DEF Loop!SaveDue
<1>4. Loop!IsLastStep' <=> Loop!IsLastStep
    BY <1>1 DEF Loop!IsLastStep
<1>5. l_Counted'
    BY <1>1 DEF l_IInv, l_Counted, l_Position
<1>6. l_Matched' /\ l_Current'
    BY <1>1 DEF l_IInv, l_Matched, l_Current
<1>7. l_Saved'
    BY <1>1, <1>3, <1>4 DEF l_IInv, l_Saved, Loop!ReturnsSavedAndValidated
<1> QED BY <1>5, <1>6, <1>7 DEF l_IInv

LEMMA l_RefreshIInv == ASSUME l_IInv, Loop!Refresh PROVE l_IInv'
<1>1. /\ l_pc = "refresh" /\ l_pc' = "validate" /\ l_awake' = TRUE /\ l_served' = l_version
      /\ UNCHANGED <<l_global_steps, l_epoch, l_yielded, l_version, l_ckpt, l_validated, l_log>>
    BY DEF Loop!Refresh, Loop!loop, Loop!UpdateWeights
<1>2. Loop!IsLastStep' <=> Loop!IsLastStep
    BY <1>1 DEF Loop!IsLastStep
<1>3. Len(l_log) > 0
    BY <1>1, l_Types, l_Constants, Positions DEF l_IInv, l_Counted, l_Position
<1>4. l_Counted'
    BY <1>1 DEF l_IInv, l_Counted, l_Matched, l_Position
<1>5. l_Matched' /\ l_Current'
    BY <1>1 DEF l_IInv, l_Matched, l_Current
<1>6. l_Saved'
    BY <1>1, <1>2, <1>3 DEF l_IInv, l_Saved, Loop!ReturnsSavedAndValidated
<1> QED BY <1>4, <1>5, <1>6 DEF l_IInv

LEMMA l_EndStepIInv == ASSUME l_IInv, Loop!EndStep PROVE l_IInv'
<1>1. /\ l_pc = "validate" /\ l_global_steps' = l_global_steps + 1
      /\ l_pc' = IF Loop!IsLastStep THEN "returned" ELSE "next"
      /\ l_validated' = IF Loop!TestDue THEN l_global_steps ELSE l_validated
      /\ UNCHANGED <<l_epoch, l_yielded, l_version, l_awake, l_served, l_ckpt, l_log>>
    BY DEF Loop!EndStep, Loop!replicas
<1>2. l_global_steps = Len(l_log) /\ Len(l_log) \in Nat /\ Len(l_log) > 0
    BY <1>1, l_Types DEF l_IInv, l_Counted, l_Saved
<1>3. l_Counted'
    BY <1>1, <1>2 DEF l_IInv, l_Counted, l_Position
<1>4. l_Matched' /\ l_Current'
    BY <1>1 DEF l_IInv, l_Matched, l_Current
<1>5. Loop!ReturnsSavedAndValidated'
    BY <1>1, <1>2 DEF l_IInv, l_Saved, Loop!ReturnsSavedAndValidated, Loop!TestDue
<1>6. l_Saved'
    BY <1>1, <1>2, <1>5 DEF l_IInv, l_Saved
<1> QED BY <1>3, <1>4, <1>6 DEF l_IInv

LEMMA l_NextIInv == l_IInv /\ [Loop!Next]_(Loop!vars) => l_IInv'
<1> SUFFICES ASSUME l_IInv, [Loop!Next]_(Loop!vars) PROVE l_IInv'
    OBVIOUS
<1>1. CASE Loop!RunOut \/ Loop!Generate \/ Loop!Crash \/ Loop!SubmitAgain
    BY <1>1, l_QuietIInv DEF Loop!RunOut, Loop!Generate, Loop!Crash, Loop!SubmitAgain, Loop!loop,
       Loop!replicas
<1>2. CASE UNCHANGED Loop!vars
    BY <1>2, l_QuietIInv DEF Loop!vars, Loop!loop, Loop!replicas
<1> QED BY <1>1, <1>2, l_StartAfresh, l_StartAgain, l_NextBatchIInv, l_NextEpochIInv, l_SkipStepIInv,
           l_WarmUpIInv, l_UpdateActorIInv, l_SaveCheckpointIInv, l_DontSaveIInv, l_RefreshIInv,
           l_EndStepIInv DEF Loop!Next

LEMMA l_InvariantHolds == Loop!Spec => []l_IInv
<1> QED BY l_InitIInv, l_NextIInv, PTL DEF Loop!Spec

(* The instances have a cardinality of their own.                          *)
LEMMA l_Cardinality == ASSUME NEW S PROVE Loop!Cardinality(S) = Cardinality(S)
BY Zenon DEF Loop!Cardinality, Cardinality

LEMMA q_Cardinality == ASSUME NEW S PROVE Queue!Cardinality(S) = Cardinality(S)
BY Zenon DEF Queue!Cardinality, Cardinality

(* The invariant contains what TrainerLoop promises.                       *)
LEMMA l_Promises ==
    ASSUME l_IInv
    PROVE  /\ Loop!TypeOK /\ Loop!GeneratesWithCurrentWeights /\ Loop!EveryBatchInTurn
           /\ Loop!WeightsMatchTheLog /\ Loop!DueStepsAreSaved /\ Loop!ReturnsSavedAndValidated
<1>1. Loop!TypeOK
    BY l_Types DEF l_IInv, l_Counted, l_Matched, Loop!TypeOK
<1>2. Loop!GeneratesWithCurrentWeights
    BY DEF l_IInv, l_Current, Loop!GeneratesWithCurrentWeights
<1>3. Loop!EveryBatchInTurn
    BY DEF l_IInv, l_Matched, l_InOrder, l_BatchOf, Loop!EveryBatchInTurn
<1>4. Loop!WeightsMatchTheLog
    <2>1. l_pc # "start" => l_version = Cardinality({s \in DOMAIN l_log : l_log[s].outcome = "train"})
        BY DEF l_IInv, l_Matched, l_Trained
    <2>2. l_ckpt # None =>
              /\ l_ckpt.step = Len(l_ckpt.log)
              /\ l_ckpt.version = Cardinality({s \in DOMAIN l_ckpt.log : l_ckpt.log[s].outcome = "train"})
        BY DEF l_IInv, l_Matched, l_Restorable, l_Trained
    <2> QED BY <2>1, <2>2, l_Cardinality, Zenon DEF Loop!WeightsMatchTheLog, Loop!Outcomes
<1>5. Loop!DueStepsAreSaved
    BY DEF l_IInv, l_Saved, l_Trained, Loop!DueStepsAreSaved, Loop!Outcomes
<1>6. Loop!ReturnsSavedAndValidated
    BY DEF l_IInv, l_Saved
<1> QED BY <1>1, <1>2, <1>3, <1>4, <1>5, <1>6
-----------------------------------------------------------------------------
(* TransferQueueTrainer.  The loader may be one epoch ahead of the steps,  *)
(* after a restart from the end of an epoch.                               *)
q_Position == q_epoch * q_EpochSteps + q_yielded

q_Entries == [batch : Nat \X Nat, learns : BOOLEAN]

q_Learned(entries) == {s \in DOMAIN entries : entries[s].learns}

q_PositionOf(entry) == entry.batch[1] * q_EpochSteps + entry.batch[2]

q_OnTime(entries) == \A s \in DOMAIN entries : q_PositionOf(entries[s]) = s

q_InTurn(entries) ==
    /\ \A s \in DOMAIN entries : q_PositionOf(entries[s]) \in {s, s + q_EpochSteps}
    /\ \A s \in 1 .. Len(entries) - 1 :
           q_PositionOf(entries[s]) = s + q_EpochSteps =>
               q_PositionOf(entries[s + 1]) = s + 1 + q_EpochSteps

q_Restorable(c) ==
    /\ c \in [step : Nat, version : Nat, yielded : Nat, log : Seq(q_Entries)]
    /\ Len(c.log) = c.step /\ c.version = Cardinality(q_Learned(c.log))
    /\ c.yielded \in 1 .. q_EpochSteps
    /\ \E e \in 0 .. q_TotalEpochs - 1 :
           e * q_EpochSteps + c.yielded \in {c.step, c.step + q_EpochSteps}

q_Counted ==
    /\ q_pc \in {"start", "next", "rollout", "update", "save", "refresh", "end step",
                 "returned", "ended"}
    /\ q_epoch \in 0 .. q_TotalEpochs /\ q_yielded \in 0 .. q_EpochSteps
    /\ q_awake \in BOOLEAN /\ q_served \in Nat /\ q_starts \in Nat
    /\ q_global_steps \in Nat /\ q_log \in Seq(q_Entries)
    /\ q_pc = "start" => q_global_steps \in {Len(q_log), Len(q_log) + 1}
    /\ q_pc \in {"next", "rollout", "update", "returned", "ended"} => q_global_steps = Len(q_log) + 1
    /\ q_pc \in {"save", "refresh", "end step"} => q_global_steps = Len(q_log)
    /\ q_pc \in {"rollout", "update", "save", "refresh", "end step"} =>
           q_epoch < q_TotalEpochs /\ q_yielded >= 1

(* The batch at hand, or the last one, is that of the step or one epoch on.*)
q_Offset(n) ==
    /\ q_Position \in {n, n + q_EpochSteps}
    /\ q_starts <= 1 => q_Position = n
    /\ q_starts <= 2 /\ Len(q_log) > 0 /\ q_PositionOf(q_log[Len(q_log)]) = Len(q_log) + q_EpochSteps =>
           q_Position = n + q_EpochSteps

q_Positioned ==
    /\ q_pc \in {"next", "save", "refresh", "end step"} => q_Offset(Len(q_log))
    /\ q_pc \in {"rollout", "update"} => q_Offset(Len(q_log) + 1)

q_Matched ==
    /\ q_version \in Nat /\ (q_pc # "start" => q_version = Cardinality(q_Learned(q_log)))
    /\ q_ckpt = None \/ q_Restorable(q_ckpt)
    /\ q_starts = 0 => q_pc = "start" /\ q_ckpt = None
    /\ q_starts <= 1 => q_OnTime(q_log) /\ (q_ckpt # None => q_OnTime(q_ckpt.log))
    /\ q_starts <= 2 => q_InTurn(q_log)

q_Current == q_pc \in {"next", "rollout", "end step"} => q_awake /\ q_served = q_version

q_IInv == q_Counted /\ q_Positioned /\ q_Matched /\ q_Current
-----------------------------------------------------------------------------
LEMMA q_Constants ==
    /\ q_EpochSteps \in Nat /\ q_EpochSteps > 0 /\ q_TotalEpochs \in Nat /\ q_TotalEpochs > 0
BY InstancesAssumption DEF Queue!StepsAssumption

LEMMA q_Types == ASSUME q_IInv PROVE
    /\ q_epoch \in Nat /\ q_yielded \in Nat /\ q_log \in Seq(q_Entries) /\ Len(q_log) \in Nat
    /\ q_Position \in Nat /\ DOMAIN q_log = 1 .. Len(q_log) /\ q_epoch * q_EpochSteps \in Nat
<1>1. q_epoch \in Nat /\ q_yielded \in Nat /\ q_log \in Seq(q_Entries)
    <2>1. q_epoch \in 0 .. q_TotalEpochs /\ q_yielded \in 0 .. q_EpochSteps /\ q_log \in Seq(q_Entries)
        BY Zenon DEF q_IInv, q_Counted
    <2> QED BY <2>1, q_Constants
<1>2. q_epoch * q_EpochSteps \in Nat
    BY <1>1, q_Constants, Positions
<1>3. q_Position \in Nat
    <2> DEFINE k == q_epoch * q_EpochSteps
    <2>1. k \in Nat /\ q_Position = k + q_yielded
        BY <1>2 DEF q_Position
    <2> HIDE DEF k
    <2> QED BY <1>1, <2>1
<1> QED BY <1>1, <1>2, <1>3, LenProperties

LEMMA q_InitIInv == Queue!Init => q_IInv
<1> SUFFICES ASSUME Queue!Init PROVE q_IInv
    OBVIOUS
<1>1. q_log = << >> /\ Len(q_log) = 0 /\ DOMAIN q_log = {} /\ q_log \in Seq(q_Entries)
    BY EmptySeq DEF Queue!Init
<1>2. /\ q_pc = "start" /\ q_epoch = 0 /\ q_yielded = 0 /\ q_awake = FALSE /\ q_served = 0
      /\ q_version = 0 /\ q_starts = 0 /\ q_global_steps = 0 /\ q_ckpt = None
    BY DEF Queue!Init
<1>3. q_Counted
    <2>1. /\ 0 \in 0 .. q_TotalEpochs /\ 0 \in 0 .. q_EpochSteps /\ 0 \in Nat /\ FALSE \in BOOLEAN
          /\ 0 \in {0, 0 + 1}
        BY q_Constants
    <2> QED BY <1>1, <1>2, <2>1 DEF q_Counted
<1>4. q_Positioned
    BY <1>2 DEF q_Positioned
<1>5. q_InTurn(q_log) /\ q_OnTime(q_log)
    <2>1. 1 .. Len(q_log) - 1 = {}
        BY <1>1
    <2> QED BY <1>1, <2>1, Zenon DEF q_InTurn, q_OnTime
<1>6. q_Matched /\ q_Current
    BY <1>2, <1>5 DEF q_Matched, q_Current
<1> QED BY <1>3, <1>4, <1>6 DEF q_IInv

(* A start from nothing, and one from a checkpoint.                        *)
LEMMA q_StartAfresh == ASSUME q_IInv, Queue!Start, q_ckpt = None PROVE q_IInv'
<1>1. /\ q_pc' = "next" /\ q_awake' = TRUE /\ q_global_steps' = 0 + 1 /\ q_epoch' = 0 \div q_EpochSteps
      /\ q_yielded' = 0 /\ q_version' = 0 /\ q_served' = 0 /\ q_log' = << >> /\ q_ckpt' = None
      /\ q_starts' = q_starts + 1
    BY DEF Queue!Start
<1>2. /\ Len(q_log') = 0 /\ DOMAIN q_log' = {} /\ q_log' \in Seq(q_Entries)
    BY <1>1, EmptySeq
<1>3. q_epoch' = 0 /\ q_Position' = 0
    <2>1. 0 = 0 * q_EpochSteps + 0 /\ 0 * q_EpochSteps = 0 /\ 0 \in 0 .. q_EpochSteps - 1
        BY q_Constants, Positions
    <2>2. 0 \div q_EpochSteps = 0
        BY <2>1, q_Constants, Division
    <2> QED BY <1>1, <2>1, <2>2 DEF q_Position
<1>4. q_starts \in Nat /\ q_starts' \in Nat /\ q_starts' # 0
    <2>1. q_starts \in Nat
        BY DEF q_IInv, q_Counted
    <2> QED BY <1>1, <2>1
<1>5. q_Counted'
    <2>1. 0 \in 0 .. q_TotalEpochs /\ 0 \in 0 .. q_EpochSteps /\ 0 \in Nat /\ 0 + 1 \in Nat /\ TRUE \in BOOLEAN
        BY q_Constants
    <2> QED BY <1>1, <1>2, <1>3, <1>4, <2>1 DEF q_Counted
<1>6. q_Positioned'
    BY <1>1, <1>2, <1>3, q_Constants DEF q_Positioned, q_Offset
<1>7. q_InTurn(q_log') /\ q_OnTime(q_log')
    <2>1. 1 .. Len(q_log') - 1 = {}
        BY <1>2
    <2> QED BY <1>2, <2>1, Zenon DEF q_InTurn, q_OnTime
<1>8. q_Matched' /\ q_Current'
    <2>1. q_Learned(q_log') = {} /\ Cardinality({}) = 0
        BY <1>2, FS_EmptySet DEF q_Learned
    <2> QED BY <1>1, <1>4, <1>7, <2>1 DEF q_Matched, q_Current
<1> QED BY <1>5, <1>6, <1>8 DEF q_IInv

(* The loader of a checkpoint, put behind the epochs the step stands for.  *)
LEMMA q_Restored ==
    ASSUME NEW n \in Nat, n > 0, NEW x \in Nat, NEW y \in 1 .. n, NEW e \in Nat,
           e * n + y \in {x, x + n}
    PROVE  (x \div n) * n + y \in {x, x + n}
<1>1. /\ \A z \in 0 .. n - 1 : (e * n + z) \div n = e
      /\ (e + 1) * n = e * n + n /\ e * n \in Nat
    BY Positions
<1>2. CASE y = n
    <2>1. x \in {(e + 1) * n, e * n}
        BY <1>1, <1>2
    <2>2. 0 \in 0 .. n - 1 /\ e + 1 \in Nat /\ (e + 1) * n \in Nat
        BY <1>1
    <2>3. ((e + 1) * n + 0) \div n = e + 1 /\ (e * n + 0) \div n = e
        BY <1>1, <2>2, Positions
    <2>4. x = (x \div n) * n
        <3>1. CASE x = (e + 1) * n
            <4>1. x = (e + 1) * n + 0
                BY <2>2, <3>1
            <4> QED BY <2>3, <3>1, <4>1, Zenon
        <3>2. CASE x = e * n
            <4>1. x = e * n + 0
                BY <1>1, <3>2
            <4> QED BY <2>3, <3>2, <4>1, Zenon
        <3> QED BY <2>1, <3>1, <3>2
    <2> QED BY <1>2, <2>4
<1>3. CASE y # n /\ e * n + y = x
    <2>1. y \in 0 .. n - 1
        BY <1>3
    <2>2. x \div n = e
        BY <1>1, <1>3, <2>1, Zenon
    <2> QED BY <1>3, <2>2, Zenon
<1>4. CASE y # n /\ e * n + y = x + n
    <2>1. y \in 0 .. n - 1
        BY <1>4
    <2>2. e # 0
        BY <1>4, <2>1, Positions
    <2>3. e - 1 \in Nat /\ (e - 1) + 1 = e
        BY <2>2
    <2>4. /\ ((e - 1) + 1) * n = (e - 1) * n + n /\ (e - 1) * n \in Nat
          /\ ((e - 1) * n + y) \div n = e - 1
        BY <2>1, <2>3, Positions
    <2>5. e * n = (e - 1) * n + n
        BY <2>3, <2>4, Zenon
    <2>6. x = (e - 1) * n + y
        <3> DEFINE k == (e - 1) * n
                   l == e * n
        <3>1. k \in Nat /\ l \in Nat /\ l = k + n /\ l + y = x + n
            BY <1>1, <1>4, <2>4, <2>5
        <3> HIDE DEF k, l
        <3>2. x = k + y
            BY <3>1
        <3> QED BY <3>2 DEF k
    <2>7. x \div n = e - 1
        BY <2>4, <2>6, Zenon
    <2> QED BY <2>6, <2>7, Zenon
<1> QED BY <1>2, <1>3, <1>4

LEMMA q_StartAgain == ASSUME q_IInv, Queue!Start, q_ckpt # None PROVE q_IInv'
<1>1. /\ q_pc' = "next" /\ q_awake' = TRUE /\ q_global_steps' = q_ckpt.step + 1
      /\ q_epoch' = q_ckpt.step \div q_EpochSteps /\ q_yielded' = q_ckpt.yielded
      /\ q_version' = q_ckpt.version /\ q_served' = q_ckpt.version
      /\ q_log' = q_ckpt.log /\ q_ckpt' = q_ckpt /\ q_starts' = q_starts + 1
    BY DEF Queue!Start
<1>2. q_Restorable(q_ckpt)
    BY DEF q_IInv, q_Matched
<1>3. /\ q_ckpt.step \in Nat /\ q_ckpt.version \in Nat /\ q_ckpt.log \in Seq(q_Entries)
      /\ Len(q_ckpt.log) = q_ckpt.step /\ q_ckpt.yielded \in 1 .. q_EpochSteps
      /\ q_ckpt.version = Cardinality(q_Learned(q_ckpt.log))
    BY <1>2 DEF q_Restorable
<1>4. PICK e \in 0 .. q_TotalEpochs - 1 :
          e * q_EpochSteps + q_ckpt.yielded \in {q_ckpt.step, q_ckpt.step + q_EpochSteps}
    BY <1>2 DEF q_Restorable
<1>5. e \in Nat /\ e < q_TotalEpochs
    BY q_Constants
<1>6. q_epoch' \in 0 .. q_TotalEpochs
    <2>1. e * q_EpochSteps \in Nat /\ e * q_EpochSteps + q_EpochSteps <= q_TotalEpochs * q_EpochSteps
        BY <1>5, q_Constants, Positions
    <2>2. q_TotalEpochs * q_EpochSteps \in Nat
        BY q_Constants, Positions
    <2>3. q_ckpt.step <= q_TotalEpochs * q_EpochSteps
        <3> DEFINE k == e * q_EpochSteps
                   t == q_TotalEpochs * q_EpochSteps
        <3>1. /\ k \in Nat /\ t \in Nat /\ k + q_EpochSteps <= t
              /\ k + q_ckpt.yielded \in {q_ckpt.step, q_ckpt.step + q_EpochSteps}
            BY <1>4, <2>1, <2>2
        <3> HIDE DEF k, t
        <3>2. q_ckpt.step <= t
            BY <3>1, <1>3, q_Constants
        <3> QED BY <3>2 DEF t
    <2>4. q_ckpt.step \div q_EpochSteps \in Nat /\ q_ckpt.step \div q_EpochSteps <= q_TotalEpochs
        BY <2>3, <1>3, q_Constants, Epochs
    <2> QED BY <1>1, <2>4, q_Constants
<1>7. q_Position' \in {q_ckpt.step, q_ckpt.step + q_EpochSteps}
    <2>1. (q_ckpt.step \div q_EpochSteps) * q_EpochSteps + q_ckpt.yielded
              \in {q_ckpt.step, q_ckpt.step + q_EpochSteps}
        BY <1>3, <1>4, <1>5, q_Constants, q_Restored
    <2> QED BY <1>1, <2>1 DEF q_Position
<1>8. q_starts \in Nat /\ q_starts # 0 /\ q_starts' \in Nat /\ q_starts' # 0
      /\ (q_starts' <= 2 => q_starts <= 1) /\ ~(q_starts' <= 1)
    <2>1. q_starts \in Nat /\ q_starts # 0
        BY DEF q_IInv, q_Counted, q_Matched
    <2> QED BY <1>1, <2>1
<1>9. q_Counted'
    <2>1. q_ckpt.step + 1 \in Nat /\ q_yielded' \in 0 .. q_EpochSteps
        BY <1>1, <1>3, q_Constants
    <2> QED BY <1>1, <1>3, <1>6, <1>8, <2>1 DEF q_Counted
<1>10. ASSUME q_starts' <= 2 PROVE q_OnTime(q_log')
    BY <1>1, <1>8, <1>10 DEF q_IInv, q_Matched
<1>11. DOMAIN q_log' = 1 .. Len(q_log') /\ Len(q_log') = q_ckpt.step
    BY <1>1, <1>3, LenProperties
<1>12. q_Positioned'
    <2>1. q_starts' <= 2 /\ Len(q_log') > 0 => q_PositionOf(q_log'[Len(q_log')]) = Len(q_log')
        BY <1>3, <1>10, <1>11 DEF q_OnTime
    <2>2. q_starts' <= 2 /\ Len(q_log') > 0 =>
              q_PositionOf(q_log'[Len(q_log')]) # Len(q_log') + q_EpochSteps
        BY <1>3, <1>11, <2>1, q_Constants
    <2> QED BY <1>1, <1>7, <1>8, <1>11, <2>2 DEF q_Positioned, q_Offset
<1>13. ASSUME q_starts' <= 2 PROVE q_InTurn(q_log')
    <2>1. \A s \in 1 .. Len(q_log') : q_PositionOf(q_log'[s]) = s
        BY <1>10, <1>11, <1>13 DEF q_OnTime
    <2>2. \A s \in 1 .. Len(q_log') : s # s + q_EpochSteps
        BY q_Constants
    <2>3. 1 .. Len(q_log') - 1 \subseteq 1 .. Len(q_log')
        BY <1>3, <1>11
    <2> QED BY <1>11, <2>1, <2>2, <2>3, Zenon DEF q_InTurn
<1>14. q_Matched' /\ q_Current'
    BY <1>1, <1>2, <1>3, <1>8, <1>13 DEF q_Matched, q_Current, q_Restorable
<1> QED BY <1>9, <1>12, <1>14 DEF q_IInv

LEMMA q_NextBatchIInv == ASSUME q_IInv, Queue!NextBatch PROVE q_IInv'
<1>1. /\ q_pc = "next" /\ q_pc' = "rollout" /\ q_epoch < q_TotalEpochs /\ q_yielded < q_EpochSteps
      /\ q_yielded' = q_yielded + 1
      /\ UNCHANGED <<q_global_steps, q_epoch, q_version, q_awake, q_served, q_ckpt, q_log, q_starts>>
    BY DEF Queue!NextBatch, Queue!replicas
<1>2. q_yielded' \in 0 .. q_EpochSteps /\ q_yielded' >= 1 /\ q_Position' = q_Position + 1
    BY <1>1, q_Types, q_Constants DEF q_IInv, q_Counted, q_Position
<1>3. q_Counted'
    BY <1>1, <1>2 DEF q_IInv, q_Counted
<1>4. q_Offset(Len(q_log) + 1)'
    <2>1. q_Offset(Len(q_log))
        BY <1>1 DEF q_IInv, q_Positioned
    <2> QED BY <1>1, <1>2, <2>1, q_Types, q_Constants DEF q_Offset
<1>5. q_Positioned'
    BY <1>1, <1>4 DEF q_Positioned
<1>6. q_Matched' /\ q_Current'
    BY <1>1 DEF q_IInv, q_Matched, q_Current
<1> QED BY <1>3, <1>5, <1>6 DEF q_IInv

LEMMA q_QuietIInv ==
    ASSUME q_IInv, q_Position' = q_Position,
           q_epoch' \in 0 .. q_TotalEpochs, q_yielded' \in 0 .. q_EpochSteps,
           \/ /\ q_pc = "next" /\ q_pc' = "next" /\ q_awake' = q_awake
              /\ UNCHANGED q_served
           \/ /\ UNCHANGED <<q_epoch, q_yielded>>
              /\ \/ q_pc = "next" /\ q_pc' = "ended" /\ UNCHANGED <<q_awake, q_served>>
                 \/ q_pc = "rollout" /\ q_pc' = "update" /\ q_awake' = FALSE /\ UNCHANGED q_served
                 \/ q_pc = "refresh" /\ q_pc' = "end step" /\ q_awake' = TRUE /\ q_served' = q_version
                 \/ q_pc # "start" /\ q_pc' = "start" /\ q_awake' = FALSE /\ UNCHANGED q_served
                 \/ UNCHANGED <<q_pc, q_awake, q_served>>,
           UNCHANGED <<q_global_steps, q_version, q_ckpt, q_log, q_starts>>
    PROVE  q_IInv'
<1>1. q_Counted'
    BY DEF q_IInv, q_Counted, q_Matched
<1>2. q_Positioned'
    BY DEF q_IInv, q_Positioned, q_Offset
<1>3. q_Matched' /\ q_Current'
    BY DEF q_IInv, q_Matched, q_Current
<1> QED BY <1>1, <1>2, <1>3 DEF q_IInv

LEMMA q_UpdateIInv == ASSUME q_IInv, Queue!Update PROVE q_IInv'
<1> DEFINE n == Len(q_log)
           learns == q_CriticWarmup <= q_global_steps
           entry == [batch |-> <<q_epoch, q_yielded>>, learns |-> learns]
<1>1. /\ q_pc = "update" /\ q_pc' = "save"
      /\ q_version' = IF learns THEN q_version + 1 ELSE q_version
      /\ q_log' = Append(q_log, entry)
      /\ UNCHANGED <<q_global_steps, q_epoch, q_yielded, q_awake, q_served, q_ckpt, q_starts>>
    BY DEF Queue!Update, Queue!replicas
<1>2. entry \in q_Entries /\ q_log \in Seq(q_Entries) /\ n \in Nat
    BY q_Types DEF q_Entries
<1>3. /\ q_log' \in Seq(q_Entries) /\ Len(q_log') = n + 1
      /\ DOMAIN q_log' = DOMAIN q_log \cup {n + 1} /\ DOMAIN q_log = 1 .. n
      /\ q_log'[n + 1] = entry /\ \A s \in DOMAIN q_log : q_log'[s] = q_log[s]
    BY <1>1, <1>2, Appended
<1>4. /\ q_PositionOf(q_log'[n + 1]) = q_Position /\ q_Position' = q_Position
      /\ \A s \in 1 .. n : q_PositionOf(q_log'[s]) = q_PositionOf(q_log[s])
    BY <1>1, <1>3 DEF q_PositionOf, q_Position
<1>5. q_Offset(n + 1)
    BY <1>1 DEF q_IInv, q_Positioned
<1>6. q_Learned(q_log) \in SUBSET (1 .. n)
    BY <1>3 DEF q_Learned
<1>7. q_version' = Cardinality(q_Learned(q_log')) /\ q_version' \in Nat
    <2>1. q_version = Cardinality(q_Learned(q_log)) /\ q_version \in Nat
        BY <1>1 DEF q_IInv, q_Matched
    <2>2. CASE learns
        <3>1. q_Learned(q_log') = q_Learned(q_log) \cup {n + 1}
            <4>1. q_log'[n + 1].learns
                <5>1. entry.learns = learns /\ q_log'[n + 1] = entry
                    BY <1>3
                <5> HIDE DEF learns, entry, n
                <5> QED BY <2>2, <5>1, Zenon
            <4> HIDE DEF learns, entry
            <4> QED BY <1>3, <4>1, Zenon DEF q_Learned
        <3>2. Cardinality(q_Learned(q_log) \cup {n + 1}) = Cardinality(q_Learned(q_log)) + 1
            BY <1>2, <1>6, OneMoreChosen
        <3>3. q_version' = q_version + 1
            BY <1>1, <2>2, Zenon
        <3> HIDE DEF learns, entry
        <3> QED BY <2>1, <3>1, <3>2, <3>3
    <2>3. CASE ~learns
        <3>1. q_Learned(q_log') = q_Learned(q_log)
            <4>1. ~q_log'[n + 1].learns
                <5>1. entry.learns = learns /\ q_log'[n + 1] = entry
                    BY <1>3
                <5> HIDE DEF learns, entry, n
                <5> QED BY <2>3, <5>1, Zenon
            <4> HIDE DEF learns, entry
            <4> QED BY <1>3, <4>1, Zenon DEF q_Learned
        <3>2. q_version' = q_version
            BY <1>1, <2>3, Zenon
        <3> QED BY <2>1, <3>1, <3>2, Zenon
    <2> QED BY <2>2, <2>3
<1> HIDE DEF entry, learns, n
<1>8. n = Len(q_log)
    BY DEF n
<1>9. q_global_steps = n + 1
    BY <1>1, <1>8 DEF q_IInv, q_Counted
<1>10. q_Counted'
    BY <1>1, <1>3, <1>9 DEF q_IInv, q_Counted
<1>11. q_Positioned'
    <2>1. /\ q_Position' \in {Len(q_log'), Len(q_log') + q_EpochSteps}
          /\ q_starts' <= 1 => q_Position' = Len(q_log')
        BY <1>1, <1>3, <1>4, <1>5 DEF q_Offset
    <2>2. q_PositionOf(q_log'[Len(q_log')]) = q_Position'
        BY <1>3, <1>4
    <2> QED BY <1>1, <2>1, <2>2 DEF q_Positioned, q_Offset
<1>12. ASSUME q_starts <= 1 PROVE q_OnTime(q_log')
    BY <1>3, <1>4, <1>5, <1>12 DEF q_IInv, q_Matched, q_OnTime, q_Offset
<1>13. ASSUME q_starts <= 2 PROVE q_InTurn(q_log')
    <2>1. q_InTurn(q_log)
        BY <1>13 DEF q_IInv, q_Matched
    <2>2. \A s \in DOMAIN q_log' : q_PositionOf(q_log'[s]) \in {s, s + q_EpochSteps}
        BY <1>3, <1>4, <1>5, <2>1 DEF q_InTurn, q_Offset
    <2>3. ASSUME NEW s \in 1 .. Len(q_log') - 1, q_PositionOf(q_log'[s]) = s + q_EpochSteps
          PROVE  q_PositionOf(q_log'[s + 1]) = s + 1 + q_EpochSteps
        <3>1. CASE s = n
            <4>1. n \in 1 .. n /\ n > 0
                BY <1>2, <1>3, <2>3, <3>1
            <4>2. q_PositionOf(q_log[n]) = n + q_EpochSteps
                BY <1>4, <2>3, <3>1, <4>1
            <4>3. q_Position = n + 1 + q_EpochSteps
                BY <1>5, <1>8, <1>13, <4>1, <4>2 DEF q_Offset
            <4> QED BY <1>4, <3>1, <4>3
        <3>2. CASE s # n
            <4>1. s \in 1 .. n - 1 /\ s \in 1 .. n /\ s + 1 \in 1 .. n
                <5>1. s \in 1 .. (n + 1) - 1 /\ n \in Nat
                    BY <1>2, <1>3, <2>3
                <5> QED BY <3>2, <5>1
            <4> QED BY <1>4, <1>8, <2>1, <2>3, <4>1 DEF q_InTurn
        <3> QED BY <3>1, <3>2
    <2> QED BY <2>2, <2>3 DEF q_InTurn
<1>14. q_Matched' /\ q_Current'
    BY <1>1, <1>7, <1>12, <1>13 DEF q_IInv, q_Matched, q_Current
<1> QED BY <1>10, <1>11, <1>14 DEF q_IInv

LEMMA q_SaveIInv == ASSUME q_IInv, Queue!Save PROVE q_IInv'
<1>1. /\ q_pc = "save" /\ q_pc' = "refresh"
      /\ \/ q_ckpt' = q_ckpt
         \/ q_ckpt' = [step |-> q_global_steps, version |-> q_version, yielded |-> q_yielded,
                       log |-> q_log]
      /\ UNCHANGED <<q_global_steps, q_epoch, q_yielded, q_version, q_awake, q_served, q_log, q_starts>>
    BY DEF Queue!Save, Queue!replicas
<1>2. q_Counted' /\ q_Positioned' /\ q_Current'
    BY <1>1 DEF q_IInv, q_Counted, q_Positioned, q_Offset, q_Position, q_Current
<1>3. CASE q_ckpt' = q_ckpt
    BY <1>1, <1>2, <1>3 DEF q_IInv, q_Matched
<1>4. CASE q_ckpt' = [step |-> q_global_steps, version |-> q_version, yielded |-> q_yielded, log |-> q_log]
    <2>1. /\ q_global_steps = Len(q_log) /\ q_Position \in {Len(q_log), Len(q_log) + q_EpochSteps}
          /\ q_version = Cardinality(q_Learned(q_log)) /\ q_version \in Nat /\ q_global_steps \in Nat
          /\ q_epoch \in 0 .. q_TotalEpochs - 1 /\ q_yielded \in 1 .. q_EpochSteps
          /\ q_log \in Seq(q_Entries) /\ q_yielded \in Nat
        BY <1>1, q_Constants DEF q_IInv, q_Counted, q_Positioned, q_Offset, q_Matched
    <2>2. q_Restorable(q_ckpt')
        BY <1>4, <2>1 DEF q_Restorable, q_Position
    <2>3. q_Matched'
        BY <1>1, <1>4, <2>2 DEF q_IInv, q_Matched
    <2> QED BY <1>2, <2>3 DEF q_IInv
<1> QED BY <1>1, <1>3, <1>4

LEMMA q_EndStepIInv == ASSUME q_IInv, Queue!EndStep PROVE q_IInv'
<1>1. /\ q_pc = "end step" /\ q_pc' \in {"returned", "next"} /\ q_global_steps' = q_global_steps + 1
      /\ UNCHANGED <<q_epoch, q_yielded, q_version, q_awake, q_served, q_ckpt, q_log, q_starts>>
    BY DEF Queue!EndStep, Queue!replicas
<1>2. q_Counted'
    <2>1. q_global_steps = Len(q_log) /\ Len(q_log) \in Nat
        BY <1>1, q_Types DEF q_IInv, q_Counted
    <2>2. q_global_steps' = Len(q_log) + 1 /\ q_global_steps' \in Nat
        <3>1. q_global_steps' = q_global_steps + 1
            BY <1>1, Zenon
        <3> QED BY <2>1, <3>1
    <2> QED BY <1>1, <2>2 DEF q_IInv, q_Counted
<1>3. q_Positioned'
    BY <1>1 DEF q_IInv, q_Positioned, q_Offset, q_Position
<1>4. q_Matched' /\ q_Current'
    BY <1>1 DEF q_IInv, q_Matched, q_Current
<1> QED BY <1>2, <1>3, <1>4 DEF q_IInv

LEMMA q_NextIInv == q_IInv /\ [Queue!Next]_(Queue!vars) => q_IInv'
<1> SUFFICES ASSUME q_IInv, [Queue!Next]_(Queue!vars) PROVE q_IInv'
    OBVIOUS
<1>1. CASE Queue!NextEpoch
    <2>1. /\ q_pc = "next" /\ q_pc' = "next" /\ q_epoch < q_TotalEpochs /\ q_yielded = q_EpochSteps
          /\ q_epoch' = q_epoch + 1 /\ q_yielded' = 0
          /\ UNCHANGED <<q_global_steps, q_version, q_awake, q_served, q_ckpt, q_log, q_starts>>
        BY <1>1 DEF Queue!NextEpoch, Queue!replicas
    <2>2. q_Position' = q_Position
        BY <2>1, q_Types, q_Constants, Positions DEF q_Position
    <2>3. q_epoch' \in 0 .. q_TotalEpochs /\ q_yielded' \in 0 .. q_EpochSteps
        BY <2>1, q_Types, q_Constants
    <2> QED BY <2>1, <2>2, <2>3, q_QuietIInv
<1>2. CASE Queue!RunOut \/ Queue!Rollout \/ Queue!Refresh \/ Queue!Crash \/ UNCHANGED Queue!vars
    <2>1. UNCHANGED <<q_global_steps, q_version, q_ckpt, q_log, q_starts, q_epoch, q_yielded>>
        BY <1>2 DEF Queue!RunOut, Queue!Rollout, Queue!Refresh, Queue!Crash, Queue!vars
    <2>2. \/ q_pc = "next" /\ q_pc' = "ended" /\ UNCHANGED <<q_awake, q_served>>
          \/ q_pc = "rollout" /\ q_pc' = "update" /\ q_awake' = FALSE /\ UNCHANGED q_served
          \/ q_pc = "refresh" /\ q_pc' = "end step" /\ q_awake' = TRUE /\ q_served' = q_version
          \/ q_pc # "start" /\ q_pc' = "start" /\ q_awake' = FALSE /\ UNCHANGED q_served
          \/ UNCHANGED <<q_pc, q_awake, q_served>>
        BY <1>2 DEF Queue!RunOut, Queue!Rollout, Queue!Refresh, Queue!Crash, Queue!vars, Queue!replicas
    <2>3. q_Position' = q_Position /\ q_epoch' \in 0 .. q_TotalEpochs /\ q_yielded' \in 0 .. q_EpochSteps
        BY <2>1 DEF q_Position, q_IInv, q_Counted
    <2> QED BY <2>1, <2>2, <2>3, q_QuietIInv
<1> QED BY <1>1, <1>2, q_StartAfresh, q_StartAgain, q_NextBatchIInv, q_UpdateIInv, q_SaveIInv,
           q_EndStepIInv DEF Queue!Next

LEMMA q_InvariantHolds == Queue!Spec => []q_IInv
<1> QED BY q_InitIInv, q_NextIInv, PTL DEF Queue!Spec

(* The invariant contains what TransferQueueTrainer promises.              *)
LEMMA q_Promises ==
    ASSUME q_IInv
    PROVE  Queue!TypeOK /\ Queue!GeneratesWithCurrentWeights /\ Queue!NoBatchTwice
<1>1. Queue!TypeOK
    <2>1. q_pc # "start" => q_version = Cardinality({s \in DOMAIN q_log : q_log[s].learns})
        BY DEF q_IInv, q_Matched, q_Learned
    <2>2. /\ q_pc \in {"start", "next", "rollout", "update", "save", "refresh", "end step", "returned", "ended"}
          /\ q_epoch \in 0 .. q_TotalEpochs /\ q_yielded \in 0 .. q_EpochSteps
          /\ q_awake \in BOOLEAN /\ q_served \in Nat
        BY DEF q_IInv, q_Counted
    <2>3. q_global_steps \in {Len(q_log), Len(q_log) + 1}
        BY DEF q_IInv, q_Counted
    <2> QED BY <2>1, <2>2, <2>3, q_Cardinality, Zenon DEF Queue!TypeOK
<1>2. Queue!GeneratesWithCurrentWeights
    BY DEF q_IInv, q_Current, Queue!GeneratesWithCurrentWeights
<1>3. ASSUME q_starts <= 2, NEW s \in 1 .. Len(q_log) - 1
      PROVE  /\ Queue!Position(s + 1) > Queue!Position(s)
             /\ (Queue!Position(s + 1) - Queue!Position(s) - 1) % q_EpochSteps = 0
    <2>1. q_InTurn(q_log) /\ s \in DOMAIN q_log /\ s + 1 \in DOMAIN q_log /\ s \in Nat
        BY <1>3, q_Types DEF q_IInv, q_Matched
    <2> DEFINE p == q_PositionOf(q_log[s])
               p1 == q_PositionOf(q_log[s + 1])
    <2>2. Queue!Position(s) = p /\ Queue!Position(s + 1) = p1
        BY DEF Queue!Position, q_PositionOf
    <2>3. /\ p \in {s, s + q_EpochSteps} /\ p1 \in {s + 1, s + 1 + q_EpochSteps}
          /\ p = s + q_EpochSteps => p1 = s + 1 + q_EpochSteps
        BY <1>3, <2>1 DEF q_InTurn
    <2>7. s \in Nat
        BY <2>1
    <2> HIDE DEF p, p1
    <2>4. p1 > p /\ p1 - p - 1 \in {0, q_EpochSteps}
        BY <2>3, <2>7, q_Constants
    <2>5. 0 % q_EpochSteps = 0 /\ q_EpochSteps % q_EpochSteps = 0
        <3>1. /\ 0 \in 0 .. q_EpochSteps - 1 /\ 0 = q_EpochSteps * 0 + 0
              /\ q_EpochSteps = q_EpochSteps * 1 + 0 /\ q_EpochSteps \in Int
            BY q_Constants
        <3> QED BY <3>1, q_Constants, Division
    <2>6. (p1 - p - 1) % q_EpochSteps = 0
        BY <2>4, <2>5, Zenon
    <2> QED BY <2>2, <2>4, <2>6
<1>4. Queue!NoBatchTwice
    BY <1>3 DEF Queue!NoBatchTwice
<1> QED BY <1>1, <1>2, <1>4
-----------------------------------------------------------------------------
(* Checkpointing, for every length of a cycle, saving frequency and number *)
(* of checkpoints kept, and for crashes at any moment.                     *)
LEMMA c_ConstantTypes ==
    /\ TriggerSteps \in Nat /\ TriggerSteps >= 1 /\ SaveFreq \in Nat /\ KeepMax \in Nat
    /\ MaxVersion \in Nat /\ MaxVersion >= 1 /\ MaxCrashes \in Nat
BY InstancesAssumption, SMT DEF Async!TriggerAssumption, Async!SavingAssumption,
   Async!BoundsAssumption

(* Among n consecutive numbers one is divisible by n. *)
LEMMA OneIsDue ==
    ASSUME NEW n \in Nat \ {0}, NEW a \in Nat, NEW b \in Nat, b >= a + n
    PROVE  \E m \in a + 1 .. b : m % n = 0
<1> DEFINE m == a + n - (a % n)
<1>1. a % n \in 0 .. n - 1 /\ a \div n \in Nat /\ a = n * (a \div n) + (a % n)
    BY SMT
<1>2. m \in a + 1 .. b
    BY <1>1, SMT
<1>3. m = n * (a \div n + 1) /\ m \in Nat
    BY <1>1, SMT
<1>4. m % n = 0
    <2> DEFINE q == a \div n + 1
               r == m % n
               k == m \div n
    <2>1. r \in 0 .. n - 1 /\ k \in Int /\ m = n * k + r /\ q \in Int
        BY <1>1, <1>3, SMT
    <2>2. m = n * q
        BY <1>3
    <2> HIDE DEF q, r, k, m
    <2>3. n * (q - k) = r /\ q - k \in Int
        BY <2>1, <2>2, SMT
    <2>4. \A x \in Int : (x >= 1 => n * x >= n) /\ (x <= -1 => n * x <= -n)
        BY SMT
    <2>5. q - k = 0
        BY <2>1, <2>3, <2>4, SMT
    <2>6. r = 0
        BY <2>3, <2>5, SMT
    <2> QED BY <2>6 DEF r
<1> QED BY <1>2, <1>4

-----------------------------------------------------------------------------
(* The invariant                                                           *)

c_Saving  == {"write", "data", "tracker", "finalWrite", "finalData", "finalTracker"}
c_Written == {"data", "tracker", "finalData", "finalTracker"}

(* What is saved is newer than what the tracker names. *)
c_OrderInv ==
    /\ c_lastCkpt = c_latest
    /\ c_phase \in c_Saving => c_latest < c_version
c_TypeInv == Async!TypeOK /\ c_OrderInv

(* The manager's list names versions in the order they were written, none  *)
(* newer than the last whole checkpoint.                                   *)
c_KeptInv ==
    c_phase # "down" =>
        /\ \A i, j \in DOMAIN c_kept : i < j => c_kept[i] < c_kept[j]
        /\ \A i \in DOMAIN c_kept :
              c_kept[i] <= IF c_phase \in c_Written THEN c_version ELSE c_latest

c_LagInv ==
    /\ c_updates - c_rolled = c_localStep - 1
    /\ c_version > 0 => c_updates > 0

(* No version that was due is behind the trainer unsaved. *)
c_RiskInv ==
    SaveFreq > 0 /\ c_phase # "down" =>
        \A m \in c_latest + 1 .. c_version :
            m % SaveFreq = 0 => c_phase # "train" /\ m = c_version

(* A checkpoint has the weights of its version, and of no local step after *)
(* those that led to the save.                                             *)
c_SavedInv ==
    /\ c_phase \in c_Written => c_actor[c_version] = c_updates
    /\ c_phase # "down" /\ c_version = c_latest /\ c_latest > 0 =>
          /\ c_actor[c_latest] \in Nat
          /\ c_actor[c_latest] <= c_updates /\ c_updates - c_actor[c_latest] <= c_localStep - 1
    /\ c_phase = "done" /\ SaveFreq > 0 => c_version = c_latest

c_IInv == c_TypeInv /\ c_KeptInv /\ c_LagInv /\ c_RiskInv /\ c_SavedInv

(* With room for two the list is never so full that the checkpoint the     *)
(* tracker names is among those removed.                                   *)
c_RoomInv ==
    c_phase # "down" /\ KeepMax > 1 =>
        /\ Len(c_kept) <= KeepMax
        /\ c_phase \in {"write", "finalWrite"} => Len(c_kept) < KeepMax
c_LoadInv ==
    /\ Async!TrackerIsLoadable
    /\ c_phase \in {"tracker", "finalTracker"} => c_version \in c_data
    /\ c_RoomInv

-----------------------------------------------------------------------------
(* The list of checkpoints                                                 *)

LEMMA c_KeptType ==
    ASSUME c_kept \in Seq(Async!Versions)
    PROVE  /\ DOMAIN c_kept = 1 .. Len(c_kept) /\ Len(c_kept) \in Nat
           /\ \A i \in DOMAIN c_kept : c_kept[i] \in Async!Versions
<1>1. DOMAIN c_kept = 1 .. Len(c_kept) /\ Len(c_kept) \in Nat
    BY LenProperties
<1> QED BY <1>1, ElementOfSeq

LEMMA c_DroppedShape ==
    ASSUME NEW s \in Seq(Async!Versions), NEW n \in 0 .. Len(s), NEW d, d = Async!Dropped(s, n)
    PROVE  /\ d \in Seq(Async!Versions) /\ Len(d) = Len(s) - n /\ DOMAIN d = 1 .. Len(s) - n
           /\ \A i \in DOMAIN d : n + i \in DOMAIN s /\ d[i] = s[n + i]
<1>1. DOMAIN s = 1 .. Len(s) /\ Len(s) \in Nat /\ \A i \in 1 .. Len(s) : s[i] \in Async!Versions
    <2>1. DOMAIN s = 1 .. Len(s) /\ Len(s) \in Nat
        BY LenProperties
    <2> QED BY <2>1, ElementOfSeq
<1>2. n \in Int /\ n >= 0 /\ n <= Len(s)
    BY <1>1, SMT
<1>3. \A i \in n + 1 .. Len(s) : i \in 1 .. Len(s)
    BY <1>1, <1>2, SMT
<1>4. /\ d \in Seq(Async!Versions)
      /\ Len(d) = IF n + 1 <= Len(s) THEN Len(s) - (n + 1) + 1 ELSE 0
      /\ \A i \in 1 .. Len(s) - (n + 1) + 1 : d[i] = s[n + 1 + i - 1]
    <2>1. n + 1 \in Int /\ Len(s) \in Int
        BY <1>1, <1>2, SMT
    <2>2. \A i \in n + 1 .. Len(s) : s[i] \in Async!Versions
        BY <1>1, <1>3
    <2> QED BY <2>1, <2>2, SubSeqProperties DEF Async!Dropped
<1>5. Len(d) = Len(s) - n /\ Len(s) - (n + 1) + 1 = Len(s) - n
    <2>1. Len(s) \in Nat /\ n \in Nat /\ n <= Len(s)
        BY <1>1, <1>2, SMT
    <2>2. \A l, k \in Nat : k <= l =>
             /\ (IF k + 1 <= l THEN l - (k + 1) + 1 ELSE 0) = l - k
             /\ l - (k + 1) + 1 = l - k
        BY SMT
    <2> QED BY <1>4, <2>1, <2>2
<1>6. DOMAIN d = 1 .. Len(s) - n
    BY <1>4, <1>5, LenProperties
<1>7. \A i \in 1 .. Len(s) - n : n + i \in DOMAIN s /\ n + 1 + i - 1 = n + i
    BY <1>1, <1>2, SMT
<1> QED BY <1>4, <1>5, <1>6, <1>7

(* What a save deletes is the beginning of the list. *)
LEMMA c_RoomRange ==
    ASSUME c_kept \in Seq(Async!Versions)
    PROVE  /\ Async!Room \in 0 .. Len(c_kept)
           /\ KeepMax > 1 => Len(c_kept) - Async!Room < KeepMax
           /\ Async!Room > 0 => KeepMax > 1
           /\ KeepMax > 1 /\ Len(c_kept) <= KeepMax =>
                 Async!Room < 2 /\ (Async!Room = 1 => Len(c_kept) > 1)
BY c_KeptType, c_ConstantTypes, SMT DEF Async!Room

LEMMA c_WithoutType ==
    ASSUME NEW removed, c_actor \in [Async!Versions -> Nat \cup {Async!Torn}]
    PROVE  /\ Async!Without(removed) \in [Async!Versions -> Nat \cup {Async!Torn}]
           /\ \A v \in Async!Versions : v \notin removed => Async!Without(removed)[v] = c_actor[v]
BY SMT DEF Async!Without

-----------------------------------------------------------------------------
(* Steps of the trainer and the restart                                    *)

LEMMA c_IInvInit == Async!Init => c_IInv /\ c_LoadInv
<1> SUFFICES ASSUME Async!Init PROVE c_IInv /\ c_LoadInv
    OBVIOUS
<1>1. << >> \in Seq(Async!Versions) /\ Len(<< >>) = 0 /\ DOMAIN c_kept = {}
    BY EmptySeq, SMT DEF Async!Init
<1>2. c_TypeInv
    <2>1. c_actor \in [Async!Versions -> Nat \cup {Async!Torn}]
        BY DEF Async!Init
    <2> QED BY <1>1, <2>1, c_ConstantTypes, SMT DEF Async!Init, c_TypeInv, Async!TypeOK, c_OrderInv, c_Saving
<1>3. c_KeptInv
    BY <1>1 DEF c_KeptInv
<1>4. c_LagInv /\ c_RiskInv /\ c_SavedInv
    BY c_ConstantTypes, SMT DEF Async!Init, c_LagInv, c_RiskInv, c_SavedInv, c_Written
<1>5. c_LoadInv
    BY <1>1, c_ConstantTypes, SMT DEF Async!Init, c_LoadInv, Async!TrackerIsLoadable, c_RoomInv
<1> QED BY <1>2, <1>3, <1>4, <1>5 DEF c_IInv

LEMMA c_TrainStepInv ==
    ASSUME c_IInv, Async!TrainStep
    PROVE  c_IInv' /\ (c_LoadInv => c_LoadInv')
<1>1. /\ c_phase = "train" /\ c_phase' = "stepDone" /\ c_updates' = c_updates + 1
      /\ c_kept' = c_kept /\ c_lastCkpt' = c_lastCkpt /\ c_actor' = c_actor /\ c_data' = c_data
      /\ c_latest' = c_latest /\ c_crashes' = c_crashes
      /\ \/ /\ c_localStep < TriggerSteps /\ c_localStep' = c_localStep + 1
            /\ c_version' = c_version /\ c_rolled' = c_rolled
         \/ /\ c_localStep' = 1 /\ c_version < MaxVersion /\ c_version' = c_version + 1
            /\ c_rolled' = c_updates + 1
    <2>1. c_localStep \in Nat /\ c_localStep + 1 # 1
        BY c_ConstantTypes, SMT DEF c_IInv, c_TypeInv, Async!TypeOK
    <2> QED BY <2>1, Zenon DEF Async!TrainStep, Async!NextLocal, Async!disk
<1>2. c_TypeInv'
    <2>1. c_updates' \in Nat /\ c_rolled' \in 0 .. c_updates' /\ c_localStep' \in 1 .. TriggerSteps
        BY <1>1, c_ConstantTypes, SMT DEF c_IInv, c_TypeInv, Async!TypeOK
    <2>2. c_version' \in 0 .. MaxVersion /\ c_lastCkpt' \in 0 .. c_version'
        BY <1>1, c_ConstantTypes, SMT DEF c_IInv, c_TypeInv, Async!TypeOK
    <2>3. Async!TypeOK'
        BY <1>1, <2>1, <2>2 DEF c_IInv, c_TypeInv, Async!TypeOK
    <2>4. c_OrderInv'
        BY <1>1 DEF c_IInv, c_TypeInv, c_OrderInv, c_Saving
    <2> QED BY <2>3, <2>4 DEF c_TypeInv
<1>3. c_KeptInv'
    BY <1>1 DEF c_IInv, c_KeptInv, c_Written
<1>4. c_LagInv'
    BY <1>1, SMT DEF c_IInv, c_TypeInv, Async!TypeOK, c_LagInv
<1>5. c_RiskInv'
    <2> SUFFICES ASSUME SaveFreq > 0, NEW m \in c_latest + 1 .. c_version', m % SaveFreq = 0
                 PROVE  m = c_version'
        BY <1>1 DEF c_RiskInv
    <2>1. \A k \in c_latest + 1 .. c_version : k % SaveFreq # 0
        BY <1>1 DEF c_IInv, c_RiskInv
    <2>2. m \in c_latest + 1 .. c_version \/ m = c_version'
        BY <1>1, SMT DEF c_IInv, c_TypeInv, Async!TypeOK
    <2> QED BY <2>1, <2>2
<1>6. c_SavedInv'
    <2>1. \/ c_version' = c_version /\ c_localStep' = c_localStep + 1
          \/ c_version' # c_latest
        BY <1>1, SMT DEF c_IInv, c_TypeInv, Async!TypeOK, c_OrderInv
    <2>2. c_phase' # "done" /\ c_phase' \notin c_Written
        BY <1>1 DEF c_Written
    <2>3. ASSUME c_version' = c_latest, c_latest > 0
          PROVE  c_actor[c_latest] \in Nat /\ c_actor[c_latest] <= c_updates'
                 /\ c_updates' - c_actor[c_latest] <= c_localStep' - 1
        <3>1. c_version = c_latest /\ c_localStep' = c_localStep + 1
            BY <2>1, <2>3
        <3>2. c_actor[c_latest] \in Nat /\ c_actor[c_latest] <= c_updates
              /\ c_updates - c_actor[c_latest] <= c_localStep - 1
            BY <1>1, <2>3, <3>1 DEF c_IInv, c_SavedInv
        <3> QED BY <1>1, <3>1, <3>2, SMT DEF c_IInv, c_TypeInv, Async!TypeOK
    <2> QED BY <1>1, <2>2, <2>3 DEF c_SavedInv
<1>7. c_LoadInv => c_LoadInv'
    BY <1>1 DEF c_LoadInv, Async!TrackerIsLoadable, c_RoomInv
<1> QED BY <1>2, <1>3, <1>4, <1>5, <1>6, <1>7 DEF c_IInv

LEMMA c_StopInv ==
    ASSUME c_IInv, Async!Stop
    PROVE  c_IInv' /\ (c_LoadInv => c_LoadInv')
<1>1. c_phase = "train" /\ c_phase' = "streamEnded" /\ UNCHANGED <<Async!memory, Async!disk, c_crashes>>
    BY DEF Async!Stop
<1> USE <1>1 DEF Async!memory, Async!disk
<1>2. c_TypeInv'
    BY DEF c_IInv, c_TypeInv, Async!TypeOK, c_OrderInv, c_Saving
<1>3. c_KeptInv' /\ c_LagInv' /\ c_RiskInv' /\ c_SavedInv'
    BY DEF c_IInv, c_KeptInv, c_LagInv, c_RiskInv, c_SavedInv, c_Written
<1>4. c_LoadInv => c_LoadInv'
    BY DEF c_LoadInv, Async!TrackerIsLoadable, c_RoomInv
<1> QED BY <1>2, <1>3, <1>4 DEF c_IInv

(* A step that does not save leaves nothing behind that was due. *)
LEMMA c_SkipSaveInv ==
    ASSUME c_IInv, Async!SkipSave
    PROVE  c_IInv' /\ (c_LoadInv => c_LoadInv')
<1>1. /\ UNCHANGED <<Async!memory, Async!disk, c_crashes>>
      /\ \/ c_phase = "stepDone" /\ c_phase' = "train"
         \/ c_phase = "streamEnded" /\ c_phase' = "done"
    BY DEF Async!SkipSave, Async!After
<1>2. \/ c_version = c_latest
      \/ SaveFreq = 0
      \/ c_phase = "stepDone" /\ c_version % SaveFreq # 0
    BY <1>1, c_ConstantTypes, SMT DEF Async!SkipSave, Async!SaveDue, Async!Final, c_IInv, c_TypeInv, c_OrderInv
<1> USE <1>1 DEF Async!memory, Async!disk
<1>3. c_TypeInv'
    BY DEF c_IInv, c_TypeInv, Async!TypeOK, c_OrderInv, c_Saving
<1>4. c_KeptInv' /\ c_LagInv'
    BY DEF c_IInv, c_KeptInv, c_LagInv, c_Written
<1>5. c_RiskInv'
    <2> SUFFICES ASSUME SaveFreq > 0, NEW m \in c_latest + 1 .. c_version, m % SaveFreq = 0
                 PROVE  c_phase' # "train" /\ m = c_version
        BY DEF c_RiskInv
    <2>1. m = c_version
        BY DEF c_IInv, c_RiskInv
    <2>2. c_version # c_latest
        BY <2>1, SMT DEF c_IInv, c_TypeInv, Async!TypeOK
    <2> QED BY <2>1, <2>2, <1>2, SMT
<1>6. c_SavedInv'
    <2>1. c_phase' = "done" /\ SaveFreq > 0 => c_version = c_latest
        BY <1>2, SMT
    <2> QED BY <2>1 DEF c_IInv, c_SavedInv, c_Written
<1>7. c_LoadInv => c_LoadInv'
    BY DEF c_LoadInv, Async!TrackerIsLoadable, c_RoomInv
<1> QED BY <1>3, <1>4, <1>5, <1>6, <1>7 DEF c_IInv

LEMMA c_CrashInv ==
    ASSUME c_IInv, Async!Crash
    PROVE  c_IInv' /\ (c_LoadInv => c_LoadInv')
<1>1. c_phase' = "down" /\ UNCHANGED <<Async!memory, Async!disk>> /\ c_crashes < MaxCrashes
      /\ c_crashes' = c_crashes + 1
    BY DEF Async!Crash
<1>2. c_TypeInv'
    <2>1. c_crashes' \in 0 .. MaxCrashes
        BY <1>1, c_ConstantTypes, SMT DEF c_IInv, c_TypeInv, Async!TypeOK
    <2> QED BY <1>1, <2>1 DEF c_IInv, c_TypeInv, Async!TypeOK, c_OrderInv, c_Saving, Async!memory, Async!disk
<1>3. c_KeptInv' /\ c_LagInv' /\ c_RiskInv' /\ c_SavedInv'
    BY <1>1 DEF c_IInv, c_KeptInv, c_LagInv, c_RiskInv, c_SavedInv, c_Written, Async!memory, Async!disk
<1>4. c_LoadInv => c_LoadInv'
    BY <1>1 DEF c_LoadInv, Async!TrackerIsLoadable, c_RoomInv, Async!memory, Async!disk
<1> QED BY <1>2, <1>3, <1>4 DEF c_IInv

(* A restart goes on from the checkpoint the tracker names. *)
LEMMA c_RestartInv ==
    ASSUME c_IInv, Async!Restart
    PROVE  c_IInv' /\ (c_LoadInv => c_LoadInv')
<1>1. /\ c_phase' = "train" /\ (c_latest # 0 => c_actor[c_latest] > 0)
      /\ c_version' = c_latest /\ c_lastCkpt' = c_latest /\ c_localStep' = 1 /\ c_kept' = << >>
      /\ c_updates' = (IF c_latest = 0 THEN 0 ELSE c_actor[c_latest]) /\ c_rolled' = c_updates'
      /\ c_actor' = c_actor /\ c_data' = c_data /\ c_latest' = c_latest /\ c_crashes' = c_crashes
    BY DEF Async!Restart, Async!ResumedLastCkpt, Async!ResumedRolled, Async!disk
<1>2. << >> \in Seq(Async!Versions) /\ Len(<< >>) = 0 /\ DOMAIN c_kept' = {}
    BY <1>1, EmptySeq, SMT
<1>3. c_updates' \in Nat /\ (c_latest > 0 => c_updates' > 0 /\ c_actor[c_latest] \in Nat
                                        /\ c_updates' = c_actor[c_latest])
    <2>1. c_latest \in Nat /\ (c_latest # 0 => c_latest \in Async!Versions)
        BY c_ConstantTypes, SMT DEF c_IInv, c_TypeInv, Async!TypeOK, Async!Versions
    <2>2. c_latest # 0 => c_actor[c_latest] \in Nat /\ c_actor[c_latest] > 0
        <3>1. c_latest # 0 => c_actor[c_latest] \in Nat \cup {Async!Torn}
            BY <2>1 DEF c_IInv, c_TypeInv, Async!TypeOK
        <3> QED BY <1>1, <3>1, SMT DEF Async!Torn
    <2> QED BY <1>1, <2>1, <2>2, SMT
<1>4. c_TypeInv'
    <2>1. c_rolled' \in 0 .. c_updates' /\ c_localStep' \in 1 .. TriggerSteps
          /\ c_lastCkpt' \in 0 .. c_version' /\ c_version' \in 0 .. MaxVersion
        BY <1>1, <1>3, c_ConstantTypes, SMT DEF c_IInv, c_TypeInv, Async!TypeOK
    <2>2. Async!TypeOK'
        BY <1>1, <1>2, <1>3, <2>1 DEF c_IInv, c_TypeInv, Async!TypeOK
    <2> QED BY <1>1, <2>2 DEF c_TypeInv, c_OrderInv, c_Saving
<1>5. c_KeptInv'
    BY <1>2 DEF c_KeptInv
<1>6. c_LagInv' /\ c_RiskInv' /\ c_SavedInv'
    <2>1. c_LagInv'
        BY <1>1, <1>3, SMT DEF c_LagInv
    <2>2. \A m \in c_latest' + 1 .. c_version' : FALSE
        BY <1>1, SMT DEF c_IInv, c_TypeInv, Async!TypeOK
    <2>3. c_SavedInv'
        BY <1>1, <1>3, SMT DEF c_SavedInv, c_Written
    <2> QED BY <2>1, <2>2, <2>3 DEF c_RiskInv
<1>7. c_LoadInv => c_LoadInv'
    <2>1. c_RoomInv'
        BY <1>1, <1>2, c_ConstantTypes, SMT DEF c_RoomInv
    <2> QED BY <1>1, <2>1 DEF c_LoadInv, Async!TrackerIsLoadable
<1> QED BY <1>4, <1>5, <1>6, <1>7 DEF c_IInv

-----------------------------------------------------------------------------
(* The steps of a save                                                     *)

(* Whatever is deleted to make room, the list that remains is its end.     *)
LEMMA c_BeginSaveInv ==
    ASSUME c_IInv, Async!BeginSave
    PROVE  c_IInv' /\ (KeepMax # 1 /\ c_LoadInv => c_LoadInv')
<1>1. /\ c_phase \in {"stepDone", "streamEnded"} /\ c_phase' \in {"write", "finalWrite"}
      /\ c_version # c_lastCkpt /\ SaveFreq > 0
      /\ c_kept' = Async!Dropped(c_kept, Async!Room)
      /\ c_actor' = [Async!Without(Async!First(c_kept, Async!Room)) EXCEPT ![c_version] = Async!Torn]
      /\ c_updates' = c_updates /\ c_rolled' = c_rolled /\ c_localStep' = c_localStep
      /\ c_version' = c_version /\ c_lastCkpt' = c_lastCkpt /\ c_data' = c_data /\ c_latest' = c_latest
      /\ c_crashes' = c_crashes
    BY DEF Async!BeginSave, Async!SaveDue
<1>2. /\ c_kept \in Seq(Async!Versions) /\ c_actor \in [Async!Versions -> Nat \cup {Async!Torn}]
      /\ c_version \in 0 .. MaxVersion /\ c_latest = c_lastCkpt /\ c_lastCkpt \in 0 .. c_version
      /\ MaxVersion \in Nat
    BY c_ConstantTypes DEF c_IInv, c_TypeInv, Async!TypeOK, c_OrderInv
<1>3. c_version \in Async!Versions /\ c_latest < c_version /\ c_latest \in Nat /\ c_version \in Nat
    BY <1>1, <1>2, SMT DEF Async!Versions
<1>4. Async!Room \in 0 .. Len(c_kept)
    BY <1>2, c_RoomRange
<1>5. /\ c_kept' \in Seq(Async!Versions) /\ Len(c_kept') = Len(c_kept) - Async!Room
      /\ DOMAIN c_kept' = 1 .. Len(c_kept) - Async!Room
      /\ \A i \in DOMAIN c_kept' : Async!Room + i \in DOMAIN c_kept /\ c_kept'[i] = c_kept[Async!Room + i]
    BY <1>1, <1>2, <1>4, c_DroppedShape
<1>6. c_actor' \in [Async!Versions -> Nat \cup {Async!Torn}]
    BY <1>1, <1>2, c_WithoutType
<1>7. c_TypeInv'
    <2>1. Async!TypeOK'
        BY <1>1, <1>5, <1>6 DEF c_IInv, c_TypeInv, Async!TypeOK
    <2>2. c_OrderInv'
        BY <1>1, <1>2, <1>3 DEF c_OrderInv
    <2> QED BY <2>1, <2>2 DEF c_TypeInv
<1>8. /\ \A i, j \in DOMAIN c_kept : i < j => c_kept[i] < c_kept[j]
      /\ \A i \in DOMAIN c_kept : c_kept[i] <= c_latest
    BY <1>1 DEF c_IInv, c_KeptInv, c_Written
<1>9. c_KeptInv'
    <2>1. \A i, j \in DOMAIN c_kept' : i < j => Async!Room + i < Async!Room + j
        BY <1>4, <1>5, c_KeptType, <1>2, SMT
    <2>2. \A i, j \in DOMAIN c_kept' : i < j => c_kept'[i] < c_kept'[j]
        BY <2>1, <1>5, <1>8
    <2>3. \A i \in DOMAIN c_kept' : c_kept'[i] <= c_latest'
        BY <1>1, <1>5, <1>8
    <2>4. c_phase' \notin c_Written
        BY <1>1 DEF c_Written
    <2> QED BY <2>2, <2>3, <2>4 DEF c_KeptInv
<1>10. c_LagInv' /\ c_RiskInv' /\ c_SavedInv'
    <2>1. c_LagInv'
        BY <1>1 DEF c_IInv, c_LagInv
    <2>2. c_RiskInv'
        BY <1>1 DEF c_IInv, c_RiskInv
    <2>3. c_version' # c_latest' /\ c_phase' \notin c_Written /\ c_phase' # "done"
        BY <1>1, <1>3, SMT DEF c_Written
    <2> QED BY <2>1, <2>2, <2>3 DEF c_SavedInv
<1>11. ASSUME KeepMax # 1, c_LoadInv PROVE c_LoadInv'
    <2>1. Len(c_kept) \in Nat /\ DOMAIN c_kept = 1 .. Len(c_kept)
        BY <1>2, c_KeptType
    <2>2. c_latest # 0 => c_latest \notin Async!First(c_kept, Async!Room)
        <3> SUFFICES ASSUME NEW i \in 1 .. Async!Room, c_kept[i] = c_latest PROVE FALSE
            BY DEF Async!First
        <3>1. Async!Room > 0 /\ KeepMax > 1 /\ Len(c_kept) <= KeepMax
            <4>1. Async!Room > 0
                BY <1>4, SMT
            <4>2. KeepMax > 1
                BY <4>1, <1>2, c_RoomRange
            <4> QED BY <4>1, <4>2, <1>1, <1>11 DEF c_LoadInv, c_RoomInv
        <3>2. Async!Room = 1 /\ Len(c_kept) > 1
            BY <3>1, <1>2, <1>4, <2>1, c_RoomRange, SMT
        <3>3. i = 1 /\ 1 \in DOMAIN c_kept /\ 2 \in DOMAIN c_kept
            BY <3>2, <2>1, SMT
        <3>4. c_kept[1] < c_kept[2] /\ c_kept[2] <= c_latest
            <4>1. 1 < 2
                OBVIOUS
            <4> QED BY <4>1, <3>3, <1>8
        <3>5. c_kept[2] \in Nat
            BY <3>3, <1>2, c_KeptType, SMT DEF Async!Versions
        <3> QED BY <3>3, <3>4, <3>5, <1>3, SMT
    <2>3. c_latest # 0 => c_latest \in Async!Versions /\ c_latest # c_version
        BY <1>2, <1>3, SMT DEF Async!Versions
    <2>4. c_latest # 0 => c_actor'[c_latest] = c_actor[c_latest]
        BY <1>1, <1>2, <2>2, <2>3, c_WithoutType
    <2>5. Async!TrackerIsLoadable'
        BY <1>1, <1>11, <2>4 DEF c_LoadInv, Async!TrackerIsLoadable
    <2>6. c_RoomInv'
        <3>1. KeepMax > 1 => Len(c_kept') < KeepMax
            BY <1>2, <1>5, c_RoomRange
        <3> QED BY <3>1, <1>5, <2>1, <1>4, c_ConstantTypes, SMT DEF c_RoomInv
    <2>7. c_phase' \notin {"tracker", "finalTracker"}
        BY <1>1
    <2> QED BY <2>5, <2>6, <2>7 DEF c_LoadInv
<1> QED BY <1>7, <1>9, <1>10, <1>11 DEF c_IInv

(* The new version goes to the end of the list, and is not what is deleted.*)
LEMMA c_WriteActorInv ==
    ASSUME c_IInv, Async!WriteActor
    PROVE  c_IInv' /\ (KeepMax # 1 /\ c_LoadInv => c_LoadInv')
<1> DEFINE all == Append(c_kept, c_version)
           excess == IF KeepMax > 0 /\ Len(all) > KeepMax THEN Len(all) - KeepMax ELSE 0
<1>1. /\ c_phase \in {"write", "finalWrite"} /\ c_phase' \in {"data", "finalData"}
      /\ c_kept' = Async!Dropped(all, excess)
      /\ c_actor' = [v \in Async!Versions |->
             IF v \in Async!First(all, excess) THEN 0
             ELSE IF v = c_version THEN c_updates ELSE c_actor[v]]
      /\ c_updates' = c_updates /\ c_rolled' = c_rolled /\ c_localStep' = c_localStep
      /\ c_version' = c_version /\ c_lastCkpt' = c_lastCkpt /\ c_data' = c_data /\ c_latest' = c_latest
      /\ c_crashes' = c_crashes
    BY DEF Async!WriteActor
<1>2. /\ c_kept \in Seq(Async!Versions) /\ c_actor \in [Async!Versions -> Nat \cup {Async!Torn}]
      /\ c_version \in 0 .. MaxVersion /\ c_latest \in 0 .. MaxVersion /\ c_latest < c_version
      /\ MaxVersion \in Nat /\ KeepMax \in Nat /\ c_updates \in Nat
    BY <1>1, c_ConstantTypes DEF c_IInv, c_TypeInv, Async!TypeOK, c_OrderInv, c_Saving
<1>3. c_version \in Async!Versions /\ c_latest \in Nat /\ c_version \in Nat
    BY <1>2, SMT DEF Async!Versions
<1>4. /\ Len(c_kept) \in Nat /\ DOMAIN c_kept = 1 .. Len(c_kept)
      /\ \A i \in DOMAIN c_kept : c_kept[i] \in Async!Versions
    BY <1>2, c_KeptType
<1>5. /\ all \in Seq(Async!Versions) /\ Len(all) = Len(c_kept) + 1
      /\ \A i \in 1 .. Len(c_kept) : all[i] = c_kept[i]
      /\ all[Len(c_kept) + 1] = c_version
    BY <1>2, <1>3, AppendProperties
<1> HIDE DEF all
<1>6. /\ excess \in 0 .. Len(all) /\ excess <= Len(c_kept)
      /\ KeepMax # 1 /\ (KeepMax > 1 => Len(c_kept) < KeepMax) => excess = 0
    BY <1>2, <1>4, <1>5, SMT
<1> HIDE DEF excess
<1>7. /\ c_kept' \in Seq(Async!Versions) /\ Len(c_kept') = Len(all) - excess
      /\ DOMAIN c_kept' = 1 .. Len(all) - excess
      /\ \A i \in DOMAIN c_kept' : excess + i \in DOMAIN all /\ c_kept'[i] = all[excess + i]
    <2>1. all \in Seq(Async!Versions) /\ excess \in 0 .. Len(all)
          /\ c_kept' = Async!Dropped(all, excess)
        BY <1>1, <1>5, <1>6
    <2> QED BY <2>1, c_DroppedShape
<1>8. DOMAIN all = 1 .. Len(c_kept) + 1
    BY <1>5, LenProperties
<1>9. /\ \A i, j \in DOMAIN c_kept : i < j => c_kept[i] < c_kept[j]
      /\ \A i \in DOMAIN c_kept : c_kept[i] <= c_latest
    BY <1>1 DEF c_IInv, c_KeptInv, c_Written
<1>10. \A i \in 1 .. Len(c_kept) : all[i] \in Nat /\ all[i] < c_version
    <2> SUFFICES ASSUME NEW i \in 1 .. Len(c_kept) PROVE all[i] \in Nat /\ all[i] < c_version
        OBVIOUS
    <2>1. all[i] = c_kept[i] /\ c_kept[i] \in Async!Versions /\ c_kept[i] <= c_latest
        BY <1>4, <1>5, <1>9
    <2>2. \A x \in Async!Versions : x <= c_latest => x \in Nat /\ x < c_version
        BY <1>2, <1>3, SMT DEF Async!Versions
    <2> QED BY <2>1, <2>2
<1>11. \A i, j \in DOMAIN all : i < j => all[i] < all[j]
    <2> SUFFICES ASSUME NEW i \in DOMAIN all, NEW j \in DOMAIN all, i < j
                 PROVE  all[i] < all[j]
        OBVIOUS
    <2>1. i \in 1 .. Len(c_kept)
        BY <1>4, <1>8, SMT
    <2>2. CASE j = Len(c_kept) + 1
        BY <2>1, <2>2, <1>5, <1>10
    <2>3. CASE j # Len(c_kept) + 1
        <3>1. j \in 1 .. Len(c_kept)
            BY <2>3, <1>4, <1>8, SMT
        <3> QED BY <2>1, <3>1, <1>4, <1>5, <1>9
    <2> QED BY <2>2, <2>3
<1>12. \A i \in DOMAIN all : all[i] <= c_version
    <2> SUFFICES ASSUME NEW i \in DOMAIN all PROVE all[i] <= c_version
        OBVIOUS
    <2>1. CASE i = Len(c_kept) + 1
        BY <2>1, <1>3, <1>5
    <2>2. CASE i # Len(c_kept) + 1
        <3>1. i \in 1 .. Len(c_kept)
            BY <2>2, <1>4, <1>8, SMT
        <3> QED BY <3>1, <1>3, <1>10, SMT
    <2> QED BY <2>1, <2>2
<1>13. c_version \notin Async!First(all, excess)
    <2> SUFFICES ASSUME NEW i \in 1 .. excess, all[i] = c_version PROVE FALSE
        BY DEF Async!First
    <2>1. i \in 1 .. Len(c_kept)
        BY <1>4, <1>5, <1>6, SMT
    <2> QED BY <2>1, <1>3, <1>10, SMT
<1>14. c_actor' \in [Async!Versions -> Nat \cup {Async!Torn}] /\ c_actor'[c_version] = c_updates
    <2>1. \A v \in Async!Versions : c_actor'[v] \in Nat \cup {Async!Torn}
        BY <1>1, <1>2
    <2>2. c_actor'[c_version] = c_updates
        BY <1>1, <1>3, <1>13
    <2> QED BY <2>1, <2>2, <1>1
<1>15. c_TypeInv'
    <2>1. Async!TypeOK'
        BY <1>1, <1>7, <1>14 DEF c_IInv, c_TypeInv, Async!TypeOK
    <2>2. c_OrderInv'
        BY <1>1, <1>2 DEF c_IInv, c_TypeInv, c_OrderInv
    <2> QED BY <2>1, <2>2 DEF c_TypeInv
<1>16. c_KeptInv'
    <2>1. \A i, j \in DOMAIN c_kept' : i < j => excess + i < excess + j
        BY <1>5, <1>6, <1>7, <1>4, SMT
    <2>2. \A i, j \in DOMAIN c_kept' : i < j => c_kept'[i] < c_kept'[j]
        BY <2>1, <1>7, <1>11
    <2>3. \A i \in DOMAIN c_kept' : c_kept'[i] <= c_version'
        BY <1>1, <1>7, <1>12
    <2>4. c_phase' \in c_Written
        BY <1>1 DEF c_Written
    <2> QED BY <2>2, <2>3, <2>4 DEF c_KeptInv
<1>17. c_LagInv' /\ c_RiskInv' /\ c_SavedInv'
    <2>1. c_LagInv'
        BY <1>1 DEF c_IInv, c_LagInv
    <2>2. c_RiskInv'
        BY <1>1 DEF c_IInv, c_RiskInv
    <2>3. c_version' # c_latest' /\ c_phase' # "done"
        BY <1>1, <1>2, <1>3, SMT
    <2>4. c_actor'[c_version'] = c_updates'
        BY <1>1, <1>14
    <2> QED BY <2>1, <2>2, <2>3, <2>4 DEF c_SavedInv
<1>18. ASSUME KeepMax # 1, c_LoadInv PROVE c_LoadInv'
    <2>1. KeepMax > 1 => Len(c_kept) < KeepMax
        BY <1>1, <1>18 DEF c_LoadInv, c_RoomInv
    <2>2. excess = 0
        BY <1>6, <1>18, <2>1
    <2>3. Async!First(all, excess) = {}
        BY <2>2, SMT DEF Async!First
    <2>4. c_latest # 0 => c_latest \in Async!Versions /\ c_latest # c_version
        BY <1>2, <1>3, SMT DEF Async!Versions
    <2>5. c_latest # 0 => c_actor'[c_latest] = c_actor[c_latest]
        BY <1>1, <2>3, <2>4
    <2>6. Async!TrackerIsLoadable'
        BY <1>1, <1>18, <2>5 DEF c_LoadInv, Async!TrackerIsLoadable
    <2>7. c_RoomInv'
        BY <1>1, <1>2, <1>4, <1>5, <1>7, <2>1, <2>2, SMT DEF c_RoomInv
    <2>8. c_phase' \notin {"tracker", "finalTracker"}
        BY <1>1
    <2> QED BY <2>6, <2>7, <2>8 DEF c_LoadInv
<1> QED BY <1>15, <1>16, <1>17, <1>18 DEF c_IInv

LEMMA c_WriteDataInv ==
    ASSUME c_IInv, Async!WriteData
    PROVE  c_IInv' /\ (c_LoadInv => c_LoadInv')
<1>1. /\ c_phase \in {"data", "finalData"} /\ c_phase' \in {"tracker", "finalTracker"}
      /\ c_data' = c_data \cup {c_version} /\ UNCHANGED <<Async!memory, c_actor, c_latest, c_crashes>>
    BY DEF Async!WriteData
<1>2. c_version \in Async!Versions
    BY <1>1, c_ConstantTypes, SMT DEF c_IInv, c_TypeInv, Async!TypeOK, c_OrderInv, c_Saving, Async!Versions
<1>3. c_TypeInv'
    BY <1>1, <1>2 DEF c_IInv, c_TypeInv, Async!TypeOK, c_OrderInv, c_Saving, Async!memory
<1>4. c_KeptInv' /\ c_LagInv' /\ c_RiskInv' /\ c_SavedInv'
    BY <1>1 DEF c_IInv, c_KeptInv, c_LagInv, c_RiskInv, c_SavedInv, c_Written, Async!memory
<1>5. c_LoadInv => c_LoadInv'
    BY <1>1 DEF c_LoadInv, Async!TrackerIsLoadable, c_RoomInv, Async!memory
<1> QED BY <1>3, <1>4, <1>5 DEF c_IInv

(* The tracker names the version only when all of it is on disk. *)
LEMMA c_WriteTrackerInv ==
    ASSUME c_IInv, Async!WriteTracker
    PROVE  c_IInv' /\ (c_LoadInv => c_LoadInv')
<1>1. /\ c_phase \in {"tracker", "finalTracker"} /\ c_phase' \in {"train", "done"}
      /\ c_latest' = c_version /\ c_lastCkpt' = c_version
      /\ UNCHANGED <<c_updates, c_rolled, c_localStep, c_version, c_kept, c_actor, c_data, c_crashes>>
    BY DEF Async!WriteTracker, Async!After
<1>2. c_version \in 0 .. MaxVersion /\ c_version \in Nat /\ c_version > 0 /\ MaxVersion \in Nat
    BY <1>1, c_ConstantTypes, SMT DEF c_IInv, c_TypeInv, Async!TypeOK, c_OrderInv, c_Saving
<1>3. c_actor[c_version] = c_updates /\ c_updates \in Nat /\ c_updates > 0
    <2>1. c_updates \in Nat /\ c_phase \in c_Written
        BY <1>1 DEF c_IInv, c_TypeInv, Async!TypeOK, c_Written
    <2> QED BY <1>2, <2>1 DEF c_IInv, c_SavedInv, c_LagInv
<1>4. c_TypeInv'
    <2>1. Async!TypeOK'
        BY <1>1, <1>2, SMT DEF c_IInv, c_TypeInv, Async!TypeOK
    <2>2. c_OrderInv'
        BY <1>1 DEF c_OrderInv, c_Saving
    <2> QED BY <2>1, <2>2 DEF c_TypeInv
<1>5. c_KeptInv'
    BY <1>1 DEF c_IInv, c_KeptInv, c_Written
<1>6. c_LagInv'
    BY <1>1 DEF c_IInv, c_LagInv
<1>7. c_RiskInv'
    <2>1. \A m \in c_latest' + 1 .. c_version' : FALSE
        BY <1>1, <1>2, SMT
    <2> QED BY <2>1 DEF c_RiskInv
<1>8. c_SavedInv'
    <2>1. c_localStep - 1 >= 0 /\ c_updates - c_updates = 0
        BY <1>3, c_ConstantTypes, SMT DEF c_IInv, c_TypeInv, Async!TypeOK
    <2>2. c_phase' \notin c_Written /\ c_version' = c_latest'
        BY <1>1 DEF c_Written
    <2> QED BY <1>1, <1>3, <2>1, <2>2 DEF c_SavedInv
<1>9. c_LoadInv => c_LoadInv'
    <2>1. c_LoadInv => Async!TrackerIsLoadable'
        BY <1>1, <1>3 DEF c_LoadInv, Async!TrackerIsLoadable
    <2>2. c_LoadInv => c_RoomInv'
        BY <1>1 DEF c_LoadInv, c_RoomInv
    <2> QED BY <1>1, <2>1, <2>2 DEF c_LoadInv
<1> QED BY <1>4, <1>5, <1>6, <1>7, <1>8, <1>9 DEF c_IInv

-----------------------------------------------------------------------------
(* The invariant and the theorems                                          *)

LEMMA c_IInvNext ==
    ASSUME c_IInv, [Async!Next]_(Async!vars)
    PROVE  c_IInv' /\ (KeepMax # 1 /\ c_LoadInv => c_LoadInv')
<1>1. CASE UNCHANGED Async!vars
    <2>1. c_TypeInv'
        BY <1>1 DEF c_IInv, c_TypeInv, Async!TypeOK, c_OrderInv, Async!vars, Async!memory, Async!disk
    <2>2. c_KeptInv' /\ c_LagInv' /\ c_RiskInv' /\ c_SavedInv'
        BY <1>1 DEF c_IInv, c_KeptInv, c_LagInv, c_RiskInv, c_SavedInv, Async!vars, Async!memory, Async!disk
    <2>3. c_LoadInv => c_LoadInv'
        BY <1>1 DEF c_LoadInv, Async!TrackerIsLoadable, c_RoomInv, Async!vars, Async!memory, Async!disk
    <2> QED BY <2>1, <2>2, <2>3 DEF c_IInv
<1>2. CASE Async!Next
    BY <1>2, c_TrainStepInv, c_StopInv, c_SkipSaveInv, c_BeginSaveInv, c_WriteActorInv, c_WriteDataInv,
       c_WriteTrackerInv, c_CrashInv, c_RestartInv DEF Async!Next
<1> QED BY <1>1, <1>2

LEMMA c_IInvHolds == Async!Spec => []c_IInv
<1>1. Async!Init => c_IInv
    BY c_IInvInit
<1>2. c_IInv /\ [Async!Next]_(Async!vars) => c_IInv'
    BY c_IInvNext
<1> QED BY <1>1, <1>2, PTL DEF Async!Spec

(* Type correctness: counters within their bounds, a disk of versions.     *)
THEOREM c_TypeCorrect == Async!Spec => []Async!TypeOK
<1>1. c_IInv => Async!TypeOK
    BY DEF c_IInv, c_TypeInv
<1> QED BY <1>1, c_IInvHolds, PTL

(* Crash recovery: unless only one checkpoint is kept, whatever moment of  *)
(* training or saving a crash comes at, the checkpoint the tracker names   *)
(* is whole and has its dataloader state.                                  *)
THEOREM TrackerStaysLoadable ==
    ASSUME KeepMax # 1
    PROVE  Async!Spec => []Async!TrackerIsLoadable
<1>1. Async!Init => c_IInv /\ c_LoadInv
    BY c_IInvInit
<1>2. c_IInv /\ c_LoadInv /\ [Async!Next]_(Async!vars) => c_IInv' /\ c_LoadInv'
    BY c_IInvNext
<1>3. c_LoadInv => Async!TrackerIsLoadable
    BY DEF c_LoadInv
<1> QED BY <1>1, <1>2, <1>3, PTL DEF Async!Spec

(* Whenever training goes on, fewer than save_freq versions would be lost  *)
(* by a crash.                                                             *)
THEOREM LittleIsAtRisk == Async!Spec => []Async!FewVersionsAtRisk
<1>1. c_IInv => Async!FewVersionsAtRisk
    <2> SUFFICES ASSUME c_IInv, c_phase = "train", SaveFreq > 0, ~(c_version - c_latest < SaveFreq)
                 PROVE  FALSE
        BY DEF Async!FewVersionsAtRisk
    <2>1. c_latest \in Nat /\ c_version \in Nat /\ SaveFreq \in Nat \ {0}
          /\ c_version >= c_latest + SaveFreq
        BY c_ConstantTypes, SMT DEF c_IInv, c_TypeInv, Async!TypeOK
    <2>2. PICK m \in c_latest + 1 .. c_version : m % SaveFreq = 0
        BY <2>1, OneIsDue
    <2> QED BY <2>2 DEF c_IInv, c_RiskInv
<1> QED BY <1>1, c_IInvHolds, PTL

(* The rollouter is behind by the local steps of the running cycle, after  *)
(* any number of crashes and restarts.                                     *)
THEOREM RollouterKeepsUp == Async!Spec => []Async!RollouterLagsByTheCycle
<1>1. c_IInv => Async!RollouterLagsByTheCycle
    BY DEF c_IInv, c_LagInv, Async!RollouterLagsByTheCycle
<1> QED BY <1>1, c_IInvHolds, PTL

(* A run that ends between two cycles has its last weights on disk.        *)
THEOREM EndIsSaved == Async!Spec => []Async!WholeCyclesAreSaved
<1>1. c_IInv => Async!WholeCyclesAreSaved
    <2> SUFFICES ASSUME c_IInv, c_phase = "done", c_localStep = 1, SaveFreq > 0, c_version > 0
                 PROVE  c_latest = c_version /\ c_actor[c_latest] = c_updates
        BY DEF Async!WholeCyclesAreSaved
    <2>1. c_version = c_latest
        BY DEF c_IInv, c_SavedInv
    <2>2. c_actor[c_latest] \in Nat /\ c_actor[c_latest] <= c_updates
          /\ c_updates - c_actor[c_latest] <= 1 - 1
        BY <2>1 DEF c_IInv, c_SavedInv
    <2>3. c_updates \in Nat
        BY DEF c_IInv, c_TypeInv, Async!TypeOK
    <2> QED BY <2>1, <2>2, <2>3, SMT
<1> QED BY <1>1, c_IInvHolds, PTL
-----------------------------------------------------------------------------
(* A job runs one trainer, so that what holds of each holds of the job.    *)
LEMMA RunsOneStepOff == SpecOfAll => Spec
<1>1. InitOfAll => Init
    BY DEF InitOfAll
<1>2. [NextOfOne]_allVars => [Next]_vars
    BY DEF NextOfOne, allVars
<1> QED BY <1>1, <1>2, PTL DEF SpecOfAll, Spec

LEMMA RunsLoop == SpecOfAll => Loop!Spec
<1>1. InitOfAll => Loop!Init
    BY DEF InitOfAll
<1>2. UNCHANGED loopVars => UNCHANGED Loop!vars
    BY DEF loopVars, Loop!vars, Loop!loop, Loop!replicas
<1>3. [NextOfOne]_allVars => [Loop!Next]_(Loop!vars)
    <2>1. NextOfOne => Loop!Next \/ UNCHANGED loopVars
        BY DEF NextOfOne
    <2>2. UNCHANGED allVars => UNCHANGED loopVars
        BY DEF allVars
    <2> QED BY <1>2, <2>1, <2>2, Zenon
<1> QED BY <1>1, <1>3, PTL DEF SpecOfAll, Loop!Spec

LEMMA RunsQueue == SpecOfAll => Queue!Spec
<1>1. InitOfAll => Queue!Init
    BY DEF InitOfAll
<1>2. UNCHANGED queueVars => UNCHANGED Queue!vars
    BY DEF queueVars, Queue!vars, Queue!replicas
<1>3. [NextOfOne]_allVars => [Queue!Next]_(Queue!vars)
    <2>1. NextOfOne => Queue!Next \/ UNCHANGED queueVars
        BY DEF NextOfOne
    <2>2. UNCHANGED allVars => UNCHANGED queueVars
        BY DEF allVars
    <2> QED BY <1>2, <2>1, <2>2, Zenon
<1> QED BY <1>1, <1>3, PTL DEF SpecOfAll, Queue!Spec

LEMMA RunsAsync == SpecOfAll => Async!Spec
<1>1. InitOfAll => Async!Init
    BY DEF InitOfAll
<1>2. UNCHANGED asyncVars => UNCHANGED Async!vars
    BY DEF asyncVars, Async!vars, Async!memory, Async!disk
<1>3. [NextOfOne]_allVars => [Async!Next]_(Async!vars)
    <2>1. NextOfOne => Async!Next \/ UNCHANGED asyncVars
        BY DEF NextOfOne
    <2>2. UNCHANGED allVars => UNCHANGED asyncVars
        BY DEF allVars
    <2> QED BY <1>2, <2>1, <2>2, Zenon
<1> QED BY <1>1, <1>3, PTL DEF SpecOfAll, Async!Spec

(* Whichever trainer runs: nothing but the latest weights generates, the   *)
(* steps take the batches in turn, over crashes and restarts, and what     *)
(* returns has trained to the total (the loops of ray_trainer.py,          *)
(* main_ppo_sync.py and one_step_off_ray_trainer.py).                      *)
THEOREM EveryTrainerGoesOnInTurn == SpecOfAll => []TrainersGoOnInTurn
<1>1. l_IInv => Loop!GeneratesWithCurrentWeights /\ EveryBatchInTurn
    BY l_Promises DEF EveryBatchInTurn
<1>2. q_IInv => Queue!GeneratesWithCurrentWeights /\ NoBatchTwice
    BY q_Promises DEF NoBatchTwice
<1>3. l_IInv /\ q_IInv /\ AtMostOneBatchIsLost /\ TrainsToTheTotal => TrainersGoOnInTurn
    BY <1>1, <1>2 DEF TrainersGoOnInTurn, GeneratesWithCurrentWeights
<1> QED BY <1>3, RunsOneStepOff, RunsLoop, RunsQueue, l_InvariantHolds, q_InvariantHolds,
           RestartLosesOneBatch, ReturnsAfterTheTotal, PTL

(* The checkpoints of the synchronous and of the fully asynchronous        *)
(* trainer: step, weights and history belong together, what was due is on  *)
(* disk, what the tracker names can be loaded.  With room for a single     *)
(* checkpoint it is deleted before the next one is written.                *)
THEOREM WhatIsOnDiskFitsTogether ==
    ASSUME KeepMax # 1
    PROVE  SpecOfAll => []CheckpointsFitTogether
<1>1. l_IInv => WeightsMatchTheLog /\ DueStepsAreSaved /\ ReturnsSavedAndValidated
    BY l_Promises DEF WeightsMatchTheLog, DueStepsAreSaved, ReturnsSavedAndValidated
<1>2. (/\ l_IInv /\ Async!TrackerIsLoadable /\ Async!FewVersionsAtRisk
       /\ Async!RollouterLagsByTheCycle /\ Async!WholeCyclesAreSaved) => CheckpointsFitTogether
    BY <1>1, Zenon DEF CheckpointsFitTogether, TrackerIsLoadable, FewVersionsAtRisk,
       RollouterLagsByTheCycle, WholeCyclesAreSaved
<1> QED BY <1>2, RunsLoop, RunsAsync, l_InvariantHolds, TrackerStaysLoadable, LittleIsAtRisk,
           RollouterKeepsUp, EndIsSaved, PTL

(* The counters of all the trainers stay in their ranges and in step with  *)
(* the logs.                                                               *)
THEOREM EveryTrainerTypeCorrect == SpecOfAll => []TypesOK
<1>1. l_IInv => Loop!TypeOK
    BY l_Promises
<1>2. q_IInv => Queue!TypeOK
    BY q_Promises
<1>3. TypeOK /\ l_IInv /\ q_IInv /\ Async!TypeOK => TypesOK
    BY <1>1, <1>2 DEF TypesOK
<1> QED BY <1>3, RunsOneStepOff, RunsLoop, RunsQueue, RunsAsync, TypeCorrect, l_InvariantHolds,
           q_InvariantHolds, c_TypeCorrect, PTL
=============================================================================
