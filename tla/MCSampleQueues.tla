--------------------------- MODULE MCSampleQueues ---------------------------
(***************************************************************************)
(* How samples come to a trainer: by the queue of the fully asynchronous   *)
(* pipeline, or by the TransferQueue and its replay buffer.  A behaviour   *)
(* is one of the chosen model; the others stay in their initial states.    *)
(***************************************************************************)
EXTENDS FullyAsync

CONSTANTS
    p1, p2, s1, s2,  \* prompts and their sessions
    None             \* no step, no prompt, no session

VARIABLES
    model,   \* the model that runs
    r_batch, r_pc, r_session, r_prompt, r_queue, r_buffer, r_listed, r_sampled

(* The replay buffer with given batches, prompts, sessions and multiple.    *)
Buffer(c) == INSTANCE ReplayBuffer WITH
    Batches <- c.batches, Prompts <- c.prompts, Sessions <- c.sessions, Multiple <- c.multiple,
    batch <- r_batch, pc <- r_pc, session <- r_session, prompt <- r_prompt, queue <- r_queue,
    buffer <- r_buffer, listed <- r_listed, sampled <- r_sampled

(* A validation and a step, one prompt in two sessions.                     *)
validated ==
    [batches |-> <<[partition |-> "val", step |-> 0], [partition |-> "train", step |-> 1]>>,
     prompts |-> {p1}, sessions |-> {s1, s2}, multiple |-> 2]

(* Two steps in a row, two prompts.                                         *)
trained ==
    [batches |-> <<[partition |-> "train", step |-> 1], [partition |-> "train", step |-> 2]>>,
     prompts |-> {p1, p2}, sessions |-> {s1}, multiple |-> 2]

(* Two batches of one validation, which share its step.                     *)
revalidated ==
    [batches |-> <<[partition |-> "val", step |-> 0], [partition |-> "val", step |-> 0]>>,
     prompts |-> {p1}, sessions |-> {s1, s2}, multiple |-> 2]

ASSUME InstancesAssumption ==
    \A c \in {validated, trained, revalidated} : Buffer(c)!BatchesAssumption /\ Buffer(c)!SizesAssumption

bufferVars == <<r_batch, r_pc, r_session, r_prompt, r_queue, r_buffer, r_listed, r_sampled>>
allVars    == <<model, vars, bufferVars>>

InitOfAll ==
    /\ model \in {"pipeline", "validated", "trained", "revalidated"}
    /\ Init
    /\ IF model = "trained" THEN Buffer(trained)!Init
       ELSE IF model = "revalidated" THEN Buffer(revalidated)!Init ELSE Buffer(validated)!Init

NextOfOne ==
    /\ UNCHANGED model
    /\ \/ model = "pipeline" /\ Next /\ UNCHANGED bufferVars
       \/ model = "validated" /\ Buffer(validated)!Next /\ UNCHANGED vars
       \/ model = "trained" /\ Buffer(trained)!Next /\ UNCHANGED vars
       \/ model = "revalidated" /\ Buffer(revalidated)!Next /\ UNCHANGED vars

(* The fairness of each model, where it runs.                               *)
FairnessOfOne ==
    /\ model = "pipeline" => Fairness
    /\ WF_bufferVars(model = "validated" /\ Buffer(validated)!Trainer)
    /\ WF_bufferVars(model = "validated" /\ Buffer(validated)!Poller)
    /\ \A b \in 1 .. 2 : WF_bufferVars(model = "validated" /\ Buffer(validated)!Work(b, p1))

SpecOfAll == InitOfAll /\ [][NextOfOne]_allVars /\ FairnessOfOne
-----------------------------------------------------------------------------
(* Pipeline: if reset never counts a task twice, the pipeline always reaches*)
(* its end.                                                                 *)
PipelineEnds == model = "pipeline" => EndsUnlessOvercounted

(* Types of all the models; the trainer holds keys of the replay buffer     *)
(* only between sampling and removing.                                      *)
TypesOK ==
    /\ TypeOK
    /\ IF model = "trained" THEN Buffer(trained)!TypeOK
       ELSE IF model = "revalidated" THEN Buffer(revalidated)!TypeOK ELSE Buffer(validated)!TypeOK

(* Replay buffer: what the trainer is about to read from the queue are rows *)
(* of this batch and still there, whatever an old listing brought back, or  *)
(* rows of an earlier batch of the same partition and step, if there is one;*)
(* no row of a prompt that finished is missed, and no entry was made from a *)
(* mark alone, without a step.                                              *)
SampledWhole(c) ==
    Buffer(c)!SampleIsTheBatch /\ Buffer(c)!SampleIsComplete /\ Buffer(c)!EntriesHaveTheirStep

(* Replay buffer: the trainer never waits for ever, whatever fails.         *)
EveryBatchIsSampled == model = "validated" => Buffer(validated)!EveryBatchIsSampled

(* Replay buffer: a batch is sampled whole, and with nothing but rows of    *)
(* batches that share its partition and step, as one validation's do.       *)
SamplesAreOfTheBatch ==
    IF model = "trained" THEN SampledWhole(trained)
    ELSE IF model = "revalidated" THEN SampledWhole(revalidated) ELSE SampledWhole(validated)

(* Neither way lets the trainer wait for ever.                              *)
StreamsEnd == PauseWithoutReasonEnds /\ PipelineEnds /\ EveryBatchIsSampled
=============================================================================
