------------------------------ MODULE MCAgents ------------------------------
(***************************************************************************)
(* Who reads a question: the synchronous agent, the asynchronous agent     *)
(* (one item in small windows, or a batch of items), or the evaluation     *)
(* client (with requests that all succeed, or may fail), whose runs over a *)
(* data set are the last model.  A behaviour is one of the chosen model;   *)
(* the others stay in one of their initial states.                         *)
(***************************************************************************)
EXTENDS MemoryAgent

CONSTANTS
    NQuestions,  \* questions of an evaluation
    NProc,       \* questions asked at a time
    MaxRuns      \* how often the evaluation is started

VARIABLES
    model,   \* the model that runs
    a_nchunks, a_at, a_final_pass_used, a_window, a_pending, a_replies, a_shown,
    a_global_memory, a_conversations, a_batch,
    b_variant, b_nchunks, b_stage, b_pass_num, b_passes_used, b_converged, b_global_memory,
    b_merge_memories, b_response, b_passes,
    e_runs, e_force, e_pc, e_data, e_asked, e_outcome, e_written, e_buffer, e_file, e_torn

(* One item of up to three chunks, asked two at a time, in three passes.    *)
Windows == INSTANCE AsyncMemoryAgent WITH
    Samples <- {"i1"}, MaxChunks <- 3, Parallelism <- 2, MaxPasses <- 3,
    nchunks <- a_nchunks, at <- a_at, final_pass_used <- a_final_pass_used, window <- a_window,
    pending <- a_pending, replies <- a_replies, shown <- a_shown,
    global_memory <- a_global_memory, conversations <- a_conversations, batch <- a_batch

(* Two items of up to two chunks, all asked at once, in two passes.         *)
Batch == INSTANCE AsyncMemoryAgent WITH
    Samples <- {"i1", "i2"}, MaxChunks <- 2, Parallelism <- 0, MaxPasses <- 2,
    nchunks <- a_nchunks, at <- a_at, final_pass_used <- a_final_pass_used, window <- a_window,
    pending <- a_pending, replies <- a_replies, shown <- a_shown,
    global_memory <- a_global_memory, conversations <- a_conversations, batch <- a_batch

(* The client with given bounds, whose requests may fail or never do.      *)
Client(c) == INSTANCE ParallelBoxed WITH
    MaxChunks <- c.chunks, MaxPasses <- c.passes, Faulty <- c.faulty,
    variant <- b_variant, nchunks <- b_nchunks, stage <- b_stage, pass_num <- b_pass_num,
    passes_used <- b_passes_used, converged <- b_converged, global_memory <- b_global_memory,
    merge_memories <- b_merge_memories, response <- b_response, passes <- b_passes

served  == [chunks |-> 3, passes |-> 3, faulty |-> FALSE]
faulted == [chunks |-> 2, passes |-> 3, faulty |-> TRUE]

(* The questions, the semaphore and the runs are the constants above.      *)
Evaluation == INSTANCE EvaluationRun WITH
    runs <- e_runs, force <- e_force, pc <- e_pc, data <- e_data, asked <- e_asked,
    outcome <- e_outcome, written <- e_written, buffer <- e_buffer, file <- e_file, torn <- e_torn

ASSUME InstancesAssumption ==
    /\ Windows!SamplesAssumption /\ Windows!ParallelismAssumption
    /\ Windows!MaxChunksAssumption /\ Windows!MaxPassesAssumption
    /\ Batch!SamplesAssumption /\ Batch!ParallelismAssumption
    /\ Batch!MaxChunksAssumption /\ Batch!MaxPassesAssumption
    /\ Client(served)!MaxChunksAssumption /\ Client(served)!MaxPassesAssumption /\ Client(served)!FaultyAssumption
    /\ Client(faulted)!MaxChunksAssumption /\ Client(faulted)!MaxPassesAssumption /\ Client(faulted)!FaultyAssumption
    /\ Evaluation!NQuestionsAssumption /\ Evaluation!NProcAssumption /\ Evaluation!MaxRunsAssumption

asyncVars == <<a_nchunks, a_at, a_final_pass_used, a_window, a_pending, a_replies, a_shown,
               a_global_memory, a_conversations, a_batch>>
boxedVars == <<b_variant, b_nchunks, b_stage, b_pass_num, b_passes_used, b_converged,
               b_global_memory, b_merge_memories, b_response, b_passes>>
runVars   == <<e_runs, e_force, e_pc, e_data, e_asked, e_outcome, e_written, e_buffer, e_file, e_torn>>
allVars   == <<model, vars, asyncVars, boxedVars, runVars>>

InitOfAll ==
    /\ model \in {"synchronous", "windows", "batch", "served", "faulted", "evaluation"}
    /\ Init
    /\ model # "synchronous" => nchunks = [s \in Samples |-> 0]
    /\ IF model = "windows" THEN Windows!Init ELSE Batch!Init
    /\ model \notin {"windows", "batch"} => a_nchunks = [s \in {"i1", "i2"} |-> 0]
    /\ IF model = "faulted" THEN Client(faulted)!Init ELSE Client(served)!Init
    /\ model \notin {"served", "faulted"} => b_variant = "merge" /\ b_nchunks = 0
    /\ Evaluation!Init

NextOfOne ==
    /\ UNCHANGED model
    /\ \/ /\ model = "synchronous" /\ Next
          /\ UNCHANGED <<asyncVars, boxedVars, runVars>>
       \/ /\ model = "windows" /\ Windows!Next
          /\ UNCHANGED <<vars, boxedVars, runVars>>
       \/ /\ model = "batch" /\ Batch!Next
          /\ UNCHANGED <<vars, boxedVars, runVars>>
       \/ /\ model = "served" /\ Client(served)!Next
          /\ UNCHANGED <<vars, asyncVars, runVars>>
       \/ /\ model = "faulted" /\ Client(faulted)!Next
          /\ UNCHANGED <<vars, asyncVars, runVars>>
       \/ /\ model = "evaluation" /\ Evaluation!Next
          /\ UNCHANGED <<vars, asyncVars, boxedVars>>

(* The fairness of each model, where it runs.                               *)
AsyncGather == \/ model = "windows" /\ Windows!Gather
               \/ model = "batch" /\ Batch!Gather
AsyncCoroutine(s) == \/ model = "windows" /\ s = "i1" /\ Windows!Coroutine(s)
                     \/ model = "batch" /\ Batch!Coroutine(s)
FairnessOfOne ==
    /\ WF_allVars(NextOfOne /\ model \in {"synchronous", "served", "faulted"})
    /\ WF_asyncVars(AsyncGather)
    /\ \A s \in {"i1", "i2"} : WF_asyncVars(AsyncCoroutine(s))
    /\ WF_runVars(model = "evaluation" /\ Evaluation!Work)

SpecOfAll == InitOfAll /\ [][NextOfOne]_allVars /\ FairnessOfOne
-----------------------------------------------------------------------------
(* Types of all the models.                                                 *)
TypesOK ==
    /\ TypeOK
    /\ IF model = "windows" THEN Windows!TypeOK ELSE Batch!TypeOK
    /\ IF model = "faulted" THEN Client(faulted)!TypeOK ELSE Client(served)!TypeOK
    /\ Evaluation!TypeOK

(* Synchronous agent: the loop ends for every batch.                        *)
BatchTerminates == model = "synchronous" => Terminates

(* Asynchronous agent: no window skips a chunk and none asks a chunk twice. *)
WindowsPartitionThePass == model = "windows" => Windows!WindowsPartitionThePass

(* Asynchronous agent: the rows of an item are in one order, whatever the   *)
(* order of the replies (the comment at async_memory.py:256).               *)
ConversationsAreInOrder == model = "windows" => Windows!ConversationsAreInOrder

(* Asynchronous agent: a merge is shown the memory its pass was read        *)
(* against and exactly the news of the chunks of that pass.                 *)
WindowsAreMergedWhole == model = "windows" => Windows!MergeCarriesTheEvidence

(* Asynchronous agent: a batch that returns hides no failed request, and    *)
(* every item has one final row, charged with the passes it really read.    *)
ReturnedBatchIsComplete == model = "batch" => Batch!ReturnedBatchIsComplete

(* Asynchronous agent: a failed request always reaches the caller, even if  *)
(* its reply came in an early window (of an item in windows of two chunks)  *)
(* or while the other coroutines go on (of a batch of two items).           *)
ErrorsReachTheCaller ==
    /\ (model = "windows" /\ Windows!Failed("i1")) ~> a_batch = "raised"
    /\ \A s \in {"i1", "i2"} : (model = "batch" /\ Batch!Failed(s)) ~> a_batch = "raised"

(* Asynchronous agent: every batch ends, returned or raised.                *)
BatchEnds ==
    /\ model = "windows" => Windows!BatchEnds
    /\ model = "batch" => Batch!BatchEnds

(* Every item of the asynchronous agent follows the workflow.               *)
BatchImplementsWorkflow ==
    /\ model = "batch" => Batch!Workflow!Init
    /\ [][model = "batch" => Batch!Workflow!Next]_asyncVars

(* Evaluation client: notes are lost only with the merge they were given to *)
(* or when a later merge comes back blank.                                  *)
MemoryIsWhatWasMerged == model = "faulted" => Client(faulted)!MemoryIsWhatWasMerged

(* Evaluation client: a record counts the passes that were read, and claims *)
(* convergence only if the last one had nothing to merge.                   *)
ReportedPassesWereRead == model = "faulted" => Client(faulted)!ReportedPassesWereRead

(* Evaluation client: every question gets a record, whatever fails.         *)
AlwaysReturns == model = "faulted" => Client(faulted)!AlwaysReturns

(* While no request fails, the evaluation client follows the workflow that  *)
(* both training agents implement.                                          *)
ClientImplementsWorkflow ==
    /\ model = "served" => Client(served)!Workflow!Init
    /\ [][model = "served" => Client(served)!Workflow!Next]_boxedVars

(* Evaluation runs: over any number of runs, killed, forced or not, no      *)
(* question is answered twice in the file.                                  *)
NoAnswerTwice == Evaluation!NoAnswerTwice

(* Evaluation runs: a run that finished leaves exactly the unanswered       *)
(* questions to the next one.                                               *)
FinishedRunIsRecorded == Evaluation!FinishedRunIsRecorded

(* Evaluation runs: what is on disk survives every kill and every later run *)
(* that is not forced.                                                      *)
SavedAnswersStay == Evaluation!SavedAnswersStay

(* Evaluation runs: no coroutine keeps the others out of the semaphore for  *)
(* ever, so every started run ends.                                         *)
RunsEnd == model = "evaluation" => Evaluation!RunsEnd

(* Whoever else reads: every chunk is read once in a pass, a merge is given *)
(* the news of its pass and nothing else, a record counts the passes that   *)
(* were read, and no question is answered twice.                            *)
OthersReadAndAnswer ==
    /\ WindowsPartitionThePass /\ ConversationsAreInOrder /\ WindowsAreMergedWhole
    /\ MemoryIsWhatWasMerged /\ ReturnedBatchIsComplete /\ ReportedPassesWereRead
    /\ NoAnswerTwice

(* Whoever reads: it comes to an end, and a failure to whoever called.      *)
ReadersEnd == BatchTerminates /\ BatchEnds /\ ErrorsReachTheCaller /\ AlwaysReturns /\ RunsEnd

(* The others promise what ReadSelectMerge says, too.                       *)
OthersImplementWorkflow == BatchImplementsWorkflow /\ ClientImplementsWorkflow

(* Evaluation runs: kills and restarts cost only what was not on disk.      *)
AnswersAreKept == FinishedRunIsRecorded /\ SavedAnswersStay
=============================================================================
