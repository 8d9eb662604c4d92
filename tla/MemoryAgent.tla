---------------------------- MODULE MemoryAgent ----------------------------
(***************************************************************************)
(* The synchronous PI-Mem agent (recurrent/impls/memory.py, MemoryAgent)   *)
(* driven by the generation loop (recurrent/generation_manager.py).  The   *)
(* whole batch goes through the phases together: one loop iteration asks   *)
(* for one chunk of every sample that still has one, a merge of every      *)
(* sample that has not converged, or the final answer of every sample.     *)
(*                                                                         *)
(* Texts are abstracted to their lineage: a memory is the sequence of the  *)
(* sets of chunks merged into it, one set per merge (<< >> for the code's  *)
(* None), and a merge reply is the text the merge prompt was built from.   *)
(*                                                                         *)
(* An operator introduced by "Slip:" is not part of the model: it is the   *)
(* definition that follows it with a plausible mistake, kept to show which *)
(* property notices the mistake.                                           *)
(***************************************************************************)
EXTENDS Integers, Sequences, FiniteSets

CONSTANTS
    Samples,    \* rows of the batch
    MaxChunks,  \* config.max_chunks
    MaxPasses   \* config.max_passes

ASSUME SamplesAssumption   == IsFiniteSet(Samples) /\ Samples # {}
ASSUME MaxChunksAssumption == MaxChunks \in Nat
ASSUME MaxPassesAssumption == MaxPasses \in Nat \ {0}

VARIABLES
    nchunks,           \* ceil(ctx_length / chunk_size) of each sample
    phase,             \* "chunk", "merge" or "final"
    pass_num,          \* completed passes
    chunk_step,        \* chunk asked for next, from 0
    global_memory,     \* lineage of each sample's memory
    chunk_memories,    \* per chunk step of this pass: samples with new info
    converged,         \* samples one whole pass told nothing new
    sample_pass_used,  \* passes charged to each sample, -1 while unset
    prompts,           \* rows in flight: the text each sample asked is shown
    turns,             \* rows generated so far
    step,              \* loop iterations completed
    loop               \* "action", "update", "ended": where run_llm_loop is

vars == <<nchunks, phase, pass_num, chunk_step, global_memory, chunk_memories,
          converged, sample_pass_used, prompts, turns, step, loop>>

Memories == Seq(SUBSET (0 .. MaxChunks - 1))

(* Slip: the last chunk is taken for past the end. *)
ActiveOffByOne(k) == {s \in Samples \ converged : nchunks[s] > k + 1}
(* Slip: one chunk too many. *)
ActiveTooLong(k) == {s \in Samples \ converged : nchunks[s] >= k}
(* Samples whose context reaches chunk k and that still read. *)
Active(k) == {s \in Samples \ converged : nchunks[s] > k}

(* Chunks of this pass that told sample s something new. *)
Evidence(s) == {k \in 0 .. Len(chunk_memories) - 1 : s \in chunk_memories[k + 1]}

(* Slip: one chunk without news is enough. *)
UnanimousByAny(replies) ==
    {s \in Samples : \E k \in DOMAIN replies : s \notin replies[k]}
(* _check_pass_convergence, given the replies of the pass. *)
Unanimous(replies) ==
    {s \in Samples : \A k \in DOMAIN replies : s \notin replies[k]}
CheckedConverged(replies) == converged \cup Unanimous(replies)
(* Slip: the pass that found nothing is not charged. *)
CheckedUsedOffByOne(replies) ==
    [s \in Samples |->
        IF s \in Unanimous(replies) \ converged /\ sample_pass_used[s] < 0
        THEN pass_num ELSE sample_pass_used[s]]
CheckedUsed(replies) ==
    [s \in Samples |->
        IF s \in Unanimous(replies) \ converged /\ sample_pass_used[s] < 0
        THEN pass_num + 1 ELSE sample_pass_used[s]]

(* Slip: converged samples are charged again. *)
FinalizedForAll(used, final_pass) == [s \in Samples |-> final_pass]
(* _finalize_sample_pass_used: charge final_pass to the samples still unset. *)
Finalized(used, final_pass) ==
    [s \in Samples |->
        IF used[s] < 0 THEN IF final_pass > 1 THEN final_pass ELSE 1
        ELSE used[s]]

Init ==
    /\ nchunks \in [Samples -> 0 .. MaxChunks]
    /\ phase = "chunk"
    /\ pass_num = 0
    /\ chunk_step = 0
    /\ global_memory = [s \in Samples |-> << >>]
    /\ chunk_memories = << >>
    /\ converged = {}
    /\ sample_pass_used = [s \in Samples |-> -1]
    /\ prompts = << >>
    /\ turns = {}
    /\ step = 0
    /\ loop = "action"

-----------------------------------------------------------------------------
(* agent.action(): the prompts of one iteration.  A chunk prompt and the    *)
(* final prompt show the memory; a merge prompt shows the memory and the    *)
(* notes of this pass.                                                      *)

(* Slip: the notes of earlier chunks of the pass are shown too. *)
ChunkPromptsWithNotes ==
    [s \in Active(chunk_step) |->
        IF Evidence(s) = {} THEN global_memory[s]
        ELSE Append(global_memory[s], Evidence(s))]
ChunkPrompts == [s \in Active(chunk_step) |-> global_memory[s]]
(* Slip: converged samples are merged too. *)
MergePromptsUnmasked(done) ==
    [s \in Samples |-> Append(global_memory[s], Evidence(s))]
MergePrompts(done) ==
    [s \in Samples \ done |-> Append(global_memory[s], Evidence(s))]
FinalPrompts == global_memory

ChunkAction ==
    /\ loop = "action" /\ phase = "chunk"
    /\ Active(chunk_step) # {}
    /\ prompts' = ChunkPrompts
    /\ loop' = "update"
    /\ UNCHANGED <<nchunks, phase, pass_num, chunk_step, global_memory,
                   chunk_memories, converged, sample_pass_used, turns, step>>

(* Slip: the case is forgotten. *)
EmptyChunkActionForgotten == FALSE
(* _chunk_action with nothing left to read: the convergence check, then the *)
(* final or the merge prompts at once.                                      *)
EmptyChunkAction ==
    /\ loop = "action" /\ phase = "chunk"
    /\ Active(chunk_step) = {}
    /\ converged' = CheckedConverged(chunk_memories)
    /\ LET all == converged' = Samples
           used == CheckedUsed(chunk_memories)
       IN  /\ phase' = IF all THEN "final" ELSE "merge"
           /\ pass_num' = IF all THEN pass_num + 1 ELSE pass_num
           /\ sample_pass_used' = IF all THEN Finalized(used, pass_num + 1) ELSE used
           /\ prompts' = IF all THEN FinalPrompts ELSE MergePrompts(converged')
    /\ loop' = "update"
    /\ UNCHANGED <<nchunks, chunk_step, global_memory, chunk_memories, turns, step>>

MergeAction ==
    /\ loop = "action" /\ phase = "merge"
    /\ prompts' = MergePrompts(converged)
    /\ loop' = "update"
    /\ UNCHANGED <<nchunks, phase, pass_num, chunk_step, global_memory,
                   chunk_memories, converged, sample_pass_used, turns, step>>

FinalAction ==
    /\ loop = "action" /\ phase = "final"
    /\ prompts' = FinalPrompts
    /\ loop' = "update"
    /\ UNCHANGED <<nchunks, phase, pass_num, chunk_step, global_memory,
                   chunk_memories, converged, sample_pass_used, turns, step>>

-----------------------------------------------------------------------------
(* agent.update(): the model has answered every prompt in flight.           *)

(* The rows this iteration adds to gen_output_list, with their pass_used,   *)
(* and the samples whose reply brought something new.                       *)
Rows(used, news) ==
    {[step |-> step, kind |-> phase, sample |-> s, chunk |-> chunk_step,
      seen |-> prompts[s], news |-> s \in news, pass_used |-> used[s]] :
        s \in DOMAIN prompts}

Record(used, news) ==
    /\ turns' = turns \cup Rows(used, news)
    /\ step' = step + 1
    /\ loop' = "action"
    /\ prompts' = << >>

CurrentPass == [s \in Samples |-> pass_num + 1]

(* Replies without the marker are kept; when no sample has a further chunk, *)
(* convergence is checked and the pass ends in a merge or in the answer.    *)
ChunkUpdate ==
    /\ loop = "update" /\ phase = "chunk"
    /\ \E news \in SUBSET DOMAIN prompts :
        /\ Record(CurrentPass, news)
        /\ chunk_memories' = Append(chunk_memories, news)
        /\ chunk_step' = chunk_step + 1
    /\ IF Active(chunk_step + 1) # {}
       THEN UNCHANGED <<phase, pass_num, converged, sample_pass_used>>
       ELSE LET used == CheckedUsed(chunk_memories')
            IN  /\ converged' = CheckedConverged(chunk_memories')
                /\ IF converged' = Samples
                   THEN /\ pass_num' = pass_num + 1
                        /\ sample_pass_used' = Finalized(used, pass_num + 1)
                        /\ phase' = "final"
                   ELSE /\ sample_pass_used' = used
                        /\ phase' = "merge"
                        /\ UNCHANGED pass_num
    /\ UNCHANGED <<nchunks, global_memory>>

(* Slip: the notes of the pass stay in the list. *)
NextPassKeepsNotes ==
    phase' = "chunk" /\ chunk_step' = 0 /\ UNCHANGED chunk_memories
NextPass == phase' = "chunk" /\ chunk_step' = 0 /\ chunk_memories' = << >>

(* Slip: the first converged sample ends the reading of all. *)
ReadingIsOverByAny(passes) == passes >= MaxPasses \/ converged # {}
(* Slip: the pass limit is forgotten. *)
ReadingIsOverUnlimited(passes) == converged = Samples
ReadingIsOver(passes) == passes >= MaxPasses \/ converged = Samples

(* The merged texts become the memories; a new pass starts from the first   *)
(* chunk unless the passes are used up.                                     *)
MergeUpdate ==
    /\ loop = "update" /\ phase = "merge"
    /\ Record(CurrentPass, {})
    /\ global_memory' = [s \in Samples |->
            IF s \in DOMAIN prompts THEN prompts[s] ELSE global_memory[s]]
    /\ pass_num' = pass_num + 1
    /\ IF ReadingIsOver(pass_num + 1)
       THEN /\ sample_pass_used' = Finalized(sample_pass_used, pass_num + 1)
            /\ phase' = "final"
            /\ UNCHANGED <<chunk_step, chunk_memories>>
       ELSE NextPass /\ UNCHANGED sample_pass_used
    /\ UNCHANGED <<nchunks, converged>>

(* The answers: is_done, and the loop ends (agent.end only drops state).    *)
FinalUpdate ==
    /\ loop = "update" /\ phase = "final"
    /\ sample_pass_used' = Finalized(sample_pass_used, pass_num)
    /\ turns' = turns \cup Rows(sample_pass_used', {})
    /\ step' = step + 1
    /\ loop' = "ended"
    /\ prompts' = << >>
    /\ UNCHANGED <<nchunks, phase, pass_num, chunk_step, global_memory,
                   chunk_memories, converged>>

Next == \/ ChunkAction \/ EmptyChunkAction \/ MergeAction \/ FinalAction
        \/ ChunkUpdate \/ MergeUpdate \/ FinalUpdate

(* The loop always takes its next iteration: generation is one blocking     *)
(* call of the worker group.                                                *)
Spec == Init /\ [][Next]_vars /\ WF_vars(Next)

-----------------------------------------------------------------------------
(* Type correctness of the agent's attributes (MemoryAgent.start). *)
TypeOK ==
    /\ nchunks \in [Samples -> 0 .. MaxChunks]
    /\ phase \in {"chunk", "merge", "final"}
    /\ pass_num \in 0 .. MaxPasses
    /\ chunk_step \in 0 .. MaxChunks
    /\ global_memory \in [Samples -> Memories]
    /\ chunk_memories \in Seq(SUBSET Samples)
    /\ converged \in SUBSET Samples
    /\ sample_pass_used \in [Samples -> -1 .. MaxPasses]
    /\ DOMAIN prompts \in SUBSET Samples
    /\ \A s \in DOMAIN prompts : prompts[s] \in Memories
    /\ step \in Nat
    /\ loop \in {"action", "update", "ended"}

RowsOf(s, kind) == {t \in turns : t.sample = s /\ t.kind = kind}
PassRows(s, p)  == {t \in RowsOf(s, "chunk") : t.pass_used = p}

(* All chunks of one pass are read against the memory the pass started      *)
(* with: no note of the pass leaks into the prompt of a later chunk of it   *)
(* (_chunk_action reads global_memory, only a merge update writes it).      *)
PassReadsOneMemory ==
    \A s \in Samples : \A t, u \in RowsOf(s, "chunk") :
        t.pass_used = u.pass_used => t.seen = u.seen

(* A merge prompt holds the memory its pass was read against and the notes  *)
(* of every chunk of that pass that had news, of no other pass, and there   *)
(* is at least one: a sample without news is never merged.                  *)
MergeCarriesTheEvidence ==
    \A s \in Samples : \A m \in RowsOf(s, "merge") :
        LET read == PassRows(s, m.pass_used)
            news == {t.chunk : t \in {r \in read : r.news}}
        IN  /\ news # {}
            /\ \A t \in read : m.seen = Append(t.seen, news)

(* Every pass a sample starts reads each of its chunks exactly once before  *)
(* it is merged or converges, whatever the lengths of the others.           *)
PassesAreComplete ==
    \A s \in Samples : \A p \in 1 .. MaxPasses :
        PassRows(s, p) # {} /\ (s \in converged \/ pass_num >= p)
        => /\ {t.chunk : t \in PassRows(s, p)} = 0 .. nchunks[s] - 1
           /\ Cardinality(PassRows(s, p)) = nchunks[s]

(* A sample is marked converged exactly when a whole pass over its chunks   *)
(* was read without news, its last one.                                     *)
ConvergedMeansNoNews ==
    \A s \in converged :
        LET passes == {t.pass_used : t \in RowsOf(s, "chunk")}
        IN  /\ \A t \in RowsOf(s, "chunk") :
                  t.pass_used = Cardinality(passes) => ~t.news
            /\ Cardinality(RowsOf(s, "merge")) =
                  IF nchunks[s] = 0 THEN 0 ELSE Cardinality(passes) - 1

(* When the loop ends every sample has exactly one final row, generated in  *)
(* the last iteration and from the text of its last merge; the passes it is *)
(* charged for (the reward bonus depends on them) are the passes in which   *)
(* it really read, one at least.                                            *)
AnsweredOnceFromTheLastMemory ==
    loop = "ended" =>
        \A s \in Samples :
            LET passes == {t.pass_used : t \in RowsOf(s, "chunk")}
                merges == RowsOf(s, "merge")
            IN  /\ Cardinality(RowsOf(s, "final")) = 1
                /\ \A t \in RowsOf(s, "final") :
                    /\ t.step = step - 1
                    /\ t.pass_used = IF passes = {} THEN 1 ELSE Cardinality(passes)
                    /\ t.seen = IF merges = {} THEN << >>
                                ELSE (CHOOSE m \in merges :
                                        \A n \in merges : n.step <= m.step).seen

(* The answer phase starts only for a reason: everybody converged or the    *)
(* passes are used up, and then no sample keeps notes it did not merge.     *)
FinalHasAReason ==
    phase = "final" =>
        /\ converged = Samples \/ pass_num = MaxPasses
        /\ \A s \in Samples : \A t \in RowsOf(s, "chunk") :
              t.news => \E m \in RowsOf(s, "merge") : m.pass_used = t.pass_used

(* The loop is bounded: MaxPasses passes of MaxChunks chunk steps and one   *)
(* merge, then the answers.                                                 *)
LoopIsBounded == step <= MaxPasses * (MaxChunks + 1) + 1

(* Every pass is read against one memory, to its end, and merged whole.     *)
PassesAreReadWhole == PassReadsOneMemory /\ PassesAreComplete /\ MergeCarriesTheEvidence

(* Reading stops with a reason and in bounded time, and every sample has    *)
(* one answer, from its last memory, charged with the passes it read.       *)
AnswersHaveAReason ==
    ConvergedMeansNoNews /\ AnsweredOnceFromTheLastMemory /\ FinalHasAReason /\ LoopIsBounded

(* A converged sample waits for the others: its memory never changes again  *)
(* and the only row still generated for it is the final one.                *)
ConvergedStaysOut ==
    [][\A s \in converged :
          /\ global_memory'[s] = global_memory[s]
          /\ \A t \in turns' \ turns : t.sample = s => t.kind = "final"]_vars

(* The loop ends: done() becomes true for every batch. *)
Terminates == <>(loop = "ended")

(* Every sample follows the workflow ReadSelectMerge promises. *)
Workflow == INSTANCE ReadSelectMerge WITH
    Chunks <- 0 .. MaxChunks - 1,
    memory <- global_memory,
    stage  <- [s \in Samples |->
                  IF loop = "ended" THEN "answered"
                  ELSE IF sample_pass_used[s] >= 0 THEN "answering" ELSE "reading"],
    used   <- sample_pass_used
ImplementsWorkflow == Workflow!Spec

(* The workflow is followed, and a converged sample is out of it.           *)
WorkflowIsKept == ImplementsWorkflow /\ ConvergedStaysOut
=============================================================================
