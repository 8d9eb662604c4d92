---------------------------- MODULE AgentsProofs ----------------------------
(***************************************************************************)
(* Theorems about who reads a question.  MemoryAgent first, for every      *)
(* batch, every max_chunks and every max_passes: type correctness, that    *)
(* passes are read whole and against one memory, that every answer has a   *)
(* reason, that a sample that converged is left alone, and that the agent  *)
(* implements ReadSelectMerge.  Then the evaluation client (the names      *)
(* b_...) for every bound on chunks and passes, the evaluation runs (e_...)*)
(* for every number of questions and places, and MCAgents, which runs one  *)
(* of the agents, the client or the evaluation; of the asynchronous agent  *)
(* AsyncMemoryAgentProofs proves what is needed here.                      *)
(***************************************************************************)
EXTENDS MCAgents, SequenceTheorems, FiniteSetTheorems, FunctionTheorems, TLAPS

-----------------------------------------------------------------------------
(* Type correctness *)

(* TypeOK is not inductive: that chunk_step and pass_num stay within their  *)
(* bounds depends on the phase.                                             *)
TypeInv ==
    /\ TypeOK
    /\ Len(chunk_memories) = chunk_step
    /\ phase # "final" => pass_num < MaxPasses
    /\ loop = "update" /\ phase = "chunk" => chunk_step < MaxChunks

(* Finalizing keeps the charges in range (_finalize_sample_pass_used). *)
LEMMA FinalizedType ==
    ASSUME NEW used \in [Samples -> -1 .. MaxPasses], NEW p \in 0 .. MaxPasses
    PROVE  Finalized(used, p) \in [Samples -> -1 .. MaxPasses]
BY MaxPassesAssumption, SMT DEF Finalized

(* So does the convergence check while a pass is under way. *)
LEMMA CheckedUsedType ==
    ASSUME TypeOK, pass_num < MaxPasses, NEW replies
    PROVE  CheckedUsed(replies) \in [Samples -> -1 .. MaxPasses]
BY MaxPassesAssumption, SMT DEF TypeOK, CheckedUsed

(* The notes of a pass come from chunks that exist. *)
LEMMA EvidenceType ==
    ASSUME TypeInv, NEW s \in Samples
    PROVE  Evidence(s) \in SUBSET (0 .. MaxChunks - 1)
BY MaxChunksAssumption, SMT DEF TypeInv, TypeOK, Evidence

(* A merge prompt is a memory. *)
LEMMA MergePromptsType ==
    ASSUME TypeInv, NEW done \in SUBSET Samples
    PROVE  /\ DOMAIN MergePrompts(done) \in SUBSET Samples
           /\ \A s \in DOMAIN MergePrompts(done) : MergePrompts(done)[s] \in Memories
<1> SUFFICES ASSUME NEW s \in Samples \ done
             PROVE  Append(global_memory[s], Evidence(s)) \in Memories
    BY DEF MergePrompts
<1>1. Evidence(s) \in SUBSET (0 .. MaxChunks - 1)
    BY EvidenceType
<1>2. global_memory[s] \in Seq(SUBSET (0 .. MaxChunks - 1))
    BY DEF TypeInv, TypeOK, Memories
<1> QED BY <1>1, <1>2, AppendProperties, SMT DEF Memories

LEMMA TypeInvInit == Init => TypeInv
<1> SUFFICES ASSUME Init PROVE TypeInv
    OBVIOUS
<1>1. \A s \in Samples : << >> \in Memories
    BY SMT DEF Memories
<1> QED
    BY <1>1, MaxChunksAssumption, MaxPassesAssumption, SMT
    DEF Init, TypeInv, TypeOK

(* The three actions that ask: only the prompts, and for a batch of empty   *)
(* contexts the phase and the charges, change.                              *)
LEMMA AskType ==
    ASSUME TypeInv, ChunkAction \/ EmptyChunkAction \/ MergeAction \/ FinalAction
    PROVE  TypeInv'
<1>1. CASE ChunkAction
    <2>1. chunk_step < MaxChunks
        BY <1>1, MaxChunksAssumption, SMT DEF ChunkAction, Active, TypeInv, TypeOK
    <2>2. /\ DOMAIN prompts' \in SUBSET Samples
          /\ \A s \in DOMAIN prompts' : prompts'[s] \in Memories
        BY <1>1 DEF ChunkAction, ChunkPrompts, Active, TypeInv, TypeOK
    <2> QED
        BY <1>1, <2>1, <2>2, SMT DEF ChunkAction, TypeInv, TypeOK
<1>2. CASE EmptyChunkAction
    <2>1. converged' \in SUBSET Samples
        BY <1>2 DEF EmptyChunkAction, CheckedConverged, Unanimous, TypeInv, TypeOK
    <2>2. pass_num \in 0 .. MaxPasses - 1 /\ pass_num' \in 0 .. MaxPasses
        BY <1>2, MaxPassesAssumption, SMT DEF EmptyChunkAction, TypeInv, TypeOK
    <2>3. sample_pass_used' \in [Samples -> -1 .. MaxPasses]
        <3> DEFINE used == CheckedUsed(chunk_memories)
        <3>1. used \in [Samples -> -1 .. MaxPasses]
            BY <2>2, MaxPassesAssumption, CheckedUsedType, SMT DEF TypeInv
        <3>2. Finalized(used, pass_num + 1) \in [Samples -> -1 .. MaxPasses]
            BY <3>1, <2>2, MaxPassesAssumption, FinalizedType, SMT
        <3> QED
            BY <1>2, <3>1, <3>2 DEF EmptyChunkAction
    <2>4. /\ DOMAIN prompts' \in SUBSET Samples
          /\ \A s \in DOMAIN prompts' : prompts'[s] \in Memories
        BY <1>2, <2>1, MergePromptsType DEF EmptyChunkAction, FinalPrompts, TypeInv, TypeOK
    <2>5. phase' = "final" \/ (phase' = "merge" /\ pass_num' = pass_num)
        BY <1>2 DEF EmptyChunkAction
    <2> QED
        BY <1>2, <2>1, <2>2, <2>3, <2>4, <2>5, SMT DEF EmptyChunkAction, TypeInv, TypeOK
<1>3. CASE MergeAction
    <2>1. /\ DOMAIN prompts' \in SUBSET Samples
          /\ \A s \in DOMAIN prompts' : prompts'[s] \in Memories
        BY <1>3, MergePromptsType DEF MergeAction, TypeInv, TypeOK
    <2> QED
        BY <1>3, <2>1, SMT DEF MergeAction, TypeInv, TypeOK
<1>4. CASE FinalAction
    <2>1. /\ DOMAIN prompts' \in SUBSET Samples
          /\ \A s \in DOMAIN prompts' : prompts'[s] \in Memories
        BY <1>4 DEF FinalAction, FinalPrompts, TypeInv, TypeOK
    <2> QED
        BY <1>4, <2>1, SMT DEF FinalAction, TypeInv, TypeOK
<1> QED
    BY <1>1, <1>2, <1>3, <1>4

LEMMA ChunkUpdateType ==
    ASSUME TypeInv, ChunkUpdate
    PROVE  TypeInv'
<1>1. PICK news \in SUBSET DOMAIN prompts :
        /\ Record(CurrentPass, news)
        /\ chunk_memories' = Append(chunk_memories, news)
        /\ chunk_step' = chunk_step + 1
    BY DEF ChunkUpdate
<1>2. /\ chunk_memories' \in Seq(SUBSET Samples)
      /\ Len(chunk_memories') = chunk_step'
    <2>1. news \in SUBSET Samples
        BY DEF TypeInv, TypeOK
    <2> QED
        BY <1>1, <2>1, AppendProperties, SMT DEF TypeInv, TypeOK
<1>3. chunk_step' \in 0 .. MaxChunks
    BY <1>1, MaxChunksAssumption, SMT DEF ChunkUpdate, TypeInv, TypeOK
<1>4. prompts' = << >> /\ loop' = "action" /\ step' \in Nat
    BY <1>1, SMT DEF Record, TypeInv, TypeOK
<1>5. pass_num \in 0 .. MaxPasses - 1
    BY MaxPassesAssumption, SMT DEF ChunkUpdate, TypeInv, TypeOK
<1>6. converged' \in SUBSET Samples
    BY DEF ChunkUpdate, CheckedConverged, Unanimous, TypeInv, TypeOK
<1>7. sample_pass_used' \in [Samples -> -1 .. MaxPasses]
    <2> DEFINE used == CheckedUsed(chunk_memories')
    <2>1. used \in [Samples -> -1 .. MaxPasses]
        BY <1>5, MaxPassesAssumption, CheckedUsedType, SMT DEF TypeInv
    <2>2. Finalized(used, pass_num + 1) \in [Samples -> -1 .. MaxPasses]
        BY <2>1, <1>5, MaxPassesAssumption, FinalizedType, SMT
    <2> HIDE DEF used
    <2>3. \/ UNCHANGED sample_pass_used
          \/ sample_pass_used' = Finalized(used, pass_num + 1)
          \/ sample_pass_used' = used
        BY DEF ChunkUpdate, used
    <2> QED
        BY <2>1, <2>2, <2>3 DEF TypeInv, TypeOK
<1>8. \/ phase' = "final" /\ pass_num' = pass_num + 1
      \/ phase' \in {"chunk", "merge"} /\ pass_num' = pass_num
    BY DEF ChunkUpdate
<1>9. nchunks' \in [Samples -> 0 .. MaxChunks] /\ global_memory' \in [Samples -> Memories]
    BY DEF ChunkUpdate, TypeInv, TypeOK
<1> QED
    <2>1. pass_num' \in 0 .. MaxPasses /\ (phase' # "final" => pass_num' < MaxPasses)
        BY <1>5, <1>8, MaxPassesAssumption, SMT
    <2>2. DOMAIN prompts' \in SUBSET Samples /\ \A s \in DOMAIN prompts' : prompts'[s] \in Memories
        BY <1>4, SMT
    <2> QED
        BY <1>2, <1>3, <1>4, <1>6, <1>7, <1>8, <1>9, <2>1, <2>2 DEF TypeInv, TypeOK

LEMMA MergeUpdateType ==
    ASSUME TypeInv, MergeUpdate
    PROVE  TypeInv'
<1>1. pass_num \in 0 .. MaxPasses - 1
    BY MaxPassesAssumption, SMT DEF MergeUpdate, TypeInv, TypeOK
<1>2. prompts' = << >> /\ loop' = "action" /\ step' \in Nat
    BY SMT DEF MergeUpdate, Record, TypeInv, TypeOK
<1>3. global_memory' \in [Samples -> Memories]
    BY DEF MergeUpdate, TypeInv, TypeOK
<1>4. Finalized(sample_pass_used, pass_num + 1) \in [Samples -> -1 .. MaxPasses]
    BY <1>1, MaxPassesAssumption, FinalizedType, SMT DEF TypeInv, TypeOK
<1>5. DOMAIN prompts' \in SUBSET Samples /\ \A s \in DOMAIN prompts' : prompts'[s] \in Memories
    BY <1>2, SMT
<1>6. pass_num' \in 0 .. MaxPasses
    BY <1>1, MaxPassesAssumption, SMT DEF MergeUpdate
<1>7. UNCHANGED <<nchunks, converged>>
    BY DEF MergeUpdate
<1>8. CASE ReadingIsOver(pass_num + 1)
    BY <1>2, <1>3, <1>4, <1>5, <1>6, <1>7, <1>8, SMT DEF MergeUpdate, TypeInv, TypeOK
<1>9. CASE ~ReadingIsOver(pass_num + 1)
    <2>1. pass_num' < MaxPasses
        BY <1>1, <1>9, MaxPassesAssumption, SMT DEF MergeUpdate, ReadingIsOver
    <2>2. /\ chunk_memories' = << >> /\ chunk_step' = 0 /\ phase' = "chunk"
          /\ UNCHANGED sample_pass_used
        BY <1>9 DEF MergeUpdate, NextPass
    <2> QED
        BY <1>2, <1>3, <1>5, <1>6, <1>7, <2>1, <2>2, MaxChunksAssumption, SMT
        DEF TypeInv, TypeOK
<1> QED
    BY <1>8, <1>9

LEMMA FinalUpdateType ==
    ASSUME TypeInv, FinalUpdate
    PROVE  TypeInv'
<1>1. sample_pass_used' \in [Samples -> -1 .. MaxPasses]
    BY FinalizedType DEF FinalUpdate, TypeInv, TypeOK
<1>2. DOMAIN prompts' \in SUBSET Samples /\ \A s \in DOMAIN prompts' : prompts'[s] \in Memories
    BY SMT DEF FinalUpdate
<1> QED
    BY <1>1, <1>2, SMT DEF FinalUpdate, TypeInv, TypeOK

LEMMA TypeInvNext == TypeInv /\ [Next]_vars => TypeInv'
<1> SUFFICES ASSUME TypeInv, [Next]_vars PROVE TypeInv'
    OBVIOUS
<1>1. CASE Next
    BY <1>1, AskType, ChunkUpdateType, MergeUpdateType, FinalUpdateType DEF Next
<1>2. CASE UNCHANGED vars
    BY <1>2 DEF vars, TypeInv, TypeOK
<1> QED
    BY <1>1, <1>2

LEMMA TypeInvHolds == Spec => []TypeInv
<1> QED
    BY TypeInvInit, TypeInvNext, PTL DEF Spec

(* The agent's attributes keep their types and bounds: in particular a      *)
(* sample is never charged more than max_passes passes and chunk_step never *)
(* runs past max_chunks (MemoryAgent.update).                               *)
THEOREM TypeCorrect == Spec => []TypeOK
<1>1. TypeInv => TypeOK
    BY DEF TypeInv
<1> QED
    BY <1>1, TypeInvHolds, PTL

-----------------------------------------------------------------------------
(* One pass, one memory; converged samples stay out *)

(* A chunk prompt in flight shows the present memory, converged samples are *)
(* asked for nothing but their answer, and the chunk rows of the present    *)
(* pass were read against the present memory.  Rows of earlier passes have  *)
(* smaller pass numbers, so no later row can join them.                     *)
PromptInv ==
    /\ loop = "update" /\ phase = "chunk" =>
          \A s \in DOMAIN prompts : prompts[s] = global_memory[s]
    /\ loop = "update" /\ phase # "final" => DOMAIN prompts \cap converged = {}

RowInv ==
    \A t \in turns : t.kind = "chunk" =>
        /\ t.sample \in Samples
        /\ t.pass_used \in 1 .. pass_num + 1
        /\ t.pass_used = pass_num + 1 => t.seen = global_memory[t.sample]

ReadInv == TypeInv /\ PromptInv /\ RowInv /\ PassReadsOneMemory

LEMMA PromptInvNext ==
    ASSUME TypeInv, PromptInv, [Next]_vars
    PROVE  PromptInv'
<1>1. CASE ChunkAction
    BY <1>1, SMT DEF ChunkAction, ChunkPrompts, Active, PromptInv
<1>2. CASE EmptyChunkAction
    BY <1>2 DEF EmptyChunkAction, MergePrompts, PromptInv
<1>3. CASE MergeAction
    BY <1>3, SMT DEF MergeAction, MergePrompts, PromptInv
<1>4. CASE FinalAction
    BY <1>4, SMT DEF FinalAction, PromptInv
<1>5. CASE ChunkUpdate \/ MergeUpdate \/ FinalUpdate
    BY <1>5, SMT DEF ChunkUpdate, MergeUpdate, FinalUpdate, Record, PromptInv
<1>6. CASE UNCHANGED vars
    BY <1>6 DEF vars, PromptInv
<1> QED
    BY <1>1, <1>2, <1>3, <1>4, <1>5, <1>6 DEF Next

(* A step that adds no chunk row and either keeps the memories or starts    *)
(* another pass preserves what is known of the chunk rows.                  *)
LEMMA RowInvKept ==
    ASSUME TypeInv, RowInv, PassReadsOneMemory,
           \A t \in turns' \ turns : t.kind # "chunk",
           \/ UNCHANGED <<pass_num, global_memory>>
           \/ pass_num' = pass_num + 1
    PROVE  RowInv' /\ PassReadsOneMemory'
<1>1. \A t \in turns' : t.kind = "chunk" => t \in turns
    OBVIOUS
<1>2. RowInv'
    BY <1>1, SMT DEF RowInv, TypeInv, TypeOK
<1>3. \A s \in Samples : RowsOf(s, "chunk")' \subseteq RowsOf(s, "chunk")
    BY <1>1, Zenon DEF RowsOf
<1>4. PassReadsOneMemory'
    BY <1>3, Zenon DEF PassReadsOneMemory
<1> QED
    BY <1>2, <1>4

(* The rows a chunk update adds carry the present pass and memory. *)
LEMMA RowInvChunkUpdate ==
    ASSUME ReadInv, ChunkUpdate
    PROVE  RowInv' /\ PassReadsOneMemory'
<1>1. PICK news \in SUBSET DOMAIN prompts : Record(CurrentPass, news)
    BY DEF ChunkUpdate
<1>2. \A t \in turns' \ turns :
         /\ t.sample \in Samples
         /\ t.pass_used = pass_num + 1
         /\ t.seen = global_memory[t.sample]
    BY <1>1, SMT DEF Record, Rows, CurrentPass, ChunkUpdate, ReadInv, PromptInv, TypeInv, TypeOK
<1>3. /\ pass_num \in Nat
      /\ pass_num' \in {pass_num, pass_num + 1}
      /\ global_memory' = global_memory
    BY DEF ChunkUpdate, ReadInv, TypeInv, TypeOK
<1>4. RowInv'
    BY <1>2, <1>3, SMT DEF RowInv, ReadInv
<1>5. PassReadsOneMemory'
    <2> SUFFICES ASSUME NEW s \in Samples,
                        NEW t \in RowsOf(s, "chunk")', NEW u \in RowsOf(s, "chunk")',
                        t.pass_used = u.pass_used
                 PROVE  t.seen = u.seen
        BY DEF PassReadsOneMemory
    <2>1. /\ t \in turns' /\ t.sample = s /\ t.kind = "chunk"
          /\ u \in turns' /\ u.sample = s /\ u.kind = "chunk"
        BY DEF RowsOf
    <2>2. CASE t \in turns /\ u \in turns
        BY <2>1, <2>2 DEF ReadInv, PassReadsOneMemory, RowsOf
    <2>3. CASE t \notin turns \/ u \notin turns
        <3>1. t.pass_used = pass_num + 1 /\ u.pass_used = pass_num + 1
            BY <1>2, <2>1, <2>3
        <3> QED
            BY <1>2, <2>1, <3>1 DEF ReadInv, RowInv
    <2> QED
        BY <2>2, <2>3
<1> QED
    BY <1>4, <1>5

LEMMA ReadInvInit == Init => ReadInv
BY TypeInvInit, SMT DEF Init, ReadInv, PromptInv, RowInv, PassReadsOneMemory, RowsOf

LEMMA ReadInvNext == ReadInv /\ [Next]_vars => ReadInv'
<1> SUFFICES ASSUME ReadInv, [Next]_vars PROVE RowInv' /\ PassReadsOneMemory'
    BY TypeInvNext, PromptInvNext DEF ReadInv
<1>1. CASE ChunkUpdate
    BY <1>1, RowInvChunkUpdate
<1>2. CASE ChunkAction \/ MergeAction \/ FinalAction \/ UNCHANGED vars
    <2>1. UNCHANGED <<turns, pass_num, global_memory>>
        BY <1>2 DEF ChunkAction, MergeAction, FinalAction, vars
    <2> QED
        BY <2>1, RowInvKept DEF ReadInv
<1>3. CASE EmptyChunkAction
    <2>1. UNCHANGED <<turns, global_memory>> /\ (pass_num' = pass_num \/ pass_num' = pass_num + 1)
        BY <1>3 DEF EmptyChunkAction
    <2> QED
        BY <2>1, RowInvKept DEF ReadInv
<1>4. CASE MergeUpdate
    <2>1. pass_num' = pass_num + 1 /\ \A t \in turns' \ turns : t.kind # "chunk"
        BY <1>4, SMT DEF MergeUpdate, Record, Rows
    <2> QED
        BY <2>1, RowInvKept DEF ReadInv
<1>5. CASE FinalUpdate
    <2>1. UNCHANGED <<pass_num, global_memory>> /\ \A t \in turns' \ turns : t.kind # "chunk"
        BY <1>5, SMT DEF FinalUpdate, Rows
    <2> QED
        BY <2>1, RowInvKept DEF ReadInv
<1> QED
    BY <1>1, <1>2, <1>3, <1>4, <1>5 DEF Next

LEMMA ReadInvHolds == Spec => []ReadInv
<1> QED
    BY ReadInvInit, ReadInvNext, PTL DEF Spec

(* In every run over every batch, all chunks a sample reads in one pass are *)
(* read against one and the same memory (_chunk_action).                    *)
THEOREM OneMemoryPerPass == Spec => []PassReadsOneMemory
<1>1. ReadInv => PassReadsOneMemory
    BY DEF ReadInv
<1> QED
    BY <1>1, ReadInvHolds, PTL

(* A converged sample's memory is never written again and only its answer   *)
(* is still generated (merge_mask, active_mask).                            *)
THEOREM ConvergedSamplesStayOut == Spec => ConvergedStaysOut
<1> DEFINE Out == \A s \in converged :
                     /\ global_memory'[s] = global_memory[s]
                     /\ \A t \in turns' \ turns : t.sample = s => t.kind = "final"
<1>1. ASSUME ReadInv, [Next]_vars PROVE [Out]_vars
    <2>1. CASE ChunkAction \/ EmptyChunkAction \/ MergeAction \/ FinalAction
        BY <2>1 DEF ChunkAction, EmptyChunkAction, MergeAction, FinalAction
    <2>2. CASE ChunkUpdate \/ MergeUpdate
        <3>1. \A t \in turns' \ turns : t.sample \in DOMAIN prompts
            BY <2>2, SMT DEF ChunkUpdate, MergeUpdate, Record, Rows
        <3>2. DOMAIN prompts \cap converged = {}
            BY <2>2, <1>1, SMT DEF ReadInv, PromptInv, ChunkUpdate, MergeUpdate
        <3>3. \A s \in converged : global_memory'[s] = global_memory[s]
            BY <2>2, <3>2, <1>1, SMT DEF ChunkUpdate, MergeUpdate, ReadInv, TypeInv, TypeOK
        <3> QED
            BY <3>1, <3>2, <3>3
    <2>3. CASE FinalUpdate
        BY <2>3, SMT DEF FinalUpdate, Rows
    <2> QED
        BY <2>1, <2>2, <2>3, <1>1 DEF Next
<1> QED
    BY <1>1, ReadInvHolds, PTL DEF Spec, ConvergedStaysOut

-----------------------------------------------------------------------------
(* What the rows say of the memories *)

(* The chunks sample s has read in its pass p: all of them in a pass it     *)
(* merged or converged in, those before chunk_step in the present one.      *)
ReadIn(s, p) ==
    {k \in 0 .. nchunks[s] - 1 :
        \/ p <= Len(global_memory[s])
        \/ /\ p = Len(global_memory[s]) + 1
           /\ s \in converged \/ (phase # "final" /\ k < chunk_step)}

(* Which of them told it something new.                                     *)
NewsOf(s, p) ==
    IF p <= Len(global_memory[s]) THEN global_memory[s][p]
    ELSE IF s \in converged THEN {} ELSE Evidence(s)

(* Every merge absorbed something the sample really has; a sample that      *)
(* still reads has merged once in every completed pass and is not charged;  *)
(* a converged one is charged one pass more than it merged.                 *)
MemoryInv ==
    \A s \in Samples :
        /\ \A p \in 1 .. Len(global_memory[s]) :
              /\ global_memory[s][p] # {}
              /\ global_memory[s][p] \subseteq 0 .. nchunks[s] - 1
        /\ Evidence(s) \subseteq 0 .. nchunks[s] - 1
        /\ s \in converged => sample_pass_used[s] = Len(global_memory[s]) + 1
        /\ s \notin converged =>
              /\ Len(global_memory[s]) = pass_num
              /\ sample_pass_used[s] = IF phase = "final" THEN pass_num ELSE -1
              /\ phase = "merge" => Evidence(s) # {} /\ nchunks[s] <= chunk_step

PhaseInv ==
    /\ phase = "merge" => converged # Samples
    /\ phase = "final" => converged = Samples \/ pass_num = MaxPasses
    /\ loop = "ended" => phase = "final"

(* The prompts in flight are still those of the present state: nothing is   *)
(* written between action() and update().                                   *)
AskedInv ==
    loop = "update" =>
        /\ phase = "chunk" => prompts = ChunkPrompts
        /\ phase = "merge" => prompts = MergePrompts(converged)
        /\ phase = "final" => prompts = FinalPrompts

ChunkRow(t) == t \in turns /\ t.kind = "chunk"
MergeRow(t) == t \in turns /\ t.kind = "merge"

(* The chunk rows are one for every chunk read, each shown the memory as it *)
(* was before the merge of its pass.                                        *)
ChunkRowsInv ==
    /\ \A t \in turns : ChunkRow(t) =>
          /\ t.sample \in Samples
          /\ t.pass_used \in 1 .. Len(global_memory[t.sample]) + 1
          /\ t.chunk \in ReadIn(t.sample, t.pass_used)
          /\ t.news <=> t.chunk \in NewsOf(t.sample, t.pass_used)
          /\ t.seen = SubSeq(global_memory[t.sample], 1, t.pass_used - 1)
    /\ \A s \in Samples : \A p \in 1 .. Len(global_memory[s]) + 1 : \A k \in ReadIn(s, p) :
          \E t \in turns : ChunkRow(t) /\ t.sample = s /\ t.pass_used = p /\ t.chunk = k
    /\ \A t, u \in turns :
          /\ ChunkRow(t) /\ ChunkRow(u)
          /\ t.sample = u.sample /\ t.pass_used = u.pass_used /\ t.chunk = u.chunk
          => t = u

(* The merge rows are one for every element of a memory, in their order,    *)
(* each holding the memory up to that element.                              *)
MergeRowsInv ==
    /\ \A t \in turns : MergeRow(t) =>
          /\ t.sample \in Samples
          /\ t.pass_used \in 1 .. Len(global_memory[t.sample])
          /\ t.seen = SubSeq(global_memory[t.sample], 1, t.pass_used)
          /\ t.step \in 0 .. step - 1
    /\ \A s \in Samples : \A p \in 1 .. Len(global_memory[s]) :
          \E t \in turns : MergeRow(t) /\ t.sample = s /\ t.pass_used = p
    /\ \A t, u \in turns : MergeRow(t) /\ MergeRow(u) /\ t.sample = u.sample =>
          /\ t.pass_used = u.pass_used => t = u
          /\ t.pass_used < u.pass_used => t.step < u.step

FinalRow(s) ==
    [step |-> step - 1, kind |-> "final", sample |-> s, chunk |-> chunk_step,
     seen |-> global_memory[s], news |-> FALSE, pass_used |-> sample_pass_used[s]]
FinalRowsInv ==
    {t \in turns : t.kind = "final"} =
        IF loop = "ended" THEN {FinalRow(s) : s \in Samples} ELSE {}

StepInv ==
    step <= pass_num * (MaxChunks + 1)
            + (IF phase # "final" THEN chunk_step ELSE IF loop = "ended" THEN 1 ELSE 0)

WorkInv == /\ TypeInv /\ MemoryInv /\ PhaseInv /\ AskedInv
           /\ ChunkRowsInv /\ MergeRowsInv /\ FinalRowsInv /\ StepInv

-----------------------------------------------------------------------------
(* Sequences: the memory before and after one more merge.                   *)

LEMMA SubSeqOfAppend ==
    ASSUME NEW S, NEW q \in Seq(S), NEW e \in S, NEW n \in 0 .. Len(q)
    PROVE  SubSeq(Append(q, e), 1, n) = SubSeq(q, 1, n)
<1>1. /\ Append(q, e) \in Seq(S) /\ Len(Append(q, e)) = Len(q) + 1
      /\ \A i \in 1 .. Len(q) : Append(q, e)[i] = q[i]
    BY AppendProperties
<1>2. Len(q) \in Nat /\ \A i \in 1 .. n : q[i] \in S /\ Append(q, e)[i] \in S
    BY <1>1, ElementOfSeq, LenProperties, SMT
<1> DEFINE a == SubSeq(Append(q, e), 1, n)  b == SubSeq(q, 1, n)
<1>3. /\ a \in Seq(S) /\ Len(a) = n
      /\ \A i \in 1 .. n : a[i] = Append(q, e)[i]
    <2>1. /\ a \in Seq(S) /\ Len(a) = IF 1 <= n THEN n - 1 + 1 ELSE 0
          /\ \A i \in 1 .. n - 1 + 1 : a[i] = Append(q, e)[1 + i - 1]
        BY <1>2, SubSeqProperties, SMT
    <2> QED
        BY <2>1, <1>2, SMT
<1>4. /\ b \in Seq(S) /\ Len(b) = n
      /\ \A i \in 1 .. n : b[i] = q[i]
    <2>1. /\ b \in Seq(S) /\ Len(b) = IF 1 <= n THEN n - 1 + 1 ELSE 0
          /\ \A i \in 1 .. n - 1 + 1 : b[i] = q[1 + i - 1]
        BY <1>2, SubSeqProperties, SMT
    <2> QED
        BY <2>1, <1>2, SMT
<1> HIDE DEF a, b
<1>5. a = b
    BY <1>1, <1>2, <1>3, <1>4, SeqEqual, SMT
<1> QED
    BY <1>5 DEF a, b

LEMMA AppendToPrefix ==
    ASSUME NEW S, NEW q \in Seq(S), NEW n \in 1 .. Len(q)
    PROVE  Append(SubSeq(q, 1, n - 1), q[n]) = SubSeq(q, 1, n)
<1>1. Len(q) \in Nat /\ q[n] \in S
    BY LenProperties, ElementOfSeq
<1>2. SubSeq(q, 1, n - 1) \in Seq(S)
    <2>1. \A i \in 1 .. n - 1 : q[i] \in S
        BY <1>1, ElementOfSeq, SMT
    <2> QED
        BY <2>1, <1>1, SubSeqProperties, SMT
<1>3. SubSeq(q, 1, n) = SubSeq(q, 1, n - 1) \o << q[n] >>
    BY <1>1, SubSeqRecursiveSecond, SMT
<1> QED
    BY <1>1, <1>2, <1>3, AppendIsConcat

-----------------------------------------------------------------------------
(* The end of a pass *)

(* Whoever a whole pass told nothing new is converged and charged that      *)
(* pass; the others stay as they are (_check_pass_convergence).             *)
LEMMA CheckEffect ==
    ASSUME TypeInv, MemoryInv, phase = "chunk", NEW replies, NEW s \in Samples
    PROVE  /\ converged \subseteq CheckedConverged(replies)
           /\ CheckedUsed(replies)[s] =
                 IF s \in CheckedConverged(replies) \ converged
                 THEN pass_num + 1 ELSE sample_pass_used[s]
<1>1. s \notin converged => sample_pass_used[s] = -1
    BY DEF MemoryInv
<1> QED
    BY <1>1 DEF CheckedConverged, CheckedUsed, Unanimous

(* Finalizing charges nothing to a sample that is charged already.          *)
LEMMA FinalizedKeeps ==
    ASSUME NEW used \in [Samples -> Int], NEW p, NEW s \in Samples, used[s] >= 0
    PROVE  Finalized(used, p)[s] = used[s]
BY SMT DEF Finalized

(* A sample has no evidence exactly when the replies of the pass agree.     *)
LEMMA NoEvidenceIsUnanimous ==
    ASSUME NEW q \in Seq(SUBSET Samples), NEW s \in Samples
    PROVE  {k \in 0 .. Len(q) - 1 : s \in q[k + 1]} = {} <=> s \in Unanimous(q)
<1>1. DOMAIN q = 1 .. Len(q) /\ Len(q) \in Nat
    BY LenProperties
<1>2. ASSUME NEW k \in 0 .. Len(q) - 1, s \in q[k + 1]
      PROVE  s \notin Unanimous(q)
    <2>1. k + 1 \in DOMAIN q
        BY <1>1, SMT
    <2> QED
        BY <1>2, <2>1 DEF Unanimous
<1>3. ASSUME s \notin Unanimous(q)
      PROVE  \E k \in 0 .. Len(q) - 1 : s \in q[k + 1]
    <2>1. PICK k \in DOMAIN q : s \in q[k]
        BY <1>3 DEF Unanimous
    <2>2. k - 1 \in 0 .. Len(q) - 1 /\ (k - 1) + 1 = k
        BY <1>1, SMT
    <2> QED
        BY <2>1, <2>2
<1> QED
    BY <1>2, <1>3

(* Evidence of the present pass grows by the chunk just answered.           *)
LEMMA EvidenceGrows ==
    ASSUME TypeInv, NEW news \in SUBSET Samples,
           chunk_memories' = Append(chunk_memories, news), NEW s \in Samples
    PROVE  Evidence(s)' = Evidence(s) \cup (IF s \in news THEN {chunk_step} ELSE {})
<1>1. /\ Len(chunk_memories) = chunk_step /\ chunk_step \in Nat
      /\ Len(chunk_memories') = chunk_step + 1
      /\ \A i \in 1 .. chunk_step : chunk_memories'[i] = chunk_memories[i]
      /\ chunk_memories'[chunk_step + 1] = news
    <2>1. chunk_memories \in Seq(SUBSET Samples) /\ Len(chunk_memories) = chunk_step
        BY DEF TypeInv, TypeOK
    <2> QED
        BY <2>1, AppendProperties, LenProperties
<1>2. Evidence(s)' = {k \in 0 .. chunk_step : s \in chunk_memories'[k + 1]}
    BY <1>1, SMT DEF Evidence
<1>3. \A k \in 0 .. chunk_step - 1 : chunk_memories'[k + 1] = chunk_memories[k + 1]
    BY <1>1, SMT
<1> QED
    BY <1>1, <1>2, <1>3, SMT DEF Evidence

-----------------------------------------------------------------------------
(* The invariant is preserved, one conjunct at a time. *)

LEMMA WorkInvInit == Init => WorkInv
<1> SUFFICES ASSUME Init PROVE WorkInv
    OBVIOUS
<1>1. /\ global_memory = [s \in Samples |-> << >>] /\ chunk_memories = << >>
      /\ Len(<< >>) = 0 /\ turns = {} /\ step = 0 /\ chunk_step = 0
      /\ phase = "chunk" /\ loop = "action" /\ pass_num = 0 /\ converged = {}
      /\ sample_pass_used = [s \in Samples |-> -1]
    BY EmptySeq DEF Init
<1>2. \A s \in Samples : Evidence(s) = {}
    BY <1>1, SMT DEF Evidence
<1>3. MemoryInv
    BY <1>1, <1>2, SMT DEF MemoryInv
<1>4. \A s \in Samples : \A p \in 1 .. Len(global_memory[s]) + 1 : ReadIn(s, p) = {}
    BY <1>1, SMT DEF ReadIn
<1>5. ChunkRowsInv /\ MergeRowsInv /\ FinalRowsInv
    BY <1>1, <1>4, SMT DEF ChunkRowsInv, MergeRowsInv, FinalRowsInv, ChunkRow, MergeRow
<1>6. StepInv /\ PhaseInv /\ AskedInv
    BY <1>1, MaxChunksAssumption, SMT DEF StepInv, PhaseInv, AskedInv
<1> QED
    BY <1>3, <1>5, <1>6, TypeInvInit DEF WorkInv

LEMMA PhaseInvNext ==
    ASSUME TypeInv, PhaseInv, Next
    PROVE  PhaseInv'
<1>1. CASE ChunkAction \/ MergeAction \/ FinalAction
    BY <1>1, SMT DEF ChunkAction, MergeAction, FinalAction, PhaseInv
<1>2. CASE EmptyChunkAction
    BY <1>2, SMT DEF EmptyChunkAction, PhaseInv
<1>3. CASE ChunkUpdate
    BY <1>3, SMT DEF ChunkUpdate, Record, PhaseInv
<1>4. CASE MergeUpdate
    <2>1. pass_num' = pass_num + 1 /\ pass_num + 1 <= MaxPasses /\ converged' = converged
        BY <1>4, MaxPassesAssumption, SMT DEF MergeUpdate, TypeInv, TypeOK
    <2>2. phase' = "final" => pass_num' >= MaxPasses \/ converged = Samples
        BY <1>4, SMT DEF MergeUpdate, NextPass, ReadingIsOver
    <2>3. phase' \in {"chunk", "final"} /\ loop' = "action"
        BY <1>4, SMT DEF MergeUpdate, NextPass, Record
    <2> QED
        BY <2>1, <2>2, <2>3, MaxPassesAssumption, SMT DEF PhaseInv, TypeInv, TypeOK
<1>5. CASE FinalUpdate
    BY <1>5, SMT DEF FinalUpdate, PhaseInv
<1> QED
    BY <1>1, <1>2, <1>3, <1>4, <1>5 DEF Next

LEMMA AskedInvNext ==
    ASSUME AskedInv, Next
    PROVE  AskedInv'
<1>1. CASE ChunkAction
    BY <1>1, Zenon DEF ChunkAction, ChunkPrompts, Active, AskedInv
<1>2. CASE EmptyChunkAction
    BY <1>2, Zenon DEF EmptyChunkAction, MergePrompts, FinalPrompts, Evidence, AskedInv
<1>3. CASE MergeAction
    BY <1>3, Zenon DEF MergeAction, MergePrompts, Evidence, AskedInv
<1>4. CASE FinalAction
    BY <1>4, Zenon DEF FinalAction, FinalPrompts, AskedInv
<1>5. CASE ChunkUpdate \/ MergeUpdate \/ FinalUpdate
    <2>1. loop' # "update"
        BY <1>5, SMT DEF ChunkUpdate, MergeUpdate, FinalUpdate, Record
    <2> QED
        BY <2>1 DEF AskedInv
<1> QED
    BY <1>1, <1>2, <1>3, <1>4, <1>5 DEF Next

(* How a pass ends, in either action that can end one: with its last chunk, *)
(* or at once when no sample has a chunk.                                   *)
PassEnds ==
    /\ phase = "chunk"
    /\ UNCHANGED <<nchunks, global_memory>>
    /\ \A s \in Samples \ converged : nchunks[s] <= chunk_step'
    /\ converged' = CheckedConverged(chunk_memories')
    /\ IF converged' = Samples
       THEN /\ phase' = "final" /\ pass_num' = pass_num + 1
            /\ sample_pass_used' = Finalized(CheckedUsed(chunk_memories'), pass_num + 1)
       ELSE /\ phase' = "merge" /\ pass_num' = pass_num
            /\ sample_pass_used' = CheckedUsed(chunk_memories')

LEMMA EmptyChunkActionEnds ==
    ASSUME TypeInv, EmptyChunkAction
    PROVE  PassEnds
<1>1. \A s \in Samples \ converged : nchunks[s] <= chunk_step
    <2>1. Active(chunk_step) = {} /\ chunk_step \in Int /\ nchunks \in [Samples -> 0 .. MaxChunks]
        BY DEF EmptyChunkAction, TypeInv, TypeOK
    <2> QED
        BY <2>1, MaxChunksAssumption, SMT DEF Active
<1> QED
    BY <1>1 DEF EmptyChunkAction, PassEnds

LEMMA ChunkUpdateEnds ==
    ASSUME TypeInv, ChunkUpdate, Active(chunk_step + 1) = {}
    PROVE  PassEnds
<1>1. \A s \in Samples \ converged : nchunks[s] <= chunk_step'
    <2>1. chunk_step' = chunk_step + 1 /\ chunk_step \in Int
        /\ nchunks \in [Samples -> 0 .. MaxChunks]
        BY DEF ChunkUpdate, TypeInv, TypeOK
    <2> QED
        BY <2>1, MaxChunksAssumption, SMT DEF Active
<1>2. CASE converged' = Samples
    BY <1>1, <1>2 DEF ChunkUpdate, PassEnds
<1>3. CASE converged' # Samples
    BY <1>1, <1>3 DEF ChunkUpdate, PassEnds
<1> QED
    BY <1>2, <1>3

(* What it means for one sample: it converges, charged with this pass, if   *)
(* and only if the pass had no evidence for it.                             *)
LEMMA PassEndEffect ==
    ASSUME TypeInv, MemoryInv, TypeInv', PassEnds, NEW s \in Samples
    PROVE  /\ s \in converged => s \in converged' /\ sample_pass_used'[s] = sample_pass_used[s]
           /\ s \in converged' \ converged =>
                 /\ Evidence(s)' = {}
                 /\ sample_pass_used'[s] = pass_num + 1
                 /\ pass_num + 1 = Len(global_memory[s]) + 1
           /\ s \notin converged' =>
                 /\ Evidence(s)' # {}
                 /\ sample_pass_used'[s] = -1
                 /\ phase' = "merge" /\ pass_num' = pass_num
<1> DEFINE used == CheckedUsed(chunk_memories')
<1>1. /\ converged \subseteq converged'
      /\ used[s] = IF s \in converged' \ converged THEN pass_num + 1 ELSE sample_pass_used[s]
    BY CheckEffect DEF PassEnds
<1>2. /\ s \in converged => sample_pass_used[s] = Len(global_memory[s]) + 1
      /\ s \notin converged => Len(global_memory[s]) = pass_num /\ sample_pass_used[s] = -1
    BY SMT DEF MemoryInv, PassEnds
<1>3. pass_num \in 0 .. MaxPasses - 1 /\ Len(global_memory[s]) \in Nat
    <2>1. global_memory[s] \in Seq(SUBSET (0 .. MaxChunks - 1))
        BY DEF TypeInv, TypeOK, Memories
    <2> QED
        BY <2>1, LenProperties, MaxPassesAssumption, SMT DEF TypeInv, TypeOK, PassEnds
<1>4. s \in converged' => used[s] >= 0
    BY <1>1, <1>2, <1>3, SMT
<1>5. used \in [Samples -> Int]
    <2>1. used \in [Samples -> -1 .. MaxPasses]
        BY <1>3, MaxPassesAssumption, CheckedUsedType, SMT DEF TypeInv
    <2> QED
        BY <2>1, MaxPassesAssumption, SMT
<1> HIDE DEF used
<1>6. sample_pass_used'[s] = used[s]
    <2>1. CASE converged' = Samples
        BY <2>1, <1>4, <1>5, FinalizedKeeps DEF PassEnds, used
    <2>2. CASE converged' # Samples
        BY <2>2 DEF PassEnds, used
    <2> QED
        BY <2>1, <2>2
<1>7. Evidence(s)' = {} <=> s \in Unanimous(chunk_memories')
    <2>1. chunk_memories' \in Seq(SUBSET Samples)
        BY DEF TypeInv, TypeOK
    <2>2. {k \in 0 .. Len(chunk_memories') - 1 : s \in chunk_memories'[k + 1]} = {}
          <=> s \in Unanimous(chunk_memories')
        BY <2>1, NoEvidenceIsUnanimous
    <2> QED
        BY <2>2 DEF Evidence
<1>8. s \in converged' <=> s \in converged \/ s \in Unanimous(chunk_memories')
    BY DEF PassEnds, CheckedConverged
<1> QED
    BY <1>1, <1>2, <1>3, <1>6, <1>7, <1>8 DEF PassEnds

LEMMA MemoryType ==
    ASSUME TypeInv, NEW s \in Samples
    PROVE  /\ global_memory[s] \in Seq(SUBSET (0 .. MaxChunks - 1))
           /\ Len(global_memory[s]) \in Nat
           /\ nchunks[s] \in 0 .. MaxChunks
           /\ pass_num \in Nat /\ chunk_step \in Nat /\ step \in Nat
BY LenProperties DEF TypeInv, TypeOK, Memories

(* Everything MemoryInv says of one sample.                                 *)
MemoryOf(s) ==
    /\ \A p \in 1 .. Len(global_memory[s]) :
          /\ global_memory[s][p] # {}
          /\ global_memory[s][p] \subseteq 0 .. nchunks[s] - 1
    /\ Evidence(s) \subseteq 0 .. nchunks[s] - 1
    /\ s \in converged => sample_pass_used[s] = Len(global_memory[s]) + 1
    /\ s \notin converged =>
          /\ Len(global_memory[s]) = pass_num
          /\ sample_pass_used[s] = IF phase = "final" THEN pass_num ELSE -1
          /\ phase = "merge" => Evidence(s) # {} /\ nchunks[s] <= chunk_step

LEMMA MemoryInvOf == MemoryInv <=> \A s \in Samples : MemoryOf(s)
BY DEF MemoryInv, MemoryOf

LEMMA PassEndMemory ==
    ASSUME TypeInv, MemoryInv, TypeInv', PassEnds, NEW s \in Samples,
           Evidence(s)' \subseteq 0 .. nchunks[s] - 1
    PROVE  MemoryOf(s)'
<1>1. /\ nchunks' = nchunks /\ global_memory' = global_memory
      /\ s \notin converged => nchunks[s] <= chunk_step'
    BY DEF PassEnds
<1>2. MemoryOf(s) /\ phase = "chunk"
    BY MemoryInvOf DEF PassEnds
<1>3. CASE s \in converged
    BY <1>1, <1>2, <1>3, PassEndEffect, Zenon DEF MemoryOf
<1>4. CASE s \in converged' \ converged
    BY <1>1, <1>2, <1>4, PassEndEffect, SMT DEF MemoryOf
<1>5. CASE s \notin converged'
    <2>1. s \notin converged
        BY <1>5, PassEndEffect
    <2> QED
        BY <1>1, <1>2, <1>5, <2>1, PassEndEffect, SMT DEF MemoryOf
<1> QED
    BY <1>3, <1>4, <1>5

LEMMA ChunkUpdateEvidence ==
    ASSUME WorkInv, ChunkUpdate, NEW news \in SUBSET DOMAIN prompts,
           chunk_memories' = Append(chunk_memories, news), NEW s \in Samples
    PROVE  /\ news \subseteq Active(chunk_step)
           /\ Evidence(s)' = Evidence(s) \cup (IF s \in news THEN {chunk_step} ELSE {})
           /\ Evidence(s)' \subseteq 0 .. nchunks[s] - 1
<1>1. DOMAIN prompts = Active(chunk_step)
    BY DEF ChunkUpdate, WorkInv, AskedInv, ChunkPrompts
<1>2. news \in SUBSET Samples
    BY DEF WorkInv, TypeInv, TypeOK
<1>3. Evidence(s)' = Evidence(s) \cup (IF s \in news THEN {chunk_step} ELSE {})
    BY <1>2, EvidenceGrows DEF WorkInv
<1>4. s \in news => chunk_step \in 0 .. nchunks[s] - 1
    BY <1>1, MemoryType, SMT DEF Active, WorkInv
<1>5. Evidence(s) \subseteq 0 .. nchunks[s] - 1
    BY DEF WorkInv, MemoryInv
<1> QED
    BY <1>1, <1>3, <1>4, <1>5

(* A merge appends the evidence of the pass to the memory of every sample   *)
(* that has not converged and leaves the others alone.                      *)
LEMMA MergeEffect ==
    ASSUME WorkInv, MergeUpdate, NEW s \in Samples
    PROVE  /\ DOMAIN prompts = Samples \ converged
           /\ s \in converged => global_memory'[s] = global_memory[s]
           /\ s \notin converged =>
                 /\ prompts[s] = Append(global_memory[s], Evidence(s))
                 /\ global_memory'[s] = prompts[s]
                 /\ Len(global_memory[s]) = pass_num
                 /\ Len(global_memory'[s]) = pass_num + 1
                 /\ \A p \in 1 .. pass_num : global_memory'[s][p] = global_memory[s][p]
                 /\ global_memory'[s][pass_num + 1] = Evidence(s)
                 /\ \A p \in 0 .. pass_num :
                       SubSeq(global_memory'[s], 1, p) = SubSeq(global_memory[s], 1, p)
                 /\ SubSeq(global_memory'[s], 1, pass_num + 1) = global_memory'[s]
<1>1. prompts = MergePrompts(converged)
    BY DEF MergeUpdate, WorkInv, AskedInv
<1>2. DOMAIN prompts = Samples \ converged
    BY <1>1 DEF MergePrompts
<1>3. s \in converged => global_memory'[s] = global_memory[s]
    BY <1>2 DEF MergeUpdate
<1>4. ASSUME s \notin converged
      PROVE  /\ prompts[s] = Append(global_memory[s], Evidence(s))
             /\ global_memory'[s] = prompts[s]
    BY <1>1, <1>2, <1>4 DEF MergeUpdate, MergePrompts
<1>5. /\ global_memory[s] \in Seq(SUBSET (0 .. MaxChunks - 1))
      /\ Evidence(s) \in SUBSET (0 .. MaxChunks - 1)
      /\ Len(global_memory[s]) \in Nat
    BY MemoryType, EvidenceType DEF WorkInv
<1>6. s \notin converged => Len(global_memory[s]) = pass_num
    BY DEF WorkInv, MemoryInv
<1>7. ASSUME s \notin converged
      PROVE  /\ Len(global_memory'[s]) = pass_num + 1
             /\ \A p \in 1 .. pass_num : global_memory'[s][p] = global_memory[s][p]
             /\ global_memory'[s][pass_num + 1] = Evidence(s)
             /\ SubSeq(global_memory'[s], 1, pass_num + 1) = global_memory'[s]
    <2>1. global_memory'[s] \in Seq(SUBSET (0 .. MaxChunks - 1))
        BY <1>4, <1>5, <1>7, AppendProperties
    <2>2. Len(global_memory'[s]) = pass_num + 1
        BY <1>4, <1>5, <1>6, <1>7, AppendProperties
    <2>3. SubSeq(global_memory'[s], 1, Len(global_memory'[s])) = global_memory'[s]
        BY <2>1, SubSeqFull
    <2>4. /\ \A p \in 1 .. Len(global_memory[s]) : global_memory'[s][p] = global_memory[s][p]
          /\ global_memory'[s][Len(global_memory[s]) + 1] = Evidence(s)
        BY <1>4, <1>5, <1>7, AppendProperties
    <2> QED
        BY <1>6, <1>7, <2>2, <2>3, <2>4
<1>8. ASSUME s \notin converged, NEW p \in 0 .. pass_num
      PROVE  SubSeq(global_memory'[s], 1, p) = SubSeq(global_memory[s], 1, p)
    BY <1>4, <1>5, <1>6, <1>8, SubSeqOfAppend
<1> QED
    BY <1>2, <1>3, <1>4, <1>6, <1>7, <1>8

LEMMA MemoryInvNext ==
    ASSUME WorkInv, TypeInv', Next
    PROVE  MemoryInv'
<1>1. \A s \in Samples : MemoryOf(s)
    BY MemoryInvOf DEF WorkInv
<1> SUFFICES ASSUME NEW s \in Samples
             PROVE  MemoryOf(s)'
    BY DEF MemoryInv, MemoryOf
<1>2. CASE ChunkAction \/ MergeAction \/ FinalAction
    BY <1>1, <1>2, Zenon DEF ChunkAction, MergeAction, FinalAction, MemoryOf, Evidence
<1>3. CASE EmptyChunkAction
    <2>1. Evidence(s)' = Evidence(s)
        BY <1>3 DEF EmptyChunkAction, Evidence
    <2> QED
        BY <1>1, <1>3, <2>1, EmptyChunkActionEnds, PassEndMemory DEF WorkInv, MemoryOf
<1>4. CASE ChunkUpdate
    <2>1. PICK news \in SUBSET DOMAIN prompts : chunk_memories' = Append(chunk_memories, news)
        BY <1>4 DEF ChunkUpdate
    <2>2. Evidence(s)' \subseteq 0 .. nchunks[s] - 1
        BY <1>4, <2>1, ChunkUpdateEvidence
    <2>3. CASE Active(chunk_step + 1) = {}
        BY <1>4, <2>2, <2>3, ChunkUpdateEnds, PassEndMemory DEF WorkInv
    <2>4. CASE Active(chunk_step + 1) # {}
        <3>1. UNCHANGED <<phase, pass_num, converged, sample_pass_used, nchunks, global_memory>>
              /\ phase = "chunk"
            BY <1>4, <2>4 DEF ChunkUpdate
        <3> QED
            BY <1>1, <2>2, <3>1, SMT DEF MemoryOf
    <2> QED
        BY <2>3, <2>4
<1>5. CASE MergeUpdate
    <2>1. /\ nchunks' = nchunks /\ converged' = converged /\ pass_num' = pass_num + 1
          /\ phase = "merge"
          /\ \/ phase' = "final" /\ chunk_memories' = chunk_memories
                /\ sample_pass_used' = Finalized(sample_pass_used, pass_num + 1)
             \/ phase' = "chunk" /\ chunk_memories' = << >>
                /\ sample_pass_used' = sample_pass_used
        BY <1>5 DEF MergeUpdate, NextPass
    <2>2. Evidence(s)' \subseteq 0 .. nchunks[s] - 1
        <3>1. CASE chunk_memories' = chunk_memories
            BY <1>1, <3>1 DEF Evidence, MemoryOf
        <3>2. CASE chunk_memories' = << >>
            <4>1. Len(chunk_memories') = 0
                BY <3>2, EmptySeq
            <4> QED
                BY <4>1, SMT DEF Evidence
        <3> QED
            BY <2>1, <3>1, <3>2
    <2>3. CASE s \in converged
        <3>1. global_memory'[s] = global_memory[s]
            BY <1>5, <2>3, MergeEffect
        <3>2. sample_pass_used[s] = Len(global_memory[s]) + 1 /\ Len(global_memory[s]) \in Nat
            BY <1>1, <2>3, MemoryType DEF MemoryOf, WorkInv
        <3>3. sample_pass_used'[s] = sample_pass_used[s]
            BY <2>1, <3>2, SMT DEF Finalized
        <3> QED
            BY <1>1, <2>1, <2>2, <2>3, <3>1, <3>3, Zenon DEF MemoryOf
    <2>4. CASE s \notin converged
        <3>1. sample_pass_used[s] = -1 /\ pass_num \in Nat /\ Evidence(s) # {}
              /\ Evidence(s) \subseteq 0 .. nchunks[s] - 1
            BY <1>1, <2>1, <2>4, MemoryType, SMT DEF MemoryOf, WorkInv
        <3>2. sample_pass_used'[s] = IF phase' = "final" THEN pass_num' ELSE -1
            BY <2>1, <3>1, SMT DEF Finalized
        <3>3. Len(global_memory'[s]) = pass_num + 1
            BY <1>5, <2>4, MergeEffect
        <3>4. \A p \in 1 .. Len(global_memory'[s]) :
                 global_memory'[s][p] # {} /\ global_memory'[s][p] \subseteq 0 .. nchunks[s] - 1
            <4> SUFFICES ASSUME NEW p \in 1 .. pass_num + 1
                         PROVE  global_memory'[s][p] # {}
                                /\ global_memory'[s][p] \subseteq 0 .. nchunks[s] - 1
                BY <3>3
            <4>1. CASE p = pass_num + 1
                BY <1>5, <2>4, <3>1, <4>1, MergeEffect
            <4>2. CASE p # pass_num + 1
                <5>1. p \in 1 .. pass_num
                    BY <3>1, <4>2, SMT
                <5>2. global_memory'[s][p] = global_memory[s][p] /\ Len(global_memory[s]) = pass_num
                    BY <1>5, <2>4, <5>1, MergeEffect
                <5> QED
                    BY <1>1, <5>1, <5>2 DEF MemoryOf
            <4> QED
                BY <4>1, <4>2
        <3> QED
            BY <2>1, <2>2, <2>4, <3>2, <3>3, <3>4, SMT DEF MemoryOf
    <2> QED
        BY <2>3, <2>4
<1>6. CASE FinalUpdate
    <2>1. sample_pass_used[s] >= 0
        BY <1>1, <1>6, MemoryType, SMT DEF FinalUpdate, MemoryOf, WorkInv
    <2>2. sample_pass_used'[s] = sample_pass_used[s]
        <3>1. sample_pass_used \in [Samples -> Int]
            BY MaxPassesAssumption, SMT DEF WorkInv, TypeInv, TypeOK
        <3> QED
            BY <1>6, <2>1, <3>1, FinalizedKeeps DEF FinalUpdate
    <2> QED
        BY <1>1, <1>6, <2>2, Zenon DEF FinalUpdate, MemoryOf, Evidence
<1> QED
    BY <1>2, <1>3, <1>4, <1>5, <1>6 DEF Next

-----------------------------------------------------------------------------
(* The rows *)

(* Steps that add no chunk row and leave what was read, its news and the    *)
(* memories alone preserve what is known of the chunk rows.                 *)
LEMMA ChunkRowsKept ==
    ASSUME ChunkRowsInv, turns \subseteq turns',
           \A t \in turns' \ turns : t.kind # "chunk",
           global_memory' = global_memory,
           \A s \in Samples : \A p \in 1 .. Len(global_memory[s]) + 1 :
              ReadIn(s, p)' = ReadIn(s, p) /\ NewsOf(s, p)' = NewsOf(s, p)
    PROVE  ChunkRowsInv'
<1>1. \A t : ChunkRow(t)' <=> ChunkRow(t)
    BY DEF ChunkRow
<1>2. \A t : ChunkRow(t) => t \in turns
    BY DEF ChunkRow
<1>3. ASSUME NEW t, ChunkRow(t)'
      PROVE  /\ t.sample \in Samples
             /\ t.pass_used \in 1 .. Len(global_memory'[t.sample]) + 1
             /\ t.chunk \in ReadIn(t.sample, t.pass_used)'
             /\ t.news <=> t.chunk \in NewsOf(t.sample, t.pass_used)'
             /\ t.seen = SubSeq(global_memory'[t.sample], 1, t.pass_used - 1)
    <2>1. ChunkRow(t) /\ t \in turns
        BY <1>1, <1>2, <1>3
    <2>2. /\ t.sample \in Samples
          /\ t.pass_used \in 1 .. Len(global_memory[t.sample]) + 1
          /\ t.chunk \in ReadIn(t.sample, t.pass_used)
          /\ t.news <=> t.chunk \in NewsOf(t.sample, t.pass_used)
          /\ t.seen = SubSeq(global_memory[t.sample], 1, t.pass_used - 1)
        BY <2>1 DEF ChunkRowsInv
    <2> QED
        BY <2>2
<1>4. ASSUME NEW s \in Samples, NEW p \in 1 .. Len(global_memory'[s]) + 1, NEW k \in ReadIn(s, p)'
      PROVE  \E t \in turns' : ChunkRow(t)' /\ t.sample = s /\ t.pass_used = p /\ t.chunk = k
    <2>1. \E t \in turns : ChunkRow(t) /\ t.sample = s /\ t.pass_used = p /\ t.chunk = k
        BY <1>4 DEF ChunkRowsInv
    <2> QED
        BY <1>1, <2>1
<1> QED
    BY <1>1, <1>2, <1>3, <1>4, Zenon DEF ChunkRowsInv

(* The end of a pass changes nothing of what was read.                      *)
LEMMA PassEndReads ==
    ASSUME WorkInv, TypeInv', PassEnds, NEW s \in Samples, NEW p \in 1 .. Len(global_memory[s]) + 1
    PROVE  /\ ReadIn(s, p)' = IF p <= Len(global_memory[s]) \/ s \in converged THEN ReadIn(s, p)
                              ELSE {k \in 0 .. nchunks[s] - 1 : k < chunk_step'}
           /\ NewsOf(s, p)' = IF p <= Len(global_memory[s]) \/ s \in converged THEN NewsOf(s, p)
                              ELSE Evidence(s)'
<1>1. /\ nchunks' = nchunks /\ global_memory' = global_memory
      /\ phase = "chunk"
      /\ s \notin converged => nchunks[s] <= chunk_step'
    BY DEF PassEnds
<1>2. /\ nchunks[s] \in Nat /\ Len(global_memory[s]) \in Nat /\ chunk_step' \in Nat
    BY MemoryType, MaxChunksAssumption, SMT DEF WorkInv, TypeInv, TypeOK
<1>3. s \in converged => s \in converged'
    BY PassEndEffect DEF WorkInv
<1>4. s \notin converged' => phase' # "final"
    BY PassEndEffect DEF WorkInv
<1>5. s \in converged' \ converged => Evidence(s)' = {}
    BY PassEndEffect DEF WorkInv
<1>6. CASE p <= Len(global_memory[s])
    BY <1>1, <1>2, <1>6, SMT DEF ReadIn, NewsOf
<1>7. CASE p = Len(global_memory[s]) + 1 /\ s \in converged
    BY <1>1, <1>2, <1>3, <1>7, SMT DEF ReadIn, NewsOf
<1>8. CASE p = Len(global_memory[s]) + 1 /\ s \notin converged
    <2>1. ReadIn(s, p)' = {k \in 0 .. nchunks[s] - 1 : k < chunk_step'}
        BY <1>1, <1>2, <1>4, <1>8, SMT DEF ReadIn
    <2>2. NewsOf(s, p)' = Evidence(s)'
        BY <1>1, <1>2, <1>5, <1>8, SMT DEF NewsOf
    <2>3. ~(p <= Len(global_memory[s]) \/ s \in converged)
        BY <1>2, <1>8, SMT
    <2> QED
        BY <2>1, <2>2, <2>3
<1> QED
    BY <1>2, <1>6, <1>7, <1>8, SMT

(* What a chunk step reads: one chunk more of each sample it asked.         *)
LEMMA ChunkUpdateReads ==
    ASSUME WorkInv, TypeInv', ChunkUpdate, NEW news \in SUBSET DOMAIN prompts,
           chunk_memories' = Append(chunk_memories, news),
           NEW s \in Samples, NEW p \in 1 .. Len(global_memory[s]) + 1
    PROVE  IF p <= Len(global_memory[s]) \/ s \in converged
           THEN ReadIn(s, p)' = ReadIn(s, p) /\ NewsOf(s, p)' = NewsOf(s, p)
           ELSE /\ ReadIn(s, p)' = ReadIn(s, p) \cup (IF s \in Active(chunk_step) THEN {chunk_step} ELSE {})
                /\ \A k \in ReadIn(s, p) : k # chunk_step
                /\ NewsOf(s, p)' = NewsOf(s, p) \cup (IF s \in news THEN {chunk_step} ELSE {})
                /\ \A k \in NewsOf(s, p) : k # chunk_step
<1>1. /\ phase = "chunk" /\ chunk_step' = chunk_step + 1
      /\ nchunks' = nchunks /\ global_memory' = global_memory
    BY DEF ChunkUpdate
<1>2. /\ nchunks[s] \in Nat /\ Len(global_memory[s]) \in Nat /\ chunk_step \in Nat
      /\ p <= Len(global_memory[s]) \/ p = Len(global_memory[s]) + 1
    BY MemoryType, MaxChunksAssumption, SMT DEF WorkInv
<1>3. Evidence(s)' = Evidence(s) \cup (IF s \in news THEN {chunk_step} ELSE {})
    BY ChunkUpdateEvidence
<1>4. \A k \in Evidence(s) : k # chunk_step
    <2>1. Len(chunk_memories) = chunk_step
        BY DEF WorkInv, TypeInv
    <2> QED
        BY <1>2, <2>1, SMT DEF Evidence
<1>5. /\ ReadIn(s, p)' = IF p <= Len(global_memory[s]) \/ s \in converged THEN ReadIn(s, p)
                         ELSE {k \in 0 .. nchunks[s] - 1 : k < chunk_step + 1}
      /\ NewsOf(s, p)' = IF p <= Len(global_memory[s]) \/ s \in converged THEN NewsOf(s, p)
                         ELSE Evidence(s)'
    <2>1. CASE Active(chunk_step + 1) = {}
        BY <1>1, <2>1, ChunkUpdateEnds, PassEndReads DEF WorkInv
    <2>2. CASE Active(chunk_step + 1) # {}
        <3>1. UNCHANGED <<phase, converged>>
            BY <2>2 DEF ChunkUpdate
        <3> QED
            BY <1>1, <1>2, <3>1, SMT DEF ReadIn, NewsOf
    <2> QED
        BY <2>1, <2>2
<1>6. CASE p <= Len(global_memory[s]) \/ s \in converged
    BY <1>5, <1>6
<1>7. CASE p = Len(global_memory[s]) + 1 /\ s \notin converged
    <2>1. ~(p <= Len(global_memory[s]) \/ s \in converged)
        BY <1>2, <1>7, SMT
    <2>2. ReadIn(s, p) = {k \in 0 .. nchunks[s] - 1 : k < chunk_step}
        BY <1>1, <1>2, <1>7, SMT DEF ReadIn
    <2>3. NewsOf(s, p) = Evidence(s)
        BY <2>1 DEF NewsOf
    <2>4. s \in Active(chunk_step) <=> nchunks[s] > chunk_step
        BY <1>7 DEF Active
    <2>5. {k \in 0 .. nchunks[s] - 1 : k < chunk_step + 1}
            = ReadIn(s, p) \cup (IF s \in Active(chunk_step) THEN {chunk_step} ELSE {})
        BY <1>2, <2>2, <2>4, SMT
    <2>6. \A k \in ReadIn(s, p) : k # chunk_step
        BY <1>2, <2>2, SMT
    <2> QED
        BY <1>3, <1>4, <1>5, <2>1, <2>3, <2>5, <2>6
<1> QED
    BY <1>2, <1>6, <1>7

(* A chunk step adds one row for each sample asked: the chunk it read, its  *)
(* news, and the memory it was shown.                                       *)
LEMMA ChunkRowsChunkUpdate ==
    ASSUME WorkInv, TypeInv', ChunkUpdate
    PROVE  ChunkRowsInv'
<1>1. PICK news \in SUBSET DOMAIN prompts :
        Record(CurrentPass, news) /\ chunk_memories' = Append(chunk_memories, news)
    BY DEF ChunkUpdate
<1>2. /\ phase = "chunk" /\ global_memory' = global_memory
      /\ turns' = turns \cup Rows(CurrentPass, news)
      /\ prompts = ChunkPrompts
    BY <1>1 DEF ChunkUpdate, Record, WorkInv, AskedInv
<1>3. Active(chunk_step) \subseteq Samples \ converged /\ DOMAIN prompts = Active(chunk_step)
    BY <1>2 DEF Active, ChunkPrompts
<1> DEFINE New(s) == [step |-> step, kind |-> phase, sample |-> s, chunk |-> chunk_step,
                      seen |-> prompts[s], news |-> s \in news, pass_used |-> CurrentPass[s]]
<1>4. turns' = turns \cup {New(s) : s \in Active(chunk_step)}
    BY <1>2, <1>3 DEF Rows
<1>5. ASSUME NEW s \in Active(chunk_step)
      PROVE  /\ s \in Samples /\ s \notin converged
             /\ New(s).kind = "chunk" /\ New(s).sample = s /\ New(s).chunk = chunk_step
             /\ New(s).pass_used = Len(global_memory[s]) + 1
             /\ New(s).pass_used \in 1 .. Len(global_memory[s]) + 1
             /\ ~(New(s).pass_used <= Len(global_memory[s]))
             /\ New(s).seen = SubSeq(global_memory[s], 1, New(s).pass_used - 1)
             /\ New(s).news <=> s \in news
    <2>1. s \in Samples /\ s \notin converged
        BY <1>3
    <2>2. Len(global_memory[s]) = pass_num /\ Len(global_memory[s]) \in Nat
          /\ global_memory[s] \in Seq(SUBSET (0 .. MaxChunks - 1))
        BY <2>1, MemoryType DEF WorkInv, MemoryInv
    <2>3. New(s).seen = global_memory[s] /\ New(s).pass_used = pass_num + 1
        BY <1>2, <1>3, <2>1 DEF ChunkPrompts, CurrentPass
    <2>4. SubSeq(global_memory[s], 1, Len(global_memory[s])) = global_memory[s]
        BY <2>2, SubSeqFull
    <2>5. New(s).pass_used - 1 = Len(global_memory[s])
        BY <2>2, <2>3, SMT
    <2>6. New(s).pass_used \in 1 .. Len(global_memory[s]) + 1
        /\ ~(New(s).pass_used <= Len(global_memory[s]))
        BY <2>2, <2>3, SMT
    <2> QED
        BY <1>2, <2>1, <2>2, <2>3, <2>4, <2>5, <2>6
<1> HIDE DEF New
<1>6. \A t : ChunkRow(t)' <=> ChunkRow(t) \/ \E s \in Active(chunk_step) : t = New(s)
    BY <1>4, <1>5 DEF ChunkRow
<1>7. ASSUME NEW s \in Samples, NEW p \in 1 .. Len(global_memory[s]) + 1
      PROVE  IF p <= Len(global_memory[s]) \/ s \in converged
             THEN ReadIn(s, p)' = ReadIn(s, p) /\ NewsOf(s, p)' = NewsOf(s, p)
             ELSE /\ ReadIn(s, p)' = ReadIn(s, p) \cup (IF s \in Active(chunk_step) THEN {chunk_step} ELSE {})
                  /\ \A k \in ReadIn(s, p) : k # chunk_step
                  /\ NewsOf(s, p)' = NewsOf(s, p) \cup (IF s \in news THEN {chunk_step} ELSE {})
                  /\ \A k \in NewsOf(s, p) : k # chunk_step
    BY <1>1, ChunkUpdateReads
<1>8. ASSUME NEW t, ChunkRow(t)'
      PROVE  /\ t \in turns'
             /\ t.sample \in Samples
             /\ t.pass_used \in 1 .. Len(global_memory'[t.sample]) + 1
             /\ t.chunk \in ReadIn(t.sample, t.pass_used)'
             /\ t.news <=> t.chunk \in NewsOf(t.sample, t.pass_used)'
             /\ t.seen = SubSeq(global_memory'[t.sample], 1, t.pass_used - 1)
    <2>1. CASE ChunkRow(t)
        <3>1. /\ t \in turns
              /\ t.sample \in Samples
              /\ t.pass_used \in 1 .. Len(global_memory[t.sample]) + 1
              /\ t.chunk \in ReadIn(t.sample, t.pass_used)
              /\ t.news <=> t.chunk \in NewsOf(t.sample, t.pass_used)
              /\ t.seen = SubSeq(global_memory[t.sample], 1, t.pass_used - 1)
            BY <2>1 DEF ChunkRow, WorkInv, ChunkRowsInv
        <3>2. /\ t.chunk \in ReadIn(t.sample, t.pass_used)'
              /\ t.chunk \in NewsOf(t.sample, t.pass_used)' <=> t.chunk \in NewsOf(t.sample, t.pass_used)
            <4>1. CASE t.pass_used <= Len(global_memory[t.sample]) \/ t.sample \in converged
                BY <1>7, <3>1, <4>1
            <4>2. CASE ~(t.pass_used <= Len(global_memory[t.sample]) \/ t.sample \in converged)
                <5>1. t.chunk # chunk_step
                    BY <1>7, <3>1, <4>2
                <5> QED
                    BY <1>7, <3>1, <4>2, <5>1
            <4> QED
                BY <4>1, <4>2
        <3> QED
            BY <1>2, <3>1, <3>2
    <2>2. CASE \E s \in Active(chunk_step) : t = New(s)
        <3>1. PICK s \in Active(chunk_step) : t = New(s)
            BY <2>2
        <3>2. /\ t.chunk \in ReadIn(s, t.pass_used)'
              /\ t.chunk \in NewsOf(s, t.pass_used)' <=> s \in news
            BY <1>5, <1>7, <3>1
        <3> QED
            BY <1>2, <1>4, <1>5, <3>1, <3>2
    <2> QED
        BY <1>6, <1>8, <2>1, <2>2
<1>9. ASSUME NEW s \in Samples, NEW p \in 1 .. Len(global_memory'[s]) + 1, NEW k \in ReadIn(s, p)'
      PROVE  \E t \in turns' : ChunkRow(t)' /\ t.sample = s /\ t.pass_used = p /\ t.chunk = k
    <2>1. CASE k \in ReadIn(s, p)
        <3>1. \E t \in turns : ChunkRow(t) /\ t.sample = s /\ t.pass_used = p /\ t.chunk = k
            BY <1>2, <2>1 DEF WorkInv, ChunkRowsInv
        <3> QED
            BY <1>2, <1>6, <3>1
    <2>2. CASE k \notin ReadIn(s, p)
        <3>1. k = chunk_step /\ s \in Active(chunk_step) /\ ~(p <= Len(global_memory[s])
            \/ s \in converged)
            BY <1>2, <1>7, <1>9, <2>2
        <3>2. p = Len(global_memory[s]) + 1
            BY <1>2, <3>1, MemoryType, SMT DEF WorkInv
        <3>3. PICK t : t = New(s)
            OBVIOUS
        <3>4. ChunkRow(t)' /\ t \in turns'
            BY <1>4, <1>6, <3>1, <3>3
        <3>5. t.sample = s /\ t.pass_used = p /\ t.chunk = k
            BY <1>5, <3>1, <3>2, <3>3
        <3> QED
            BY <3>4, <3>5
    <2> QED
        BY <2>1, <2>2
<1>10. ASSUME NEW t, NEW u, ChunkRow(t)', ChunkRow(u)',
              t.sample = u.sample, t.pass_used = u.pass_used, t.chunk = u.chunk
       PROVE  t = u
    <2>1. CASE ChunkRow(t) /\ ChunkRow(u)
        BY <1>10, <2>1 DEF ChunkRow, WorkInv, ChunkRowsInv
    <2>2. ASSUME NEW v, NEW w, ChunkRow(v), NEW s \in Active(chunk_step), w = New(s),
                 v.sample = w.sample, v.pass_used = w.pass_used, v.chunk = w.chunk
          PROVE  FALSE
        <3>1. /\ v.sample = s /\ v.chunk = chunk_step
              /\ v.pass_used \in 1 .. Len(global_memory[s]) + 1
              /\ ~(v.pass_used <= Len(global_memory[s]) \/ s \in converged)
            BY <1>5, <2>2
        <3>2. v.chunk \in ReadIn(s, v.pass_used)
            BY <2>2, <3>1 DEF ChunkRow, WorkInv, ChunkRowsInv
        <3> QED
            BY <1>5, <1>7, <3>1, <3>2
    <2>3. CASE \E s \in Active(chunk_step) : t = New(s)
        <3>1. PICK s \in Active(chunk_step) : t = New(s)
            BY <2>3
        <3>2. ~ChunkRow(u)
            BY <1>10, <2>2, <3>1
        <3>3. PICK r \in Active(chunk_step) : u = New(r)
            BY <1>6, <1>10, <3>2
        <3> QED
            BY <1>5, <1>10, <3>1, <3>3
    <2>4. CASE \E s \in Active(chunk_step) : u = New(s)
        <3>1. PICK s \in Active(chunk_step) : u = New(s)
            BY <2>4
        <3>2. ~ChunkRow(t)
            BY <1>10, <2>2, <3>1
        <3> QED
            BY <1>6, <1>10, <2>3, <3>2
    <2> QED
        BY <1>6, <1>10, <2>1, <2>3, <2>4
<1> QED
    BY <1>8, <1>9, <1>10 DEF ChunkRowsInv

(* A merge turns the evidence of the pass into the last element of the      *)
(* memory; the chunk rows then describe a completed pass.                   *)
LEMMA MergeUpdateReads ==
    ASSUME WorkInv, TypeInv', MergeUpdate, NEW s \in Samples
    PROVE  /\ \A p \in 1 .. Len(global_memory[s]) + 1 :
                 ReadIn(s, p)' = ReadIn(s, p) /\ NewsOf(s, p)' = NewsOf(s, p)
           /\ s \notin converged =>
                 \A p : p = Len(global_memory[s]) + 2 => ReadIn(s, p)' = {}
<1>1. /\ phase = "merge" /\ nchunks' = nchunks /\ converged' = converged
      /\ phase' = "final" \/ (phase' = "chunk" /\ chunk_step' = 0)
    BY DEF MergeUpdate, NextPass
<1>2. /\ nchunks[s] \in Nat /\ Len(global_memory[s]) \in Nat /\ chunk_step \in Nat
      /\ pass_num \in Nat
    BY MemoryType, MaxChunksAssumption, SMT DEF WorkInv
<1>3. CASE s \in converged
    <2>1. global_memory'[s] = global_memory[s]
        BY <1>3, MergeEffect
    <2> QED
        BY <1>1, <1>2, <1>3, <2>1, SMT DEF ReadIn, NewsOf
<1>4. CASE s \notin converged
    <2>1. /\ Len(global_memory[s]) = pass_num /\ Len(global_memory'[s]) = pass_num + 1
          /\ \A p \in 1 .. pass_num : global_memory'[s][p] = global_memory[s][p]
          /\ global_memory'[s][pass_num + 1] = Evidence(s)
        BY <1>4, MergeEffect
    <2>2. nchunks[s] <= chunk_step
        BY <1>1, <1>4 DEF WorkInv, MemoryInv
    <2>3. ASSUME NEW p \in 1 .. pass_num + 1
          PROVE  ReadIn(s, p)' = 0 .. nchunks[s] - 1 /\ ReadIn(s, p) = 0 .. nchunks[s] - 1
        <3>1. p <= pass_num + 1 /\ (p <= pass_num \/ p = pass_num + 1)
            BY <1>2, SMT
        <3>2. \A k \in 0 .. nchunks[s] - 1 : k < chunk_step
            BY <1>2, <2>2, SMT
        <3> QED
            BY <1>1, <1>4, <2>1, <3>1, <3>2 DEF ReadIn
    <2>4. ASSUME NEW p \in 1 .. pass_num + 1
          PROVE  NewsOf(s, p)' = NewsOf(s, p)
        BY <1>2, <1>4, <2>1, SMT DEF NewsOf
    <2>5. ASSUME NEW p, p = pass_num + 2
          PROVE  ReadIn(s, p)' = {}
        <3>1. ~(p <= Len(global_memory'[s])) /\ p = Len(global_memory'[s]) + 1
            /\ s \notin converged'
            BY <1>1, <1>2, <1>4, <2>1, <2>5, SMT
        <3>2. \A k \in 0 .. nchunks[s] - 1 : ~(phase' # "final" /\ k < chunk_step')
            BY <1>1, <1>2, SMT
        <3> QED
            BY <1>1, <3>1, <3>2 DEF ReadIn
    <2> QED
        BY <1>4, <2>1, <2>3, <2>4, <2>5
<1> QED
    BY <1>3, <1>4

LEMMA ChunkRowsMergeUpdate ==
    ASSUME WorkInv, TypeInv', MergeUpdate
    PROVE  ChunkRowsInv'
<1>1. turns \subseteq turns' /\ \A t \in turns' \ turns : t.kind # "chunk"
    BY SMT DEF MergeUpdate, Record, Rows
<1>2. \A t : ChunkRow(t)' <=> ChunkRow(t)
    BY <1>1 DEF ChunkRow
<1>3. \A t : ChunkRow(t) => t \in turns /\ t \in turns'
    BY <1>1 DEF ChunkRow
<1>4. ASSUME NEW s \in Samples
      PROVE  /\ Len(global_memory[s]) \in Nat
             /\ \/ s \in converged /\ global_memory'[s] = global_memory[s]
                \/ /\ s \notin converged
                   /\ Len(global_memory'[s]) = Len(global_memory[s]) + 1
             /\ \A p \in 0 .. Len(global_memory[s]) :
                   SubSeq(global_memory'[s], 1, p) = SubSeq(global_memory[s], 1, p)
    <2>1. Len(global_memory[s]) \in Nat
        BY MemoryType DEF WorkInv
    <2>2. CASE s \in converged
        BY <2>1, <2>2, MergeEffect
    <2>3. CASE s \notin converged
        BY <2>1, <2>3, MergeEffect
    <2> QED
        BY <2>1, <2>2, <2>3
<1>5. ASSUME NEW t, ChunkRow(t)'
      PROVE  /\ t.sample \in Samples
             /\ t.pass_used \in 1 .. Len(global_memory'[t.sample]) + 1
             /\ t.chunk \in ReadIn(t.sample, t.pass_used)'
             /\ t.news <=> t.chunk \in NewsOf(t.sample, t.pass_used)'
             /\ t.seen = SubSeq(global_memory'[t.sample], 1, t.pass_used - 1)
    <2>1. /\ t.sample \in Samples
          /\ t.pass_used \in 1 .. Len(global_memory[t.sample]) + 1
          /\ t.chunk \in ReadIn(t.sample, t.pass_used)
          /\ t.news <=> t.chunk \in NewsOf(t.sample, t.pass_used)
          /\ t.seen = SubSeq(global_memory[t.sample], 1, t.pass_used - 1)
        BY <1>2, <1>3, <1>5 DEF WorkInv, ChunkRowsInv
    <2>2. /\ ReadIn(t.sample, t.pass_used)' = ReadIn(t.sample, t.pass_used)
          /\ NewsOf(t.sample, t.pass_used)' = NewsOf(t.sample, t.pass_used)
        BY <2>1, MergeUpdateReads
    <2>3. t.pass_used - 1 \in 0 .. Len(global_memory[t.sample])
        BY <1>4, <2>1, SMT
    <2>4. t.pass_used \in 1 .. Len(global_memory'[t.sample]) + 1
        BY <1>4, <2>1, SMT
    <2> QED
        BY <1>4, <2>1, <2>2, <2>3, <2>4
<1>6. ASSUME NEW s \in Samples, NEW p \in 1 .. Len(global_memory'[s]) + 1, NEW k \in ReadIn(s, p)'
      PROVE  \E t \in turns' : ChunkRow(t)' /\ t.sample = s /\ t.pass_used = p /\ t.chunk = k
    <2>1. p \in 1 .. Len(global_memory[s]) + 1 \/ (s \notin converged
        /\ p = Len(global_memory[s]) + 2)
        BY <1>4, SMT
    <2>2. p \in 1 .. Len(global_memory[s]) + 1
        BY <1>6, <2>1, MergeUpdateReads
    <2>3. k \in ReadIn(s, p)
        BY <1>6, <2>2, MergeUpdateReads
    <2>4. \E t \in turns : ChunkRow(t) /\ t.sample = s /\ t.pass_used = p /\ t.chunk = k
        BY <2>2, <2>3 DEF WorkInv, ChunkRowsInv
    <2> QED
        BY <1>2, <1>3, <2>4
<1>7. ASSUME NEW t, NEW u, ChunkRow(t)', ChunkRow(u)',
             t.sample = u.sample, t.pass_used = u.pass_used, t.chunk = u.chunk
      PROVE  t = u
    BY <1>2, <1>3, <1>7 DEF WorkInv, ChunkRowsInv
<1> QED
    BY <1>5, <1>6, <1>7 DEF ChunkRowsInv

LEMMA ChunkRowsNext ==
    ASSUME WorkInv, TypeInv', Next
    PROVE  ChunkRowsInv'
<1>1. CASE ChunkAction \/ MergeAction \/ FinalAction \/ FinalUpdate
    <2>1. /\ UNCHANGED <<nchunks, phase, chunk_step, global_memory, chunk_memories, converged>>
          /\ turns \subseteq turns' /\ \A t \in turns' \ turns : t.kind # "chunk"
        BY <1>1, SMT DEF ChunkAction, MergeAction, FinalAction, FinalUpdate, Rows
    <2>2. \A s, p : ReadIn(s, p)' = ReadIn(s, p) /\ NewsOf(s, p)' = NewsOf(s, p)
        BY <2>1, Zenon DEF ReadIn, NewsOf, Evidence
    <2> QED
        BY <2>1, <2>2, ChunkRowsKept DEF WorkInv
<1>2. CASE EmptyChunkAction
    <2>1. UNCHANGED <<nchunks, chunk_step, global_memory, chunk_memories, turns>> /\ phase = "chunk"
        BY <1>2 DEF EmptyChunkAction
    <2>2. ASSUME NEW s \in Samples, NEW p \in 1 .. Len(global_memory[s]) + 1
          PROVE  ReadIn(s, p)' = ReadIn(s, p) /\ NewsOf(s, p)' = NewsOf(s, p)
        <3>1. /\ ReadIn(s, p)' = IF p <= Len(global_memory[s]) \/ s \in converged THEN ReadIn(s, p)
                                 ELSE {k \in 0 .. nchunks[s] - 1 : k < chunk_step'}
              /\ NewsOf(s, p)' = IF p <= Len(global_memory[s]) \/ s \in converged THEN NewsOf(s, p)
                                 ELSE Evidence(s)'
            BY <1>2, EmptyChunkActionEnds, PassEndReads DEF WorkInv
        <3>2. CASE p <= Len(global_memory[s]) \/ s \in converged
            BY <3>1, <3>2
        <3>3. CASE ~(p <= Len(global_memory[s]) \/ s \in converged)
            <4>1. p = Len(global_memory[s]) + 1
                BY <3>3, MemoryType, SMT DEF WorkInv
            <4>2. ReadIn(s, p) = {k \in 0 .. nchunks[s] - 1 : k < chunk_step}
                BY <2>1, <3>3, <4>1 DEF ReadIn
            <4>3. NewsOf(s, p) = Evidence(s) /\ Evidence(s)' = Evidence(s)
                BY <2>1, <3>3 DEF NewsOf, Evidence
            <4> QED
                BY <2>1, <3>1, <3>3, <4>2, <4>3
        <3> QED
            BY <3>2, <3>3
    <2> QED
        BY <2>1, <2>2, ChunkRowsKept DEF WorkInv
<1> QED
    BY <1>1, <1>2, ChunkRowsChunkUpdate, ChunkRowsMergeUpdate DEF Next

LEMMA MergeRowsMergeUpdate ==
    ASSUME WorkInv, MergeUpdate
    PROVE  MergeRowsInv'
<1> DEFINE New(s) == [step |-> step, kind |-> phase, sample |-> s, chunk |-> chunk_step,
                      seen |-> prompts[s], news |-> s \in {}, pass_used |-> CurrentPass[s]]
<1>1. turns' = turns \cup {New(s) : s \in Samples \ converged} /\ step' = step + 1 /\ step \in Nat
    <2>1. turns' = turns \cup Rows(CurrentPass, {}) /\ step' = step + 1
        BY DEF MergeUpdate, Record
    <2>2. DOMAIN prompts = Samples \ converged
        BY DEF MergeUpdate, WorkInv, AskedInv, MergePrompts
    <2> QED
        BY <2>1, <2>2 DEF Rows, WorkInv, TypeInv, TypeOK
<1>2. ASSUME NEW s \in Samples \ converged
      PROVE  /\ New(s).kind = "merge" /\ New(s).sample = s
             /\ New(s).pass_used = pass_num + 1 /\ pass_num \in Nat
             /\ Len(global_memory[s]) = pass_num /\ Len(global_memory'[s]) = pass_num + 1
             /\ New(s).seen = SubSeq(global_memory'[s], 1, pass_num + 1)
             /\ New(s).step = step
             /\ \A p \in 0 .. pass_num :
                   SubSeq(global_memory'[s], 1, p) = SubSeq(global_memory[s], 1, p)
    <2>1. phase = "merge" /\ pass_num \in Nat /\ CurrentPass[s] = pass_num + 1
        BY DEF MergeUpdate, WorkInv, TypeInv, TypeOK, CurrentPass
    <2> QED
        BY <2>1, MergeEffect
<1>3. \A s \in Samples : /\ Len(global_memory[s]) \in Nat
                         /\ s \in converged => global_memory'[s] = global_memory[s]
    BY MergeEffect, MemoryType DEF WorkInv
<1> HIDE DEF New
<1>4. \A t : MergeRow(t)' <=> MergeRow(t) \/ \E s \in Samples \ converged : t = New(s)
    BY <1>1, <1>2 DEF MergeRow
<1>5. \A t : MergeRow(t) =>
          /\ t \in turns /\ t \in turns'
          /\ t.sample \in Samples
          /\ t.pass_used \in 1 .. Len(global_memory[t.sample])
          /\ t.seen = SubSeq(global_memory[t.sample], 1, t.pass_used)
          /\ t.step \in 0 .. step - 1
    BY <1>1 DEF MergeRow, WorkInv, MergeRowsInv
<1>6. ASSUME NEW t, MergeRow(t)'
      PROVE  /\ t.sample \in Samples
             /\ t.pass_used \in 1 .. Len(global_memory'[t.sample])
             /\ t.seen = SubSeq(global_memory'[t.sample], 1, t.pass_used)
             /\ t.step \in 0 .. step' - 1
    <2>1. CASE MergeRow(t)
        <3>1. t.step \in 0 .. step' - 1
            BY <1>1, <1>5, <2>1, SMT
        <3>2. CASE t.sample \in converged
            BY <1>3, <1>5, <2>1, <3>1, <3>2
        <3>3. CASE t.sample \in Samples \ converged
            <4>1. /\ t.pass_used \in 1 .. Len(global_memory'[t.sample])
                  /\ t.pass_used \in 0 .. pass_num
                BY <1>2, <1>5, <2>1, <3>3, SMT
            <4> QED
                BY <1>2, <1>5, <2>1, <3>1, <3>3, <4>1
        <3> QED
            BY <1>5, <2>1, <3>2, <3>3
    <2>2. CASE \E s \in Samples \ converged : t = New(s)
        <3>1. PICK s \in Samples \ converged : t = New(s)
            BY <2>2
        <3>2. step \in 0 .. step' - 1 /\ pass_num + 1 \in 1 .. Len(global_memory'[s])
            BY <1>1, <1>2, SMT
        <3> QED
            BY <1>2, <3>1, <3>2
    <2> QED
        BY <1>4, <1>6, <2>1, <2>2
<1>7. ASSUME NEW s \in Samples, NEW p \in 1 .. Len(global_memory'[s])
      PROVE  \E t \in turns' : MergeRow(t)' /\ t.sample = s /\ t.pass_used = p
    <2>1. CASE p \in 1 .. Len(global_memory[s])
        <3>1. \E t \in turns : MergeRow(t) /\ t.sample = s /\ t.pass_used = p
            BY <2>1 DEF WorkInv, MergeRowsInv
        <3> QED
            BY <1>4, <1>5, <3>1
    <2>2. CASE p \notin 1 .. Len(global_memory[s])
        <3>1. s \in Samples \ converged /\ p = pass_num + 1
            BY <1>2, <1>3, <2>2, SMT
        <3>2. PICK t : t = New(s)
            OBVIOUS
        <3>3. MergeRow(t)' /\ t \in turns'
            BY <1>1, <1>4, <3>1, <3>2
        <3> QED
            BY <1>2, <3>1, <3>2, <3>3
    <2> QED
        BY <2>1, <2>2
<1>8. ASSUME NEW t, NEW s \in Samples \ converged, MergeRow(t), t.sample = s
      PROVE  t.pass_used < pass_num + 1 /\ t.step < step
    BY <1>1, <1>2, <1>5, <1>8, SMT
<1>9. ASSUME NEW t, NEW u, MergeRow(t)', MergeRow(u)', t.sample = u.sample
      PROVE  /\ t.pass_used = u.pass_used => t = u
             /\ t.pass_used < u.pass_used => t.step < u.step
    <2>1. CASE MergeRow(t) /\ MergeRow(u)
        BY <1>5, <1>9, <2>1 DEF WorkInv, MergeRowsInv
    <2>2. ASSUME MergeRow(t), NEW s \in Samples \ converged, u = New(s)
          PROVE  t.pass_used < u.pass_used /\ t.step < u.step /\ t.pass_used \in Int
                 /\ u.pass_used \in Int
        BY <1>2, <1>5, <1>8, <1>9, <2>2, SMT
    <2>3. ASSUME MergeRow(u), NEW s \in Samples \ converged, t = New(s)
          PROVE  u.pass_used < t.pass_used /\ t.pass_used \in Int /\ u.pass_used \in Int
        BY <1>2, <1>5, <1>8, <1>9, <2>3, SMT
    <2>4. ASSUME NEW s \in Samples \ converged, t = New(s), NEW r \in Samples \ converged,
        u = New(r)
          PROVE  t = u /\ t.pass_used = u.pass_used /\ t.pass_used \in Int
        BY <1>2, <1>9, <2>4, SMT
    <2>5. (t.pass_used < u.pass_used /\ t.pass_used \in Int /\ u.pass_used \in Int)
              => t.pass_used # u.pass_used
        BY SMT
    <2>6. (u.pass_used < t.pass_used /\ t.pass_used \in Int /\ u.pass_used \in Int)
              => t.pass_used # u.pass_used /\ ~(t.pass_used < u.pass_used)
        BY SMT
    <2>7. (t.pass_used = u.pass_used /\ t.pass_used \in Int) => ~(t.pass_used < u.pass_used)
        BY SMT
    <2> QED
        BY <1>4, <1>9, <2>1, <2>2, <2>3, <2>4, <2>5, <2>6, <2>7
<1>10. \A t : MergeRow(t)' => t \in turns'
    BY DEF MergeRow
<1> QED
    BY <1>6, <1>7, <1>9, <1>10 DEF MergeRowsInv

LEMMA MergeRowsNext ==
    ASSUME WorkInv, Next
    PROVE  MergeRowsInv'
<1>1. CASE ~MergeUpdate
    <2>1. /\ global_memory' = global_memory /\ step' \in {step, step + 1} /\ step \in Nat
          /\ turns \subseteq turns' /\ \A t \in turns' \ turns : t.kind # "merge"
        <3>1. CASE ChunkAction \/ EmptyChunkAction \/ MergeAction \/ FinalAction
            BY <3>1 DEF ChunkAction, EmptyChunkAction, MergeAction, FinalAction, WorkInv, TypeInv,
                TypeOK
        <3>2. CASE ChunkUpdate \/ FinalUpdate
            BY <3>2, SMT DEF ChunkUpdate, FinalUpdate, Record, Rows, WorkInv, TypeInv, TypeOK
        <3> QED
            BY <1>1, <3>1, <3>2 DEF Next
    <2>2. \A t : /\ MergeRow(t)' <=> MergeRow(t)
                 /\ MergeRow(t) => t \in turns /\ t \in turns'
        BY <2>1 DEF MergeRow
    <2>3. \A t : MergeRow(t) => /\ t.sample \in Samples
                                /\ t.pass_used \in 1 .. Len(global_memory[t.sample])
                                /\ t.seen = SubSeq(global_memory[t.sample], 1, t.pass_used)
                                /\ t.step \in 0 .. step - 1
        BY <2>2 DEF WorkInv, MergeRowsInv
    <2>4. \A t : MergeRow(t) => t.step \in 0 .. step' - 1
        BY <2>1, <2>3, SMT
    <2>5. \A s \in Samples : \A p \in 1 .. Len(global_memory[s]) :
             \E t \in turns : MergeRow(t) /\ t.sample = s /\ t.pass_used = p
        BY DEF WorkInv, MergeRowsInv
    <2>6. \A t, u : MergeRow(t) /\ MergeRow(u) /\ t.sample = u.sample =>
             /\ t.pass_used = u.pass_used => t = u
             /\ t.pass_used < u.pass_used => t.step < u.step
        BY <2>2 DEF WorkInv, MergeRowsInv
    <2>7. \A t \in turns' : MergeRow(t)' =>
             /\ t.sample \in Samples
             /\ t.pass_used \in 1 .. Len(global_memory'[t.sample])
             /\ t.seen = SubSeq(global_memory'[t.sample], 1, t.pass_used)
             /\ t.step \in 0 .. step' - 1
        BY <2>1, <2>2, <2>3, <2>4
    <2>8. \A s \in Samples : \A p \in 1 .. Len(global_memory'[s]) :
             \E t \in turns' : MergeRow(t)' /\ t.sample = s /\ t.pass_used = p
        BY <2>1, <2>2, <2>5
    <2> QED
        BY <2>2, <2>6, <2>7, <2>8, Zenon DEF MergeRowsInv
<1> QED
    BY <1>1, MergeRowsMergeUpdate

LEMMA FinalRowsNext ==
    ASSUME WorkInv, Next
    PROVE  FinalRowsInv'
<1>1. CASE ~FinalUpdate
    <2>1. loop # "ended" /\ loop' # "ended"
        <3>1. CASE ChunkAction \/ EmptyChunkAction \/ MergeAction \/ FinalAction
            BY <3>1, SMT DEF ChunkAction, EmptyChunkAction, MergeAction, FinalAction
        <3>2. CASE ChunkUpdate \/ MergeUpdate
            BY <3>2, SMT DEF ChunkUpdate, MergeUpdate, Record
        <3> QED
            BY <1>1, <3>1, <3>2 DEF Next
    <2>2. turns \subseteq turns' /\ \A t \in turns' \ turns : t.kind # "final"
        <3>1. CASE ChunkAction \/ EmptyChunkAction \/ MergeAction \/ FinalAction
            BY <3>1 DEF ChunkAction, EmptyChunkAction, MergeAction, FinalAction
        <3>2. CASE ChunkUpdate \/ MergeUpdate
            BY <3>2, SMT DEF ChunkUpdate, MergeUpdate, Record, Rows
        <3> QED
            BY <1>1, <3>1, <3>2 DEF Next
    <2> QED
        BY <2>1, <2>2 DEF WorkInv, FinalRowsInv
<1>2. CASE FinalUpdate
    <2>1. /\ loop = "update" /\ loop' = "ended" /\ phase = "final" /\ prompts = global_memory
          /\ turns' = turns \cup Rows(sample_pass_used', {})
          /\ step' = step + 1 /\ step \in Nat
          /\ chunk_step' = chunk_step /\ global_memory' = global_memory
        BY <1>2 DEF FinalUpdate, WorkInv, AskedInv, FinalPrompts, TypeInv, TypeOK
    <2>2. {t \in turns : t.kind = "final"} = {}
        BY <2>1 DEF WorkInv, FinalRowsInv
    <2>3. DOMAIN prompts = Samples
        BY <2>1 DEF WorkInv, TypeInv, TypeOK
    <2>4. \A s \in Samples : FinalRow(s)' =
             [step |-> step, kind |-> phase, sample |-> s, chunk |-> chunk_step,
              seen |-> prompts[s], news |-> s \in {}, pass_used |-> sample_pass_used'[s]]
        <3>1. step' - 1 = step
            BY <2>1, SMT
        <3>2. \A s \in Samples : (s \in {}) = FALSE
            OBVIOUS
        <3> QED
            BY <2>1, <3>1, <3>2 DEF FinalRow
    <2>5. Rows(sample_pass_used', {}) = {FinalRow(s)' : s \in Samples}
        BY <2>3, <2>4 DEF Rows
    <2>6. \A t \in Rows(sample_pass_used', {}) : t.kind = "final"
        BY <2>1, SMT DEF Rows
    <2> QED
        BY <2>1, <2>2, <2>5, <2>6 DEF FinalRowsInv
<1> QED
    BY <1>1, <1>2

(* Steps per pass: at most one per chunk and one for the merge.             *)
LEMMA StepInvNext ==
    ASSUME WorkInv, Next
    PROVE  StepInv'
<1> DEFINE W == MaxChunks + 1
<1>1. /\ pass_num \in Nat /\ chunk_step \in 0 .. MaxChunks /\ step \in Nat
      /\ MaxChunks \in Nat /\ W \in Nat
    BY MaxChunksAssumption, SMT DEF WorkInv, TypeInv, TypeOK
<1>2. (pass_num + 1) * W = pass_num * W + W /\ pass_num * W \in Nat
    BY <1>1, SMT
<1>3. /\ phase # "final" => step <= pass_num * W + chunk_step
      /\ phase = "final" /\ loop # "ended" => step <= pass_num * W
    BY <1>1, <1>2, SMT DEF WorkInv, StepInv
<1>4. SUFFICES /\ phase' # "final" => step' <= pass_num' * W + chunk_step'
               /\ phase' = "final" /\ loop' # "ended" => step' <= pass_num' * W
               /\ phase' = "final" /\ loop' = "ended" => step' <= pass_num' * W + 1
    <2>1. pass_num' \in {pass_num, pass_num + 1}
        BY DEF Next, ChunkAction, EmptyChunkAction, MergeAction, FinalAction,
               ChunkUpdate, MergeUpdate, FinalUpdate
    <2>2. pass_num' * W \in Nat
        <3>1. pass_num * W \in Nat /\ (pass_num + 1) * W \in Nat
            BY <1>1, <1>2, SMT
        <3> QED
            BY <2>1, <3>1
    <2>3. step' \in Nat
        BY <1>1, SMT DEF Next, ChunkAction, EmptyChunkAction, MergeAction, FinalAction,
               ChunkUpdate, MergeUpdate, FinalUpdate, Record
    <2> HIDE DEF W
    <2>4. StepInv' = (step' <= pass_num' * W
                      + (IF phase' # "final" THEN chunk_step' ELSE IF loop' = "ended" THEN 1 ELSE 0))
        BY DEF StepInv, W
    <2>5. CASE phase' # "final"
        <3>1. StepInv' = (step' <= pass_num' * W + chunk_step')
            BY <2>4, <2>5
        <3> QED
            BY <1>4, <2>5, <3>1
    <2>6. CASE phase' = "final" /\ loop' = "ended"
        <3>1. StepInv' = (step' <= pass_num' * W + 1)
            BY <2>4, <2>6
        <3> QED
            BY <1>4, <2>6, <3>1
    <2>7. CASE phase' = "final" /\ loop' # "ended"
        <3>1. StepInv' = (step' <= pass_num' * W + 0)
            BY <2>4, <2>7
        <3>2. pass_num' * W + 0 = pass_num' * W
            BY <2>2, SMT
        <3> QED
            BY <1>4, <2>7, <3>1, <3>2
    <2> QED
        BY <2>5, <2>6, <2>7
<1>5. CASE ChunkAction \/ MergeAction \/ FinalAction
    BY <1>3, <1>5, SMT DEF ChunkAction, MergeAction, FinalAction
<1>6. CASE EmptyChunkAction
    <2>1. /\ phase = "chunk" /\ step' = step /\ chunk_step' = chunk_step /\ loop' = "update"
          /\ \/ phase' = "final" /\ pass_num' = pass_num + 1
             \/ phase' = "merge" /\ pass_num' = pass_num
        BY <1>6 DEF EmptyChunkAction
    <2> HIDE DEF W
    <2>2. CASE phase' = "final"
        <3>1. step <= pass_num * W + W
            BY <1>1, <1>2, <1>3, <2>1, SMT DEF W
        <3> QED
            BY <1>2, <2>1, <2>2, <3>1, SMT
    <2>3. CASE phase' = "merge"
        BY <1>3, <2>1, <2>3, SMT
    <2> QED
        BY <2>1, <2>2, <2>3
<1>7. CASE ChunkUpdate
    <2>1. /\ phase = "chunk" /\ step' = step + 1 /\ chunk_step' = chunk_step + 1 /\ loop' = "action"
          /\ \/ phase' = "final" /\ pass_num' = pass_num + 1
             \/ phase' \in {"chunk", "merge"} /\ pass_num' = pass_num
        BY <1>7 DEF ChunkUpdate, Record
    <2> HIDE DEF W
    <2>2. CASE phase' = "final"
        <3>1. step + 1 <= pass_num * W + W
            BY <1>1, <1>2, <1>3, <2>1, SMT DEF W
        <3> QED
            BY <1>2, <2>1, <2>2, <3>1, SMT
    <2>3. CASE phase' \in {"chunk", "merge"}
        BY <1>1, <1>2, <1>3, <2>1, <2>3, SMT
    <2> QED
        BY <2>1, <2>2, <2>3
<1>8. CASE MergeUpdate
    <2>1. /\ phase = "merge" /\ step' = step + 1 /\ loop' = "action" /\ pass_num' = pass_num + 1
          /\ phase' = "final" \/ (phase' = "chunk" /\ chunk_step' = 0)
        BY <1>8 DEF MergeUpdate, NextPass, Record
    <2> HIDE DEF W
    <2>2. step + 1 <= pass_num * W + W
        BY <1>1, <1>2, <1>3, <2>1, SMT DEF W
    <2>3. step' <= pass_num' * W /\ pass_num' * W \in Nat
        BY <1>1, <1>2, <2>1, <2>2, SMT
    <2> QED
        BY <2>1, <2>3, SMT
<1>9. CASE FinalUpdate
    <2>1. /\ phase = "final" /\ phase' = "final" /\ loop # "ended" /\ loop' = "ended"
          /\ step' = step + 1 /\ pass_num' = pass_num
        BY <1>9, SMT DEF FinalUpdate
    <2> HIDE DEF W
    <2> QED
        BY <1>1, <1>2, <1>3, <2>1, SMT
<1> QED
    BY <1>5, <1>6, <1>7, <1>8, <1>9 DEF Next

LEMMA WorkInvNext == WorkInv /\ [Next]_vars => WorkInv'
<1> SUFFICES ASSUME WorkInv, [Next]_vars PROVE WorkInv'
    OBVIOUS
<1>1. CASE Next
    <2>1. TypeInv'
        BY TypeInvNext DEF WorkInv
    <2> QED
        BY <1>1, <2>1, MemoryInvNext, PhaseInvNext, AskedInvNext, ChunkRowsNext, MergeRowsNext,
           FinalRowsNext, StepInvNext DEF WorkInv
<1>2. CASE UNCHANGED vars
    <2>1. TypeInv' /\ MemoryInv' /\ PhaseInv' /\ AskedInv' /\ StepInv'
        <3>1. TypeInv'
            BY TypeInvNext DEF WorkInv
        <3>2. MemoryInv'
            BY <1>2, Zenon DEF vars, WorkInv, MemoryInv, Evidence
        <3>3. PhaseInv' /\ StepInv'
            BY <1>2, Zenon DEF vars, WorkInv, PhaseInv, StepInv
        <3>4. AskedInv'
            BY <1>2, Zenon DEF vars, WorkInv, AskedInv, ChunkPrompts, MergePrompts, FinalPrompts,
                               Active, Evidence
        <3> QED
            BY <3>1, <3>2, <3>3, <3>4
    <2>2. ChunkRowsInv'
        <3>1. \A s, p : ReadIn(s, p)' = ReadIn(s, p) /\ NewsOf(s, p)' = NewsOf(s, p)
            BY <1>2, Zenon DEF vars, ReadIn, NewsOf, Evidence
        <3>2. UNCHANGED <<turns, global_memory>>
            BY <1>2 DEF vars
        <3> QED
            BY <3>1, <3>2, ChunkRowsKept DEF WorkInv
    <2>3. MergeRowsInv'
        <3>1. UNCHANGED <<turns, global_memory, step>>
            BY <1>2 DEF vars
        <3>2. \A t : MergeRow(t)' <=> MergeRow(t)
            BY <3>1 DEF MergeRow
        <3> QED
            BY <3>1, <3>2 DEF WorkInv, MergeRowsInv
    <2>4. FinalRowsInv'
        BY <1>2, Zenon DEF vars, WorkInv, FinalRowsInv, FinalRow
    <2> QED
        BY <2>1, <2>2, <2>3, <2>4 DEF WorkInv
<1> QED
    BY <1>1, <1>2

LEMMA WorkInvHolds == Spec => []WorkInv
<1> QED
    BY WorkInvInit, WorkInvNext, PTL DEF Spec

-----------------------------------------------------------------------------
(* What follows from it *)

(* Two finite sets with a one-to-one correspondence have as many elements.  *)
LEMMA SameCount ==
    ASSUME NEW S, NEW T, IsFiniteSet(T), NEW f \in [S -> T],
           \A a, b \in S : f[a] = f[b] => a = b,
           \A t \in T : \E a \in S : f[a] = t
    PROVE  IsFiniteSet(S) /\ Cardinality(S) = Cardinality(T)
<1>1. f \in Injection(S, T)
    BY Fun_IsInj
<1>2. f \in Surjection(S, T)
    BY Fun_IsSurj
<1> QED
    BY <1>1, <1>2, FS_Injection

LEMMA CountFromZero ==
    ASSUME NEW n \in Nat
    PROVE  IsFiniteSet(0 .. n - 1) /\ Cardinality(0 .. n - 1) = n
<1>1. IsFiniteSet(0 .. n - 1) /\ Cardinality(0 .. n - 1) = IF 0 > n - 1 THEN 0 ELSE (n - 1) - 0 + 1
    BY FS_Interval, SMT
<1> QED
    BY <1>1, SMT

LEMMA CountFromOne ==
    ASSUME NEW n \in Nat
    PROVE  IsFiniteSet(1 .. n) /\ Cardinality(1 .. n) = n
<1>1. IsFiniteSet(1 .. n) /\ Cardinality(1 .. n) = IF 1 > n THEN 0 ELSE n - 1 + 1
    BY FS_Interval, SMT
<1> QED
    BY <1>1, SMT

(* What one row of the present sample says.                                 *)
LEMMA RowFacts ==
    ASSUME WorkInv, NEW s \in Samples
    PROVE  /\ Len(global_memory[s]) \in Nat /\ nchunks[s] \in Nat
           /\ \A t \in RowsOf(s, "chunk") :
                 /\ t \in turns /\ t.sample = s /\ ChunkRow(t)
                 /\ t.pass_used \in 1 .. Len(global_memory[s]) + 1
                 /\ t.chunk \in ReadIn(s, t.pass_used)
                 /\ t.news <=> t.chunk \in NewsOf(s, t.pass_used)
                 /\ t.seen = SubSeq(global_memory[s], 1, t.pass_used - 1)
           /\ \A m \in RowsOf(s, "merge") :
                 /\ m \in turns /\ m.sample = s /\ MergeRow(m)
                 /\ m.pass_used \in 1 .. Len(global_memory[s])
                 /\ m.seen = SubSeq(global_memory[s], 1, m.pass_used)
<1>1. Len(global_memory[s]) \in Nat /\ nchunks[s] \in Nat
    BY MemoryType, MaxChunksAssumption, SMT DEF WorkInv
<1>2. \A t \in RowsOf(s, "chunk") : t \in turns /\ t.sample = s /\ ChunkRow(t)
    BY DEF RowsOf, ChunkRow
<1>3. \A m \in RowsOf(s, "merge") : m \in turns /\ m.sample = s /\ MergeRow(m)
    BY DEF RowsOf, MergeRow
<1> QED
    BY <1>1, <1>2, <1>3 DEF WorkInv, ChunkRowsInv, MergeRowsInv

(* The rows of pass p are the chunks read in it, one row each.              *)
LEMMA PassRowsAre ==
    ASSUME WorkInv, NEW s \in Samples, NEW p \in 1 .. Len(global_memory[s]) + 1
    PROVE  /\ {t.chunk : t \in PassRows(s, p)} = ReadIn(s, p)
           /\ \A t, u \in PassRows(s, p) : t.chunk = u.chunk => t = u
<1>1. \A t \in PassRows(s, p) :
         t \in turns /\ ChunkRow(t) /\ t.sample = s /\ t.pass_used = p /\ t.chunk \in ReadIn(s, p)
    BY RowFacts DEF PassRows
<1>2. \A k \in ReadIn(s, p) : \E t \in PassRows(s, p) : t.chunk = k
    <2> SUFFICES ASSUME NEW k \in ReadIn(s, p)
                 PROVE  \E t \in PassRows(s, p) : t.chunk = k
        OBVIOUS
    <2>1. PICK t \in turns : ChunkRow(t) /\ t.sample = s /\ t.pass_used = p /\ t.chunk = k
        BY DEF WorkInv, ChunkRowsInv
    <2>2. t \in PassRows(s, p)
        BY <2>1 DEF PassRows, RowsOf, ChunkRow
    <2> QED
        BY <2>1, <2>2
<1>3. \A t, u \in PassRows(s, p) : t.chunk = u.chunk => t = u
    BY <1>1 DEF WorkInv, ChunkRowsInv
<1> QED
    BY <1>1, <1>2, <1>3

(* A pass that was merged, or a sample converged in, was read to its end.   *)
LEMMA WholePassRead ==
    ASSUME WorkInv, NEW s \in Samples, NEW p \in 1 .. Len(global_memory[s]) + 1,
           p <= Len(global_memory[s]) \/ s \in converged
    PROVE  ReadIn(s, p) = 0 .. nchunks[s] - 1
<1>1. Len(global_memory[s]) \in Nat
    BY RowFacts
<1>2. p <= Len(global_memory[s]) \/ (p = Len(global_memory[s]) + 1 /\ s \in converged)
    BY <1>1, SMT
<1> QED
    BY <1>2 DEF ReadIn

LEMMA EvidenceIsCarried == WorkInv => MergeCarriesTheEvidence
<1> SUFFICES ASSUME WorkInv, NEW s \in Samples, NEW m \in RowsOf(s, "merge")
             PROVE  LET read == PassRows(s, m.pass_used)
                        news == {t.chunk : t \in {r \in read : r.news}}
                    IN  /\ news # {}
                        /\ \A t \in read : m.seen = Append(t.seen, news)
    BY DEF MergeCarriesTheEvidence
<1> DEFINE p == m.pass_used
           read == PassRows(s, p)
           news == {t.chunk : t \in {r \in read : r.news}}
<1>1. /\ p \in 1 .. Len(global_memory[s]) /\ p \in 1 .. Len(global_memory[s]) + 1
      /\ m.seen = SubSeq(global_memory[s], 1, p)
    BY RowFacts, SMT
<1>2. NewsOf(s, p) = global_memory[s][p] /\ p <= Len(global_memory[s])
    BY <1>1, SMT DEF NewsOf
<1>3. global_memory[s][p] # {} /\ global_memory[s][p] \subseteq ReadIn(s, p)
    BY <1>1, <1>2, WholePassRead DEF WorkInv, MemoryInv
<1>4. \A t \in read : /\ t.chunk \in ReadIn(s, p)
                      /\ t.news <=> t.chunk \in global_memory[s][p]
                      /\ t.seen = SubSeq(global_memory[s], 1, p - 1)
    BY <1>2, RowFacts DEF PassRows
<1>5. news = global_memory[s][p]
    <2>1. {t.chunk : t \in read} = ReadIn(s, p)
        BY <1>1, PassRowsAre
    <2> QED
        BY <1>3, <1>4, <2>1
<1>6. Append(SubSeq(global_memory[s], 1, p - 1), global_memory[s][p]) = SubSeq(global_memory[s], 1, p)
    <2>1. global_memory[s] \in Seq(SUBSET (0 .. MaxChunks - 1))
        BY MemoryType DEF WorkInv
    <2> QED
        BY <1>1, <2>1, AppendToPrefix
<1> QED
    BY <1>1, <1>3, <1>4, <1>5, <1>6

LEMMA PassesAreRead == WorkInv => PassesAreComplete
<1> SUFFICES ASSUME WorkInv, NEW s \in Samples, NEW p \in 1 .. MaxPasses,
                    PassRows(s, p) # {}, s \in converged \/ pass_num >= p
             PROVE  /\ {t.chunk : t \in PassRows(s, p)} = 0 .. nchunks[s] - 1
                    /\ Cardinality(PassRows(s, p)) = nchunks[s]
    BY DEF PassesAreComplete
<1>1. p \in 1 .. Len(global_memory[s]) + 1
    BY RowFacts DEF PassRows
<1>2. p <= Len(global_memory[s]) \/ s \in converged
    BY <1>1, MaxPassesAssumption, SMT DEF WorkInv, MemoryInv
<1>3. ReadIn(s, p) = 0 .. nchunks[s] - 1 /\ nchunks[s] \in Nat
    BY <1>1, <1>2, WholePassRead, RowFacts
<1>4. {t.chunk : t \in PassRows(s, p)} = 0 .. nchunks[s] - 1
    BY <1>1, <1>3, PassRowsAre
<1>5. Cardinality(PassRows(s, p)) = nchunks[s]
    <2> DEFINE f == [t \in PassRows(s, p) |-> t.chunk]
    <2>1. f \in [PassRows(s, p) -> 0 .. nchunks[s] - 1]
        BY <1>4
    <2>2. \A t, u \in PassRows(s, p) : f[t] = f[u] => t = u
        BY <1>1, PassRowsAre
    <2>3. \A k \in 0 .. nchunks[s] - 1 : \E t \in PassRows(s, p) : f[t] = k
        BY <1>4
    <2> HIDE DEF f
    <2>4. IsFiniteSet(0 .. nchunks[s] - 1) /\ Cardinality(0 .. nchunks[s] - 1) = nchunks[s]
        BY <1>3, CountFromZero
    <2>5. Cardinality(PassRows(s, p)) = Cardinality(0 .. nchunks[s] - 1)
        BY <2>1, <2>2, <2>3, <2>4, SameCount
    <2> QED
        BY <2>4, <2>5
<1> QED
    BY <1>4, <1>5

(* The passes in which sample s read, and how many merges it had.           *)
LEMMA PassesOfSample ==
    ASSUME WorkInv, NEW s \in Samples, phase = "final" \/ s \in converged
    PROVE  LET passes == {t.pass_used : t \in RowsOf(s, "chunk")}
               last   == IF s \in converged THEN Len(global_memory[s]) + 1 ELSE Len(global_memory[s])
           IN  /\ last \in Nat
               /\ nchunks[s] = 0 => passes = {} /\ Len(global_memory[s]) = 0
               /\ nchunks[s] > 0 => passes = 1 .. last /\ Cardinality(passes) = last
               /\ IsFiniteSet(RowsOf(s, "merge"))
               /\ Cardinality(RowsOf(s, "merge")) = Len(global_memory[s])
<1> DEFINE len == Len(global_memory[s])
           passes == {t.pass_used : t \in RowsOf(s, "chunk")}
           last   == IF s \in converged THEN len + 1 ELSE len
<1>1. len \in Nat /\ nchunks[s] \in Nat /\ last \in Nat
    BY RowFacts, SMT
<1>2. ASSUME NEW t \in RowsOf(s, "chunk")
      PROVE  t.pass_used \in 1 .. last /\ t.chunk \in 0 .. nchunks[s] - 1
    <2>1. t.pass_used \in 1 .. len + 1 /\ t.chunk \in ReadIn(s, t.pass_used)
        BY RowFacts
    <2> QED
        BY <1>1, <2>1, SMT DEF ReadIn
<1>3. ASSUME nchunks[s] = 0
      PROVE  passes = {} /\ len = 0
    <2>1. RowsOf(s, "chunk") = {}
        BY <1>2, <1>3, SMT
    <2>2. len = 0
        <3>1. len # 0 => 1 \in 1 .. len
            BY <1>1, SMT
        <3>2. 0 .. nchunks[s] - 1 = {}
            BY <1>3, SMT
        <3> QED
            BY <3>1, <3>2 DEF WorkInv, MemoryInv
    <2> QED
        BY <2>1, <2>2
<1>4. ASSUME nchunks[s] > 0
      PROVE  passes = 1 .. last
    <2>1. ASSUME NEW p \in 1 .. last
          PROVE  p \in passes
        <3>1. p \in 1 .. len + 1 /\ (p <= len \/ s \in converged)
            BY <1>1, SMT
        <3>2. 0 \in ReadIn(s, p)
            BY <1>1, <1>4, <3>1, WholePassRead, SMT
        <3>3. PICK t \in turns : ChunkRow(t) /\ t.sample = s /\ t.pass_used = p
            BY <3>1, <3>2 DEF WorkInv, ChunkRowsInv
        <3>4. t \in RowsOf(s, "chunk")
            BY <3>3 DEF RowsOf, ChunkRow
        <3> QED
            BY <3>3, <3>4
    <2> QED
        BY <1>2, <2>1
<1>5. IsFiniteSet(RowsOf(s, "merge")) /\ Cardinality(RowsOf(s, "merge")) = len
    <2> DEFINE f == [m \in RowsOf(s, "merge") |-> m.pass_used]
    <2>1. f \in [RowsOf(s, "merge") -> 1 .. len]
        BY RowFacts
    <2>2. \A m, n \in RowsOf(s, "merge") : f[m] = f[n] => m = n
        BY RowFacts DEF WorkInv, MergeRowsInv
    <2>3. \A p \in 1 .. len : \E m \in RowsOf(s, "merge") : f[m] = p
        <3> SUFFICES ASSUME NEW p \in 1 .. len
                     PROVE  \E m \in RowsOf(s, "merge") : f[m] = p
            OBVIOUS
        <3>1. PICK m \in turns : MergeRow(m) /\ m.sample = s /\ m.pass_used = p
            BY DEF WorkInv, MergeRowsInv
        <3>2. m \in RowsOf(s, "merge")
            BY <3>1 DEF RowsOf, MergeRow
        <3> QED
            BY <3>1, <3>2
    <2> HIDE DEF f
    <2> QED
        BY <1>1, <2>1, <2>2, <2>3, SameCount, CountFromOne
<1>6. nchunks[s] > 0 => Cardinality(passes) = last
    BY <1>1, <1>4, CountFromOne
<1> QED
    BY <1>1, <1>3, <1>4, <1>5, <1>6

LEMMA ConvergedReadNoNews == WorkInv => ConvergedMeansNoNews
<1> SUFFICES ASSUME WorkInv, NEW s \in converged
             PROVE  LET passes == {t.pass_used : t \in RowsOf(s, "chunk")}
                    IN  /\ \A t \in RowsOf(s, "chunk") :
                              t.pass_used = Cardinality(passes) => ~t.news
                        /\ Cardinality(RowsOf(s, "merge")) =
                              IF nchunks[s] = 0 THEN 0 ELSE Cardinality(passes) - 1
    BY DEF ConvergedMeansNoNews
<1> DEFINE passes == {t.pass_used : t \in RowsOf(s, "chunk")}
<1>1. s \in Samples
    BY DEF WorkInv, TypeInv, TypeOK
<1>2. Len(global_memory[s]) \in Nat /\ nchunks[s] \in Nat
    BY <1>1, RowFacts
<1>3. /\ nchunks[s] = 0 => passes = {} /\ Len(global_memory[s]) = 0
      /\ nchunks[s] > 0 => Cardinality(passes) = Len(global_memory[s]) + 1
      /\ Cardinality(RowsOf(s, "merge")) = Len(global_memory[s])
    BY <1>1, PassesOfSample
<1>4. ASSUME NEW t \in RowsOf(s, "chunk"), t.pass_used = Cardinality(passes)
      PROVE  ~t.news
    <2>1. nchunks[s] > 0
        <3>1. nchunks[s] # 0
            BY <1>3
        <3> QED
            BY <1>2, <3>1, SMT
    <2>2. ~(t.pass_used <= Len(global_memory[s]))
        BY <1>2, <1>3, <1>4, <2>1, SMT
    <2>3. NewsOf(s, t.pass_used) = {}
        BY <2>2 DEF NewsOf
    <2> QED
        BY <1>1, <2>3, RowFacts
<1>5. Cardinality(RowsOf(s, "merge")) = IF nchunks[s] = 0 THEN 0 ELSE Cardinality(passes) - 1
    <2> HIDE DEF passes
    <2> QED
        BY <1>2, <1>3, SMT
<1> QED
    BY <1>4, <1>5

(* The last merge row of a sample holds its memory.                         *)
LEMMA LastMergeIsTheMemory ==
    ASSUME WorkInv, NEW s \in Samples
    PROVE  LET merges == RowsOf(s, "merge")
           IN  global_memory[s] = IF merges = {} THEN << >>
                                  ELSE (CHOOSE m \in merges :
                                      \A n \in merges : n.step <= m.step).seen
<1> DEFINE merges == RowsOf(s, "merge")
           len == Len(global_memory[s])
<1>1. len \in Nat /\ global_memory[s] \in Seq(SUBSET (0 .. MaxChunks - 1))
    BY MemoryType DEF WorkInv
<1>2. CASE merges = {}
    <2>1. ~(len \in 1 .. len)
        <3> SUFFICES ASSUME len \in 1 .. len PROVE FALSE
            OBVIOUS
        <3>1. PICK m \in turns : MergeRow(m) /\ m.sample = s
            BY DEF WorkInv, MergeRowsInv
        <3> QED
            BY <1>2, <3>1 DEF RowsOf, MergeRow
    <2>2. len = 0
        BY <1>1, <2>1, SMT
    <2> QED
        BY <1>1, <1>2, <2>2, EmptySeq
<1>3. CASE merges # {}
    <2>1. len \in 1 .. len
        BY <1>1, <1>3, RowFacts, SMT
    <2>2. PICK last \in turns : MergeRow(last) /\ last.sample = s /\ last.pass_used = len
        BY <2>1 DEF WorkInv, MergeRowsInv
    <2>3. last \in merges
        BY <2>2 DEF RowsOf, MergeRow
    <2>4. \A n \in merges : n.step \in Int /\ n.pass_used \in 1 .. len /\ MergeRow(n)
        /\ n.sample = s /\ n \in turns
        <3>1. \A n \in merges : n.step \in 0 .. step - 1
            BY RowFacts DEF WorkInv, MergeRowsInv
        <3> QED
            BY <3>1, RowFacts, SMT
    <2>5. \A n \in merges : /\ n.pass_used = last.pass_used => n = last
                            /\ n.pass_used < last.pass_used => n.step < last.step
        BY <2>2, <2>4 DEF WorkInv, MergeRowsInv
    <2>6. \A n \in merges : n = last \/ n.step < last.step
        <3> SUFFICES ASSUME NEW n \in merges, n # last
                     PROVE  n.step < last.step
            OBVIOUS
        <3>1. n.pass_used # len
            BY <2>2, <2>5
        <3>2. n.pass_used < last.pass_used
            BY <1>1, <2>2, <2>4, <3>1, SMT
        <3> QED
            BY <2>5, <3>2
    <2>7. \A n \in merges : n.step <= last.step
        BY <2>3, <2>4, <2>6, SMT
    <2>8. ASSUME NEW m \in merges, \A n \in merges : n.step <= m.step
          PROVE  m = last
        BY <2>3, <2>4, <2>6, <2>8, SMT
    <2>9. (CHOOSE m \in merges : \A n \in merges : n.step <= m.step) = last
        BY <2>3, <2>7, <2>8
    <2>10. last.seen = global_memory[s]
        <3>1. last.seen = SubSeq(global_memory[s], 1, len)
            BY <2>2, <2>3, RowFacts
        <3> QED
            BY <1>1, <3>1, SubSeqFull
    <2> QED
        BY <1>3, <2>9, <2>10
<1> QED
    BY <1>2, <1>3

LEMMA AnsweredOnce == WorkInv => AnsweredOnceFromTheLastMemory
<1> SUFFICES ASSUME WorkInv, loop = "ended", NEW s \in Samples
             PROVE  LET passes == {t.pass_used : t \in RowsOf(s, "chunk")}
                        merges == RowsOf(s, "merge")
                    IN  /\ Cardinality(RowsOf(s, "final")) = 1
                        /\ \A t \in RowsOf(s, "final") :
                            /\ t.step = step - 1
                            /\ t.pass_used = IF passes = {} THEN 1 ELSE Cardinality(passes)
                            /\ t.seen = IF merges = {} THEN << >>
                                        ELSE (CHOOSE m \in merges :
                                                \A n \in merges : n.step <= m.step).seen
    BY DEF AnsweredOnceFromTheLastMemory
<1> DEFINE passes == {t.pass_used : t \in RowsOf(s, "chunk")}
<1>1. RowsOf(s, "final") = {FinalRow(s)}
    <2>1. {t \in turns : t.kind = "final"} = {FinalRow(r) : r \in Samples}
        BY DEF WorkInv, FinalRowsInv
    <2>2. \A r \in Samples : FinalRow(r).sample = r
        BY DEF FinalRow
    <2>3. RowsOf(s, "final") = {t \in {u \in turns : u.kind = "final"} : t.sample = s}
        BY DEF RowsOf
    <2> QED
        BY <2>1, <2>2, <2>3
<1>2. Cardinality(RowsOf(s, "final")) = 1
    BY <1>1, FS_Singleton
<1>3. FinalRow(s).pass_used = IF passes = {} THEN 1 ELSE Cardinality(passes)
    <2> DEFINE last == IF s \in converged THEN Len(global_memory[s]) + 1 ELSE Len(global_memory[s])
    <2>1. phase = "final"
        BY DEF WorkInv, PhaseInv
    <2>2. /\ last \in Nat /\ nchunks[s] \in Nat
          /\ nchunks[s] = 0 => passes = {} /\ Len(global_memory[s]) = 0
          /\ nchunks[s] > 0 => passes = 1 .. last /\ Cardinality(passes) = last
        BY <2>1, PassesOfSample, RowFacts
    <2>3. sample_pass_used[s] = last /\ FinalRow(s).pass_used = sample_pass_used[s]
        BY <2>1 DEF WorkInv, MemoryInv, FinalRow
    <2>4. last >= 1
        <3>1. CASE s \in converged
            BY <3>1, RowFacts, SMT
        <3>2. CASE s \notin converged
            <4>1. pass_num = MaxPasses
                BY <2>1, <3>2 DEF WorkInv, PhaseInv
            <4> QED
                BY <3>2, <4>1, MaxPassesAssumption, SMT DEF WorkInv, MemoryInv
        <3> QED
            BY <3>1, <3>2
    <2>5. nchunks[s] = 0 => last = 1
        <3> SUFFICES ASSUME nchunks[s] = 0 PROVE last = 1
            OBVIOUS
        <3>1. s \in converged
            BY <2>2, <2>4
        <3> QED
            BY <2>2, <3>1, SMT
    <2> HIDE DEF last
    <2>6. nchunks[s] > 0 => passes # {}
        <3>1. 1 \in 1 .. last
            BY <2>2, <2>4, SMT
        <3> QED
            BY <2>2, <3>1
    <2> HIDE DEF passes
    <2> QED
        BY <2>2, <2>3, <2>5, <2>6, SMT
<1>4. FinalRow(s).step = step - 1 /\ FinalRow(s).seen = global_memory[s]
    BY DEF FinalRow
<1> QED
    BY <1>1, <1>2, <1>3, <1>4, LastMergeIsTheMemory

LEMMA FinalHasReason == WorkInv => FinalHasAReason
<1> SUFFICES ASSUME WorkInv, phase = "final"
             PROVE  /\ converged = Samples \/ pass_num = MaxPasses
                    /\ \A s \in Samples : \A t \in RowsOf(s, "chunk") :
                          t.news => \E m \in RowsOf(s, "merge") : m.pass_used = t.pass_used
    BY DEF FinalHasAReason
<1>1. converged = Samples \/ pass_num = MaxPasses
    BY DEF WorkInv, PhaseInv
<1>2. ASSUME NEW s \in Samples, NEW t \in RowsOf(s, "chunk"), t.news
      PROVE  \E m \in RowsOf(s, "merge") : m.pass_used = t.pass_used
    <2>1. /\ t.pass_used \in 1 .. Len(global_memory[s]) + 1
          /\ t.chunk \in ReadIn(s, t.pass_used)
          /\ t.chunk \in NewsOf(s, t.pass_used)
        BY <1>2, RowFacts
    <2>2. t.pass_used <= Len(global_memory[s])
        BY <2>1 DEF ReadIn, NewsOf
    <2>3. t.pass_used \in 1 .. Len(global_memory[s])
        BY <2>1, <2>2, RowFacts, SMT
    <2>4. PICK m \in turns : MergeRow(m) /\ m.sample = s /\ m.pass_used = t.pass_used
        BY <2>3 DEF WorkInv, MergeRowsInv
    <2> QED
        BY <2>4 DEF RowsOf, MergeRow
<1> QED
    BY <1>1, <1>2

LEMMA ProductMonotone ==
    ASSUME NEW a \in Nat, NEW b \in Nat, NEW w \in Nat, a <= b
    PROVE  a * w <= b * w
BY SMT

LEMMA StepsAreBounded == WorkInv => LoopIsBounded
<1> SUFFICES ASSUME WorkInv
             PROVE  step <= MaxPasses * (MaxChunks + 1) + 1
    BY DEF LoopIsBounded
<1> DEFINE W == MaxChunks + 1
<1>1. /\ W \in Nat /\ MaxPasses \in Nat /\ pass_num \in Nat /\ pass_num + 1 \in Nat
      /\ chunk_step \in Nat /\ chunk_step <= W /\ step \in Nat
      /\ pass_num <= MaxPasses /\ (phase # "final" => pass_num + 1 <= MaxPasses)
    BY MaxChunksAssumption, MaxPassesAssumption, SMT DEF WorkInv, TypeInv, TypeOK
<1>2. /\ phase # "final" => step <= pass_num * W + chunk_step
      /\ phase = "final" => step <= pass_num * W + 1
    <2>1. pass_num * W \in Nat
        BY <1>1, SMT
    <2> QED
        BY <1>1, <2>1, SMT DEF WorkInv, StepInv
<1> HIDE DEF W
<1>3. pass_num * W <= MaxPasses * W
    BY <1>1, ProductMonotone
<1>4. phase # "final" => (pass_num + 1) * W <= MaxPasses * W
    BY <1>1, ProductMonotone
<1>5. (pass_num + 1) * W = pass_num * W + W /\ pass_num * W \in Nat /\ MaxPasses * W \in Nat
    BY <1>1, SMT
<1>6. step <= MaxPasses * W + 1
    BY <1>1, <1>2, <1>3, <1>4, <1>5, SMT
<1> QED
    BY <1>6 DEF W

(* In every run over every batch, a pass is read against one memory, reads  *)
(* every chunk of a sample exactly once, and its merge prompt holds that    *)
(* memory and exactly the chunks with news (_chunk_action, _merge_action).  *)
THEOREM PassesReadWhole == Spec => []PassesAreReadWhole
<1>1. WorkInv => PassesAreComplete /\ MergeCarriesTheEvidence
    BY PassesAreRead, EvidenceIsCarried
<1>2. ReadInv => PassReadsOneMemory
    BY DEF ReadInv
<1> QED
    BY <1>1, <1>2, ReadInvHolds, WorkInvHolds, PTL DEF PassesAreReadWhole

(* Convergence is marked for exactly the samples whose last pass had no     *)
(* news, the answers are asked for only when nobody reads any more, each    *)
(* sample is answered once from its last merge and charged with the passes  *)
(* it read, within max_passes * (max_chunks + 1) + 1 iterations             *)
(* (_check_pass_convergence, _finalize_sample_pass_used, update).           *)
THEOREM AnswersReasoned == Spec => []AnswersHaveAReason
<1>1. WorkInv => AnswersHaveAReason
    BY ConvergedReadNoNews, AnsweredOnce, FinalHasReason, StepsAreBounded DEF AnswersHaveAReason
<1> QED
    BY <1>1, WorkInvHolds, PTL

-----------------------------------------------------------------------------
(* The workflow *)

StageOf(s) == IF loop = "ended" THEN "answered"
              ELSE IF sample_pass_used[s] >= 0 THEN "answering" ELSE "reading"

(* Where a sample is in the workflow, from its row in the invariant.        *)
LEMMA StageFacts ==
    ASSUME WorkInv, NEW s \in Samples
    PROVE  /\ Len(global_memory[s]) \in Nat /\ pass_num \in Nat /\ sample_pass_used[s] \in Int
           /\ s \in converged => sample_pass_used[s] = Len(global_memory[s]) + 1
           /\ s \notin converged =>
                 /\ Len(global_memory[s]) = pass_num
                 /\ sample_pass_used[s] = IF phase = "final" THEN pass_num ELSE -1
           /\ StageOf(s) = IF loop = "ended" THEN "answered"
                           ELSE IF s \in converged \/ phase = "final" THEN "answering"
                           ELSE "reading"
<1>1. Len(global_memory[s]) \in Nat /\ pass_num \in Nat
    BY MemoryType DEF WorkInv
<1>2. /\ s \in converged => sample_pass_used[s] = Len(global_memory[s]) + 1
      /\ s \notin converged =>
            /\ Len(global_memory[s]) = pass_num
            /\ sample_pass_used[s] = IF phase = "final" THEN pass_num ELSE -1
    BY DEF WorkInv, MemoryInv
<1>3. sample_pass_used[s] \in Int
    BY <1>1, <1>2, SMT
<1>4. sample_pass_used[s] >= 0 <=> s \in converged \/ phase = "final"
    BY <1>1, <1>2, SMT
<1> QED
    BY <1>1, <1>2, <1>3, <1>4 DEF StageOf

LEMMA WorkflowInit == Init => Workflow!Init
<1> SUFFICES ASSUME Init PROVE Workflow!Init
    OBVIOUS
<1>1. /\ global_memory = [s \in Samples |-> << >>]
      /\ sample_pass_used = [s \in Samples |-> -1] /\ loop = "action"
    BY DEF Init
<1>2. [s \in Samples |-> IF loop = "ended" THEN "answered"
                         ELSE IF sample_pass_used[s] >= 0 THEN "answering" ELSE "reading"]
      = [s \in Samples |-> "reading"]
    BY <1>1, SMT
<1> QED
    BY <1>1, <1>2 DEF Workflow!Init

(* A sample whose memory, charge and stage stay, stays in the workflow.     *)
LEMMA WorkflowStays ==
    ASSUME NEW s \in Samples, global_memory'[s] = global_memory[s],
           sample_pass_used'[s] = sample_pass_used[s], StageOf(s)' = StageOf(s)
    PROVE  Workflow!Stay(s)
BY DEF Workflow!Stay, StageOf

LEMMA WorkflowConverges ==
    ASSUME NEW s \in Samples, StageOf(s) = "reading", StageOf(s)' = "answering",
           Len(global_memory[s]) < MaxPasses, global_memory'[s] = global_memory[s],
           sample_pass_used'[s] = Len(global_memory[s]) + 1
    PROVE  Workflow!Converge(s)
BY DEF Workflow!Converge, StageOf

LEMMA WorkflowAnswers ==
    ASSUME NEW s \in Samples, StageOf(s) = "answering", StageOf(s)' = "answered",
           global_memory'[s] = global_memory[s], sample_pass_used'[s] = sample_pass_used[s]
    PROVE  Workflow!Answer(s)
BY DEF Workflow!Answer, StageOf

LEMMA WorkflowAbsorbs ==
    ASSUME NEW s \in Samples, StageOf(s) = "reading", Len(global_memory[s]) < MaxPasses,
           NEW evidence \in (SUBSET (0 .. MaxChunks - 1)) \ {{}},
           global_memory'[s] = Append(global_memory[s], evidence),
           \/ /\ Len(global_memory'[s]) < MaxPasses
              /\ StageOf(s)' = "reading" /\ sample_pass_used'[s] = -1
           \/ /\ Len(global_memory'[s]) = MaxPasses
              /\ StageOf(s)' = "answering" /\ sample_pass_used'[s] = MaxPasses
    PROVE  Workflow!Absorb(s)
BY DEF Workflow!Absorb, StageOf

(* Every step of the agent is, for each sample of the batch, one step of    *)
(* the workflow or none.                                                    *)
LEMMA SampleStep ==
    ASSUME WorkInv, WorkInv', Next, NEW s \in Samples
    PROVE  \/ Workflow!Absorb(s) \/ Workflow!Converge(s)
           \/ Workflow!Answer(s) \/ Workflow!Stay(s)
<1>1. CASE ChunkAction \/ MergeAction \/ FinalAction
    <2>1. UNCHANGED <<global_memory, sample_pass_used>> /\ loop # "ended" /\ loop' # "ended"
        BY <1>1, SMT DEF ChunkAction, MergeAction, FinalAction
    <2>2. StageOf(s)' = StageOf(s)
        BY <2>1 DEF StageOf
    <2> QED
        BY <2>1, <2>2, WorkflowStays
<1>2. ASSUME PassEnds, loop # "ended", loop' # "ended"
      PROVE  Workflow!Converge(s) \/ Workflow!Stay(s)
    <2>1. TypeInv /\ MemoryInv /\ TypeInv' /\ global_memory' = global_memory
          /\ phase = "chunk" /\ pass_num < MaxPasses
        BY <1>2 DEF WorkInv, PassEnds, TypeInv
    <2>2. CASE s \in converged
        <3>1. s \in converged' /\ sample_pass_used'[s] = sample_pass_used[s]
            BY <1>2, <2>1, <2>2, PassEndEffect
        <3> QED
            BY <1>2, <2>1, <3>1, WorkflowStays DEF StageOf
    <2>3. CASE s \in converged' \ converged
        <3>1. sample_pass_used'[s] = pass_num + 1 /\ Len(global_memory[s]) = pass_num
            BY <1>2, <2>1, <2>3, PassEndEffect, StageFacts
        <3>2. StageOf(s) = "reading"
            BY <1>2, <2>1, <2>3, StageFacts
        <3>3. StageOf(s)' = "answering"
            <4>1. sample_pass_used'[s] >= 0
                BY <3>1, StageFacts, SMT
            <4> QED
                BY <1>2, <4>1 DEF StageOf
        <3> QED
            BY <2>1, <3>1, <3>2, <3>3, WorkflowConverges
    <2>4. CASE s \notin converged'
        <3>1. s \notin converged /\ sample_pass_used'[s] = -1
            BY <1>2, <2>1, <2>4, PassEndEffect
        <3>2. sample_pass_used[s] = -1
            BY <2>1, <3>1, StageFacts
        <3> QED
            BY <1>2, <2>1, <3>1, <3>2, WorkflowStays DEF StageOf
    <2> QED
        BY <2>2, <2>3, <2>4
<1>3. CASE EmptyChunkAction
    <2>1. loop # "ended" /\ loop' # "ended"
        BY <1>3, SMT DEF EmptyChunkAction
    <2> QED
        BY <1>2, <1>3, <2>1, EmptyChunkActionEnds DEF WorkInv
<1>4. CASE ChunkUpdate
    <2>1. loop # "ended" /\ loop' # "ended"
        BY <1>4, SMT DEF ChunkUpdate, Record
    <2>2. CASE Active(chunk_step + 1) = {}
        BY <1>2, <1>4, <2>1, <2>2, ChunkUpdateEnds DEF WorkInv
    <2>3. CASE Active(chunk_step + 1) # {}
        <3>1. UNCHANGED <<global_memory, sample_pass_used>>
            BY <1>4, <2>3 DEF ChunkUpdate
        <3> QED
            BY <2>1, <3>1, WorkflowStays DEF StageOf
    <2> QED
        BY <2>2, <2>3
<1>5. CASE MergeUpdate
    <2>1. /\ loop # "ended" /\ loop' # "ended" /\ phase = "merge"
          /\ converged' = converged /\ pass_num' = pass_num + 1 /\ pass_num < MaxPasses
          /\ phase' \in {"final", "chunk"}
        BY <1>5, SMT DEF MergeUpdate, NextPass, Record, WorkInv, TypeInv
    <2>2. CASE s \in converged
        <3>1. /\ global_memory'[s] = global_memory[s]
              /\ sample_pass_used[s] = Len(global_memory[s]) + 1
              /\ sample_pass_used'[s] = Len(global_memory'[s]) + 1
            BY <1>5, <2>1, <2>2, MergeEffect DEF WorkInv, MemoryInv
        <3> QED
            BY <2>1, <3>1, WorkflowStays DEF StageOf
    <2>3. CASE s \notin converged
        <3>1. /\ Len(global_memory[s]) = pass_num /\ pass_num \in Nat
              /\ global_memory'[s] = Append(global_memory[s], Evidence(s))
              /\ Len(global_memory'[s]) = pass_num + 1
            BY <1>5, <2>3, MergeEffect, StageFacts
        <3>2. Evidence(s) \in (SUBSET (0 .. MaxChunks - 1)) \ {{}}
            BY <2>1, <2>3, EvidenceType DEF WorkInv, MemoryInv
        <3>3. StageOf(s) = "reading"
            BY <2>1, <2>3, StageFacts
        <3>4. sample_pass_used'[s] = IF phase' = "final" THEN pass_num + 1 ELSE -1
            BY <2>1, <2>3 DEF WorkInv, MemoryInv
        <3>5. CASE phase' = "final"
            <4>1. pass_num + 1 = MaxPasses
                BY <2>1, <2>3, <3>5 DEF WorkInv, PhaseInv
            <4>2. sample_pass_used'[s] = MaxPasses /\ StageOf(s)' = "answering"
                BY <2>1, <3>1, <3>4, <3>5, <4>1, SMT DEF StageOf
            <4> QED
                BY <2>1, <3>1, <3>2, <3>3, <4>1, <4>2, WorkflowAbsorbs
        <3>6. CASE phase' = "chunk"
            <4>1. pass_num + 1 < MaxPasses
                BY <2>1, <3>6 DEF WorkInv, TypeInv
            <4>2. sample_pass_used'[s] = -1 /\ StageOf(s)' = "reading"
                BY <2>1, <3>1, <3>4, <3>6, SMT DEF StageOf
            <4> QED
                BY <2>1, <3>1, <3>2, <3>3, <4>1, <4>2, WorkflowAbsorbs
        <3> QED
            BY <2>1, <3>5, <3>6
    <2> QED
        BY <2>2, <2>3
<1>6. CASE FinalUpdate
    <2>1. /\ loop = "update" /\ loop' = "ended" /\ phase = "final"
          /\ UNCHANGED <<global_memory, phase, pass_num, converged>>
        BY <1>6 DEF FinalUpdate
    <2>2. StageOf(s) = "answering"
        BY <2>1, StageFacts
    <2>3. StageOf(s)' = "answered"
        BY <2>1 DEF StageOf
    <2>4. sample_pass_used'[s] = sample_pass_used[s]
        BY <2>1 DEF WorkInv, MemoryInv
    <2> QED
        BY <2>1, <2>2, <2>3, <2>4, WorkflowAnswers
<1> QED
    BY <1>1, <1>3, <1>4, <1>5, <1>6 DEF Next

LEMMA WorkflowStep ==
    ASSUME WorkInv, WorkInv', Next
    PROVE  Workflow!Next
<1>1. global_memory' \in [Samples -> Workflow!Memories]
    BY DEF WorkInv, TypeInv, TypeOK, Memories, Workflow!Memories
<1>2. [s \in Samples |-> StageOf(s)'] \in [Samples -> Workflow!Stages]
    BY DEF StageOf, Workflow!Stages
<1>3. sample_pass_used' \in [Samples -> Int]
    BY MaxPassesAssumption, SMT DEF WorkInv, TypeInv, TypeOK
<1> QED
    BY <1>1, <1>2, <1>3, SampleStep DEF Workflow!Next, StageOf

(* The batch agent implements the workflow: every question is read in       *)
(* passes that absorb their evidence or end the reading, and is answered    *)
(* once, whatever the other questions of its batch do.                      *)
THEOREM AgentImplementsWorkflow == Spec => ImplementsWorkflow
<1>1. ASSUME WorkInv, WorkInv', [Next]_vars
      PROVE  [Workflow!Next]_Workflow!vars
    <2>1. CASE Next
        BY <1>1, <2>1, WorkflowStep
    <2>2. CASE UNCHANGED vars
        BY <2>2 DEF vars, Workflow!vars
    <2> QED
        BY <1>1, <2>1, <2>2
<1> QED
    BY <1>1, WorkflowInit, WorkInvHolds, PTL DEF Spec, ImplementsWorkflow, Workflow!Spec

(* It does so keeping converged samples out of every later pass.            *)
THEOREM AgentKeepsWorkflow == Spec => WorkflowIsKept
BY AgentImplementsWorkflow, ConvergedSamplesStayOut, PTL DEF WorkflowIsKept

-----------------------------------------------------------------------------
(* The asynchronous agent, from the theorems about it                      *)

WindowsP == INSTANCE AsyncMemoryAgentProofs WITH
    Samples <- {"i1"}, MaxChunks <- 3, Parallelism <- 2, MaxPasses <- 3,
    nchunks <- a_nchunks, at <- a_at, final_pass_used <- a_final_pass_used, window <- a_window,
    pending <- a_pending, replies <- a_replies, shown <- a_shown,
    global_memory <- a_global_memory, conversations <- a_conversations, batch <- a_batch

LEMMA WindowsAssumptions == WindowsP!Assumptions
BY DEF WindowsP!Assumptions, WindowsP!MaxChunksAssumption, WindowsP!ParallelismAssumption,
    WindowsP!MaxPassesAssumption

(* The module of the proofs has its own copy of the agent; its operators   *)
(* and its steps are those of the instance.                                *)
LEMMA WindowsOperators ==
    /\ \A a, b : WindowsP!Least(a, b) = Windows!Least(a, b)
    /\ \A s : WindowsP!Width(s) = Windows!Width(s) /\ WindowsP!LastWindow(s) = Windows!LastWindow(s)
    /\ \A s, start : WindowsP!Window(s, start) = Windows!Window(s, start)
    /\ \A s : WindowsP!News(s) = Windows!News(s) /\ WindowsP!Failed(s) = Windows!Failed(s)
    /\ \A s, kind, chunk, news : WindowsP!Turn(s, kind, chunk, news) = Windows!Turn(s, kind, chunk, news)
    /\ \A s : WindowsP!ChunkTurns(s) = Windows!ChunkTurns(s)
    /\ \A s, kind : WindowsP!TurnsOf(s, kind) = Windows!TurnsOf(s, kind)
<1>1. \A a, b : WindowsP!Least(a, b) = Windows!Least(a, b)
    BY Zenon DEF Windows!Least, WindowsP!Least
<1>2. \A s : WindowsP!Width(s) = Windows!Width(s)
    BY Zenon DEF Windows!Width, WindowsP!Width
<1>3. \A s : WindowsP!LastWindow(s) = Windows!LastWindow(s)
    BY <1>2, Zenon DEF Windows!LastWindow, WindowsP!LastWindow
<1>4. \A s, start : WindowsP!Window(s, start) = Windows!Window(s, start)
    BY <1>1, <1>2, Zenon DEF Windows!Window, WindowsP!Window
<1>5. \A s : WindowsP!News(s) = Windows!News(s) /\ WindowsP!Failed(s) = Windows!Failed(s)
    BY Zenon DEF Windows!News, WindowsP!News, Windows!Failed, WindowsP!Failed
<1>6. \A s, kind, chunk, news : WindowsP!Turn(s, kind, chunk, news) = Windows!Turn(s, kind, chunk, news)
    BY Zenon DEF Windows!Turn, WindowsP!Turn
<1>7. \A s : WindowsP!ChunkTurns(s) = Windows!ChunkTurns(s)
    BY Zenon DEF Windows!ChunkTurns, WindowsP!ChunkTurns, Windows!Turn, WindowsP!Turn
<1>8. \A s, kind : WindowsP!TurnsOf(s, kind) = Windows!TurnsOf(s, kind)
    BY Zenon DEF Windows!TurnsOf, WindowsP!TurnsOf
<1> QED BY <1>1, <1>2, <1>3, <1>4, <1>5, <1>6, <1>7, <1>8

LEMMA WindowsSteps ==
    /\ Windows!Init => WindowsP!Init
    /\ Windows!Next => WindowsP!Next
    /\ UNCHANGED Windows!vars => UNCHANGED WindowsP!vars
<1>1. Windows!Init => WindowsP!Init
    BY WindowsOperators, Zenon DEF Windows!Init, WindowsP!Init
<1>2. ASSUME NEW s PROVE Windows!ChunkReply(s) => WindowsP!ChunkReply(s)
    BY Zenon DEF Windows!ChunkReply, WindowsP!ChunkReply, Windows!Replies, WindowsP!Replies
<1>3. ASSUME NEW s PROVE Windows!NextWindow(s) => WindowsP!NextWindow(s)
    BY WindowsOperators, Zenon DEF Windows!NextWindow, WindowsP!NextWindow
<1>4. ASSUME NEW s, NEW stage, NEW text, NEW ts
      PROVE Windows!Await(s, stage, text, ts) => WindowsP!Await(s, stage, text, ts)
    BY Zenon DEF Windows!Await, WindowsP!Await
<1>5. ASSUME NEW s PROVE Windows!Proceed(s) => WindowsP!Proceed(s)
    BY <1>4, WindowsOperators, Zenon DEF Windows!Proceed, WindowsP!Proceed
<1>6. Windows!Raise => WindowsP!Raise
    BY Zenon DEF Windows!Raise, WindowsP!Raise
<1>7. ASSUME NEW s PROVE Windows!PassDone(s) => WindowsP!PassDone(s)
    BY <1>5, <1>6, WindowsOperators, Zenon DEF Windows!PassDone, WindowsP!PassDone, Windows!Examine,
        WindowsP!Examine
<1>8. ASSUME NEW s PROVE Windows!MergeReply(s) => WindowsP!MergeReply(s)
    <2>1. Windows!MorePasses(s) <=> WindowsP!MorePasses(s)
        BY Zenon DEF Windows!MorePasses, WindowsP!MorePasses
    <2> QED BY <1>4, <2>1, WindowsOperators, Zenon DEF Windows!MergeReply, WindowsP!MergeReply
<1>9. ASSUME NEW s PROVE Windows!FinalReply(s) => WindowsP!FinalReply(s)
    BY <1>4, WindowsOperators, Zenon DEF Windows!FinalReply, WindowsP!FinalReply
<1>10. ASSUME NEW s PROVE Windows!LateError(s) => WindowsP!LateError(s)
    BY <1>6, Zenon DEF Windows!LateError, WindowsP!LateError
<1>11. Windows!Gather => WindowsP!Gather
    BY Zenon DEF Windows!Gather, WindowsP!Gather
<1>12. ASSUME NEW s PROVE Windows!Coroutine(s) => WindowsP!Coroutine(s)
    BY <1>2, <1>3, <1>7, <1>8, <1>9, <1>10, Zenon DEF Windows!Coroutine, WindowsP!Coroutine
<1>13. UNCHANGED Windows!vars => UNCHANGED WindowsP!vars
    BY Zenon DEF Windows!vars, WindowsP!vars
<1> QED BY <1>1, <1>11, <1>12, <1>13, Zenon DEF Windows!Next, WindowsP!Next

(* What the invariant of AsyncMemoryAgentProofs promises.                   *)
LEMMA WindowsTypes == WindowsP!IInv => Windows!TypeOK
BY Zenon DEF WindowsP!IInv, WindowsP!TypeInv, Windows!TypeOK, WindowsP!TypeOK, Windows!Replies,
    WindowsP!Replies, Windows!Memories, WindowsP!Memories

LEMMA WindowsPromises ==
    WindowsP!IInv => Windows!WindowsPartitionThePass /\ Windows!ConversationsAreInOrder
        /\ Windows!MergeCarriesTheEvidence
<1> SUFFICES ASSUME WindowsP!IInv
             PROVE  Windows!WindowsPartitionThePass /\ Windows!ConversationsAreInOrder
                    /\ Windows!MergeCarriesTheEvidence
    OBVIOUS
<1>1. Windows!WindowsPartitionThePass
    BY WindowsOperators, Zenon DEF WindowsP!IInv, WindowsP!ItemInv, WindowsP!Windowed,
        Windows!WindowsPartitionThePass
<1>2. Windows!ConversationsAreInOrder
    BY Zenon DEF WindowsP!IInv, WindowsP!ItemInv, WindowsP!Ordered, WindowsP!InOrder,
        Windows!ConversationsAreInOrder
<1>3. Windows!MergeCarriesTheEvidence
    <2>1. WindowsP!MergeCarriesTheEvidence
        BY WindowsP!EvidenceIsMerged
    <2> QED BY <2>1, Zenon DEF Windows!MergeCarriesTheEvidence, WindowsP!MergeCarriesTheEvidence,
        Windows!TurnsOf, WindowsP!TurnsOf
<1> QED BY <1>1, <1>2, <1>3

BatchP == INSTANCE AsyncMemoryAgentProofs WITH
    Samples <- {"i1", "i2"}, MaxChunks <- 2, Parallelism <- 0, MaxPasses <- 2,
    nchunks <- a_nchunks, at <- a_at, final_pass_used <- a_final_pass_used, window <- a_window,
    pending <- a_pending, replies <- a_replies, shown <- a_shown,
    global_memory <- a_global_memory, conversations <- a_conversations, batch <- a_batch

LEMMA BatchAssumptions == BatchP!Assumptions
BY DEF BatchP!Assumptions, BatchP!MaxChunksAssumption, BatchP!ParallelismAssumption,
    BatchP!MaxPassesAssumption

(* The same for the batch of two items.                                    *)
LEMMA BatchOperators ==
    /\ \A a, b : BatchP!Least(a, b) = Batch!Least(a, b)
    /\ \A s : BatchP!Width(s) = Batch!Width(s) /\ BatchP!LastWindow(s) = Batch!LastWindow(s)
    /\ \A s, start : BatchP!Window(s, start) = Batch!Window(s, start)
    /\ \A s : BatchP!News(s) = Batch!News(s) /\ BatchP!Failed(s) = Batch!Failed(s)
    /\ \A s, kind, chunk, news : BatchP!Turn(s, kind, chunk, news) = Batch!Turn(s, kind, chunk, news)
    /\ \A s : BatchP!ChunkTurns(s) = Batch!ChunkTurns(s)
    /\ \A s, kind : BatchP!TurnsOf(s, kind) = Batch!TurnsOf(s, kind)
<1>1. \A a, b : BatchP!Least(a, b) = Batch!Least(a, b)
    BY Zenon DEF Batch!Least, BatchP!Least
<1>2. \A s : BatchP!Width(s) = Batch!Width(s)
    BY Zenon DEF Batch!Width, BatchP!Width
<1>3. \A s : BatchP!LastWindow(s) = Batch!LastWindow(s)
    BY <1>2, Zenon DEF Batch!LastWindow, BatchP!LastWindow
<1>4. \A s, start : BatchP!Window(s, start) = Batch!Window(s, start)
    BY <1>1, <1>2, Zenon DEF Batch!Window, BatchP!Window
<1>5. \A s : BatchP!News(s) = Batch!News(s) /\ BatchP!Failed(s) = Batch!Failed(s)
    BY Zenon DEF Batch!News, BatchP!News, Batch!Failed, BatchP!Failed
<1>6. \A s, kind, chunk, news : BatchP!Turn(s, kind, chunk, news) = Batch!Turn(s, kind, chunk, news)
    BY Zenon DEF Batch!Turn, BatchP!Turn
<1>7. \A s : BatchP!ChunkTurns(s) = Batch!ChunkTurns(s)
    BY Zenon DEF Batch!ChunkTurns, BatchP!ChunkTurns, Batch!Turn, BatchP!Turn
<1>8. \A s, kind : BatchP!TurnsOf(s, kind) = Batch!TurnsOf(s, kind)
    BY Zenon DEF Batch!TurnsOf, BatchP!TurnsOf
<1> QED BY <1>1, <1>2, <1>3, <1>4, <1>5, <1>6, <1>7, <1>8

LEMMA BatchSteps ==
    /\ Batch!Init => BatchP!Init
    /\ Batch!Next => BatchP!Next
    /\ UNCHANGED Batch!vars => UNCHANGED BatchP!vars
<1>1. Batch!Init => BatchP!Init
    BY BatchOperators, Zenon DEF Batch!Init, BatchP!Init
<1>2. ASSUME NEW s PROVE Batch!ChunkReply(s) => BatchP!ChunkReply(s)
    BY Zenon DEF Batch!ChunkReply, BatchP!ChunkReply, Batch!Replies, BatchP!Replies
<1>3. ASSUME NEW s PROVE Batch!NextWindow(s) => BatchP!NextWindow(s)
    BY BatchOperators, Zenon DEF Batch!NextWindow, BatchP!NextWindow
<1>4. ASSUME NEW s, NEW stage, NEW text, NEW ts
      PROVE Batch!Await(s, stage, text, ts) => BatchP!Await(s, stage, text, ts)
    BY Zenon DEF Batch!Await, BatchP!Await
<1>5. ASSUME NEW s PROVE Batch!Proceed(s) => BatchP!Proceed(s)
    BY <1>4, BatchOperators, Zenon DEF Batch!Proceed, BatchP!Proceed
<1>6. Batch!Raise => BatchP!Raise
    BY Zenon DEF Batch!Raise, BatchP!Raise
<1>7. ASSUME NEW s PROVE Batch!PassDone(s) => BatchP!PassDone(s)
    BY <1>5, <1>6, BatchOperators, Zenon DEF Batch!PassDone, BatchP!PassDone, Batch!Examine,
        BatchP!Examine
<1>8. ASSUME NEW s PROVE Batch!MergeReply(s) => BatchP!MergeReply(s)
    <2>1. Batch!MorePasses(s) <=> BatchP!MorePasses(s)
        BY Zenon DEF Batch!MorePasses, BatchP!MorePasses
    <2> QED BY <1>4, <2>1, BatchOperators, Zenon DEF Batch!MergeReply, BatchP!MergeReply
<1>9. ASSUME NEW s PROVE Batch!FinalReply(s) => BatchP!FinalReply(s)
    BY <1>4, BatchOperators, Zenon DEF Batch!FinalReply, BatchP!FinalReply
<1>10. ASSUME NEW s PROVE Batch!LateError(s) => BatchP!LateError(s)
    BY <1>6, Zenon DEF Batch!LateError, BatchP!LateError
<1>11. Batch!Gather => BatchP!Gather
    BY Zenon DEF Batch!Gather, BatchP!Gather
<1>12. ASSUME NEW s PROVE Batch!Coroutine(s) => BatchP!Coroutine(s)
    BY <1>2, <1>3, <1>7, <1>8, <1>9, <1>10, Zenon DEF Batch!Coroutine, BatchP!Coroutine
<1>13. UNCHANGED Batch!vars => UNCHANGED BatchP!vars
    BY Zenon DEF Batch!vars, BatchP!vars
<1> QED BY <1>1, <1>11, <1>12, <1>13, Zenon DEF Batch!Next, BatchP!Next

(* What the invariant of AsyncMemoryAgentProofs promises.                   *)
LEMMA BatchTypes == BatchP!IInv => Batch!TypeOK
BY Zenon DEF BatchP!IInv, BatchP!TypeInv, Batch!TypeOK, BatchP!TypeOK, Batch!Replies,
    BatchP!Replies, Batch!Memories, BatchP!Memories

LEMMA BatchPromises == BatchP!IInv => Batch!ReturnedBatchIsComplete
<1>1. BatchP!IInv => BatchP!ReturnedBatchIsComplete
    BY BatchAssumptions, BatchP!BatchIsComplete
<1>2. \A S : BatchP!Cardinality(S) = Batch!Cardinality(S)
    BY Zenon DEF Batch!Cardinality, BatchP!Cardinality, Batch!IsFiniteSet, BatchP!IsFiniteSet
<1> QED BY <1>1, <1>2, BatchOperators, Zenon DEF Batch!ReturnedBatchIsComplete,
    BatchP!ReturnedBatchIsComplete

LEMMA BatchFollows ==
    /\ Batch!Init => Batch!Workflow!Init
    /\ BatchP!IInv /\ BatchP!IInv' /\ Batch!Next => Batch!Workflow!Next
<1>1. BatchP!Workflow!Init => Batch!Workflow!Init
    BY Zenon DEF Batch!Workflow!Init, BatchP!Workflow!Init
<1>2. BatchP!Workflow!Next => Batch!Workflow!Next
    BY Zenon DEF Batch!Workflow!Next, BatchP!Workflow!Next, Batch!Workflow!Memories,
        BatchP!Workflow!Memories,
       Batch!Workflow!Stages, BatchP!Workflow!Stages, Batch!Workflow!Absorb, BatchP!Workflow!Absorb,
       Batch!Workflow!Converge, BatchP!Workflow!Converge, Batch!Workflow!Answer,
           BatchP!Workflow!Answer,
       Batch!Workflow!Stay, BatchP!Workflow!Stay
<1>3. ASSUME BatchP!IInv, BatchP!IInv', BatchP!Next
      PROVE  BatchP!Workflow!Next
    BY <1>3, BatchAssumptions, BatchP!WorkflowStep
<1>4. Batch!Init => BatchP!Workflow!Init
    BY BatchSteps, BatchP!WorkflowInit
<1> QED BY <1>1, <1>2, <1>3, <1>4, BatchSteps

-----------------------------------------------------------------------------
(* The evaluation client, for every bound on chunks and passes             *)

(* The instance speaks of the finite sets of the standard module.           *)
LEMMA b_FiniteSets ==
    ASSUME NEW c, NEW S
    PROVE  Client(c)!Cardinality(S) = Cardinality(S)
BY Zenon DEF Client!Cardinality, Cardinality, Client!IsFiniteSet, IsFiniteSet

b_Assumptions(c) == Client(c)!MaxChunksAssumption /\ Client(c)!MaxPassesAssumption
    /\ Client(c)!FaultyAssumption

LEMMA b_ConstantTypes ==
    ASSUME NEW c, b_Assumptions(c)
    PROVE  /\ c.chunks \in Nat /\ c.passes \in Nat /\ c.passes >= 1
           /\ c.faulty \in BOOLEAN
BY SMT DEF b_Assumptions, Client!MaxChunksAssumption, Client!MaxPassesAssumption,
    Client!FaultyAssumption

b_Outcomes == {"asked", "converged", "kept", "blank", "failed"}
b_Records(c) == [replies : [Client(c)!Chunks -> Client(c)!Replies], outcome : b_Outcomes]

(* The passes ps that left notes in the memory: their merge came back and  *)
(* no later merge came back blank. The memory g is their notes in order.   *)
b_BlankIn(ps, p) == \E q \in p .. Len(ps) : ps[q].outcome = "blank"
b_SafeIn(c, ps) ==
    {p \in 1 .. Len(ps) :
        ps[p].outcome = "kept" /\ ~b_BlankIn(ps, p) /\ Client(c)!Notes(ps[p].replies) # {}}
b_Rank(S, p) == Cardinality({q \in S : q <= p})

b_Lineage(c, g, ps) ==
    /\ Len(g) = Cardinality(b_SafeIn(c, ps))
    /\ \A p \in b_SafeIn(c, ps) : g[b_Rank(b_SafeIn(c, ps), p)] = Client(c)!Notes(ps[p].replies)

(* Only the last pass may wait for its merge; only the last pass may have  *)
(* converged, and then the record says so. Until then fewer passes than    *)
(* allowed are through, and the merge is asked with the memory and the     *)
(* notes of its pass.                                                      *)
b_Asked(ps, st) == \A p \in 1 .. Len(ps) : ps[p].outcome = "asked" <=> st = "merging" /\ p = Len(ps)
b_Ended(c, ps, st, used, conv) ==
    /\ used = Len(ps)
    /\ \A p \in 1 .. Len(ps) : (ps[p].outcome = "converged") <=> (conv /\ p = Len(ps))
    /\ conv \/ used = c.passes
b_Under(c, ps, conv, n) ==
    /\ ~conv /\ n < c.passes
    /\ \A p \in 1 .. Len(ps) : ps[p].outcome # "converged"
b_Reading(c, ps, used, conv, n) == b_Under(c, ps, conv, n) /\ n = Len(ps) /\ used = n + 1
b_Merging(c, ps, used, conv, n, g, m) ==
    /\ b_Under(c, ps, conv, n) /\ n + 1 = Len(ps) /\ used = n + 1
    /\ m = Client(c)!BuildMergeMemories(g, Client(c)!Notes(ps[Len(ps)].replies))

b_IInv(c) ==
    /\ Client(c)!TypeOK
    /\ b_Lineage(c, b_global_memory, b_passes)
    /\ b_Asked(b_passes, b_stage)
    /\ b_stage = "reading" => b_Reading(c, b_passes, b_passes_used, b_converged, b_pass_num)
    /\ b_stage = "merging"
         => b_Merging(c, b_passes, b_passes_used, b_converged, b_pass_num, b_global_memory, b_merge_memories)
    /\ b_stage \in {"answering", "done"}
         => b_Ended(c, b_passes, b_stage, b_passes_used, b_converged)

LEMMA b_SafeFacts ==
    ASSUME NEW c, NEW ps, Len(ps) \in Nat
    PROVE  /\ b_SafeIn(c, ps) \subseteq 1 .. Len(ps)
           /\ IsFiniteSet(b_SafeIn(c, ps)) /\ Cardinality(b_SafeIn(c, ps)) \in Nat
<1>1. b_SafeIn(c, ps) \subseteq 1 .. Len(ps)
    BY DEF b_SafeIn
<1>2. IsFiniteSet(1 .. Len(ps))
    BY FS_Interval
<1> QED BY <1>1, <1>2, FS_Subset, FS_CardinalityType

LEMMA b_LineageKept ==
    ASSUME NEW c, NEW g, NEW ps, NEW ps2, b_Lineage(c, g, ps), b_SafeIn(c, ps2) = b_SafeIn(c, ps),
           \A p \in b_SafeIn(c, ps) : ps2[p].replies = ps[p].replies
    PROVE  b_Lineage(c, g, ps2)
BY DEF b_Lineage

LEMMA b_RankGrows ==
    ASSUME NEW S \in SUBSET Nat, IsFiniteSet(S), NEW m \in Nat, \A q \in S : q < m
    PROVE  /\ Cardinality(S \cup {m}) = Cardinality(S) + 1
           /\ b_Rank(S \cup {m}, m) = Cardinality(S) + 1
           /\ \A p \in S : /\ b_Rank(S \cup {m}, p) = b_Rank(S, p)
                           /\ b_Rank(S, p) \in 1 .. Cardinality(S)
<1>1. m \notin S
    BY SMT
<1>2. Cardinality(S \cup {m}) = Cardinality(S) + 1
    BY <1>1, FS_AddElement
<1>3. {q \in S \cup {m} : q <= m} = S \cup {m}
    <2>1. \A q \in S \cup {m} : q <= m
        BY SMT
    <2> QED BY <2>1, Zenon
<1>4. ASSUME NEW p \in S
      PROVE  /\ b_Rank(S \cup {m}, p) = b_Rank(S, p)
             /\ b_Rank(S, p) \in 1 .. Cardinality(S)
    <2>1. {q \in S \cup {m} : q <= p} = {q \in S : q <= p}
        BY SMT
    <2> DEFINE T == {q \in S : q <= p}
    <2>2. T \in SUBSET S /\ p \in T
        BY SMT
    <2> HIDE DEF T
    <2>3. IsFiniteSet(T) /\ Cardinality(T) <= Cardinality(S)
        BY <2>2, FS_Subset
    <2>4. Cardinality(T) \in Nat /\ Cardinality(S) \in Nat /\ Cardinality(T) # 0
        BY <2>2, <2>3, FS_CardinalityType, FS_EmptySet
    <2>5. Cardinality(T) \in 1 .. Cardinality(S)
        BY <2>3, <2>4, SMT
    <2> QED BY <2>1, <2>5 DEF b_Rank, T
<1> QED BY <1>2, <1>3, <1>4 DEF b_Rank

LEMMA b_LineageGrows ==
    ASSUME NEW c, NEW U, NEW g \in Seq(U), NEW ps, NEW ps2, NEW m \in Nat, b_Lineage(c, g, ps),
           Len(ps) \in Nat, \A q \in b_SafeIn(c, ps) : q < m,
           b_SafeIn(c, ps2) = b_SafeIn(c, ps) \cup {m},
           \A p \in b_SafeIn(c, ps) : ps2[p].replies = ps[p].replies,
           Client(c)!Notes(ps2[m].replies) \in U
    PROVE  b_Lineage(c, Append(g, Client(c)!Notes(ps2[m].replies)), ps2)
<1> DEFINE S == b_SafeIn(c, ps)
           x == Client(c)!Notes(ps2[m].replies)
           h == Append(g, x)
<1>1. S \in SUBSET Nat /\ IsFiniteSet(S) /\ \A q \in S : q < m
    BY b_SafeFacts, SMT
<1>2. /\ Len(g) = Cardinality(S) /\ b_SafeIn(c, ps2) = S \cup {m}
      /\ \A p \in S : g[b_Rank(S, p)] = Client(c)!Notes(ps[p].replies)
           /\ ps2[p].replies = ps[p].replies
    BY DEF b_Lineage
<1>3. Len(h) = Len(g) + 1 /\ h[Len(g) + 1] = x /\ \A i \in 1 .. Len(g) : h[i] = g[i]
    BY AppendProperties
<1> HIDE DEF S, h
<1>4. /\ Cardinality(S \cup {m}) = Cardinality(S) + 1
      /\ b_Rank(S \cup {m}, m) = Cardinality(S) + 1
      /\ \A p \in S : /\ b_Rank(S \cup {m}, p) = b_Rank(S, p)
                      /\ b_Rank(S, p) \in 1 .. Cardinality(S)
    BY <1>1, b_RankGrows
<1>5. \A p \in S \cup {m} : h[b_Rank(S \cup {m}, p)] = Client(c)!Notes(ps2[p].replies)
    BY <1>2, <1>3, <1>4
<1>6. Len(h) = Cardinality(S \cup {m})
    BY <1>2, <1>3, <1>4
<1>7. b_Lineage(c, h, ps2)
    BY <1>2, <1>5, <1>6 DEF b_Lineage
<1> QED BY <1>7 DEF h

(* ps2 is ps with one pass more, or with the outcome of its last merge.      *)
b_Continues(ps, ps2) ==
    /\ Len(ps) \in Nat /\ Len(ps2) \in Nat /\ Len(ps2) >= 1
    /\ Len(ps) = Len(ps2) - 1 \/ (Len(ps) = Len(ps2) /\ ps[Len(ps)].outcome = "asked")
    /\ \A p \in 1 .. Len(ps2) - 1 : ps2[p] = ps[p]

LEMMA b_BlankLater ==
    ASSUME NEW ps, NEW ps2, b_Continues(ps, ps2)
    PROVE  /\ ps2[Len(ps2)].outcome = "blank" => \A p \in 1 .. Len(ps2) : b_BlankIn(ps2, p)
           /\ ps2[Len(ps2)].outcome # "blank" =>
                  /\ ~b_BlankIn(ps2, Len(ps2))
                  /\ \A p \in 1 .. Len(ps2) - 1 : b_BlankIn(ps2, p) <=> b_BlankIn(ps, p)
<1> DEFINE n == Len(ps)
           m == Len(ps2)
<1>1. n \in Nat /\ m \in Nat /\ m >= 1 /\ \A p \in 1 .. m - 1 : ps2[p] = ps[p]
    BY DEF b_Continues
<1>2. n = m - 1 \/ (n = m /\ ps[n].outcome # "blank")
    BY DEF b_Continues
<1>3. /\ \A p : b_BlankIn(ps2, p) <=> \E q \in p .. m : ps2[q].outcome = "blank"
      /\ \A p : b_BlankIn(ps, p) <=> \E q \in p .. n : ps[q].outcome = "blank"
    BY DEF b_BlankIn
<1> HIDE DEF n, m
<1>4. ASSUME ps2[m].outcome = "blank", NEW p \in 1 .. m PROVE b_BlankIn(ps2, p)
    <2>1. m \in p .. m
        BY <1>1, <1>4, SMT
    <2> QED BY <1>3, <1>4, <2>1
<1>5. ASSUME ps2[m].outcome # "blank" PROVE ~b_BlankIn(ps2, m)
    <2>1. \A q \in m .. m : q = m
        BY <1>1, SMT
    <2> QED BY <1>3, <1>5, <2>1
<1>6. ASSUME ps2[m].outcome # "blank", NEW p \in 1 .. m - 1
      PROVE  b_BlankIn(ps2, p) <=> b_BlankIn(ps, p)
    <2>1. ASSUME b_BlankIn(ps2, p) PROVE b_BlankIn(ps, p)
        <3>1. PICK q \in p .. m : ps2[q].outcome = "blank"
            BY <1>3, <2>1
        <3>2. q \in p .. m /\ q # m
            BY <1>6, <3>1
        <3>3. q \in 1 .. m - 1 /\ q \in p .. n
            BY <1>1, <1>2, <1>6, <3>2, SMT
        <3> QED BY <1>1, <1>3, <3>1, <3>3
    <2>2. ASSUME b_BlankIn(ps, p) PROVE b_BlankIn(ps2, p)
        <3>1. PICK q \in p .. n : ps[q].outcome = "blank"
            BY <1>3, <2>2
        <3>2. n = m - 1 \/ (n = m /\ q # n)
            BY <1>2, <3>1
        <3>3. q \in 1 .. m - 1 /\ q \in p .. m
            BY <1>1, <1>6, <3>1, <3>2, SMT
        <3> QED BY <1>1, <1>3, <3>1, <3>3
    <2> QED BY <2>1, <2>2
<1> QED BY <1>4, <1>5, <1>6 DEF n, m

LEMMA b_SafeNext ==
    ASSUME NEW c, NEW ps, NEW ps2, b_Continues(ps, ps2)
    PROVE  /\ \A q \in b_SafeIn(c, ps) : q < Len(ps2) /\ ps2[q].replies = ps[q].replies
           /\ ps2[Len(ps2)].outcome = "blank" => b_SafeIn(c, ps2) = {}
           /\ ps2[Len(ps2)].outcome \notin {"kept", "blank"} => b_SafeIn(c, ps2) = b_SafeIn(c, ps)
           /\ ps2[Len(ps2)].outcome = "kept" =>
                  b_SafeIn(c, ps2) = IF Client(c)!Notes(ps2[Len(ps2)].replies) = {} THEN b_SafeIn(c, ps)
                                ELSE b_SafeIn(c, ps) \cup {Len(ps2)}
<1> DEFINE n == Len(ps)
           m == Len(ps2)
           Fits(s, p) == s[p].outcome = "kept" /\ ~b_BlankIn(s, p)
               /\ Client(c)!Notes(s[p].replies) # {}
<1>1. n \in Nat /\ m \in Nat /\ m >= 1 /\ \A p \in 1 .. m - 1 : ps2[p] = ps[p]
    BY DEF b_Continues
<1>2. n = m - 1 \/ (n = m /\ ps[n].outcome # "kept")
    BY DEF b_Continues
<1>3. b_SafeIn(c, ps) = {p \in 1 .. n : Fits(ps, p)}
    /\ b_SafeIn(c, ps2) = {p \in 1 .. m : Fits(ps2, p)}
    BY DEF b_SafeIn
<1>4. /\ ps2[m].outcome = "blank" => \A p \in 1 .. m : b_BlankIn(ps2, p)
      /\ ps2[m].outcome # "blank" =>
             /\ ~b_BlankIn(ps2, m)
             /\ \A p \in 1 .. m - 1 : b_BlankIn(ps2, p) <=> b_BlankIn(ps, p)
    BY b_BlankLater
<1>5. \A p \in 1 .. m - 1 : ps2[m].outcome # "blank" => (Fits(ps2, p) <=> Fits(ps, p))
    BY <1>1, <1>4
<1>6. ps2[m].outcome # "blank" =>
          (Fits(ps2, m) <=> ps2[m].outcome = "kept" /\ Client(c)!Notes(ps2[m].replies) # {})
    BY <1>4
<1>7. ps2[m].outcome = "blank" => \A p \in 1 .. m : ~Fits(ps2, p)
    BY <1>4
<1>8. n = m - 1 \/ (n = m /\ ~Fits(ps, n))
    BY <1>2
<1> HIDE DEF n, m, Fits
<1>9. b_SafeIn(c, ps) = {p \in 1 .. m - 1 : Fits(ps, p)}
    <2>1. ASSUME NEW p PROVE p \in 1 .. n /\ Fits(ps, p) <=> p \in 1 .. m - 1 /\ Fits(ps, p)
        <3>1. CASE n = m - 1
            BY <3>1
        <3>2. CASE n = m /\ ~Fits(ps, n)
            <4>1. p \in 1 .. n /\ p # n <=> p \in 1 .. m - 1
                BY <1>1, <3>2, SMT
            <4>2. p \in 1 .. m - 1 => p \in 1 .. n
                BY <1>1, <3>2, SMT
            <4> QED BY <3>2, <4>1, <4>2, Zenon
        <3> QED BY <1>8, <3>1, <3>2
    <2> QED BY <1>3, <2>1, Zenon
<1>10. \A p : p \in 1 .. m <=> p \in 1 .. m - 1 \/ p = m
    BY <1>1, SMT
<1>11. \A q \in b_SafeIn(c, ps) : q < m /\ ps2[q].replies = ps[q].replies
    <2>1. \A q \in 1 .. m - 1 : q < m
        BY <1>1, SMT
    <2> QED BY <1>1, <1>9, <2>1, Zenon
<1>12. ASSUME ps2[m].outcome # "blank"
       PROVE  b_SafeIn(c, ps2) = IF Fits(ps2, m) THEN b_SafeIn(c, ps) \cup {m} ELSE b_SafeIn(c, ps)
    <2>1. ASSUME NEW p
          PROVE  p \in b_SafeIn(c, ps2) <=> p \in b_SafeIn(c, ps) \/ (p = m /\ Fits(ps2, m))
        <3>1. p \in b_SafeIn(c, ps2) <=> p \in 1 .. m /\ Fits(ps2, p)
            BY <1>3
        <3>2. p \in b_SafeIn(c, ps) <=> p \in 1 .. m - 1 /\ Fits(ps, p)
            BY <1>9
        <3>3. p \in 1 .. m - 1 => (Fits(ps2, p) <=> Fits(ps, p))
            BY <1>5, <1>12
        <3>4. p \in 1 .. m <=> p \in 1 .. m - 1 \/ p = m
            BY <1>10
        <3>5. CASE p = m
            <4>1. p \notin 1 .. m - 1 /\ p \in 1 .. m
                BY <1>1, <3>5, SMT
            <4> QED BY <3>1, <3>2, <3>5, <4>1
        <3>6. CASE p # m
            <4>1. p \in 1 .. m <=> p \in 1 .. m - 1
                BY <3>4, <3>6
            <4>2. p \in b_SafeIn(c, ps2) <=> p \in b_SafeIn(c, ps)
                BY <3>1, <3>2, <3>3, <4>1, Zenon
            <4> QED BY <3>6, <4>2
        <3> QED BY <3>5, <3>6
    <2>2. CASE Fits(ps2, m)
        BY <2>1, <2>2
    <2>3. CASE ~Fits(ps2, m)
        <3>1. ASSUME NEW p PROVE p \in b_SafeIn(c, ps2) <=> p \in b_SafeIn(c, ps)
            <4>1. p \in b_SafeIn(c, ps2) <=> p \in b_SafeIn(c, ps) \/ (p = m /\ Fits(ps2, m))
                BY <2>1
            <4> QED BY <2>3, <4>1
        <3>2. b_SafeIn(c, ps2) = b_SafeIn(c, ps)
            BY <3>1, Zenon
        <3> QED BY <2>3, <3>2
    <2> QED BY <2>2, <2>3
<1>13. ps2[m].outcome = "blank" => b_SafeIn(c, ps2) = {}
    BY <1>3, <1>7, Zenon
<1> QED BY <1>6, <1>11, <1>12, <1>13 DEF m

(* What a merge or a pass does to the lineage.                              *)
LEMMA b_LineageNext ==
    ASSUME NEW c, NEW U, NEW g \in Seq(U), NEW ps, NEW ps2, b_Continues(ps, ps2),
           b_Lineage(c, g, ps),
           Client(c)!Notes(ps2[Len(ps2)].replies) \in U
    PROVE  /\ ps2[Len(ps2)].outcome = "blank" => b_Lineage(c, << >>, ps2)
           /\ ps2[Len(ps2)].outcome \notin {"kept", "blank"} => b_Lineage(c, g, ps2)
           /\ ps2[Len(ps2)].outcome = "kept" =>
                  b_Lineage(c, Client(c)!BuildMergeMemories(g, Client(c)!Notes(ps2[Len(ps2)].replies)), ps2)
<1>1. CASE ps2[Len(ps2)].outcome = "blank"
    BY <1>1, b_SafeNext, FS_EmptySet DEF b_Lineage
<1>2. CASE ps2[Len(ps2)].outcome \notin {"kept", "blank"}
    BY <1>2, b_SafeNext, b_LineageKept
<1>3. CASE ps2[Len(ps2)].outcome = "kept" /\ Client(c)!Notes(ps2[Len(ps2)].replies) = {}
    BY <1>3, b_SafeNext, b_LineageKept DEF Client!BuildMergeMemories
<1>4. CASE ps2[Len(ps2)].outcome = "kept" /\ Client(c)!Notes(ps2[Len(ps2)].replies) # {}
    <2>1. /\ b_SafeIn(c, ps2) = b_SafeIn(c, ps) \cup {Len(ps2)}
          /\ \A q \in b_SafeIn(c, ps) : q < Len(ps2) /\ ps2[q].replies = ps[q].replies
        BY <1>4, b_SafeNext
    <2>2. Len(ps) \in Nat /\ Len(ps2) \in Nat
        BY DEF b_Continues
    <2>3. b_Lineage(c, Append(g, Client(c)!Notes(ps2[Len(ps2)].replies)), ps2)
        BY <2>1, <2>2, b_LineageGrows
    <2> QED BY <1>4, <2>3 DEF Client!BuildMergeMemories
<1> QED BY <1>1, <1>2, <1>3, <1>4

LEMMA b_AppendContinues ==
    ASSUME NEW R, NEW ps \in Seq(R), NEW e \in R
    PROVE  /\ Append(ps, e) \in Seq(R) /\ b_Continues(ps, Append(ps, e))
           /\ Len(Append(ps, e)) = Len(ps) + 1 /\ Append(ps, e)[Len(ps) + 1] = e
           /\ \A p \in 1 .. Len(ps) : Append(ps, e)[p] = ps[p]
<1> DEFINE ps2 == Append(ps, e)
<1>1. /\ ps2 \in Seq(R) /\ Len(ps2) = Len(ps) + 1 /\ ps2[Len(ps) + 1] = e
      /\ \A p \in 1 .. Len(ps) : ps2[p] = ps[p]
    BY AppendProperties
<1>2. Len(ps) \in Nat
    BY LenProperties
<1> HIDE DEF ps2
<1>3. Len(ps2) \in Nat /\ Len(ps2) >= 1 /\ Len(ps) = Len(ps2) - 1
    BY <1>1, <1>2, SMT
<1>4. b_Continues(ps, ps2)
    BY <1>1, <1>2, <1>3 DEF b_Continues
<1> QED BY <1>1, <1>4 DEF ps2

b_Settled(c, ps, ps2, r) ==
    /\ ps2 \in Seq(b_Records(c)) /\ b_Continues(ps, ps2) /\ Len(ps2) = Len(ps)
    /\ ps2[Len(ps)].outcome = r /\ ps2[Len(ps)].replies = ps[Len(ps)].replies
    /\ \A p \in 1 .. Len(ps) - 1 : ps2[p] = ps[p]

LEMMA b_OutcomeContinues ==
    ASSUME NEW c, NEW ps \in Seq(b_Records(c)), Len(ps) >= 1, ps[Len(ps)].outcome = "asked",
           NEW r \in b_Outcomes, NEW ps2, ps2 = [ps EXCEPT ![Len(ps)].outcome = r]
    PROVE  b_Settled(c, ps, ps2, r)
<1> DEFINE n == Len(ps)
<1>1. n \in Nat /\ n >= 1 /\ DOMAIN ps = 1 .. n /\ \A p \in 1 .. n : ps[p] \in b_Records(c)
    BY LenProperties, ElementOfSeq
<1>2. n \in 1 .. n /\ \A p \in 1 .. n - 1 : p \in 1 .. n /\ p # n
    BY <1>1, SMT
<1>3. ps2 = [p \in 1 .. n |-> IF p = n THEN [ps[n] EXCEPT !.outcome = r] ELSE ps[p]]
    BY <1>1
<1>4. [ps[n] EXCEPT !.outcome = r] \in b_Records(c)
    BY <1>1, <1>2 DEF b_Records
<1>5. /\ [ps[n] EXCEPT !.outcome = r].outcome = r
      /\ [ps[n] EXCEPT !.outcome = r].replies = ps[n].replies
    BY <1>1, <1>2 DEF b_Records
<1>6. DOMAIN ps2 = 1 .. n /\ \A p \in 1 .. n : ps2[p] \in b_Records(c)
    BY <1>1, <1>3, <1>4
<1>7. ps2 \in [1 .. n -> b_Records(c)]
    BY <1>3, <1>6
<1>8. ps2 \in Seq(b_Records(c)) /\ Len(ps2) = n
    BY <1>1, <1>7, SeqDef, LenProperties
<1>9. ps2[n] = [ps[n] EXCEPT !.outcome = r] /\ \A p \in 1 .. n - 1 : ps2[p] = ps[p]
    BY <1>2, <1>3
<1>10. b_Continues(ps, ps2)
    BY <1>1, <1>8, <1>9 DEF b_Continues
<1> QED BY <1>5, <1>8, <1>9, <1>10 DEF b_Settled

LEMMA b_NotesType ==
    ASSUME NEW c, b_Assumptions(c), b_nchunks \in 0 .. c.chunks,
           NEW replies \in [Client(c)!Chunks -> Client(c)!Replies]
    PROVE  Client(c)!Notes(replies) \in SUBSET (0 .. c.chunks - 1)
<1>1. Client(c)!Chunks \subseteq 0 .. c.chunks - 1
    BY b_ConstantTypes, SMT DEF Client!Chunks
<1> QED BY <1>1 DEF Client!Notes

LEMMA b_BuildType ==
    ASSUME NEW c, NEW g \in Client(c)!Lineages, NEW n \in SUBSET (0 .. c.chunks - 1)
    PROVE  Client(c)!BuildMergeMemories(g, n) \in Client(c)!Lineages
BY AppendProperties DEF Client!BuildMergeMemories, Client!Lineages

LEMMA b_InitInv == ASSUME NEW c, b_Assumptions(c) PROVE Client(c)!Init => b_IInv(c)
<1> SUFFICES ASSUME Client(c)!Init PROVE b_IInv(c)
    OBVIOUS
<1>1. /\ << >> \in Client(c)!Lineages /\ << >> \in Seq(b_Records(c)) /\ Len(<< >>) = 0
      /\ \A p \in 1 .. 0 : FALSE
    BY SMT DEF Client!Lineages
<1>2. Client(c)!TypeOK
    <2>1. b_passes \in Seq(b_Records(c)) /\ b_global_memory \in Client(c)!Lineages
        /\ b_merge_memories \in Client(c)!Lineages
        BY <1>1 DEF Client!Init
    <2>2. b_pass_num \in 0 .. c.passes /\ b_passes_used \in 1 .. c.passes
        BY b_ConstantTypes, SMT DEF Client!Init
    <2> QED BY <2>1, <2>2, Zenon DEF Client!Init, Client!TypeOK, b_Records, b_Outcomes
<1>3. b_SafeIn(c, b_passes) = {}
    BY <1>1 DEF Client!Init, b_SafeIn
<1>4. b_Lineage(c, b_global_memory, b_passes)
    BY <1>1, <1>3, FS_EmptySet DEF b_Lineage, Client!Init
<1>5. b_Asked(b_passes, b_stage) /\ b_Reading(c, b_passes, b_passes_used, b_converged, b_pass_num)
    BY <1>1, b_ConstantTypes, SMT DEF b_Asked, b_Reading, b_Under, Client!Init
<1> QED BY <1>2, <1>4, <1>5 DEF b_IInv, Client!Init

(* The for loop goes on or is through.                                      *)
LEMMA b_EndPassInv ==
    ASSUME NEW c, b_Assumptions(c), b_pass_num \in Nat, b_pass_num < c.passes, Client(c)!EndPass,
           NEW ps2, NEW conv \in BOOLEAN,
           Len(ps2) = b_pass_num + 1, b_passes_used = b_pass_num + 1, ~conv,
           \A p \in 1 .. Len(ps2) : ps2[p].outcome \notin {"asked", "converged"}
    PROVE  /\ b_pass_num' \in 0 .. c.passes /\ b_passes_used' \in 1 .. c.passes
           /\ b_stage' \in {"reading", "answering"}
           /\ b_Asked(ps2, b_stage')
           /\ b_stage' = "reading" => b_Reading(c, ps2, b_passes_used', conv, b_pass_num')
           /\ b_stage' = "answering" => b_Ended(c, ps2, b_stage', b_passes_used', conv)
<1>1. b_Asked(ps2, b_stage')
    BY DEF b_Asked, Client!EndPass
<1>2. CASE b_pass_num + 1 < c.passes
    BY <1>1, <1>2, b_ConstantTypes, SMT DEF Client!EndPass, b_Reading, b_Under
<1>3. CASE ~(b_pass_num + 1 < c.passes)
    <2>1. b_pass_num + 1 = c.passes
        BY <1>3, b_ConstantTypes, SMT
    <2>2. b_stage' = "answering" /\ b_passes_used' = b_passes_used /\ b_pass_num' = b_pass_num + 1
        BY <1>3 DEF Client!EndPass
    <2> QED BY <1>1, <2>1, <2>2, b_ConstantTypes, SMT DEF b_Ended
<1> QED BY <1>2, <1>3

LEMMA b_RecordsNext ==
    ASSUME NEW c
    PROVE  b_nchunks' = b_nchunks => b_Records(c)' = b_Records(c)
           /\ Client(c)!Chunks' = Client(c)!Chunks
BY DEF b_Records, Client!Chunks

LEMMA b_PassStep ==
    ASSUME NEW c, b_Assumptions(c), b_IInv(c), b_stage = "reading", b_nchunks' = b_nchunks,
           b_variant' = b_variant,
           b_response' = b_response, NEW replies \in [Client(c)!Chunks -> Client(c)!Replies],
           Client(c)!Converge(replies) \/ Client(c)!Join(replies) \/ Client(c)!AskMerge(replies)
    PROVE  b_IInv(c)'
<1> DEFINE n == Len(b_passes)
<1>1. /\ b_passes \in Seq(b_Records(c)) /\ n \in Nat /\ b_global_memory \in Client(c)!Lineages
      /\ b_merge_memories \in Client(c)!Lineages /\ b_nchunks \in 0 .. c.chunks
      /\ Client(c)!Notes(replies) \in SUBSET (0 .. c.chunks - 1)
      /\ Client(c)!BuildMergeMemories(b_global_memory, Client(c)!Notes(replies)) \in Client(c)!Lineages
    BY b_NotesType, b_BuildType, LenProperties DEF b_IInv, Client!TypeOK, b_Records, b_Outcomes
<1>2. /\ ~b_converged /\ b_pass_num < c.passes /\ b_pass_num = n /\ b_passes_used = n + 1
      /\ \A p \in 1 .. n : b_passes[p].outcome \notin {"asked", "converged"}
    BY DEF b_IInv, b_Asked, b_Reading, b_Under
<1>3. ASSUME NEW o \in b_Outcomes, Client(c)!Remember(replies, o)
      PROVE  /\ b_passes' \in Seq(b_Records(c)) /\ b_Continues(b_passes, b_passes')
                  /\ Len(b_passes') = n + 1
             /\ b_passes'[n + 1] = [replies |-> replies, outcome |-> o]
             /\ \A p \in 1 .. n : b_passes'[p] = b_passes[p]
    <2>1. [replies |-> replies, outcome |-> o] \in b_Records(c)
        BY DEF b_Records
    <2> QED BY <1>1, <1>3, <2>1, b_AppendContinues DEF Client!Remember
<1> HIDE DEF n
<1>4. \A p : p \in 1 .. n + 1 <=> p \in 1 .. n \/ p = n + 1
    BY <1>1, SMT
<1>5. b_Lineage(c, b_global_memory, b_passes) /\ b_Records(c)' = b_Records(c)
    /\ Client(c)!Lineages = Seq(SUBSET (0 .. c.chunks - 1))
    BY b_RecordsNext DEF b_IInv, Client!Lineages
<1>6. b_variant \in Client(c)!Variants /\ b_response \in {"none", "answer", "empty"}
    /\ b_converged \in BOOLEAN
    BY DEF b_IInv, Client!TypeOK
<1>7. CASE Client(c)!Converge(replies)
    <2>1. /\ b_passes' \in Seq(b_Records(c)) /\ b_Continues(b_passes, b_passes')
               /\ Len(b_passes') = n + 1
          /\ b_passes'[n + 1] = [replies |-> replies, outcome |-> "converged"]
          /\ \A p \in 1 .. n : b_passes'[p] = b_passes[p]
        BY <1>3, <1>7 DEF Client!Converge, b_Outcomes
    <2>2. /\ b_stage' = "answering" /\ b_converged' = TRUE
          /\ UNCHANGED <<b_pass_num, b_passes_used, b_global_memory, b_merge_memories>>
        BY <1>7 DEF Client!Converge
    <2>3. b_Lineage(c, b_global_memory', b_passes')
        <3>1. /\ b_global_memory \in Seq(SUBSET (0 .. c.chunks - 1))
              /\ Client(c)!Notes(b_passes'[Len(b_passes')].replies) \in SUBSET (0 .. c.chunks - 1)
            BY <1>1, <1>5, <2>1
        <3> QED BY <1>5, <2>1, <2>2, <3>1, b_LineageNext
    <2>4. b_Asked(b_passes', b_stage')
        /\ b_Ended(c, b_passes', b_stage', b_passes_used', b_converged')
        <3>1. \A p \in 1 .. n + 1 : /\ b_passes'[p].outcome # "asked"
                                    /\ b_passes'[p].outcome = "converged" <=> p = n + 1
            <4>1. \A p \in 1 .. n : p # n + 1
                BY <1>1, SMT
            <4> QED BY <1>2, <1>4, <2>1, <4>1
        <3> QED BY <1>2, <2>1, <2>2, <3>1 DEF b_Asked, b_Ended
    <2>5. Client(c)!TypeOK'
        <3>1. b_pass_num' \in 0 .. c.passes /\ b_passes_used' \in 1 .. c.passes
            BY <2>2 DEF b_IInv, Client!TypeOK
        <3>2. b_passes' \in Seq(b_Records(c)')
            BY <1>5, <2>1
        <3> QED BY <1>1, <1>6, <2>2, <3>1, <3>2 DEF Client!TypeOK, b_Records, b_Outcomes
    <2> QED BY <2>2, <2>3, <2>4, <2>5 DEF b_IInv
<1>8. CASE Client(c)!Join(replies)
    <2>1. /\ b_passes' \in Seq(b_Records(c)) /\ b_Continues(b_passes, b_passes')
               /\ Len(b_passes') = n + 1
          /\ b_passes'[n + 1] = [replies |-> replies, outcome |-> "kept"]
          /\ \A p \in 1 .. n : b_passes'[p] = b_passes[p]
        BY <1>3, <1>8 DEF Client!Join, b_Outcomes
    <2>2. /\ b_global_memory' = Client(c)!BuildMergeMemories(b_global_memory, Client(c)!Notes(replies)) /\ Client(c)!EndPass
          /\ UNCHANGED <<b_converged, b_merge_memories>>
        BY <1>8 DEF Client!Join
    <2>3. b_Lineage(c, b_global_memory', b_passes')
        <3>1. /\ b_global_memory \in Seq(SUBSET (0 .. c.chunks - 1))
              /\ Client(c)!Notes(b_passes'[Len(b_passes')].replies) \in SUBSET (0 .. c.chunks - 1)
            BY <1>1, <1>5, <2>1
        <3>2. b_passes'[Len(b_passes')].outcome = "kept"
            /\ b_passes'[Len(b_passes')].replies = replies
            BY <2>1
        <3>3. b_Lineage(c, Client(c)!BuildMergeMemories(b_global_memory, Client(c)!Notes(b_passes'[Len(b_passes')].replies)), b_passes')
            BY <1>5, <2>1, <3>1, <3>2, b_LineageNext
        <3> QED BY <2>2, <3>2, <3>3
    <2>4. \A p \in 1 .. Len(b_passes') : b_passes'[p].outcome \notin {"asked", "converged"}
        BY <1>2, <1>4, <2>1
    <2>5. /\ b_pass_num' \in 0 .. c.passes /\ b_passes_used' \in 1 .. c.passes
          /\ b_stage' \in {"reading", "answering"}
          /\ b_Asked(b_passes', b_stage')
          /\ b_stage' = "reading"
               => b_Reading(c, b_passes', b_passes_used', b_converged, b_pass_num')
          /\ b_stage' = "answering" => b_Ended(c, b_passes', b_stage', b_passes_used', b_converged)
        BY <1>1, <1>2, <1>6, <2>1, <2>2, <2>4, b_EndPassInv
    <2>6. Client(c)!TypeOK'
        <3>1. b_passes' \in Seq(b_Records(c)')
            /\ b_stage' \in {"reading", "merging", "answering", "done"}
            BY <1>5, <2>1, <2>5
        <3> QED BY <1>1, <1>6, <2>2, <2>5, <3>1 DEF Client!TypeOK, b_Records, b_Outcomes
    <2> QED BY <2>2, <2>3, <2>5, <2>6 DEF b_IInv
<1>9. CASE Client(c)!AskMerge(replies)
    <2>1. /\ b_passes' \in Seq(b_Records(c)) /\ b_Continues(b_passes, b_passes')
               /\ Len(b_passes') = n + 1
          /\ b_passes'[n + 1] = [replies |-> replies, outcome |-> "asked"]
          /\ \A p \in 1 .. n : b_passes'[p] = b_passes[p]
        BY <1>3, <1>9 DEF Client!AskMerge, b_Outcomes
    <2>2. /\ b_merge_memories' = Client(c)!BuildMergeMemories(b_global_memory, Client(c)!Notes(replies)) /\ b_stage' = "merging"
          /\ UNCHANGED <<b_pass_num, b_passes_used, b_converged, b_global_memory>>
        BY <1>9 DEF Client!AskMerge
    <2>3. b_Lineage(c, b_global_memory', b_passes')
        <3>1. /\ b_global_memory \in Seq(SUBSET (0 .. c.chunks - 1))
              /\ Client(c)!Notes(b_passes'[Len(b_passes')].replies) \in SUBSET (0 .. c.chunks - 1)
            BY <1>1, <1>5, <2>1
        <3> QED BY <1>5, <2>1, <2>2, <3>1, b_LineageNext
    <2>4. \A p \in 1 .. n + 1 : /\ b_passes'[p].outcome # "converged"
                                /\ b_passes'[p].outcome = "asked" <=> p = n + 1
        <3>1. \A p \in 1 .. n : p # n + 1
            BY <1>1, SMT
        <3> QED BY <1>2, <1>4, <2>1, <3>1
    <2>5. /\ b_Asked(b_passes', b_stage')
          /\ b_Merging(c, b_passes', b_passes_used', b_converged', b_pass_num', b_global_memory', b_merge_memories')
        BY <1>2, <2>1, <2>2, <2>4 DEF b_Asked, b_Merging, b_Under
    <2>6. Client(c)!TypeOK'
        <3>1. b_passes' \in Seq(b_Records(c)') /\ b_pass_num' \in 0 .. c.passes
            /\ b_passes_used' \in 1 .. c.passes
            BY <1>5, <2>1, <2>2 DEF b_IInv, Client!TypeOK
        <3> QED BY <1>1, <1>6, <2>2, <3>1 DEF Client!TypeOK, b_Records, b_Outcomes
    <2> QED BY <2>2, <2>3, <2>5, <2>6 DEF b_IInv
<1> QED BY <1>7, <1>8, <1>9

LEMMA b_MergeStep == ASSUME NEW c, b_Assumptions(c), b_IInv(c), Client(c)!MergeReply
      PROVE b_IInv(c)'
<1> DEFINE n == Len(b_passes)
<1>1. PICK reply \in Client(c)!MergeReplies :
          /\ b_global_memory' = Client(c)!Merged(reply)
          /\ b_passes' = [b_passes EXCEPT ![Len(b_passes)].outcome = reply]
    BY DEF Client!MergeReply
<1>2. /\ b_passes \in Seq(b_Records(c)) /\ n \in Nat /\ b_global_memory \in Client(c)!Lineages
      /\ b_merge_memories \in Client(c)!Lineages /\ b_nchunks \in 0 .. c.chunks
           /\ b_stage = "merging" /\ Client(c)!EndPass
      /\ UNCHANGED <<b_variant, b_nchunks, b_converged, b_merge_memories, b_response>>
    BY LenProperties DEF b_IInv, Client!TypeOK, b_Records, b_Outcomes, Client!MergeReply
<1>3. /\ ~b_converged /\ b_pass_num < c.passes /\ b_pass_num + 1 = n
           /\ b_passes_used = b_pass_num + 1
      /\ b_merge_memories = Client(c)!BuildMergeMemories(b_global_memory, Client(c)!Notes(b_passes[n].replies))
      /\ \A p \in 1 .. n : /\ b_passes[p].outcome # "converged"
                           /\ b_passes[p].outcome = "asked" <=> p = n
    BY <1>2 DEF b_IInv, b_Asked, b_Merging, b_Under
<1>4. b_pass_num \in Nat /\ n >= 1 /\ n \in 1 .. n /\ \A p \in 1 .. n - 1 : p \in 1 .. n /\ p # n
    <2>1. b_pass_num \in Nat
        BY b_ConstantTypes, SMT DEF b_IInv, Client!TypeOK
    <2> QED BY <1>2, <1>3, <2>1, SMT
<1>5. reply \in b_Outcomes /\ reply \notin {"asked", "converged"}
    BY DEF b_Outcomes, Client!MergeReplies
<1>6. /\ b_passes' \in Seq(b_Records(c)) /\ b_Continues(b_passes, b_passes') /\ Len(b_passes') = n
      /\ b_passes'[n].outcome = reply /\ b_passes'[n].replies = b_passes[n].replies
      /\ \A p \in 1 .. n - 1 : b_passes'[p] = b_passes[p]
    <2>1. b_passes[n].outcome = "asked"
        BY <1>3, <1>4
    <2>2. b_passes' = [b_passes EXCEPT ![n].outcome = reply]
        BY <1>1
    <2>3. b_Settled(c, b_passes, b_passes', reply)
        BY <1>2, <1>4, <1>5, <2>1, <2>2, b_OutcomeContinues
    <2> QED BY <2>3 DEF b_Settled
<1>7. b_passes[n].replies \in [Client(c)!Chunks -> Client(c)!Replies]
    <2>1. b_passes[n] \in b_Records(c)
        BY <1>2, <1>4, ElementOfSeq
    <2> QED BY <2>1 DEF b_Records
<1>8. Client(c)!Notes(b_passes[n].replies) \in SUBSET (0 .. c.chunks - 1)
    BY <1>2, <1>7, b_NotesType
<1> HIDE DEF n
<1>9. b_Lineage(c, b_global_memory, b_passes) /\ b_Records(c)' = b_Records(c)
    /\ Client(c)!Lineages = Seq(SUBSET (0 .. c.chunks - 1))
    BY <1>2, b_RecordsNext DEF b_IInv, Client!Lineages
<1>10. b_Lineage(c, b_global_memory', b_passes')
    <2>1. /\ reply = "blank" => b_Lineage(c, << >>, b_passes')
          /\ reply \notin {"kept", "blank"} => b_Lineage(c, b_global_memory, b_passes')
          /\ reply = "kept" => b_Lineage(c, b_merge_memories, b_passes')
        BY <1>2, <1>3, <1>6, <1>8, <1>9, b_LineageNext
    <2> QED BY <1>1, <2>1 DEF Client!Merged
<1>11. \A p \in 1 .. Len(b_passes') : b_passes'[p].outcome \notin {"asked", "converged"}
    <2>1. \A p : p \in 1 .. n <=> p \in 1 .. n - 1 \/ p = n
        BY <1>2, <1>4, SMT
    <2> QED BY <1>3, <1>4, <1>5, <1>6, <2>1
<1>12. b_converged \in BOOLEAN
    BY DEF b_IInv, Client!TypeOK
<1>13. /\ b_pass_num' \in 0 .. c.passes /\ b_passes_used' \in 1 .. c.passes
       /\ b_stage' \in {"reading", "answering"}
       /\ b_Asked(b_passes', b_stage')
       /\ b_stage' = "reading" => b_Reading(c, b_passes', b_passes_used', b_converged, b_pass_num')
       /\ b_stage' = "answering" => b_Ended(c, b_passes', b_stage', b_passes_used', b_converged)
    BY <1>2, <1>3, <1>4, <1>6, <1>11, <1>12, b_EndPassInv
<1>14. Client(c)!TypeOK'
    <2>1. b_global_memory' \in Client(c)!Lineages
        BY <1>1, <1>2 DEF Client!Merged, Client!Lineages
    <2>2. b_passes' \in Seq(b_Records(c)')
        /\ b_stage' \in {"reading", "merging", "answering", "done"}
        BY <1>6, <1>9, <1>13
    <2>3. b_variant \in Client(c)!Variants /\ b_response \in {"none", "answer", "empty"}
        BY DEF b_IInv, Client!TypeOK
    <2> QED BY <1>2, <1>12, <1>13, <2>1, <2>2, <2>3 DEF Client!TypeOK, b_Records, b_Outcomes
<1> QED BY <1>2, <1>10, <1>13, <1>14 DEF b_IInv

LEMMA b_InvStep == ASSUME NEW c, b_Assumptions(c), b_IInv(c), [Client(c)!Next]_(Client(c)!vars)
      PROVE b_IInv(c)'
<1>1. CASE Client(c)!ReadPass
    <2>1. PICK replies \in [Client(c)!Chunks -> Client(c)!Replies] : Client(c)!Converge(replies)
        \/ Client(c)!Join(replies) \/ Client(c)!AskMerge(replies)
        BY <1>1 DEF Client!ReadPass
    <2>2. b_stage = "reading" /\ UNCHANGED <<b_variant, b_nchunks, b_response>>
        BY <1>1 DEF Client!ReadPass
    <2> QED BY <2>1, <2>2, b_PassStep
<1>2. CASE Client(c)!MergeReply
    BY <1>2, b_MergeStep
<1>3. CASE Client(c)!FinalReply
    <2>1. /\ b_stage = "answering" /\ b_stage' = "done"
               /\ b_response' \in {"none", "answer", "empty"}
          /\ UNCHANGED <<b_variant, b_nchunks, b_pass_num, b_passes_used, b_converged,
                         b_global_memory, b_merge_memories, b_passes>>
        BY <1>3 DEF Client!FinalReply
    <2>2. b_Records(c)' = b_Records(c) /\ Client(c)!TypeOK
        BY <2>1, b_RecordsNext DEF b_IInv
    <2>3. Client(c)!TypeOK'
        BY <2>1, <2>2 DEF Client!TypeOK, b_Records, b_Outcomes
    <2>4. b_Asked(b_passes', b_stage')
        /\ b_Ended(c, b_passes', b_stage', b_passes_used', b_converged')
             /\ b_Lineage(c, b_global_memory', b_passes')
        BY <2>1 DEF b_IInv, b_Asked, b_Ended
    <2> QED BY <2>1, <2>3, <2>4 DEF b_IInv
<1>4. CASE UNCHANGED Client(c)!vars
    BY <1>4 DEF Client!vars, b_IInv, Client!TypeOK, Client!Chunks
<1> QED BY <1>1, <1>2, <1>3, <1>4 DEF Client!Next

LEMMA b_Promises ==
    ASSUME NEW c
    PROVE  b_IInv(c) => Client(c)!TypeOK /\ Client(c)!MemoryIsWhatWasMerged
           /\ Client(c)!ReportedPassesWereRead
<1> SUFFICES ASSUME b_IInv(c)
      PROVE Client(c)!TypeOK /\ Client(c)!MemoryIsWhatWasMerged /\ Client(c)!ReportedPassesWereRead
    OBVIOUS
<1>1. b_SafeIn(c, b_passes) = {p \in 1 .. Len(b_passes) :
                           Client(c)!Kept(p) /\ ~Client(c)!BlankAfter(p)
                               /\ Client(c)!Notes(b_passes[p].replies) # {}}
    BY DEF b_SafeIn, b_BlankIn, Client!Kept, Client!BlankAfter
<1>2. Client(c)!MemoryIsWhatWasMerged
    <2>1. \A S : Client(c)!Cardinality(S) = Cardinality(S)
        BY b_FiniteSets
    <2> QED BY <1>1, <2>1, Zenon DEF b_IInv, b_Lineage, b_Rank, Client!MemoryIsWhatWasMerged
<1>3. Client(c)!ReportedPassesWereRead
    BY DEF b_IInv, b_Ended, Client!ReportedPassesWereRead
<1> QED BY <1>2, <1>3 DEF b_IInv

-----------------------------------------------------------------------------
(* Its workflow, while no request fails                                    *)

(* While every request is served no merge comes back blank, so every pass  *)
(* that was merged is in the memory.                                       *)
b_ServedInv(c) ==
    /\ b_stage \in {"reading", "merging"} => Len(b_global_memory) = b_pass_num
    /\ b_stage = "merging" => Client(c)!Notes(b_passes[Len(b_passes)].replies) # {}

LEMMA b_NewsAreNotes ==
    ASSUME NEW c, ~c.faulty, NEW replies \in [Client(c)!Chunks -> Client(c)!Replies],
           Client(c)!News(replies) # {}
    PROVE  Client(c)!Notes(replies) # {}
BY DEF Client!News, Client!Notes, Client!HasNewInfo, Client!HasOutput, Client!Replies

(* Where the question is in the workflow, and what it is charged.          *)
b_StageNow(c) == IF b_stage = "done" THEN "answered"
            ELSE IF b_stage = "answering" THEN "answering" ELSE "reading"
b_UsedNow(c) == IF b_stage \in {"answering", "done"} THEN b_passes_used ELSE -1

LEMMA b_WorkflowStep ==
    ASSUME NEW c, b_global_memory' \in Client(c)!Lineages, b_UsedNow(c)' \in Int,
           \/ /\ b_StageNow(c) = "reading" /\ Len(b_global_memory) < c.passes
              /\ \E e \in (SUBSET (0 .. c.chunks - 1)) \ {{}} : b_global_memory' = Append(b_global_memory, e)
              /\ \/ /\ Len(b_global_memory') < c.passes
                    /\ b_StageNow(c)' = "reading" /\ b_UsedNow(c)' = -1
                 \/ /\ Len(b_global_memory') = c.passes
                    /\ b_StageNow(c)' = "answering" /\ b_UsedNow(c)' = c.passes
           \/ /\ b_StageNow(c) = "reading" /\ Len(b_global_memory) < c.passes
              /\ b_global_memory' = b_global_memory
              /\ b_StageNow(c)' = "answering" /\ b_UsedNow(c)' = Len(b_global_memory) + 1
           \/ /\ b_StageNow(c) = "answering" /\ b_StageNow(c)' = "answered"
              /\ b_global_memory' = b_global_memory /\ b_UsedNow(c)' = b_UsedNow(c)
           \/ b_global_memory' = b_global_memory /\ b_StageNow(c)' = b_StageNow(c)
                /\ b_UsedNow(c)' = b_UsedNow(c)
    PROVE  Client(c)!Workflow!Next
<1>1. /\ \A s \in {"question"} : [q \in {"question"} |-> b_global_memory'][s] = b_global_memory'
      /\ \A s \in {"question"} : [q \in {"question"} |-> b_global_memory][s] = b_global_memory
      /\ \A s \in {"question"} : [q \in {"question"} |-> b_StageNow(c)'][s] = b_StageNow(c)'
      /\ \A s \in {"question"} : [q \in {"question"} |-> b_StageNow(c)][s] = b_StageNow(c)
      /\ \A s \in {"question"} : [q \in {"question"} |-> b_UsedNow(c)'][s] = b_UsedNow(c)'
      /\ \A s \in {"question"} : [q \in {"question"} |-> b_UsedNow(c)][s] = b_UsedNow(c)
    OBVIOUS
<1>2. [q \in {"question"} |-> b_global_memory'] \in [{"question"} -> Client(c)!Workflow!Memories]
    BY DEF Client!Lineages, Client!Workflow!Memories
<1>3. [q \in {"question"} |-> b_StageNow(c)'] \in [{"question"} -> Client(c)!Workflow!Stages]
    BY DEF b_StageNow, Client!Workflow!Stages
<1>4. [q \in {"question"} |-> b_UsedNow(c)'] \in [{"question"} -> Int]
    OBVIOUS
<1>5. \A s \in {"question"} : \/ Client(c)!Workflow!Absorb(s) \/ Client(c)!Workflow!Converge(s)
                              \/ Client(c)!Workflow!Answer(s) \/ Client(c)!Workflow!Stay(s)
    <2>1. SUFFICES ASSUME NEW s \in {"question"}
                   PROVE  \/ Client(c)!Workflow!Absorb(s) \/ Client(c)!Workflow!Converge(s)
                          \/ Client(c)!Workflow!Answer(s) \/ Client(c)!Workflow!Stay(s)
        OBVIOUS
    <2>2. CASE /\ b_StageNow(c) = "reading" /\ Len(b_global_memory) < c.passes
               /\ \E e \in (SUBSET (0 .. c.chunks - 1)) \ {{}} : b_global_memory' = Append(b_global_memory, e)
               /\ \/ /\ Len(b_global_memory') < c.passes
                     /\ b_StageNow(c)' = "reading" /\ b_UsedNow(c)' = -1
                  \/ /\ Len(b_global_memory') = c.passes
                     /\ b_StageNow(c)' = "answering" /\ b_UsedNow(c)' = c.passes
        <3>1. Client(c)!Workflow!Absorb(s)
            BY <1>1, <2>2 DEF Client!Workflow!Absorb, b_StageNow, b_UsedNow
        <3> QED BY <3>1
    <2>3. CASE /\ b_StageNow(c) = "reading" /\ Len(b_global_memory) < c.passes
               /\ b_global_memory' = b_global_memory
               /\ b_StageNow(c)' = "answering" /\ b_UsedNow(c)' = Len(b_global_memory) + 1
        <3>1. Client(c)!Workflow!Converge(s)
            BY <1>1, <2>3 DEF Client!Workflow!Converge, b_StageNow, b_UsedNow
        <3> QED BY <3>1
    <2>4. CASE /\ b_StageNow(c) = "answering" /\ b_StageNow(c)' = "answered"
               /\ b_global_memory' = b_global_memory /\ b_UsedNow(c)' = b_UsedNow(c)
        <3>1. Client(c)!Workflow!Answer(s)
            BY <1>1, <2>4 DEF Client!Workflow!Answer, b_StageNow, b_UsedNow
        <3> QED BY <3>1
    <2>5. CASE b_global_memory' = b_global_memory /\ b_StageNow(c)' = b_StageNow(c)
        /\ b_UsedNow(c)' = b_UsedNow(c)
        <3>1. Client(c)!Workflow!Stay(s)
            BY <1>1, <2>5 DEF Client!Workflow!Stay, b_StageNow, b_UsedNow
        <3> QED BY <3>1
    <2> QED BY <2>2, <2>3, <2>4, <2>5
<1> QED BY <1>2, <1>3, <1>4, <1>5 DEF Client!Workflow!Next, b_StageNow, b_UsedNow

LEMMA b_WorkflowInit ==
    ASSUME NEW c
    PROVE  Client(c)!Init => Client(c)!Workflow!Init
BY DEF Client!Init, Client!Workflow!Init

(* The evidence e is absorbed by the end of a pass.                         *)
LEMMA b_Absorbed ==
    ASSUME NEW c, b_Assumptions(c), b_IInv(c), ~c.faulty, b_pass_num < c.passes,
           b_passes_used = b_pass_num + 1,
           Len(b_global_memory) = b_pass_num, b_stage \in {"reading", "merging"}, Client(c)!EndPass,
           NEW e \in (SUBSET (0 .. c.chunks - 1)) \ {{}},
               b_global_memory' = Append(b_global_memory, e)
    PROVE  Client(c)!Workflow!Next /\ (b_stage' \in {"reading", "merging"}
           => Len(b_global_memory') = b_pass_num')
           /\ b_stage' # "merging"
<1>1. /\ b_global_memory \in Seq(SUBSET (0 .. c.chunks - 1)) /\ b_pass_num \in Nat
      /\ b_passes_used \in Int /\ c.passes \in Nat
    BY b_ConstantTypes, SMT DEF b_IInv, Client!TypeOK, Client!Lineages
<1>2. b_global_memory' \in Client(c)!Lineages /\ Len(b_global_memory') = b_pass_num + 1
    BY <1>1, AppendProperties DEF Client!Lineages
<1>3. b_StageNow(c) = "reading"
    BY DEF b_StageNow
<1>4. b_pass_num' = b_pass_num + 1 /\ b_stage' # "merging"
    BY DEF Client!EndPass
<1>5. CASE b_pass_num + 1 < c.passes
    <2>1. b_stage' = "reading"
        BY <1>5 DEF Client!EndPass
    <2>2. b_StageNow(c)' = "reading" /\ b_UsedNow(c)' = -1
        BY <2>1 DEF b_StageNow, b_UsedNow
    <2> QED BY <1>2, <1>3, <1>4, <1>5, <2>2, b_WorkflowStep
<1>6. CASE ~(b_pass_num + 1 < c.passes)
    <2>1. b_stage' = "answering" /\ b_passes_used' = b_pass_num + 1
        BY <1>6 DEF Client!EndPass
    <2>2. b_pass_num + 1 = c.passes
        BY <1>1, <1>6, SMT
    <2>3. b_StageNow(c)' = "answering" /\ b_UsedNow(c)' = c.passes
        BY <2>1, <2>2 DEF b_StageNow, b_UsedNow
    <2> QED BY <1>1, <1>2, <1>3, <1>4, <2>1, <2>2, <2>3, b_WorkflowStep
<1> QED BY <1>5, <1>6

LEMMA b_ServedStep ==
    ASSUME NEW c, b_Assumptions(c), b_IInv(c), b_ServedInv(c), ~c.faulty, Client(c)!Next
    PROVE  Client(c)!Workflow!Next /\ b_ServedInv(c)'
<1>1. /\ b_global_memory \in Client(c)!Lineages /\ b_nchunks \in 0 .. c.chunks /\ c.passes \in Nat
      /\ b_pass_num \in Nat /\ b_passes_used \in Int /\ b_passes \in Seq(b_Records(c))
    BY b_ConstantTypes, SMT DEF b_IInv, Client!TypeOK, b_Records, b_Outcomes
<1>2. CASE Client(c)!ReadPass
    <2>1. PICK replies \in [Client(c)!Chunks -> Client(c)!Replies] : Client(c)!Converge(replies)
        \/ Client(c)!Join(replies) \/ Client(c)!AskMerge(replies)
        BY <1>2 DEF Client!ReadPass
    <2>2. /\ b_stage = "reading" /\ b_pass_num < c.passes /\ b_passes_used = b_pass_num + 1
          /\ Len(b_global_memory) = b_pass_num
        BY <1>2 DEF Client!ReadPass, b_IInv, b_Reading, b_Under, b_ServedInv
    <2>3. b_StageNow(c) = "reading" /\ b_UsedNow(c) = -1
        BY <2>2 DEF b_StageNow, b_UsedNow
    <2>4. Client(c)!Notes(replies) \in SUBSET (0 .. c.chunks - 1)
        BY <1>1, b_NotesType
    <2>5. CASE Client(c)!Converge(replies)
        <3>1. /\ b_stage' = "answering" /\ b_passes_used' = b_passes_used
                   /\ b_global_memory' = b_global_memory
            BY <2>5 DEF Client!Converge
        <3>2. b_StageNow(c)' = "answering" /\ b_UsedNow(c)' = Len(b_global_memory) + 1
            BY <2>2, <3>1 DEF b_StageNow, b_UsedNow
        <3> QED BY <1>1, <2>2, <2>3, <3>1, <3>2, b_WorkflowStep DEF b_ServedInv
    <2>6. CASE Client(c)!Join(replies)
        <3>1. Client(c)!Notes(replies) # {} /\ Client(c)!EndPass
            BY <2>6, b_NewsAreNotes DEF Client!Join
        <3>2. b_global_memory' = Append(b_global_memory, Client(c)!Notes(replies))
            BY <2>6, <3>1 DEF Client!Join, Client!BuildMergeMemories
        <3> QED BY <2>2, <2>4, <3>1, <3>2, b_Absorbed DEF b_ServedInv
    <2>7. CASE Client(c)!AskMerge(replies)
        <3>1. /\ b_stage' = "merging" /\ b_global_memory' = b_global_memory
                   /\ b_pass_num' = b_pass_num
              /\ Client(c)!Remember(replies, "asked") /\ Client(c)!Notes(replies) # {}
            BY <2>7, b_NewsAreNotes DEF Client!AskMerge
        <3>2. b_StageNow(c)' = "reading" /\ b_UsedNow(c)' = -1
            BY <3>1 DEF b_StageNow, b_UsedNow
        <3>3. Client(c)!Workflow!Next
            BY <1>1, <2>3, <3>1, <3>2, b_WorkflowStep
        <3>4. b_passes'[Len(b_passes')].replies = replies
            <4>1. [replies |-> replies, outcome |-> "asked"] \in b_Records(c)
                BY DEF b_Records, b_Outcomes
            <4>2. b_passes' = Append(b_passes, [replies |-> replies, outcome |-> "asked"])
                BY <3>1 DEF Client!Remember
            <4>3. b_passes'[Len(b_passes')] = [replies |-> replies, outcome |-> "asked"]
                BY <1>1, <4>1, <4>2, b_AppendContinues
            <4> QED BY <4>3
        <3> QED BY <2>2, <3>1, <3>3, <3>4 DEF b_ServedInv
    <2> QED BY <2>1, <2>5, <2>6, <2>7
<1>3. CASE Client(c)!MergeReply
    <2>1. /\ b_global_memory' = b_merge_memories /\ b_stage = "merging" /\ Client(c)!EndPass
        BY <1>3 DEF Client!MergeReply, Client!MergeReplies, Client!Merged
    <2> DEFINE e == Client(c)!Notes(b_passes[Len(b_passes)].replies)
    <2>2. /\ b_pass_num < c.passes /\ b_passes_used = b_pass_num + 1
               /\ Len(b_global_memory) = b_pass_num
          /\ b_merge_memories = Client(c)!BuildMergeMemories(b_global_memory, e) /\ e # {}
          /\ Len(b_passes) = b_pass_num + 1
        BY <2>1 DEF b_IInv, b_Merging, b_Under, b_ServedInv
    <2>3. e \in SUBSET (0 .. c.chunks - 1)
        <3>1. Len(b_passes) \in 1 .. Len(b_passes)
            BY <1>1, <2>2, SMT
        <3>2. b_passes[Len(b_passes)] \in b_Records(c)
            BY <1>1, <3>1, ElementOfSeq
        <3>3. b_passes[Len(b_passes)].replies \in [Client(c)!Chunks -> Client(c)!Replies]
            BY <3>2 DEF b_Records
        <3> QED BY <1>1, <3>3, b_NotesType
    <2>4. b_global_memory' = Append(b_global_memory, e)
        BY <2>1, <2>2 DEF Client!BuildMergeMemories
    <2> HIDE DEF e
    <2> QED BY <2>1, <2>2, <2>3, <2>4, b_Absorbed DEF b_ServedInv
<1>4. CASE Client(c)!FinalReply
    <2>1. /\ b_stage = "answering" /\ b_stage' = "done" /\ b_passes_used' = b_passes_used
          /\ b_global_memory' = b_global_memory
        BY <1>4 DEF Client!FinalReply
    <2>2. /\ b_StageNow(c) = "answering" /\ b_StageNow(c)' = "answered"
               /\ b_UsedNow(c)' = b_UsedNow(c) /\ b_UsedNow(c)' \in Int
        BY <1>1, <2>1 DEF b_StageNow, b_UsedNow
    <2> QED BY <1>1, <2>1, <2>2, b_WorkflowStep DEF b_ServedInv
<1> QED BY <1>2, <1>3, <1>4 DEF Client!Next

LEMMA b_ServedInit ==
    ASSUME NEW c
    PROVE  Client(c)!Init => b_ServedInv(c)
BY DEF Client!Init, b_ServedInv

(* The client of any bounds, whether its requests may fail or not: notes   *)
(* are lost only with the merge they were given to or when a later merge   *)
(* comes back blank, and a record counts the passes that were read         *)
(* (async_query_llm of parallel_boxed.py).                                 *)
THEOREM ClientKeepsItsNotes ==
    ASSUME NEW c, b_Assumptions(c)
    PROVE  Client(c)!Spec => [](/\ Client(c)!TypeOK
                                /\ Client(c)!MemoryIsWhatWasMerged
                                /\ Client(c)!ReportedPassesWereRead)
<1>1. Client(c)!Init => b_IInv(c)
    BY b_InitInv
<1>2. b_IInv(c) /\ [Client(c)!Next]_(Client(c)!vars) => b_IInv(c)'
    BY b_InvStep
<1>3. b_IInv(c) => /\ Client(c)!TypeOK
                   /\ Client(c)!MemoryIsWhatWasMerged
                   /\ Client(c)!ReportedPassesWereRead
    BY b_Promises
<1> QED BY <1>1, <1>2, <1>3, PTL DEF Client!Spec

(* The client of any bounds whose requests are all served follows the      *)
(* workflow that both training agents implement.                           *)
THEOREM ServedClientFollowsTheWorkflow ==
    ASSUME NEW c, b_Assumptions(c), ~c.faulty
    PROVE  Client(c)!Spec => Client(c)!ImplementsWorkflow
<1> DEFINE I == b_IInv(c) /\ b_ServedInv(c)
<1>1. Client(c)!Init => I /\ Client(c)!Workflow!Init
    BY b_InitInv, b_ServedInit, b_WorkflowInit
<1>2. ASSUME UNCHANGED Client(c)!vars
      PROVE  /\ b_ServedInv(c) => b_ServedInv(c)'
             /\ UNCHANGED Client(c)!Workflow!vars
    <2>1. b_ServedInv(c) => b_ServedInv(c)'
        BY <1>2 DEF Client!vars, b_ServedInv, Client!Notes, Client!Chunks
    <2>2. UNCHANGED Client(c)!Workflow!vars
        BY <1>2 DEF Client!vars, Client!Workflow!vars
    <2> QED BY <2>1, <2>2
<1>3. I /\ [Client(c)!Next]_(Client(c)!vars) => I'
    /\ [Client(c)!Workflow!Next]_(Client(c)!Workflow!vars)
    BY <1>2, b_InvStep, b_ServedStep
<1> HIDE DEF I
<1> QED BY <1>1, <1>3, PTL DEF Client!Spec, Client!ImplementsWorkflow, Client!Workflow!Spec

-----------------------------------------------------------------------------
(* Evaluation runs, for every number of questions, places and runs         *)

(* The instance speaks of the finite sets of the standard module.           *)
LEMMA e_FiniteSets ==
    ASSUME NEW S
    PROVE  Evaluation!Cardinality(S) = Cardinality(S)
BY Zenon DEF Evaluation!Cardinality, Cardinality, Evaluation!IsFiniteSet, IsFiniteSet

e_Assumptions == Evaluation!NQuestionsAssumption /\ Evaluation!NProcAssumption
    /\ Evaluation!MaxRunsAssumption

LEMMA e_ConstantTypes ==
    ASSUME e_Assumptions
    PROVE  /\ NQuestions \in Nat /\ NProc \in Nat /\ NProc >= 1 /\ MaxRuns \in Nat
BY SMT DEF e_Assumptions, Evaluation!NQuestionsAssumption, Evaluation!NProcAssumption,
    Evaluation!MaxRunsAssumption

LEMMA e_QuestionSets ==
    ASSUME e_Assumptions
    PROVE  /\ Evaluation!Questions \subseteq Nat /\ IsFiniteSet(Evaluation!Questions)
                /\ Cardinality(Evaluation!Questions) = NQuestions
           /\ \A S \in SUBSET Evaluation!Questions :
                 IsFiniteSet(S) /\ Cardinality(S) \in Nat /\ Cardinality(S) <= NQuestions
<1>1. Evaluation!Questions \subseteq Nat
    BY e_ConstantTypes, SMT DEF Evaluation!Questions
<1>2. IsFiniteSet(0 .. NQuestions - 1) /\ Cardinality(0 .. NQuestions - 1) = NQuestions
    <2>1. /\ 0 \in Int /\ NQuestions - 1 \in Int
          /\ (IF 0 > NQuestions - 1 THEN 0 ELSE NQuestions - 1 - 0 + 1) = NQuestions
        BY e_ConstantTypes, SMT
    <2> QED BY <2>1, FS_Interval
<1> QED BY <1>1, <1>2, FS_Subset, FS_CardinalityType DEF Evaluation!Questions

-----------------------------------------------------------------------------
(* A finite set of numbers can be put in ascending order: the rank of x in  *)
(* S counts the members of S up to x.                                       *)
e_Below(S, x) == {y \in S : y <= x}
e_RankOf(S) == [x \in S |-> Cardinality(e_Below(S, x))]

LEMMA e_RankFacts ==
    ASSUME NEW S \in SUBSET Nat, IsFiniteSet(S)
    PROVE  /\ e_RankOf(S) \in [S -> 1 .. Cardinality(S)]
           /\ \A x, y \in S : x < y => e_RankOf(S)[x] < e_RankOf(S)[y]
<1>1. Cardinality(S) \in Nat
    BY FS_CardinalityType
<1>2. ASSUME NEW x \in S
      PROVE  /\ IsFiniteSet(e_Below(S, x)) /\ Cardinality(e_Below(S, x)) \in 1 .. Cardinality(S)
    <2>1. e_Below(S, x) \in SUBSET S /\ x \in e_Below(S, x)
        BY SMT DEF e_Below
    <2>2. IsFiniteSet(e_Below(S, x)) /\ Cardinality(e_Below(S, x)) <= Cardinality(S)
        BY <2>1, FS_Subset
    <2>3. Cardinality(e_Below(S, x)) \in Nat /\ Cardinality(e_Below(S, x)) # 0
        BY <2>1, <2>2, FS_CardinalityType, FS_EmptySet
    <2> QED BY <1>1, <2>2, <2>3, SMT
<1>3. ASSUME NEW x \in S, NEW y \in S, x < y
      PROVE  Cardinality(e_Below(S, x)) < Cardinality(e_Below(S, y))
    <2>1. e_Below(S, x) \in SUBSET e_Below(S, y) /\ e_Below(S, x) # e_Below(S, y)
        <3>1. \A z \in e_Below(S, x) : z \in e_Below(S, y)
            BY <1>3, SMT DEF e_Below
        <3>2. y \in e_Below(S, y) /\ y \notin e_Below(S, x)
            BY <1>3, SMT DEF e_Below
        <3> QED BY <3>1, <3>2
    <2>2. /\ Cardinality(e_Below(S, x)) <= Cardinality(e_Below(S, y))
          /\ Cardinality(e_Below(S, x)) # Cardinality(e_Below(S, y))
        BY <1>2, <2>1, FS_Subset
    <2>3. Cardinality(e_Below(S, x)) \in Nat /\ Cardinality(e_Below(S, y)) \in Nat
        BY <1>2, FS_CardinalityType
    <2> QED BY <2>2, <2>3, SMT
<1> QED BY <1>2, <1>3 DEF e_RankOf

LEMMA e_RankIsOnto ==
    ASSUME NEW S \in SUBSET Nat, IsFiniteSet(S), NEW i \in 1 .. Cardinality(S)
    PROVE  \E x \in S : e_RankOf(S)[x] = i
<1> SUFFICES ASSUME \A x \in S : e_RankOf(S)[x] # i PROVE FALSE
    OBVIOUS
<1> DEFINE n == Cardinality(S)
           T == (1 .. n) \ {i}
<1>1. n \in Nat
    BY FS_CardinalityType
<1>2. IsFiniteSet(1 .. n) /\ Cardinality(1 .. n) = n
    <2>1. 1 \in Int /\ n \in Int /\ (IF 1 > n THEN 0 ELSE n - 1 + 1) = n
        BY <1>1, SMT
    <2> QED BY <2>1, FS_Interval
<1>3. IsFiniteSet(T) /\ Cardinality(T) = n - 1
    BY <1>2, FS_RemoveElement
<1>4. Cardinality(T) < Cardinality(S)
    BY <1>1, <1>3, SMT
<1>5. e_RankOf(S) \in [S -> T]
    BY e_RankFacts
<1> HIDE DEF T, n
<1>6. PICK x, y \in S : x # y /\ e_RankOf(S)[x] = e_RankOf(S)[y]
    BY <1>3, <1>4, <1>5, FS_PigeonHole
<1>7. x < y \/ y < x
    BY <1>6, SMT
<1>8. e_RankOf(S)[x] \in Int /\ e_RankOf(S)[y] \in Int
    BY e_RankFacts
<1> QED BY <1>6, <1>7, <1>8, e_RankFacts

(* data is in ascending order, and so without repetitions.                  *)
LEMMA e_AscendingFacts ==
    ASSUME NEW S \in SUBSET Nat, IsFiniteSet(S)
    PROVE  /\ Evaluation!Ascending(S) \in [1 .. Cardinality(S) -> S]
           /\ \A i, j \in 1 .. Cardinality(S) : i < j
                => Evaluation!Ascending(S)[i] < Evaluation!Ascending(S)[j]
<1> DEFINE n == Cardinality(S)
           r == e_RankOf(S)
           s == [i \in 1 .. n |-> CHOOSE x \in S : r[x] = i]
<1>1. n \in Nat
    BY FS_CardinalityType
<1>2. \A i \in 1 .. n : s[i] \in S /\ r[s[i]] = i
    BY e_RankIsOnto
<1>3. s \in [1 .. n -> S] /\ DOMAIN s = 1 .. n
    BY <1>2
<1>4. \A x, y \in S : r[x] \in Int /\ r[y] \in Int /\ (x < y => r[x] < r[y])
    BY <1>1, e_RankFacts
<1> HIDE DEF r, s
<1>5. ASSUME NEW i \in 1 .. n, NEW j \in 1 .. n, i < j PROVE s[i] < s[j]
    <2>1. /\ s[i] \in Nat /\ s[j] \in Nat /\ r[s[i]] = i /\ r[s[j]] = j /\ i \in Int /\ j \in Int
          /\ s[i] \in S /\ s[j] \in S
        <3>1. i \in Int /\ j \in Int
            BY <1>1, SMT
        <3>2. s[i] \in S /\ s[j] \in S /\ r[s[i]] = i /\ r[s[j]] = j
            BY <1>2
        <3> QED BY <3>1, <3>2
    <2>2. s[j] < s[i] => j < i
        BY <1>4, <2>1
    <2>3. s[i] = s[j] => i = j
        BY <2>1
    <2> QED BY <1>5, <2>1, <2>2, <2>3, SMT
<1>6. \E t \in [1 .. n -> S] : \A i, j \in DOMAIN t : i < j => t[i] < t[j]
    BY <1>3, <1>5
<1>7. /\ Evaluation!Ascending(S) \in [1 .. n -> S]
      /\ \A i, j \in DOMAIN Evaluation!Ascending(S) : i < j
           => Evaluation!Ascending(S)[i] < Evaluation!Ascending(S)[j]
    <2>1. Evaluation!Cardinality(S) = n
        BY e_FiniteSets
    <2> QED BY <1>6, <2>1, Zenon DEF Evaluation!Ascending
<1> QED BY <1>7

-----------------------------------------------------------------------------
(* Evaluation runs: records on disk and in the buffer                      *)
e_Distinct(s) == \A i, j \in 1 .. Len(s) : s[i] = s[j] => i = j

LEMMA e_DistinctCount ==
    ASSUME NEW U, NEW s \in Seq(U), e_Distinct(s)
    PROVE  Cardinality(Evaluation!Elems(s)) = Len(s)
<1> DEFINE n == Len(s)
           E == Evaluation!Elems(s)
<1>1. n \in Nat /\ s \in [1 .. n -> U] /\ DOMAIN s = 1 .. n
    BY LenProperties
<1>2. E = {s[i] : i \in 1 .. n}
    BY <1>1 DEF Evaluation!Elems
<1>3. IsFiniteSet(1 .. n) /\ Cardinality(1 .. n) = n
    <2>1. 1 \in Int /\ n \in Int /\ (IF 1 > n THEN 0 ELSE n - 1 + 1) = n
        BY <1>1, SMT
    <2> QED BY <2>1, FS_Interval
<1>4. s \in [1 .. n -> E]
    BY <1>1, <1>2
<1>5. s \in Surjection(1 .. n, E)
    BY <1>2, <1>4 DEF Surjection
<1>6. \A i, j \in 1 .. n : s[i] = s[j] => i = j
    BY DEF e_Distinct
<1> HIDE DEF n, E
<1>7. IsFiniteSet(E) /\ Cardinality(E) <= n
    BY <1>3, <1>5, FS_Surjection
<1>8. ASSUME Cardinality(E) < n PROVE FALSE
    <2> DEFINE D == 1 .. n
    <2>1. IsFiniteSet(D) /\ Cardinality(E) < Cardinality(D) /\ s \in [D -> E]
        BY <1>3, <1>4, <1>8
    <2>2. \A i, j \in D : s[i] = s[j] => i = j
        BY <1>6
    <2> HIDE DEF D
    <2>3. \E i, j \in D : i # j /\ s[i] = s[j]
        BY <1>7, <2>1, FS_PigeonHole
    <2> QED BY <2>2, <2>3
<1>9. Cardinality(E) \in Nat
    BY <1>7, FS_CardinalityType
<1>10. Cardinality(E) = n
    BY <1>1, <1>7, <1>8, <1>9, SMT
<1> QED BY <1>10 DEF E, n

LEMMA e_ElemsAppend ==
    ASSUME NEW U, NEW s \in Seq(U), NEW x \in U
    PROVE  /\ Evaluation!Elems(Append(s, x)) = Evaluation!Elems(s) \cup {x}
           /\ e_Distinct(s) /\ x \notin Evaluation!Elems(s) => e_Distinct(Append(s, x))
<1> DEFINE n == Len(s)
           t == Append(s, x)
<1>1. n \in Nat /\ DOMAIN s = 1 .. n
    BY LenProperties
<1>2. /\ t \in Seq(U) /\ Len(t) = n + 1 /\ t[n + 1] = x /\ \A i \in 1 .. n : t[i] = s[i]
    BY AppendProperties
<1>3. DOMAIN t = 1 .. n + 1
    BY <1>2, LenProperties
<1>4. \A i : i \in 1 .. n + 1 <=> i \in 1 .. n \/ i = n + 1
    BY <1>1, SMT
<1> HIDE DEF n, t
<1>5. Evaluation!Elems(t) = Evaluation!Elems(s) \cup {x}
    BY <1>1, <1>2, <1>3, <1>4 DEF Evaluation!Elems
<1>6. ASSUME e_Distinct(s), x \notin Evaluation!Elems(s) PROVE e_Distinct(t)
    <2>1. \A i, j \in 1 .. n : s[i] = s[j] => i = j
        BY <1>6 DEF e_Distinct, n
    <2>2. \A i \in 1 .. n : s[i] # x
        BY <1>1, <1>6 DEF Evaluation!Elems
    <2> QED BY <1>2, <1>4, <2>1, <2>2 DEF e_Distinct
<1> QED BY <1>5, <1>6 DEF t

LEMMA e_ConcatAppend ==
    ASSUME NEW U, NEW s \in Seq(U), NEW t \in Seq(U), NEW x \in U
    PROVE  s \o Append(t, x) = Append(s \o t, x)
<1>1. Append(t, x) = t \o <<x>> /\ <<x>> \in Seq(U)
    BY AppendIsConcat
<1>2. s \o t \in Seq(U)
    BY ConcatProperties
<1>3. Append(s \o t, x) = (s \o t) \o <<x>>
    BY <1>2, AppendIsConcat
<1> QED BY <1>1, <1>3, ConcatAssociative

LEMMA e_ConcatSplit ==
    ASSUME NEW U, NEW s \in Seq(U), NEW t \in Seq(U), NEW n \in 0 .. Len(t)
    PROVE  /\ SubSeq(t, 1, n) \in Seq(U) /\ SubSeq(t, n + 1, Len(t)) \in Seq(U)
           /\ (s \o SubSeq(t, 1, n)) \o SubSeq(t, n + 1, Len(t)) = s \o t
<1>1. Len(t) \in Nat
    BY LenProperties
<1>2. /\ \A i \in 1 .. n : t[i] \in U
      /\ \A i \in n + 1 .. Len(t) : t[i] \in U
    <2>1. \A i : i \in 1 .. n \/ i \in n + 1 .. Len(t) => i \in 1 .. Len(t)
        BY <1>1, SMT
    <2> QED BY <2>1, ElementOfSeq
<1>3. n \in Int /\ n + 1 \in Int /\ 1 \in 1 .. Len(t) + 1 /\ n \in 1 - 1 .. Len(t)
    /\ Len(t) \in n .. Len(t)
    BY <1>1, SMT
<1>4. SubSeq(t, 1, n) \in Seq(U) /\ SubSeq(t, n + 1, Len(t)) \in Seq(U)
    BY <1>1, <1>2, <1>3, SubSeqProperties
<1>5. SubSeq(t, 1, n) \o SubSeq(t, n + 1, Len(t)) = t
    BY <1>1, <1>3, ConcatAdjacentSubSeq, SubSeqFull
<1> DEFINE a == SubSeq(t, 1, n)
           b == SubSeq(t, n + 1, Len(t))
<1>6. a \in Seq(U) /\ b \in Seq(U) /\ a \o b = t
    BY <1>4, <1>5
<1> HIDE DEF a, b
<1>7. (s \o a) \o b = s \o t
    <2>1. \A v, w \in Seq(U) : (s \o v) \o w = s \o (v \o w)
        BY ConcatAssociative
    <2> QED BY <1>6, <2>1, Zenon
<1> QED BY <1>6, <1>7 DEF a, b

(* Records that are lost leave the others distinct.                         *)
LEMMA e_PrefixDistinct ==
    ASSUME NEW U, NEW s \in Seq(U), NEW t \in Seq(U), e_Distinct(s \o t)
    PROVE  e_Distinct(s)
<1>1. /\ Len(s) \in Nat /\ Len(t) \in Nat /\ Len(s \o t) = Len(s) + Len(t)
      /\ \A i \in 1 .. Len(s) + Len(t) : (s \o t)[i] = IF i <= Len(s) THEN s[i] ELSE t[i - Len(s)]
    BY ConcatProperties, LenProperties
<1>2. \A i \in 1 .. Len(s) : i \in 1 .. Len(s) + Len(t) /\ i <= Len(s)
    BY <1>1, SMT
<1> QED BY <1>1, <1>2 DEF e_Distinct

LEMMA e_EmptyRecords ==
    /\ Evaluation!Elems(<< >>) = {} /\ e_Distinct(<< >>) /\ Len(<< >>) = 0
BY SMT DEF Evaluation!Elems, e_Distinct

-----------------------------------------------------------------------------
(* Evaluation runs: the invariant                                          *)
(* What is on disk and what is still in the buffer.                        *)
e_Recorded == e_file \o e_buffer

(* Behind the queries: the questions the loop has passed are recorded if    *)
(* they have an answer, those to come are not yet.                          *)
e_WrittenInv ==
    /\ e_written <= Len(e_data)
    /\ DOMAIN e_outcome = Evaluation!Elems(e_data)
    /\ \A i \in 1 .. e_written : e_data[i] \in Evaluation!Elems(e_Recorded) <=> e_outcome[e_data[i]]
    /\ \A i \in e_written + 1 .. Len(e_data) : e_data[i] \notin Evaluation!Elems(e_Recorded)

e_RunInv ==
    /\ e_Distinct(e_data) /\ Len(e_data) <= NQuestions
    /\ e_pc = "querying" => e_written = 0 /\ (e_force
         \/ Evaluation!Elems(e_data) \cap Evaluation!Elems(e_file) = {})
    /\ e_pc = "writing" => e_WrittenInv

e_IInv ==
    /\ Evaluation!TypeOK
    /\ \A q \in DOMAIN e_outcome : e_outcome[q] \in BOOLEAN
    /\ e_Distinct(e_Recorded)
    /\ e_pc # "writing" => e_buffer = << >>
    /\ e_pc \in {"querying", "writing"} => e_RunInv

LEMMA e_InitInv == ASSUME e_Assumptions PROVE Evaluation!Init => e_IInv
<1> SUFFICES ASSUME Evaluation!Init PROVE e_IInv
    OBVIOUS
<1>1. /\ << >> \in Seq(Evaluation!Questions) /\ DOMAIN << >> = {} /\ << >> \o << >> = << >>
    BY ConcatEmptySeq
<1>2. Cardinality({}) <= NProc /\ 0 \in 0 .. MaxRuns /\ 0 \in 0 .. NQuestions
    <2>1. Cardinality({}) = 0
        BY FS_EmptySet
    <2> QED BY <2>1, e_ConstantTypes, SMT
<1>3. Evaluation!TypeOK
    BY e_FiniteSets, <1>1, <1>2 DEF Evaluation!Init, Evaluation!TypeOK
<1> QED BY <1>1, <1>3, e_EmptyRecords DEF Evaluation!Init, e_IInv, e_Recorded

LEMMA e_StartStep == ASSUME e_Assumptions, e_IInv, Evaluation!StartRun PROVE e_IInv'
<1>1. /\ e_pc = "idle" /\ e_runs < MaxRuns /\ e_runs' = e_runs + 1 /\ e_force' \in BOOLEAN
      /\ e_asked' = {} /\ e_outcome' = << >> /\ e_written' = 0
      /\ e_buffer' = e_buffer /\ e_file' = e_file /\ e_torn' = e_torn /\ e_buffer = << >>
    BY DEF Evaluation!StartRun, e_IInv
<1>2. e_file \in Seq(Evaluation!Questions) /\ e_runs \in 0 .. MaxRuns /\ e_torn \in BOOLEAN
    BY DEF e_IInv, Evaluation!TypeOK
<1>3. e_Recorded' = e_Recorded
    BY <1>1 DEF e_Recorded
<1>4. CASE e_torn
    <2>1. e_pc' = "failed" /\ e_data' = << >>
        BY <1>4 DEF Evaluation!StartRun
    <2>2. Evaluation!TypeOK'
        <3>1. /\ << >> \in Seq(Evaluation!Questions) /\ DOMAIN << >> = {}
            OBVIOUS
        <3>2. Cardinality({}) <= NProc /\ e_runs + 1 \in 0 .. MaxRuns /\ 0 \in 0 .. NQuestions
            <4>1. Cardinality({}) = 0
                BY FS_EmptySet
            <4> QED BY <1>1, <1>2, <4>1, e_ConstantTypes, SMT
        <3> QED BY e_FiniteSets, <1>1, <1>2, <2>1, <3>1, <3>2 DEF Evaluation!TypeOK
    <2> QED BY <1>1, <1>3, <2>1, <2>2 DEF e_IInv
<1>5. CASE ~e_torn
    <2> DEFINE S == Evaluation!Todo(e_force')
               n == Cardinality(S)
    <2>1. e_pc' = "querying" /\ e_data' = Evaluation!Ascending(S)
        BY <1>5 DEF Evaluation!StartRun
    <2>2. S \in SUBSET Evaluation!Questions /\ (e_force' \/ S \cap Evaluation!Elems(e_file) = {})
        BY <1>1 DEF Evaluation!Todo, Evaluation!LoadExistingIds
    <2> HIDE DEF S
    <2>3. S \in SUBSET Nat /\ IsFiniteSet(S) /\ n \in Nat /\ n <= NQuestions
        BY <2>2, e_QuestionSets
    <2>4. /\ e_data' \in [1 .. n -> S]
          /\ \A i, j \in 1 .. n : i < j => e_data'[i] < e_data'[j]
        BY <2>1, <2>3, e_AscendingFacts
    <2> HIDE DEF n
    <2>5. /\ e_data' \in Seq(Evaluation!Questions) /\ Len(e_data') = n /\ DOMAIN e_data' = 1 .. n
        <3>1. e_data' \in [1 .. n -> Evaluation!Questions]
            BY <2>2, <2>4
        <3> QED BY <2>3, <3>1
    <2>6. e_Distinct(e_data')
        <3>1. \A i \in 1 .. n : i \in Int /\ e_data'[i] \in Int
            <4>1. \A i \in 1 .. n : i \in Int
                BY <2>3, SMT
            <4>2. \A i \in 1 .. n : e_data'[i] \in S
                BY <2>4
            <4>3. S \subseteq Int
                BY <2>3, SMT
            <4> QED BY <4>1, <4>2, <4>3
        <3>2. ASSUME NEW i \in 1 .. n, NEW j \in 1 .. n, e_data'[i] = e_data'[j] PROVE i = j
            <4>1. ~(i < j) /\ ~(j < i)
                BY <2>4, <3>1, <3>2
            <4> QED BY <3>1, <4>1, SMT
        <3> QED BY <2>5, <3>2 DEF e_Distinct
    <2>7. Evaluation!Elems(e_data') \subseteq S
        BY <2>4, <2>5 DEF Evaluation!Elems
    <2>8. e_RunInv'
        BY <1>1, <2>1, <2>2, <2>3, <2>5, <2>6, <2>7 DEF e_RunInv
    <2>9. Evaluation!TypeOK'
        <3>1. DOMAIN << >> = {}
            OBVIOUS
        <3>2. Cardinality({}) <= NProc /\ e_runs + 1 \in 0 .. MaxRuns /\ 0 \in 0 .. NQuestions
            <4>1. Cardinality({}) = 0
                BY FS_EmptySet
            <4> QED BY <1>1, <1>2, <4>1, e_ConstantTypes, SMT
        <3> QED BY e_FiniteSets, <1>1, <1>2, <2>1, <2>5, <3>1, <3>2 DEF Evaluation!TypeOK
    <2> QED BY <1>1, <1>3, <2>1, <2>8, <2>9 DEF e_IInv
<1> QED BY <1>2, <1>4, <1>5

LEMMA e_AskStep == ASSUME e_Assumptions, e_IInv, NEW q \in Evaluation!Questions, Evaluation!Ask(q)
      PROVE e_IInv'
<1>1. /\ e_pc = "querying" /\ Cardinality(e_asked) < NProc /\ e_asked' = e_asked \cup {q}
      /\ UNCHANGED <<e_runs, e_force, e_pc, e_data, e_outcome, e_written, e_buffer, e_file, e_torn>>
    BY e_FiniteSets DEF Evaluation!Ask
<1>2. e_asked \in SUBSET Evaluation!Questions /\ IsFiniteSet(e_asked)
    /\ Cardinality(e_asked) \in Nat
    BY e_QuestionSets DEF e_IInv, Evaluation!TypeOK
<1>3. e_asked' \in SUBSET Evaluation!Questions /\ Cardinality(e_asked') <= NProc
    <2>1. Cardinality(e_asked \cup {q}) =
              IF q \in e_asked THEN Cardinality(e_asked) ELSE Cardinality(e_asked) + 1
        BY <1>2, FS_AddElement
    <2>2. Cardinality(e_asked \cup {q}) <= NProc
        BY <1>1, <1>2, <2>1, e_ConstantTypes, SMT
    <2> QED BY <1>1, <1>2, <2>2
<1>4. Evaluation!TypeOK'
    BY e_FiniteSets, <1>1, <1>3 DEF e_IInv, Evaluation!TypeOK
<1> QED BY <1>1, <1>4 DEF e_IInv, e_RunInv, e_Recorded

LEMMA e_ReturnStep == ASSUME e_Assumptions, e_IInv, NEW q \in Evaluation!Questions,
    Evaluation!Return(q) PROVE e_IInv'
<1>1. /\ e_pc = "querying" /\ e_asked' = e_asked \ {q}
      /\ UNCHANGED <<e_runs, e_force, e_pc, e_data, e_written, e_buffer, e_file, e_torn>>
    BY DEF Evaluation!Return
<1>2. PICK answered \in BOOLEAN :
          e_outcome' = [x \in DOMAIN e_outcome \cup {q} |-> IF x = q THEN answered ELSE e_outcome[x]]
    BY DEF Evaluation!Return
<1>3. DOMAIN e_outcome' \in SUBSET Evaluation!Questions
    /\ \A x \in DOMAIN e_outcome' : e_outcome'[x] \in BOOLEAN
    BY <1>2 DEF e_IInv, Evaluation!TypeOK
<1>4. e_asked' \in SUBSET Evaluation!Questions /\ Cardinality(e_asked') <= NProc
    <2>1. e_asked \in SUBSET Evaluation!Questions /\ IsFiniteSet(e_asked)
        /\ Cardinality(e_asked) <= NProc
        BY e_FiniteSets, e_QuestionSets DEF e_IInv, Evaluation!TypeOK
    <2>2. e_asked \ {q} \in SUBSET e_asked
        OBVIOUS
    <2>3. Cardinality(e_asked \ {q}) <= Cardinality(e_asked)
        BY <2>1, <2>2, FS_Subset
    <2>4. Cardinality(e_asked \ {q}) \in Nat /\ Cardinality(e_asked) \in Nat
        BY <2>1, <2>2, FS_Subset, FS_CardinalityType
    <2>5. Cardinality(e_asked \ {q}) <= NProc
        BY <2>1, <2>3, <2>4, e_ConstantTypes, SMT
    <2> QED BY <1>1, <2>1, <2>5
<1>5. Evaluation!TypeOK'
    BY e_FiniteSets, <1>1, <1>3, <1>4 DEF e_IInv, Evaluation!TypeOK
<1> QED BY <1>1, <1>3, <1>5 DEF e_IInv, e_RunInv, e_Recorded

LEMMA e_OpenStep == ASSUME e_Assumptions, e_IInv, Evaluation!OpenFile PROVE e_IInv'
<1>1. /\ e_pc = "querying" /\ DOMAIN e_outcome = Evaluation!Elems(e_data) /\ e_pc' = "writing"
      /\ e_file' = (IF e_force THEN << >> ELSE e_file) /\ e_buffer = << >> /\ e_written = 0
      /\ (e_force \/ Evaluation!Elems(e_data) \cap Evaluation!Elems(e_file) = {})
      /\ UNCHANGED <<e_runs, e_force, e_data, e_asked, e_outcome, e_written, e_buffer, e_torn>>
    BY DEF Evaluation!OpenFile, e_IInv, e_RunInv
<1>2. e_file \in Seq(Evaluation!Questions) /\ e_data \in Seq(Evaluation!Questions)
    /\ e_file' \in Seq(Evaluation!Questions)
    BY <1>1 DEF e_IInv, Evaluation!TypeOK
<1>3. /\ e_Recorded = e_file /\ e_Recorded' = e_file'
    BY <1>1, <1>2, ConcatEmptySeq DEF e_Recorded
<1>4. e_Distinct(e_Recorded') /\ Evaluation!Elems(e_data) \cap Evaluation!Elems(e_Recorded') = {}
    <2>1. CASE e_force
        BY <1>1, <1>3, <2>1, e_EmptyRecords
    <2>2. CASE ~e_force
        BY <1>1, <1>3, <2>2 DEF e_IInv
    <2> QED BY <2>1, <2>2
<1>5. \A i \in 1 .. Len(e_data) : e_data[i] \in Evaluation!Elems(e_data)
    BY <1>2, LenProperties DEF Evaluation!Elems
<1>6. e_WrittenInv'
    <2>1. \A i \in 1 .. 0 : FALSE
        BY SMT
    <2>2. \A i \in 0 + 1 .. Len(e_data) : e_data[i] \notin Evaluation!Elems(e_Recorded')
        BY <1>4, <1>5
    <2>3. 0 <= Len(e_data)
        BY <1>2, LenProperties, SMT
    <2> QED BY <1>1, <2>1, <2>2, <2>3 DEF e_WrittenInv
<1>7. Evaluation!TypeOK'
    BY <1>1, <1>2 DEF e_IInv, Evaluation!TypeOK
<1> QED BY <1>1, <1>4, <1>6, <1>7 DEF e_IInv, e_RunInv

LEMMA e_WriteStep == ASSUME e_Assumptions, e_IInv, Evaluation!WriteOne PROVE e_IInv'
<1> DEFINE x == e_data[e_written + 1]
           w == e_written + 1
<1>1. /\ e_pc = "writing" /\ e_written < Len(e_data) /\ e_written' = e_written + 1
      /\ e_buffer' = (IF e_outcome[x] THEN Append(e_buffer, x) ELSE e_buffer)
      /\ UNCHANGED <<e_runs, e_force, e_pc, e_data, e_asked, e_outcome, e_file, e_torn>>
    BY DEF Evaluation!WriteOne
<1>2. /\ e_data \in Seq(Evaluation!Questions) /\ e_buffer \in Seq(Evaluation!Questions)
           /\ e_file \in Seq(Evaluation!Questions)
      /\ e_written \in Nat /\ Len(e_data) \in Nat /\ DOMAIN e_data = 1 .. Len(e_data)
    BY e_ConstantTypes, LenProperties, SMT DEF e_IInv, Evaluation!TypeOK
<1>3. w \in 1 .. Len(e_data) /\ w \in e_written + 1 .. Len(e_data)
    BY <1>1, <1>2, SMT
<1>4. x \in Evaluation!Questions /\ x \in Evaluation!Elems(e_data) /\ e_outcome[x] \in BOOLEAN
    <2>1. x \in Evaluation!Questions /\ x \in Evaluation!Elems(e_data)
        BY <1>2, <1>3, ElementOfSeq DEF Evaluation!Elems
    <2>2. DOMAIN e_outcome = Evaluation!Elems(e_data)
        BY <1>1 DEF e_IInv, e_RunInv, e_WrittenInv
    <2> QED BY <2>1, <2>2 DEF e_IInv
<1>5. x \notin Evaluation!Elems(e_Recorded)
    BY <1>1, <1>3 DEF e_IInv, e_RunInv, e_WrittenInv
<1>6. e_Recorded \in Seq(Evaluation!Questions) /\ e_Distinct(e_Recorded)
    BY <1>2, ConcatProperties DEF e_Recorded, e_IInv
<1>7. /\ e_outcome[x] => e_Recorded' = Append(e_Recorded, x)
      /\ ~e_outcome[x] => e_Recorded' = e_Recorded
    <2>1. CASE e_outcome[x]
        BY <1>1, <1>2, <1>4, <2>1, e_ConcatAppend DEF e_Recorded
    <2>2. CASE ~e_outcome[x]
        BY <1>1, <2>2 DEF e_Recorded
    <2> QED BY <2>1, <2>2
<1>8. /\ e_Distinct(e_Recorded') /\ e_buffer' \in Seq(Evaluation!Questions)
      /\ \A y : y \in Evaluation!Elems(e_Recorded') <=> y \in Evaluation!Elems(e_Recorded) \/ (y = x
           /\ e_outcome[x])
    <2>1. CASE e_outcome[x]
        <3>1. /\ Evaluation!Elems(Append(e_Recorded, x)) = Evaluation!Elems(e_Recorded) \cup {x}
              /\ e_Distinct(Append(e_Recorded, x))
            BY <1>4, <1>5, <1>6, e_ElemsAppend
        <3>2. e_Recorded' = Append(e_Recorded, x)
            BY <1>7, <2>1
        <3>3. e_buffer' \in Seq(Evaluation!Questions)
            BY <1>1, <1>2, <1>4, <2>1, AppendProperties
        <3>4. \A y : y \in Evaluation!Elems(e_Recorded') <=> y \in Evaluation!Elems(e_Recorded)
            \/ (y = x /\ e_outcome[x])
            BY <2>1, <3>1, <3>2
        <3> QED BY <3>1, <3>2, <3>3, <3>4
    <2>2. CASE ~e_outcome[x]
        BY <1>1, <1>2, <1>6, <1>7, <2>2
    <2> QED BY <2>1, <2>2
<1>9. /\ \A i, j \in 1 .. Len(e_data) : e_data[i] = e_data[j] => i = j
      /\ DOMAIN e_outcome = Evaluation!Elems(e_data) /\ Len(e_data) <= NQuestions
      /\ \A i \in 1 .. e_written : e_data[i] \in Evaluation!Elems(e_Recorded) <=> e_outcome[e_data[i]]
      /\ \A i \in e_written + 1 .. Len(e_data) : e_data[i] \notin Evaluation!Elems(e_Recorded)
    BY <1>1 DEF e_IInv, e_RunInv, e_WrittenInv, e_Distinct
<1>10. /\ \A i \in 1 .. w - 1 : i \in 1 .. Len(e_data) /\ i \in 1 .. e_written /\ i # w
       /\ \A i \in 1 .. w : i \in 1 .. w - 1 \/ i = w
       /\ \A i \in w + 1 .. Len(e_data) : i \in 1 .. Len(e_data)
            /\ i \in e_written + 1 .. Len(e_data) /\ i # w
       /\ w <= Len(e_data) /\ w \in 0 .. NQuestions
    BY <1>1, <1>2, <1>9, e_ConstantTypes, SMT
<1> DEFINE Here(i) == e_data[i] \in Evaluation!Elems(e_Recorded')
<1>11. \A i \in 1 .. w : Here(i) <=> e_outcome[e_data[i]]
    <2>1. ASSUME NEW i \in 1 .. w PROVE Here(i) <=> e_outcome[e_data[i]]
        <3>1. CASE i = w
            BY <1>5, <1>8, <3>1
        <3>2. CASE i \in 1 .. w - 1
            <4>1. e_data[i] # x
                BY <1>3, <1>9, <1>10, <3>2
            <4>2. e_data[i] \in Evaluation!Elems(e_Recorded) <=> e_outcome[e_data[i]]
                BY <1>9, <1>10, <3>2
            <4> QED BY <1>8, <4>1, <4>2
        <3> QED BY <1>10, <3>1, <3>2
    <2> QED BY <2>1
<1>12. \A i \in w + 1 .. Len(e_data) : ~Here(i)
    <2>1. ASSUME NEW i \in w + 1 .. Len(e_data) PROVE ~Here(i)
        <3>1. e_data[i] # x /\ e_data[i] \notin Evaluation!Elems(e_Recorded)
            BY <1>3, <1>9, <1>10
        <3> QED BY <1>8, <3>1
    <2> QED BY <2>1
<1>13. e_WrittenInv'
    BY <1>1, <1>9, <1>10, <1>11, <1>12 DEF e_WrittenInv
<1>14. Evaluation!TypeOK'
    BY <1>1, <1>8, <1>10 DEF e_IInv, Evaluation!TypeOK
<1>15. e_RunInv'
    BY <1>1, <1>13 DEF e_IInv, e_RunInv
<1> QED BY <1>1, <1>8, <1>14, <1>15 DEF e_IInv

(* Moving records from the buffer to the disk changes none.                 *)
LEMMA e_MovedInv ==
    ASSUME e_IInv, e_pc = "writing", e_Recorded' = e_Recorded,
           e_file' \in Seq(Evaluation!Questions),
           e_buffer' \in Seq(Evaluation!Questions), e_torn' \in BOOLEAN,
           e_pc' = "writing" \/ (e_pc' = "idle" /\ e_buffer' = << >>),
           UNCHANGED <<e_runs, e_force, e_data, e_asked, e_outcome, e_written>>
    PROVE  e_IInv'
<1>1. Evaluation!TypeOK'
    BY DEF e_IInv, Evaluation!TypeOK
<1>2. e_RunInv /\ e_WrittenInv
    BY DEF e_IInv, e_RunInv
<1>3. e_WrittenInv'
    BY <1>2 DEF e_WrittenInv
<1>4. e_pc' = "writing" => e_RunInv'
    BY <1>2, <1>3 DEF e_RunInv
<1> QED BY <1>1, <1>4 DEF e_IInv

LEMMA e_FlushStep == ASSUME e_Assumptions, e_IInv, Evaluation!Flush
      PROVE e_IInv' /\ e_Recorded' = e_Recorded
<1>1. PICK n \in 0 .. Len(e_buffer) :
          e_file' = e_file \o SubSeq(e_buffer, 1, n)
              /\ e_buffer' = SubSeq(e_buffer, n + 1, Len(e_buffer))
    BY DEF Evaluation!Flush
<1>2. /\ e_pc = "writing" /\ e_torn' \in BOOLEAN /\ e_pc' = e_pc
      /\ UNCHANGED <<e_runs, e_force, e_data, e_asked, e_outcome, e_written>>
    BY DEF Evaluation!Flush
<1>3. e_buffer \in Seq(Evaluation!Questions) /\ e_file \in Seq(Evaluation!Questions)
    BY DEF e_IInv, Evaluation!TypeOK
<1>4. /\ SubSeq(e_buffer, 1, n) \in Seq(Evaluation!Questions)
           /\ e_buffer' \in Seq(Evaluation!Questions)
      /\ e_file' \o e_buffer' = e_file \o e_buffer
    BY <1>1, <1>3, e_ConcatSplit
<1>5. e_file' \in Seq(Evaluation!Questions)
    BY <1>1, <1>3, <1>4, ConcatProperties
<1>6. e_Recorded' = e_Recorded
    BY <1>4 DEF e_Recorded
<1> QED BY <1>2, <1>4, <1>5, <1>6, e_MovedInv

LEMMA e_FinishStep == ASSUME e_Assumptions, e_IInv, Evaluation!Finish
      PROVE e_IInv' /\ e_Recorded' = e_Recorded
<1>1. /\ e_pc = "writing" /\ e_pc' = "idle" /\ e_file' = e_file \o e_buffer /\ e_buffer' = << >>
      /\ e_torn' = FALSE /\ UNCHANGED <<e_runs, e_force, e_data, e_asked, e_outcome, e_written>>
    BY DEF Evaluation!Finish
<1>2. e_buffer \in Seq(Evaluation!Questions) /\ e_file \in Seq(Evaluation!Questions)
    /\ << >> \in Seq(Evaluation!Questions)
    BY DEF e_IInv, Evaluation!TypeOK
<1>3. e_file' \in Seq(Evaluation!Questions)
    BY <1>1, <1>2, ConcatProperties
<1>4. e_Recorded' = e_Recorded
    BY <1>1, <1>2, <1>3, ConcatEmptySeq DEF e_Recorded
<1> QED BY <1>1, <1>2, <1>3, <1>4, e_MovedInv

LEMMA e_KillStep == ASSUME e_Assumptions, e_IInv, Evaluation!Kill PROVE e_IInv'
<1>1. /\ e_pc' = "idle" /\ e_buffer' = << >> /\ e_asked' = {}
      /\ UNCHANGED <<e_runs, e_force, e_data, e_outcome, e_written, e_file, e_torn>>
    BY DEF Evaluation!Kill
<1>2. e_buffer \in Seq(Evaluation!Questions) /\ e_file \in Seq(Evaluation!Questions)
    /\ << >> \in Seq(Evaluation!Questions)
    BY DEF e_IInv, Evaluation!TypeOK
<1>3. e_Recorded' = e_file
    BY <1>1, <1>2, ConcatEmptySeq DEF e_Recorded
<1>4. e_Distinct(e_file)
    BY <1>2, e_PrefixDistinct DEF e_IInv, e_Recorded
<1>5. Cardinality({}) <= NProc
    <2>1. Cardinality({}) = 0
        BY FS_EmptySet
    <2> QED BY <2>1, e_ConstantTypes, SMT
<1>6. Evaluation!TypeOK'
    BY e_FiniteSets, <1>1, <1>2, <1>5 DEF e_IInv, Evaluation!TypeOK
<1> QED BY <1>1, <1>3, <1>4, <1>6 DEF e_IInv

LEMMA e_InvStep == ASSUME e_Assumptions, e_IInv, [Evaluation!Next]_(Evaluation!vars) PROVE e_IInv'
<1>1. CASE Evaluation!StartRun \/ Evaluation!Flush \/ Evaluation!Kill \/ Evaluation!OpenFile
    \/ Evaluation!WriteOne \/ Evaluation!Finish
    BY <1>1, e_StartStep, e_FlushStep, e_KillStep, e_OpenStep, e_WriteStep, e_FinishStep
<1>2. CASE Evaluation!GiveUp
    BY <1>2 DEF Evaluation!GiveUp, e_IInv, Evaluation!TypeOK, e_Recorded
<1>3. CASE \E q \in Evaluation!Questions : Evaluation!Ask(q) \/ Evaluation!Return(q)
    BY <1>3, e_AskStep, e_ReturnStep
<1>4. CASE UNCHANGED Evaluation!vars
    BY <1>4 DEF Evaluation!vars, e_IInv, Evaluation!TypeOK, e_Recorded, e_RunInv, e_WrittenInv
<1> QED BY <1>1, <1>2, <1>3, <1>4 DEF Evaluation!Next, Evaluation!Work

LEMMA e_Promises == e_IInv => Evaluation!TypeOK /\ Evaluation!NoAnswerTwice
<1>1. ASSUME e_IInv PROVE e_Recorded \in Seq(Evaluation!Questions) /\ e_Distinct(e_Recorded)
    BY <1>1, ConcatProperties DEF e_IInv, Evaluation!TypeOK, e_Recorded
<1> QED BY e_FiniteSets, <1>1, e_DistinctCount DEF e_IInv, e_Recorded, Evaluation!NoAnswerTwice

LEMMA e_FinishRecords ==
    ASSUME e_Assumptions, e_IInv, Evaluation!Finish
    PROVE  \A q \in Evaluation!Elems(e_data) : q \in Evaluation!Elems(e_file') <=> e_outcome[q]
<1>1. /\ e_pc = "writing" /\ e_written = Len(e_data) /\ e_file' = e_Recorded
    BY DEF Evaluation!Finish, e_Recorded
<1>2. \A i \in 1 .. Len(e_data) : e_data[i] \in Evaluation!Elems(e_file') <=> e_outcome[e_data[i]]
    BY <1>1 DEF e_IInv, e_RunInv, e_WrittenInv
<1>3. DOMAIN e_data = 1 .. Len(e_data)
    BY LenProperties DEF e_IInv, Evaluation!TypeOK
<1> QED BY <1>2, <1>3 DEF Evaluation!Elems

(* What is on disk is a prefix of what will be.                             *)
LEMMA e_PrefixStays ==
    ASSUME NEW U, NEW s \in Seq(U), NEW t \in Seq(U)
    PROVE  \A i \in DOMAIN s : i \in DOMAIN (s \o t) /\ (s \o t)[i] = s[i]
<1>1. /\ Len(s) \in Nat /\ Len(t) \in Nat /\ DOMAIN s = 1 .. Len(s)
      /\ s \o t \in Seq(U) /\ Len(s \o t) = Len(s) + Len(t)
      /\ \A i \in 1 .. Len(s) + Len(t) : (s \o t)[i] = IF i <= Len(s) THEN s[i] ELSE t[i - Len(s)]
    BY ConcatProperties, LenProperties
<1>2. DOMAIN (s \o t) = 1 .. Len(s) + Len(t)
    BY <1>1, LenProperties
<1>3. \A i \in 1 .. Len(s) : i \in 1 .. Len(s) + Len(t) /\ i <= Len(s)
    BY <1>1, SMT
<1> QED BY <1>1, <1>2, <1>3

LEMMA e_SavedStays ==
    ASSUME e_IInv, [Evaluation!Next]_(Evaluation!vars), ~e_force
    PROVE  \A i \in DOMAIN e_file : i \in DOMAIN e_file' /\ e_file'[i] = e_file[i]
<1>1. e_buffer \in Seq(Evaluation!Questions) /\ e_file \in Seq(Evaluation!Questions)
    BY DEF e_IInv, Evaluation!TypeOK
<1>2. CASE e_file' = e_file
    BY <1>2
<1>3. CASE Evaluation!Flush
    <2>1. PICK n \in 0 .. Len(e_buffer) : e_file' = e_file \o SubSeq(e_buffer, 1, n)
        BY <1>3 DEF Evaluation!Flush
    <2>2. SubSeq(e_buffer, 1, n) \in Seq(Evaluation!Questions)
        BY <1>1, e_ConcatSplit
    <2> QED BY <1>1, <2>1, <2>2, e_PrefixStays
<1>4. CASE Evaluation!Finish
    BY <1>1, <1>4, e_PrefixStays DEF Evaluation!Finish
<1>5. CASE Evaluation!StartRun \/ Evaluation!OpenFile \/ Evaluation!WriteOne \/ Evaluation!GiveUp
    \/ Evaluation!Kill
    BY <1>2, <1>5 DEF Evaluation!StartRun, Evaluation!OpenFile, Evaluation!WriteOne,
        Evaluation!GiveUp, Evaluation!Kill
<1>6. CASE \E q \in Evaluation!Questions : Evaluation!Ask(q) \/ Evaluation!Return(q)
    BY <1>2, <1>6 DEF Evaluation!Ask, Evaluation!Return
<1>7. CASE UNCHANGED Evaluation!vars
    BY <1>2, <1>7 DEF Evaluation!vars
<1> QED BY <1>3, <1>4, <1>5, <1>6, <1>7 DEF Evaluation!Next, Evaluation!Work

-----------------------------------------------------------------------------
(* All the readers together                                                *)

LEMMA BoundsAreGood == b_Assumptions(served) /\ b_Assumptions(faulted) /\ e_Assumptions
BY InstancesAssumption DEF b_Assumptions, e_Assumptions

(* The others keep their invariants, whichever of them runs.               *)
AsyncInv  == IF model = "windows" THEN WindowsP!IInv ELSE BatchP!IInv
ClientInv == IF model = "faulted" THEN b_IInv(faulted) ELSE b_IInv(served) /\ b_ServedInv(served)
OthersInv == AsyncInv /\ ClientInv /\ e_IInv

LEMMA OthersInvInit == InitOfAll => OthersInv
<1> SUFFICES ASSUME InitOfAll PROVE OthersInv
    OBVIOUS
<1>1. AsyncInv
    BY WindowsSteps, WindowsAssumptions, WindowsP!InitInv, BatchSteps, BatchAssumptions,
        BatchP!InitInv
    DEF InitOfAll, AsyncInv
<1>2. ClientInv
    BY BoundsAreGood, b_InitInv, b_ServedInit DEF InitOfAll, ClientInv
<1>3. e_IInv
    BY BoundsAreGood, e_InitInv DEF InitOfAll
<1> QED BY <1>1, <1>2, <1>3 DEF OthersInv

(* Whichever reader runs, each of the others takes steps of its own only.  *)
LEMMA StepsOfEach ==
    ASSUME [NextOfOne]_allVars
    PROVE  /\ model' = model
           /\ model = "windows" => [Windows!Next]_(Windows!vars)
           /\ model # "windows" => [Batch!Next]_(Batch!vars)
           /\ model = "batch" => Batch!Next \/ UNCHANGED asyncVars
           /\ model = "faulted" => [Client(faulted)!Next]_(Client(faulted)!vars)
           /\ model # "faulted" => [Client(served)!Next]_(Client(served)!vars)
           /\ model = "served" => Client(served)!Next \/ UNCHANGED boxedVars
           /\ [Evaluation!Next]_(Evaluation!vars)
<1>1. UNCHANGED asyncVars => UNCHANGED Windows!vars /\ UNCHANGED Batch!vars
    BY DEF asyncVars, Windows!vars, Batch!vars
<1>2. UNCHANGED boxedVars => UNCHANGED Client(faulted)!vars /\ UNCHANGED Client(served)!vars
    BY DEF boxedVars, Client!vars
<1>3. UNCHANGED runVars => UNCHANGED Evaluation!vars
    BY DEF runVars, Evaluation!vars
<1>4. CASE UNCHANGED allVars
    <2>1. model' = model /\ UNCHANGED asyncVars /\ UNCHANGED boxedVars /\ UNCHANGED runVars
        BY <1>4, Zenon DEF allVars
    <2> QED BY <1>1, <1>2, <1>3, <2>1, Zenon
<1>5. CASE NextOfOne
    <2>1. model' = model
        BY <1>5, Zenon DEF NextOfOne
    <2>2. CASE model = "synchronous" /\ UNCHANGED asyncVars /\ UNCHANGED boxedVars
        /\ UNCHANGED runVars
        BY <1>1, <1>2, <1>3, <2>1, <2>2
    <2>3. CASE model = "windows" /\ Windows!Next /\ UNCHANGED boxedVars /\ UNCHANGED runVars
        BY <1>2, <1>3, <2>1, <2>3
    <2>4. CASE model = "batch" /\ Batch!Next /\ UNCHANGED boxedVars /\ UNCHANGED runVars
        BY <1>2, <1>3, <2>1, <2>4
    <2>5. CASE model = "served" /\ Client(served)!Next /\ UNCHANGED asyncVars /\ UNCHANGED runVars
        BY <1>1, <1>3, <2>1, <2>5
    <2>6. CASE model = "faulted" /\ Client(faulted)!Next /\ UNCHANGED asyncVars /\ UNCHANGED runVars
        BY <1>1, <1>3, <2>1, <2>6
    <2>7. CASE model = "evaluation" /\ Evaluation!Next /\ UNCHANGED asyncVars /\ UNCHANGED boxedVars
        BY <1>1, <1>2, <2>1, <2>7
    <2> QED BY <1>5, <2>2, <2>3, <2>4, <2>5, <2>6, <2>7, Zenon DEF NextOfOne
<1> QED BY <1>4, <1>5

LEMMA AsyncInvNext == ASSUME AsyncInv, [NextOfOne]_allVars PROVE AsyncInv'
<1>1. model' = model
    BY StepsOfEach
<1>2. CASE model = "windows"
    <2>1. WindowsP!IInv /\ [WindowsP!Next]_(WindowsP!vars)
        BY <1>2, StepsOfEach, WindowsSteps DEF AsyncInv
    <2>2. WindowsP!IInv'
        BY <2>1, WindowsAssumptions, WindowsP!InvStep
    <2> QED BY <1>1, <1>2, <2>2 DEF AsyncInv
<1>3. CASE model # "windows"
    <2>1. BatchP!IInv /\ [BatchP!Next]_(BatchP!vars)
        BY <1>3, StepsOfEach, BatchSteps DEF AsyncInv
    <2>2. BatchP!IInv'
        BY <2>1, BatchAssumptions, BatchP!InvStep
    <2> QED BY <1>1, <1>3, <2>2 DEF AsyncInv
<1> QED BY <1>2, <1>3

LEMMA ClientInvNext == ASSUME ClientInv, [NextOfOne]_allVars PROVE ClientInv'
<1>1. model' = model
    BY StepsOfEach
<1>2. CASE model = "faulted"
    <2>1. b_IInv(faulted) /\ [Client(faulted)!Next]_(Client(faulted)!vars)
        BY <1>2, StepsOfEach DEF ClientInv
    <2>2. b_IInv(faulted)'
        BY <2>1, BoundsAreGood, b_InvStep
    <2> QED BY <1>1, <1>2, <2>2 DEF ClientInv
<1>3. CASE model # "faulted"
    <2>1. b_IInv(served) /\ b_ServedInv(served) /\ [Client(served)!Next]_(Client(served)!vars)
        BY <1>3, StepsOfEach DEF ClientInv
    <2>2. b_IInv(served)'
        BY <2>1, BoundsAreGood, b_InvStep
    <2>3. b_ServedInv(served)'
        <3>1. CASE Client(served)!Next
            BY <2>1, <3>1, BoundsAreGood, b_ServedStep DEF served
        <3>2. CASE UNCHANGED Client(served)!vars
            BY <2>1, <3>2 DEF Client!vars, b_ServedInv, Client!Notes, Client!Chunks
        <3> QED BY <2>1, <3>1, <3>2
    <2> QED BY <1>1, <1>3, <2>2, <2>3 DEF ClientInv
<1> QED BY <1>2, <1>3

LEMMA OthersInvNext == OthersInv /\ [NextOfOne]_allVars => OthersInv'
<1> SUFFICES ASSUME OthersInv, [NextOfOne]_allVars PROVE OthersInv'
    OBVIOUS
<1>1. AsyncInv' /\ ClientInv'
    BY AsyncInvNext, ClientInvNext DEF OthersInv
<1>2. e_IInv'
    BY StepsOfEach, BoundsAreGood, e_InvStep DEF OthersInv
<1> QED BY <1>1, <1>2 DEF OthersInv

LEMMA OthersInvHolds == SpecOfAll => []OthersInv
BY OthersInvInit, OthersInvNext, PTL DEF SpecOfAll

(* Whoever else reads: the windows of a pass ask every chunk once, its     *)
(* turns are in one order and its merge is given the news of the pass and  *)
(* nothing else, a batch that returns is complete, the memory of the       *)
(* evaluation client and its reported passes are what was merged and read, *)
(* and no question is answered twice (rollout of async_memory.py,          *)
(* async_query_llm of parallel_boxed.py, get_pred of ruler_general.py).    *)
THEOREM EveryReaderReadsAndAnswers == SpecOfAll => []OthersReadAndAnswer
<1>1. ASSUME OthersInv PROVE OthersReadAndAnswer
    <2>1. WindowsPartitionThePass /\ ConversationsAreInOrder /\ WindowsAreMergedWhole
        BY <1>1, WindowsPromises
        DEF OthersInv, AsyncInv, WindowsPartitionThePass, ConversationsAreInOrder,
            WindowsAreMergedWhole
    <2>2. ReturnedBatchIsComplete
        BY <1>1, BatchPromises DEF OthersInv, AsyncInv, ReturnedBatchIsComplete
    <2>3. MemoryIsWhatWasMerged /\ ReportedPassesWereRead
        BY <1>1, b_Promises DEF OthersInv, ClientInv, MemoryIsWhatWasMerged, ReportedPassesWereRead
    <2>4. NoAnswerTwice
        BY <1>1, e_Promises DEF OthersInv, NoAnswerTwice
    <2> QED BY <2>1, <2>2, <2>3, <2>4 DEF OthersReadAndAnswer
<1> QED BY <1>1, OthersInvHolds, PTL

(* Every reader keeps the types of its state. *)
THEOREM EveryReaderTypeCorrect == SpecOfAll => []TypesOK
<1>1. ASSUME OthersInv, TypeInv PROVE TypesOK
    <2>1. TypeOK
        BY <1>1 DEF TypeInv
    <2>2. IF model = "windows" THEN Windows!TypeOK ELSE Batch!TypeOK
        BY <1>1, WindowsTypes, BatchTypes DEF OthersInv, AsyncInv
    <2>3. IF model = "faulted" THEN Client(faulted)!TypeOK ELSE Client(served)!TypeOK
        BY <1>1, b_Promises DEF OthersInv, ClientInv
    <2>4. Evaluation!TypeOK
        BY <1>1, e_Promises DEF OthersInv
    <2> QED BY <2>1, <2>2, <2>3, <2>4 DEF TypesOK
<1>2. InitOfAll => TypeInv
    BY TypeInvInit DEF InitOfAll
<1>3. TypeInv /\ [NextOfOne]_allVars => TypeInv'
    <2>1. [NextOfOne]_allVars => [Next]_vars
        BY DEF NextOfOne, allVars
    <2> QED BY <2>1, TypeInvNext
<1> QED BY <1>1, <1>2, <1>3, OthersInvHolds, PTL DEF SpecOfAll

(* Over any number of runs, killed or forced at any point: a run that      *)
(* finishes leaves exactly its unanswered questions to the next one, and   *)
(* what is on disk stays there until a run is forced (get_pred and         *)
(* load_existing_ids of the evaluation scripts).                           *)
THEOREM AnswersSurvive == SpecOfAll => AnswersAreKept
<1>1. ASSUME OthersInv, [NextOfOne]_allVars
      PROVE  [Evaluation!Finish => \A q \in Evaluation!Elems(e_data) :
                                      q \in Evaluation!Elems(e_file') <=> e_outcome[q]]_(Evaluation!vars)
    BY <1>1, BoundsAreGood, e_FinishRecords DEF OthersInv
<1>2. ASSUME OthersInv, [NextOfOne]_allVars
      PROVE  [~e_force => \A i \in DOMAIN e_file : i \in DOMAIN e_file'
             /\ e_file'[i] = e_file[i]]_(Evaluation!vars)
    BY <1>2, StepsOfEach, e_SavedStays DEF OthersInv
<1> QED BY <1>1, <1>2, OthersInvHolds, PTL
        DEF SpecOfAll, AnswersAreKept, FinishedRunIsRecorded, SavedAnswersStay,
            Evaluation!FinishedRunIsRecorded, Evaluation!SavedAnswersStay

(* The items of an asynchronous batch follow ReadSelectMerge, and so does  *)
(* a question of the evaluation client while no request fails.             *)
THEOREM OthersFollowTheWorkflow == SpecOfAll => OthersImplementWorkflow
<1>1. InitOfAll => (model = "batch" => Batch!Workflow!Init)
    BY BatchFollows DEF InitOfAll
<1>2. InitOfAll => (model = "served" => Client(served)!Workflow!Init)
    BY b_WorkflowInit DEF InitOfAll
<1>3. ASSUME OthersInv, OthersInv', [NextOfOne]_allVars
      PROVE  [model = "batch" => Batch!Workflow!Next]_asyncVars
    <2> SUFFICES ASSUME model = "batch", Batch!Next PROVE Batch!Workflow!Next
        BY <1>3, StepsOfEach
    <2>1. model' = model
        BY <1>3, StepsOfEach
    <2>2. BatchP!IInv /\ BatchP!IInv'
        BY <1>3, <2>1 DEF OthersInv, AsyncInv
    <2> QED BY <2>2, BatchFollows
<1>4. ASSUME OthersInv, [NextOfOne]_allVars
      PROVE  [model = "served" => Client(served)!Workflow!Next]_boxedVars
    <2> SUFFICES ASSUME model = "served", Client(served)!Next PROVE Client(served)!Workflow!Next
        BY <1>4, StepsOfEach
    <2>1. b_IInv(served) /\ b_ServedInv(served)
        BY <1>4 DEF OthersInv, ClientInv
    <2> QED BY <2>1, BoundsAreGood, b_ServedStep DEF served
<1> QED BY <1>1, <1>2, <1>3, <1>4, OthersInvHolds, PTL
        DEF SpecOfAll, OthersImplementWorkflow, BatchImplementsWorkflow, ClientImplementsWorkflow
=============================================================================
