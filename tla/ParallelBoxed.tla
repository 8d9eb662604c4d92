--------------------------- MODULE ParallelBoxed ---------------------------
(***************************************************************************)
(* One question of the evaluation client: async_query_llm of               *)
(* taskutils/memory_eval/utils/parallel_boxed.py and of its two variants,  *)
(* parallel_boxed_no_merge.py (the notes are joined without a request) and *)
(* parallel_boxed_no_check.py (the reader is not asked for a verdict).     *)
(*                                                                         *)
(* The coroutine shares nothing with the others, so an action is all the   *)
(* code from one await to the next.  A request may fail or come back       *)
(* blank: _query_single turns every failure into None.  A memory is its    *)
(* lineage, as in ReadSelectMerge: per merge the set of chunks whose notes *)
(* went into it; << >> is a memory that holds nothing.                     *)
(*                                                                         *)
(* An operator introduced by "Slip:" is not part of the model: it is the   *)
(* definition that follows it with a plausible mistake.                    *)
(***************************************************************************)
EXTENDS Integers, Sequences, FiniteSets

CONSTANTS
    MaxChunks,  \* bound on the chunks of a context
    MaxPasses,  \* PARALLEL_MAX_PASSES
    Faulty      \* whether requests may fail or come back blank

MaxChunksAssumption == MaxChunks \in Nat
MaxPassesAssumption == MaxPasses \in Nat \ {0}
FaultyAssumption    == Faulty \in BOOLEAN

VARIABLES
    variant,        \* which of the three modules answers the question
    nchunks,        \* chunks of the context
    stage,          \* the request the coroutine waits for
    pass_num,       \* passes completed
    passes_used,    \* reported as parallel_passes_used
    converged,      \* reported as parallel_converged
    global_memory,  \* lineage of the memory
    merge_memories, \* lineage of the text the merge is asked for
    response,       \* the answer: "none", "answer" or "empty"
    passes          \* history: what became of each pass

vars == <<variant, nchunks, stage, pass_num, passes_used, converged,
          global_memory, merge_memories, response, passes>>

Variants == {"merge", "no_merge", "no_check"}
Chunks   == 0 .. nchunks - 1
Replies  == {"notes", "no"} \cup IF Faulty THEN {"blank", "failed"} ELSE {}
Lineages == Seq(SUBSET (0 .. MaxChunks - 1))

(* A reply is news unless it is missing or says no. *)
HasNewInfo(r) == r \in {"notes", "blank"}
(* Without the check every reply that is not blank is. *)
HasOutput(r) == r = "notes"

Notes(replies) == {k \in DOMAIN replies : replies[k] = "notes"}
News(replies)  == {k \in DOMAIN replies :
    IF variant = "no_check" THEN HasOutput(replies[k]) ELSE HasNewInfo(replies[k])}

(* _build_merge_memories: the previous memory, then the notes that are not  *)
(* blank.                                                                   *)
BuildMergeMemories(previous, notes) ==
    IF notes = {} THEN previous ELSE Append(previous, notes)

Init ==
    /\ variant \in Variants
    /\ nchunks \in 0 .. MaxChunks
    /\ stage = "reading"
    /\ pass_num = 0
    /\ passes_used = 1
    /\ converged = FALSE
    /\ global_memory = << >>
    /\ merge_memories = << >>
    /\ response = "none"
    /\ passes = << >>

(* Slip: one pass less. *)
EndPassOffByOne ==
    /\ pass_num' = pass_num + 1
    /\ IF pass_num + 1 < MaxPasses
       THEN stage' = "reading" /\ passes_used' = pass_num + 1
       ELSE stage' = "answering" /\ UNCHANGED passes_used
(* The for loop goes on to the next pass, or is through. *)
EndPass ==
    /\ pass_num' = pass_num + 1
    /\ IF pass_num + 1 < MaxPasses
       THEN stage' = "reading" /\ passes_used' = pass_num + 2
       ELSE stage' = "answering" /\ UNCHANGED passes_used

Remember(replies, outcome) ==
    passes' = Append(passes, [replies |-> replies, outcome |-> outcome])

(* The replies of a pass hold nothing new: stop reading.                    *)
Converge(replies) ==
    /\ News(replies) = {}
    /\ converged' = TRUE
    /\ stage' = "answering"
    /\ Remember(replies, "converged")
    /\ UNCHANGED <<pass_num, passes_used, global_memory, merge_memories>>

(* Without a merge request the joined notes are the memory. *)
Join(replies) ==
    /\ News(replies) # {} /\ variant = "no_merge"
    /\ global_memory' = BuildMergeMemories(global_memory, Notes(replies))
    /\ Remember(replies, "kept")
    /\ EndPass
    /\ UNCHANGED <<converged, merge_memories>>

AskMerge(replies) ==
    /\ News(replies) # {} /\ variant # "no_merge"
    /\ merge_memories' = BuildMergeMemories(global_memory, Notes(replies))
    /\ stage' = "merging"
    /\ Remember(replies, "asked")
    /\ UNCHANGED <<pass_num, passes_used, converged, global_memory>>

(* asyncio.gather returns the replies to all chunk requests of the pass.    *)
ReadPass ==
    /\ stage = "reading"
    /\ \E replies \in [Chunks -> Replies] :
          /\ variant = "no_check" => \A k \in Chunks : replies[k] # "no"
          /\ Converge(replies) \/ Join(replies) \/ AskMerge(replies)
    /\ UNCHANGED <<variant, nchunks, response>>

MergeReplies == {"kept"} \cup IF Faulty THEN {"blank", "failed"} ELSE {}

(* Slip: a failed merge empties the memory. *)
MergedUnchecked(reply) == IF reply = "kept" THEN merge_memories ELSE << >>
(* A blank merge reply is a memory; only a failed one leaves the old.       *)
Merged(reply) ==
    IF reply = "kept" THEN merge_memories
    ELSE IF reply = "blank" THEN << >> ELSE global_memory

MergeReply ==
    /\ stage = "merging"
    /\ \E reply \in MergeReplies :
          /\ global_memory' = Merged(reply)
          /\ passes' = [passes EXCEPT ![Len(passes)].outcome = reply]
    /\ EndPass
    /\ UNCHANGED <<variant, nchunks, converged, merge_memories, response>>

(* Slip: an exception of the final request is passed on. *)
FinalReplyRaises ==
    /\ stage = "answering"
    /\ \/ stage' = "done" /\ response' = "answer"
       \/ Faulty /\ stage' = "raised" /\ UNCHANGED response
    /\ UNCHANGED <<variant, nchunks, pass_num, passes_used, converged,
                   global_memory, merge_memories, passes>>
(* Every way the final request can end returns a record.                    *)
FinalReply ==
    /\ stage = "answering"
    /\ stage' = "done"
    /\ response' \in {"answer"} \cup IF Faulty THEN {"empty"} ELSE {}
    /\ UNCHANGED <<variant, nchunks, pass_num, passes_used, converged,
                   global_memory, merge_memories, passes>>

Next == ReadPass \/ MergeReply \/ FinalReply

(* The client awaits one request after another, and every request ends: in  *)
(* a reply, an error status, or the session's time limit.                   *)
Spec == Init /\ [][Next]_vars /\ WF_vars(Next)

-----------------------------------------------------------------------------
(* Type correctness of the coroutine's locals. *)
TypeOK ==
    /\ variant \in Variants
    /\ nchunks \in 0 .. MaxChunks
    /\ stage \in {"reading", "merging", "answering", "done"}
    /\ pass_num \in 0 .. MaxPasses
    /\ passes_used \in 1 .. MaxPasses
    /\ converged \in BOOLEAN
    /\ global_memory \in Lineages /\ merge_memories \in Lineages
    /\ response \in {"none", "answer", "empty"}
    /\ passes \in Seq([replies : [Chunks -> Replies],
                       outcome : {"asked", "converged", "kept", "blank", "failed"}])

Kept(p) == passes[p].outcome = "kept"
BlankAfter(p) == \E q \in p .. Len(passes) : passes[q].outcome = "blank"

(* Notes that one pass found are lost only with the merge they were given   *)
(* to, or when a later merge comes back blank; nothing else drops them,     *)
(* repeats them or changes their order (global_memory in the pass loop).    *)
MemoryIsWhatWasMerged ==
    LET safe == {p \in 1 .. Len(passes) :
                    Kept(p) /\ ~BlankAfter(p) /\ Notes(passes[p].replies) # {}}
    IN  /\ Len(global_memory) = Cardinality(safe)
        /\ \A p \in safe :
              global_memory[Cardinality({q \in safe : q <= p})] = Notes(passes[p].replies)

(* The record returned counts the passes the question was really read in,   *)
(* the last one included even if its merge failed, and claims convergence   *)
(* only if that last pass, and none before, was left without a merge.       *)
ReportedPassesWereRead ==
    stage \in {"answering", "done"} =>
        /\ passes_used = Len(passes)
        /\ \A p \in 1 .. Len(passes) :
              (passes[p].outcome = "converged") <=> (converged /\ p = Len(passes))
        /\ converged \/ passes_used = MaxPasses

(* Every question gets a record, whichever of its requests fail. *)
AlwaysReturns == <>(stage = "done" /\ response # "none")

(* While no request fails, the client follows the workflow that both        *)
(* training agents implement.                                               *)
Workflow == INSTANCE ReadSelectMerge WITH
    Samples <- {"question"},
    Chunks  <- 0 .. MaxChunks - 1,
    memory  <- [s \in {"question"} |-> global_memory],
    stage   <- [s \in {"question"} |->
                   IF stage = "done" THEN "answered"
                   ELSE IF stage = "answering" THEN "answering" ELSE "reading"],
    used    <- [s \in {"question"} |->
                   IF stage \in {"answering", "done"} THEN passes_used ELSE -1]
ImplementsWorkflow == Workflow!Spec
=============================================================================
