-------------------------- MODULE AsyncMemoryAgent --------------------------
(***************************************************************************)
(* The asynchronous PI-Mem agent (recurrent/impls/async_memory.py) under   *)
(* its generation manager (recurrent/async_generation_manager.py).  Every  *)
(* sample is a coroutine of its own; inside a pass its chunks are asked in *)
(* windows of chunk_parallelism_per_sample requests whose replies arrive   *)
(* in any order.  The proxy turns a failed request into an error value;    *)
(* the coroutine raises it after the last window of the pass, and the      *)
(* first coroutine that raises ends the whole batch.                       *)
(*                                                                         *)
(* Texts are abstracted to their lineage as in ReadSelectMerge.  Operators *)
(* introduced by "Slip:" are mistakes the properties notice, not the code. *)
(***************************************************************************)
EXTENDS Integers, Sequences, FiniteSets

CONSTANTS
    Samples,      \* items of the batch
    MaxChunks,    \* longest context of the batch, in chunks
    Parallelism,  \* config.chunk_parallelism_per_sample; 0: all at once
    MaxPasses     \* config.max_passes

SamplesAssumption     == IsFiniteSet(Samples) /\ Samples # {}
MaxChunksAssumption   == MaxChunks \in Nat
ParallelismAssumption == Parallelism \in Nat
MaxPassesAssumption   == MaxPasses \in Nat \ {0}

VARIABLES
    nchunks,         \* ceil(context_length / chunk_size) of each item
    at,              \* what each coroutine awaits
    final_pass_used, \* the pass each coroutine is in, from 1
    window,          \* first chunk of the window in flight
    pending,         \* chunks of the window without a reply
    replies,         \* replies to the chunks of this pass, keyed by chunk
    shown,           \* text the requests of this stage are built from
    global_memory,   \* lineage of each item's memory
    conversations,   \* finished turns of each item, in the order appended
    batch            \* run_llm_loop: "running", "returned" or "raised"

vars == <<nchunks, at, final_pass_used, window, pending, replies, shown,
          global_memory, conversations, batch>>

Replies  == {"news", "none", "error"}
Memories == Seq(SUBSET (0 .. MaxChunks - 1))

Least(a, b) == IF a < b THEN a ELSE b
(* Slip: the default of chunk_parallelism is not filled in. *)
WidthAsConfigured(s) == Parallelism
(* chunk_parallelism after its default is filled in. *)
Width(s) == IF Parallelism > 0 THEN Parallelism
            ELSE IF nchunks[s] > 1 THEN nchunks[s] ELSE 1
(* Slip: the windows overlap by one chunk. *)
WindowOverlapping(s, start) == start .. Least(start + Width(s) + 1, nchunks[s]) - 1
Window(s, start) == start .. Least(start + Width(s), nchunks[s]) - 1
LastWindow(s) == window[s] + Width(s) >= nchunks[s]

(* Slip: a window's outputs replace those of the earlier windows. *)
NewsOfLastWindow(s) ==
    {k \in DOMAIN replies[s] : k >= window[s] /\ replies[s][k] = "news"}
News(s) == {k \in DOMAIN replies[s] : replies[s][k] = "news"}
Failed(s) == \E k \in DOMAIN replies[s] : replies[s][k] = "error"
Turn(s, kind, chunk, news) ==
    [kind |-> kind, chunk |-> chunk, seen |-> shown[s], news |-> news,
     pass |-> final_pass_used[s]]
(* Slip: only the turns with news are appended. *)
ChunkTurnsWithNews(s) ==
    LET all == [k \in 1 .. nchunks[s] |->
                  Turn(s, "chunk", k - 1, replies[s][k - 1] = "news")]
    IN  SelectSeq(all, LAMBDA t : t.news)
(* The turns of a pass are appended in chunk order when all have arrived.   *)
ChunkTurns(s) ==
    [k \in 1 .. nchunks[s] |-> Turn(s, "chunk", k - 1, replies[s][k - 1] = "news")]

Init ==
    /\ nchunks \in [Samples -> 0 .. MaxChunks]
    /\ at = [s \in Samples |-> "chunks"]
    /\ final_pass_used = [s \in Samples |-> 1]
    /\ window = [s \in Samples |-> 0]
    /\ pending = [s \in Samples |-> Window(s, 0)]
    /\ replies = [s \in Samples |-> << >>]
    /\ shown = [s \in Samples |-> << >>]
    /\ global_memory = [s \in Samples |-> << >>]
    /\ conversations = [s \in Samples |-> << >>]
    /\ batch = "running"

-----------------------------------------------------------------------------
(* An error value is raised out of the coroutine; gather hands it to        *)
(* run_llm_loop and the other coroutines are cancelled with the event loop. *)
Raise == /\ batch' = "raised"
         /\ UNCHANGED <<nchunks, at, final_pass_used, window, pending, replies,
                        shown, global_memory, conversations>>

(* A chunk request completes, in any order within its window. *)
ChunkReply(s) ==
    /\ batch = "running" /\ at[s] = "chunks"
    /\ \E k \in pending[s], r \in Replies :
        /\ pending' = [pending EXCEPT ![s] = @ \ {k}]
        /\ replies' = [replies EXCEPT ![s] =
              [j \in DOMAIN @ \cup {k} |-> IF j = k THEN r ELSE @[j]]]
    /\ UNCHANGED <<nchunks, at, final_pass_used, window, shown, global_memory,
                   conversations, batch>>

(* The gather of a window returns and the next window is sent. *)
NextWindow(s) ==
    /\ batch = "running" /\ at[s] = "chunks" /\ pending[s] = {}
    /\ ~LastWindow(s)
    /\ window' = [window EXCEPT ![s] = @ + Width(s)]
    /\ pending' = [pending EXCEPT ![s] = Window(s, window[s] + Width(s))]
    /\ UNCHANGED <<nchunks, at, final_pass_used, replies, shown, global_memory,
                   conversations, batch>>

(* Ask one more request of s, after its conversations gained turns.         *)
Await(s, stage, text, turns) ==
    /\ at' = [at EXCEPT ![s] = stage]
    /\ shown' = [shown EXCEPT ![s] = text]
    /\ conversations' = [conversations EXCEPT ![s] = @ \o turns]

(* No chunk had news: ask for the answer.  Otherwise ask for the merge.     *)
Proceed(s) ==
    /\ IF News(s) = {}
       THEN Await(s, "final", global_memory[s], ChunkTurns(s))
       ELSE Await(s, "merge", Append(global_memory[s], News(s)), ChunkTurns(s))
    /\ UNCHANGED <<nchunks, final_pass_used, window, pending, replies,
                   global_memory, batch>>
(* Slip: an error reply is taken for a reply without news. *)
ExamineSwallowing(s) == Proceed(s)
(* Slip: only the replies of the last window are examined for errors. *)
ExamineLastWindow(s) ==
    IF \E k \in DOMAIN replies[s] : k >= window[s] /\ replies[s][k] = "error"
    THEN Raise ELSE Proceed(s)
(* The replies are examined in chunk order; the first error is raised.      *)
Examine(s) == IF Failed(s) THEN Raise ELSE Proceed(s)

(* The last window of the pass is complete. *)
PassDone(s) ==
    /\ batch = "running" /\ at[s] = "chunks" /\ pending[s] = {}
    /\ LastWindow(s)
    /\ Examine(s)

(* Slip: one pass too many. *)
MorePassesThanAllowed(s) == final_pass_used[s] <= MaxPasses
(* Slip: one pass too few. *)
MorePassesOffByOne(s) == final_pass_used[s] + 1 < MaxPasses
MorePasses(s) == final_pass_used[s] < MaxPasses

(* The merged text is the memory; the next pass asks its first window, or   *)
(* the passes are used up and the answer is asked.                          *)
MergeReply(s) ==
    /\ batch = "running" /\ at[s] = "merge"
    /\ global_memory' = [global_memory EXCEPT ![s] = shown[s]]
    /\ IF MorePasses(s)
       THEN /\ Await(s, "chunks", shown[s], <<Turn(s, "merge", -1, FALSE)>>)
            /\ final_pass_used' = [final_pass_used EXCEPT ![s] = @ + 1]
            /\ window' = [window EXCEPT ![s] = 0]
            /\ pending' = [pending EXCEPT ![s] = Window(s, 0)]
            /\ replies' = [replies EXCEPT ![s] = << >>]
       ELSE /\ Await(s, "final", shown[s], <<Turn(s, "merge", -1, FALSE)>>)
            /\ UNCHANGED <<final_pass_used, window, pending, replies>>
    /\ UNCHANGED <<nchunks, batch>>

FinalReply(s) ==
    /\ batch = "running" /\ at[s] = "final"
    /\ Await(s, "returned", shown[s], <<Turn(s, "final", -1, FALSE)>>)
    /\ UNCHANGED <<nchunks, final_pass_used, window, pending, replies,
                   global_memory, batch>>

(* The merge or the final request fails. *)
LateError(s) ==
    /\ batch = "running" /\ at[s] \in {"merge", "final"}
    /\ Raise

(* gather returns the outputs of all coroutines. *)
Gather ==
    /\ batch = "running"
    /\ \A s \in Samples : at[s] = "returned"
    /\ batch' = "returned"
    /\ UNCHANGED <<nchunks, at, final_pass_used, window, pending, replies,
                   shown, global_memory, conversations>>

Coroutine(s) == \/ ChunkReply(s) \/ NextWindow(s) \/ PassDone(s)
                \/ MergeReply(s) \/ FinalReply(s) \/ LateError(s)

Next == Gather \/ \E s \in Samples : Coroutine(s)

(* The servers answer every request (or fail it), and the event loop        *)
(* resumes every coroutine whose await is over.                             *)
Fairness == WF_vars(Gather) /\ \A s \in Samples : WF_vars(Coroutine(s))
Spec == Init /\ [][Next]_vars /\ Fairness

-----------------------------------------------------------------------------
(* Type correctness of the locals of rollout. *)
TypeOK ==
    /\ nchunks \in [Samples -> 0 .. MaxChunks]
    /\ at \in [Samples -> {"chunks", "merge", "final", "returned"}]
    /\ final_pass_used \in [Samples -> 1 .. MaxPasses]
    /\ window \in [Samples -> 0 .. MaxChunks]
    /\ pending \in [Samples -> SUBSET (0 .. MaxChunks - 1)]
    /\ \A s \in Samples : /\ DOMAIN replies[s] \subseteq 0 .. nchunks[s] - 1
                          /\ \A k \in DOMAIN replies[s] : replies[s][k] \in Replies
    /\ shown \in [Samples -> Memories]
    /\ global_memory \in [Samples -> Memories]
    /\ batch \in {"running", "returned", "raised"}

TurnsOf(s, kind) == {i \in DOMAIN conversations[s] : conversations[s][i].kind = kind}

(* While a pass is under way every chunk is in flight, answered or still to *)
(* come: no window skips a chunk and none asks a chunk twice.               *)
WindowsPartitionThePass ==
    \A s \in Samples : at[s] = "chunks" =>
        /\ pending[s] \cap DOMAIN replies[s] = {}
        /\ pending[s] \cup DOMAIN replies[s] =
              0 .. Least(window[s] + Width(s), nchunks[s]) - 1

(* The rows of an item are in one order, whatever the order of the replies: *)
(* the chunks of a pass from first to last, then its merge, and the answer  *)
(* behind everything (the comment at async_memory.py:256).                  *)
ConversationsAreInOrder ==
    \A s \in Samples : LET conv == conversations[s] IN
        /\ \A i \in DOMAIN conv : conv[i].kind = "chunk" =>
              \/ conv[i].chunk = 0 /\ (i = 1 \/ conv[i - 1].kind = "merge")
              \/ i > 1 /\ conv[i - 1].kind = "chunk" /\ conv[i].chunk = conv[i - 1].chunk + 1
        /\ \A i \in DOMAIN conv : conv[i].kind = "merge" =>
              i > 1 /\ conv[i - 1].kind = "chunk" /\ conv[i - 1].chunk = nchunks[s] - 1
        /\ \A i \in DOMAIN conv : conv[i].kind = "final" => i = Len(conv)

(* A merge is shown the memory its pass was read against and exactly the    *)
(* news of the chunks of that pass.                                         *)
MergeCarriesTheEvidence ==
    \A s \in Samples : \A i \in TurnsOf(s, "merge") :
        LET conv == conversations[s]
            read == {conv[j] : j \in {k \in TurnsOf(s, "chunk") : conv[k].pass = conv[i].pass}}
            news == {t.chunk : t \in {r \in read : r.news}}
        IN  news # {} /\ \A t \in read : conv[i].seen = Append(t.seen, news)

(* A batch that returns hides no failed request, and every item of it has   *)
(* one final row, its last, charged with the passes the item really read.   *)
ReturnedBatchIsComplete ==
    batch = "returned" => \A s \in Samples :
        LET conv == conversations[s]
            passes == {conv[i].pass : i \in TurnsOf(s, "chunk")}
        IN  /\ ~Failed(s)
            /\ TurnsOf(s, "final") = {Len(conv)}
            /\ final_pass_used[s] = IF passes = {} THEN 1 ELSE Cardinality(passes)
            /\ conv[Len(conv)].seen = global_memory[s]

(* Every batch ends, returned or raised. *)
BatchEnds == <>(batch # "running")

(* Every item follows the workflow ReadSelectMerge promises. *)
Workflow == INSTANCE ReadSelectMerge WITH
    Chunks <- 0 .. MaxChunks - 1,
    memory <- global_memory,
    stage  <- [s \in Samples |->
                 CASE at[s] = "returned" -> "answered"
                   [] at[s] = "final"    -> "answering"
                   [] OTHER              -> "reading"],
    used   <- [s \in Samples |->
                 IF at[s] \in {"final", "returned"} THEN final_pass_used[s] ELSE -1]
ImplementsWorkflow == Workflow!Spec
=============================================================================
