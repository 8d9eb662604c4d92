-------------------------- MODULE MCWeightUpdates --------------------------
(***************************************************************************)
(* What happens between two training steps: the replicas that share the    *)
(* trainer's devices are woken, used and put to sleep, and new weights go  *)
(* to the replicas, by a broadcast or along a chain to the workers, and    *)
(* from each worker to its inference process.  Every kind of transfer is   *)
(* compared with WeightChannel.  A behaviour is one of the chosen model;   *)
(* the others stay in one of their initial states.                         *)
(***************************************************************************)
EXTENDS HybridValidation

CONSTANTS
    NoByte,         \* what an unwritten place of a bucket holds
    r1, r2          \* rollout workers

VARIABLES
    model,   \* the model that runs
    n_next, n_fill, n_bufs, n_meta, n_offset, n_writes, n_op, n_reached, n_pc, n_read, n_rbufs,
    n_posted, n_arrived, n_bucket, n_todo, n_reads, n_merge,
    x_next, x_meta, x_offset, x_writes, x_held, x_bufs, x_offered, x_message, x_notified, x_pc,
    x_reading, x_copied, x_bucket, x_todo, x_reads, x_merge,
    b_sizes, b_useShm, b_pcs, b_next, b_meta, b_offset, b_writes, b_buffer, b_request, b_reply,
    b_pcr, b_work, b_loads, b_got

(* Two small weights, one of two chunks whose rest shares its bucket, and   *)
(* one that fills a bucket: four broadcasts to two workers.                *)
Nccl == INSTANCE NcclTransfer WITH
    Sizes <- <<1, 1, 3, 1, 2>>, BucketSize <- 2, Receivers <- {r1, r2},
    next <- n_next, fill <- n_fill, bufs <- n_bufs, meta <- n_meta, offset <- n_offset,
    writes <- n_writes, op <- n_op, reached <- n_reached, pc <- n_pc, read <- n_read,
    rbufs <- n_rbufs, posted <- n_posted, arrived <- n_arrived, bucket <- n_bucket,
    todo <- n_todo, reads <- n_reads, merge <- n_merge

(* The same weights: four buckets travel down a chain of three workers.     *)
Nixl == INSTANCE NixlTransfer WITH
    Sizes <- <<1, 1, 3, 1, 2>>, BucketSize <- 2, LastRank <- 3,
    next <- x_next, meta <- x_meta, offset <- x_offset, writes <- x_writes, held <- x_held,
    bufs <- x_bufs, offered <- x_offered, message <- x_message, notified <- x_notified,
    pc <- x_pc, reading <- x_reading, copied <- x_copied, bucket <- x_bucket, todo <- x_todo,
    reads <- x_reads, merge <- x_merge

(* All models of one to four weights, the largest beyond the bucket.        *)
Inference == INSTANCE BucketedTransfer WITH
    Models <- UNION {[1 .. n -> 1 .. 3] : n \in 1 .. 4}, BucketSize <- 2,
    sizes <- b_sizes, useShm <- b_useShm, pcs <- b_pcs, next <- b_next, meta <- b_meta,
    offset <- b_offset, writes <- b_writes, buffer <- b_buffer, request <- b_request,
    reply <- b_reply, pcr <- b_pcr, work <- b_work, loads <- b_loads, got <- b_got

ASSUME InstancesAssumption ==
    /\ Nccl!SizesAssumption /\ Nccl!BucketAssumption
    /\ Nixl!SizesAssumption /\ Nixl!BucketAssumption /\ Nixl!LastRankAssumption
    /\ Inference!ModelsAssumption /\ Inference!BucketAssumption

ncclVars == <<n_next, n_fill, n_bufs, n_meta, n_offset, n_writes, n_op, n_reached, n_pc, n_read,
              n_rbufs, n_posted, n_arrived, n_bucket, n_todo, n_reads, n_merge>>
nixlVars == <<x_next, x_meta, x_offset, x_writes, x_held, x_bufs, x_offered, x_message,
              x_notified, x_pc, x_reading, x_copied, x_bucket, x_todo, x_reads, x_merge>>
infVars  == <<b_sizes, b_useShm, b_pcs, b_next, b_meta, b_offset, b_writes, b_buffer, b_request,
              b_reply, b_pcr, b_work, b_loads, b_got>>
allVars  == <<model, vars, ncclVars, nixlVars, infVars>>

InitOfAll ==
    /\ model \in {"validation", "nccl", "nixl", "inference"}
    /\ Init /\ Nccl!Init /\ Nixl!Init /\ Inference!Init
    /\ model # "inference" => b_sizes = <<1>> /\ b_useShm

NextOfOne ==
    /\ UNCHANGED model
    /\ \/ /\ model = "validation" /\ Next
          /\ UNCHANGED <<ncclVars, nixlVars, infVars>>
       \/ /\ model = "nccl" /\ Nccl!Next
          /\ UNCHANGED <<vars, nixlVars, infVars>>
       \/ /\ model = "nixl" /\ Nixl!Next
          /\ UNCHANGED <<vars, ncclVars, infVars>>
       \/ /\ model = "inference" /\ Inference!Next
          /\ UNCHANGED <<vars, ncclVars, nixlVars>>

(* The fairness of each model, where it runs.                               *)
FairnessOfOne ==
    /\ WF_vars(model = "validation" /\ Trainer)
    /\ \A c \in Clients : WF_vars(model = "validation" /\ Client(c))
    /\ WF_ncclVars(model = "nccl" /\ Nccl!Sender)
    /\ \A r \in {r1, r2} : WF_ncclVars(model = "nccl" /\ Nccl!Receiver(r))
    /\ WF_nixlVars(model = "nixl" /\ Nixl!Sender)
    /\ \A r \in 1 .. 3 : WF_nixlVars(model = "nixl" /\ Nixl!Receiver(r))
    /\ WF_infVars(model = "inference" /\ Inference!Sender)
    /\ WF_infVars(model = "inference" /\ Inference!Receiver)

SpecOfAll == InitOfAll /\ [][NextOfOne]_allVars /\ FairnessOfOne
-----------------------------------------------------------------------------
(* No assertion of the senders, of merge_weight_chunks at any receiver, or  *)
(* about the notifications along the chain fails.                           *)
AssertionsHold ==
    /\ model = "nccl" => Nccl!AssertionsHold
    /\ model = "nixl" => Nixl!AssertionsHold

(* Broadcast: no bucket is written while a broadcast or a consumer reads it.*)
NoBroadcastBucketIsOverwritten == Nccl!NoBucketInUseIsWritten

(* Chain: no bucket is written while the next node or a consumer reads it.  *)
NoRelayedBucketIsOverwritten == Nixl!NoBucketInUseIsWritten

broadcasted == [r \in {r1, r2} |-> n_merge[r].yielded]
relayed     == [r \in 1 .. 3 |-> x_merge[r].yielded]

(* Broadcast: every worker is given the weights, whole and in order.        *)
BroadcastImplementsChannel ==
    /\ Nccl!Channel!Init
    /\ [][model = "nccl" /\ Nccl!Channel!Next]_broadcasted

(* Chain: every node is given the weights, whole and in order.              *)
ChainImplementsChannel ==
    /\ Nixl!Channel!Init
    /\ [][model = "nixl" /\ Nixl!Channel!Next]_relayed

(* Every worker and every node is given all of the weights in the end.      *)
AllAreGiven ==
    /\ model = "nccl" => <>(\A r \in {r1, r2} : broadcasted[r] = Nccl!Model)
    /\ model = "nixl" => <>(\A r \in 1 .. 3 : relayed[r] = Nixl!Model)

(* To the inference process: requests and answers alternate.                *)
Alternates == Inference!Alternates

(* To the inference process: it loads the weights whole and in order.       *)
InferenceImplementsChannel == Inference!ImplementsChannel

(* To the inference process: all are loaded and neither end waits for the   *)
(* other for ever, but for a large weight through shared memory.            *)
AllLoadedAndBothReturn == model = "inference" => Inference!AllLoadedAndBothReturn

(* Types of all the models, and both ends of a transfer agree about where   *)
(* it is: no assertion of theirs fails, requests and answers alternate.     *)
TypesOK ==
    /\ TypeOK
    /\ model = "nccl" => Nccl!TypeOK
    /\ model = "nixl" => Nixl!TypeOK
    /\ model = "inference" => Inference!TypeOK
    /\ AssertionsHold /\ Alternates

(* No buffer is overwritten while a broadcast, the next node or a consumer  *)
(* reads it.                                                                *)
BuffersAreRespected == NoBroadcastBucketIsOverwritten /\ NoRelayedBucketIsOverwritten

(* All three kinds of transfer promise what WeightChannel says.             *)
AllImplementChannel ==
    BroadcastImplementsChannel /\ ChainImplementsChannel /\ InferenceImplementsChannel

(* Neither the validation nor a transfer leaves an end waiting for ever, and *)
(* every receiver has all of the weights in the end.                        *)
UpdatesEnd == TrainerReturns /\ AllLoadedAndBothReturn /\ AllAreGiven
=============================================================================
