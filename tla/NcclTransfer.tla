---------------------------- MODULE NcclTransfer ----------------------------
(***************************************************************************)
(* The broadcast of the weights from trainer rank 0 to every rollout       *)
(* worker (verl/checkpoint_engine/nccl_checkpoint_engine.py; the engine    *)
(* for Ascend devices, hccl_checkpoint_engine.py, is built alike).  Both   *)
(* ends own two buckets: the sender fills one while the other is being     *)
(* broadcast, a receiver hands out views into one while the next broadcast *)
(* writes the other.                                                       *)
(*                                                                         *)
(* A BroadcastOperation runs in a thread of its own; for a receiver it     *)
(* ends when it has both the metadata and the data.  Copies into and out   *)
(* of a bucket are queued on the device and run any time before the next   *)
(* torch.cuda.synchronize.                                                 *)
(* Operators introduced by "Slip:" are mistakes the properties notice.     *)
(***************************************************************************)
EXTENDS WeightChunks

CONSTANT Receivers   \* rollout workers, ranks 1 ..

VARIABLES
    \* rank 0
    next,     \* the chunk the generator yields next
    fill,     \* index of its send_buf
    bufs,     \* its two buffers
    meta,     \* bucket_meta: chunks with their offset
    offset,
    writes,   \* copies into send_buf that are queued on the device
    op,       \* broadcast_op: buffer, metadata and is_last; or << >>
    reached,  \* the receivers the broadcast has reached
    \* each receiver
    pc,       \* "first", "yield", "done"
    read,     \* index of the buffer it yields from
    rbufs,    \* its two buffers
    posted,   \* whether a receiving BroadcastOperation is running
    arrived,  \* metadata that operation came back with
    bucket,   \* metadata of the bucket being yielded
    todo,     \* chunks of it not yet yielded
    reads,    \* copies out of its buffers that are queued on the device
    merge     \* state of merge_weight_chunks and of its consumer

sender   == <<next, fill, bufs, meta, offset, writes, op>>
receiver == <<pc, read, rbufs, posted, arrived, bucket, todo, reads, merge>>
vars     == <<sender, reached, receiver>>

Each(x) == [r \in Receivers |-> x]
NoBucket == [chunks |-> << >>, last |-> FALSE]

(* prepare *)
Init ==
    /\ next = 1 /\ fill = 0 /\ bufs = [b \in 0 .. 1 |-> EmptyBuffer]
    /\ meta = << >> /\ offset = 0 /\ writes = << >>
    /\ op = << >> /\ reached = Receivers
    /\ pc = Each("first") /\ read = Each(0)
    /\ rbufs = Each([b \in 0 .. 1 |-> EmptyBuffer])
    /\ posted = Each(TRUE) /\ arrived = Each(NoBucket)
    /\ bucket = Each(NoBucket) /\ todo = Each(<< >>)
    /\ reads = Each(<< >>) /\ merge = Each(NoMerge)

-----------------------------------------------------------------------------
Fits(c) == offset + c.size <= BucketSize

(* Slip: the bucket is filled one byte too far. *)
FillChunkTooFar ==
    /\ next <= Len(Chunks) /\ offset + Chunks[next].size <= BucketSize + 1
    /\ LET c == Chunks[next] IN
       /\ meta' = Append(meta, [chunk |-> c, offset |-> offset])
       /\ writes' = Append(writes, [buf |-> fill, offset |-> offset, chunk |-> c])
       /\ offset' = offset + c.size
    /\ next' = next + 1
    /\ UNCHANGED <<fill, bufs, op, reached, receiver>>

(* send_weights puts the next chunk into the bucket. *)
FillChunk ==
    /\ next <= Len(Chunks) /\ Fits(Chunks[next])
    /\ LET c == Chunks[next] IN
       /\ meta' = Append(meta, [chunk |-> c, offset |-> offset])
       /\ writes' = Append(writes, [buf |-> fill, offset |-> offset, chunk |-> c])
       /\ offset' = offset + c.size
    /\ next' = next + 1
    /\ UNCHANGED <<fill, bufs, op, reached, receiver>>

WriteRuns ==
    /\ writes # << >>
    /\ LET w == Head(writes) IN
       bufs' = [bufs EXCEPT ![w.buf] = Written(@, w.offset, BytesOf(w.chunk))]
    /\ writes' = Tail(writes)
    /\ UNCHANGED <<next, fill, meta, offset, op, reached, receiver>>

(* synchronize; wait for the previous broadcast; start one; swap.           *)
Broadcast(last) ==
    /\ writes = << >>
    /\ reached = Receivers
    /\ op' = [buf |-> fill, chunks |-> meta, last |-> last]
    /\ reached' = {}
    /\ fill' = 1 - fill /\ meta' = << >> /\ offset' = 0
    /\ UNCHANGED <<next, bufs, writes, receiver>>

BroadcastFull ==
    /\ next <= Len(Chunks) /\ ~Fits(Chunks[next])
    /\ Broadcast(FALSE)
LastSent == op # << >> /\ op.last
BroadcastLast ==
    /\ next > Len(Chunks) /\ ~LastSent
    /\ Broadcast(TRUE)

-----------------------------------------------------------------------------
(* BroadcastOperation._run on both sides. *)
Receive(r) ==
    /\ op # << >> /\ r \notin reached /\ posted[r]
    /\ rbufs' = [rbufs EXCEPT ![r][1 - read[r]] = bufs[op.buf]]
    /\ arrived' = [arrived EXCEPT ![r] = [chunks |-> op.chunks, last |-> op.last]]
    /\ posted' = [posted EXCEPT ![r] = FALSE]
    /\ reached' = reached \cup {r}
    /\ UNCHANGED <<sender, pc, read, bucket, todo, reads, merge>>

(* _receive_weight_chunks: the awaited bucket becomes the one to yield from *)
(* and, unless it is the last, the next operation starts.                   *)
(* Slip: the copies out of the other bucket may still be queued. *)
NextBucketUnsynchronized(r) ==
    /\ pc[r] # "done" /\ todo[r] = << >>
    /\ ~posted[r] /\ ~bucket[r].last
    /\ bucket' = [bucket EXCEPT ![r] = arrived[r]]
    /\ todo' = [todo EXCEPT ![r] = arrived[r].chunks]
    /\ read' = [read EXCEPT ![r] = 1 - @]
    /\ posted' = [posted EXCEPT ![r] = ~arrived[r].last]
    /\ pc' = [pc EXCEPT ![r] = "yield"]
    /\ UNCHANGED <<sender, reached, rbufs, arrived, reads, merge>>
NextBucket(r) ==
    /\ pc[r] # "done" /\ todo[r] = << >>
    /\ ~posted[r] /\ ~bucket[r].last
    /\ reads[r] = << >>
    /\ bucket' = [bucket EXCEPT ![r] = arrived[r]]
    /\ todo' = [todo EXCEPT ![r] = arrived[r].chunks]
    /\ read' = [read EXCEPT ![r] = 1 - @]
    /\ posted' = [posted EXCEPT ![r] = ~arrived[r].last]
    /\ pc' = [pc EXCEPT ![r] = "yield"]
    /\ UNCHANGED <<sender, reached, rbufs, arrived, reads, merge>>

(* A view into the bucket is yielded, and the consumer queues a copy of it. *)
Yield(r) ==
    /\ pc[r] = "yield" /\ todo[r] # << >>
    /\ reads' = [reads EXCEPT ![r] =
                    Append(@, [buf |-> read[r], entry |-> Head(todo[r])])]
    /\ todo' = [todo EXCEPT ![r] = Tail(@)]
    /\ UNCHANGED <<sender, reached, pc, read, rbufs, posted, arrived, bucket, merge>>

ReadRuns(r) ==
    /\ reads[r] # << >>
    /\ LET e == Head(reads[r]).entry
           data == Stretch(rbufs[r][Head(reads[r]).buf], e.offset, e.chunk.size)
       IN merge' = [merge EXCEPT ![r] = Merged(@, e.chunk, data)]
    /\ reads' = [reads EXCEPT ![r] = Tail(@)]
    /\ UNCHANGED <<sender, reached, pc, read, rbufs, posted, arrived, bucket, todo>>

Finish(r) ==
    /\ pc[r] = "yield" /\ todo[r] = << >> /\ bucket[r].last
    /\ pc' = [pc EXCEPT ![r] = "done"]
    /\ UNCHANGED <<sender, reached, read, rbufs, posted, arrived, bucket, todo, reads, merge>>

Sender == FillChunk \/ WriteRuns \/ BroadcastFull \/ BroadcastLast
Receiver(r) == Receive(r) \/ NextBucket(r) \/ Yield(r) \/ ReadRuns(r) \/ Finish(r)
Next == Sender \/ \E r \in Receivers : Receiver(r)

(* Threads, devices and coroutines run. *)
Fairness == WF_vars(Sender) /\ \A r \in Receivers : WF_vars(Receiver(r))
Spec == Init /\ [][Next]_vars /\ Fairness

-----------------------------------------------------------------------------
Buffer == [0 .. BucketSize - 1 -> AllBytes \cup {NoByte}]
Entry  == [chunk : Chunk, offset : 0 .. BucketSize - 1]

(* Type correctness of both ends. *)
TypeOK ==
    /\ next \in 1 .. Len(Chunks) + 1 /\ fill \in 0 .. 1
    /\ bufs \in [0 .. 1 -> Buffer]
    /\ meta \in Seq(Entry) /\ offset \in 0 .. BucketSize
    /\ \A i \in DOMAIN writes : writes[i].buf \in 0 .. 1
    /\ reached \subseteq Receivers
    /\ pc \in [Receivers -> {"first", "yield", "done"}]
    /\ read \in [Receivers -> 0 .. 1] /\ rbufs \in [Receivers -> [0 .. 1 -> Buffer]]
    /\ posted \in [Receivers -> BOOLEAN]
    /\ \A r \in Receivers : todo[r] \in Seq(Entry)

(* No assertion of send_weights and merge_weight_chunks fails: a bucket     *)
(* holds at most one chunk of a weight, and the chunks of a weight come     *)
(* without a gap.                                                           *)
AssertionsHold ==
    /\ \A i, j \in DOMAIN meta : meta[i].chunk.name = meta[j].chunk.name => i = j
    /\ \A r \in Receivers : ~merge[r].failed

(* A bucket is never written while a broadcast or a consumer still reads it,*)
(* whichever of the two ends, and of the receivers, is slow.                *)
NoBucketInUseIsWritten ==
    [][ /\ reached # Receivers => bufs'[op.buf] = bufs[op.buf]
        /\ \A r \in Receivers : \A i \in DOMAIN reads[r] :
              LET b == reads[r][i].buf IN rbufs'[r][b] = rbufs[r][b]
      ]_vars

(* Every receiver is given the weights, whole and in order, and all of them.*)
Channel == INSTANCE WeightChannel WITH
               model <- Model,
               got <- [r \in Receivers |-> merge[r].yielded]
ImplementsChannel == Channel!Spec
=============================================================================
