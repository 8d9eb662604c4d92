---------------------------- MODULE NixlTransfer ----------------------------
(***************************************************************************)
(* The relay of the weights along a chain of workers                       *)
(* (verl/checkpoint_engine/nixl_checkpoint_engine.py): trainer rank 0 lets *)
(* rank 1 read its bucket, rank 1 lets rank 2 read the bucket it has just  *)
(* received, and so on.  Every node has two buckets.  While a bucket is    *)
(* read by the next node and handed out to the rollout, the other one is   *)
(* filled from the previous node.                                          *)
(*                                                                         *)
(* A ReadableOperation sends a message with its bucket and ends when the   *)
(* notification of the reader arrives; a ReadOperation takes the message,  *)
(* starts the remote read, which runs on its own, and notifies.            *)
(* Operators introduced by "Slip:" are mistakes the properties notice.     *)
(***************************************************************************)
EXTENDS WeightChunks

CONSTANT LastRank    \* rank of the last node of the chain

LastRankAssumption == LastRank \in Nat \ {0}

Ranks     == 0 .. LastRank
Receivers == 1 .. LastRank

VARIABLES
    \* rank 0
    next, meta, offset, writes,   \* as in NcclTransfer
    \* every node
    held,      \* index of send_buf: filled by rank 0, yielded by the others
    bufs,      \* the two buckets
    offered,   \* readable_op: whether it has not been waited for yet
    message,   \* its message, until the next node takes it; or << >>
    notified,  \* whether the next node's notification has arrived
    \* the receivers
    pc,        \* "first", "yield", "done"
    reading,   \* read_op: the message it is about, or << >>
    copied,    \* whether its remote read has run
    bucket,    \* metadata of the bucket being yielded
    todo,      \* chunks of it not yet yielded
    reads,     \* copies out of its buckets that are queued on the device
    merge      \* state of merge_weight_chunks and of its consumer

sender   == <<next, meta, offset, writes>>
offers   == <<offered, message, notified>>
receiver == <<pc, reading, copied, bucket, todo, reads, merge>>
vars     == <<sender, held, bufs, offers, receiver>>

Each(x)  == [r \in Receivers |-> x]
NoBucket == [chunks |-> << >>, last |-> FALSE]

Init ==
    /\ next = 1 /\ meta = << >> /\ offset = 0 /\ writes = << >>
    /\ held = [n \in Ranks |-> 0]
    /\ bufs = [n \in Ranks |-> [b \in 0 .. 1 |-> EmptyBuffer]]
    /\ offered = [n \in Ranks |-> FALSE] /\ message = [n \in Ranks |-> << >>]
    /\ notified = [n \in Ranks |-> FALSE]
    /\ pc = Each("first") /\ reading = Each(<< >>) /\ copied = Each(FALSE)
    /\ bucket = Each(NoBucket) /\ todo = Each(<< >>)
    /\ reads = Each(<< >>) /\ merge = Each(NoMerge)

(* A ReadableOperation of node n starts; it may be waited for; it is over.  *)
Offers(n, b, chunks, last) ==
    /\ offered' = [offered EXCEPT ![n] = TRUE]
    /\ message' = [message EXCEPT ![n] = [buf |-> b, chunks |-> chunks, last |-> last]]
    /\ notified' = [notified EXCEPT ![n] = FALSE]
OfferOver(n) == offered[n] => notified[n]

-----------------------------------------------------------------------------
(* Rank 0: send_weights. *)
Fits(c) == offset + c.size <= BucketSize

FillChunk ==
    /\ next <= Len(Chunks) /\ Fits(Chunks[next])
    /\ LET c == Chunks[next] IN
       /\ meta' = Append(meta, [chunk |-> c, offset |-> offset])
       /\ writes' = Append(writes, [buf |-> held[0], offset |-> offset, chunk |-> c])
       /\ offset' = offset + c.size
    /\ next' = next + 1
    /\ UNCHANGED <<held, bufs, offers, receiver>>

WriteRuns ==
    /\ writes # << >>
    /\ LET w == Head(writes) IN
       bufs' = [bufs EXCEPT ![0][w.buf] = Written(@, w.offset, BytesOf(w.chunk))]
    /\ writes' = Tail(writes)
    /\ UNCHANGED <<next, meta, offset, held, offers, receiver>>

OfferBucket(last) ==
    /\ writes = << >> /\ OfferOver(0)
    /\ Offers(0, held[0], meta, last)
    /\ held' = [held EXCEPT ![0] = 1 - @]
    /\ meta' = << >> /\ offset' = 0
    /\ UNCHANGED <<next, writes, bufs, receiver>>

OfferFull == next <= Len(Chunks) /\ ~Fits(Chunks[next]) /\ OfferBucket(FALSE)
OfferLast == /\ next = Len(Chunks) + 1 /\ meta # << >>
             /\ OfferBucket(TRUE)

-----------------------------------------------------------------------------
(* A receiver r: _receive_weight_chunks. *)

(* read_metadata and begin_read, when the previous node has sent a message  *)
(* and this one is at the place of its loop to ask for one.                 *)
BeginRead(r) ==
    /\ message[r - 1] # << >> /\ reading[r] = << >>
    /\ pc[r] = "first" \/ (pc[r] = "yield" /\ ~bucket[r].last)
    /\ reading' = [reading EXCEPT ![r] = message[r - 1]]
    /\ copied' = [copied EXCEPT ![r] = FALSE]
    /\ message' = [message EXCEPT ![r - 1] = << >>]
    /\ UNCHANGED <<sender, held, bufs, offered, notified, pc, bucket, todo, reads, merge>>

(* The remote read runs, and with it the notification. *)
RemoteRead(r) ==
    /\ reading[r] # << >> /\ ~copied[r]
    /\ bufs' = [bufs EXCEPT ![r][1 - held[r]] = bufs[r - 1][reading[r].buf]]
    /\ copied' = [copied EXCEPT ![r] = TRUE]
    /\ notified' = [notified EXCEPT ![r - 1] = TRUE]
    /\ UNCHANGED <<sender, held, offered, message, pc, reading, bucket, todo, reads, merge>>

(* Chunks are yielded once the next read has begun, or nothing follows.     *)
Yield(r) ==
    /\ pc[r] = "yield" /\ todo[r] # << >>
    /\ bucket[r].last \/ reading[r] # << >>
    /\ reads' = [reads EXCEPT ![r] =
                    Append(@, [buf |-> held[r], entry |-> Head(todo[r])])]
    /\ todo' = [todo EXCEPT ![r] = Tail(@)]
    /\ UNCHANGED <<sender, held, bufs, offers, pc, reading, copied, bucket, merge>>

ReadRuns(r) ==
    /\ reads[r] # << >>
    /\ LET e == Head(reads[r]).entry
           data == Stretch(bufs[r][Head(reads[r]).buf], e.offset, e.chunk.size)
       IN merge' = [merge EXCEPT ![r] = Merged(@, e.chunk, data)]
    /\ reads' = [reads EXCEPT ![r] = Tail(@)]
    /\ UNCHANGED <<sender, held, bufs, offers, pc, reading, copied, bucket, todo>>

(* Both operations of the round are over: synchronize, swap, offer the new  *)
(* bucket to the next node.                                                 *)
Swap(r) ==
    /\ bucket' = [bucket EXCEPT ![r] = [chunks |-> reading[r].chunks, last |-> reading[r].last]]
    /\ todo' = [todo EXCEPT ![r] = reading[r].chunks]
    /\ reading' = [reading EXCEPT ![r] = << >>]
    /\ held' = [held EXCEPT ![r] = 1 - @]
    /\ pc' = [pc EXCEPT ![r] = "yield"]
    /\ IF r < LastRank
       THEN Offers(r, 1 - held[r], reading[r].chunks, reading[r].last)
       ELSE UNCHANGED offers
    /\ UNCHANGED <<sender, bufs, copied, reads, merge>>
RoundOver(r) == /\ pc[r] # "done" /\ todo[r] = << >>
                /\ reading[r] # << >> /\ copied[r]

(* Slip: the next node may still be reading the bucket given up. *)
NextRoundUnwaited(r) == RoundOver(r) /\ reads[r] = << >> /\ Swap(r)
(* Slip: copies out of the bucket given up may still be queued. *)
NextRoundUnsynchronized(r) == RoundOver(r) /\ OfferOver(r) /\ Swap(r)
NextRound(r) == /\ RoundOver(r)
                /\ reads[r] = << >> /\ OfferOver(r)
                /\ Swap(r)

Finish(r) ==
    /\ pc[r] = "yield" /\ todo[r] = << >> /\ bucket[r].last
    /\ OfferOver(r)
    /\ pc' = [pc EXCEPT ![r] = "done"]
    /\ UNCHANGED <<sender, held, bufs, offers, reading, copied, bucket, todo, reads, merge>>

Sender == FillChunk \/ WriteRuns \/ OfferFull \/ OfferLast
Receiver(r) == BeginRead(r) \/ RemoteRead(r) \/ Yield(r) \/ ReadRuns(r)
               \/ NextRound(r) \/ Finish(r)
Next == Sender \/ \E r \in Receivers : Receiver(r)

Fairness == WF_vars(Sender) /\ \A r \in Receivers : WF_vars(Receiver(r))
Spec == Init /\ [][Next]_vars /\ Fairness

-----------------------------------------------------------------------------
Buffer == [0 .. BucketSize - 1 -> AllBytes \cup {NoByte}]
Entry  == [chunk : Chunk, offset : 0 .. BucketSize - 1]

(* Type correctness; an operation that was notified was offered. *)
TypeOK ==
    /\ next \in 1 .. Len(Chunks) + 1 /\ meta \in Seq(Entry) /\ offset \in 0 .. BucketSize
    /\ held \in [Ranks -> 0 .. 1] /\ bufs \in [Ranks -> [0 .. 1 -> Buffer]]
    /\ offered \in [Ranks -> BOOLEAN] /\ notified \in [Ranks -> BOOLEAN]
    /\ \A n \in Ranks : notified[n] => offered[n]
    /\ pc \in [Receivers -> {"first", "yield", "done"}]
    /\ copied \in [Receivers -> BOOLEAN]
    /\ \A r \in Receivers : todo[r] \in Seq(Entry)

(* No assertion of merge_weight_chunks fails at any node of the chain, and  *)
(* no notification is taken for that of another bucket: while an offer is   *)
(* open, its message is on its way or the next node is at work on it.       *)
AssertionsHold ==
    /\ \A r \in Receivers : ~merge[r].failed
    /\ \A n \in 0 .. LastRank - 1 :
          offered[n] /\ ~notified[n] =>
              \/ message[n] # << >>
              \/ reading[n + 1] # << >> /\ ~copied[n + 1]

(* The bucket a node has offered is not written before the next node has    *)
(* read it, nor the one whose copies are still queued, however far apart    *)
(* the nodes of the chain have drifted.                                     *)
NoBucketInUseIsWritten ==
    [][ /\ \A n \in 0 .. LastRank - 1 :
              /\ message[n] # << >> =>
                    bufs'[n][message[n].buf] = bufs[n][message[n].buf]
              /\ reading[n + 1] # << >> /\ ~copied[n + 1] =>
                    bufs'[n][reading[n + 1].buf] = bufs[n][reading[n + 1].buf]
        /\ \A r \in Receivers : \A i \in DOMAIN reads[r] :
              LET b == reads[r][i].buf IN bufs'[r][b] = bufs[r][b]
      ]_vars

(* Every node is given the weights, whole and in order, and all of them.    *)
Channel == INSTANCE WeightChannel WITH
               model <- Model,
               got <- [r \in Receivers |-> merge[r].yielded]
ImplementsChannel == Channel!Spec
=============================================================================
