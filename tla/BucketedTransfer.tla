-------------------------- MODULE BucketedTransfer --------------------------
(***************************************************************************)
(* The last stretch of a parameter update: from the rollout worker to the  *)
(* inference process beside it, through one shared buffer                  *)
(* (BucketedWeightSender and BucketedWeightReceiver of                     *)
(* verl/workers/rollout/vllm_rollout/bucketed_weight_transfer.py).  Weights*)
(* are packed whole; the receiver answers each message once it has loaded  *)
(* what the message names, and the sender waits for the answer before it   *)
(* touches the buffer again.  A weight larger than the buffer goes by a    *)
(* handle to its own memory, which shared memory does not allow.           *)
(* Operators introduced by "Slip:" are mistakes the properties notice.     *)
(***************************************************************************)
EXTENDS Buckets

CONSTANT
    Models     \* the nbytes of the weights of a model, in their order

ModelsAssumption == Models \subseteq Seq(Nat \ {0})

VARIABLES
    sizes,    \* the model that is sent
    useShm,   \* through shared memory instead of device handles
    pcs,      \* sender: "setup", "fill", "ack", "end", "done", "failed"
    next,     \* the weight its generator yields next
    meta,     \* bucket_meta: names with their offset
    offset,
    writes,   \* copies into the buffer that are queued on the device
    buffer,   \* the shared buffer
    request,  \* message on its way to the receiver, or << >>
    reply,    \* whether an answer is on its way back
    pcr,      \* receiver: "setup", "wait", "load", "done"
    work,     \* the message it is at
    loads,    \* its weights whose load is queued on the device
    got       \* weights the inference process has loaded

sender   == <<sizes, useShm, pcs, next, meta, offset, writes>>
receiver == <<pcr, work, loads, got>>
vars     == <<sender, buffer, request, reply, receiver>>

Init ==
    /\ sizes \in Models /\ useShm \in BOOLEAN
    /\ pcs = "setup" /\ next = 1 /\ meta = << >> /\ offset = 0 /\ writes = << >>
    /\ buffer = EmptyBuffer
    /\ request = [setup |-> TRUE] /\ reply = FALSE
    /\ pcr = "setup" /\ work = << >> /\ loads = << >> /\ got = << >>

Weights  == DOMAIN sizes
Bytes(w) == BytesOfWeight(w, sizes[w])
Model    == [w \in Weights |-> Bytes(w)]

Entry(w, o) == [name |-> w, offset |-> o, handle |-> FALSE]
ByHandle(w) == [name |-> w, offset |-> 0, handle |-> TRUE]
TooLarge(w) == sizes[w] > BucketSize
Fits(w)     == offset + sizes[w] <= BucketSize

-----------------------------------------------------------------------------
(* The sender: async_send_weights.  An answer lets it go on. *)
Answered ==
    /\ pcs \in {"setup", "ack", "end"} /\ reply
    /\ reply' = FALSE
    /\ pcs' = IF pcs = "end" THEN "done" ELSE "fill"
    /\ UNCHANGED <<sizes, useShm, next, meta, offset, writes, buffer, request, receiver>>

Pack ==
    /\ pcs = "fill" /\ next \in Weights /\ Fits(next)
    /\ meta' = Append(meta, Entry(next, offset))
    /\ writes' = Append(writes, Entry(next, offset))
    /\ offset' = offset + sizes[next]
    /\ next' = next + 1
    /\ UNCHANGED <<sizes, useShm, pcs, buffer, request, reply, receiver>>

WriteRuns ==
    /\ writes # << >>
    /\ buffer' = Written(buffer, Head(writes).offset, Bytes(Head(writes).name))
    /\ writes' = Tail(writes)
    /\ UNCHANGED <<sizes, useShm, pcs, next, meta, offset, request, reply, receiver>>

(* send_pyobj, and recv until the answer comes. *)
Request(weights, last, then) ==
    /\ request' = [meta |-> weights, last |-> last]
    /\ pcs' = then

(* Slip: the next bucket is filled while this one is being loaded. *)
SendFullUnanswered ==
    /\ pcs = "fill" /\ next \in Weights /\ ~Fits(next) /\ meta # << >>
    /\ writes = << >> /\ request = << >>
    /\ Request(meta, FALSE, "fill")
    /\ meta' = << >> /\ offset' = 0
    /\ UNCHANGED <<sizes, useShm, next, writes, buffer, reply, receiver>>
SendFull ==
    /\ pcs = "fill" /\ next \in Weights /\ ~Fits(next) /\ meta # << >>
    /\ writes = << >>
    /\ Request(meta, FALSE, "ack")
    /\ meta' = << >> /\ offset' = 0
    /\ UNCHANGED <<sizes, useShm, next, writes, buffer, reply, receiver>>

(* _direct_send_large_weight, or its assertion with shared memory.          *)
(* Slip: what is in the bucket is not sent first. *)
SendLargeOvertaking ==
    /\ pcs = "fill" /\ next \in Weights /\ TooLarge(next)
    /\ IF useShm
       THEN pcs' = "failed" /\ UNCHANGED <<sizes, useShm, next, request>>
       ELSE Request(<<ByHandle(next)>>, FALSE, "ack") /\ next' = next + 1
    /\ UNCHANGED <<sizes, useShm, meta, offset, writes, buffer, reply, receiver>>
SendLarge ==
    /\ pcs = "fill" /\ next \in Weights /\ TooLarge(next) /\ meta = << >>
    /\ IF useShm
       THEN pcs' = "failed" /\ UNCHANGED <<sizes, useShm, next, request>>
       ELSE Request(<<ByHandle(next)>>, FALSE, "ack") /\ next' = next + 1
    /\ UNCHANGED <<sizes, useShm, meta, offset, writes, buffer, reply, receiver>>

(* The last bucket, which may be empty after a large weight. *)
(* Slip: an empty one is not sent. *)
SendLastNonempty ==
    /\ pcs = "fill" /\ next \notin Weights /\ meta # << >>
    /\ writes = << >>
    /\ Request(meta, TRUE, "end")
    /\ UNCHANGED <<sizes, useShm, next, meta, offset, writes, buffer, reply, receiver>>
SendLast ==
    /\ pcs = "fill" /\ next \notin Weights
    /\ writes = << >>
    /\ Request(meta, TRUE, "end")
    /\ UNCHANGED <<sizes, useShm, next, meta, offset, writes, buffer, reply, receiver>>

-----------------------------------------------------------------------------
(* The receiver: receive_weights. *)
OpenBuffer ==
    /\ pcr = "setup" /\ request # << >>
    /\ request' = << >> /\ reply' = TRUE /\ pcr' = "wait"
    /\ UNCHANGED <<sender, buffer, work, loads, got>>

TakeRequest ==
    /\ pcr = "wait" /\ request # << >>
    /\ work' = request /\ request' = << >>
    /\ loads' = request.meta
    /\ pcr' = "load"
    /\ UNCHANGED <<sender, buffer, reply, got>>

(* on_bucket_received hands the views to the model, whose loads are queued. *)
Value(e) == IF e.handle THEN Bytes(e.name)
            ELSE Stretch(buffer, e.offset, sizes[e.name])
LoadRuns ==
    /\ loads # << >>
    /\ got' = Append(got, Value(Head(loads)))
    /\ loads' = Tail(loads)
    /\ UNCHANGED <<sender, buffer, request, reply, pcr, work>>

Answer ==
    /\ pcr = "load" /\ loads = << >>
    /\ reply' = TRUE
    /\ pcr' = IF work.last THEN "done" ELSE "wait"
    /\ work' = << >>
    /\ UNCHANGED <<sender, buffer, request, loads, got>>

Sender   == Answered \/ Pack \/ WriteRuns \/ SendFull \/ SendLarge \/ SendLast
Receiver == OpenBuffer \/ TakeRequest \/ LoadRuns \/ Answer
Next == Sender \/ Receiver

Fairness == WF_vars(Sender) /\ WF_vars(Receiver)
Spec == Init /\ [][Next]_vars /\ Fairness

-----------------------------------------------------------------------------
EntryType == [name : Weights, offset : 0 .. BucketSize - 1, handle : BOOLEAN]

(* Type correctness of both ends and of what is between them. *)
TypeOK ==
    /\ sizes \in Models /\ useShm \in BOOLEAN
    /\ pcs \in {"setup", "fill", "ack", "end", "done", "failed"}
    /\ next \in 1 .. Len(sizes) + 1 /\ offset \in 0 .. BucketSize
    /\ meta \in Seq(EntryType) /\ writes \in Seq(EntryType)
    /\ DOMAIN buffer = 0 .. BucketSize - 1
    /\ reply \in BOOLEAN
    /\ pcr \in {"setup", "wait", "load", "done"}
    /\ loads \in Seq(EntryType)

(* Requests and answers alternate, as the sockets demand: nothing is sent   *)
(* while something is under way in either direction or being worked at.     *)
Alternates ==
    /\ request # << >> => ~reply /\ pcs \in {"setup", "ack", "end"}
    /\ reply => pcs \in {"setup", "ack", "end"} /\ loads = << >>
    /\ pcs = "fill" => pcr = "wait"

(* The inference process loads the weights, whole and in order, and never   *)
(* one before those that precede it, whatever their sizes.                  *)
Channel == INSTANCE WeightChannel WITH model <- Model, Receivers <- {"worker"},
                                       got <- [r \in {"worker"} |-> got]
ImplementsChannel == Channel!Safety

(* All are loaded and neither end waits for the other for ever, also when a *)
(* large weight leaves the last bucket empty; only shared memory cannot     *)
(* take a weight beyond the bucket.                                         *)
AllLoadedAndBothReturn ==
    (useShm => \A w \in Weights : ~TooLarge(w)) =>
        <>(pcs = "done" /\ pcr = "done" /\ got = Model)
=============================================================================
