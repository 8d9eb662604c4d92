---------------------------- MODULE ReplayBuffer ----------------------------
(***************************************************************************)
(* The trainer with TransferQueue (verl/trainer/main_ppo_sync.py): how the *)
(* results of a batch find their way back to the trainer.                  *)
(* AgentLoopManagerTQ marks the prompts of a batch as running in the       *)
(* replay buffer and sends them to the workers.  A worker runs the         *)
(* sessions of a prompt side by side; each puts its rows into the          *)
(* TransferQueue, and the prompt puts a mark when all are done or one has  *)
(* failed.  A thread of the trainer copies keys and tags from the queue to *)
(* the buffer, time and again.  The trainer takes the rows of its step     *)
(* once none of its prompts is running, uses them, and clears both.        *)
(* The queue itself is a library: kv_list returns what is in it at one     *)
(* moment.  A key stands for the entry of a prompt (without session), for  *)
(* the rows of one of its sessions, or for padding (without prompt).       *)
(* Operators introduced by "Slip:" are mistakes the properties notice.     *)
(***************************************************************************)
EXTENDS Integers, Sequences, FiniteSets

CONSTANTS
    Batches,  \* what the trainer takes up: a sequence of [partition, step]
    Prompts,  \* prompts of a batch
    Sessions, \* sessions of a prompt, as many as rollout.n
    Multiple, \* _get_required_batch_multiple
    None

BatchesAssumption ==
    Batches \in Seq([partition : {"train", "val"}, step : Nat]) \ {<< >>}

SizesAssumption ==
    /\ IsFiniteSet(Prompts) /\ IsFiniteSet(Sessions) /\ Multiple \in Nat \ {0}
    /\ None \notin Prompts \cup Sessions \cup Nat

VARIABLES
    batch,    \* the batch the trainer is at
    pc,       \* "dispatch", "sample", "pad", "use", "remove", "done"
    session,  \* per batch, prompt and session
    prompt,   \* per batch and prompt: its gather
    queue,    \* TransferQueue: partition -> key -> tag
    buffer,   \* ReplayBuffer.partitions
    listed,   \* what kv_list returned and is not added yet: partition -> key -> tag
    sampled   \* the keys of the batch

remote == <<session, prompt>>
vars   == <<batch, pc, remote, queue, buffer, listed, sampled>>

Partitions == {"train", "val"}
Key(b, p, s) == [batch |-> b, prompt |-> p, session |-> s]
Prompt(b, p) == Key(b, p, None)
Padding(b, i) == Key(b, None, i)
Keys == [batch : DOMAIN Batches, prompt : Prompts \cup {None},
         session : Sessions \cup {None} \cup 1 .. Multiple]
Tag(step, status) == [step |-> step, status |-> status]

Here == Batches[batch].partition
Step == Batches[batch].step
Empty == [k \in {} |-> None]

(* A tag that is put or added changes the fields it names.                 *)
Updated(entries, items) ==
    [k \in DOMAIN entries \cup DOMAIN items |->
        IF k \notin DOMAIN items THEN entries[k]
        ELSE IF k \in DOMAIN entries /\ items[k].step = None
        THEN Tag(entries[k].step, items[k].status)
        ELSE items[k]]

Without(entries, keys) == [k \in DOMAIN entries \ keys |-> entries[k]]

Init ==
    /\ batch = 1 /\ pc = "dispatch"
    /\ session = [b \in DOMAIN Batches |-> [p \in Prompts |-> [s \in Sessions |-> "idle"]]]
    /\ prompt = [b \in DOMAIN Batches |-> [p \in Prompts |-> "idle"]]
    /\ queue = [q \in Partitions |-> Empty] /\ buffer = queue /\ listed = queue
    /\ sampled = {}

(* AgentLoopManagerTQ.generate_sequences, which does not wait for results  *)
GenerateSequences ==
    /\ pc = "dispatch" /\ pc' = "sample"
    /\ LET items == [k \in {Prompt(batch, p) : p \in Prompts} |-> Tag(Step, "running")]
       IN  buffer' = [buffer EXCEPT ![Here] = Updated(@, items)]
    /\ prompt' = [prompt EXCEPT ![batch] = [p \in Prompts |-> "running"]]
    /\ session' = [session EXCEPT ![batch] =
                     [p \in Prompts |-> [s \in Sessions |-> "running"]]]
    /\ UNCHANGED <<batch, queue, listed, sampled>>

Put(b, items) == queue' = [queue EXCEPT ![Batches[b].partition] = Updated(@, items)]

(* A session ends: with rows, without any, or with an exception            *)
EndSession(b, p, s, outcome) ==
    /\ session[b][p][s] = "running"
    /\ session' = [session EXCEPT ![b][p][s] = outcome]
    /\ IF outcome = "stored"
       THEN Put(b, [k \in {Key(b, p, s)} |-> Tag(Batches[b].step, "success")])
       ELSE UNCHANGED queue
    /\ UNCHANGED <<batch, pc, prompt, buffer, listed, sampled>>

EndPrompt(b, p, mark) ==
    /\ prompt[b][p] = "running"
    /\ prompt' = [prompt EXCEPT ![b][p] = mark]
    /\ Put(b, [k \in {Prompt(b, p)} |-> Tag(None, mark)])
    /\ UNCHANGED <<batch, pc, session, buffer, listed, sampled>>

(* The gather of _run_prompt returns when all sessions have ended          *)
(* Slip: the prompt is marked when the first session has ended. *)
FinishPromptEarly(b, p) ==
    /\ \E s \in Sessions : session[b][p][s] \in {"stored", "empty"}
    /\ EndPrompt(b, p, "finished")

FinishPrompt(b, p) ==
    /\ \A s \in Sessions : session[b][p][s] \in {"stored", "empty"}
    /\ EndPrompt(b, p, "finished")

(* or raises at the first exception, while the other sessions run on       *)
(* Slip: the failure leaves no mark. *)
FailPromptSilently(b, p) ==
    /\ \E s \in Sessions : session[b][p][s] = "failed"
    /\ prompt[b][p] = "running"
    /\ prompt' = [prompt EXCEPT ![b][p] = "failure"]
    /\ UNCHANGED <<batch, pc, session, queue, buffer, listed, sampled>>

FailPrompt(b, p) ==
    /\ \E s \in Sessions : session[b][p][s] = "failed"
    /\ EndPrompt(b, p, "failure")

(* _poll_from_transfer_queue: kv_list, then one add per partition          *)
ListQueue ==
    /\ \A q \in Partitions : listed[q] = Empty
    /\ \E q \in Partitions : queue[q] # Empty
    /\ listed' = queue
    /\ UNCHANGED <<batch, pc, remote, queue, buffer, sampled>>

AddListed(q) ==
    /\ listed[q] # Empty
    /\ buffer' = [buffer EXCEPT ![q] = Updated(@, listed[q])]
    /\ listed' = [listed EXCEPT ![q] = Empty]
    /\ UNCHANGED <<batch, pc, remote, queue, sampled>>

(* Slip: rows of any step are taken. *)
CollectedOfAnyStep(entries) ==
    {k \in DOMAIN entries : entries[k].status = "success"}

Collected(entries) ==
    {k \in DOMAIN entries : entries[k].step = Step /\ entries[k].status = "success"}

Sample ==
    /\ pc = "sample"
    /\ \A k \in DOMAIN buffer[Here] :
           buffer[Here][k].step = Step => buffer[Here][k].status # "running"
    /\ sampled' = Collected(buffer[Here])
    /\ pc' = IF Here = "train" THEN "pad" ELSE "use"
    /\ UNCHANGED <<batch, remote, queue, buffer, listed>>

(* upsample_batch_to_divisible_size: the padding goes through the queue    *)
Pad ==
    /\ pc = "pad" /\ pc' = "use"
    /\ LET padding == {Padding(batch, i) : i \in 1 .. (Multiple - (Cardinality(sampled) % Multiple)) % Multiple}
       IN  /\ sampled' = sampled \cup padding
           /\ Put(batch, [k \in padding |-> Tag(Step, "success")])
    /\ UNCHANGED <<batch, remote, buffer, listed>>

(* The batch has been trained on or validated: the queue is cleared, then  *)
(* the buffer.                                                             *)
ClearQueue ==
    /\ pc = "use" /\ pc' = "remove"
    /\ queue' = [queue EXCEPT ![Here] = Without(@, sampled)]
    /\ UNCHANGED <<batch, remote, buffer, listed, sampled>>

NextBatch ==
    IF batch = Len(Batches) THEN pc' = "done" /\ UNCHANGED batch
    ELSE pc' = "dispatch" /\ batch' = batch + 1

(* Slip: the entries of the batch's prompts are removed as well. *)
RemoveWithPrompts ==
    /\ pc = "remove" /\ NextBatch
    /\ buffer' = [buffer EXCEPT ![Here] =
                     Without(@, sampled \cup {Prompt(batch, p) : p \in Prompts})]
    /\ sampled' = {}
    /\ UNCHANGED <<remote, queue, listed>>

(* Slip: the key of the padding is not the batch's any more. *)
RemoveKeepingSample ==
    /\ pc = "remove" /\ NextBatch
    /\ buffer' = [buffer EXCEPT ![Here] = Without(@, sampled)]
    /\ UNCHANGED <<remote, queue, listed, sampled>>

Remove ==
    /\ pc = "remove" /\ NextBatch
    /\ buffer' = [buffer EXCEPT ![Here] = Without(@, sampled)]
    /\ sampled' = {}
    /\ UNCHANGED <<remote, queue, listed>>

Trainer == GenerateSequences \/ Sample \/ Pad \/ ClearQueue \/ Remove
Poller  == ListQueue \/ \E q \in Partitions : AddListed(q)
Work(b, p) ==
    \/ FinishPrompt(b, p) \/ FailPrompt(b, p)
    \/ \E s \in Sessions, outcome \in {"stored", "empty", "failed"} : EndSession(b, p, s, outcome)

Next == Trainer \/ Poller \/ \E b \in DOMAIN Batches, p \in Prompts : Work(b, p)

Spec == Init /\ [][Next]_vars

(* The trainer and the polling thread run, and an agent loop ends.         *)
FairSpec ==
    /\ Spec /\ WF_vars(Trainer) /\ WF_vars(Poller)
    /\ \A b \in DOMAIN Batches, p \in Prompts : WF_vars(Work(b, p))
-----------------------------------------------------------------------------
(* Types; the trainer holds keys only between sampling and removing.       *)
TypeOK ==
    /\ batch \in DOMAIN Batches
    /\ pc \in {"dispatch", "sample", "pad", "use", "remove", "done"}
    /\ \A store \in {queue, buffer, listed}, q \in Partitions :
           /\ DOMAIN store[q] \subseteq Keys
           /\ \A k \in DOMAIN store[q] :
                 /\ store[q][k].step \in Nat \cup {None}
                 /\ store[q][k].status \in {"running", "success", "finished", "failure"}
    /\ sampled \subseteq Keys /\ (pc \in {"dispatch", "sample", "done"} => sampled = {})

(* What the trainer is about to read from the queue are rows of this batch,*)
(* and they are still there, whatever the polling thread brought back from *)
(* a listing that was older than the last cleaning.  The exception: rows of*)
(* an earlier batch of the same partition and step, as the batches of one  *)
(* validation are (a session that ends late, or an old listing); these may *)
(* be taken as well, and may have left the queue.                          *)
SampleIsTheBatch ==
    pc = "use" =>
        \A k \in sampled :
            IF k.batch = batch THEN k \in DOMAIN queue[Here]
            ELSE /\ k.batch < batch
                 /\ Batches[k.batch].partition = Here /\ Batches[k.batch].step = Step

(* The trainer waits for every prompt of its batch, and misses no row of a *)
(* prompt that finished: the mark never overtakes the rows.                *)
SampleIsComplete ==
    pc = "use" =>
        \A p \in Prompts :
            /\ prompt[batch][p] # "running"
            /\ prompt[batch][p] = "finished" =>
                   \A s \in Sessions : session[batch][p][s] = "stored" => Key(batch, p, s) \in sampled

(* sample() reads the step of every entry of the buffer: an entry that the *)
(* polling thread made from a mark alone would have none.                  *)
EntriesHaveTheirStep ==
    \A q \in Partitions : \A k \in DOMAIN buffer[q] : buffer[q][k].step # None

(* The trainer never waits for ever, whatever fails in a session.          *)
EveryBatchIsSampled == <>(pc = "done")
=============================================================================
