# Verification of PI-Mem

TLA+ models of the parts of PI-Mem, and of the trainer it is built into, whose
correctness depends on the order in which things happen or on arithmetic that
ties rows, tokens and workers together. TLC checks every model on small
instances; TLAPS proves properties of eight parts for every instance.
`PROJECT.json` names, for every definition that models code, the file and the
lines it stands for.

## 1. The system

| Part | State it keeps | Operations | Hard to get right |
|---|---|---|---|
| Synchronous agent, `recurrent/impls/memory.py`, driven by `recurrent/generation_manager.py` | phase, pass and chunk counters, memories, notes of the pass, convergence mask, passes charged | `start`, `action`, `update`, `end` | one phase machine for samples of different lengths and different numbers of passes |
| Asynchronous agent, `recurrent/impls/async_memory.py`, under `async_generation_manager.py` and the proxy of `async_utils.py` | locals of one coroutine per item | `rollout`, windows of concurrent requests | replies out of order, requests that fail, one item failing the batch |
| Evaluation client, `taskutils/memory_eval/utils/parallel_boxed.py` and its variants | memory and notes of one question | passes over HTTP | failed and blank requests that look like "no news" |
| Evaluation runs, `taskutils/memory_eval/ruler_general.py` | result file and its buffer, questions under way | read what is answered, ask, write | a run that is killed and started again |
| Request balancer, `verl/workers/rollout/llm_server.py` | requests in flight per server, LRU cache from request id to server | `acquire_server`, `release_server`, `add_servers`, `remove_servers` | releases that arrive late, servers that leave and come back |
| Tool agent, `verl/experimental/agent_loop/tool_agent_loop.py` | tokens, mask, log probabilities, versions, images, turn counters | generate, call tools, ask the user, stop | concurrent calls, limits met in the middle of a turn, arrays of different owners that must stay aligned |
| Rate limiter, `verl/experimental/reward_loop/reward_manager/limited.py` | token buckets, semaphore | `acquire`, `run_single` | sleepers that race for tokens, a timeout that races the answer |
| Interruptible client, `verl/experimental/fully_async_policy/fully_async_rollouter.py`, with `vllm_async_server.py` | tokens collected so far, limit, versions | generate, continue after an abort | token budget and versions across aborts |
| Fully asynchronous pipeline, `verl/experimental/fully_async_policy/` | pending queue, running tasks, `paused`, `staleness_samples`, asyncio lock, message queue, the trainer's counters | feed, process, deliver, pause, drain, monitor, `reset_staleness`, collect, train, synchronise | coroutines interleave at every await, and two actors count the same samples |
| Replay buffer, `verl/trainer/main_ppo_sync.py` | its entries and those of the TransferQueue, the listing in the hand of the polling thread | mark, put, poll, sample, remove | a listing older than a removal, sessions that fail |
| Hybrid replicas, `fully_async_trainer.py` | which replicas are awake, paused and in the pool | wake, add, validate, remove, sleep | requests routed to a replica on its way to sleep |
| Weight transfer, `verl/checkpoint_engine/`, `vllm_rollout/bucketed_weight_transfer.py` | two buckets per node, or one shared buffer; views handed out | split, fill, broadcast or relay, merge, load | a buffer filled while someone still reads it |
| Checkpointing, `fully_async_trainer.py` and `verl/utils/checkpoint/checkpoint_manager.py` | directories, tracker file, list of kept directories | save, retain, load | a crash between any two writes |
| Trainer loops: `verl/trainer/ppo/ray_trainer.py`, `verl/experimental/one_step_off_policy/ray_trainer.py`, `verl/trainer/main_ppo_sync.py` | step counter, loader position, weights of actor and replicas, checkpoint | step, save, update weights, validate, resume | a step that is skipped, a loader ahead of the training, a restart at the end of an epoch |
| Recurrent step, `ray_trainer.py` and `recurrent/utils.py` | the batch, its final mask and sample index, rewards and advantages | reorder, filter, pad, score, unpad, split | positions are all that ties a row to its sample |
| Batch balancing, `verl/utils/seqlen_balancing.py` | partial partitions, index lists | Karmarkar-Karp, micro-batches, order for the ranks | an empty or surplus part makes ranks wait for each other |
| Advantages, `verl/trainer/ppo/core_algos.py` | none: functions of one batch | GAE, REINFORCE++, ReMax, RLOO, OPO, GPG, Pass@k, GRPO over sessions, optimal baselines | masks with gaps, groups of one, ties, empty responses |

How they interact: an agent hands prompts to its generation loop; that asks the
worker group (synchronous) or the proxy (asynchronous), which acquires a server
from the balancer. In fully asynchronous training the rollouter's tasks use the
same balancer through the interruptible client and put finished samples in the
message queue; the trainer takes them out, and at the end of every cycle sends
new weights (aborting and resuming the generations), calls `reset_staleness` on
the rollouter, validates on its own hybrid replicas and saves. The other
trainers run the same step in loops of their own: in turn, one batch ahead, or
fed by the replay buffer. Within a step the rows of the batch are reordered,
filtered, padded and balanced, and given advantages.

What makes each part correct:

* agents: every chunk of a pass is read against the same memory, every piece of
  new information is merged exactly once, a question that is finished is left
  alone, all are answered once and charged for the passes they really used;
* evaluation runs: no answer is lost or given twice, whatever is killed;
* balancer: its counts follow the load, a conversation keeps its server;
* tool agent and interruptible client: whatever interrupts a trajectory, its
  arrays describe the same tokens, and its limits hold over all calls;
* rate limiter: no more is let through than the rates allow, no slot is lost;
* pipeline and replay buffer: samples never pile up beyond the staleness limit,
  none is lost behind the end mark or mixed with another batch, nobody waits for ever;
* weight updates: what a receiver is given is the model, whole and in order;
  nothing generates on weights of another version, or on none;
* trainer loops and checkpoints: a restart goes on where the checkpoint was
  taken, what is on disk can be loaded, and little work is lost;
* batches: every row is trained on once, with its sample's reward and advantage,
  and no rank has a step more than another;
* advantages: only trained tokens count, and responses are compared fairly.

## 2. Modules and their relation to the code

```
ReadSelectMerge            what all readers promise per question
  MemoryAgent              implements it
  AsyncMemoryAgent         implements it;  AsyncMemoryAgentProofs
  ParallelBoxed            implements it while no request fails
EvaluationRun
  MCAgents                 all four;  AgentsProofs
LoadBalancer, ToolAgentLoop, RateLimiter
  MCTrajectories           all three;  TrajectoriesProofs
FullyAsync, ReplayBuffer
  MCSampleQueues           both;  SampleQueuesProofs
PartialRollout             PartialRolloutProofs
HybridValidation
Buckets                    bytes of weights
  WeightChannel            what every transfer promises
  WeightChunks             cutting and merging
    NcclTransfer           implements WeightChannel
    NixlTransfer           implements WeightChannel
  BucketedTransfer         implements WeightChannel
MCWeightUpdates            validation and the three transfers;  WeightUpdatesProofs
OneStepOff, TrainerLoop, TransferQueueTrainer, Checkpointing
  MCTrainers               all four;  TrainersProofs
GracefulPadding            pure functions
  PaddedGeneration, RecurrentStep
BalancedPartitions         Karmarkar-Karp
  MicroBatches, RankBalance
    MCBatches              all five, and MCAdvantages;  BatchesProofs
TokenAdvantages, GroupAdvantages, OptimalBaseline
  MCAdvantages             all three;  run by MCBatches
```

A definition introduced by a comment "Slip:" stands directly before the
definition it distorts. It is that definition with a plausible mistake, is used
nowhere in the model, and documents which property notices the mistake (the
pairs are the `mutants` of `PROJECT.json`).

An `MC...` module instantiates several models of one theme. Its first variable is
chosen in the initial state and says which of them runs; the others stay in one
of their initial states, so a behaviour is a behaviour of one model, and the state
space is the sum of theirs and not the product. The properties at its end put
together what the models of the theme are each asked (`ReadersEnd`,
`AllImplementChannel`, ...); their parts are defined in the component's modules,
with comments of their own.

**ReadSelectMerge.** Per question: a memory, a stage, the passes charged. A
memory is its *lineage*: the sequence, merge by merge, of the sets of chunks
whose notes went into it. `Absorb` is a pass with news, `Converge` a pass
without, `Answer` the final turn. Several questions may move in one step, since
the synchronous agent moves the batch as one.

**MemoryAgent.** The variables are the attributes of `MemoryAgent` plus the loop
state of `run_llm_loop`; `loop` alternates between `agent.action()` (`ChunkAction`,
`EmptyChunkAction`, `MergeAction`, `FinalAction`) and `agent.update()`
(`ChunkUpdate`, `MergeUpdate`, `FinalUpdate`). `EmptyChunkAction` is the branch of
`_chunk_action` in which no sample has a chunk left; it checks convergence and
goes on to the final or merge prompts in the same call. What the language model
answers is free: any set of samples may report news. `turns` collects the rows
the loop produces, with what each prompt showed. Templates, tokens and padding
are left out.

**AsyncMemoryAgent.** One coroutine per item: `ChunkReply` (any request of the
window answers or fails), `NextWindow`, `PassDone` (the replies are looked at
only now, so an early error is raised late), `MergeReply`, `FinalReply`,
`LateError`, and `Gather` for the batch. `Raise` ends the batch.

**ParallelBoxed.** `async_query_llm` and its two variants (`variant`): passes of
concurrent requests, each answered with news, without, blank, or not at all;
the merge may fail or come back blank. **EvaluationRun** is one command started
several times: what the file answers is read, all other questions are asked
under a semaphore, and their records written through a buffer of which a kill
leaves any prefix, with a record cut off.

**LoadBalancer.** The balancer is a Ray actor, so each method is one step.
`Hand` is what both ways of acquiring have in common; `Finish` is the `finally`
clause that sends the release, `Release` its arrival, in any order and at any
later time. Among equally loaded servers the code's `min` takes the first; the
model takes any. `AddServers` and `RemoveServers` come at any time, for hybrid
servers only, as `FullyAsyncLLMServerManager` calls them. `last` and `since` are
history for the property of sticky sessions.

**ToolAgentLoop.** The three handlers are the actions; a tool call creates, uses
and releases an instance in separate steps, each of which may fail, and the calls
of a turn interleave. A token is who wrote it. **RateLimiter.** Time is a `Tick`;
a bucket carries the time since its last update, as the code computes it, and a
sleeper its timer. `Late` bounds by how much a sleeper may oversleep.

**PartialRollout.** Client, servers and trainer. The client's loop sends prompt and
tokens so far; a server adds a token, finishes or is aborted; the trainer aborts,
loads and resumes every server on its own. A token is the version that sampled it.
**HybridValidation.** The remote calls of `_trainer_side_validate` are the trainer's
steps; `Client` actions run between them, and a client learns its server before it
sends its request.

**FullyAsync.** The rollouter is one event loop, so its coroutines switch only at
an `await`: an action is the code between two of them. `proc` says where
`_processor_worker` stands; `lock` is the shared `asyncio.Lock`, a state of its
own only where the code keeps it across an `await` (`WaitForRoom`, `WaitForLast`,
`ResetBegin`). `_resume_event` is always the negation of `paused`. A task that
has delivered stays in `active` until the processor reaps it, as in
`active_tasks`. `gone` is history: how many started samples were consumed or
dropped at the last reset. The message queue's blocking `get_sample` is the guard
of `GetSample` and `StopTraining`. **ReplayBuffer.** The trainer, the polling thread
(which reads a listing in one step and adds it in another), and one task per
prompt with its sessions.

**NcclTransfer, NixlTransfer, BucketedTransfer.** A bucket is a function from places
to bytes; copies are queued and run at any time before the next synchronisation,
a broadcast or a remote read runs beside both ends, and what is handed out are
places, not bytes. A byte `<<w, i>>` is the i-th of weight w. **WeightChunks** has
`split_weight_chunks` and `merge_weight_chunks` as a state and a step function.

**OneStepOff, TrainerLoop, TransferQueueTrainer.** One action per stage of a step;
weights are the number of updates in them; `log` is the history of what was
trained with which batch and weights. `Crash` may come anywhere, and a job that ended
may be submitted again. `ckpt` is the last complete checkpoint; in which order its
files reach the disk is **Checkpointing**: `BeginSave`, `WriteActor`, `WriteData`,
`WriteTracker` with the deletions of `ensure_checkpoint_capacity` and
`register_checkpoint` inside the steps that make them, and `Restart`, which forgets
`previous_saved_paths` and needs a whole directory. The `esi` choice is the expiry
of the instance, which forces a save.

**RecurrentStep** follows the rows from the final conversations to the mini-batches:
rewards, pass bonus, filter, padding, log probabilities, unpadding, update.
**PaddedGeneration** is `generate_with_graceful_padding`. **BalancedPartitions** is the
heap of partial partitions; **MicroBatches** and **RankBalance** use it as the code
does, for groups or rows. **TokenAdvantages**, **GroupAdvantages** and
**OptimalBaseline** compute with integers or fractions, without the standard
deviation and the whitening, and each estimator is compared with a definition
that does not go through the positions as the code does.

## 3. What is checked

### Runs

| Run | Models and instances | Shows |
|---|---|---|
| `agents` (`MCAgents`) | synchronous: 2 samples of 0 to 2 chunks, 3 passes; asynchronous: 1 item of 0 to 3 chunks in windows of 2, and 2 items of 0 to 2 chunks; evaluation client: 3 chunks without failures, 2 with; evaluation runs: 3 questions, 2 at a time, 3 starts | no chunk missed or read twice, merges carry the evidence of their pass, converged samples stay out, failures reach caller or record (also from an early window), answers on disk stay, everything ends, refinement of `ReadSelectMerge` three times |
| `trainers` (`MCTrainers`) | one step off: 2 epochs of 3 batches, 7 steps asked for, warmup of 2, save and test every 2, 3 starts; synchronous loop: 3 epochs of 2, 5 steps asked for, warmup of 2, filter; TransferQueue: 3 epochs of 2, warmup of 2, every step saved; asynchronous checkpoints: cycles of 2 steps, 5 versions, keep 2, 2 crashes | generation has the weights it should have, nothing lags by more than a step, batches come in turn over restarts, checkpoints fit together and can be loaded |
| `trajectories` (`MCTrajectories`) | balancer: 1 permanent and 1 hybrid server, 3 conversations of 3 turns, cache of 2; the same with 2 permanent servers for draining; tool agent with unlimited turns, and with limited turns and aborts; rate limiter: 2 requests through 2 buckets, 3 through 1 | counts follow the load and drain, routes are sticky, trajectories are aligned token by token (but for empty responses), instances and slots are given back, rates hold, every request is answered |
| `sample_queues` (`MCSampleQueues`) | pipeline: 9 samples, 2 steps of 1 sample per cycle, limit 3, 2 tasks; replay buffer: a validation and a step of 1 prompt in 2 sessions, 2 batches of one validation of the same size, and 2 steps of 2 prompts | budget within one, end mark last, bounded backlog, batches sampled whole and mixed with none but those that share their step, the trainer does not wait for ever |
| `partial_rollout` (`PartialRollout`) | 2 requests, 2 servers, 2 synchronisations, responses of up to 2 tokens | limits over all calls, one version per call, aligned arrays, bracketing versions, no sample cut short, every request returns |
| `weight_updates` (`MCWeightUpdates`) | hybrid validation: 1 permanent and 1 hybrid server, 2 training and 2 validating clients, 2 versions; broadcast: 5 weights in 4 buckets to 2 workers; chain: the same to 3 workers; inference process: every model of 1 to 4 weights of 1 to 3 bytes, buckets of 2, shared memory or not | devices and pool are given back, validations are current, no buffer is overwritten in use, all three transfers implement `WeightChannel`, nobody waits for ever |
| `batches` (`MCBatches`) | recurrent step: 2 prompts of 2 samples, 3 prompts of 1; padding: up to 13 rows on up to 5 workers; partitions: up to 6 items in up to 3 sets; micro-batches: up to 4 samples of 1 to 3 tokens; ranks: up to 6 rows on up to 3; estimators: all masks, scores, values of 5 positions, all groupings of 4 responses, optimal baselines of up to 3 responses of 3 tokens | rows keep their sample, every row is used once, partitions are fair and none empty, micro-batches agree over ranks and can be undone; only trained tokens count, groups are balanced, baselines are optimal |
| `synchronous_training` (`FullyAsync`) | 6 samples, 1 step of 2 per cycle, limit 2, 2 tasks | violated, see below |
| `one_checkpoint_kept` (`Checkpointing`) | cycles of 2 steps, every version saved, keep 1, 1 crash | violated, see below |
| `generation_asleep` (`HybridValidation`) | 1 permanent and 1 hybrid server, 1 training and 2 validating clients | violated, see below |
| `epoch_lost` (`TransferQueueTrainer`) | 3 epochs of 2 batches, 2 starts | violated, see below |
| `empty_response` (`ToolAgentLoop`) | responses of up to 4 tokens behind a prompt of 2, 3 turns of the model, aborts | violated, see below |

### Bounds

Every bound is a constant of its module or of an instance in an `MC...` module.

* Agents: two samples are needed for one to be shorter than, or converge before,
  the other; three passes give a sample that converges in the first, the middle
  and the last pass; zero chunks is the empty context. Three chunks in windows of
  two give a full and a short window. Three starts of an evaluation give one
  after a kill and one after a complete run, forced or not.
* Trainers: epochs of two and three batches put the end of an epoch and a save at
  the same step and at different ones; the steps asked for end inside an epoch or
  beyond the last. With a warmup of 2 the first due save follows the first update of the actor,
  while an earlier one (every step is saved, or the instance expires) is of the warmup. Three
  starts let a crash follow a resume. Five versions with every second one saved
  reach a third save, so something is deleted both before and after a restart.
* Balancer: with three conversations and a cache of two, entries are evicted and
  refreshed; two permanent servers make least-loaded a choice; the hybrid server
  leaves and returns with releases outstanding.
* Tool agent: a response of five tokens is cut in every position of a turn of a
  generation and an answer; three parsed calls are more than the two that run.
  Rate limiter: costs below, at and above what a bucket can hold; three sleepers
  wake in every order.
* Pipeline: a limit of 3 over cycles of 2 gives a staleness threshold of one half,
  so samples do survive an update; nine samples are more than four cycles, two
  tasks finish in both orders. A limit equal to the cycle (`synchronous_training`)
  is `staleness_threshold = 0`. Replay buffer: two batches, so that a row of the
  first can come back during the second, of another partition, another step of the same, or
  the same step.
* Interrupted generation: two synchronisations meet one generation twice, or two
  generations once each; two servers are aborted and resumed at different times.
* Transfers: the weights of the broadcast and the chain fill a bucket exactly,
  cross its border, and leave a rest that shares a bucket; the third bucket reuses
  the first buffer. The inference process gets every order of small, full and
  oversized weights.
* Batches: row numbers that divide evenly, leave a rest of one, and are fewer than
  the workers; workloads with ties and zeros. Micro-batches are asked for by this
  rank, by the others, and by the divisor.
* Advantages: five positions hold two turns with a gap and a padding; the discounts
  are chosen so that different products of them differ. Four rows give groups of one
  to four and sessions of two outputs.

*Deadlock* is not checked in these runs: an agent, a job, a stream, a transfer, an
update and a batch each come to an end, the number of versions and starts is
bounded, and the pipeline may stall (below). What must not stop early is stated as
liveness instead.

### Fairness

* `MemoryAgent`, `ParallelBoxed`: weak fairness of `Next`; the loop is sequential and a
  request answers or fails. `AsyncMemoryAgent`: of each coroutine and of `Gather`, in both
  instances; the event loop resumes any that is ready, so that a request that fails in an early
  window is seen when its pass is examined. `EvaluationRun`: of `Work`, not of kills, starts
  or flushes.
* `LoadBalancer`: of finishing and of releases, because generation ends or raises
  and an actor works off its mailbox; none of acquiring, adding or removing.
* `ToolAgentLoop`: of the loop and of each tool call, which returns or raises.
  `RateLimiter`: time passes, and a request that can go on does; nothing is assumed
  of the API, which is what the timeout is for.
* `FullyAsync`: of the feeder, the processor, each task, the two halves of the
  monitor and the trainer. The processor as a whole is one weakly fair action,
  since it is one coroutine; the lock is never wanted for ever, as its holders wait
  only for tasks, which end, and for the queue actor, which answers. The monitor
  polls on a timer, so weak fairness of `MonitorWatch` asks for no more than a
  condition that stays true being seen at last.
* `ReplayBuffer` (the instance `validated`): of the trainer, the polling thread and each session,
  which ends or fails.
* `PartialRollout`: of every request's calls, the servers' tokens and the trainer's
  synchronisation. `HybridValidation`: of the trainer and of each client; a paused
  engine is not assumed to answer.
* Transfers: of each sender and receiver.
* The trainer loops, `Checkpointing`, the batches and the advantages state no
  fairness: all their properties are safety or action properties.

## 4. Where code and documents disagree

Shown by a run of their own:

* **`TrainerIsFed`** (`synchronous_training`). A finished task stays in
  `active_tasks` until the processor looks. If the reset comes between the pause
  decision and the drain, finished tasks are counted as if under way, the count
  reaches the limit with nothing outstanding, the monitor therefore does not
  resume, and the trainer waits for ever. `EndsUnlessOvercounted` shows that this
  miscount is the only way in which the pipeline stalls in the checked instance.
* **`TrackerIsLoadable` with one checkpoint kept** (`one_checkpoint_kept`).
  `register_checkpoint` deletes the old actor before the new checkpoint is
  complete and the tracker renewed. With two kept the property holds.
* **`NoGenerationAsleep`** (`generation_asleep`). A client that was given the hybrid
  server before `remove_replicas` sends its request to the paused engine, where the
  drain does not see it; the replica is put to sleep, and
  `resume_generation_replicas` lets the request run there.
* **`EveryEpochIsTrained`** (`epoch_lost`). `RayPPOTrainer` does not restore the
  dataloader from a checkpoint of the last step of an epoch, because that state is
  exhausted; the trainer with TransferQueue restores it always, and the epoch after
  the resume gives no batch.
* **`EveryResponseTokenIsMasked`** (`empty_response`). A request that is aborted before its first
  token leaves the tool agent with an empty mask. `prompt_ids[-len(response_mask):]`
  (`tool_agent_loop.py:162`) is then the whole list, and the prompt is returned as the response,
  with no mask for its tokens, against what `agent_loop.py:90-92` says of both.
  `TrajectoriesAreWhole` excepts this case (`NothingGenerated`) and no other.

Met while modelling, without a run of their own; where a property is affected it
states the exception:

| Code | Behaviour | What a document or comment says |
|---|---|---|
| `fully_async_rollouter.py:567` | the sample in the processor's hand is in no set the reset counts: one sample more than the budget is started (`RolloutNumWithinOne` is checked and proved) | `docs/advance/fully_async.md:137-139`, the formula for `rollout_num` |
| `fully_async_trainer.py:589` | the forced save of the last step returns early when the version is already saved; local steps since then are lost | `fully_async_trainer.py:599-602`, "It's the last training step" |
| `parallel_boxed.py:319` | a pass all of whose requests failed is reported as converged | `README.md:26`, "exits when no new evidence is found" |
| `ruler_general.py:341` | `--force` fails on a file with a record cut off | `ruler_general.py:414`, "force to overrite" |
| `vllm_async_server.py:477` | an interrupted request without `max_tokens` may return more than `response_length` tokens | `vllm_async_server.py:475`, "Cap max_tokens by response_length" |
| `checkpoint_engine/base.py:461` | without partial rollout, ongoing generations are aborted and returned as they are | `fully_async_policy/README.md:217-218`, "it will wait for the tasks to complete" |
| `fully_async_rollouter.py:360` | an active hybrid server is counted twice | l.359, "Total active rollout servers (standalone + hybrid)" |
| `limited.py:388` | a call in a thread runs on after its timeout gave its slot back | l.183-185, "Limits the number of simultaneous API requests" |
| `limited.py:306` | every worker process has limiters of its own | l.195-197, "enforced consistently across multiple workers" |
| `limited.py:420` | requests pass the bucket before they wait for a slot, and may then start together | l.187-188, "Limits requests per minute" |
| `ray_trainer.py:1831` | a last step that the filter skips is neither saved nor the end of the loop | l.2044-2047, "It's the last training step" |
| `ray_trainer.py:1660` | a job resubmitted after its total trains a step beyond it each time | `ppo_trainer.yaml:121`, "Total training steps" |
| `main_ppo_sync.py:208` | with `val_batch_size` the batches of one validation share partition and step, by which alone the buffer tells them apart: a row that a late session (`gather` raises at the first failure, l.349) or an old listing puts there after the clean-up is sampled with the next one (`SamplesAreOfTheBatch` excepts such rows, in the instance with two batches of a validation; between training steps, which differ, it excepts nothing) | l.937, "cleanup transfer queue and replay buffer" |
| `main_ppo_sync.py:1565` | the entries of prompts are never removed | l.1564, the same comment |
| `ray_trainer.py:1202` (one step off) | the loader's state is a batch ahead when it is saved; a resumed job never trains that batch | `docs/examples/config.rst:602-604`, "automatically resume" |
| `one_step_off_policy/ray_trainer.py:395` | when no batch is left the loop ends with a TypeError | `docs/advance/one_step_off.md:115`, `while batch_data_future is not None` |
| `one_step_off_policy/ray_trainer.py:287` | with a warmup nothing is handed over before it ends, also after a checkpoint was loaded; the replicas generate with the weights they loaded themselves (`vllm_async_server.py:134`), which are the actor's, as it has not learned yet (`StaysOneStepBehind`, without exception) | l.285, "load checkpoint and update weights before doing anything" |
| `tool_agent_loop.py:285` | an answer with several images gets one placeholder | `tools/schemas.py:112` |
| `seqlen_balancing.py:398` | balancing may put more tokens into a micro-batch than the limit | l.363, "max sum of attention_mask per micro-batch" |
| `core_algos.py:724` | the running return is reset at observations between turns too | l.723, "Reset after EOS" |
| `core_algos.py:980` | the tail is measured by a count of tokens, so a rejected token moves its border | l.971-972, "beyond the second-longest trajectory" |
| `main_ppo_sync.py:174` | a final output all of whose tokens were rejected broadcasts an advantage of 0 | l.127, "the result is broadcast" |

Hazards without a property: the samples of an incomplete step are thrown away at
the end mark (`fully_async_trainer.py:311`); the dataloader state is saved ahead of
the samples under way (`fully_async_rollouter.py:597`); `do_validate` blocks the
rollouter's event loop (`fully_async_rollouter.py:589`); an exception during an abort is
swallowed (`vllm_async_server.py:695`); a weight larger than the buffer cannot go
through shared memory (`bucketed_weight_transfer.py:137`, the exception made by
`AllLoadedAndBothReturn`); metadata published before the subscription is lost
(`nccl_checkpoint_engine.py:83`); rewards are compared as floating-point numbers by the
filter (`ray_trainer.py:1813`). They are by design, or the model would only restate the line.

## 5. What is proved

Each `...Proofs` module extends its component's module, or the `MC...` module that
instantiates the components of its theme, defines an inductive invariant, proves one
lemma per action that keeps it, and concludes its theorems. All hold for every value of
the constants that the named assumptions of the component's module admit. Where an `MC...`
module instantiates a component with given constants, the component's assumptions are
operators that the `MC...` module assumes for the instance, and its theorems name them as
hypotheses; an instance with a parameter (`Client(c)`, `Buffer(c)`, `ToolsOf(c)`, `LimiterOf(c)`) is proved about for
every value of it.

**`AgentsProofs`**. Of `MemoryAgent`, for every finite non-empty batch, every `MaxChunks` and
every positive `MaxPasses`:

* `TypeCorrect`. `TypeOK` is not inductive: that the counters stay in range depends
  on the phase (`TypeInv` adds: as many notes as chunk steps; a pass is still
  allowed unless the phase is final; a chunk is asked only if there is one).
* `PassesReadWhole` (`PassesAreReadWhole`): every chunk of a pass is read once, by one
  prompt, against one memory, and a merge carries the news of its pass and nothing else. The
  invariant is `WorkInv`. `MemoryInv` and `PhaseInv` say where each sample stands: one
  that has not converged has merged once per pass, one that has is charged one pass
  more than it merged. `ChunkRowsInv` describes the recorded chunk rows of every pass,
  finished or running, by the memory they show, which is a prefix of the present
  one; `MergeRowsInv` has one merge row per element of a memory, in their order;
  `FinalRowsInv` and `StepInv` do the same for the answers and the step counter.
* `AnswersReasoned` (`AnswersHaveAReason`): who is answered has converged or used all passes, and
  is charged the passes it read; from the same invariant and a counting argument
  (the passes of a sample's rows are an interval).
* `OneMemoryPerPass`, `ConvergedSamplesStayOut`: two earlier parts of these, from an
  invariant of their own (`RowInv`, `PromptInv`).
* `AgentImplementsWorkflow` (`ImplementsWorkflow`): the refinement of `ReadSelectMerge`. The
  stage of a sample is read off the charge and the loop; `SampleStep` shows that
  every step of the batch is, for each of its samples, `Absorb`, `Converge`, `Answer` or
  `Stay`. `AgentKeepsWorkflow` (`WorkflowIsKept`) adds that converged samples stay out.

Of the evaluation client, for all bounds on chunks and passes (`Client(c)`, names `b_...`):

* `ClientKeepsItsNotes` (`MemoryIsWhatWasMerged`, `ReportedPassesWereRead`), whether requests
  may fail or not. `b_Lineage` says which passes the memory has, in order: those whose merge
  came back and was not followed by a blank one. `b_RankGrows` and `b_LineageGrows` are the
  lemmas on counting them when a pass is added, `b_BlankLater` when a merge comes back blank.
* `ServedClientFollowsTheWorkflow`: the refinement of `ReadSelectMerge` while no request
  fails. `b_ServedInv` is needed for it: the memory has as many merges as passes are
  through, so the merge of a pass is one `Absorb`.

Of the evaluation runs, for any number of questions, places and starts (`e_...`): `e_IInv` says
that the records on disk and in the buffer are of different questions, and `e_WrittenInv`
that behind the queries exactly the questions the loop has passed and that have an answer
are among them. The questions of a run are a set put in ascending order by `CHOOSE`;
`e_AscendingFacts` shows that there is such an order, from ranks and the pigeonhole
principle.

`MCAgents` runs one of the readers. `OthersInv` has the invariant of each, with that of
`AsyncMemoryAgentProofs` for its two instances (`WindowsSteps`, `BatchSteps`: the steps of
an instance are those of its copy there), and gives `EveryReaderReadsAndAnswers`
(`OthersReadAndAnswer`), `EveryReaderTypeCorrect` (`TypesOK`), `AnswersSurvive`
(`AnswersAreKept`, action properties) and `OthersFollowTheWorkflow`
(`OthersImplementWorkflow`, in which every step of an agent is a step of the workflow).

**`AsyncMemoryAgentProofs`**, for any batch, context lengths, width of the windows and
number of passes, any order of the replies and any failures. The invariant is one
formula per item (`ItemInv`), so a step proves it for the item that moves and `Untouched`
for the others:

* `EveryChunkIsAskedOnce` (`WindowsPartitionThePass`) is inductive with the types, and at the
  end of a pass says that there is a reply to each chunk (`CompletePass`).
* `TurnsAreInOrder` (`ConversationsAreInOrder`) from `Ordered`: how the recorded turns end at
  each stage. `ChunksInOrder` and `LastInOrder` are the lemmas on appending.
* `MergesCarryTheEvidence` (`MergeCarriesTheEvidence`) from `Evidenced`: no turn is ahead of its
  item's pass, and the chunk turns of the running pass are the replies at hand.
* `ReturnedBatchesAreComplete` (`ReturnedBatchIsComplete`) with `Counted`: the passes read are
  those up to the present one, without a gap, so their number is the charge.
* `ItemsFollowTheWorkflow` (`ImplementsWorkflow`): the refinement of `ReadSelectMerge`; a reply,
  a window and a failure are stutters.

**`SampleQueuesProofs`**, of `FullyAsync` for every number of samples, every limit not below one cycle,
and every number of tasks not above the limit (`SizesAssumption`,
`LimitsAssumption`, `EndAssumption`; the limits are what
`set_max_required_samples` computes):

* `TypeCorrect`, which contains the bounds of the queue and of the tasks. `LockInv`
  ties the lock to its holder and `HandInv` says that the sample in the
  processor's hand is not a task yet.
* `RolloutBudget` (`RolloutNumWithinOne`). `BudgetInv` relates the samples charged to
  the present cycle to the staleness count: the count may fall short by the
  sample in hand only, and it is compared with the limit before each sample is
  taken. The lemmas `...Budget` are its cases; `OutstandingCounted` is the counting
  argument: what is in the hand, running or queued is no more than what the reset
  counts, plus one.
* `OutstandingBounded`: nor do the samples between the rollouter's hand and the
  trainer ever exceed that number.
* `EndComesLast` (`EndMarkComesLast`): nothing is queued behind the end mark and nothing is
  still generated when it is. `EndInv` says that the mark is put once, by a processor
  that has drained its tasks; `PlacesInv` that a sample is in one place, so that the
  queue never holds two of it; a full queue drops from its front only (`PutShape`).
* `BacklogBounded` (`StaleBacklogBounded`), an action property: when the trainer goes on
  after an update, no more than the limit less one cycle, plus one, is left of older
  weights. `CycleInv` adds what the trainer consumed to what is outstanding, and both
  together stay within what was charged.

The same module proves of `ReplayBuffer` (`ReplayBufferSamplesWhole`), for any prompts,
sessions and padding and any sequence of batches, that a batch is sampled whole and with
nothing but rows of earlier batches that share its partition and step, if there are any
(those of one validation, l.208 in section 4). `BatchesAssumption` and `SizesAssumption` are those of
the module. The invariant `r_Inv` follows the three copies of the entries (queue, listing, buffer): `r_Good` says of every entry that its batch was dispatched and that a mark
tells how its prompt ended (or still says that it runs); `r_Marked` that the buffer never loses the entry of a
prompt, so that a mark without a step finds the one it lacks; `r_Whole` that a
finished mark comes with all rows of its prompt in whatever copy it is, for a listing
is of one moment; `r_Held` that no copy knows a row of the present batch that the queue has
not. What an old listing brings back, or a late session adds, is of an earlier batch, and stays
unsampled unless that batch has the partition and step of the present one (`r_Sharing`). For the
three instances of `MCSampleQueues`: `EveryBatchIsSampledWhole` (`SamplesAreOfTheBatch`) and
`BothTypeCorrect` (`TypesOK`).

**`PartialRolloutProofs`**, for any requests, servers, lengths, limits and number of
synchronisations:

* `BudgetIsKept` (`BudgetKept`): a caller's limit holds over all calls, and no call asks for
  less than one token; from `CallOf`, which ties the budget of a running call to
  `MaxTokens` of what is there already.
* `WholeResponses` (`ResponsesAreWhole`). `Synchronised` says which version every server has in
  each phase of a synchronisation, and that weights change only while all servers
  are paused; a paused server's call has no token yet unreturned, so a call sees one
  version, and the versions reported bracket all (`VersionsOf`).

**`WeightUpdatesProofs`**. Of `HybridValidation`, for any replicas, clients and number of
updates: `SafeValidation` (`ValidationIsSafe`) from `Staged`, which says for every step of the
trainer which replicas are awake, listed and paused, `FreshVersions` (whoever is awake has
the current weights) and `Measured` (what validating clients have been answered).
`OnlyRemovalLoses` (`LostOnlyAfterRemoval`), an action property, is the other side of the run
`generation_asleep`: a request is lost only to a hybrid replica that was taken out of the
pool before it ran, never to an abort or a validation.

Of the three transfers, for every non-empty model (any number of weights of any positive
sizes), every positive bucket size and any receivers, or length of the chain:

* `BroadcastGivesWhole`, `ChainGivesWhole`, `InferenceGivesWhole`: each implements `WeightChannel`;
  the inference process for every set of models, the empty one included.
* `BroadcastSparesBuckets`, `ChainSparesBuckets` (`NoBucketInUseIsWritten`), action properties.
* `BroadcastIsSound`, `ChainIsSound`, `InferenceIsSound`: types, no failing assertion at either
  end, requests and answers in turn.

All that the argument needs of `split_weight_chunks` is `RunsFromTo`: every chunk continues
its weight or begins the next one, and is no larger than a bucket (`ChunksRun`, proved over the
recursive function `Chunks` with `SetInduction`: the least number a fact fails for). What
`merge_weight_chunks` holds after the first k chunks is then a function of k, `Progress`, and
`MergedAdvances` says that one more chunk takes it to k + 1, yielding a weight when it
completes one. Each end is described by numbers of chunks: `Filling` is a bucket being filled
(what is queued to be copied is not there yet), `Package` one that is complete and names the
chunks after the first k, `Handing` one whose chunks are handed out, some of them places whose
copies are still queued. They go from one to the other as the code does: `FillingGoesOn`,
`WritingGoesOn`, `FilledIsPackage`, `HandingBegins`, `YieldingGoesOn`, `ReadingGoesOn`.

`n_Inv` puts these together for the broadcast: the sender fills the one bucket while the other
is broadcast; a receiver hands out the one while the other arrives. In `x_Inv` a link between
two nodes (`x_LinkOK`) says where the chunks are that a node has offered and the next one lacks
(in its message, in the bucket it reads or in the one it has read), and that an offer which was
not notified yet still has a reader; `x_NodeOK` is the handing out. The number of chunks
each node is at is existentially quantified: it is no variable of the model. `b_Inv` goes through
the phases of a hand-over: opening, filling, asked, loading, replied, ended; the weights loaded
are the first ones, those in the message follow them, those not yet packed come after.

`MCWeightUpdates` runs one of the four, and the others stay in their invariants (`AllInv`,
`OneSteps`), so that its properties follow: `EveryUpdateTypeCorrect` (`TypesOK`),
`NoBufferIsOverwritten` (`BuffersAreRespected`), `EveryTransferGivesWhole` (`AllImplementChannel`) and
`ValidationStaysSafe` (`ValidationIsSafe`).

**`TrainersProofs`**, for any number of steps, epochs, crashes and restarts. Of
`OneStepOff`:
`NoMixedBatch` (`NoGenerationAcrossSync`) from `Awaited`, which has no generation under way
where weights are handed over; and `NothingLagsFurther` (`StaysOneStepBehind`) from `Apartness`,
which follows the distance between trained and served weights through the stages of a step and
into the checkpoint. Both for any warmup of the critic: `Unlearned` says that until it is over the
actor has not been updated, nor has that of a checkpoint, so that the replicas, which are handed
nothing, have its weights all the same.

Two parts of `TrainersGoOnInTurn` are proved from `InTurn`, for any warmup:
`ReturnsAfterTheTotal` (`TrainsToTheTotal`), since only the last step launches nothing; and
`RestartLosesOneBatch` (`AtMostOneBatchIsLost`). `Recorded` says that in a first run the batch of
a step is that of its number, so that the restart takes the end of an epoch for what
it is, and that the checkpoint's loader is at the last batch or one further;
`Positioned` gives, for each stage, the batch that is next (`Fits`) and where the
prefetch has the iterator (`Ahead`). A second restart is outside: the loader is then
ahead of the step numbers. `NoneAssumption` says that `None` is no generation task.

Of `TrainerLoop`, the invariant `l_IInv`: `l_Counted` has the loader's position (`epoch *
EpochSteps + yielded`) and the step number at the same place, stage by stage, and
`l_Restorable` says the same of a checkpoint, so that a restart takes up the batch that is
next (`l_StartAgain`: the end of an epoch, where the loader is not restored, and its
middle). `l_Matched` keeps weights and log together and `l_Saved` what was due on disk,
except for the step that is about to be saved; skipped steps and steps of the warmup are
in the log, too, and are never due.

Of `TransferQueueTrainer`, `q_IInv`: there a restart from the end of an epoch puts the loader
one epoch ahead of the step number, and never more (`q_Restored`: whatever the offset
was, dividing the step number by the epoch's length brings it back to none or one).
`q_Offset` follows it through the stages: none in the first run, and from the first restart
on what the last step of the log has, or one epoch more. A batch is therefore never trained
twice over one restart (`NoBatchTwice`); a second one may go back by an epoch.

`MCTrainers` runs one of the four, so its behaviours are behaviours of each (`RunsLoop`,
`RunsQueue`, `RunsAsync`, `RunsOneStepOff`), and its properties follow: `TrainersGoOnInTurn`
(`EveryTrainerGoesOnInTurn`), `CheckpointsFitTogether` (`WhatIsOnDiskFitsTogether`, under
`KeepMax # 1`) and `TypesOK` (`EveryTrainerTypeCorrect`).

Of `Checkpointing`, for any length of a cycle, saving frequency and number of crashes, at any
moment (the invariant is `c_IInv`, and `c_LoadInv` for what can be loaded):

* `TrackerStaysLoadable` (`TrackerIsLoadable`), under `KeepMax # 1`: what the tracker names is
  whole. The hypothesis is needed: the run `one_checkpoint_kept` refutes it for one.
  `c_RoomInv` is where it enters: with room for two the list is never so full, when a
  checkpoint is begun, that the last one is among those deleted. `c_KeptInv` has the
  list sorted and not ahead of the last whole checkpoint.
* `LittleIsAtRisk` (`FewVersionsAtRisk`): no version that was due is behind the trainer
  unsaved (`c_RiskInv`), and of `save_freq` consecutive numbers one is due (`OneIsDue`).
* `RollouterKeepsUp` (`RollouterLagsByTheCycle`) and `EndIsSaved` (`WholeCyclesAreSaved`), from
  `c_LagInv` and `c_SavedInv`.

**`TrajectoriesProofs`**. Of `LoadBalancer`, for any servers, requests and order of messages:

* `CountsAreRight` (`CountsFollowTheLoad`): counts never exceed the real load and are exact
  for servers that are never removed; the two are inductive together with
  `Counters`. The load is a cardinality, so the lemmas `HandLoad`, `FinishLoad` and
  `ReleaseLoad` say what each action does to it. `AcquiresFromThePool`: no request is
  given a server that has left.
* `SessionsStick` (`StickySession`), an action property: a conversation keeps its server while
  fewer than a cache-full of other requests came in between and the server is there. In
  `RouteInv`, `EntriesInv` says that the requests behind an entry of the cache have
  been served since, each once, and `MemoryInv` that a conversation without an entry has seen a
  whole cache of others: if the first entry is pushed out, the others behind it are
  different requests, all served since (`StoredKeeps`; `WithoutShape` and `TouchedKeeps`
  for an entry moved to the end). `RoutesAreGood` (`RoutesStayGood`) has both.

Of `ToolAgentLoop`, `EveryToolAgentIsSound`: for every configuration `c` that `ToolsAssumption`
admits (lengths, limits of turns and of parallel calls, the answers tools may give, any number
of weight updates). `MCTrajectories` takes its instances from one parameterised instance,
`ToolsOf(c)`, so that what is proved of `c` holds for the two of the run. The invariant `u_Inv`:

* `u_Whole`: the response is the end of the prompt's tokens, as long as its mask, which
  is 1 at the tokens of the model (`u_Fit`), each with a log probability of its own or a 0.0
  (`u_Scored`). It also says where it may end: there is room whenever the model is asked, tools
  run behind a token of the model, and a terminated response ends with one wherever it is cut.
  A request aborted before its first token breaks only that last part. What is returned is
  `u_Kept`: either a trajectory with tokens, which is whole but may then end with a tool's answer
  short of the limit (`u_Good`), or one without (`u_Nothing`). No hypothesis excludes aborts.
* `u_Answers` with `u_Told`: the n-th token that answers a call is that of the n-th reward; the
  rewards left over are those of a turn whose answers were dropped, which ends the loop. The
  lemmas `u_ToldGrows` and `u_ToldDrops` are its two ways on. Unless a tool answers with
  several images the images are as many as the tokens with a place.
* `u_Spanned`: the reported versions are a span around the version of every token.

Of `RateLimiter`, `EveryLimiterIsKept`: for every configuration that `LimiterAssumption` admits. Slots are a
count: `l_Slots` adds the calls under way to what is free. The rate is harder, as a request larger
than its bucket takes its tokens first and sleeps until they have come, while others ask. `Debt`
describes such sleepers of one bucket, in the order of their timers: no two are due at the
same tick; when one is due, its debt without that of the later ones is paid, by less than a
tick's tokens too much; and the credit of the bucket is no less than its level, with what
the sleepers took added and the overdraft subtracted. Sums over the sleepers are a function on
sets given by its equations (`Adds`, which `SumExists` shows to exist), since a fold cannot be
reasoned about here. `DebtGrant`, `DebtGrows`, `DebtIsPaid` and `DebtTicks` are the ways the
debts change: a request is let through, begins to sleep, ends its sleep, and time passes.

`MCTrajectories` runs one of its models, and the others stay in their invariants (`AllInv`,
`PartsOfAll`), so that its properties follow: `TypesOfAll` (`TypesOK`), `TrajectoriesOfAll`
(`TrajectoriesAreWhole`), `LimitsOfAll` (`LimitsAreKept`), and `BalancerOfAll`
(`CountsFollowTheLoad`, `RoutesStayGood`).

**`BatchesProofs`**. Of `BalancedPartitions`, for any number of items, any workloads and any
number of sets up to that of the items: `AnyBatchIsDividedFairly`, and `PartitionsStayFair`
(`PartitionsAreFair`) for `MCBatches`, which extends it. `IInv` says what `Solution` is, of every
state in the pool, whatever it was merged from:

* `SumsOf`: a set's sum is that of its items. `SumOf` is a recursive function on sets, of which a
  proof knows nothing until it is shown to exist (`SumOfItems`, by an induction over the sizes of
  sets spelled out as a set of numbers); `SumsAdd` is additivity over disjoint sets.
* `Decreasing` and `FewDiffer`: the sets stand in decreasing order and no two differ by more than
  the largest workload. In `Merged` the sums of one state fall from set to set by no more than
  that, and those of the other, taken backwards, rise by no more than that: so do the
  differences of both together lie between the negative largest workload and the largest
  (`MergedSets`). Sorting moves sets only (`SortedIsSolution`).
* `EmptiesLast` and `SinglesFirst`: empty sets come last, and as long as a state has one, none of
  its sets has two items. Two states whose sets in use do not meet keep their single items
  apart, and if they meet none is left empty. The items of the final state are therefore at
  most as many as its sets in use, and with `k` items or more none is empty
  (`IInvIsEnough`, by the pigeonhole theorem): also items without any work, which sums do not
  show and for which the order needs the number of items (`Greater`).
* `AsMany`: with `equal_size` all sets have as many items. Ranks by workload and index are a
  bijection (`RanksAreTaken`), so that the first states, `k` consecutive ranks each, are disjoint
  and take every item (`GroupsAre`, `GroupsAreSolutions`); their spread is within the largest
  workload since each has one item per set.

Model-checked only:

* all liveness (`ReadersEnd`, `NothingIsHeldForEver`, `StreamsEnd`, `EveryRequestReturns`,
  `UpdatesEnd`), which is beyond what the prover handles under fairness;
* the recurrent step and padding, micro-batches and ranks (`RowsKeepTheirSample`,
  `MicroBatchesCanBeUndone`, `RanksAreBalanced`) and the advantages (`TokensAreCredited`,
  `GroupsAreCompared`, `BaselinesFit`), whose functions select, sort and fold sequences with the
  operators of the library, whose definitions fold or choose with an operator as parameter. A
  recursive function can be proved about, as `Chunks` and `SumOf` are, with an induction spelled
  out over a set of numbers.

## 6. What is not modelled, and the plan

Not modelled, and not planned:

* model engines, kernels, losses and their gradients, datasets, configuration and
  scripts: tensor computation, adapters of FSDP, Megatron, vLLM and SGLang, I/O;
  they keep no protocol state, and what is used of them is assumed where it is used;
* the launch of servers, LoRA adapters and profiling in the vLLM server;
* the fan-out of the agent loop workers and the post-processing of their outputs, the
  single-turn loop, the tool parsers; the reward loop's workers and HTTP retries;
* the Kimi and Mooncake checkpoint engines; the HCCL engine is built like the NCCL one;
* `parallel.py`, `recurrent.py` and `recurrent_boxed.py` of the evaluation (sequential
  loops), data loading and scores;
* the trainer of the asynchronous pipeline after the end mark, validation on the
  rollouter's side, elastic replicas;
* standard deviations and whitening, GDPO, policy losses, KL estimators and rejection
  criteria among the estimators;
* the older fork under `memagent/` and the scripts under `serve/`.

Planned, most important first:

1. `HybridValidation` composed with `LoadBalancer`, so that the balancer's late releases
   meet replicas that leave.
2. The post-processing of agent loop outputs (padding of prompts and responses, position
   ids), against the masks of `ToolAgentLoop`.
3. The composition of `PartialRollout` with `FullyAsync`: samples that span versions and
   the staleness count.
