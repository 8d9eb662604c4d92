----------------------------- MODULE FullyAsync -----------------------------
(***************************************************************************)
(* The streaming pipeline of verl/experimental/fully_async_policy: a       *)
(* rollouter that generates samples, the MessageQueue actor, and a trainer *)
(* that consumes them and, every TriggerSteps steps, sends new weights and *)
(* resets the rollouter's staleness count.                                 *)
(*                                                                         *)
(* The rollouter is one event loop.  Its coroutines (feeder, processor,    *)
(* one task per sample, monitor, and the trainer's reset_staleness call)   *)
(* switch only where the code awaits, so a step here is the code from one  *)
(* await to the next.  `lock` is the asyncio.Lock they share, and is a     *)
(* state only where it is held across an await.  _resume_event is always   *)
(* the negation of paused.  A sample is its number in feeding order, and   *)
(* End is the None that closes the stream.                                 *)
(* Operators introduced by "Slip:" are mistakes the properties notice.     *)
(***************************************************************************)
EXTENDS Integers, Sequences, FiniteSets

CONSTANTS
    Total,            \* total_rollout_steps: samples of the whole run
    RequiredSamples,  \* required_samples: samples of one training step
    TriggerSteps,     \* trigger_parameter_sync_step
    MaxRequired,      \* max_required_samples, also the queue's capacity
    MaxConcurrent,    \* max_concurrent_samples
    PendingSize,      \* capacity of pending_queue
    End               \* the end-of-stream mark

PerSync == RequiredSamples * TriggerSteps

ASSUME SizesAssumption ==
    /\ Total \in Nat \ {0} /\ RequiredSamples \in Nat \ {0}
    /\ TriggerSteps \in Nat \ {0} /\ PendingSize \in Nat \ {0}
ASSUME LimitsAssumption ==
    \* (staleness_threshold + 1) >= 1, and at most MaxRequired run at once
    /\ MaxRequired \in Nat /\ MaxRequired >= PerSync
    /\ MaxConcurrent \in 1 .. MaxRequired
ASSUME EndAssumption == End \notin Nat

Samples == 1 .. Total

VARIABLES
    fed,        \* items put into pending_queue, the closing None included
    taken,      \* items the processor took from it
    proc,       \* where the processor coroutine stands
    full,       \* the queue was full when the processor asked
    active,     \* active_tasks: samples whose task was not reaped yet
    finished,   \* the tasks of active that are done
    paused,     \* paused
    staleness,  \* staleness_samples
    lock,       \* "free", or who awaits while holding it
    monitor,    \* "watch", or "resume": decided to, and waits for the lock
    counted,    \* active tasks reset_staleness counted before its await
    queue,      \* MessageQueue.queue
    dropped,    \* MessageQueue.dropped_samples
    trainer,    \* where the trainer stands
    batch,      \* samples of the step being collected
    localStep,  \* local_trigger_step
    version,    \* current_param_version
    gone        \* history: samples consumed or dropped by the last reset

rollouterVars == <<fed, taken, proc, full, active, finished, monitor>>
queueVars     == <<queue, dropped>>
trainerVars   == <<trainer, batch, localStep, version>>
pauseVars     == <<paused, staleness, lock>>
resetVars     == <<counted, gone>>
vars == <<rollouterVars, queueVars, trainerVars, pauseVars, resetVars>>

-----------------------------------------------------------------------------
(* MessageQueue                                                            *)

(* Slip: a full queue grows beyond its capacity. *)
PutGrowing(m) == queue' = Append(queue, m) /\ UNCHANGED dropped
(* put_sample: a full queue loses its oldest element. *)
Put(m) ==
    IF Len(queue) >= MaxRequired
    THEN queue' = Append(Tail(queue), m) /\ dropped' = dropped + 1
    ELSE queue' = Append(queue, m) /\ UNCHANGED dropped

-----------------------------------------------------------------------------
(* What is where                                                           *)

Started == IF taken > Total THEN Total ELSE taken
InHand == IF proc \in {"taken", "waitRoom", "submit"} /\ taken <= Total
          THEN {taken} ELSE {}
Queued == {queue[i] : i \in DOMAIN queue} \ {End}
(* Samples generated or under way that the trainer has not consumed. *)
Outstanding == InHand \cup (active \ finished) \cup Queued

Init ==
    /\ fed = 0 /\ taken = 0 /\ proc = "check" /\ full = FALSE
    /\ active = {} /\ finished = {} /\ monitor = "watch"
    /\ paused = FALSE /\ staleness = 0 /\ lock = "free"
    /\ queue = << >> /\ dropped = 0
    /\ trainer = "collect" /\ batch = 0 /\ localStep = 1 /\ version = 0
    /\ counted = 0 /\ gone = 0

-----------------------------------------------------------------------------
(* The rollouter                                                           *)

(* _feed_samples: Total samples, then None; blocks on a full pending_queue. *)
Feed ==
    /\ fed <= Total /\ fed - taken < PendingSize
    /\ fed' = fed + 1
    /\ UNCHANGED <<taken, proc, full, active, finished, monitor>>
    /\ UNCHANGED <<queueVars, trainerVars, pauseVars, resetVars>>

(* A step of the processor that only moves it. *)
Go(from, to) ==
    /\ proc = from /\ proc' = to
    /\ UNCHANGED <<fed, taken, full, active, finished, monitor>>
    /\ UNCHANGED <<queueVars, trainerVars, pauseVars, resetVars>>

(* _should_pause_generation: get_statistics is asked of the queue actor,   *)
(* and the count is read when the answer is back.  Only the processor sets *)
(* paused, so it is never set at this point.                               *)
AskQueue ==
    /\ proc = "check" /\ ~paused
    /\ proc' = "asked" /\ full' = (Len(queue) >= MaxRequired)
    /\ UNCHANGED <<fed, taken, active, finished, monitor>>
    /\ UNCHANGED <<queueVars, trainerVars, pauseVars, resetVars>>

(* Slip: the staleness limit is exceeded by one. *)
ShouldPauseLate == full \/ staleness > MaxRequired
ShouldPause == full \/ staleness >= MaxRequired

DecideToGo == ~ShouldPause /\ Go("asked", "get")
DecideToPause == ShouldPause /\ Go("asked", "pause")

Pause ==
    /\ proc = "pause" /\ lock = "free"
    /\ proc' = "drain" /\ paused' = TRUE
    /\ UNCHANGED <<fed, taken, full, active, finished, monitor, staleness, lock>>
    /\ UNCHANGED <<queueVars, trainerVars, resetVars>>

(* asyncio.wait returned some finished tasks; they leave under the lock.   *)
Reap ==
    /\ proc = "drain" /\ lock = "free"
    /\ \E done \in SUBSET finished \ {{}} :
          active' = active \ done /\ finished' = finished \ done
    /\ UNCHANGED <<fed, taken, proc, full, monitor>>
    /\ UNCHANGED <<queueVars, trainerVars, pauseVars, resetVars>>

(* The resume event ends the drain, or the wait after it. *)
Resume == ~paused /\ Go("drain", "check")

(* The count is incremented without the lock, for None too. *)
TakeSample ==
    /\ proc = "get" /\ taken < fed
    /\ taken' = taken + 1 /\ staleness' = staleness + 1
    /\ proc' = IF taken = Total THEN "lastDrain" ELSE "taken"
    /\ UNCHANGED <<fed, full, active, finished, monitor, paused, lock>>
    /\ UNCHANGED <<queueVars, trainerVars, resetVars>>

(* Too many tasks: wait for one to finish, holding the lock meanwhile.     *)
HasRoom == Cardinality(active) < MaxConcurrent
WaitForRoom ==
    /\ ~HasRoom /\ lock = "free"
    /\ proc = "taken" /\ proc' = "waitRoom" /\ lock' = "processor"
    /\ UNCHANGED <<fed, taken, full, active, finished, monitor, paused, staleness>>
    /\ UNCHANGED <<queueVars, trainerVars, resetVars>>

RoomMade(from, to) ==
    /\ proc = from /\ proc' = to /\ lock' = "free"
    /\ \E done \in SUBSET finished \ {{}} :
          active' = active \ done /\ finished' = finished \ done
    /\ UNCHANGED <<fed, taken, full, monitor, paused, staleness>>
    /\ UNCHANGED <<queueVars, trainerVars, resetVars>>

GotRoom == RoomMade("waitRoom", "taken")
EnoughRoom == HasRoom /\ Go("taken", "submit")

Submit ==
    /\ proc = "submit" /\ lock = "free"
    /\ proc' = "check" /\ active' = active \cup {taken}
    /\ UNCHANGED <<fed, taken, full, finished, monitor>>
    /\ UNCHANGED <<queueVars, trainerVars, pauseVars, resetVars>>

(* A task: generation ended, put_sample done.  It stays in active_tasks.   *)
Deliver(i) ==
    /\ i \in active \ finished
    /\ Put(i)
    /\ finished' = finished \cup {i}
    /\ UNCHANGED <<fed, taken, proc, full, active, monitor>>
    /\ UNCHANGED <<trainerVars, pauseVars, resetVars>>

(* After None: wait for the remaining tasks, then send the end mark.       *)
(* Slip: the end mark is sent while tasks are still generating. *)
AllReapedTooEarly == TRUE
AllReaped == active = {}
WaitForLast ==
    /\ ~AllReaped /\ lock = "free"
    /\ proc = "lastDrain" /\ proc' = "waitLast" /\ lock' = "processor"
    /\ UNCHANGED <<fed, taken, full, active, finished, monitor, paused, staleness>>
    /\ UNCHANGED <<queueVars, trainerVars, resetVars>>
LastReaped == RoomMade("waitLast", "lastDrain")
CloseStream ==
    /\ AllReaped /\ proc = "lastDrain" /\ proc' = "done"
    /\ Put(End)
    /\ UNCHANGED <<fed, taken, full, active, finished, monitor>>
    /\ UNCHANGED <<trainerVars, pauseVars, resetVars>>

(* _async_monitor_loop, every 10 seconds until the processor has ended.    *)
(* Slip: the monitor only logs. *)
MonitorLogs == FALSE /\ UNCHANGED vars
MonitorWatch ==
    /\ monitor = "watch" /\ proc # "done"
    /\ paused /\ Len(queue) < MaxRequired /\ staleness < MaxRequired
    /\ monitor' = "resume"
    /\ UNCHANGED <<fed, taken, proc, full, active, finished>>
    /\ UNCHANGED <<queueVars, trainerVars, pauseVars, resetVars>>
MonitorResume ==
    /\ monitor = "resume" /\ lock = "free"
    /\ monitor' = "watch" /\ paused' = FALSE
    /\ UNCHANGED <<fed, taken, proc, full, active, finished, staleness, lock>>
    /\ UNCHANGED <<queueVars, trainerVars, resetVars>>

(* reset_staleness, called by the trainer: the pause ends and the active   *)
(* tasks are counted before the queue is asked for its size.               *)
ResetBegin ==
    /\ trainer = "sync" /\ lock = "free"
    /\ trainer' = "reset" /\ lock' = "reset"
    /\ paused' = FALSE /\ counted' = Cardinality(active)
    /\ UNCHANGED <<staleness, gone, batch, localStep, version>>
    /\ UNCHANGED <<rollouterVars, queueVars>>

(* Slip: the tasks under way are forgotten. *)
RecountQueueOnly == Len(queue)
Recount == counted + Len(queue)
ResetEnd ==
    /\ trainer = "reset"
    /\ trainer' = "collect" /\ lock' = "free"
    /\ staleness' = Recount
    /\ counted' = 0
    /\ gone' = Started - Cardinality(Outstanding)
    /\ UNCHANGED <<paused, batch, localStep, version>>
    /\ UNCHANGED <<rollouterVars, queueVars>>

-----------------------------------------------------------------------------
(* The trainer                                                             *)

(* Slip: the count of local steps is not started again. *)
NextLocalNoWrap == localStep + 1
NextLocal == IF localStep < TriggerSteps THEN localStep + 1 ELSE 1

GetSample ==
    /\ trainer = "collect" /\ queue # << >> /\ Head(queue) # End
    /\ batch < RequiredSamples
    /\ queue' = Tail(queue) /\ batch' = batch + 1
    /\ UNCHANGED <<trainer, localStep, version, dropped>>
    /\ UNCHANGED <<rollouterVars, pauseVars, resetVars>>

(* One training step; at the end of a cycle the weights are sent.          *)
TrainStep ==
    /\ trainer = "collect" /\ batch = RequiredSamples
    /\ batch' = 0
    /\ localStep' = NextLocal
    /\ version' = IF NextLocal = 1 THEN version + 1 ELSE version
    /\ trainer' = IF NextLocal = 1 THEN "sync" ELSE "collect"
    /\ UNCHANGED <<rollouterVars, queueVars, pauseVars, resetVars>>

(* None: the samples collected so far are discarded and training ends.     *)
(* A last synchronisation of fit would find an idle rollouter: left out.   *)
StopTraining ==
    /\ trainer = "collect" /\ queue # << >> /\ Head(queue) = End
    /\ batch < RequiredSamples
    /\ queue' = Tail(queue) /\ trainer' = "done"
    /\ UNCHANGED <<batch, localStep, version, dropped>>
    /\ UNCHANGED <<rollouterVars, pauseVars, resetVars>>

Processor ==
    \/ AskQueue \/ DecideToGo \/ DecideToPause \/ Pause \/ Reap \/ Resume
    \/ TakeSample \/ WaitForRoom \/ GotRoom \/ EnoughRoom \/ Submit
    \/ WaitForLast \/ LastReaped \/ CloseStream
Monitor == MonitorWatch \/ MonitorResume
Trainer == GetSample \/ TrainStep \/ StopTraining \/ ResetBegin \/ ResetEnd

Next == Feed \/ Processor \/ (\E i \in Samples : Deliver(i)) \/ Monitor \/ Trainer

Fairness ==
    /\ WF_vars(Feed) /\ WF_vars(Processor)
    /\ WF_vars(MonitorWatch) /\ WF_vars(MonitorResume) /\ WF_vars(Trainer)
    /\ \A i \in Samples : WF_vars(Deliver(i))

Spec == Init /\ [][Next]_vars /\ Fairness

-----------------------------------------------------------------------------
(* Type correctness, the queue's capacity included. *)
TypeOK ==
    /\ fed \in 0 .. Total + 1 /\ taken \in 0 .. fed
    /\ proc \in {"check", "asked", "get", "pause", "drain", "taken", "waitRoom",
                 "submit", "lastDrain", "waitLast", "done"}
    /\ full \in BOOLEAN /\ paused \in BOOLEAN
    /\ active \subseteq Samples /\ finished \subseteq active
    /\ Cardinality(active) <= MaxConcurrent
    /\ staleness \in Nat /\ counted \in Nat /\ dropped \in Nat /\ gone \in 0 .. Total
    /\ lock \in {"free", "processor", "reset"} /\ monitor \in {"watch", "resume"}
    /\ queue \in Seq(Samples \cup {End}) /\ Len(queue) <= MaxRequired
    /\ trainer \in {"collect", "sync", "reset", "done"}
    /\ batch \in 0 .. RequiredSamples /\ localStep \in 1 .. TriggerSteps
    /\ version \in Nat

(* What the code guarantees: the sample in the processor's hand while      *)
(* reset_staleness counts is missed, so the documented number is exceeded  *)
(* by at most one, however often the count was wrong before.               *)
RolloutNumWithinOne == Started - gone <= MaxRequired + 1

(* So the trainer never works off more than MaxRequired - PerSync + 1      *)
(* stale samples after an update: what is left when the weights change.    *)
StaleBacklogBounded ==
    [][trainer = "reset" /\ trainer' = "collect"
         => Cardinality(Outstanding) <= MaxRequired - PerSync + 1]_vars

(* The end mark is the last thing ever put: no sample is still being       *)
(* generated or waits behind it when the trainer may see it.               *)
EndMarkComesLast ==
    proc = "done" => /\ InHand = {} /\ active = {} /\ Started = Total
                     /\ \A i \in DOMAIN queue : queue[i] = End => i = Len(queue)

(* A pause whose reason is gone ends, although the resume signal of a      *)
(* reset may come between the decision to pause and the pause itself.      *)
PauseWithoutReasonEnds ==
    (paused /\ staleness < MaxRequired /\ Len(queue) < MaxRequired)
        ~> (~paused \/ staleness >= MaxRequired)

(* The count is never above the samples really started since the last      *)
(* reset or left over by it (None counts as one).                          *)
CountNotOver == staleness <= taken - gone

(* If reset never counts a task twice, as active and as its queued sample, *)
(* the pipeline always reaches its end.                                    *)
EndsUnlessOvercounted == []CountNotOver => <>(trainer = "done")

(* docs/advance/fully_async.md:131-133: with staleness_threshold = 0 the   *)
(* rollouter generates a fixed number of samples, those one cycle of the   *)
(* trainer consumes; a trainer that waits is then always fed.              *)
TrainerIsFed ==
    \A v \in 0 .. Total, k \in 1 .. TriggerSteps :
        (trainer = "collect" /\ version = v /\ localStep = k)
            ~> ~(trainer = "collect" /\ version = v /\ localStep = k)
=============================================================================
