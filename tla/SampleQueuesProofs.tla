------------------------ MODULE SampleQueuesProofs ------------------------
(***************************************************************************)
(* Theorems about the two ways of MCSampleQueues.  FullyAsync, for every   *)
(* number of samples, every limit and every interleaving: type correctness *)
(* (the queue never exceeds its capacity, the tasks never exceed theirs),  *)
(* the rollout budget, the end of the stream, and the backlog a weight     *)
(* update leaves behind.  ReplayBuffer, for every sequence of batches that *)
(* does not come back to a step, any prompts and sessions (operators and   *)
(* lemmas r_...): a batch is sampled whole and with nothing else.          *)
(***************************************************************************)
EXTENDS MCSampleQueues, FiniteSetTheorems, SequenceTheorems, TLAPS

Messages == Samples \cup {End}

LEMMA ConstantTypes ==
    /\ Total \in Nat /\ MaxRequired \in Nat \ {0} /\ MaxConcurrent \in Nat \ {0}
    /\ RequiredSamples \in Nat \ {0} /\ TriggerSteps \in Nat \ {0}
    /\ IsFiniteSet(Samples)
<1>1. IsFiniteSet(Samples)
    BY SizesAssumption, FS_Interval DEF Samples
<1>2. MaxRequired \in Nat \ {0} /\ MaxConcurrent \in Nat \ {0}
    BY LimitsAssumption, SMT
<1> QED BY <1>1, <1>2, SizesAssumption

-----------------------------------------------------------------------------
(* The queue                                                               *)

(* What Put(m) does to the queue: bounded, and m is its only new element.  *)
LEMMA PutType ==
    ASSUME queue \in Seq(Messages), Len(queue) <= MaxRequired, dropped \in Nat,
           NEW m \in Messages, Put(m)
    PROVE  /\ queue' \in Seq(Messages) /\ Len(queue') <= MaxRequired /\ dropped' \in Nat
           /\ \A i \in DOMAIN queue' : queue'[i] = m
                \/ \E j \in DOMAIN queue : queue'[i] = queue[j]
<1>1. CASE Len(queue) >= MaxRequired
    <2>1. queue' = Append(Tail(queue), m) /\ dropped' = dropped + 1
        BY <1>1 DEF Put
    <2>2. queue # << >>
        BY <1>1, ConstantTypes, LenProperties, SMT
    <2>3. /\ Tail(queue) \in Seq(Messages) /\ Len(Tail(queue)) = Len(queue) - 1
          /\ \A i \in 1 .. Len(Tail(queue)) : Tail(queue)[i] = queue[i + 1]
        BY <2>2, HeadTailProperties
    <2>4. /\ queue' \in Seq(Messages) /\ Len(queue') = Len(Tail(queue)) + 1
          /\ \A i \in 1 .. Len(Tail(queue)) : queue'[i] = Tail(queue)[i]
          /\ queue'[Len(Tail(queue)) + 1] = m
        BY <2>1, <2>3, AppendProperties
    <2>5. DOMAIN queue' = 1 .. Len(queue) /\ DOMAIN queue = 1 .. Len(queue) /\ Len(queue) \in Nat
        BY <2>3, <2>4, LenProperties, SMT
    <2>6. ASSUME NEW i \in DOMAIN queue', queue'[i] # m
          PROVE  \E j \in DOMAIN queue : queue'[i] = queue[j]
        <3>1. i \in 1 .. Len(Tail(queue)) /\ i + 1 \in DOMAIN queue
            BY <2>3, <2>4, <2>5, <2>6, SMT
        <3>2. queue'[i] = queue[i + 1]
            BY <2>3, <2>4, <3>1
        <3> QED BY <3>1, <3>2
    <2> QED BY <2>1, <2>3, <2>4, <2>5, <2>6, SMT
<1>2. CASE ~(Len(queue) >= MaxRequired)
    <2>1. queue' = Append(queue, m) /\ dropped' = dropped
        BY <1>2 DEF Put
    <2>2. /\ queue' \in Seq(Messages) /\ Len(queue') = Len(queue) + 1
          /\ \A i \in 1 .. Len(queue) : queue'[i] = queue[i]
          /\ queue'[Len(queue) + 1] = m
        BY <2>1, AppendProperties
    <2>3. DOMAIN queue' = 1 .. Len(queue) + 1 /\ DOMAIN queue = 1 .. Len(queue) /\ Len(queue) \in Nat
        BY <2>2, LenProperties, SMT
    <2> QED BY <1>2, <2>1, <2>2, <2>3, ConstantTypes, SMT
<1> QED BY <1>1, <1>2

(* What taking the head does. *)
LEMMA TailType ==
    ASSUME queue \in Seq(Messages), Len(queue) <= MaxRequired, queue # << >>,
           queue' = Tail(queue)
    PROVE  /\ queue' \in Seq(Messages) /\ Len(queue') <= MaxRequired
           /\ Queued' \subseteq Queued
<1>1. /\ queue' \in Seq(Messages) /\ Len(queue') = Len(queue) - 1
      /\ \A i \in 1 .. Len(queue') : queue'[i] = queue[i + 1]
    BY HeadTailProperties
<1>2. DOMAIN queue' = 1 .. Len(queue') /\ DOMAIN queue = 1 .. Len(queue) /\ Len(queue) \in Nat
    BY <1>1, LenProperties, SMT
<1>3. ASSUME NEW i \in DOMAIN queue' PROVE i + 1 \in DOMAIN queue /\ queue'[i] = queue[i + 1]
    BY <1>1, <1>2, SMT
<1>4. Queued' \subseteq Queued
    BY <1>3 DEF Queued
<1> QED BY <1>1, <1>2, <1>4, ConstantTypes, SMT

(* The samples in the queue are at most its length. *)
LEMMA QueuedBound ==
    ASSUME queue \in Seq(Messages)
    PROVE  IsFiniteSet(Queued) /\ Cardinality(Queued) <= Len(queue)
<1> DEFINE All == {queue[i] : i \in DOMAIN queue}
<1>1. DOMAIN queue = 1 .. Len(queue) /\ Len(queue) \in Nat
    BY LenProperties
<1>2. queue \in Surjection(1 .. Len(queue), All)
    BY <1>1, LenProperties, ElementOfSeq DEF Surjection
<1>3. IsFiniteSet(1 .. Len(queue)) /\ Cardinality(1 .. Len(queue)) = Len(queue)
    BY <1>1, FS_Interval, SMT
<1>4. IsFiniteSet(All) /\ Cardinality(All) <= Len(queue)
    BY <1>2, <1>3, FS_Surjection
<1>5. Queued \in SUBSET All
    BY DEF Queued
<1> QED
    <2>1. IsFiniteSet(Queued) /\ Cardinality(Queued) <= Cardinality(All)
        BY <1>4, <1>5, FS_Subset
    <2>2. Cardinality(Queued) \in Nat /\ Cardinality(All) \in Nat
        BY <2>1, <1>4, FS_CardinalityType
    <2> QED BY <2>1, <2>2, <1>1, <1>4, SMT

-----------------------------------------------------------------------------
(* Type correctness *)

(* What TypeOK needs to be inductive: a sample in hand exists, room found   *)
(* is still there at the submission, and the lock is held by whom the       *)
(* control points say.                                                      *)
LockInv ==
    /\ lock = "processor" <=> proc \in {"waitRoom", "waitLast"}
    /\ lock = "reset" <=> trainer = "reset"
HandInv ==
    /\ proc \in {"taken", "waitRoom", "submit"} => taken \in Samples
    /\ proc = "submit" => HasRoom

TypeInv == TypeOK /\ LockInv /\ HandInv

LEMMA ActiveFinite ==
    ASSUME TypeOK
    PROVE  /\ IsFiniteSet(active) /\ Cardinality(active) \in Nat
           /\ \A S \in SUBSET active :
                 /\ IsFiniteSet(S) /\ Cardinality(S) \in Nat
                 /\ Cardinality(S) <= Cardinality(active)
<1>1. IsFiniteSet(active)
    BY ConstantTypes, FS_Subset DEF TypeOK
<1>2. ASSUME NEW S \in SUBSET active
      PROVE  IsFiniteSet(S) /\ Cardinality(S) <= Cardinality(active)
    BY <1>1, <1>2, FS_Subset
<1> QED BY <1>1, <1>2, FS_CardinalityType

LEMMA TypeInvInit == Init => TypeInv
<1> SUFFICES ASSUME Init PROVE TypeInv
    OBVIOUS
<1>1. Cardinality({}) = 0
    BY FS_EmptySet
<1>2. << >> \in Seq(Samples \cup {End}) /\ Len(<< >>) = 0
    BY EmptySeq
<1>3. TypeOK
    <2>1. queue \in Seq(Samples \cup {End}) /\ Len(queue) <= MaxRequired
        BY <1>2, ConstantTypes, SMT DEF Init
    <2>2. active \subseteq Samples /\ Cardinality(active) <= MaxConcurrent
        BY <1>1, ConstantTypes, SMT DEF Init
    <2>3. full \in BOOLEAN /\ paused \in BOOLEAN
        BY DEF Init
    <2> QED BY <2>1, <2>2, <2>3, ConstantTypes, SMT DEF Init, TypeOK
<1>4. LockInv /\ HandInv
    BY SMT DEF Init, LockInv, HandInv
<1> QED BY <1>3, <1>4 DEF TypeInv

(* The rollouter's steps that leave the tasks and the queue alone. *)
LEMMA ControlType ==
    ASSUME TypeInv,
           Feed \/ AskQueue \/ DecideToGo \/ DecideToPause \/ Pause \/ Resume
           \/ WaitForRoom \/ EnoughRoom \/ WaitForLast \/ MonitorWatch \/ MonitorResume
    PROVE  TypeInv'
<1> USE ConstantTypes DEF TypeInv, TypeOK, LockInv, HandInv, HasRoom,
        queueVars, trainerVars, pauseVars, resetVars
<1>1. CASE Feed          BY <1>1, SMT DEF Feed
<1>2. CASE AskQueue      BY <1>2, SMT DEF AskQueue
<1>3. CASE DecideToGo    BY <1>3, SMT DEF DecideToGo, Go
<1>4. CASE DecideToPause BY <1>4, SMT DEF DecideToPause, Go
<1>5. CASE Pause         BY <1>5, SMT DEF Pause
<1>6. CASE Resume        BY <1>6, SMT DEF Resume, Go
<1>7. CASE WaitForRoom   BY <1>7, SMT DEF WaitForRoom
<1>8. CASE EnoughRoom    BY <1>8, SMT DEF EnoughRoom, Go
<1>9. CASE WaitForLast   BY <1>9, SMT DEF WaitForLast
<1>10. CASE MonitorWatch BY <1>10, SMT DEF MonitorWatch
<1>11. CASE MonitorResume
    <2>1. paused' \in BOOLEAN
        BY <1>11 DEF MonitorResume
    <2>2. TypeOK'
        BY <1>11, <2>1, SMT DEF MonitorResume
    <2>3. LockInv' /\ HandInv'
        BY <1>11, SMT DEF MonitorResume
    <2> QED BY <2>2, <2>3
<1> QED
    BY <1>1, <1>2, <1>3, <1>4, <1>5, <1>6, <1>7, <1>8, <1>9, <1>10, <1>11

(* Reaping removes finished tasks, from both sets. *)
LEMMA ReapType ==
    ASSUME TypeInv, Reap \/ GotRoom \/ LastReaped
    PROVE  TypeInv'
<1>1. PICK done \in SUBSET finished \ {{}} :
          active' = active \ done /\ finished' = finished \ done
    BY DEF Reap, GotRoom, LastReaped, RoomMade
<1>2. active' \subseteq active /\ finished' \subseteq active'
    BY <1>1 DEF TypeInv, TypeOK
<1>3. Cardinality(active') <= MaxConcurrent
    BY <1>2, ActiveFinite, ConstantTypes, SMT DEF TypeInv, TypeOK
<1> USE <1>2, <1>3, ConstantTypes DEF TypeInv, TypeOK, LockInv, HandInv, HasRoom,
        queueVars, trainerVars, pauseVars, resetVars
<1>4. CASE Reap       BY <1>4, SMT DEF Reap
<1>5. CASE GotRoom    BY <1>5, SMT DEF GotRoom, RoomMade
<1>6. CASE LastReaped BY <1>6, SMT DEF LastReaped, RoomMade
<1> QED BY <1>4, <1>5, <1>6

LEMMA TakeSampleType ==
    ASSUME TypeInv, TakeSample
    PROVE  TypeInv'
BY ConstantTypes, SMT
DEF TakeSample, TypeInv, TypeOK, LockInv, HandInv, Samples, queueVars, trainerVars, resetVars

LEMMA SubmitType ==
    ASSUME TypeInv, Submit
    PROVE  TypeInv'
<1>1. taken \in Samples /\ HasRoom
    BY DEF Submit, TypeInv, HandInv
<1>2. active' = active \cup {taken}
    BY DEF Submit
<1>3. Cardinality(active') <= MaxConcurrent
    BY <1>1, <1>2, ActiveFinite, FS_AddElement, ConstantTypes, SMT DEF TypeInv, HasRoom
<1> QED
    BY <1>1, <1>2, <1>3, ConstantTypes, SMT
    DEF Submit, TypeInv, TypeOK, LockInv, HandInv,
        queueVars, trainerVars, pauseVars, resetVars

LEMMA DeliverType ==
    ASSUME TypeInv, NEW i \in Samples, Deliver(i)
    PROVE  TypeInv'
<1>1. queue' \in Seq(Messages) /\ Len(queue') <= MaxRequired /\ dropped' \in Nat
    BY PutType DEF Deliver, TypeInv, TypeOK, Messages
<1> QED
    BY <1>1, ConstantTypes, SMT
    DEF Deliver, TypeInv, TypeOK, LockInv, HandInv, HasRoom, Messages,
        trainerVars, pauseVars, resetVars

LEMMA CloseStreamType ==
    ASSUME TypeInv, CloseStream
    PROVE  TypeInv'
<1>1. queue' \in Seq(Messages) /\ Len(queue') <= MaxRequired /\ dropped' \in Nat
    BY PutType DEF CloseStream, TypeInv, TypeOK, Messages
<1> QED
    BY <1>1, ConstantTypes, SMT
    DEF CloseStream, TypeInv, TypeOK, LockInv, HandInv, Messages,
        trainerVars, pauseVars, resetVars

(* What is outstanding is a finite set of samples. *)
LEMMA OutstandingFinite ==
    ASSUME TypeInv
    PROVE  /\ IsFiniteSet(Outstanding) /\ Cardinality(Outstanding) \in Nat
           /\ \A S \in SUBSET Outstanding :
                 Cardinality(S) \in Nat /\ Cardinality(S) <= Cardinality(Outstanding)
<1>1. Queued \subseteq Samples
    <2>1. \A i \in DOMAIN queue : queue[i] \in Samples \cup {End}
        BY ElementOfSeq, LenProperties DEF TypeInv, TypeOK
    <2> QED BY <2>1 DEF Queued
<1>2. InHand \subseteq Samples
    BY DEF TypeInv, HandInv, InHand
<1>3. IsFiniteSet(Outstanding)
    BY <1>1, <1>2, ConstantTypes, FS_Subset DEF Outstanding, TypeInv, TypeOK
<1>4. ASSUME NEW S \in SUBSET Outstanding
      PROVE  IsFiniteSet(S) /\ Cardinality(S) <= Cardinality(Outstanding)
    BY <1>3, <1>4, FS_Subset
<1> QED BY <1>3, <1>4, FS_CardinalityType

-----------------------------------------------------------------------------
(* The rollout budget                                                      *)

(* Samples not gone at the last reset, or started since: what the code     *)
(* means staleness_samples to be.                                          *)
Charged == Started - gone

(* Everything outstanding is charged; the counter misses at most one; the  *)
(* processor only goes to take a sample while the charge is within the     *)
(* limit; and while a reset awaits the queue's size, the tasks it counted  *)
(* are still there.                                                        *)
BudgetInv ==
    /\ Cardinality(Outstanding) <= Charged
    /\ Charged <= staleness + 1
    /\ proc = "get" => Charged <= MaxRequired
    /\ RolloutNumWithinOne
    /\ trainer = "reset" => counted = Cardinality(active)

IInv == TypeInv /\ BudgetInv

LEMMA ChargedType ==
    ASSUME TypeInv
    PROVE  Charged \in Int /\ Started \in 0 .. Total /\ gone \in 0 .. Total
BY ConstantTypes, SMT DEF Charged, Started, TypeInv, TypeOK

(* What a reset counts covers all that is outstanding but the sample in    *)
(* the processor's hand.                                                   *)
LEMMA OutstandingCounted ==
    ASSUME TypeInv
    PROVE  Cardinality(Outstanding) <= Cardinality(active) + Len(queue) + 1
<1> DEFINE running == active \ finished
<1>1. IsFiniteSet(running) /\ Cardinality(running) <= Cardinality(active)
    BY ActiveFinite DEF TypeInv
<1>2. IsFiniteSet(Queued) /\ Cardinality(Queued) <= Len(queue)
    BY QueuedBound DEF TypeInv, TypeOK, Messages
<1>3. IsFiniteSet(InHand) /\ Cardinality(InHand) <= 1
    <2>1. InHand = {} \/ InHand = {taken}
        BY DEF InHand
    <2>2. IsFiniteSet({}) /\ Cardinality({}) = 0
        BY FS_EmptySet
    <2>3. IsFiniteSet({taken}) /\ Cardinality({taken}) = 1
        BY FS_Singleton
    <2> QED BY <2>1, <2>2, <2>3
<1>4. IsFiniteSet(running \cup Queued)
      /\ Cardinality(running \cup Queued) <= Cardinality(active) + Len(queue)
    <2>1. /\ IsFiniteSet(running \cup Queued) /\ IsFiniteSet(running \cap Queued)
          /\ Cardinality(running \cup Queued)
               = Cardinality(running) + Cardinality(Queued) - Cardinality(running \cap Queued)
        BY <1>1, <1>2, FS_Union, FS_Intersection
    <2>2. /\ Cardinality(running) \in Nat /\ Cardinality(Queued) \in Nat
          /\ Cardinality(running \cap Queued) \in Nat /\ Cardinality(active) \in Nat
          /\ Len(queue) \in Nat
        BY <1>1, <1>2, <2>1, FS_CardinalityType, ActiveFinite, LenProperties DEF TypeInv, TypeOK
    <2> HIDE DEF running
    <2> QED BY <1>1, <1>2, <2>1, <2>2, SMT
<1> DEFINE rest == running \cup Queued
<1>5. /\ Cardinality(InHand \cup rest)
           = Cardinality(InHand) + Cardinality(rest) - Cardinality(InHand \cap rest)
      /\ IsFiniteSet(InHand \cap rest)
    BY <1>3, <1>4, FS_Union, FS_Intersection
<1>6. /\ Cardinality(InHand) \in Nat /\ Cardinality(rest) \in Nat
      /\ Cardinality(InHand \cap rest) \in Nat /\ Cardinality(active) \in Nat
      /\ Len(queue) \in Nat
    BY <1>3, <1>4, <1>5, FS_CardinalityType, ActiveFinite, LenProperties DEF TypeInv, TypeOK
<1>7. Outstanding = InHand \cup rest
    BY DEF Outstanding
<1>8. /\ Cardinality(rest) <= Cardinality(active) + Len(queue)
      /\ Cardinality(InHand) <= 1
    BY <1>3, <1>4
<1> HIDE DEF rest, running
<1> QED BY <1>5, <1>6, <1>7, <1>8, SMT

(* A step that starts nothing and resets nothing keeps the budget if it    *)
(* brings no sample back.                                                  *)
LEMMA BudgetKept ==
    ASSUME IInv, TypeInv',
           Outstanding' \subseteq Outstanding,
           Started' = Started, gone' = gone, staleness' = staleness,
           proc' = "get" => proc = "get" \/ staleness < MaxRequired,
           trainer' = "reset" => counted' = Cardinality(active')
    PROVE  BudgetInv'
<1>1. Cardinality(Outstanding') <= Cardinality(Outstanding)
      /\ Cardinality(Outstanding') \in Nat /\ Cardinality(Outstanding) \in Nat
    BY OutstandingFinite DEF IInv
<1>2. Charged' = Charged /\ Charged \in Int /\ staleness \in Nat
    BY ChargedType DEF Charged, IInv, TypeInv, TypeOK
<1> QED
    BY <1>1, <1>2, ConstantTypes, SMT
    DEF IInv, BudgetInv, RolloutNumWithinOne, Charged

(* A step that starts no sample and brings none back. *)
NothingStarts == Outstanding' \subseteq Outstanding /\ Started' = Started /\ gone' = gone

(* The steps that leave every sample where it is. *)
LEMMA ControlBudget ==
    ASSUME IInv, TypeInv',
           Feed \/ AskQueue \/ DecideToGo \/ DecideToPause \/ Pause \/ Resume
           \/ WaitForRoom \/ EnoughRoom \/ WaitForLast \/ MonitorWatch \/ MonitorResume
           \/ TrainStep
    PROVE  BudgetInv' /\ NothingStarts
<1>1. /\ active' = active /\ finished' = finished /\ queue' = queue /\ taken' = taken
      /\ gone' = gone /\ staleness' = staleness /\ counted' = counted
    BY DEF Feed, AskQueue, DecideToGo, DecideToPause, Go, Pause, Resume, WaitForRoom,
           EnoughRoom, WaitForLast, MonitorWatch, MonitorResume, TrainStep,
           rollouterVars, queueVars, trainerVars, pauseVars, resetVars
<1>2. InHand' \subseteq InHand
    <2>1. \/ proc' = proc
          \/ /\ proc \notin {"taken", "waitRoom", "submit"}
             /\ proc' \notin {"taken", "waitRoom", "submit"}
          \/ proc \in {"taken", "waitRoom"} /\ proc' \in {"waitRoom", "submit"}
        BY DEF Feed, AskQueue, DecideToGo, DecideToPause, Go, Pause, Resume, WaitForRoom,
               EnoughRoom, WaitForLast, MonitorWatch, MonitorResume, TrainStep, rollouterVars
    <2> QED BY <1>1, <2>1 DEF InHand
<1>3. Outstanding' \subseteq Outstanding /\ Started' = Started
    BY <1>1, <1>2 DEF Outstanding, Queued, Started
<1>4. proc' = "get" => proc = "get" \/ staleness < MaxRequired
    <2>1. CASE DecideToGo
        BY <2>1, ConstantTypes, SMT DEF DecideToGo, ShouldPause, IInv, TypeInv, TypeOK
    <2>2. CASE ~DecideToGo
        BY <2>2 DEF Feed, AskQueue, DecideToPause, Go, Pause, Resume, WaitForRoom,
               EnoughRoom, WaitForLast, MonitorWatch, MonitorResume, TrainStep, rollouterVars
    <2> QED BY <2>1, <2>2
<1>5. trainer' = "reset" => trainer = "reset"
    <2>1. CASE TrainStep
        BY <2>1 DEF TrainStep
    <2>2. CASE ~TrainStep
        BY <2>2 DEF Feed, AskQueue, DecideToGo, DecideToPause, Go, Pause, Resume, WaitForRoom,
           EnoughRoom, WaitForLast, MonitorWatch, MonitorResume, trainerVars
    <2> QED BY <2>1, <2>2
<1>6. trainer' = "reset" => counted' = Cardinality(active')
    BY <1>1, <1>5 DEF IInv, BudgetInv
<1> QED BY <1>1, <1>3, <1>4, <1>6, BudgetKept DEF NothingStarts

(* Reaping: what leaves active_tasks is finished, hence not outstanding.    *)
LEMMA ReapBudget ==
    ASSUME IInv, TypeInv', Reap \/ GotRoom \/ LastReaped
    PROVE  BudgetInv' /\ NothingStarts
<1>1. PICK done \in SUBSET finished \ {{}} :
          active' = active \ done /\ finished' = finished \ done
    BY DEF Reap, GotRoom, LastReaped, RoomMade
<1>2. /\ queue' = queue /\ taken' = taken /\ trainer' = trainer
      /\ gone' = gone /\ staleness' = staleness /\ counted' = counted
    BY DEF Reap, GotRoom, LastReaped, RoomMade, queueVars, trainerVars, pauseVars, resetVars
<1>3. \/ proc' = proc
      \/ proc = "waitRoom" /\ proc' = "taken"
      \/ proc = "waitLast" /\ proc' = "lastDrain"
    BY DEF Reap, GotRoom, LastReaped, RoomMade
<1>4. Outstanding' \subseteq Outstanding /\ Started' = Started
    BY <1>1, <1>2, <1>3 DEF Outstanding, InHand, Queued, Started
<1>5. trainer # "reset"
    BY DEF Reap, GotRoom, LastReaped, RoomMade, IInv, TypeInv, LockInv
<1> QED BY <1>2, <1>3, <1>4, <1>5, BudgetKept DEF NothingStarts

(* Submitting moves the sample in hand into active_tasks. *)
LEMMA SubmitBudget ==
    ASSUME IInv, TypeInv', Submit
    PROVE  BudgetInv' /\ NothingStarts
<1>1. /\ proc = "submit" /\ proc' = "check" /\ active' = active \cup {taken}
      /\ finished' = finished /\ queue' = queue /\ taken' = taken /\ trainer' = trainer
      /\ gone' = gone /\ staleness' = staleness /\ counted' = counted /\ lock = "free"
    BY DEF Submit, queueVars, trainerVars, pauseVars, resetVars
<1>2. InHand = {taken}
    BY <1>1, ConstantTypes, SMT DEF InHand, IInv, TypeInv, HandInv, Samples
<1>3. Outstanding' \subseteq Outstanding /\ Started' = Started
    BY <1>1, <1>2 DEF Outstanding, InHand, Queued, Started
<1>4. trainer # "reset"
    BY <1>1 DEF IInv, TypeInv, LockInv
<1> QED BY <1>1, <1>3, <1>4, BudgetKept DEF NothingStarts

(* A delivered sample moves from its task to the queue, and the end mark    *)
(* is no sample.                                                            *)
LEMMA DeliverBudget ==
    ASSUME IInv, TypeInv', (\E i \in Samples : Deliver(i)) \/ CloseStream
    PROVE  BudgetInv' /\ NothingStarts
<1>1. PICK m \in Messages : /\ Put(m)
                            /\ \/ m \in active \ finished /\ finished' = finished \cup {m}
                                                         /\ proc' = proc
                               \/ m = End /\ finished' = finished
                                          /\ proc = "lastDrain" /\ proc' = "done"
    BY DEF Deliver, CloseStream, Messages
<1>2. /\ active' = active /\ taken' = taken /\ trainer' = trainer
      /\ gone' = gone /\ staleness' = staleness /\ counted' = counted
    BY DEF Deliver, CloseStream, trainerVars, pauseVars, resetVars
<1>3. \A i \in DOMAIN queue' : queue'[i] = m \/ \E j \in DOMAIN queue : queue'[i] = queue[j]
    BY <1>1, PutType DEF IInv, TypeInv, TypeOK, Messages
<1>4. Queued' \subseteq Queued \cup ({m} \ {End})
    BY <1>3 DEF Queued
<1>5. Outstanding' \subseteq Outstanding /\ Started' = Started
    BY <1>1, <1>2, <1>4 DEF Outstanding, InHand, Started
<1> QED BY <1>1, <1>2, <1>5, BudgetKept DEF IInv, BudgetInv, NothingStarts

(* The trainer takes from the head of the queue. *)
LEMMA ConsumeBudget ==
    ASSUME IInv, TypeInv', GetSample \/ StopTraining
    PROVE  BudgetInv' /\ NothingStarts
<1>1. /\ queue # << >> /\ queue' = Tail(queue) /\ active' = active /\ finished' = finished
      /\ proc' = proc /\ taken' = taken /\ trainer' # "reset"
      /\ gone' = gone /\ staleness' = staleness
    BY DEF GetSample, StopTraining, rollouterVars, pauseVars, resetVars
<1>2. Queued' \subseteq Queued
    BY <1>1, TailType DEF IInv, TypeInv, TypeOK, Messages
<1>3. Outstanding' \subseteq Outstanding /\ Started' = Started
    BY <1>1, <1>2 DEF Outstanding, InHand, Started
<1> QED BY <1>1, <1>3, BudgetKept DEF NothingStarts

(* The only step that raises the charge: one sample more, and the counter   *)
(* with it.                                                                 *)
LEMMA TakeSampleBudget ==
    ASSUME IInv, TypeInv', TakeSample
    PROVE  /\ BudgetInv'
           /\ Cardinality(Outstanding') <= Cardinality(Outstanding) + (Started' - Started)
           /\ Cardinality(Outstanding') \in Nat
<1>1. /\ proc = "get" /\ taken' = taken + 1 /\ staleness' = staleness + 1
      /\ active' = active /\ finished' = finished /\ queue' = queue /\ gone' = gone
      /\ counted' = counted /\ trainer' = trainer /\ proc' \in {"taken", "lastDrain"}
    BY DEF TakeSample, queueVars, trainerVars, resetVars
<1>2. taken < fed /\ fed <= Total + 1 /\ fed \in Nat /\ taken \in Nat /\ Total \in Nat
    BY ConstantTypes, SMT DEF TakeSample, IInv, TypeInv, TypeOK
<1>3. \/ taken < Total /\ Started' = Started + 1 /\ InHand' = {taken + 1}
      \/ taken = Total /\ Started' = Started /\ InHand' = {}
    <2>1. CASE taken = Total
        BY <1>1, <1>2, <2>1, SMT DEF TakeSample, Started, InHand
    <2>2. CASE taken < Total
        <3>1. proc' = "taken" /\ taken' <= Total
            BY <1>1, <1>2, <2>2, SMT DEF TakeSample
        <3>2. InHand' = {taken'}
            BY <3>1 DEF InHand
        <3>3. Started' = Started + 1
            BY <1>1, <1>2, <2>2, SMT DEF Started
        <3> QED BY <1>1, <2>2, <3>2, <3>3
    <2> QED BY <1>2, <2>1, <2>2, SMT
<1>4. /\ IsFiniteSet(Outstanding) /\ Cardinality(Outstanding) \in Nat
      /\ Cardinality(Outstanding') \in Nat
    <2>1. IsFiniteSet(Outstanding) /\ Cardinality(Outstanding) \in Nat
        BY OutstandingFinite DEF IInv
    <2>2. Outstanding' \in SUBSET (Outstanding \cup {taken + 1})
        BY <1>1, <1>3 DEF Outstanding, Queued
    <2>3. IsFiniteSet(Outstanding \cup {taken + 1})
        BY <2>1, FS_AddElement
    <2>4. IsFiniteSet(Outstanding')
        BY <2>2, <2>3, FS_Subset
    <2> QED BY <2>1, <2>4, FS_CardinalityType
<1>5. Cardinality(Outstanding') <= Cardinality(Outstanding) + (Started' - Started)
    <2>1. CASE InHand' = {} /\ Started' = Started
        <3>1. Outstanding' \in SUBSET Outstanding
            BY <1>1, <2>1 DEF Outstanding, Queued
        <3>2. Cardinality(Outstanding') <= Cardinality(Outstanding)
            BY <1>4, <3>1, FS_Subset
        <3> QED BY <1>4, <2>1, <3>2, ChargedType, SMT DEF IInv
    <2>2. CASE InHand' = {taken + 1} /\ Started' = Started + 1
        <3>1. Outstanding' \in SUBSET (Outstanding \cup {taken + 1})
            BY <1>1, <2>2 DEF Outstanding, Queued
        <3>2. /\ IsFiniteSet(Outstanding \cup {taken + 1})
              /\ Cardinality(Outstanding \cup {taken + 1}) <= Cardinality(Outstanding) + 1
            BY <1>4, FS_AddElement, SMT
        <3>3. Cardinality(Outstanding') <= Cardinality(Outstanding \cup {taken + 1})
            BY <3>1, <3>2, FS_Subset
        <3>4. Cardinality(Outstanding \cup {taken + 1}) \in Nat
            BY <3>2, FS_CardinalityType
        <3> QED BY <1>4, <2>2, <3>2, <3>3, <3>4, ChargedType, SMT DEF IInv
    <2> QED BY <1>3, <2>1, <2>2
<1>6. Charged \in Int /\ Started \in Int /\ gone \in Int /\ staleness \in Nat
    <2>1. Charged \in Int /\ Started \in 0 .. Total /\ gone \in 0 .. Total
        BY ChargedType DEF IInv
    <2> QED BY <1>2, <2>1, SMT DEF IInv, TypeInv, TypeOK
<1>7. Charged' = Started' - gone /\ Charged = Started - gone
    BY <1>1 DEF Charged
<1>8. \/ Charged' = Charged /\ Started' - Started = 0
      \/ Charged' = Charged + 1 /\ Started' - Started = 1
    BY <1>3, <1>6, <1>7, SMT
<1>9. /\ Cardinality(Outstanding) <= Charged /\ Charged <= staleness + 1
      /\ Charged <= MaxRequired
    BY <1>1 DEF IInv, BudgetInv
<1>10. Cardinality(Outstanding') <= Charged' /\ Charged' <= staleness' + 1
    BY <1>1, <1>4, <1>5, <1>6, <1>8, <1>9, SMT
<1>11. RolloutNumWithinOne'
    <2>1. Charged' <= MaxRequired + 1
        BY <1>6, <1>8, <1>9, ConstantTypes, SMT
    <2> QED BY <2>1 DEF Charged, RolloutNumWithinOne
<1>12. proc' # "get" /\ (trainer' = "reset" => counted' = Cardinality(active'))
    BY <1>1 DEF IInv, BudgetInv
<1> QED BY <1>4, <1>5, <1>10, <1>11, <1>12 DEF BudgetInv

(* reset_staleness: what it sets the counter to covers all but the sample   *)
(* in hand, and what it leaves charged is what is outstanding.              *)
LEMMA ResetBeginStep ==
    ASSUME IInv, ResetBegin
    PROVE  IInv'
<1>1. /\ active' = active /\ finished' = finished /\ queue' = queue /\ taken' = taken
      /\ gone' = gone /\ staleness' = staleness /\ proc' = proc
      /\ counted' = Cardinality(active) /\ paused' = FALSE
    BY DEF ResetBegin, rollouterVars, queueVars
<1>2. counted' \in Nat /\ paused' \in BOOLEAN
    BY <1>1, ActiveFinite DEF IInv, TypeInv
<1>3. TypeInv'
    <2>1. TypeOK'
        BY <1>2, SMT DEF ResetBegin, IInv, TypeInv, TypeOK, rollouterVars, queueVars
    <2>2. LockInv' /\ HandInv'
        BY <1>1, SMT DEF ResetBegin, IInv, TypeInv, LockInv, HandInv, HasRoom
    <2> QED BY <2>1, <2>2 DEF TypeInv
<1>4. Outstanding' \subseteq Outstanding /\ Started' = Started
    BY <1>1 DEF Outstanding, InHand, Queued, Started
<1> QED BY <1>1, <1>3, <1>4, BudgetKept DEF IInv

LEMMA ResetEndStep ==
    ASSUME IInv, ResetEnd
    PROVE  IInv'
<1>1. /\ active' = active /\ finished' = finished /\ queue' = queue /\ taken' = taken
      /\ proc' = proc /\ staleness' = counted + Len(queue)
      /\ gone' = Started - Cardinality(Outstanding) /\ counted' = 0 /\ trainer' = "collect"
    BY DEF ResetEnd, Recount, rollouterVars, queueVars
<1>2. counted = Cardinality(active)
    BY DEF ResetEnd, IInv, BudgetInv
<1>3. Outstanding' = Outstanding /\ Started' = Started
    BY <1>1 DEF Outstanding, InHand, Queued, Started
<1>4. /\ Cardinality(Outstanding) \in Nat /\ Cardinality(active) \in Nat /\ Len(queue) \in Nat
      /\ Started \in 0 .. Total /\ gone \in 0 .. Total /\ Total \in Nat
    BY OutstandingFinite, ActiveFinite, LenProperties, ChargedType, ConstantTypes
    DEF IInv, TypeInv, TypeOK
<1>5. gone' \in 0 .. Total /\ staleness' \in Nat
    BY <1>1, <1>2, <1>4, SMT DEF IInv, BudgetInv, Charged
<1>6. TypeInv'
    <2>1. TypeOK'
        BY <1>1, <1>5, ConstantTypes, SMT
        DEF ResetEnd, IInv, TypeInv, TypeOK, rollouterVars, queueVars
    <2>2. LockInv' /\ HandInv'
        BY <1>1, SMT DEF ResetEnd, IInv, TypeInv, LockInv, HandInv, HasRoom
    <2> QED BY <2>1, <2>2 DEF TypeInv
<1>7. Charged' = Cardinality(Outstanding) /\ Charged' <= Charged
    BY <1>1, <1>3, <1>4, SMT DEF IInv, BudgetInv, Charged
<1>8. Charged' <= staleness' + 1
    BY <1>1, <1>2, <1>4, <1>7, OutstandingCounted, SMT DEF IInv
<1>9. /\ RolloutNumWithinOne'
      /\ proc' = "get" => Charged' <= MaxRequired
    BY <1>1, <1>3, <1>4, <1>7, ConstantTypes, SMT
    DEF IInv, BudgetInv, Charged, RolloutNumWithinOne
<1>10. Cardinality(Outstanding') <= Charged'
    BY <1>3, <1>4, <1>7, SMT
<1> QED BY <1>1, <1>6, <1>8, <1>9, <1>10 DEF IInv, BudgetInv

(* The trainer's other steps keep the types. *)
LEMMA TrainerType ==
    ASSUME TypeInv, GetSample \/ TrainStep \/ StopTraining
    PROVE  TypeInv'
<1> USE ConstantTypes DEF TypeInv, TypeOK, LockInv, HandInv, HasRoom,
        rollouterVars, queueVars, pauseVars, resetVars
<1>1. CASE GetSample
    <2>1. queue' \in Seq(Messages) /\ Len(queue') <= MaxRequired
        BY <1>1, TailType DEF GetSample, Messages
    <2> QED BY <1>1, <2>1, SMT DEF GetSample, Messages
<1>2. CASE TrainStep
    BY <1>2, SMT DEF TrainStep, NextLocal
<1>3. CASE StopTraining
    <2>1. queue' \in Seq(Messages) /\ Len(queue') <= MaxRequired
        BY <1>3, TailType DEF StopTraining, Messages
    <2> QED BY <1>3, <2>1, SMT DEF StopTraining, Messages
<1> QED BY <1>1, <1>2, <1>3

-----------------------------------------------------------------------------
(* The invariant and the theorems                                          *)

LEMMA IInvInit == Init => IInv
<1> SUFFICES ASSUME Init PROVE IInv
    OBVIOUS
<1>1. TypeInv
    BY TypeInvInit
<1>2. Outstanding = {} /\ Cardinality({}) = 0
    <2>1. DOMAIN queue = {}
        BY EmptySeq, SMT DEF Init
    <2>2. Outstanding = {}
        BY <2>1 DEF Init, Outstanding, InHand, Queued
    <2> QED BY <2>2, FS_EmptySet
<1>3. Started = 0 /\ gone = 0 /\ staleness = 0 /\ proc # "get" /\ trainer # "reset"
    BY ConstantTypes, SMT DEF Init, Started
<1>4. BudgetInv
    BY <1>2, <1>3, ConstantTypes, SMT DEF BudgetInv, RolloutNumWithinOne, Charged
<1> QED BY <1>1, <1>4 DEF IInv

LEMMA IInvNext == IInv /\ [Next]_vars => IInv'
<1> SUFFICES ASSUME IInv, [Next]_vars PROVE IInv'
    OBVIOUS
<1>0. TypeInv
    BY DEF IInv
<1>1. CASE Feed \/ AskQueue \/ DecideToGo \/ DecideToPause \/ Pause \/ Resume
           \/ WaitForRoom \/ EnoughRoom \/ WaitForLast \/ MonitorWatch \/ MonitorResume
    BY <1>0, <1>1, ControlType, ControlBudget DEF IInv
<1>2. CASE Reap \/ GotRoom \/ LastReaped
    BY <1>0, <1>2, ReapType, ReapBudget DEF IInv
<1>3. CASE TakeSample
    BY <1>0, <1>3, TakeSampleType, TakeSampleBudget DEF IInv
<1>4. CASE Submit
    BY <1>0, <1>4, SubmitType, SubmitBudget DEF IInv
<1>5. CASE (\E i \in Samples : Deliver(i)) \/ CloseStream
    <2>1. TypeInv'
        BY <1>0, <1>5, DeliverType, CloseStreamType
    <2> QED BY <1>5, <2>1, DeliverBudget DEF IInv
<1>6. CASE GetSample \/ StopTraining
    BY <1>0, <1>6, TrainerType, ConsumeBudget DEF IInv
<1>7. CASE TrainStep
    BY <1>0, <1>7, TrainerType, ControlBudget DEF IInv
<1>8. CASE ResetBegin
    BY <1>8, ResetBeginStep
<1>9. CASE ResetEnd
    BY <1>9, ResetEndStep
<1>10. CASE UNCHANGED vars
    <2>1. TypeInv'
        BY <1>10 DEF IInv, TypeInv, TypeOK, LockInv, HandInv, HasRoom, vars,
            rollouterVars, queueVars, trainerVars, pauseVars, resetVars
    <2>2. BudgetInv'
        BY <1>10 DEF IInv, BudgetInv, RolloutNumWithinOne, Charged, Started, Outstanding,
            InHand, Queued, vars, rollouterVars, queueVars, trainerVars, pauseVars, resetVars
    <2> QED BY <2>1, <2>2 DEF IInv
<1> QED
    BY <1>1, <1>2, <1>3, <1>4, <1>5, <1>6, <1>7, <1>8, <1>9, <1>10
    DEF Next, Processor, Monitor, Trainer

(* Type correctness: among others, the message queue never grows beyond     *)
(* its capacity and no more tasks run than max_concurrent_samples.          *)
THEOREM TypeCorrect == Spec => []TypeOK
<1>1. IInv => TypeOK
    BY DEF IInv, TypeInv
<1> QED BY <1>1, IInvInit, IInvNext, PTL DEF Spec

(* The rollout budget: however resets, pauses, deliveries and the trainer   *)
(* interleave, samples left over at a weight update plus samples started    *)
(* since exceed max_required_samples by at most one.                        *)
THEOREM RolloutBudget == Spec => []RolloutNumWithinOne
<1>1. IInv => RolloutNumWithinOne
    BY DEF IInv, BudgetInv
<1> QED BY <1>1, IInvInit, IInvNext, PTL DEF Spec

(* So the samples between the rollouter's hand and the trainer never exceed *)
(* that number either.                                                      *)
THEOREM OutstandingBounded ==
    Spec => [](Cardinality(Outstanding) <= MaxRequired + 1)
<1>1. IInv => Cardinality(Outstanding) <= MaxRequired + 1
    BY ChargedType, OutstandingFinite, ConstantTypes, SMT
    DEF IInv, BudgetInv, RolloutNumWithinOne, Charged
<1> QED BY <1>1, IInvInit, IInvNext, PTL DEF Spec

-----------------------------------------------------------------------------
(* The end mark, and where samples are                                     *)

(* None is put once, by a rollouter that has nothing left to generate, and *)
(* so lies behind everything else.                                         *)
EndInv ==
    /\ proc \in {"lastDrain", "waitLast", "done"} <=> taken = Total + 1
    /\ proc = "done" => active = {}
    /\ proc # "done" => End \notin {queue[i] : i \in DOMAIN queue}
    /\ \A i \in DOMAIN queue : queue[i] = End => i = Len(queue)

(* A sample is in one place: taken before it is a task or queued, and in   *)
(* the queue once, when its task has ended.                                *)
PlacesInv ==
    /\ active \subseteq 1 .. taken /\ Queued \subseteq 1 .. taken
    /\ proc \in {"taken", "waitRoom", "submit"} => taken \notin active \cup Queued
    /\ Queued \cap (active \ finished) = {}
    /\ \A i, j \in DOMAIN queue : queue[i] = queue[j] => i = j

StreamInv == EndInv /\ PlacesInv

LEMMA TakenType ==
    ASSUME TypeInv
    PROVE  /\ taken \in Nat /\ taken <= Total + 1 /\ Total \in Nat /\ Len(queue) \in Nat
           /\ queue \in Seq(Messages) /\ Len(queue) <= MaxRequired
           /\ DOMAIN queue = 1 .. Len(queue) /\ dropped \in Nat
<1>1. queue \in Seq(Messages)
    BY DEF TypeInv, TypeOK, Messages
<1>2. DOMAIN queue = 1 .. Len(queue) /\ Len(queue) \in Nat
    BY <1>1, LenProperties
<1> QED BY <1>1, <1>2, ConstantTypes, SMT DEF TypeInv, TypeOK

(* Put moves the queue down by one place or not at all, and appends m.     *)
LEMMA PutShape ==
    ASSUME TypeInv, NEW m \in Messages, Put(m)
    PROVE  \E d \in {0, 1} :
              /\ Len(queue') = Len(queue) + 1 - d /\ DOMAIN queue' = 1 .. Len(queue')
              /\ queue'[Len(queue')] = m
              /\ \A i \in 1 .. Len(queue') - 1 :
                    i + d \in DOMAIN queue /\ queue'[i] = queue[i + d]
<1>1. CASE Len(queue) >= MaxRequired
    <2>1. queue' = Append(Tail(queue), m)
        BY <1>1 DEF Put
    <2>2. queue # << >>
        BY <1>1, TakenType, ConstantTypes, LenProperties, SMT
    <2>3. /\ Tail(queue) \in Seq(Messages) /\ Len(Tail(queue)) = Len(queue) - 1
          /\ \A i \in 1 .. Len(Tail(queue)) : Tail(queue)[i] = queue[i + 1]
        BY <2>2, TakenType, HeadTailProperties
    <2>4. /\ queue' \in Seq(Messages) /\ Len(queue') = Len(Tail(queue)) + 1
          /\ \A i \in 1 .. Len(Tail(queue)) : queue'[i] = Tail(queue)[i]
          /\ queue'[Len(Tail(queue)) + 1] = m
        BY <2>1, <2>3, AppendProperties
    <2>5. DOMAIN queue' = 1 .. Len(queue') /\ Len(queue') = Len(queue) + 1 - 1
        BY <2>3, <2>4, LenProperties, TakenType, SMT
    <2>6. ASSUME NEW i \in 1 .. Len(queue') - 1
          PROVE  i + 1 \in DOMAIN queue /\ queue'[i] = queue[i + 1]
        <3>1. i \in 1 .. Len(Tail(queue)) /\ i + 1 \in DOMAIN queue
            BY <2>3, <2>5, <2>6, TakenType, SMT
        <3> QED BY <2>3, <2>4, <3>1
    <2> QED BY <2>4, <2>5, <2>6
<1>2. CASE ~(Len(queue) >= MaxRequired)
    <2>1. queue' = Append(queue, m)
        BY <1>2 DEF Put
    <2>2. /\ queue' \in Seq(Messages) /\ Len(queue') = Len(queue) + 1
          /\ \A i \in 1 .. Len(queue) : queue'[i] = queue[i]
          /\ queue'[Len(queue) + 1] = m
        BY <2>1, TakenType, AppendProperties
    <2>3. DOMAIN queue' = 1 .. Len(queue') /\ Len(queue') = Len(queue) + 1 - 0
        BY <2>2, LenProperties, TakenType, SMT
    <2>4. ASSUME NEW i \in 1 .. Len(queue') - 1
          PROVE  i + 0 \in DOMAIN queue /\ queue'[i] = queue[i + 0]
        BY <2>2, <2>3, <2>4, TakenType, SMT
    <2> QED BY <2>2, <2>3, <2>4
<1> QED BY <1>1, <1>2

(* Taking the head moves the rest down, and loses just the head.           *)
LEMMA TailShape ==
    ASSUME TypeInv, queue # << >>, queue' = Tail(queue)
    PROVE  /\ Len(queue') = Len(queue) - 1 /\ DOMAIN queue' = 1 .. Len(queue')
           /\ 1 \in DOMAIN queue /\ Head(queue) = queue[1]
           /\ \A i \in DOMAIN queue' : i + 1 \in DOMAIN queue /\ queue'[i] = queue[i + 1]
<1>1. /\ queue' \in Seq(Messages) /\ Len(queue') = Len(queue) - 1
      /\ \A i \in 1 .. Len(queue') : queue'[i] = queue[i + 1]
      /\ Head(queue) = queue[1]
    BY TakenType, HeadTailProperties
<1>2. DOMAIN queue' = 1 .. Len(queue') /\ Len(queue') \in Nat
    BY <1>1, LenProperties
<1> QED BY <1>1, <1>2, TakenType, SMT

(* Steps that leave samples and messages where they are. *)
LEMMA ControlStream ==
    ASSUME TypeInv, StreamInv,
           Feed \/ AskQueue \/ DecideToGo \/ DecideToPause \/ Pause \/ Resume
           \/ WaitForRoom \/ EnoughRoom \/ WaitForLast \/ MonitorWatch \/ MonitorResume
           \/ TrainStep \/ ResetBegin \/ ResetEnd
    PROVE  StreamInv'
<1>1. active' = active /\ finished' = finished /\ queue' = queue /\ taken' = taken
    BY DEF Feed, AskQueue, DecideToGo, DecideToPause, Go, Pause, Resume, WaitForRoom,
           EnoughRoom, WaitForLast, MonitorWatch, MonitorResume, TrainStep, ResetBegin,
           ResetEnd, rollouterVars, queueVars
<1>2. \/ proc' = proc
      \/ /\ proc \notin {"lastDrain", "waitLast", "done"}
         /\ proc' \notin {"lastDrain", "waitLast", "done"}
         /\ \/ proc' \notin {"taken", "waitRoom", "submit"}
            \/ proc \in {"taken", "waitRoom", "submit"}
      \/ proc = "lastDrain" /\ proc' = "waitLast"
    BY DEF Feed, AskQueue, DecideToGo, DecideToPause, Go, Pause, Resume, WaitForRoom,
           EnoughRoom, WaitForLast, MonitorWatch, MonitorResume, TrainStep, ResetBegin,
           ResetEnd, rollouterVars
<1>3. Queued' = Queued
    BY <1>1 DEF Queued
<1>4. EndInv'
    BY <1>1, <1>2 DEF StreamInv, EndInv
<1>5. PlacesInv'
    BY <1>1, <1>2, <1>3 DEF StreamInv, PlacesInv
<1> QED BY <1>4, <1>5 DEF StreamInv

LEMMA ReapStream ==
    ASSUME TypeInv, StreamInv, Reap \/ GotRoom \/ LastReaped
    PROVE  StreamInv'
<1>1. PICK done \in SUBSET finished \ {{}} :
          active' = active \ done /\ finished' = finished \ done
    BY DEF Reap, GotRoom, LastReaped, RoomMade
<1>2. queue' = queue /\ taken' = taken
    BY DEF Reap, GotRoom, LastReaped, RoomMade, queueVars
<1>3. \/ proc' = proc /\ proc = "drain"
      \/ proc = "waitRoom" /\ proc' = "taken"
      \/ proc = "waitLast" /\ proc' = "lastDrain"
    BY DEF Reap, GotRoom, LastReaped, RoomMade
<1>4. /\ Queued' = Queued /\ active' \subseteq active
      /\ active' \ finished' \subseteq active \ finished
    BY <1>1, <1>2 DEF Queued
<1>5. EndInv'
    BY <1>2, <1>3 DEF StreamInv, EndInv
<1>6. PlacesInv'
    BY <1>2, <1>3, <1>4 DEF StreamInv, PlacesInv
<1> QED BY <1>5, <1>6 DEF StreamInv

LEMMA TakeSampleStream ==
    ASSUME TypeInv, StreamInv, TakeSample
    PROVE  StreamInv'
<1>1. /\ proc = "get" /\ taken' = taken + 1
      /\ active' = active /\ finished' = finished /\ queue' = queue
      /\ proc' = IF taken = Total THEN "lastDrain" ELSE "taken"
    BY DEF TakeSample, queueVars
<1>2. taken # Total + 1
    BY <1>1 DEF StreamInv, EndInv
<1>3. proc' \in {"lastDrain", "waitLast", "done"} <=> taken' = Total + 1
    BY <1>1, TakenType, SMT
<1>4. EndInv'
    BY <1>1, <1>3 DEF StreamInv, EndInv
<1>5. 1 .. taken \subseteq 1 .. taken' /\ taken' \notin 1 .. taken
    BY <1>1, TakenType, SMT
<1>6. Queued' = Queued
    BY <1>1 DEF Queued
<1>7. PlacesInv'
    BY <1>1, <1>5, <1>6 DEF StreamInv, PlacesInv
<1> QED BY <1>4, <1>7 DEF StreamInv

LEMMA SubmitStream ==
    ASSUME TypeInv, StreamInv, Submit
    PROVE  StreamInv'
<1>1. /\ proc = "submit" /\ proc' = "check" /\ active' = active \cup {taken}
      /\ finished' = finished /\ queue' = queue /\ taken' = taken
    BY DEF Submit, queueVars
<1>2. taken \in 1 .. taken
    BY <1>1, TakenType, SMT DEF TypeInv, HandInv, Samples
<1>3. Queued' = Queued
    BY <1>1 DEF Queued
<1>4. EndInv'
    BY <1>1 DEF StreamInv, EndInv
<1>5. PlacesInv'
    BY <1>1, <1>2, <1>3 DEF StreamInv, PlacesInv
<1> QED BY <1>4, <1>5 DEF StreamInv

(* A message is put: a sample whose task has just ended, or the end mark.  *)
LEMMA PutStream ==
    ASSUME TypeInv, StreamInv, (\E i \in Samples : Deliver(i)) \/ CloseStream
    PROVE  StreamInv'
<1>1. PICK m \in Messages :
          /\ Put(m)
          /\ \/ m \in active \ finished /\ finished' = finished \cup {m} /\ proc' = proc
             \/ /\ m = End /\ finished' = finished /\ active = {}
                /\ proc = "lastDrain" /\ proc' = "done"
    BY DEF Deliver, CloseStream, Messages, AllReaped
<1>2. active' = active /\ taken' = taken
    BY DEF Deliver, CloseStream
<1>3. PICK d \in {0, 1} :
          /\ Len(queue') = Len(queue) + 1 - d /\ DOMAIN queue' = 1 .. Len(queue')
          /\ queue'[Len(queue')] = m
          /\ \A i \in 1 .. Len(queue') - 1 :
                i + d \in DOMAIN queue /\ queue'[i] = queue[i + d]
    BY <1>1, PutShape
<1>4. Len(queue') \in Nat
    BY <1>3, TakenType, SMT
<1>5. \A i \in DOMAIN queue' : i = Len(queue') \/ i \in 1 .. Len(queue') - 1
    BY <1>3, <1>4, SMT
<1>6. End \notin {queue[i] : i \in DOMAIN queue}
    BY <1>1 DEF StreamInv, EndInv
<1>7. m \in active \ finished => m # End
    BY EndAssumption, SMT DEF TypeInv, TypeOK, Samples
<1>8. m \notin {queue[i] : i \in DOMAIN queue}
    <2>1. CASE m = End
        BY <2>1, <1>6
    <2>2. CASE m \in active \ finished
        <3>1. m \notin Queued /\ m # End
            BY <2>2, <1>7 DEF StreamInv, PlacesInv
        <3> QED BY <3>1 DEF Queued
    <2> QED BY <1>1, <2>1, <2>2
<1>9. EndInv'
    <2>1. \A i \in 1 .. Len(queue') - 1 : queue'[i] # End
        BY <1>3, <1>6
    <2>2. \A i \in DOMAIN queue' : queue'[i] = End => i = Len(queue')
        BY <2>1, <1>5
    <2>3. proc' # "done" => End \notin {queue'[i] : i \in DOMAIN queue'}
        <3>1. proc' # "done" => m # End
            BY <1>1, <1>7
        <3> QED BY <3>1, <2>1, <1>3, <1>5
    <2>4. proc' = "done" => active' = {}
        BY <1>1, <1>2 DEF StreamInv, EndInv
    <2>5. proc' \in {"lastDrain", "waitLast", "done"} <=> taken' = Total + 1
        BY <1>1, <1>2 DEF StreamInv, EndInv
    <2> QED BY <2>2, <2>3, <2>4, <2>5 DEF EndInv
<1>10. \A i \in DOMAIN queue' : queue'[i] = m \/ \E j \in DOMAIN queue : queue'[i] = queue[j]
    BY <1>3, <1>5
<1>11. Queued' \subseteq Queued \cup ({m} \ {End})
    BY <1>10 DEF Queued
<1>12. PlacesInv'
    <2>1. active' \subseteq 1 .. taken' /\ Queued' \subseteq 1 .. taken'
        BY <1>1, <1>2, <1>11 DEF StreamInv, PlacesInv
    <2>2. proc' \in {"taken", "waitRoom", "submit"} => taken' \notin active' \cup Queued'
        BY <1>1, <1>2, <1>11 DEF StreamInv, PlacesInv
    <2>3. Queued' \cap (active' \ finished') = {}
        BY <1>1, <1>2, <1>11 DEF StreamInv, PlacesInv
    <2>4. ASSUME NEW i \in DOMAIN queue', NEW j \in DOMAIN queue', queue'[i] = queue'[j]
          PROVE  i = j
        <3>1. CASE i = Len(queue') /\ j = Len(queue')
            BY <3>1
        <3>2. CASE i \in 1 .. Len(queue') - 1 /\ j = Len(queue')
            BY <3>2, <2>4, <1>3, <1>8
        <3>3. CASE i = Len(queue') /\ j \in 1 .. Len(queue') - 1
            BY <3>3, <2>4, <1>3, <1>8
        <3>4. CASE i \in 1 .. Len(queue') - 1 /\ j \in 1 .. Len(queue') - 1
            <4>1. i + d = j + d
                BY <3>4, <2>4, <1>3 DEF StreamInv, PlacesInv
            <4> QED BY <3>4, <4>1, SMT
        <3> QED BY <3>1, <3>2, <3>3, <3>4, <1>5
    <2> QED BY <2>1, <2>2, <2>3, <2>4 DEF PlacesInv
<1> QED BY <1>9, <1>12 DEF StreamInv

LEMMA ConsumeStream ==
    ASSUME TypeInv, StreamInv, GetSample \/ StopTraining
    PROVE  StreamInv'
<1>1. /\ queue # << >> /\ queue' = Tail(queue) /\ active' = active /\ finished' = finished
      /\ proc' = proc /\ taken' = taken
    BY DEF GetSample, StopTraining, rollouterVars
<1>2. /\ Len(queue') = Len(queue) - 1 /\ DOMAIN queue' = 1 .. Len(queue')
      /\ \A i \in DOMAIN queue' : i + 1 \in DOMAIN queue /\ queue'[i] = queue[i + 1]
    BY <1>1, TailShape
<1>3. {queue'[i] : i \in DOMAIN queue'} \subseteq {queue[i] : i \in DOMAIN queue}
    BY <1>2
<1>4. Queued' \subseteq Queued
    BY <1>3 DEF Queued
<1>5. EndInv'
    <2>1. ASSUME NEW i \in DOMAIN queue', queue'[i] = End PROVE i = Len(queue')
        <3>1. i + 1 = Len(queue)
            BY <2>1, <1>2 DEF StreamInv, EndInv
        <3> QED BY <3>1, <1>2, TakenType, SMT
    <2> QED BY <2>1, <1>1, <1>3 DEF StreamInv, EndInv
<1>6. PlacesInv'
    <2>1. ASSUME NEW i \in DOMAIN queue', NEW j \in DOMAIN queue', queue'[i] = queue'[j]
          PROVE  i = j
        <3>1. i + 1 = j + 1
            BY <2>1, <1>2 DEF StreamInv, PlacesInv
        <3> QED BY <3>1, <1>2, TakenType, SMT
    <2> QED BY <2>1, <1>1, <1>4 DEF StreamInv, PlacesInv
<1> QED BY <1>5, <1>6 DEF StreamInv

LEMMA StreamInvInit == Init => StreamInv
<1> SUFFICES ASSUME Init PROVE StreamInv
    OBVIOUS
<1>1. DOMAIN queue = {} /\ Queued = {}
    BY EmptySeq, SMT DEF Init, Queued
<1> QED BY <1>1, ConstantTypes, SMT DEF Init, StreamInv, EndInv, PlacesInv

LEMMA StreamInvNext == IInv /\ StreamInv /\ [Next]_vars => StreamInv'
<1> SUFFICES ASSUME IInv, StreamInv, [Next]_vars PROVE StreamInv'
    OBVIOUS
<1>0. TypeInv
    BY DEF IInv
<1>1. CASE Feed \/ AskQueue \/ DecideToGo \/ DecideToPause \/ Pause \/ Resume
           \/ WaitForRoom \/ EnoughRoom \/ WaitForLast \/ MonitorWatch \/ MonitorResume
           \/ TrainStep \/ ResetBegin \/ ResetEnd
    BY <1>0, <1>1, ControlStream
<1>2. CASE Reap \/ GotRoom \/ LastReaped
    BY <1>0, <1>2, ReapStream
<1>3. CASE TakeSample
    BY <1>0, <1>3, TakeSampleStream
<1>4. CASE Submit
    BY <1>0, <1>4, SubmitStream
<1>5. CASE (\E i \in Samples : Deliver(i)) \/ CloseStream
    BY <1>0, <1>5, PutStream
<1>6. CASE GetSample \/ StopTraining
    BY <1>0, <1>6, ConsumeStream
<1>7. CASE UNCHANGED vars
    BY <1>7 DEF StreamInv, EndInv, PlacesInv, Queued, vars, rollouterVars, queueVars
<1> QED
    BY <1>1, <1>2, <1>3, <1>4, <1>5, <1>6, <1>7
    DEF Next, Processor, Monitor, Trainer

(* The end of the stream: when None has been put no sample is in hand or    *)
(* under way, every sample of the run was started, and nothing follows None *)
(* in the queue, so a trainer that stops at None misses no sample.          *)
THEOREM EndComesLast == Spec => []EndMarkComesLast
<1>1. IInv /\ StreamInv => EndMarkComesLast
    <2> SUFFICES ASSUME IInv, StreamInv, proc = "done"
                 PROVE  /\ InHand = {} /\ active = {} /\ Started = Total
                        /\ \A i \in DOMAIN queue : queue[i] = End => i = Len(queue)
        BY DEF EndMarkComesLast
    <2>1. taken = Total + 1 /\ active = {}
          /\ \A i \in DOMAIN queue : queue[i] = End => i = Len(queue)
        BY DEF StreamInv, EndInv
    <2>2. Started = Total
        BY <2>1, ConstantTypes, SMT DEF Started
    <2> QED BY <2>1, <2>2 DEF InHand
<1> QED BY <1>1, IInvInit, IInvNext, StreamInvInit, StreamInvNext, PTL DEF Spec

-----------------------------------------------------------------------------
(* What is left over at a weight update                                    *)

(* Samples the trainer consumed since the last reset. *)
Consumed == IF trainer \in {"sync", "reset"} THEN PerSync
            ELSE (localStep - 1) * RequiredSamples + batch

(* They are charged as well, on top of what is outstanding; and a reset    *)
(* comes between two cycles.                                               *)
CycleInv ==
    /\ trainer \in {"sync", "reset"} => localStep = 1 /\ batch = 0
    /\ Cardinality(Outstanding) + Consumed <= Charged

FlowInv == IInv /\ StreamInv /\ CycleInv

LEMMA ConsumedType ==
    ASSUME TypeInv
    PROVE  Consumed \in Nat /\ PerSync \in Nat /\ RequiredSamples \in Nat
<1>1. RequiredSamples \in Nat /\ TriggerSteps \in Nat /\ localStep \in Nat /\ localStep >= 1
      /\ batch \in Nat
    BY ConstantTypes, SMT DEF TypeInv, TypeOK
<1>2. PerSync \in Nat
    BY <1>1, SMT DEF PerSync
<1>3. (localStep - 1) * RequiredSamples \in Nat
    <2>1. \A a, b \in Nat : a * b \in Nat
        BY SMT
    <2>2. localStep - 1 \in Nat
        BY <1>1, SMT
    <2> QED BY <1>1, <2>1, <2>2
<1> QED BY <1>1, <1>2, <1>3, SMT DEF Consumed

(* A step that starts, consumes and resets nothing. *)
LEMMA CycleKept ==
    ASSUME FlowInv, TypeInv', NothingStarts,
           trainer' = trainer, localStep' = localStep, batch' = batch
    PROVE  CycleInv'
<1>1. Cardinality(Outstanding') <= Cardinality(Outstanding)
      /\ Cardinality(Outstanding') \in Nat /\ Cardinality(Outstanding) \in Nat
    BY OutstandingFinite DEF FlowInv, IInv, NothingStarts
<1>2. Charged' = Charged /\ Consumed' = Consumed /\ Charged \in Int /\ Consumed \in Nat
    BY ChargedType, ConsumedType DEF Charged, Consumed, FlowInv, IInv, NothingStarts
<1>3. Cardinality(Outstanding) + Consumed <= Charged
    BY DEF FlowInv, CycleInv
<1>4. Cardinality(Outstanding') + Consumed' <= Charged'
    BY <1>1, <1>2, <1>3, SMT
<1> QED BY <1>4 DEF FlowInv, CycleInv

(* A sample taken is outstanding and charged. *)
LEMMA TakeSampleCycle ==
    ASSUME FlowInv, TypeInv', TakeSample
    PROVE  CycleInv'
<1>1. trainer' = trainer /\ localStep' = localStep /\ batch' = batch /\ gone' = gone
    BY DEF TakeSample, trainerVars, resetVars
<1>2. Cardinality(Outstanding') <= Cardinality(Outstanding) + (Started' - Started)
    BY TakeSampleBudget DEF FlowInv
<1>3. /\ Cardinality(Outstanding') \in Nat /\ Cardinality(Outstanding) \in Nat
      /\ Started \in Int /\ Started' \in Int /\ gone \in Int /\ Consumed \in Nat
    <2>1. Cardinality(Outstanding) \in Nat /\ Started \in 0 .. Total /\ gone \in 0 .. Total
          /\ Consumed \in Nat
        BY OutstandingFinite, ChargedType, ConsumedType DEF FlowInv, IInv
    <2>2. taken' \in Int /\ Total \in Int
        BY ConstantTypes, SMT DEF TypeInv, TypeOK
    <2>3. Started' \in Int
        BY <2>2 DEF Started
    <2>4. Cardinality(Outstanding') \in Nat
        BY TakeSampleBudget DEF FlowInv
    <2> QED BY <2>1, <2>3, <2>4, SMT
<1>4. Consumed' = Consumed
    BY <1>1 DEF Consumed
<1>5. Cardinality(Outstanding) + Consumed <= Started - gone
    BY DEF FlowInv, CycleInv, Charged
<1>6. Cardinality(Outstanding') + Consumed' <= Started' - gone'
    BY <1>1, <1>2, <1>3, <1>4, <1>5, SMT
<1> QED BY <1>1, <1>6 DEF FlowInv, CycleInv, Charged

(* A sample consumed is outstanding no more: its only place was the head.  *)
LEMMA GetSampleCycle ==
    ASSUME FlowInv, TypeInv', GetSample
    PROVE  CycleInv'
<1>1. /\ queue # << >> /\ queue' = Tail(queue) /\ Head(queue) # End
      /\ active' = active /\ finished' = finished /\ proc' = proc /\ taken' = taken
      /\ gone' = gone /\ trainer = "collect" /\ trainer' = trainer
      /\ localStep' = localStep /\ batch' = batch + 1
    BY DEF GetSample, rollouterVars, pauseVars, resetVars
<1>2. TypeInv
    BY DEF FlowInv, IInv
<1>3. /\ DOMAIN queue' = 1 .. Len(queue') /\ 1 \in DOMAIN queue /\ Head(queue) = queue[1]
      /\ \A i \in DOMAIN queue' : i + 1 \in DOMAIN queue /\ queue'[i] = queue[i + 1]
    BY <1>1, <1>2, TailShape
<1> DEFINE h == queue[1]
<1>4. h \in Queued
    BY <1>1, <1>3 DEF Queued
<1>5. ASSUME NEW i \in DOMAIN queue' PROVE queue'[i] # h
    <2>1. i + 1 # 1 /\ i + 1 \in DOMAIN queue
        BY <1>3, <1>5, SMT
    <2> QED BY <2>1, <1>3 DEF FlowInv, StreamInv, PlacesInv
<1>6. Queued' \subseteq Queued \ {h}
    <2>1. {queue'[i] : i \in DOMAIN queue'} \subseteq {queue[i] : i \in DOMAIN queue} \ {h}
        BY <1>3, <1>5
    <2> QED BY <2>1 DEF Queued
<1>7. h \notin active \ finished /\ h \notin InHand
    BY <1>4 DEF FlowInv, StreamInv, PlacesInv, InHand
<1>8. h \in Outstanding /\ Outstanding' \in SUBSET (Outstanding \ {h})
    BY <1>1, <1>4, <1>6, <1>7 DEF Outstanding, InHand
<1>9. /\ IsFiniteSet(Outstanding) /\ Cardinality(Outstanding) \in Nat
      /\ Cardinality(Outstanding \ {h}) = Cardinality(Outstanding) - 1
      /\ IsFiniteSet(Outstanding \ {h})
    BY <1>2, <1>8, OutstandingFinite, FS_RemoveElement
<1>10. Cardinality(Outstanding') <= Cardinality(Outstanding \ {h})
       /\ Cardinality(Outstanding') \in Nat
    BY <1>8, <1>9, FS_Subset, FS_CardinalityType
<1>11. Consumed \in Nat /\ Consumed' = Consumed + 1 /\ Charged' = Charged /\ Charged \in Int
    <2>1. Charged' = Charged /\ Charged \in Int
        BY <1>1, <1>2, ChargedType DEF Charged, Started
    <2>2. Consumed = (localStep - 1) * RequiredSamples + batch
          /\ Consumed' = (localStep - 1) * RequiredSamples + (batch + 1)
        BY <1>1 DEF Consumed
    <2>3. (localStep - 1) * RequiredSamples \in Int /\ batch \in Int
        BY <1>2, ConstantTypes, SMT DEF TypeInv, TypeOK
    <2> QED BY <1>2, <2>1, <2>2, <2>3, ConsumedType, SMT
<1>12. Cardinality(Outstanding) + Consumed <= Charged
    BY DEF FlowInv, CycleInv
<1>13. Cardinality(Outstanding') + Consumed' <= Charged'
    BY <1>9, <1>10, <1>11, <1>12, SMT
<1> QED BY <1>1, <1>13 DEF CycleInv

(* A training step ends a batch, and the last of a cycle makes it PerSync.  *)
LEMMA TrainStepCycle ==
    ASSUME FlowInv, TypeInv', TrainStep
    PROVE  CycleInv'
<1>1. /\ trainer = "collect" /\ batch = RequiredSamples /\ batch' = 0 /\ localStep' = NextLocal
      /\ trainer' = IF NextLocal = 1 THEN "sync" ELSE "collect"
      /\ active' = active /\ finished' = finished /\ queue' = queue /\ taken' = taken
      /\ proc' = proc /\ gone' = gone
    BY DEF TrainStep, rollouterVars, queueVars, resetVars
<1>2. TypeInv
    BY DEF FlowInv, IInv
<1>3. RequiredSamples \in Nat /\ TriggerSteps \in Nat /\ localStep \in 1 .. TriggerSteps
    BY <1>2, ConstantTypes, SMT DEF TypeInv, TypeOK
<1>4. Consumed' = Consumed
    <2>1. Consumed = (localStep - 1) * RequiredSamples + RequiredSamples
        BY <1>1 DEF Consumed
    <2>2. Consumed = localStep * RequiredSamples
        <3>1. \A a, b \in Nat : a >= 1 => (a - 1) * b + b = a * b
            BY SMT
        <3> QED BY <2>1, <3>1, <1>3, SMT
    <2>3. CASE localStep < TriggerSteps
        <3>1. NextLocal = localStep + 1 /\ NextLocal # 1
            BY <2>3, <1>3, SMT DEF NextLocal
        <3>2. trainer' = "collect" /\ localStep' = localStep + 1 /\ batch' = 0
            BY <1>1, <3>1
        <3>3. trainer' \notin {"sync", "reset"}
            BY <3>2
        <3>4. Consumed' = (localStep' - 1) * RequiredSamples + batch'
            BY <3>3, Zenon DEF Consumed
        <3>5. localStep' - 1 = localStep
            BY <3>2, <1>3, SMT
        <3>6. Consumed' = localStep * RequiredSamples + 0
            BY <3>2, <3>4, <3>5, Zenon
        <3>7. \A k, n \in Nat : k * n + 0 = k * n
            BY SMT
        <3>8. localStep \in Nat
            BY <1>3, SMT
        <3>9. localStep * RequiredSamples + 0 = localStep * RequiredSamples
            BY <3>7, <3>8, <1>3, Zenon
        <3> QED BY <2>2, <3>6, <3>9, Zenon
    <2>4. CASE ~(localStep < TriggerSteps)
        <3>1. NextLocal = 1 /\ localStep = TriggerSteps
            BY <2>4, <1>3, SMT DEF NextLocal
        <3>2. Consumed' = RequiredSamples * TriggerSteps
            BY <1>1, <3>1 DEF Consumed, PerSync
        <3>3. \A a, b \in Nat : a * b = b * a
            BY SMT
        <3> QED BY <2>2, <3>1, <3>2, <3>3, <1>3
    <2> QED BY <2>3, <2>4
<1>5. Charged' = Charged /\ Outstanding' = Outstanding
    BY <1>1 DEF Charged, Started, Outstanding, InHand, Queued
<1>6. Cardinality(Outstanding') + Consumed' <= Charged'
    BY <1>4, <1>5 DEF FlowInv, CycleInv
<1> QED BY <1>1, <1>6 DEF CycleInv

(* A reset starts the count of the next cycle. *)
LEMMA ResetCycle ==
    ASSUME FlowInv, ResetBegin \/ ResetEnd
    PROVE  CycleInv'
<1>1. TypeInv /\ localStep = 1 /\ batch = 0
    BY DEF FlowInv, IInv, CycleInv, ResetBegin, ResetEnd
<1>2. /\ active' = active /\ finished' = finished /\ queue' = queue /\ taken' = taken
      /\ proc' = proc /\ localStep' = 1 /\ batch' = 0
    BY <1>1 DEF ResetBegin, ResetEnd, rollouterVars, queueVars
<1>3. Outstanding' = Outstanding /\ Started' = Started
    BY <1>2 DEF Outstanding, InHand, Queued, Started
<1>4. Cardinality(Outstanding) \in Nat /\ Started \in Int
    BY <1>1, OutstandingFinite, ChargedType, SMT
<1>5. CASE ResetBegin
    <2>1. trainer = "sync" /\ trainer' = "reset" /\ gone' = gone
        BY <1>5 DEF ResetBegin
    <2>2. Consumed' = Consumed /\ Charged' = Charged
        BY <1>3, <2>1 DEF Consumed, Charged
    <2> QED BY <1>2, <1>3, <2>2 DEF FlowInv, CycleInv
<1>6. CASE ResetEnd
    <2>1. trainer' = "collect" /\ gone' = Started - Cardinality(Outstanding)
        BY <1>6 DEF ResetEnd
    <2>2. Consumed' = (1 - 1) * RequiredSamples + 0
        BY <1>2, <2>1 DEF Consumed
    <2>3. Consumed' = 0
        BY <2>2, ConstantTypes, SMT
    <2>4. Charged' = Cardinality(Outstanding)
        BY <1>3, <1>4, <2>1, SMT DEF Charged
    <2>5. Cardinality(Outstanding') + Consumed' <= Charged'
        BY <1>3, <1>4, <2>3, <2>4, SMT
    <2> QED BY <2>1, <2>5 DEF CycleInv
<1> QED BY <1>5, <1>6

LEMMA FlowInvInit == Init => FlowInv
<1> SUFFICES ASSUME Init PROVE FlowInv
    OBVIOUS
<1>1. IInv /\ StreamInv
    BY IInvInit, StreamInvInit
<1>2. Cardinality(Outstanding) <= Charged /\ Cardinality(Outstanding) \in Nat
    BY <1>1, OutstandingFinite DEF IInv, BudgetInv
<1>3. Consumed = 0
    <2>1. Consumed = (1 - 1) * RequiredSamples + 0
        BY DEF Consumed, Init
    <2> QED BY <2>1, ConstantTypes, SMT
<1>4. Charged \in Int
    BY <1>1, ChargedType DEF IInv
<1>5. Cardinality(Outstanding) + Consumed <= Charged
    BY <1>2, <1>3, <1>4, SMT
<1>6. CycleInv
    BY <1>5 DEF Init, CycleInv
<1> QED BY <1>1, <1>6 DEF FlowInv

LEMMA FlowInvNext == FlowInv /\ [Next]_vars => FlowInv'
<1> SUFFICES ASSUME FlowInv, [Next]_vars PROVE FlowInv'
    OBVIOUS
<1>0. IInv /\ IInv' /\ StreamInv' /\ TypeInv'
    BY IInvNext, StreamInvNext DEF FlowInv, IInv
<1>1. CASE Feed \/ AskQueue \/ DecideToGo \/ DecideToPause \/ Pause \/ Resume
           \/ WaitForRoom \/ EnoughRoom \/ WaitForLast \/ MonitorWatch \/ MonitorResume
    <2>1. NothingStarts
        BY <1>0, <1>1, ControlBudget
    <2>2. trainer' = trainer /\ localStep' = localStep /\ batch' = batch
        BY <1>1 DEF Feed, AskQueue, DecideToGo, DecideToPause, Go, Pause, Resume,
                    WaitForRoom, EnoughRoom, WaitForLast, MonitorWatch, MonitorResume,
                    trainerVars
    <2> QED BY <1>0, <2>1, <2>2, CycleKept DEF FlowInv
<1>2. CASE Reap \/ GotRoom \/ LastReaped
    <2>1. NothingStarts
        BY <1>0, <1>2, ReapBudget
    <2>2. trainer' = trainer /\ localStep' = localStep /\ batch' = batch
        BY <1>2 DEF Reap, GotRoom, LastReaped, RoomMade, trainerVars
    <2> QED BY <1>0, <2>1, <2>2, CycleKept DEF FlowInv
<1>3. CASE TakeSample
    BY <1>0, <1>3, TakeSampleCycle DEF FlowInv
<1>4. CASE Submit
    <2>1. NothingStarts
        BY <1>0, <1>4, SubmitBudget
    <2>2. trainer' = trainer /\ localStep' = localStep /\ batch' = batch
        BY <1>4 DEF Submit, trainerVars
    <2> QED BY <1>0, <2>1, <2>2, CycleKept DEF FlowInv
<1>5. CASE (\E i \in Samples : Deliver(i)) \/ CloseStream
    <2>1. NothingStarts
        BY <1>0, <1>5, DeliverBudget
    <2>2. trainer' = trainer /\ localStep' = localStep /\ batch' = batch
        BY <1>5 DEF Deliver, CloseStream, trainerVars
    <2> QED BY <1>0, <2>1, <2>2, CycleKept DEF FlowInv
<1>6. CASE GetSample
    BY <1>0, <1>6, GetSampleCycle DEF FlowInv
<1>7. CASE StopTraining
    <2>1. NothingStarts
        BY <1>0, <1>7, ConsumeBudget
    <2>2. /\ trainer = "collect" /\ trainer' = "done"
          /\ localStep' = localStep /\ batch' = batch
        BY <1>7 DEF StopTraining
    <2>3. CycleInv'
        <3>1. Cardinality(Outstanding') <= Cardinality(Outstanding)
              /\ Cardinality(Outstanding') \in Nat /\ Cardinality(Outstanding) \in Nat
            BY <1>0, <2>1, OutstandingFinite DEF IInv, NothingStarts
        <3>2. Charged' = Charged /\ Charged \in Int
            BY <1>0, <2>1, ChargedType DEF Charged, IInv, NothingStarts
        <3>3. Consumed' = Consumed /\ Consumed \in Nat
            BY <1>0, <2>2, ConsumedType DEF Consumed, IInv
        <3>4. Cardinality(Outstanding) + Consumed <= Charged
            BY DEF FlowInv, CycleInv
        <3>5. Cardinality(Outstanding') + Consumed' <= Charged'
            BY <3>1, <3>2, <3>3, <3>4, SMT
        <3> QED BY <2>2, <3>5 DEF CycleInv
    <2> QED BY <1>0, <2>3 DEF FlowInv
<1>8. CASE TrainStep
    BY <1>0, <1>8, TrainStepCycle DEF FlowInv
<1>9. CASE ResetBegin \/ ResetEnd
    BY <1>0, <1>9, ResetCycle DEF FlowInv
<1>10. CASE UNCHANGED vars
    <2>1. NothingStarts /\ trainer' = trainer /\ localStep' = localStep /\ batch' = batch
        BY <1>10 DEF NothingStarts, Started, Outstanding, InHand, Queued, vars,
            rollouterVars, queueVars, trainerVars, pauseVars, resetVars
    <2> QED BY <1>0, <2>1, CycleKept DEF FlowInv
<1> QED
    BY <1>1, <1>2, <1>3, <1>4, <1>5, <1>6, <1>7, <1>8, <1>9, <1>10
    DEF Next, Processor, Monitor, Trainer

(* The backlog of a weight update: when reset_staleness has ended, what was *)
(* generated with older weights and is not trained yet is at most the limit *)
(* less the samples of one cycle, plus the one the processor may hold; so a *)
(* trainer with staleness_threshold = 0 works off at most one old sample.   *)
THEOREM BacklogBounded == Spec => StaleBacklogBounded
<1>1. FlowInv /\ [Next]_vars =>
        [trainer = "reset" /\ trainer' = "collect"
           => Cardinality(Outstanding) <= MaxRequired - PerSync + 1]_vars
    <2> SUFFICES ASSUME FlowInv, trainer = "reset"
                 PROVE  Cardinality(Outstanding) <= MaxRequired - PerSync + 1
        OBVIOUS
    <2>1. TypeInv
        BY DEF FlowInv, IInv
    <2>2. Cardinality(Outstanding) + PerSync <= Charged
        BY DEF FlowInv, CycleInv, Consumed
    <2>3. Charged <= MaxRequired + 1
        BY DEF FlowInv, IInv, BudgetInv, RolloutNumWithinOne, Charged
    <2>4. Cardinality(Outstanding) \in Nat /\ Charged \in Int /\ PerSync \in Nat
          /\ MaxRequired \in Nat
        BY <2>1, OutstandingFinite, ChargedType, ConsumedType, ConstantTypes
    <2> QED BY <2>2, <2>3, <2>4, SMT
<1> QED BY <1>1, FlowInvInit, FlowInvNext, PTL DEF Spec, StaleBacklogBounded

-----------------------------------------------------------------------------
(* The replay buffer                                                       *)

(* A row that may be sampled with the batch at hand: its own, or one of an  *)
(* earlier batch with its partition and step, as the batches of a validation*)
(* have (see main_ppo_sync.py:208).                                         *)
r_Sharing(c, b) ==
    /\ b < r_batch
    /\ c.batches[b].partition = c.batches[r_batch].partition
    /\ c.batches[b].step = c.batches[r_batch].step

(* The batch was dispatched; the key is the entry of a prompt.             *)
r_Begun(bt, at, b) == b < bt \/ (b = bt /\ at # "dispatch")
r_Mark(c, k) == k.prompt \in c.prompts /\ k.session = None

(* The counters and progress of the trainer and of its workers.            *)
r_Typed(c) ==
    /\ r_batch \in DOMAIN c.batches
    /\ r_pc \in {"dispatch", "sample", "pad", "use", "remove", "done"}
    /\ r_session \in
           [DOMAIN c.batches -> [c.prompts -> 
               [c.sessions -> {"idle", "running", "stored", "empty", "failed"}]]]
    /\ r_prompt \in [DOMAIN c.batches -> [c.prompts -> {"idle", "running", "finished", "failure"}]]
    /\ DOMAIN r_queue = Buffer(c)!Partitions /\ DOMAIN r_buffer = Buffer(c)!Partitions
         /\ DOMAIN r_listed = Buffer(c)!Partitions
    /\ r_sampled \subseteq Buffer(c)!Keys
    /\ (r_pc \in {"dispatch", "sample", "done"} => r_sampled = {})

(* Only what was dispatched has run; a gather returns after its sessions.  *)
r_Worked(c) ==
    \A b \in DOMAIN c.batches, p \in c.prompts :
        /\ r_prompt[b][p] # "idle" => r_Begun(r_batch, r_pc, b)
        /\ \A s \in c.sessions : r_session[b][p][s] # "idle" => r_Begun(r_batch, r_pc, b)
        /\ r_prompt[b][p] = "finished"
             => \A s \in c.sessions : r_session[b][p][s] \in {"stored", "empty"}

(* An entry of a store: its key belongs to the partition and was           *)
(* dispatched; a mark that is not "running" tells how its prompt ended.    *)
r_Good(c, bt, at, pr, q, k, tag) ==
    /\ k \in Buffer(c)!Keys /\ r_Begun(bt, at, k.batch) /\ c.batches[k.batch].partition = q
    /\ r_Mark(c, k) =>
           /\ tag.status \in {"running", "finished", "failure"}
           /\ tag.step \in {None, c.batches[k.batch].step}
           /\ tag.status # "running" => tag.status = pr[k.batch][k.prompt]
    /\ ~r_Mark(c, k) => tag.status = "success" /\ tag.step = c.batches[k.batch].step

r_Known(c, bt, at, pr, store) ==
    \A q \in Buffer(c)!Partitions :
        \A k \in DOMAIN store[q] : r_Good(c, bt, at, pr, q, k, store[q][k])

(* Every prompt that was dispatched keeps its entry in the buffer, so that *)
(* a mark of the queue finds the step it lacks.                            *)
r_Marked(c, bt, at, store) ==
    \A b \in DOMAIN c.batches : r_Begun(bt, at, b) =>
        \A p \in c.prompts : Buffer(c)!Prompt(b, p) \in DOMAIN store[c.batches[b].partition]

r_Stepped(c, store) ==
    \A q \in Buffer(c)!Partitions :
        \A k \in DOMAIN store[q] : store[q][k].step = c.batches[k.batch].step

(* While the batch is sampled and used the other stores know no row of it  *)
(* that the queue has not.                                                 *)
r_Held(c, bt, at, waiting, store) ==
    at \in {"sample", "pad", "use"} =>
        \A k \in DOMAIN store[c.batches[bt].partition] :
            k.batch = bt /\ ~r_Mark(c, k) => k \in DOMAIN waiting[c.batches[bt].partition]

(* In every store the mark of a finished prompt comes with all its rows.   *)
r_Whole(c, bt, at, ses, store) ==
    at = "sample" =>
        \A p \in c.prompts, s \in c.sessions :
            /\ Buffer(c)!Prompt(bt, p) \in DOMAIN store[c.batches[bt].partition]
            /\ store[c.batches[bt].partition][Buffer(c)!Prompt(bt, p)].status = "finished"
            /\ ses[bt][p][s] = "stored"
            => Buffer(c)!Key(bt, p, s) \in DOMAIN store[c.batches[bt].partition]

r_Stored(c, bt, at, ses, waiting) ==
    at = "sample" =>
        \A p \in c.prompts, s \in c.sessions :
            ses[bt][p][s] = "stored"
                => Buffer(c)!Key(bt, p, s) \in DOMAIN waiting[c.batches[bt].partition]

(* The sample is complete, and what is of the batch is in the queue.       *)
r_Complete(c) ==
    \A p \in c.prompts :
        /\ r_prompt[r_batch][p] # "running"
        /\ r_prompt[r_batch][p] = "finished" =>
               \A s \in c.sessions : r_session[r_batch][p][s] = "stored"
                   => Buffer(c)!Key(r_batch, p, s) \in r_sampled

r_Taken(c) ==
    /\ r_pc \in {"pad", "use", "remove"} =>
          \A k \in r_sampled : (k.batch = r_batch \/ r_Sharing(c, k.batch)) /\ ~r_Mark(c, k)
    /\ r_pc \in {"pad", "use"} =>
          /\ \A k \in r_sampled : k.batch = r_batch => k \in DOMAIN r_queue[Buffer(c)!Here]
          /\ r_Complete(c)

r_Stores(c) ==
    /\ r_Known(c, r_batch, r_pc, r_prompt, r_queue) /\ r_Known(c, r_batch, r_pc, r_prompt, r_buffer)
    /\ r_Known(c, r_batch, r_pc, r_prompt, r_listed)

r_Buffered(c) == r_Marked(c, r_batch, r_pc, r_buffer) /\ r_Stepped(c, r_buffer)

r_Ready(c) ==
    /\ r_Held(c, r_batch, r_pc, r_queue, r_buffer) /\ r_Held(c, r_batch, r_pc, r_queue, r_listed)
    /\ r_Whole(c, r_batch, r_pc, r_session, r_queue)
         /\ r_Whole(c, r_batch, r_pc, r_session, r_buffer)
    /\ r_Whole(c, r_batch, r_pc, r_session, r_listed)
         /\ r_Stored(c, r_batch, r_pc, r_session, r_queue)

r_Inv(c) == r_Typed(c) /\ r_Worked(c) /\ r_Stores(c) /\ r_Buffered(c) /\ r_Ready(c) /\ r_Taken(c)

-----------------------------------------------------------------------------
(* The instances speak of the finite sets of the standard module.          *)
LEMMA r_FiniteSets ==
    ASSUME NEW c, NEW S
    PROVE  /\ Buffer(c)!IsFiniteSet(S) <=> IsFiniteSet(S)
           /\ Buffer(c)!Cardinality(S) = Cardinality(S)
<1>1. Buffer(c)!IsFiniteSet(S) <=> IsFiniteSet(S)
    BY Zenon DEF Buffer!IsFiniteSet, IsFiniteSet
<1>2. Buffer(c)!Cardinality(S) = Cardinality(S)
    BY Zenon DEF Buffer!Cardinality, Cardinality, Buffer!IsFiniteSet, IsFiniteSet
<1> QED BY <1>1, <1>2

LEMMA r_BatchTypes ==
    ASSUME NEW c, Buffer(c)!BatchesAssumption
    PROVE  /\ Len(c.batches) \in Nat /\ DOMAIN c.batches = 1 .. Len(c.batches) /\ Len(c.batches) > 0
           /\ \A b \in DOMAIN c.batches : c.batches[b].partition \in Buffer(c)!Partitions
                /\ c.batches[b].step \in Nat
<1> DEFINE R == [partition : {"train", "val"}, step : Nat]
<1>1. c.batches \in Seq(R) /\ c.batches # << >>
    BY DEF Buffer!BatchesAssumption
<1> HIDE DEF R
<1>2. Len(c.batches) \in Nat /\ DOMAIN c.batches = 1 .. Len(c.batches)
    BY <1>1, LenProperties
<1>3. Len(c.batches) # 0
    BY <1>1, EmptySeq, SMT
<1>4. \A b \in DOMAIN c.batches : c.batches[b] \in R
    BY <1>1, <1>2, ElementOfSeq
<1> QED BY <1>2, <1>3, <1>4, SMT DEF R, Buffer!Partitions

LEMMA r_KeyType ==
    ASSUME NEW c, Buffer(c)!BatchesAssumption, Buffer(c)!SizesAssumption, NEW b \in DOMAIN c.batches
    PROVE  /\ \A p \in c.prompts : /\ Buffer(c)!Prompt(b, p) \in Buffer(c)!Keys
                                        /\ r_Mark(c, Buffer(c)!Prompt(b, p))
                                 /\ Buffer(c)!Prompt(b, p).batch = b
                                      /\ Buffer(c)!Prompt(b, p).prompt = p
                                 /\ \A s \in c.sessions : /\ Buffer(c)!Key(b, p, s) \in Buffer(c)!Keys /\ ~r_Mark(c, Buffer(c)!Key(b, p, s))
                                                        /\ Buffer(c)!Key(b, p, s).batch = b
           /\ \A i \in 1 .. c.multiple : /\ Buffer(c)!Padding(b, i) \in Buffer(c)!Keys
                                              /\ ~r_Mark(c, Buffer(c)!Padding(b, i))
                                       /\ Buffer(c)!Padding(b, i).batch = b
BY DEF Buffer!Prompt, Buffer!Padding, Buffer!Key, Buffer!Keys, r_Mark, Buffer!SizesAssumption

LEMMA r_MarksOf ==
    ASSUME NEW c, Buffer(c)!SizesAssumption, NEW k \in Buffer(c)!Keys, r_Mark(c, k)
    PROVE  k.batch \in DOMAIN c.batches /\ k.prompt \in c.prompts
           /\ k = Buffer(c)!Prompt(k.batch, k.prompt)
BY DEF Buffer!Prompt, Buffer!Key, Buffer!Keys, r_Mark

LEMMA r_KeysAreFinite ==
    ASSUME NEW c, Buffer(c)!BatchesAssumption, Buffer(c)!SizesAssumption
    PROVE  IsFiniteSet(Buffer(c)!Keys)
<1> DEFINE A == DOMAIN c.batches
           B == c.prompts \cup {None}
           C == c.sessions \cup {None} \cup 1 .. c.multiple
           T == (A \X B) \X C
           f == [x \in T |-> Buffer(c)!Key(x[1][1], x[1][2], x[2])]
<1>1. IsFiniteSet(A)
    <2>1. IsFiniteSet(1 .. Len(c.batches))
        BY r_BatchTypes, FS_Interval, SMT
    <2> QED BY <2>1, r_BatchTypes, Zenon
<1>2. IsFiniteSet(B) /\ IsFiniteSet(c.sessions \cup {None})
    BY FS_AddElement, r_FiniteSets DEF Buffer!SizesAssumption
<1>3. IsFiniteSet(1 .. c.multiple)
    BY FS_Interval, SMT DEF Buffer!SizesAssumption
<1>4. IsFiniteSet(C)
    BY <1>2, <1>3, FS_Union
<1>5. Buffer(c)!Keys = [batch : A, prompt : B, session : C]
    BY DEF Buffer!Keys
<1> HIDE DEF A, B, C
<1>6. IsFiniteSet(T)
    BY <1>1, <1>2, <1>4, FS_Product
<1>7. f \in Surjection(T, Buffer(c)!Keys)
    <2>1. f \in [T -> Buffer(c)!Keys]
        BY <1>5, SMT DEF Buffer!Key
    <2>2. ASSUME NEW k \in Buffer(c)!Keys PROVE \E x \in T : f[x] = k
        <3>1. k.batch \in A /\ k.prompt \in B /\ k.session \in C
            /\ k = Buffer(c)!Key(k.batch, k.prompt, k.session)
            BY <1>5, SMT DEF Buffer!Key
        <3>2. <<<<k.batch, k.prompt>>, k.session>> \in T
            BY <3>1
        <3> QED BY <3>1, <3>2
    <2> QED BY <2>1, <2>2 DEF Surjection
<1> QED BY <1>6, <1>7, FS_Surjection

(* u is what Updated makes of entries and items.                          *)
r_Merged(entries, items, u) ==
    /\ DOMAIN u = DOMAIN entries \cup DOMAIN items
    /\ \A k \in DOMAIN entries \ DOMAIN items : u[k] = entries[k]
    /\ \A k \in DOMAIN items :
          \/ u[k] = items[k] /\ (k \in DOMAIN entries => items[k].step # None)
          \/ /\ k \in DOMAIN entries /\ items[k].step = None
             /\ u[k].step = entries[k].step /\ u[k].status = items[k].status

LEMMA r_UpdatedIs ==
    \A c, entries, items : r_Merged(entries, items, Buffer(c)!Updated(entries, items))
BY DEF Buffer!Updated, Buffer!Tag, r_Merged

(* What is known of a store stays known when batches begin and prompts end. *)
LEMMA r_KnownStays ==
    ASSUME NEW c, Buffer(c)!SizesAssumption, NEW bt, NEW at, NEW pr, NEW bt2, NEW at2, NEW pr2,
           NEW store,
           r_Known(c, bt, at, pr, store),
           \A b \in DOMAIN c.batches : r_Begun(bt, at, b) => r_Begun(bt2, at2, b),
           \A b \in DOMAIN c.batches : r_Begun(bt, at, b) =>
               \A p \in c.prompts : pr2[b][p] = pr[b][p] \/ pr[b][p] = "running"
    PROVE  r_Known(c, bt2, at2, pr2, store)
<1> SUFFICES ASSUME NEW q \in Buffer(c)!Partitions, NEW k \in DOMAIN store[q]
             PROVE  r_Good(c, bt2, at2, pr2, q, k, store[q][k])
    BY DEF r_Known
<1> DEFINE tag == store[q][k]
<1>1. r_Good(c, bt, at, pr, q, k, tag)
    BY DEF r_Known
<1> HIDE DEF tag
<1>2. k.batch \in DOMAIN c.batches
    BY <1>1 DEF r_Good, Buffer!Keys
<1>3. r_Mark(c, k) /\ tag.status # "running" => tag.status = pr2[k.batch][k.prompt]
    BY <1>1, <1>2 DEF r_Good, r_Mark
<1>4. r_Good(c, bt2, at2, pr2, q, k, tag)
    BY <1>1, <1>2, <1>3 DEF r_Good
<1> QED BY <1>4 DEF tag

(* What a put or an add does to a store, and what clearing does.           *)
r_Puts(c, store, here, items, new) ==
    /\ DOMAIN new = Buffer(c)!Partitions
    /\ r_Merged(store[here], items, new[here])
    /\ \A q \in Buffer(c)!Partitions : q # here => new[q] = store[q]

r_Clears(c, store, here, new) ==
    /\ DOMAIN new = Buffer(c)!Partitions
    /\ DOMAIN new[here] \subseteq DOMAIN store[here]
    /\ \A k \in DOMAIN new[here] : new[here][k] = store[here][k]
    /\ \A q \in Buffer(c)!Partitions : q # here => new[q] = store[q]

r_Grows(c, store, new) == \A q \in Buffer(c)!Partitions : DOMAIN store[q] \subseteq DOMAIN new[q]

LEMMA r_PutIs ==
    ASSUME NEW c, NEW store, DOMAIN store = Buffer(c)!Partitions, NEW here \in Buffer(c)!Partitions,
           NEW items, NEW new,
           new = [store EXCEPT ![here] = Buffer(c)!Updated(@, items)]
    PROVE  r_Puts(c, store, here, items, new)
<1>1. DOMAIN new = Buffer(c)!Partitions /\ \A q \in Buffer(c)!Partitions : q # here
    => new[q] = store[q]
    OBVIOUS
<1>2. new[here] = Buffer(c)!Updated(store[here], items)
    OBVIOUS
<1>3. r_Merged(store[here], items, new[here])
    BY <1>2, r_UpdatedIs
<1> QED BY <1>1, <1>3 DEF r_Puts

LEMMA r_PutGrows ==
    ASSUME NEW c, NEW store, NEW here \in Buffer(c)!Partitions, NEW items, NEW new,
           r_Puts(c, store, here, items, new)
    PROVE  r_Grows(c, store, new)
BY DEF r_Puts, r_Grows, r_Merged

LEMMA r_WithoutIs ==
    ASSUME NEW c, NEW store, DOMAIN store = Buffer(c)!Partitions, NEW here \in Buffer(c)!Partitions,
           NEW keys, NEW new,
           new = [store EXCEPT ![here] = Buffer(c)!Without(@, keys)]
    PROVE  r_Clears(c, store, here, new)
<1>1. DOMAIN new = Buffer(c)!Partitions /\ \A q \in Buffer(c)!Partitions : q # here
    => new[q] = store[q]
    OBVIOUS
<1>2. new[here] = Buffer(c)!Without(store[here], keys)
    OBVIOUS
<1>3. DOMAIN new[here] = DOMAIN store[here] \ keys
    BY <1>2 DEF Buffer!Without
<1>4. \A k \in DOMAIN new[here] : new[here][k] = store[here][k]
    BY <1>2 DEF Buffer!Without
<1> QED BY <1>1, <1>3, <1>4 DEF r_Clears

LEMMA r_KnownUpdated ==
    ASSUME NEW c, Buffer(c)!BatchesAssumption, Buffer(c)!SizesAssumption, NEW bt, NEW at, NEW pr,
           NEW store, NEW here \in Buffer(c)!Partitions,
           NEW items, NEW new, r_Puts(c, store, here, items, new), r_Known(c, bt, at, pr, store),
           \A k \in DOMAIN items : r_Good(c, bt, at, pr, here, k, items[k])
    PROVE  r_Known(c, bt, at, pr, new)
<1> SUFFICES ASSUME NEW q \in Buffer(c)!Partitions, NEW k \in DOMAIN new[q]
             PROVE  r_Good(c, bt, at, pr, q, k, new[q][k])
    BY DEF r_Known
<1> DEFINE upd == new[here]
<1>1. r_Merged(store[here], items, upd)
    BY DEF r_Puts
<1> HIDE DEF upd
<1>2. CASE q # here
    BY <1>2 DEF r_Known, r_Puts
<1>3. CASE q = here
    <2>0. k \in DOMAIN upd
        BY <1>3 DEF upd
    <2>1. k \in DOMAIN store[here] \cup DOMAIN items
        BY <1>1, <2>0 DEF r_Merged
    <2>2. CASE k \notin DOMAIN items
        <3>1. upd[k] = store[here][k]
            BY <2>1, <2>2, <1>1 DEF r_Merged
        <3> QED BY <3>1, <2>1, <2>2, <1>3 DEF r_Known, upd
    <2>3. CASE k \in DOMAIN items /\ upd[k] = items[k]
        BY <2>3, <1>3 DEF upd
    <2>4. CASE /\ k \in DOMAIN items /\ k \in DOMAIN store[here] /\ items[k].step = None
               /\ upd[k].step = store[here][k].step /\ upd[k].status = items[k].status
        <3> DEFINE old == store[here][k]
                   tag == items[k]
                   both == upd[k]
        <3>1. r_Good(c, bt, at, pr, here, k, old) /\ r_Good(c, bt, at, pr, here, k, tag)
            BY <2>4 DEF r_Known
        <3>2. both.step = old.step /\ both.status = tag.status /\ tag.step = None
            BY <2>4
        <3> HIDE DEF old, tag, both
        <3>3. k.batch \in DOMAIN c.batches
            BY <3>1 DEF r_Good, Buffer!Keys
        <3>4. c.batches[k.batch].step # None
            BY <3>3, r_BatchTypes DEF Buffer!SizesAssumption
        <3>5. r_Mark(c, k)
            BY <3>1, <3>2, <3>4 DEF r_Good
        <3>6. r_Good(c, bt, at, pr, here, k, both)
            BY <3>1, <3>2, <3>5 DEF r_Good
        <3> QED BY <3>6, <1>3 DEF both, upd
    <2> QED BY <2>1, <2>2, <2>3, <2>4, <1>1 DEF r_Merged
<1> QED BY <1>2, <1>3

LEMMA r_KnownLess ==
    ASSUME NEW c, NEW bt, NEW at, NEW pr, NEW store, NEW here \in Buffer(c)!Partitions, NEW new,
           r_Clears(c, store, here, new), r_Known(c, bt, at, pr, store)
    PROVE  r_Known(c, bt, at, pr, new)
<1> SUFFICES ASSUME NEW q \in Buffer(c)!Partitions, NEW k \in DOMAIN new[q]
             PROVE  r_Good(c, bt, at, pr, q, k, new[q][k])
    BY DEF r_Known
<1>1. k \in DOMAIN store[q] /\ new[q][k] = store[q][k]
    BY DEF r_Clears
<1> QED BY <1>1 DEF r_Known

LEMMA r_SteppedUpdated ==
    ASSUME NEW c, NEW store, NEW here \in Buffer(c)!Partitions, NEW items, NEW new,
           r_Puts(c, store, here, items, new),
           r_Stepped(c, store),
           \A k \in DOMAIN items : \/ items[k].step = c.batches[k.batch].step
                                   \/ items[k].step = None /\ k \in DOMAIN store[here]
    PROVE  r_Stepped(c, new)
<1> SUFFICES ASSUME NEW q \in Buffer(c)!Partitions, NEW k \in DOMAIN new[q]
             PROVE  new[q][k].step = c.batches[k.batch].step
    BY DEF r_Stepped
<1> DEFINE upd == new[here]
<1>1. r_Merged(store[here], items, upd)
    BY DEF r_Puts
<1> HIDE DEF upd
<1>2. CASE q # here
    BY <1>2 DEF r_Stepped, r_Puts
<1>3. CASE q = here
    <2>0. k \in DOMAIN upd
        BY <1>3 DEF upd
    <2>1. k \in DOMAIN store[here] \cup DOMAIN items
        BY <1>1, <2>0 DEF r_Merged
    <2>2. k \in DOMAIN store[here] => store[here][k].step = c.batches[k.batch].step
        BY DEF r_Stepped
    <2>3. CASE k \notin DOMAIN items
        BY <2>1, <2>2, <2>3, <1>1, <1>3 DEF r_Merged, upd
    <2>4. CASE k \in DOMAIN items
        <3> DEFINE tag == items[k]
                   old == store[here][k]
                   both == upd[k]
        <3>1. \/ both = tag /\ (k \in DOMAIN store[here] => tag.step # None)
              \/ k \in DOMAIN store[here] /\ tag.step = None /\ both.step = old.step
            BY <1>1, <2>4 DEF r_Merged
        <3>2. \/ tag.step = c.batches[k.batch].step
              \/ tag.step = None /\ k \in DOMAIN store[here]
            BY <2>4
        <3>3. both.step = c.batches[k.batch].step
            BY <3>1, <3>2, <2>2
        <3> QED BY <3>3, <1>3 DEF upd
    <2> QED BY <2>3, <2>4
<1> QED BY <1>2, <1>3

LEMMA r_HeldGrows ==
    ASSUME NEW c, NEW bt, c.batches[bt].partition \in Buffer(c)!Partitions, NEW at, NEW waiting,
           NEW waiting2, NEW store,
           r_Held(c, bt, at, waiting, store), r_Grows(c, waiting, waiting2)
    PROVE  r_Held(c, bt, at, waiting2, store)
BY DEF r_Held, r_Grows

(* Nothing but the stores of keys: what a step of the batch leaves alone.  *)
LEMMA r_Begins ==
    ASSUME NEW c, Buffer(c)!BatchesAssumption, r_batch \in DOMAIN c.batches
    PROVE  /\ \A b \in DOMAIN c.batches : b # r_batch => (r_Begun(r_batch, r_pc, b) <=> b < r_batch)
           /\ r_batch \in Int /\ Buffer(c)!Here \in Buffer(c)!Partitions
                /\ Buffer(c)!Here = c.batches[r_batch].partition
           /\ Buffer(c)!Step = c.batches[r_batch].step /\ Buffer(c)!Step \in Nat
           /\ r_Begun(r_batch, r_pc, r_batch) <=> r_pc # "dispatch"
<1>1. r_batch \in Int /\ \A b \in DOMAIN c.batches : b \in Int
    BY r_BatchTypes
<1>2. \A b \in DOMAIN c.batches : b # r_batch => (r_Begun(r_batch, r_pc, b) <=> b < r_batch)
    BY DEF r_Begun
<1>3. r_Begun(r_batch, r_pc, r_batch) <=> r_pc # "dispatch"
    BY <1>1, SMT DEF r_Begun
<1> QED BY <1>1, <1>2, <1>3, r_BatchTypes DEF Buffer!Here, Buffer!Step

LEMMA r_GenerateSequences ==
    ASSUME NEW c, Buffer(c)!BatchesAssumption, Buffer(c)!SizesAssumption, r_Inv(c),
           Buffer(c)!GenerateSequences
    PROVE  r_Inv(c)'
<1> DEFINE marks == {Buffer(c)!Prompt(r_batch, p) : p \in c.prompts}
           items == [k \in marks |-> Buffer(c)!Tag(Buffer(c)!Step, "running")]
<1>1. r_Typed(c) /\ r_Worked(c) /\ r_Stores(c) /\ r_Buffered(c)
    BY DEF r_Inv
<1>2. /\ r_pc = "dispatch" /\ r_pc' = "sample" /\ r_batch' = r_batch /\ r_queue' = r_queue
      /\ r_listed' = r_listed /\ r_sampled' = r_sampled
      /\ r_prompt' = [r_prompt EXCEPT ![r_batch] = [p \in c.prompts |-> "running"]]
      /\ r_session' = [r_session EXCEPT ![r_batch] = [p \in c.prompts |-> [s \in c.sessions |-> "running"]]]
    BY DEF Buffer!GenerateSequences
<1>3. r_buffer' = [r_buffer EXCEPT ![Buffer(c)!Here] = Buffer(c)!Updated(@, items)]
    BY DEF Buffer!GenerateSequences
<1>4. r_batch \in DOMAIN c.batches /\ DOMAIN r_buffer = Buffer(c)!Partitions
    BY <1>1 DEF r_Typed
<1>5. r_Puts(c, r_buffer, Buffer(c)!Here, items, r_buffer')
    <2> HIDE DEF items
    <2> QED BY <1>3, <1>4, r_Begins, r_PutIs
<1>6. /\ \A b \in DOMAIN c.batches : r_Begun(r_batch, r_pc, b) => r_Begun(r_batch', r_pc', b)
           /\ b # r_batch
      /\ \A b \in DOMAIN c.batches : r_Begun(r_batch', r_pc', b) => r_Begun(r_batch, r_pc, b)
           \/ b = r_batch
      /\ r_Begun(r_batch', r_pc', r_batch)
    BY <1>2, <1>4, r_BatchTypes DEF r_Begun
<1>7. \A k \in marks : /\ k \in Buffer(c)!Keys /\ r_Mark(c, k) /\ k.batch = r_batch
                            /\ k.prompt \in c.prompts
    BY <1>4, r_KeyType
<1>8. \A k \in DOMAIN items : items[k].step = Buffer(c)!Step /\ items[k].status = "running"
    BY DEF Buffer!Tag
<1>9. DOMAIN items = marks
    OBVIOUS
<1> HIDE DEF items
<1>10. Buffer(c)!Here \in Buffer(c)!Partitions /\ Buffer(c)!Here = c.batches[r_batch].partition
    /\ Buffer(c)!Step = c.batches[r_batch].step
    BY <1>4, r_Begins
<1>11. r_Typed(c)'
    <2>1. r_session' \in
           [DOMAIN c.batches -> [c.prompts -> 
               [c.sessions -> {"idle", "running", "stored", "empty", "failed"}]]]
        BY <1>1, <1>2 DEF r_Typed
    <2>2. r_prompt' \in [DOMAIN c.batches -> [c.prompts -> {"idle", "running", "finished", "failure"}]]
        BY <1>1, <1>2 DEF r_Typed
    <2>3. DOMAIN r_buffer' = Buffer(c)!Partitions
        BY <1>5 DEF r_Puts
    <2> QED BY <1>1, <1>2, <2>1, <2>2, <2>3 DEF r_Typed
<1>12. r_Worked(c)'
    <2> SUFFICES ASSUME NEW b \in DOMAIN c.batches, NEW p \in c.prompts
                 PROVE  /\ r_prompt'[b][p] # "idle" => r_Begun(r_batch', r_pc', b)
                        /\ \A s \in c.sessions : r_session'[b][p][s] # "idle"
                             => r_Begun(r_batch', r_pc', b)
                        /\ r_prompt'[b][p] = "finished"
                             => \A s \in c.sessions : r_session'[b][p][s] \in {"stored", "empty"}
        BY DEF r_Worked
    <2>1. CASE b = r_batch
        <3>1. r_prompt'[b][p] = "running"
            BY <1>1, <1>2, <2>1 DEF r_Typed
        <3> QED BY <3>1, <2>1, <1>6
    <2>2. CASE b # r_batch
        <3>1. r_prompt'[b] = r_prompt[b] /\ r_session'[b] = r_session[b]
            BY <1>1, <1>2, <2>2 DEF r_Typed
        <3> QED BY <3>1, <1>1, <1>6 DEF r_Worked
    <2> QED BY <2>1, <2>2
<1>13. r_Stores(c)'
    <2>1. \A b \in DOMAIN c.batches : r_Begun(r_batch, r_pc, b)
        => \A p \in c.prompts : r_prompt'[b][p] = r_prompt[b][p]
        BY <1>1, <1>2, <1>6 DEF r_Typed
    <2>2. \A b \in DOMAIN c.batches : r_Begun(r_batch, r_pc, b) => r_Begun(r_batch', r_pc', b)
        BY <1>6
    <2>3. /\ r_Known(c, r_batch', r_pc', r_prompt', r_queue)
               /\ r_Known(c, r_batch', r_pc', r_prompt', r_buffer)
          /\ r_Known(c, r_batch', r_pc', r_prompt', r_listed)
        BY <1>1, <2>1, <2>2, r_KnownStays DEF r_Stores
    <2>4. ASSUME NEW k \in DOMAIN items
          PROVE  r_Good(c, r_batch', r_pc', r_prompt', Buffer(c)!Here, k, items[k])
        BY <1>6, <1>7, <1>8, <1>9, <1>10 DEF r_Good
    <2>5. r_Known(c, r_batch', r_pc', r_prompt', r_buffer')
        BY <2>3, <2>4, <1>5, <1>10, r_KnownUpdated
    <2> QED BY <2>3, <2>5, <1>2 DEF r_Stores
<1>14. r_Buffered(c)'
    <2>1. r_Grows(c, r_buffer, r_buffer')
        BY <1>5, <1>10, r_PutGrows
    <2>2. ASSUME NEW b \in DOMAIN c.batches, r_Begun(r_batch', r_pc', b), NEW p \in c.prompts
          PROVE  Buffer(c)!Prompt(b, p) \in DOMAIN r_buffer'[c.batches[b].partition]
        <3>1. CASE r_Begun(r_batch, r_pc, b)
            BY <3>1, <2>1, <1>1, r_BatchTypes DEF r_Buffered, r_Marked, r_Grows
        <3>2. CASE b = r_batch
            BY <3>2, <1>5, <1>9, <1>10 DEF r_Puts, r_Merged
        <3> QED BY <3>1, <3>2, <2>2, <1>6
    <2>3. r_Marked(c, r_batch', r_pc', r_buffer')
        BY <2>2 DEF r_Marked
    <2>4. \A k \in DOMAIN items : items[k].step = c.batches[k.batch].step
        BY <1>7, <1>8, <1>9, <1>10
    <2>5. r_Stepped(c, r_buffer')
        BY <2>4, <1>1, <1>5, <1>10, r_SteppedUpdated DEF r_Buffered
    <2> QED BY <2>3, <2>5 DEF r_Buffered
<1>15. r_Ready(c)'
    <2>1. ASSUME NEW store, r_Known(c, r_batch, r_pc, r_prompt, store),
        NEW k \in DOMAIN store[Buffer(c)!Here], k.batch = r_batch
          PROVE  FALSE
        <3>1. r_Good(c, r_batch, r_pc, r_prompt, Buffer(c)!Here, k, store[Buffer(c)!Here][k])
            BY <2>1, <1>10 DEF r_Known
        <3> QED BY <3>1, <2>1, <1>6, <1>4 DEF r_Good
    <2>2. r_Held(c, r_batch', r_pc', r_queue', r_listed')
        BY <2>1, <1>1, <1>2, <1>10 DEF r_Held, r_Stores
    <2>3. \A k \in DOMAIN r_buffer'[Buffer(c)!Here] : k \in DOMAIN r_buffer[Buffer(c)!Here]
        \/ k \in marks
        BY <1>5, <1>9 DEF r_Puts, r_Merged
    <2>4. r_Held(c, r_batch', r_pc', r_queue', r_buffer')
        BY <2>1, <2>3, <1>1, <1>2, <1>7, <1>10 DEF r_Held, r_Stores
    <2>5. \A p \in c.prompts, s \in c.sessions : r_session'[r_batch][p][s] # "stored"
        BY <1>1, <1>2 DEF r_Typed
    <2>6. /\ r_Whole(c, r_batch', r_pc', r_session', r_queue')
               /\ r_Whole(c, r_batch', r_pc', r_session', r_buffer')
          /\ r_Whole(c, r_batch', r_pc', r_session', r_listed')
               /\ r_Stored(c, r_batch', r_pc', r_session', r_queue')
        BY <2>5, <1>2 DEF r_Whole, r_Stored
    <2> QED BY <2>2, <2>4, <2>6 DEF r_Ready
<1>16. r_Taken(c)'
    BY <1>2 DEF r_Taken
<1> QED BY <1>11, <1>12, <1>13, <1>14, <1>15, <1>16 DEF r_Inv

(* What a put of a worker or of the padding leaves as it is.               *)
LEMMA r_PutQueue ==
    ASSUME NEW c, Buffer(c)!BatchesAssumption, DOMAIN r_queue = Buffer(c)!Partitions,
           NEW b \in DOMAIN c.batches, NEW items, Buffer(c)!Put(b, items)
    PROVE  /\ r_Puts(c, r_queue, c.batches[b].partition, items, r_queue')
                /\ r_Grows(c, r_queue, r_queue')
           /\ DOMAIN r_queue' = Buffer(c)!Partitions
<1> HIDE DEF Buffer!BatchesAssumption
<1>1. c.batches[b].partition \in Buffer(c)!Partitions
    BY r_BatchTypes
<1>2. r_queue' = [r_queue EXCEPT ![c.batches[b].partition] = Buffer(c)!Updated(@, items)]
    BY DEF Buffer!Put
<1>3. r_Puts(c, r_queue, c.batches[b].partition, items, r_queue')
    BY <1>1, <1>2, r_PutIs
<1> QED BY <1>1, <1>3, r_PutGrows DEF r_Puts

LEMMA r_EndSession ==
    ASSUME NEW c, Buffer(c)!BatchesAssumption, Buffer(c)!SizesAssumption, r_Inv(c),
           NEW b \in DOMAIN c.batches, NEW p \in c.prompts,
           NEW s \in c.sessions, NEW outcome \in {"stored", "empty", "failed"},
               Buffer(c)!EndSession(b, p, s, outcome)
    PROVE  r_Inv(c)'
<1> DEFINE row == Buffer(c)!Key(b, p, s)
           items == [k \in {row} |-> Buffer(c)!Tag(c.batches[b].step, "success")]
<1>1. r_Typed(c) /\ r_Worked(c) /\ r_Stores(c) /\ r_Buffered(c) /\ r_Ready(c) /\ r_Taken(c)
    BY DEF r_Inv
<1>2. /\ r_session[b][p][s] = "running"
      /\ r_session' = [r_session EXCEPT ![b][p][s] = outcome]
      /\ r_batch' = r_batch /\ r_pc' = r_pc /\ r_prompt' = r_prompt /\ r_buffer' = r_buffer
      /\ r_listed' = r_listed /\ r_sampled' = r_sampled
    BY DEF Buffer!EndSession
<1>3. IF outcome = "stored" THEN Buffer(c)!Put(b, items) ELSE r_queue' = r_queue
    BY DEF Buffer!EndSession
<1>4. r_batch \in DOMAIN c.batches /\ DOMAIN r_queue = Buffer(c)!Partitions
    BY <1>1 DEF r_Typed
<1>5. Buffer(c)!Here \in Buffer(c)!Partitions /\ Buffer(c)!Here = c.batches[r_batch].partition
    /\ Buffer(c)!Here' = Buffer(c)!Here
    BY <1>2, <1>4, r_Begins DEF Buffer!Here
<1>6. r_Begun(r_batch, r_pc, b) /\ r_prompt[b][p] # "finished"
    <2>1. r_session[b][p][s] # "idle" /\ r_session[b][p][s] \notin {"stored", "empty"}
        BY <1>2
    <2> QED BY <2>1, <1>1 DEF r_Worked
<1>7. /\ DOMAIN items = {row} /\ items[row].step = c.batches[b].step
           /\ items[row].status = "success"
      /\ row \in Buffer(c)!Keys /\ ~r_Mark(c, row) /\ row.batch = b
    BY r_KeyType DEF Buffer!Tag
<1> HIDE DEF items, row
<1>8. /\ r_Grows(c, r_queue, r_queue') /\ DOMAIN r_queue' = Buffer(c)!Partitions
      /\ outcome = "stored" => /\ r_Puts(c, r_queue, c.batches[b].partition, items, r_queue')
                               /\ row \in DOMAIN r_queue'[c.batches[b].partition]
    <2>1. CASE outcome = "stored"
        <3>1. r_Puts(c, r_queue, c.batches[b].partition, items, r_queue')
            /\ r_Grows(c, r_queue, r_queue')
              /\ DOMAIN r_queue' = Buffer(c)!Partitions
            BY <2>1, <1>3, <1>4, r_PutQueue
        <3> QED BY <3>1, <1>7 DEF r_Puts, r_Merged
    <2>2. CASE outcome # "stored"
        BY <2>2, <1>3, <1>4 DEF r_Grows
    <2> QED BY <2>1, <2>2
<1>9. r_session' \in
       [DOMAIN c.batches -> [c.prompts -> 
           [c.sessions -> {"idle", "running", "stored", "empty", "failed"}]]]
    BY <1>1, <1>2 DEF r_Typed
<1>10. \A b2 \in DOMAIN c.batches, pp \in c.prompts, ss \in c.sessions :
           r_session'[b2][pp][ss] =
               IF b2 = b /\ pp = p /\ ss = s THEN outcome ELSE r_session[b2][pp][ss]
    BY <1>1, <1>2 DEF r_Typed
<1>11. r_Typed(c)'
    BY <1>1, <1>2, <1>8, <1>9 DEF r_Typed
<1>12. r_Worked(c)'
    <2> SUFFICES ASSUME NEW b2 \in DOMAIN c.batches, NEW pp \in c.prompts
                 PROVE  /\ r_prompt'[b2][pp] # "idle" => r_Begun(r_batch', r_pc', b2)
                        /\ \A ss \in c.sessions : r_session'[b2][pp][ss] # "idle"
                             => r_Begun(r_batch', r_pc', b2)
                        /\ r_prompt'[b2][pp] = "finished" =>
                               \A ss \in c.sessions : r_session'[b2][pp][ss] \in {"stored", "empty"}
        BY DEF r_Worked
    <2>1. CASE b2 = b /\ pp = p
        BY <2>1, <1>2, <1>6
    <2>2. CASE ~(b2 = b /\ pp = p)
        <3>1. \A ss \in c.sessions : r_session'[b2][pp][ss] = r_session[b2][pp][ss]
            BY <2>2, <1>10
        <3> QED BY <3>1, <1>1, <1>2 DEF r_Worked
    <2> QED BY <2>1, <2>2
<1>13. r_Stores(c)'
    <2>1. CASE outcome = "stored"
        <3>1. \A k \in DOMAIN items : r_Good(c, r_batch, r_pc, r_prompt, c.batches[b].partition, k, items[k])
            BY <1>6, <1>7 DEF r_Good
        <3>2. r_Known(c, r_batch, r_pc, r_prompt, r_queue')
            BY <3>1, <2>1, <1>1, <1>8, r_BatchTypes, r_KnownUpdated DEF r_Stores
        <3> QED BY <3>2, <1>1, <1>2 DEF r_Stores
    <2>2. CASE outcome # "stored"
        BY <2>2, <1>1, <1>2, <1>3 DEF r_Stores
    <2> QED BY <2>1, <2>2
<1>14. r_Buffered(c)'
    BY <1>1, <1>2 DEF r_Buffered
<1>15. r_Ready(c)'
    <2>1. r_Held(c, r_batch', r_pc', r_queue', r_buffer')
        /\ r_Held(c, r_batch', r_pc', r_queue', r_listed')
        BY <1>1, <1>2, <1>5, <1>8, r_HeldGrows DEF r_Ready
    <2>2. r_Stored(c, r_batch', r_pc', r_session', r_queue')
        <3> SUFFICES ASSUME r_pc = "sample", NEW pp \in c.prompts, NEW ss \in c.sessions,
                            r_session'[r_batch][pp][ss] = "stored"
                     PROVE  Buffer(c)!Key(r_batch, pp, ss) \in DOMAIN r_queue'[Buffer(c)!Here]
            BY <1>2, <1>5 DEF r_Stored
        <3>1. CASE r_batch = b /\ pp = p /\ ss = s
            BY <3>1, <1>4, <1>5, <1>8, <1>10 DEF row
        <3>2. CASE ~(r_batch = b /\ pp = p /\ ss = s)
            <4>1. r_session[r_batch][pp][ss] = "stored"
                BY <3>2, <1>4, <1>10
            <4> QED BY <4>1, <1>1, <1>5, <1>8 DEF r_Ready, r_Stored, r_Grows
        <3> QED BY <3>1, <3>2
    <2>3. ASSUME NEW store, r_Known(c, r_batch, r_pc, r_prompt, store),
        r_Whole(c, r_batch, r_pc, r_session, store)
          PROVE  r_Whole(c, r_batch, r_pc, r_session', store)
        <3> SUFFICES ASSUME r_pc = "sample", NEW pp \in c.prompts, NEW ss \in c.sessions,
                            Buffer(c)!Prompt(r_batch, pp) \in DOMAIN store[Buffer(c)!Here],
                            store[Buffer(c)!Here][Buffer(c)!Prompt(r_batch, pp)].status = "finished",
                            r_session'[r_batch][pp][ss] = "stored"
                     PROVE  Buffer(c)!Key(r_batch, pp, ss) \in DOMAIN store[Buffer(c)!Here]
            BY <1>5 DEF r_Whole
        <3>1. r_Good(c, r_batch, r_pc, r_prompt, Buffer(c)!Here, Buffer(c)!Prompt(r_batch, pp), store[Buffer(c)!Here][Buffer(c)!Prompt(r_batch, pp)])
            BY <2>3, <1>5 DEF r_Known
        <3>2. r_prompt[r_batch][pp] = "finished"
            BY <3>1, <1>4, r_KeyType DEF r_Good
        <3>3. r_session[r_batch][pp][ss] = "stored"
            BY <3>2, <1>4, <1>6, <1>10
        <3> QED BY <3>3, <2>3, <1>5 DEF r_Whole
    <2>4. r_Whole(c, r_batch', r_pc', r_session', r_buffer')
        /\ r_Whole(c, r_batch', r_pc', r_session', r_listed')
        BY <2>3, <1>1, <1>2 DEF r_Ready, r_Stores
    <2>5. r_Whole(c, r_batch', r_pc', r_session', r_queue')
        BY <2>2 DEF r_Whole, r_Stored
    <2> QED BY <2>1, <2>2, <2>4, <2>5 DEF r_Ready
<1>16. r_Taken(c)'
    <2>1. r_pc' \in {"pad", "use"} =>
             \A k \in r_sampled' : k.batch = r_batch' => k \in DOMAIN r_queue'[Buffer(c)!Here']
        BY <1>1, <1>2, <1>5, <1>8 DEF r_Taken, r_Grows
    <2>2. ASSUME r_pc \in {"pad", "use"}
          PROVE  r_Complete(c)'
        <3> SUFFICES ASSUME NEW pp \in c.prompts
                     PROVE  /\ r_prompt[r_batch][pp] # "running"
                            /\ r_prompt[r_batch][pp] = "finished" =>
                                 \A ss \in c.sessions : r_session'[r_batch][pp][ss] = "stored"
                                     => Buffer(c)!Key(r_batch, pp, ss) \in r_sampled
            BY <1>2 DEF r_Complete
        <3>1. r_Complete(c)
            BY <2>2, <1>1 DEF r_Taken
        <3>2. CASE r_prompt[r_batch][pp] = "finished"
            <4>1. \A ss \in c.sessions : r_session'[r_batch][pp][ss] = r_session[r_batch][pp][ss]
                BY <3>2, <1>4, <1>6, <1>10
            <4> QED BY <3>1, <4>1, <3>2 DEF r_Complete
        <3> QED BY <3>1, <3>2 DEF r_Complete
    <2>3. r_pc' \in {"pad", "use", "remove"} =>
             \A k \in r_sampled' : (k.batch = r_batch' \/ r_Sharing(c, k.batch)) /\ ~r_Mark(c, k)
        BY <1>1, <1>2 DEF r_Taken
    <2> QED BY <2>1, <2>2, <2>3, <1>2 DEF r_Taken, r_Sharing
<1> QED BY <1>11, <1>12, <1>13, <1>14, <1>15, <1>16 DEF r_Inv

LEMMA r_EndPrompt ==
    ASSUME NEW c, Buffer(c)!BatchesAssumption, Buffer(c)!SizesAssumption, r_Inv(c),
           NEW b \in DOMAIN c.batches, NEW p \in c.prompts,
           NEW mark \in {"finished", "failure"}, Buffer(c)!EndPrompt(b, p, mark),
           mark = "finished" => \A s \in c.sessions : r_session[b][p][s] \in {"stored", "empty"}
    PROVE  r_Inv(c)'
<1> DEFINE key == Buffer(c)!Prompt(b, p)
           items == [k \in {key} |-> Buffer(c)!Tag(None, mark)]
<1>1. r_Typed(c) /\ r_Worked(c) /\ r_Stores(c) /\ r_Buffered(c) /\ r_Ready(c) /\ r_Taken(c)
    BY DEF r_Inv
<1>2. /\ r_prompt[b][p] = "running"
      /\ r_prompt' = [r_prompt EXCEPT ![b][p] = mark]
      /\ r_batch' = r_batch /\ r_pc' = r_pc /\ r_session' = r_session /\ r_buffer' = r_buffer
      /\ r_listed' = r_listed /\ r_sampled' = r_sampled
    BY DEF Buffer!EndPrompt
<1>3. Buffer(c)!Put(b, items)
    BY DEF Buffer!EndPrompt
<1>4. r_batch \in DOMAIN c.batches /\ DOMAIN r_queue = Buffer(c)!Partitions
    BY <1>1 DEF r_Typed
<1>5. Buffer(c)!Here \in Buffer(c)!Partitions /\ Buffer(c)!Here = c.batches[r_batch].partition
    /\ Buffer(c)!Here' = Buffer(c)!Here
    BY <1>2, <1>4, r_Begins DEF Buffer!Here
<1>6. r_Begun(r_batch, r_pc, b)
    <2>1. r_prompt[b][p] # "idle"
        BY <1>2
    <2> QED BY <2>1, <1>1 DEF r_Worked
<1>7. /\ DOMAIN items = {key} /\ items[key].step = None /\ items[key].status = mark
      /\ key \in Buffer(c)!Keys /\ r_Mark(c, key) /\ key.batch = b /\ key.prompt = p
    BY r_KeyType DEF Buffer!Tag
<1> HIDE DEF items, key
<1>8. /\ r_Puts(c, r_queue, c.batches[b].partition, items, r_queue')
           /\ r_Grows(c, r_queue, r_queue')
      /\ DOMAIN r_queue' = Buffer(c)!Partitions
    BY <1>3, <1>4, r_PutQueue
<1>9. r_prompt' \in [DOMAIN c.batches -> [c.prompts -> {"idle", "running", "finished", "failure"}]]
    BY <1>1, <1>2 DEF r_Typed
<1>10. \A b2 \in DOMAIN c.batches, pp \in c.prompts :
           r_prompt'[b2][pp] = IF b2 = b /\ pp = p THEN mark ELSE r_prompt[b2][pp]
    BY <1>1, <1>2 DEF r_Typed
<1>11. r_Typed(c)'
    BY <1>1, <1>2, <1>8, <1>9 DEF r_Typed
<1>12. r_Worked(c)'
    <2> SUFFICES ASSUME NEW b2 \in DOMAIN c.batches, NEW pp \in c.prompts
                 PROVE  /\ r_prompt'[b2][pp] # "idle" => r_Begun(r_batch', r_pc', b2)
                        /\ \A ss \in c.sessions : r_session'[b2][pp][ss] # "idle"
                             => r_Begun(r_batch', r_pc', b2)
                        /\ r_prompt'[b2][pp] = "finished" =>
                               \A ss \in c.sessions : r_session'[b2][pp][ss] \in {"stored", "empty"}
        BY DEF r_Worked
    <2>1. CASE b2 = b /\ pp = p
        BY <2>1, <1>2, <1>6, <1>10
    <2>2. CASE ~(b2 = b /\ pp = p)
        <3>1. r_prompt'[b2][pp] = r_prompt[b2][pp]
            BY <2>2, <1>10
        <3> QED BY <3>1, <1>1, <1>2 DEF r_Worked
    <2> QED BY <2>1, <2>2
<1>13. r_Stores(c)'
    <2>1. \A b2 \in DOMAIN c.batches : r_Begun(r_batch, r_pc, b2) =>
              \A pp \in c.prompts : r_prompt'[b2][pp] = r_prompt[b2][pp]
                  \/ r_prompt[b2][pp] = "running"
        BY <1>2, <1>10
    <2>2. /\ r_Known(c, r_batch, r_pc, r_prompt', r_queue)
               /\ r_Known(c, r_batch, r_pc, r_prompt', r_buffer)
          /\ r_Known(c, r_batch, r_pc, r_prompt', r_listed)
        BY <1>1, <2>1, r_KnownStays DEF r_Stores
    <2>3. \A k \in DOMAIN items : r_Good(c, r_batch, r_pc, r_prompt', c.batches[b].partition, k, items[k])
        BY <1>6, <1>7, <1>10 DEF r_Good
    <2>4. r_Known(c, r_batch, r_pc, r_prompt', r_queue')
        BY <2>2, <2>3, <1>8, r_BatchTypes, r_KnownUpdated
    <2> QED BY <2>2, <2>4, <1>2 DEF r_Stores
<1>14. r_Buffered(c)'
    BY <1>1, <1>2 DEF r_Buffered
<1>15. r_Ready(c)'
    <2>1. r_Held(c, r_batch', r_pc', r_queue', r_buffer')
        /\ r_Held(c, r_batch', r_pc', r_queue', r_listed')
        BY <1>1, <1>2, <1>5, <1>8, r_HeldGrows DEF r_Ready
    <2>2. r_Stored(c, r_batch', r_pc', r_session', r_queue')
        BY <1>1, <1>2, <1>5, <1>8 DEF r_Ready, r_Stored, r_Grows
    <2>3. r_Whole(c, r_batch', r_pc', r_session', r_buffer')
        /\ r_Whole(c, r_batch', r_pc', r_session', r_listed')
        BY <1>1, <1>2 DEF r_Ready
    <2>4. r_Whole(c, r_batch', r_pc', r_session', r_queue')
        BY <2>2 DEF r_Whole, r_Stored
    <2> QED BY <2>1, <2>2, <2>3, <2>4 DEF r_Ready
<1>16. r_Taken(c)'
    <2>1. r_pc' \in {"pad", "use"} =>
             \A k \in r_sampled' : k.batch = r_batch' => k \in DOMAIN r_queue'[Buffer(c)!Here']
        BY <1>1, <1>2, <1>5, <1>8 DEF r_Taken, r_Grows
    <2>2. ASSUME r_pc \in {"pad", "use"}
          PROVE  r_Complete(c)'
        <3>1. r_Complete(c)
            BY <2>2, <1>1 DEF r_Taken
        <3>2. ASSUME NEW pp \in c.prompts PROVE r_prompt'[r_batch][pp] = r_prompt[r_batch][pp]
            BY <3>1, <1>2, <1>4, <1>10 DEF r_Complete
        <3> QED BY <3>1, <3>2, <1>2 DEF r_Complete
    <2>3. r_pc' \in {"pad", "use", "remove"} =>
             \A k \in r_sampled' : (k.batch = r_batch' \/ r_Sharing(c, k.batch)) /\ ~r_Mark(c, k)
        BY <1>1, <1>2 DEF r_Taken
    <2> QED BY <2>1, <2>2, <2>3, <1>2 DEF r_Taken, r_Sharing
<1> QED BY <1>11, <1>12, <1>13, <1>14, <1>15, <1>16 DEF r_Inv

LEMMA r_ListQueue ==
    ASSUME NEW c, r_Inv(c), Buffer(c)!ListQueue
    PROVE  r_Inv(c)'
<1>1. r_Typed(c) /\ r_Worked(c) /\ r_Stores(c) /\ r_Buffered(c) /\ r_Ready(c) /\ r_Taken(c)
    BY DEF r_Inv
<1>2. /\ r_listed' = r_queue /\ r_batch' = r_batch /\ r_pc' = r_pc /\ r_session' = r_session
           /\ r_prompt' = r_prompt
      /\ r_queue' = r_queue /\ r_buffer' = r_buffer /\ r_sampled' = r_sampled
    BY DEF Buffer!ListQueue, Buffer!remote
<1>3. r_Typed(c)'
    BY <1>1, <1>2 DEF r_Typed
<1>4. r_Worked(c)' /\ r_Stores(c)' /\ r_Buffered(c)'
    BY <1>1, <1>2 DEF r_Worked, r_Stores, r_Buffered
<1>5. r_Ready(c)'
    <2>1. r_Held(c, r_batch, r_pc, r_queue, r_queue)
        BY DEF r_Held
    <2> QED BY <2>1, <1>1, <1>2 DEF r_Ready
<1>6. r_Taken(c)'
    BY <1>1, <1>2 DEF r_Taken, r_Sharing, r_Complete, Buffer!Here
<1> QED BY <1>3, <1>4, <1>5, <1>6 DEF r_Inv

LEMMA r_AddListed ==
    ASSUME NEW c, Buffer(c)!BatchesAssumption, Buffer(c)!SizesAssumption, r_Inv(c),
           NEW q \in Buffer(c)!Partitions, Buffer(c)!AddListed(q)
    PROVE  r_Inv(c)'
<1> DEFINE items == r_listed[q]
<1>1. r_Typed(c) /\ r_Worked(c) /\ r_Stores(c) /\ r_Buffered(c) /\ r_Ready(c) /\ r_Taken(c)
    BY DEF r_Inv
<1>2. /\ r_batch' = r_batch /\ r_pc' = r_pc /\ r_session' = r_session /\ r_prompt' = r_prompt
      /\ r_queue' = r_queue /\ r_sampled' = r_sampled
      /\ r_listed' = [r_listed EXCEPT ![q] = Buffer(c)!Empty]
      /\ r_buffer' = [r_buffer EXCEPT ![q] = Buffer(c)!Updated(@, items)]
    BY DEF Buffer!AddListed, Buffer!remote
<1>3. r_batch \in DOMAIN c.batches /\ DOMAIN r_buffer = Buffer(c)!Partitions
    /\ DOMAIN r_listed = Buffer(c)!Partitions
    BY <1>1 DEF r_Typed
<1>4. Buffer(c)!Here \in Buffer(c)!Partitions /\ Buffer(c)!Here = c.batches[r_batch].partition
    /\ Buffer(c)!Here' = Buffer(c)!Here
    BY <1>2, <1>3, r_Begins DEF Buffer!Here
<1>5. r_Clears(c, r_listed, q, r_listed')
    BY <1>2, <1>3 DEF r_Clears, Buffer!Empty
<1>6. DOMAIN r_listed'[q] = {}
    BY <1>2, <1>3 DEF Buffer!Empty
<1>7. \A k \in DOMAIN items : r_Good(c, r_batch, r_pc, r_prompt, q, k, items[k])
    BY <1>1 DEF r_Stores, r_Known
<1> HIDE DEF items
<1>8. r_Puts(c, r_buffer, q, items, r_buffer')
    BY <1>2, <1>3, r_PutIs
<1>9. r_Grows(c, r_buffer, r_buffer') /\ DOMAIN r_buffer'[q] = DOMAIN r_buffer[q] \cup DOMAIN items
    BY <1>8, r_PutGrows DEF r_Puts, r_Merged
<1>10. r_Typed(c)'
    BY <1>1, <1>2, <1>5, <1>8 DEF r_Typed, r_Clears, r_Puts
<1>11. r_Worked(c)'
    BY <1>1, <1>2 DEF r_Worked
<1>12. r_Stores(c)'
    <2>1. r_Known(c, r_batch, r_pc, r_prompt, r_buffer')
        BY <1>1, <1>7, <1>8, r_KnownUpdated DEF r_Stores
    <2>2. r_Known(c, r_batch, r_pc, r_prompt, r_listed')
        BY <1>1, <1>5, r_KnownLess DEF r_Stores
    <2> QED BY <2>1, <2>2, <1>1, <1>2 DEF r_Stores
<1>13. r_Buffered(c)'
    <2>1. r_Marked(c, r_batch', r_pc', r_buffer')
        BY <1>1, <1>2, <1>9, r_BatchTypes DEF r_Buffered, r_Marked, r_Grows
    <2>2. ASSUME NEW k \in DOMAIN items
          PROVE  \/ items[k].step = c.batches[k.batch].step
                 \/ items[k].step = None /\ k \in DOMAIN r_buffer[q]
        <3> DEFINE tag == items[k]
        <3>1. r_Good(c, r_batch, r_pc, r_prompt, q, k, tag)
            BY <1>7
        <3> HIDE DEF tag
        <3>2. CASE r_Mark(c, k)
            <4>1. k.batch \in DOMAIN c.batches /\ k.prompt \in c.prompts
                /\ k = Buffer(c)!Prompt(k.batch, k.prompt)
                BY <3>1, <3>2, r_MarksOf DEF r_Good
            <4>2. k \in DOMAIN r_buffer[q]
                BY <4>1, <3>1, <1>1 DEF r_Good, r_Buffered, r_Marked
            <4>3. tag.step = None \/ tag.step = c.batches[k.batch].step
                BY <3>1, <3>2 DEF r_Good
            <4> QED BY <4>2, <4>3 DEF tag
        <3>3. CASE ~r_Mark(c, k)
            <4>1. tag.step = c.batches[k.batch].step
                BY <3>1, <3>3 DEF r_Good
            <4> QED BY <4>1 DEF tag
        <3> QED BY <3>2, <3>3
    <2>3. r_Stepped(c, r_buffer')
        BY <2>2, <1>1, <1>8, r_SteppedUpdated DEF r_Buffered
    <2> QED BY <2>1, <2>3 DEF r_Buffered
<1>14. r_Ready(c)'
    <2>1. \A k \in DOMAIN r_listed'[Buffer(c)!Here] : k \in DOMAIN r_listed[Buffer(c)!Here]
        /\ Buffer(c)!Here # q /\ r_listed'[Buffer(c)!Here] = r_listed[Buffer(c)!Here]
        BY <1>4, <1>5, <1>6 DEF r_Clears
    <2>2. r_Held(c, r_batch', r_pc', r_queue', r_listed')
        BY <2>1, <1>1, <1>2, <1>4 DEF r_Ready, r_Held
    <2>3. r_Whole(c, r_batch', r_pc', r_session', r_listed')
        BY <2>1, <1>1, <1>2, <1>4 DEF r_Ready, r_Whole
    <2>4. CASE q = Buffer(c)!Here
        <3>1. r_Held(c, r_batch', r_pc', r_queue', r_buffer')
            BY <2>4, <1>1, <1>2, <1>4, <1>9 DEF r_Ready, r_Held, items
        <3>2. r_Whole(c, r_batch', r_pc', r_session', r_buffer')
            <4> SUFFICES ASSUME r_pc = "sample", NEW p \in c.prompts, NEW s \in c.sessions,
                                Buffer(c)!Prompt(r_batch, p) \in DOMAIN r_buffer'[q],
                                r_buffer'[q][Buffer(c)!Prompt(r_batch, p)].status = "finished",
                                r_session[r_batch][p][s] = "stored"
                         PROVE  Buffer(c)!Key(r_batch, p, s) \in DOMAIN r_buffer'[q]
                BY <2>4, <1>2, <1>4 DEF r_Whole
            <4> DEFINE mark == Buffer(c)!Prompt(r_batch, p)
                       upd == r_buffer'[q]
            <4>1. r_Merged(r_buffer[q], items, upd)
                BY <1>8 DEF r_Puts
            <4>2. mark \in DOMAIN upd /\ upd[mark].status = "finished"
                OBVIOUS
            <4> HIDE DEF mark, upd
            <4>3. CASE mark \in DOMAIN items
                <5>1. upd[mark].status = items[mark].status
                    BY <4>1, <4>3 DEF r_Merged
                <5>2. items[mark].status = "finished"
                    BY <5>1, <4>2
                <5>3. Buffer(c)!Key(r_batch, p, s) \in DOMAIN items
                    BY <5>2, <4>3, <2>4, <1>1, <1>4 DEF r_Ready, r_Whole, items, mark
                <5> QED BY <5>3, <1>9
            <4>4. CASE mark \notin DOMAIN items
                <5>1. mark \in DOMAIN r_buffer[q] /\ upd[mark] = r_buffer[q][mark]
                    BY <4>1, <4>2, <4>4 DEF r_Merged
                <5>2. r_buffer[q][mark].status = "finished"
                    BY <5>1, <4>2
                <5>3. Buffer(c)!Key(r_batch, p, s) \in DOMAIN r_buffer[q]
                    BY <5>1, <5>2, <2>4, <1>1, <1>4 DEF r_Ready, r_Whole, mark
                <5> QED BY <5>3, <1>9
            <4> QED BY <4>3, <4>4
        <3> QED BY <3>1, <3>2, <2>2, <2>3, <1>1, <1>2 DEF r_Ready
    <2>5. CASE q # Buffer(c)!Here
        <3>1. r_buffer'[Buffer(c)!Here] = r_buffer[Buffer(c)!Here]
            BY <2>5, <1>4, <1>8 DEF r_Puts
        <3>2. r_Held(c, r_batch', r_pc', r_queue', r_buffer')
            /\ r_Whole(c, r_batch', r_pc', r_session', r_buffer')
            BY <3>1, <1>1, <1>2, <1>4 DEF r_Ready, r_Held, r_Whole
        <3> QED BY <3>2, <2>2, <2>3, <1>1, <1>2 DEF r_Ready
    <2> QED BY <2>4, <2>5
<1>15. r_Taken(c)'
    BY <1>1, <1>2, <1>4 DEF r_Taken, r_Sharing, r_Complete
<1> QED BY <1>10, <1>11, <1>12, <1>13, <1>14, <1>15 DEF r_Inv

LEMMA r_Sample ==
    ASSUME NEW c, Buffer(c)!BatchesAssumption, Buffer(c)!SizesAssumption,
           r_Inv(c), Buffer(c)!Sample
    PROVE  r_Inv(c)'
<1> DEFINE entries == r_buffer[Buffer(c)!Here]
<1>1. r_Typed(c) /\ r_Worked(c) /\ r_Stores(c) /\ r_Buffered(c) /\ r_Ready(c) /\ r_Taken(c)
    BY DEF r_Inv
<1>2. /\ r_batch' = r_batch /\ r_session' = r_session /\ r_prompt' = r_prompt /\ r_queue' = r_queue
      /\ r_buffer' = r_buffer /\ r_listed' = r_listed
      /\ r_pc = "sample" /\ r_pc' \in {"pad", "use"} /\ r_sampled' = Buffer(c)!Collected(entries)
    BY DEF Buffer!Sample, Buffer!remote
<1>3. \A k \in DOMAIN entries : entries[k].step = Buffer(c)!Step => entries[k].status # "running"
    BY DEF Buffer!Sample
<1>4. r_batch \in DOMAIN c.batches
    BY <1>1 DEF r_Typed
<1>5. Buffer(c)!Here \in Buffer(c)!Partitions /\ Buffer(c)!Here = c.batches[r_batch].partition
    /\ Buffer(c)!Here' = Buffer(c)!Here /\ Buffer(c)!Step = c.batches[r_batch].step
    BY <1>2, <1>4, r_Begins DEF Buffer!Here
<1>6. r_sampled' =
          {k \in DOMAIN entries : entries[k].step = Buffer(c)!Step /\ entries[k].status = "success"}
    BY <1>2 DEF Buffer!Collected
<1>7. \A k \in DOMAIN entries : r_Good(c, r_batch, r_pc, r_prompt, Buffer(c)!Here, k, entries[k])
    /\ entries[k].step = c.batches[k.batch].step
    BY <1>1, <1>5 DEF r_Stores, r_Known, r_Buffered, r_Stepped
<1>8. \A b \in DOMAIN c.batches : r_Begun(r_batch, r_pc, b) <=> r_Begun(r_batch', r_pc', b)
    BY <1>2 DEF r_Begun
<1>9. ASSUME NEW k \in r_sampled'
      PROVE  /\ k \in Buffer(c)!Keys /\ (k.batch = r_batch \/ r_Sharing(c, k.batch)) /\ ~r_Mark(c, k)
             /\ k.batch = r_batch => k \in DOMAIN r_queue[Buffer(c)!Here]
    <2> DEFINE tag == entries[k]
    <2>1. k \in DOMAIN entries /\ tag.step = Buffer(c)!Step /\ tag.status = "success"
        BY <1>6
    <2>2. r_Good(c, r_batch, r_pc, r_prompt, Buffer(c)!Here, k, tag)
        /\ tag.step = c.batches[k.batch].step
        BY <2>1, <1>7
    <2> HIDE DEF tag
    <2>3. k \in Buffer(c)!Keys /\ k.batch \in DOMAIN c.batches
        /\ c.batches[k.batch].partition = Buffer(c)!Here /\ ~r_Mark(c, k)
        BY <2>1, <2>2 DEF r_Good, Buffer!Keys
    <2>4. k.batch = r_batch \/ r_Sharing(c, k.batch)
        <3>1. k.batch = r_batch \/ k.batch < r_batch
            BY <2>2 DEF r_Good, r_Begun
        <3> QED BY <2>1, <2>2, <2>3, <3>1, <1>4, <1>5 DEF r_Sharing
    <2>5. k.batch = r_batch => k \in DOMAIN r_queue[Buffer(c)!Here]
        BY <2>1, <2>3, <1>1, <1>2, <1>5 DEF r_Ready, r_Held
    <2> QED BY <2>3, <2>4, <2>5
<1>10. ASSUME NEW p \in c.prompts
       PROVE  /\ r_prompt[r_batch][p] # "running"
              /\ r_prompt[r_batch][p] = "finished" =>
                     \A s \in c.sessions : r_session[r_batch][p][s] = "stored"
                         => Buffer(c)!Key(r_batch, p, s) \in r_sampled'
    <2> DEFINE mark == Buffer(c)!Prompt(r_batch, p)
               tag == entries[mark]
    <2>1. mark \in DOMAIN entries
        BY <1>1, <1>2, <1>4, <1>5, <1>8, r_Begins DEF r_Buffered, r_Marked
    <2>2. r_Mark(c, mark) /\ mark.batch = r_batch /\ mark.prompt = p
        BY <1>4, r_KeyType
    <2>3. r_Good(c, r_batch, r_pc, r_prompt, Buffer(c)!Here, mark, tag)
        /\ tag.step = c.batches[mark.batch].step
        BY <2>1, <1>7
    <2>4. tag.status # "running"
        BY <2>1, <2>2, <2>3, <1>3, <1>5
    <2>5. /\ tag.status \in {"running", "finished", "failure"} /\ tag.status = r_prompt[r_batch][p]
        <3> HIDE DEF mark, tag
        <3> QED BY <2>2, <2>3, <2>4 DEF r_Good
    <2>6. ASSUME tag.status = "finished", NEW s \in c.sessions, r_session[r_batch][p][s] = "stored"
          PROVE  Buffer(c)!Key(r_batch, p, s) \in r_sampled'
        <3> DEFINE row == Buffer(c)!Key(r_batch, p, s)
                   entry == entries[row]
        <3>1. row \in DOMAIN entries
            BY <2>1, <2>6, <1>1, <1>2, <1>5 DEF r_Ready, r_Whole
        <3>2. r_Good(c, r_batch, r_pc, r_prompt, Buffer(c)!Here, row, entry) /\ ~r_Mark(c, row)
            /\ row.batch = r_batch
            BY <3>1, <1>4, <1>7, r_KeyType
        <3> HIDE DEF row, entry
        <3>3. entry.status = "success" /\ entry.step = Buffer(c)!Step
            BY <3>2, <1>5 DEF r_Good
        <3> QED BY <3>1, <3>3, <1>6 DEF row, entry
    <2> HIDE DEF mark, tag
    <2> QED BY <2>4, <2>5, <2>6
<1> HIDE DEF entries
<1>11. r_Typed(c)'
    BY <1>1, <1>2, <1>9 DEF r_Typed
<1>12. r_Worked(c)'
    BY <1>1, <1>2, <1>8 DEF r_Worked
<1>13. r_Stores(c)'
    BY <1>1, <1>2, <1>8, r_KnownStays DEF r_Stores
<1>14. r_Buffered(c)'
    BY <1>1, <1>2, <1>8 DEF r_Buffered, r_Marked
<1>15. r_Ready(c)'
    BY <1>1, <1>2 DEF r_Ready, r_Held, r_Whole, r_Stored
<1>16. r_Taken(c)'
    <2>1. r_Complete(c)'
        BY <1>2, <1>10 DEF r_Complete
    <2> QED BY <2>1, <1>2, <1>5, <1>9 DEF r_Taken, r_Sharing
<1> QED BY <1>11, <1>12, <1>13, <1>14, <1>15, <1>16 DEF r_Inv

LEMMA r_Pad ==
    ASSUME NEW c, Buffer(c)!BatchesAssumption, Buffer(c)!SizesAssumption, r_Inv(c), Buffer(c)!Pad
    PROVE  r_Inv(c)'
<1> DEFINE missing == (c.multiple - (Buffer(c)!Cardinality(r_sampled) % c.multiple)) % c.multiple
           padding == {Buffer(c)!Padding(r_batch, i) : i \in 1 .. missing}
           items == [k \in padding |-> Buffer(c)!Tag(Buffer(c)!Step, "success")]
<1>1. r_Typed(c) /\ r_Worked(c) /\ r_Stores(c) /\ r_Buffered(c) /\ r_Ready(c) /\ r_Taken(c)
    BY DEF r_Inv
<1>2. /\ r_batch' = r_batch /\ r_session' = r_session /\ r_prompt' = r_prompt
      /\ r_buffer' = r_buffer /\ r_listed' = r_listed /\ r_pc = "pad" /\ r_pc' = "use"
    BY DEF Buffer!Pad, Buffer!remote
<1>3. r_sampled' = r_sampled \cup padding /\ Buffer(c)!Put(r_batch, items)
    BY DEF Buffer!Pad
<1>4. r_batch \in DOMAIN c.batches /\ DOMAIN r_queue = Buffer(c)!Partitions
    /\ r_sampled \subseteq Buffer(c)!Keys
    BY <1>1 DEF r_Typed
<1>5. /\ Buffer(c)!Here \in Buffer(c)!Partitions /\ Buffer(c)!Here = c.batches[r_batch].partition
           /\ Buffer(c)!Here' = Buffer(c)!Here /\ Buffer(c)!Step = c.batches[r_batch].step
      /\ r_Begun(r_batch, r_pc, r_batch)
    BY <1>2, <1>4, r_Begins DEF Buffer!Here
<1>6. \A k \in padding : k \in Buffer(c)!Keys /\ k.batch = r_batch /\ ~r_Mark(c, k)
    <2>1. Buffer(c)!Cardinality(r_sampled) \in Nat
        BY <1>4, r_FiniteSets, r_KeysAreFinite, FS_Subset, FS_CardinalityType
    <2>2. 1 .. missing \subseteq 1 .. c.multiple
        <3> DEFINE n == Buffer(c)!Cardinality(r_sampled)
        <3>1. n \in Nat /\ c.multiple \in Nat \ {0}
            BY <2>1 DEF Buffer!SizesAssumption
        <3> HIDE DEF n
        <3>2. n % c.multiple \in 0 .. c.multiple - 1
            BY <3>1, SMT
        <3>3. (c.multiple - (n % c.multiple)) % c.multiple \in 0 .. c.multiple - 1
            BY <3>1, <3>2, SMT
        <3>4. missing \in 0 .. c.multiple - 1
            BY <3>3 DEF n
        <3> HIDE DEF missing
        <3> QED BY <3>1, <3>4, SMT
    <2> HIDE DEF missing
    <2> QED BY <2>2, <1>4, r_KeyType
<1>7. /\ DOMAIN items = padding
      /\ \A k \in padding : items[k].step = Buffer(c)!Step /\ items[k].status = "success"
    BY DEF Buffer!Tag
<1> HIDE DEF items, padding
<1>8. /\ r_Puts(c, r_queue, Buffer(c)!Here, items, r_queue') /\ r_Grows(c, r_queue, r_queue')
           /\ DOMAIN r_queue' = Buffer(c)!Partitions
    BY <1>3, <1>4, <1>5, r_PutQueue
<1>9. \A b \in DOMAIN c.batches : r_Begun(r_batch, r_pc, b) <=> r_Begun(r_batch', r_pc', b)
    BY <1>2 DEF r_Begun
<1>10. r_Typed(c)'
    BY <1>1, <1>2, <1>3, <1>6, <1>8 DEF r_Typed
<1>11. r_Worked(c)'
    BY <1>1, <1>2, <1>9 DEF r_Worked
<1>12. r_Stores(c)'
    <2>1. /\ r_Known(c, r_batch', r_pc', r_prompt', r_queue)
               /\ r_Known(c, r_batch', r_pc', r_prompt', r_buffer)
          /\ r_Known(c, r_batch', r_pc', r_prompt', r_listed)
        BY <1>1, <1>2, <1>9, r_KnownStays DEF r_Stores
    <2>2. ASSUME NEW k \in DOMAIN items
          PROVE  r_Good(c, r_batch', r_pc', r_prompt', Buffer(c)!Here, k, items[k])
        BY <1>2, <1>4, <1>5, <1>6, <1>7, <1>9 DEF r_Good
    <2>3. r_Known(c, r_batch', r_pc', r_prompt', r_queue')
        BY <2>1, <2>2, <1>5, <1>8, r_KnownUpdated
    <2> QED BY <2>1, <2>3, <1>2 DEF r_Stores
<1>13. r_Buffered(c)'
    BY <1>1, <1>2, <1>9 DEF r_Buffered, r_Marked
<1>14. r_Ready(c)'
    <2>1. r_Held(c, r_batch', r_pc', r_queue, r_buffer')
        /\ r_Held(c, r_batch', r_pc', r_queue, r_listed')
        BY <1>1, <1>2 DEF r_Ready, r_Held
    <2>2. r_Held(c, r_batch', r_pc', r_queue', r_buffer')
        /\ r_Held(c, r_batch', r_pc', r_queue', r_listed')
        BY <2>1, <1>2, <1>5, <1>8, r_HeldGrows
    <2>3. r_pc' # "sample"
        BY <1>2
    <2> QED BY <2>2, <2>3 DEF r_Ready, r_Whole, r_Stored
<1>15. r_Taken(c)'
    <2>1. \A k \in r_sampled' : (k.batch = r_batch' \/ r_Sharing(c, k.batch)) /\ ~r_Mark(c, k)
        BY <1>1, <1>2, <1>3, <1>6 DEF r_Taken
    <2>2. padding \subseteq DOMAIN r_queue'[Buffer(c)!Here]
        BY <1>7, <1>8 DEF r_Puts, r_Merged
    <2>3. \A k \in r_sampled' : k.batch = r_batch' => k \in DOMAIN r_queue'[Buffer(c)!Here']
        BY <2>2, <1>1, <1>2, <1>3, <1>5, <1>8 DEF r_Taken, r_Grows
    <2>4. r_Complete(c)'
        BY <1>1, <1>2, <1>3 DEF r_Taken, r_Complete
    <2> QED BY <1>2, <2>1, <2>3, <2>4 DEF r_Taken, r_Sharing
<1> QED BY <1>10, <1>11, <1>12, <1>13, <1>14, <1>15 DEF r_Inv

LEMMA r_ClearQueue ==
    ASSUME NEW c, Buffer(c)!BatchesAssumption, Buffer(c)!SizesAssumption, r_Inv(c),
           Buffer(c)!ClearQueue
    PROVE  r_Inv(c)'
<1>1. r_Typed(c) /\ r_Worked(c) /\ r_Stores(c) /\ r_Buffered(c) /\ r_Ready(c) /\ r_Taken(c)
    BY DEF r_Inv
<1>2. /\ r_batch' = r_batch /\ r_session' = r_session /\ r_prompt' = r_prompt
           /\ r_sampled' = r_sampled
      /\ r_buffer' = r_buffer /\ r_listed' = r_listed /\ r_pc = "use" /\ r_pc' = "remove"
      /\ r_queue' = [r_queue EXCEPT ![Buffer(c)!Here] = Buffer(c)!Without(@, r_sampled)]
    BY DEF Buffer!ClearQueue, Buffer!remote
<1>3. r_batch \in DOMAIN c.batches /\ DOMAIN r_queue = Buffer(c)!Partitions
    BY <1>1 DEF r_Typed
<1>4. Buffer(c)!Here \in Buffer(c)!Partitions
    BY <1>3, r_Begins
<1>5. r_Clears(c, r_queue, Buffer(c)!Here, r_queue')
    BY <1>2, <1>3, <1>4, r_WithoutIs
<1>6. \A b \in DOMAIN c.batches : r_Begun(r_batch, r_pc, b) <=> r_Begun(r_batch', r_pc', b)
    BY <1>2 DEF r_Begun
<1>7. r_Typed(c)'
    BY <1>1, <1>2, <1>5 DEF r_Typed, r_Clears
<1>8. r_Worked(c)'
    BY <1>1, <1>2, <1>6 DEF r_Worked
<1>9. r_Stores(c)'
    <2>1. r_Known(c, r_batch, r_pc, r_prompt, r_queue')
        BY <1>1, <1>4, <1>5, r_KnownLess DEF r_Stores
    <2>2. /\ r_Known(c, r_batch', r_pc', r_prompt', r_queue')
               /\ r_Known(c, r_batch', r_pc', r_prompt', r_buffer)
          /\ r_Known(c, r_batch', r_pc', r_prompt', r_listed)
        BY <2>1, <1>1, <1>2, <1>6, r_KnownStays DEF r_Stores
    <2> QED BY <2>2, <1>2 DEF r_Stores
<1>10. r_Buffered(c)'
    BY <1>1, <1>2, <1>6 DEF r_Buffered, r_Marked
<1>11. r_Ready(c)'
    BY <1>2 DEF r_Ready, r_Held, r_Whole, r_Stored
<1>12. r_Taken(c)'
    BY <1>1, <1>2 DEF r_Taken, r_Sharing
<1> QED BY <1>7, <1>8, <1>9, <1>10, <1>11, <1>12 DEF r_Inv

LEMMA r_Remove ==
    ASSUME NEW c, Buffer(c)!BatchesAssumption, Buffer(c)!SizesAssumption, r_Inv(c), Buffer(c)!Remove
    PROVE  r_Inv(c)'
<1>1. r_Typed(c) /\ r_Worked(c) /\ r_Stores(c) /\ r_Buffered(c) /\ r_Ready(c) /\ r_Taken(c)
    BY DEF r_Inv
<1>2. /\ r_session' = r_session /\ r_prompt' = r_prompt /\ r_queue' = r_queue
           /\ r_listed' = r_listed
      /\ r_pc = "remove" /\ Buffer(c)!NextBatch /\ r_sampled' = {}
      /\ r_buffer' = [r_buffer EXCEPT ![Buffer(c)!Here] = Buffer(c)!Without(@, r_sampled)]
    BY DEF Buffer!Remove, Buffer!remote
<1>3. r_batch \in DOMAIN c.batches /\ DOMAIN r_buffer = Buffer(c)!Partitions
    BY <1>1 DEF r_Typed
<1>4. Buffer(c)!Here \in Buffer(c)!Partitions /\ Buffer(c)!Here = c.batches[r_batch].partition
    BY <1>3, r_Begins
<1>5. r_Clears(c, r_buffer, Buffer(c)!Here, r_buffer')
    /\ DOMAIN r_buffer'[Buffer(c)!Here] = DOMAIN r_buffer[Buffer(c)!Here] \ r_sampled
    <2>1. r_Clears(c, r_buffer, Buffer(c)!Here, r_buffer')
        BY <1>2, <1>3, <1>4, r_WithoutIs
    <2>2. r_buffer'[Buffer(c)!Here] = Buffer(c)!Without(r_buffer[Buffer(c)!Here], r_sampled)
        BY <1>2, <1>3, <1>4
    <2>3. DOMAIN r_buffer'[Buffer(c)!Here] = DOMAIN r_buffer[Buffer(c)!Here] \ r_sampled
        BY <2>2 DEF Buffer!Without
    <2> QED BY <2>1, <2>3
<1>6. /\ r_batch' \in DOMAIN c.batches /\ r_pc' \in {"dispatch", "done"}
      /\ \A b \in DOMAIN c.batches : r_Begun(r_batch, r_pc, b) <=> r_Begun(r_batch', r_pc', b)
    <2>1. CASE r_batch = Len(c.batches)
        <3>1. r_pc' = "done" /\ r_batch' = r_batch
            BY <2>1, <1>2 DEF Buffer!NextBatch
        <3> QED BY <3>1, <1>2, <1>3 DEF r_Begun
    <2>2. CASE r_batch # Len(c.batches)
        <3>1. r_pc' = "dispatch" /\ r_batch' = r_batch + 1
            BY <2>2, <1>2 DEF Buffer!NextBatch
        <3>2. \A b \in DOMAIN c.batches : b \in Int
            BY r_BatchTypes
        <3> QED BY <3>1, <3>2, <2>2, <1>2, <1>3, r_BatchTypes, SMT DEF r_Begun
    <2> QED BY <2>1, <2>2
<1>7. r_Typed(c)'
    BY <1>1, <1>2, <1>5, <1>6 DEF r_Typed, r_Clears
<1>8. r_Worked(c)'
    BY <1>1, <1>2, <1>6 DEF r_Worked
<1>9. r_Stores(c)'
    <2>1. r_Known(c, r_batch, r_pc, r_prompt, r_buffer')
        BY <1>1, <1>4, <1>5, r_KnownLess DEF r_Stores
    <2>2. /\ r_Known(c, r_batch', r_pc', r_prompt', r_queue)
               /\ r_Known(c, r_batch', r_pc', r_prompt', r_buffer')
          /\ r_Known(c, r_batch', r_pc', r_prompt', r_listed)
        BY <2>1, <1>1, <1>2, <1>6, r_KnownStays DEF r_Stores
    <2> QED BY <2>2, <1>2 DEF r_Stores
<1>10. r_Buffered(c)'
    <2>1. ASSUME NEW b \in DOMAIN c.batches, r_Begun(r_batch', r_pc', b), NEW p \in c.prompts
          PROVE  Buffer(c)!Prompt(b, p) \in DOMAIN r_buffer'[c.batches[b].partition]
        <3>1. Buffer(c)!Prompt(b, p) \in DOMAIN r_buffer[c.batches[b].partition]
            BY <2>1, <1>1, <1>6 DEF r_Buffered, r_Marked
        <3>2. Buffer(c)!Prompt(b, p) \notin r_sampled
            BY <1>1, <1>2, r_KeyType DEF r_Taken
        <3> QED BY <3>1, <3>2, <1>5, r_BatchTypes DEF r_Clears
    <2>2. r_Marked(c, r_batch', r_pc', r_buffer')
        BY <2>1 DEF r_Marked
    <2>3. r_Stepped(c, r_buffer')
        <3> SUFFICES ASSUME NEW q \in Buffer(c)!Partitions, NEW k \in DOMAIN r_buffer'[q]
                     PROVE  r_buffer'[q][k].step = c.batches[k.batch].step
            BY DEF r_Stepped
        <3>1. k \in DOMAIN r_buffer[q] /\ r_buffer'[q][k] = r_buffer[q][k]
            BY <1>5 DEF r_Clears
        <3> QED BY <3>1, <1>1 DEF r_Buffered, r_Stepped
    <2> QED BY <2>2, <2>3 DEF r_Buffered
<1>11. r_Ready(c)'
    BY <1>6 DEF r_Ready, r_Held, r_Whole, r_Stored
<1>12. r_Taken(c)'
    BY <1>6 DEF r_Taken
<1> QED BY <1>7, <1>8, <1>9, <1>10, <1>11, <1>12 DEF r_Inv

-----------------------------------------------------------------------------
LEMMA r_InitInv ==
    ASSUME NEW c, Buffer(c)!BatchesAssumption, Buffer(c)!Init
    PROVE  r_Inv(c)
<1>1. /\ r_batch = 1 /\ r_pc = "dispatch" /\ r_sampled = {}
      /\ r_session = [b \in DOMAIN c.batches |-> [p \in c.prompts |-> [s \in c.sessions |-> "idle"]]]
      /\ r_prompt = [b \in DOMAIN c.batches |-> [p \in c.prompts |-> "idle"]]
      /\ r_queue = [q \in Buffer(c)!Partitions |-> Buffer(c)!Empty] /\ r_buffer = r_queue
           /\ r_listed = r_queue
    BY DEF Buffer!Init
<1>2. r_batch \in DOMAIN c.batches
    BY <1>1, r_BatchTypes, SMT
<1>3. \A q \in Buffer(c)!Partitions : DOMAIN r_queue[q] = {}
    BY <1>1 DEF Buffer!Empty
<1>4. \A b \in DOMAIN c.batches : ~r_Begun(r_batch, r_pc, b)
    BY <1>1, r_BatchTypes, SMT DEF r_Begun
<1>5. r_Typed(c)
    BY <1>1, <1>2 DEF r_Typed
<1>6. r_Worked(c)
    BY <1>1 DEF r_Worked
<1>7. r_Stores(c)
    BY <1>1, <1>3 DEF r_Stores, r_Known
<1>8. r_Buffered(c)
    BY <1>1, <1>3, <1>4 DEF r_Buffered, r_Marked, r_Stepped
<1>9. r_Ready(c) /\ r_Taken(c)
    BY <1>1 DEF r_Ready, r_Held, r_Whole, r_Stored, r_Taken
<1> QED BY <1>5, <1>6, <1>7, <1>8, <1>9 DEF r_Inv

LEMMA r_NextInv ==
    ASSUME NEW c, Buffer(c)!BatchesAssumption, Buffer(c)!SizesAssumption,
           r_Inv(c), [Buffer(c)!Next]_(Buffer(c)!vars)
    PROVE  r_Inv(c)'
<1>1. CASE Buffer(c)!Trainer
    BY <1>1, r_GenerateSequences, r_Sample, r_Pad, r_ClearQueue, r_Remove DEF Buffer!Trainer
<1>2. CASE Buffer(c)!Poller
    BY <1>2, r_ListQueue, r_AddListed DEF Buffer!Poller
<1>3. ASSUME NEW b \in DOMAIN c.batches, NEW p \in c.prompts, Buffer(c)!Work(b, p)
      PROVE  r_Inv(c)'
    <2>1. CASE Buffer(c)!FinishPrompt(b, p)
        BY <2>1, r_EndPrompt DEF Buffer!FinishPrompt
    <2>2. CASE Buffer(c)!FailPrompt(b, p)
        BY <2>2, r_EndPrompt DEF Buffer!FailPrompt
    <2>3. ASSUME NEW s \in c.sessions, NEW outcome \in {"stored", "empty", "failed"},
        Buffer(c)!EndSession(b, p, s, outcome)
          PROVE  r_Inv(c)'
        BY <2>3, r_EndSession
    <2> QED BY <1>3, <2>1, <2>2, <2>3 DEF Buffer!Work
<1>4. CASE UNCHANGED Buffer(c)!vars
    <2>1. /\ r_batch' = r_batch /\ r_pc' = r_pc /\ r_session' = r_session /\ r_prompt' = r_prompt
               /\ r_queue' = r_queue
          /\ r_buffer' = r_buffer /\ r_listed' = r_listed /\ r_sampled' = r_sampled
        BY <1>4 DEF Buffer!vars, Buffer!remote
    <2> QED BY <2>1 DEF r_Inv, r_Typed, r_Worked, r_Stores, r_Buffered, r_Ready, r_Taken,
        r_Sharing, r_Complete, Buffer!Here
<1> QED BY <1>1, <1>2, <1>3, <1>4 DEF Buffer!Next

(* What the runs check of the replay buffer.                               *)
LEMMA r_TypeOK ==
    ASSUME NEW c, Buffer(c)!BatchesAssumption, Buffer(c)!SizesAssumption, r_Inv(c)
    PROVE  Buffer(c)!TypeOK
<1>1. r_Typed(c) /\ r_Stores(c)
    BY DEF r_Inv
<1>2. ASSUME NEW store \in {r_queue, r_buffer, r_listed}, NEW q \in Buffer(c)!Partitions,
    NEW k \in DOMAIN store[q]
      PROVE  /\ k \in Buffer(c)!Keys /\ store[q][k].step \in Nat \cup {None}
             /\ store[q][k].status \in {"running", "success", "finished", "failure"}
    <2> DEFINE tag == store[q][k]
    <2>1. r_Known(c, r_batch, r_pc, r_prompt, store)
        BY <1>1 DEF r_Stores
    <2>2. r_Good(c, r_batch, r_pc, r_prompt, q, k, tag)
        BY <2>1 DEF r_Known
    <2> HIDE DEF tag
    <2>3. k \in Buffer(c)!Keys /\ k.batch \in DOMAIN c.batches
        BY <2>2 DEF r_Good, Buffer!Keys
    <2>4. tag.step \in Nat \cup {None}
        /\ tag.status \in {"running", "success", "finished", "failure"}
        BY <2>2, <2>3, r_BatchTypes DEF r_Good
    <2> QED BY <2>3, <2>4 DEF tag
<1>3. \A store \in {r_queue, r_buffer, r_listed}, q \in Buffer(c)!Partitions :
           /\ DOMAIN store[q] \subseteq Buffer(c)!Keys
           /\ \A k \in DOMAIN store[q] :
                 /\ store[q][k].step \in Nat \cup {None}
                 /\ store[q][k].status \in {"running", "success", "finished", "failure"}
    BY <1>2
<1>4. /\ r_batch \in DOMAIN c.batches
           /\ r_pc \in {"dispatch", "sample", "pad", "use", "remove", "done"}
      /\ r_sampled \subseteq Buffer(c)!Keys /\ (r_pc \in {"dispatch", "sample", "done"}
           => r_sampled = {})
    BY <1>1 DEF r_Typed
<1> QED BY <1>3, <1>4 DEF Buffer!TypeOK

LEMMA r_Sampled ==
    ASSUME NEW c, Buffer(c)!BatchesAssumption, Buffer(c)!SizesAssumption, r_Inv(c)
    PROVE  Buffer(c)!SampleIsTheBatch /\ Buffer(c)!SampleIsComplete
           /\ Buffer(c)!EntriesHaveTheirStep
<1>1. Buffer(c)!SampleIsTheBatch
    BY Zenon DEF r_Inv, r_Taken, r_Sharing, Buffer!SampleIsTheBatch, Buffer!Here, Buffer!Step
<1>2. Buffer(c)!SampleIsComplete
    BY DEF r_Inv, r_Taken, r_Complete, Buffer!SampleIsComplete
<1>3. Buffer(c)!EntriesHaveTheirStep
    <2> SUFFICES ASSUME NEW q \in Buffer(c)!Partitions, NEW k \in DOMAIN r_buffer[q]
                 PROVE  r_buffer[q][k].step # None
        BY DEF Buffer!EntriesHaveTheirStep
    <2>1. r_buffer[q][k].step = c.batches[k.batch].step
        BY DEF r_Inv, r_Buffered, r_Stepped
    <2>2. k.batch \in DOMAIN c.batches
        BY DEF r_Inv, r_Stores, r_Known, r_Good, Buffer!Keys
    <2> QED BY <2>1, <2>2, r_BatchTypes DEF Buffer!SizesAssumption
<1> QED BY <1>1, <1>2, <1>3

(* A replay buffer with any settings, batches that share a step included:  *)
(* types, and every batch is sampled whole, with nothing but rows of its   *)
(* partition and step, from entries that have their step.                  *)
THEOREM ReplayBufferSamplesWhole ==
    ASSUME NEW CONSTANT c, Buffer(c)!BatchesAssumption, Buffer(c)!SizesAssumption
    PROVE  Buffer(c)!Spec =>
               [](/\ Buffer(c)!TypeOK /\ Buffer(c)!SampleIsTheBatch
                  /\ Buffer(c)!SampleIsComplete /\ Buffer(c)!EntriesHaveTheirStep)
<1>1. Buffer(c)!Init => r_Inv(c)
    BY r_InitInv
<1>2. r_Inv(c) /\ [Buffer(c)!Next]_(Buffer(c)!vars) => r_Inv(c)'
    BY r_NextInv
<1>3. r_Inv(c) => /\ Buffer(c)!TypeOK /\ Buffer(c)!SampleIsTheBatch
                  /\ Buffer(c)!SampleIsComplete /\ Buffer(c)!EntriesHaveTheirStep
    BY r_TypeOK, r_Sampled
<1> QED BY <1>1, <1>2, <1>3, PTL DEF Buffer!Spec

-----------------------------------------------------------------------------
(* Both ways together                                                      *)

LEMMA SettingsAreGood ==
    ASSUME NEW c \in {validated, trained, revalidated}
    PROVE  Buffer(c)!BatchesAssumption /\ Buffer(c)!SizesAssumption
BY InstancesAssumption

(* The replay buffer keeps its invariant, whichever model runs.            *)
BufferInv ==
    IF model = "trained" THEN r_Inv(trained)
    ELSE IF model = "revalidated" THEN r_Inv(revalidated) ELSE r_Inv(validated)

LEMMA BufferInvInit == InitOfAll => BufferInv
BY SettingsAreGood, r_InitInv DEF InitOfAll, BufferInv

LEMMA BufferInvNext == BufferInv /\ [NextOfOne]_allVars => BufferInv'
<1> SUFFICES ASSUME BufferInv, [NextOfOne]_allVars PROVE BufferInv'
    OBVIOUS
<1>1. model' = model
    BY DEF NextOfOne, allVars
<1>2. ASSUME NEW c \in {validated, trained, revalidated}, r_Inv(c), [Buffer(c)!Next]_(Buffer(c)!vars)
      PROVE  r_Inv(c)'
    BY <1>2, SettingsAreGood, r_NextInv
<1>3. ASSUME UNCHANGED bufferVars, NEW c
      PROVE  UNCHANGED Buffer(c)!vars
    BY <1>3 DEF bufferVars, Buffer!vars, Buffer!remote
<1>4. CASE model = "trained"
    <2>1. [Buffer(trained)!Next]_(Buffer(trained)!vars)
        BY <1>3, <1>4 DEF NextOfOne, allVars
    <2> QED BY <2>1, <1>1, <1>2, <1>4 DEF BufferInv
<1>5. CASE model = "revalidated"
    <2>1. [Buffer(revalidated)!Next]_(Buffer(revalidated)!vars)
        BY <1>3, <1>5 DEF NextOfOne, allVars
    <2> QED BY <2>1, <1>1, <1>2, <1>5 DEF BufferInv
<1>6. CASE model \notin {"trained", "revalidated"}
    <2>1. [Buffer(validated)!Next]_(Buffer(validated)!vars)
        BY <1>3, <1>6 DEF NextOfOne, allVars
    <2> QED BY <2>1, <1>1, <1>2, <1>6 DEF BufferInv
<1> QED BY <1>4, <1>5, <1>6

(* Whichever model runs, the pipeline takes steps of its own only.         *)
LEMMA PipelineStep == [NextOfOne]_allVars => [Next]_vars
BY DEF NextOfOne, allVars

(* A batch is sampled whole: its rows are in the queue although the polling*)
(* thread may bring back what was cleared, every other row is of an earlier*)
(* batch with the same partition and step, no row of a finished prompt is  *)
(* missed, and no entry lacks the step that sample() reads                 *)
(* (main_ppo_sync.py: sample, _run_prompt, _poll_from_transfer_queue).     *)
THEOREM EveryBatchIsSampledWhole == SpecOfAll => []SamplesAreOfTheBatch
<1>1. BufferInv => SamplesAreOfTheBatch
    BY SettingsAreGood, r_Sampled
    DEF BufferInv, SamplesAreOfTheBatch, SampledWhole
<1> QED BY <1>1, BufferInvInit, BufferInvNext, PTL DEF SpecOfAll

(* Types of both: the pipeline's queue and tasks stay within their limits, *)
(* and the trainer holds keys of the replay buffer only between sampling   *)
(* and removing.                                                           *)
THEOREM BothTypeCorrect == SpecOfAll => []TypesOK
<1>1. BufferInv /\ TypeOK => TypesOK
    BY SettingsAreGood, r_TypeOK DEF BufferInv, TypesOK
<1>2. InitOfAll => Init
    BY DEF InitOfAll
<1>3. IInv => TypeOK
    BY DEF IInv, TypeInv
<1> QED
    BY <1>1, <1>2, <1>3, BufferInvInit, BufferInvNext, PipelineStep, IInvInit, IInvNext, PTL DEF SpecOfAll
=============================================================================
