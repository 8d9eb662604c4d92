----------------------------- MODULE RateLimiter -----------------------------
(***************************************************************************)
(* The rate-limited reward manager                                         *)
(* (verl/experimental/reward_loop/reward_manager/limited.py): every reward *)
(* request takes tokens from one AsyncTokenBucket after another (requests  *)
(* per minute, then tokens per minute), waits for the semaphore and calls  *)
(* the API under a timeout.  Each reward loop worker is a process of its   *)
(* own (RewardLoopManager creates Ray actors), and so has its own buckets  *)
(* and its own semaphore.                                                  *)
(*                                                                         *)
(* Time passes in ticks; a bucket is given Rate tokens per tick.  The code *)
(* reads the clock inside acquire; here every bucket carries the time that *)
(* passed since its last update, and a sleeper the ticks it has left.      *)
(* Operators introduced by "Slip:" are mistakes the properties notice.     *)
(***************************************************************************)
EXTENDS Integers, Sequences, FiniteSets

CONSTANTS
    Workers, Requests,
    Home,           \* the worker that serves a request
    Layers,         \* sequence of the buckets that are configured
    Rate,           \* tokens per tick of a bucket
    Second,         \* ticks per second: a bucket holds one second's tokens
    Costs,          \* amounts a request may take from a bucket
    MaxConcurrent,  \* reward.max_concurrent
    Timeout,        \* reward.timeout, in ticks
    Threaded,       \* compute_score is a plain function, run in a thread
    Late            \* bound: ticks by which a due coroutine is run late

SetsAssumption == IsFiniteSet(Workers) /\ IsFiniteSet(Requests)
HomeAssumption == Home \in [Requests -> Workers]
RateAssumption == Len(Layers) \in Nat /\ Rate \in [1 .. Len(Layers) -> Nat \ {0}]
TimeAssumption ==
    /\ Second \in Nat \ {0}
    /\ Timeout \in Nat \ {0} /\ Late \in Nat
CostAssumption ==
    Costs \in [1 .. Len(Layers) -> SUBSET (Nat \ {0})]
SlotsAssumption ==
    MaxConcurrent \in Nat \ {0} /\ Threaded \in BOOLEAN

VARIABLES
    tokens, since,   \* per worker and bucket: level, time since last_update
    cost,            \* per request and bucket: the amount it will take
    pc, stage,       \* of a request; the bucket it is at
    timer,           \* ticks until it is due, negative when it is late
    queue, free,     \* the semaphore of a worker: waiters, open slots
    threads,         \* timed-out calls of a worker that still run
    result,          \* "none", "score", "timeout", "error"
    credit           \* what the rate left for grants

buckets == <<tokens, since, credit>>
slots   == <<queue, free, threads>>
vars    == <<buckets, cost, pc, stage, timer, slots, result>>

BucketIds   == 1 .. Len(Layers)
Capacity(k) == Rate[k] * Second     \* max_tokens = rate_limit

SmallerOf(a, b) == IF a < b THEN a ELSE b
LargerOf(a, b)  == IF a < b THEN b ELSE a
Ticks(n, rate)  == (n + rate - 1) \div rate

Init ==
    /\ tokens = [w \in Workers |-> [k \in BucketIds |-> Capacity(k)]]
    /\ since = [w \in Workers |-> [k \in BucketIds |-> 0]]
    /\ cost \in [Requests -> {c \in [BucketIds -> UNION {Costs[k] : k \in BucketIds}] :
                                \A k \in BucketIds : c[k] \in Costs[k]}]
    /\ pc = [r \in Requests |-> "new"] /\ stage = [r \in Requests |-> 1]
    /\ timer = [r \in Requests |-> 0]
    /\ queue = [w \in Workers |-> << >>]
    /\ free = [w \in Workers |-> MaxConcurrent]
    /\ threads = [w \in Workers |-> 0]
    /\ result = [r \in Requests |-> "none"]
    /\ credit = tokens

Begin(r) ==
    /\ pc[r] = "new"
    /\ pc' = [pc EXCEPT ![r] = "ask"]
    /\ UNCHANGED <<buckets, cost, stage, timer, slots, result>>

(* tokens = min(max_tokens, tokens + elapsed * rate_limit)                 *)
Refilled(w, k) ==
    SmallerOf(Capacity(k), tokens[w][k] + since[w][k] * Rate[k])

(* The bucket after an update that leaves n tokens in it.                  *)
SetBucket(w, k, n) ==
    /\ tokens' = [tokens EXCEPT ![w][k] = n]
    /\ since' = [since EXCEPT ![w][k] = 0]

(* acquire returns: the request is let through to the next layer.          *)
Grant(r) ==
    LET w == Home[r]  k == stage[r] IN
    /\ pc' = [pc EXCEPT ![r] = "ask"]
    /\ stage' = [stage EXCEPT ![r] = k + 1]
    /\ timer' = [timer EXCEPT ![r] = 0]
    /\ credit' = [credit EXCEPT ![w][k] = @ - cost[r][k]]

Sleep(r, state, ticks) ==
    /\ pc' = [pc EXCEPT ![r] = state]
    /\ timer' = [timer EXCEPT ![r] = ticks]
    /\ UNCHANGED <<stage, credit>>

(* A request for more than the bucket can hold takes its tokens at once,   *)
(* which leaves the bucket in debt, and sleeps until the debt is paid.     *)
(* Slip: it is treated like the others, and waits for a level that the     *)
(* bucket cannot reach. *)
AcquireLargeWaits(r) ==
    LET w == Home[r]  k == stage[r] IN
    /\ SetBucket(w, k, Refilled(w, k))
    /\ Sleep(r, "ask", Ticks(cost[r][k] - Refilled(w, k), Rate[k]))

AcquireLarge(r) ==
    LET w == Home[r]  k == stage[r]  left == Refilled(w, k) - cost[r][k] IN
    /\ SetBucket(w, k, left)
    /\ IF left < 0 THEN Sleep(r, "paid", Ticks(-left, Rate[k])) ELSE Grant(r)

(* Any other request takes its tokens when they are there and otherwise    *)
(* sleeps for the time the missing ones take to arrive, and asks again.    *)
(* Slip: it runs the bucket into debt instead. *)
AcquireStandardInDebt(r) ==
    LET w == Home[r]  k == stage[r]  left == Refilled(w, k) - cost[r][k] IN
    /\ SetBucket(w, k, left)
    /\ IF left >= 0 THEN Grant(r) ELSE Sleep(r, "paid", Ticks(-left, Rate[k]))

(* Slip: it takes what it slept for without asking again. *)
AcquireStandardOnce(r) ==
    LET w == Home[r]  k == stage[r]  left == Refilled(w, k) - cost[r][k] IN
    IF left >= 0
    THEN SetBucket(w, k, left) /\ Grant(r)
    ELSE SetBucket(w, k, Refilled(w, k)) /\ Sleep(r, "paid", Ticks(-left, Rate[k]))

AcquireStandard(r) ==
    LET w == Home[r]  k == stage[r]  left == Refilled(w, k) - cost[r][k] IN
    IF left >= 0
    THEN SetBucket(w, k, left) /\ Grant(r)
    ELSE SetBucket(w, k, Refilled(w, k)) /\ Sleep(r, "ask", Ticks(-left, Rate[k]))

Acquire(r) ==
    /\ pc[r] = "ask" /\ timer[r] <= 0 /\ stage[r] \in BucketIds
    /\ IF cost[r][stage[r]] > Capacity(stage[r])
       THEN AcquireLarge(r)
       ELSE AcquireStandard(r)
    /\ UNCHANGED <<cost, slots, result>>

PaidFor(r) ==
    /\ pc[r] = "paid" /\ timer[r] <= 0
    /\ Grant(r)
    /\ UNCHANGED <<tokens, since, cost, slots, result>>

(* async with self._semaphore: first come, first served.                   *)
EnterQueue(r) ==
    /\ pc[r] = "ask" /\ timer[r] <= 0 /\ stage[r] = Len(Layers) + 1
    /\ pc' = [pc EXCEPT ![r] = "queue"]
    /\ queue' = [queue EXCEPT ![Home[r]] = Append(@, r)]
    /\ UNCHANGED <<buckets, cost, stage, timer, free, threads, result>>

StartCall(r) ==
    LET w == Home[r] IN
    /\ pc[r] = "queue" /\ Head(queue[w]) = r /\ free[w] > 0
    /\ queue' = [queue EXCEPT ![w] = Tail(@)]
    /\ free' = [free EXCEPT ![w] = @ - 1]
    /\ pc' = [pc EXCEPT ![r] = "call"]
    /\ timer' = [timer EXCEPT ![r] = Timeout]
    /\ UNCHANGED <<buckets, cost, stage, threads, result>>

(* Every way out of the call releases the slot.                            *)
(* Slip: an exception or a timeout keeps it. *)
LeaveCallKeepingSlot(r, value) ==
    /\ pc' = [pc EXCEPT ![r] = "done"]
    /\ result' = [result EXCEPT ![r] = value]
    /\ free' = [free EXCEPT ![Home[r]] = IF value = "score" THEN @ + 1 ELSE @]

LeaveCall(r, value) ==
    /\ pc' = [pc EXCEPT ![r] = "done"]
    /\ result' = [result EXCEPT ![r] = value]
    /\ free' = [free EXCEPT ![Home[r]] = @ + 1]

CallEnds(r) ==
    /\ pc[r] = "call"
    /\ \E value \in {"score", "error"} : LeaveCall(r, value)
    /\ UNCHANGED <<buckets, cost, stage, timer, queue, threads>>

(* wait_for cancels the coroutine.  A function that a thread has begun     *)
(* cannot be cancelled and runs on; one still waiting for a thread can.    *)
CallTimesOut(r) ==
    /\ pc[r] = "call" /\ timer[r] <= 0
    /\ LeaveCall(r, "timeout")
    /\ \/ threads' = threads
       \/ Threaded /\ threads' = [threads EXCEPT ![Home[r]] = @ + 1]
    /\ UNCHANGED <<buckets, cost, stage, timer, queue>>

ThreadEnds(w) ==
    /\ threads[w] > 0
    /\ threads' = [threads EXCEPT ![w] = @ - 1]
    /\ UNCHANGED <<buckets, cost, pc, stage, timer, queue, free, result>>

Due(r) == timer[r] <= -Late /\ pc[r] \in {"ask", "paid", "call"}

(* One tick passes.  No coroutine is kept waiting for more than Late, and  *)
(* an open slot is given away at once.  The time since an update is not    *)
(* counted any further once the bucket would be full.                      *)
Tick ==
    /\ \A r \in Requests : ~ Due(r)
    /\ \A w \in Workers : queue[w] = << >> \/ free[w] = 0
    /\ since' = [w \in Workers |-> [k \in BucketIds |->
                   IF Refilled(w, k) < Capacity(k) THEN since[w][k] + 1 ELSE since[w][k]]]
    /\ timer' = [r \in Requests |->
                   IF pc[r] \in {"ask", "paid", "call"} THEN timer[r] - 1 ELSE timer[r]]
    /\ credit' = [w \in Workers |-> [k \in BucketIds |->
                   SmallerOf(Capacity(k), credit[w][k] + Rate[k])]]
    /\ UNCHANGED <<tokens, cost, pc, stage, queue, free, threads, result>>

(* What the event loop runs as soon as it can, one of them at a time.      *)
GoOn(r) ==
    \/ Begin(r) \/ Acquire(r) \/ PaidFor(r)
    \/ EnterQueue(r) \/ StartCall(r) \/ CallTimesOut(r)

Next ==
    \/ \E r \in Requests : GoOn(r) \/ CallEnds(r)
    \/ \E w \in Workers : ThreadEnds(w)
    \/ Tick

Spec == Init /\ [][Next]_vars

(* Time passes, and the event loop runs every coroutine that can go on.    *)
(* Nothing is assumed of the API: the timeout ends a call it never answers.*)
FairSpec == Spec /\ WF_vars(Tick) /\ \A r \in Requests : WF_vars(GoOn(r))
-----------------------------------------------------------------------------
InCall(w) == {r \in Requests : Home[r] = w /\ pc[r] = "call"}

(* Types: a bucket holds at most one second's tokens, and only a request   *)
(* for more than it can hold leaves it in debt.                            *)
TypeOK ==
    /\ \A w \in Workers, k \in BucketIds :
         /\ tokens[w][k] \in Int /\ since[w][k] \in Nat
         /\ tokens[w][k] <= Capacity(k)
         /\ tokens[w][k] < 0 => \E r \in Requests : cost[r][k] > Capacity(k)
    /\ \A r \in Requests :
         /\ pc[r] \in {"new", "ask", "paid", "queue", "call", "done"}
         /\ stage[r] \in 1 .. Len(Layers) + 1
         /\ timer[r] >= -Late
         /\ result[r] \in {"none", "score", "timeout", "error"}
    /\ \A w \in Workers : free[w] \in 0 .. MaxConcurrent /\ threads[w] \in Nat

(* What a run of grants may exceed the rate by, beyond a full bucket: the  *)
(* excess of one large request over the bucket, and what accrued while     *)
(* large requests that had paid were run late, or slept to the full tick.  *)
Overdraft(k) ==
    LET large == {r \in Requests : cost[r][k] > Capacity(k)} IN
    IF large = {} THEN 0
    ELSE Rate[k] * Late + Rate[k] - 1
         + CHOOSE e \in {cost[r][k] - Capacity(k) : r \in large} :
             \A r \in large : cost[r][k] - Capacity(k) <= e

(* Over any stretch of time, from any moment on, a bucket lets through no  *)
(* more than one full bucket plus what the rate adds in that time, but for *)
(* the overdraft of a large request: however many requests sleep, wake and *)
(* ask again in whatever order.  (credit is drained by what acquire lets   *)
(* through and refilled at the rate up to a full bucket: it would run dry  *)
(* at the end of any stretch that got more.)                               *)
GrantsFollowTheRate ==
    \A w \in Workers, k \in BucketIds : credit[w][k] >= -Overdraft(k)

(* A worker whose reward function is a coroutine never has more calls under*)
(* way than max_concurrent, and the slots are given back by every way a    *)
(* call can end: scored, failed or timed out.                              *)
SlotsAreGivenBack ==
    \A w \in Workers : free[w] + Cardinality(InCall(w)) = MaxConcurrent

(* Every request is answered in the end: none sleeps for ever for a level  *)
(* its bucket cannot reach, or waits for a slot that is not given back,    *)
(* even when the API never answers.                                        *)
EveryRequestIsAnswered ==
    <>(\A r \in Requests : pc[r] = "done" /\ result[r] # "none")
=============================================================================
