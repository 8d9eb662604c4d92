-------------------------- MODULE HybridValidation --------------------------
(***************************************************************************)
(* Validation on the trainer's own devices                                 *)
(* (verl/experimental/fully_async_policy: _trainer_side_validate of        *)
(* fully_async_trainer.py; add_replicas and remove_replicas of             *)
(* FullyAsyncLLMServerManager in fully_async_rollouter.py).  The replicas  *)
(* that share the trainer's devices are woken with the new weights, put    *)
(* into the balancer's pool, used, taken out again and put to sleep, while *)
(* the agent loops go on generating training samples.                      *)
(*                                                                         *)
(* Each remote call of the trainer to a group of replicas is one step, and *)
(* the clients run between them.  A client first learns its server from    *)
(* the balancer and then sends the request (LLMServerClient.generate), and *)
(* tries again when it was aborted (PartialRollout).  Calls to the         *)
(* balancer do not fail.                                                   *)
(* Operators introduced by "Slip:" are mistakes the properties notice.     *)
(***************************************************************************)
EXTENDS Integers, FiniteSets

CONSTANTS
    Standalone,   \* replicas on devices of their own
    Hybrid,       \* replicas on the trainer's devices
    Training,     \* clients that generate training samples, one after another
    Validating,   \* the generations of one validation
    MaxVersion,   \* bound: parameter versions
    None

Servers == Standalone \cup Hybrid
Clients == Training \cup Validating

ASSUME ServersAssumption == /\ IsFiniteSet(Servers) /\ Standalone # {}
                            /\ Standalone \cap Hybrid = {} /\ None \notin Servers
ASSUME ClientsAssumption == IsFiniteSet(Clients) /\ Training \cap Validating = {}
ASSUME VersionAssumption == MaxVersion \in Nat

VARIABLES
    step,      \* where the trainer is in its iteration
    current,   \* current_param_version
    pool,      \* servers of the balancer
    replicas,  \* rollout_replicas of the server manager
    alive,     \* its alive_replicas
    awake,     \* replicas whose weights are on the device
    paused,    \* replicas whose engine accepts nothing
    version,   \* global_steps of each replica
    pc,        \* of each client: "idle", "acquired", "sent", "done", "crashed"
    at,        \* the server it was given
    answeredBy \* version that answered it last

trainer == <<step, current>>
manager == <<pool, replicas, alive>>
engines == <<awake, paused, version>>
clients == <<pc, at, answeredBy>>
vars == <<trainer, manager, engines, clients>>

(* Before the first iteration: the hybrid replicas have been put to sleep.  *)
Init ==
    /\ step = "train" /\ current = 0
    /\ pool = Standalone /\ replicas = Standalone /\ alive = {}
    /\ awake = Standalone /\ paused = {}
    /\ version = [s \in Servers |-> 0]
    /\ pc = [c \in Clients |-> IF c \in Training THEN "idle" ELSE "done"]
    /\ at = [c \in Clients |-> None]
    /\ answeredBy = [c \in Clients |-> None]

(* abort_all_requests on every replica of S: what was sent is answered, and *)
(* sent again by its client; engines stay paused.  A request that waits at  *)
(* an engine paused before is not among its requests.                       *)
Abort(S) ==
    /\ paused' = paused \cup S
    /\ pc' = [c \in Clients |->
                 IF pc[c] = "sent" /\ at[c] \in S \ paused THEN "idle" ELSE pc[c]]
    /\ UNCHANGED <<at, answeredBy>>
Resume(S) == paused' = paused \ S

-----------------------------------------------------------------------------
(* The trainer.  Goes from one of its steps to the next. *)
Goes(from, to) == step = from /\ step' = to

(* One training step ended: update_weights of the standalone replicas.      *)
UpdateWeights ==
    /\ current < MaxVersion
    /\ Goes("train", "synced")
    /\ current' = current + 1
    /\ version' = [s \in Servers |-> IF s \in Standalone THEN current' ELSE version[s]]
    /\ pc' = [c \in Clients |->
                 IF pc[c] = "sent" /\ at[c] \in Standalone THEN "idle" ELSE pc[c]]
    /\ UNCHANGED <<manager, awake, paused, at, answeredBy>>

(* test_freq does not ask for a validation. *)
SkipValidation ==
    /\ Goes("synced", "train")
    /\ UNCHANGED <<current, manager, engines, clients>>

(* Phase 1.  Slip: the hybrid replicas are woken with what they last had. *)
WakeHybridStale ==
    /\ Goes("synced", "abortStandalone")
    /\ awake' = awake \cup Hybrid
    /\ UNCHANGED <<current, manager, paused, version, clients>>
WakeHybrid ==
    /\ Goes("synced", "abortStandalone")
    /\ awake' = awake \cup Hybrid
    /\ version' = [s \in Servers |-> IF s \in Hybrid THEN current ELSE version[s]]
    /\ UNCHANGED <<current, manager, paused, clients>>

AbortStandalone ==
    /\ \/ Goes("abortStandalone", "abortHybrid")
       \/ Goes("abortStandalone3", "abortHybrid3")
    /\ Abort(Standalone)
    /\ UNCHANGED <<current, manager, awake, version>>

AbortHybrid ==
    /\ Goes("abortHybrid", "addReplicas") \/ Goes("abortHybrid3", "removeReplicas")
    /\ Abort(Hybrid)
    /\ UNCHANGED <<current, manager, awake, version>>

AddReplicas ==
    /\ Goes("addReplicas", "resumeStandalone")
    /\ pool' = pool \cup Hybrid
    /\ replicas' = replicas \cup Hybrid
    /\ alive' = Hybrid
    /\ UNCHANGED <<current, engines, clients>>

(* Slip: it is forgotten in phase 1. *)
ResumeStandaloneLater ==
    /\ \/ Goes("resumeStandalone", "resumeHybrid") /\ UNCHANGED paused
       \/ Goes("resumeStandalone3", "resumeHybrid3") /\ Resume(Standalone)
    /\ UNCHANGED <<current, manager, awake, version, clients>>
ResumeStandalone ==
    /\ \/ Goes("resumeStandalone", "resumeHybrid")
       \/ Goes("resumeStandalone3", "resumeHybrid3")
    /\ Resume(Standalone)
    /\ UNCHANGED <<current, manager, awake, version, clients>>

ResumeHybrid ==
    /\ Goes("resumeHybrid", "validate") \/ Goes("resumeHybrid3", "train")
    /\ Resume(Hybrid)
    /\ UNCHANGED <<current, manager, awake, version, clients>>

(* Phase 2: do_validate asks all its questions and waits for them. *)
StartValidation ==
    /\ Goes("validate", "validating")
    /\ pc' = [c \in Clients |-> IF c \in Validating THEN "idle" ELSE pc[c]]
    /\ UNCHANGED <<current, manager, engines, at, answeredBy>>
ValidationDone == \A c \in Validating : pc[c] = "done"
EndValidation ==
    /\ Goes("validating", "abortStandalone3")
    /\ ValidationDone
    /\ UNCHANGED <<current, manager, engines, clients>>

(* Phase 3.  Slip: the manager forgets the replicas, the balancer does not. *)
RemoveReplicasLocally ==
    /\ Goes("removeReplicas", "sleepHybrid")
    /\ replicas' = replicas \ alive /\ alive' = {}
    /\ UNCHANGED <<current, pool, engines, clients>>
RemoveReplicas ==
    /\ Goes("removeReplicas", "sleepHybrid")
    /\ pool' = pool \ alive
    /\ replicas' = replicas \ alive
    /\ alive' = {}
    /\ UNCHANGED <<current, engines, clients>>

(* wait_for_requests_to_drain: nothing runs on a paused engine. *)
(* Slip: the replicas that finish late are left awake. *)
SleepHybridSome ==
    /\ Goes("sleepHybrid", "resumeStandalone3")
    /\ \E S \in SUBSET Hybrid : awake' = awake \ S
    /\ UNCHANGED <<current, manager, paused, version, clients>>
SleepHybrid ==
    /\ Goes("sleepHybrid", "resumeStandalone3")
    /\ awake' = awake \ Hybrid
    /\ UNCHANGED <<current, manager, paused, version, clients>>

-----------------------------------------------------------------------------
(* The clients. *)
Acquire(c) ==
    /\ pc[c] = "idle"
    /\ \E s \in pool : at' = [at EXCEPT ![c] = s]
    /\ pc' = [pc EXCEPT ![c] = "acquired"]
    /\ UNCHANGED <<trainer, manager, engines, answeredBy>>

Send(c) ==
    /\ pc[c] = "acquired"
    /\ pc' = [pc EXCEPT ![c] = "sent"]
    /\ UNCHANGED <<trainer, manager, engines, at, answeredBy>>

(* The engine runs the request to its end, if its weights are there. *)
Generate(c) ==
    /\ pc[c] = "sent" /\ at[c] \in awake \ paused
    /\ pc' = [pc EXCEPT ![c] = "done"]
    /\ answeredBy' = [answeredBy EXCEPT ![c] = version[at[c]]]
    /\ UNCHANGED <<trainer, manager, engines, at>>

GenerateAsleep(c) ==
    /\ pc[c] = "sent" /\ at[c] \notin awake \cup paused
    /\ pc' = [pc EXCEPT ![c] = "crashed"]
    /\ UNCHANGED <<trainer, manager, engines, at, answeredBy>>

(* The next turn or the next sample of a training client. *)
NextSample(c) ==
    /\ c \in Training /\ pc[c] = "done"
    /\ pc' = [pc EXCEPT ![c] = "idle"]
    /\ UNCHANGED <<trainer, manager, engines, at, answeredBy>>

Trainer == \/ UpdateWeights \/ SkipValidation
           \/ WakeHybrid \/ AbortStandalone \/ AbortHybrid \/ AddReplicas
           \/ ResumeStandalone \/ ResumeHybrid
           \/ StartValidation \/ EndValidation
           \/ RemoveReplicas \/ SleepHybrid
Client(c) == Acquire(c) \/ Send(c) \/ Generate(c) \/ GenerateAsleep(c)
Next == Trainer \/ \E c \in Clients : Client(c) \/ NextSample(c)

(* A sequence of remote calls, once begun, goes on; so do the clients.      *)
Fairness == WF_vars(Trainer) /\ \A c \in Clients : WF_vars(Client(c))
Spec == Init /\ [][Next]_vars /\ Fairness

-----------------------------------------------------------------------------
Steps == {"train", "synced", "abortStandalone", "abortHybrid", "addReplicas",
          "resumeStandalone", "resumeHybrid", "validate", "validating",
          "abortStandalone3", "abortHybrid3", "removeReplicas", "sleepHybrid",
          "resumeStandalone3", "resumeHybrid3"}

(* Type correctness; the manager's lists agree with the balancer's pool,    *)
(* which it changes by remote calls.                                        *)
TypeOK ==
    /\ step \in Steps /\ current \in 0 .. MaxVersion
    /\ pool = replicas /\ pool = Standalone \cup alive /\ alive \subseteq Hybrid
    /\ Standalone \subseteq awake /\ awake \subseteq Servers
    /\ paused \subseteq Servers
    /\ version \in [Servers -> 0 .. current]
    /\ pc \in [Clients -> {"idle", "acquired", "sent", "done", "crashed"}]
    /\ at \in [Clients -> Servers \cup {None}]
    /\ answeredBy \in [Clients -> (0 .. current) \cup {None}]

(* Whoever asks the balancer is never given a replica that would run its    *)
(* request without weights: every replica of the pool is awake, or accepts  *)
(* nothing for the moment.                                                  *)
PoolIsUsable == pool \subseteq awake \cup paused

(* The trainer computes only when it has its devices for itself, and when   *)
(* no replica has been left paused.                                         *)
DevicesAreGivenBack ==
    step = "train" => awake = Standalone /\ pool = Standalone /\ paused = {}

(* A validation measures the current parameters only, whichever replicas    *)
(* answered, and none of its questions is lost to a replica that sleeps.    *)
ValidatesCurrentParameters ==
    step \in {"abortStandalone3", "abortHybrid3", "removeReplicas", "sleepHybrid"} =>
        \A c \in Validating : pc[c] = "done" /\ answeredBy[c] = current

(* Each validation comes to its end and the trainer to its next step. *)
TrainerReturns == (step = "synced") ~> (step = "train")

(* "Drain DP engines for safe sleep": no engine is asked to generate while  *)
(* it sleeps.                                                               *)
NoGenerationAsleep == \A c \in Clients : pc[c] # "crashed"
(* The pool holds no replica that cannot serve, the devices come back to    *)
(* the trainer, and a validation is one of the current parameters only.     *)
ValidationIsSafe == PoolIsUsable /\ DevicesAreGivenBack /\ ValidatesCurrentParameters
=============================================================================
