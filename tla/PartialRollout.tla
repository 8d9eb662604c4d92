--------------------------- MODULE PartialRollout ---------------------------
(***************************************************************************)
(* A generation that parameter synchronisation may interrupt.              *)
(*   client  FullyAsyncLLMServerClient.generate                            *)
(*           (verl/experimental/fully_async_policy/fully_async_rollouter): *)
(*           one loop per request; every round sends prompt plus tokens so *)
(*           far to a server and appends what comes back                   *)
(*   server  vLLMHttpServer.generate / abort_all_requests /                *)
(*           resume_generation / set_global_steps                          *)
(*           (verl/workers/rollout/vllm_rollout/vllm_async_server.py)      *)
(*   trainer CheckpointEngineManager.update_weights                        *)
(*           (verl/checkpoint_engine/base.py): abort every server, then    *)
(*           transfer the weights to every server, then resume every one   *)
(* A token is represented by the version of the weights that sampled it.   *)
(* Which server the balancer picks is left open (LoadBalancer).            *)
(* Operators introduced by "Slip:" are mistakes the properties notice.     *)
(***************************************************************************)
EXTENDS Integers, Sequences, FiniteSets

CONSTANTS
    Requests, Servers,
    Partial,         \* async_training.partial_rollout
    PromptLength,    \* rollout.prompt_length
    ResponseLength,  \* rollout.response_length
    Limits,          \* values of an explicit max_tokens
    MaxVersion,      \* bound: parameter synchronisations
    None

ASSUME SetsAssumption    == IsFiniteSet(Requests) /\ IsFiniteSet(Servers) /\ Servers # {}
ASSUME PartialAssumption == Partial \in BOOLEAN
ASSUME LengthsAssumption == PromptLength \in Nat \ {0} /\ ResponseLength \in Nat \ {0}
ASSUME LimitsAssumption  == Limits \subseteq Nat \ {0} /\ None \notin Nat
ASSUME VersionAssumption == MaxVersion \in Nat

VARIABLES
    \* the client's side of each request
    prompt,   \* number of prompt tokens
    limit,    \* original_max_tokens, None when sampling_params has none
    pc,       \* "ready" to call, "called", "done"
    out,      \* final_output.token_ids
    logs,     \* length of final_output.log_probs
    routed,   \* rows of final_output.routed_experts, 0 for none
    minv, maxv, \* min_global_steps, max_global_steps
    stop,     \* final_output.stop_reason
    \* the call under way
    at,       \* the server it was sent to
    budget,   \* max_tokens of the call
    fresh,    \* tokens it has produced
    \* servers and trainer
    paused,   \* servers that take no call
    version,  \* weights, and global_steps, of each server
    phase,    \* "train", "abort", "transfer", "resume"
    target    \* version of the trainer

client == <<prompt, limit, pc, out, logs, routed, minv, maxv, stop>>
call   == <<at, budget, fresh>>
sync   == <<paused, version, phase, target>>
vars   == <<client, call, sync>>

SmallerOf(a, b) == IF a < b THEN a ELSE b

Init ==
    /\ prompt \in [Requests -> 1 .. PromptLength + ResponseLength - 1]
    /\ limit \in [Requests -> Limits \cup {None}]
    /\ pc = [r \in Requests |-> "ready"]
    /\ out = [r \in Requests |-> << >>]
    /\ logs = [r \in Requests |-> 0]
    /\ routed = [r \in Requests |-> 0]
    /\ minv = [r \in Requests |-> None] /\ maxv = [r \in Requests |-> None]
    /\ stop = [r \in Requests |-> None]
    /\ at = [r \in Requests |-> None]
    /\ budget = [r \in Requests |-> 0]
    /\ fresh = [r \in Requests |-> << >>]
    /\ paused = {} /\ phase = "train" /\ target = 0
    /\ version = [s \in Servers |-> 0]

(* max_tokens of the next call.  A request that brought its own limit has   *)
(* it lowered by what it got; the others get the server's default.          *)
(* Slip: the limit is not lowered. *)
MaxTokensUnlowered(r) ==
    IF limit[r] # None THEN limit[r]
    ELSE SmallerOf(ResponseLength,
                   PromptLength + ResponseLength - prompt[r] - Len(out[r]))
(* Slip: one token is set aside, as for an end token. *)
MaxTokensReserved(r) ==
    IF limit[r] # None THEN limit[r] - Len(out[r])
    ELSE SmallerOf(ResponseLength,
                   PromptLength + ResponseLength - prompt[r] - Len(out[r]) - 1)
MaxTokens(r) ==
    IF limit[r] # None THEN limit[r] - Len(out[r])
    ELSE SmallerOf(ResponseLength,
                   PromptLength + ResponseLength - prompt[r] - Len(out[r]))

Call(r, s) ==
    /\ pc[r] = "ready"
    /\ pc' = [pc EXCEPT ![r] = "called"]
    /\ at' = [at EXCEPT ![r] = s]
    /\ budget' = [budget EXCEPT ![r] = MaxTokens(r)]
    /\ fresh' = [fresh EXCEPT ![r] = << >>]
    /\ UNCHANGED <<prompt, limit, out, logs, routed, minv, maxv, stop, sync>>

(* A paused engine keeps the call waiting. *)
Token(r) ==
    /\ pc[r] = "called" /\ at[r] \notin paused
    /\ Len(fresh[r]) < budget[r]
    /\ fresh' = [fresh EXCEPT ![r] = Append(@, version[at[r]])]
    /\ UNCHANGED <<client, at, budget, sync>>

(* Rows of routed_experts: they cover the prompt of the first call too, and *)
(* later calls append those of their own tokens.                            *)
(* Slip: [-n:] without looking whether n is 0, which keeps every row. *)
RoutedUnguarded(r) ==
    IF routed[r] = 0 \/ fresh[r] = << >>
    THEN routed[r] + prompt[r] + Len(out[r]) + Len(fresh[r])
    ELSE routed[r] + Len(fresh[r])
Routed(r) ==
    IF fresh[r] = << >> THEN routed[r]
    ELSE IF routed[r] = 0 THEN prompt[r] + Len(out[r]) + Len(fresh[r])
    ELSE routed[r] + Len(fresh[r])

(* What the client makes of an answer: v is its global_steps.  R is the set *)
(* of the requests answered, all of them for the same reason.               *)
(* Slip: the lowest version is the one of the latest answer. *)
LowestLate(r, v) == v
Lowest(r, v) == IF minv[r] = None THEN v ELSE minv[r]

(* A request that was aborted is tried again, unless its limit is reached.  *)
(* Slip: it is returned although partial rollout is on. *)
AgainNever(r, aborted) == FALSE
Again(r, aborted) ==
    /\ aborted /\ Partial
    /\ limit[r] = None \/ Len(out[r]) + Len(fresh[r]) < limit[r]

Answered(R, v, aborted) ==
    LET to(f, g(_)) == [r \in Requests |-> IF r \in R THEN g(r) ELSE f[r]] IN
    /\ out' = to(out, LAMBDA r : out[r] \o fresh[r])
    /\ logs' = to(logs, LAMBDA r : logs[r] + Len(fresh[r]))
    /\ routed' = to(routed, Routed)
    /\ minv' = to(minv, LAMBDA r : Lowest(r, v[r]))
    /\ maxv' = to(maxv, LAMBDA r : v[r])
    /\ stop' = to(stop, LAMBDA r :
                  IF limit[r] # None /\ Len(out[r]) + Len(fresh[r]) >= limit[r]
                  THEN "length" ELSE IF aborted THEN "aborted" ELSE "completed")
    /\ pc' = to(pc, LAMBDA r : IF Again(r, aborted) THEN "ready" ELSE "done")
    /\ fresh' = to(fresh, LAMBDA r : << >>)
    /\ UNCHANGED <<prompt, limit, at, budget>>

(* An end token, or the budget is used up. *)
Complete(r) ==
    /\ pc[r] = "called" /\ at[r] \notin paused
    /\ fresh[r] # << >>
    /\ Answered({r}, [q \in {r} |-> version[at[q]]], FALSE)
    /\ UNCHANGED sync

StartSync ==
    /\ phase = "train" /\ target < MaxVersion
    /\ phase' = "abort" /\ target' = target + 1
    /\ UNCHANGED <<client, call, paused, version>>

(* abort_all_requests: every call on s is answered with what it has; one    *)
(* without a token may have no output at all, and then no version either.   *)
(* A call that has used its budget has been answered.                       *)
OnServer(s) == {r \in Requests : pc[r] = "called" /\ at[r] = s}

(* Slip: the engine is paused with its calls in flight. *)
AbortServerKeepingCalls(s) ==
    /\ phase = "abort" /\ s \notin paused
    /\ paused' = paused \cup {s}
    /\ phase' = IF paused' = Servers THEN "transfer" ELSE "abort"
    /\ UNCHANGED <<client, call, version, target>>
AbortServer(s) ==
    /\ phase = "abort" /\ s \notin paused
    /\ \A r \in OnServer(s) : Len(fresh[r]) < budget[r]
    /\ \E v \in [OnServer(s) -> {version[s], None}] :
          /\ \A r \in OnServer(s) : fresh[r] # << >> => v[r] # None
          /\ Answered(OnServer(s), v, TRUE)
    /\ paused' = paused \cup {s}
    /\ phase' = IF paused' = Servers THEN "transfer" ELSE "abort"
    /\ UNCHANGED <<version, target>>

(* The bucketed transfer to s ends, its caches are cleared and its          *)
(* global_steps is set; update_weights waits for all of them.               *)
(* Slip: the servers are told the version of the next synchronisation. *)
TransferToAhead(s) ==
    /\ phase = "transfer" /\ version[s] <= target
    /\ version' = [version EXCEPT ![s] = target + 1]
    /\ phase' = IF \A t \in Servers : version'[t] > target THEN "resume" ELSE phase
    /\ UNCHANGED <<client, call, paused, target>>
TransferTo(s) ==
    /\ phase = "transfer" /\ version[s] # target
    /\ version' = [version EXCEPT ![s] = target]
    /\ phase' = IF \A t \in Servers : version'[t] = target THEN "resume" ELSE phase
    /\ UNCHANGED <<client, call, paused, target>>

(* Slip: the last server is forgotten. *)
ResumeServerButOne(s) ==
    /\ phase = "resume" /\ s \in paused
    /\ paused' = paused \ {s}
    /\ phase' = IF Cardinality(paused') = 1 THEN "train" ELSE phase
    /\ UNCHANGED <<client, call, version, target>>
ResumeServer(s) ==
    /\ phase = "resume" /\ s \in paused
    /\ paused' = paused \ {s}
    /\ phase' = IF paused' = {} THEN "train" ELSE phase
    /\ UNCHANGED <<client, call, version, target>>

Next == \/ \E r \in Requests : (\E s \in Servers : Call(r, s)) \/ Token(r) \/ Complete(r)
        \/ StartSync
        \/ \E s \in Servers : AbortServer(s) \/ TransferTo(s) \/ ResumeServer(s)

(* The clients and the engines run; a synchronisation that has begun goes   *)
(* on.  When one begins is up to the trainer.                               *)
Fairness ==
    /\ \A r \in Requests : WF_vars(\E s \in Servers : Call(r, s))
                           /\ WF_vars(Token(r)) /\ WF_vars(Complete(r))
    /\ \A s \in Servers : WF_vars(AbortServer(s)) /\ WF_vars(TransferTo(s))
                          /\ WF_vars(ResumeServer(s))
Spec == Init /\ [][Next]_vars /\ Fairness

-----------------------------------------------------------------------------
Versions == 0 .. MaxVersion

(* Type correctness of clients, calls, servers and trainer. *)
TypeOK ==
    /\ prompt \in [Requests -> 1 .. PromptLength + ResponseLength - 1]
    /\ limit \in [Requests -> Limits \cup {None}]
    /\ pc \in [Requests -> {"ready", "called", "done"}]
    /\ out \in [Requests -> Seq(Versions)] /\ fresh \in [Requests -> Seq(Versions)]
    /\ logs \in [Requests -> Nat] /\ routed \in [Requests -> Nat]
    /\ minv \in [Requests -> Versions \cup {None}]
    /\ maxv \in [Requests -> Versions \cup {None}]
    /\ stop \in [Requests -> {None, "length", "aborted", "completed"}]
    /\ at \in [Requests -> Servers \cup {None}] /\ budget \in [Requests -> Int]
    /\ paused \subseteq Servers /\ version \in [Servers -> Versions]
    /\ phase \in {"train", "abort", "transfer", "resume"} /\ target \in Versions

(* A limit the caller gave holds over all the calls together, however often *)
(* the generation was interrupted.                                          *)
LimitKept ==
    \A r \in Requests : limit[r] # None => Len(out[r]) + Len(fresh[r]) <= limit[r]

(* The engine is never asked for less than one token, which it would refuse *)
(* with an error that ends the whole sample.                                *)
RoomToResume == \A r \in Requests : pc[r] = "called" => budget[r] >= 1

(* No weights are replaced below a call: its tokens are all of the version  *)
(* its server has now, the one the answer will report.                      *)
OneVersionPerCall ==
    \A r \in Requests : \A i \in DOMAIN fresh[r] : fresh[r][i] = version[at[r]]

(* What the statistics of the trainer take for granted (detach_utils.py):   *)
(* with partial rollout a returned sample has both versions, and they       *)
(* bracket those of all its tokens, from the first to the last.             *)
VersionsBracketTokens ==
    Partial => \A r \in Requests : pc[r] = "done" =>
        /\ minv[r] # None /\ maxv[r] # None /\ minv[r] <= maxv[r]
        /\ \A i \in DOMAIN out[r] : minv[r] <= out[r][i] /\ out[r][i] <= maxv[r]

(* Log-probabilities and routing stay aligned with the tokens over any      *)
(* number of interruptions, also by answers without a single token.         *)
ArraysStayAligned ==
    \A r \in Requests :
        /\ logs[r] = Len(out[r])
        /\ routed[r] = IF out[r] = << >> THEN 0 ELSE prompt[r] + Len(out[r])

(* With partial rollout no sample is cut short by a synchronisation. *)
NoneIsCutShort ==
    Partial => \A r \in Requests : pc[r] = "done" => stop[r] # "aborted"

(* Every request returns, whatever synchronisations hit it. *)
EveryRequestReturns == <>(\A r \in Requests : pc[r] = "done")
(* The limit on tokens holds over all calls together, and never asks for a  *)
(* call without a token.                                                    *)
BudgetKept == LimitKept /\ RoomToResume

(* However often it is interrupted, a request sees one version per call, is *)
(* returned uncut, and what is returned with its tokens matches them.       *)
ResponsesAreWhole ==
    TypeOK /\ OneVersionPerCall /\ ArraysStayAligned /\ VersionsBracketTokens /\ NoneIsCutShort
=============================================================================
