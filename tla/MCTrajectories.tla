--------------------------- MODULE MCTrajectories ---------------------------
(***************************************************************************)
(* What a trajectory meets on its way: the balancer that names a server    *)
(* for each of its turns, the loop that calls its tools, and the rate      *)
(* limiter in front of the API that scores it.  A behaviour is one of the  *)
(* chosen model; the others stay in one of their initial states.           *)
(***************************************************************************)
EXTENDS LoadBalancer

VARIABLES
    model,   \* the model that runs
    d_inflight, d_sticky, d_held, d_releasing, d_turns, d_last, d_since,
    t_state, t_prompt_ids, t_response_mask, t_response_logprobs, t_assistant_turns,
    t_user_turns, t_image_data, t_tool_rewards, t_extra_fields, t_calls, t_version, t_output,
    l_tokens, l_since, l_cost, l_pc, l_stage, l_timer, l_queue, l_free, l_threads, l_result,
    l_credit

(* Two servers that stay and one that comes and goes, two conversations.    *)
Drained == INSTANCE LoadBalancer WITH
    Standalone <- {"a", "b"}, Hybrid <- {"h"}, Requests <- {"r1", "r2"}, MaxTurns <- 2, CacheSize <- 1,
    inflight <- d_inflight, sticky <- d_sticky, held <- d_held, releasing <- d_releasing,
    turns <- d_turns, last <- d_last, since <- d_since

(* The loop with tools under a given configuration.                         *)
ToolsOf(c) == INSTANCE ToolAgentLoop WITH
    PromptLength <- c.prompt, ResponseLength <- c.response, MaxAssistantTurns <- c.assistant,
    MaxUserTurns <- c.user, MaxParallelCalls <- c.parallel, MaxParsedCalls <- c.parsed,
    MaxVersion <- c.versions, Answers <- c.answers, WithLogprobs <- c.logprobs, Aborts <- c.aborts,
    state <- t_state, prompt_ids <- t_prompt_ids, response_mask <- t_response_mask,
    response_logprobs <- t_response_logprobs, assistant_turns <- t_assistant_turns,
    user_turns <- t_user_turns, image_data <- t_image_data, tool_rewards <- t_tool_rewards,
    extra_fields <- t_extra_fields, calls <- t_calls, version <- t_version, output <- t_output

(* Turns without a limit, images and videos, weights updated once.          *)
endless == [prompt |-> 2, response |-> 5, assistant |-> 0, user |-> 0, parallel |-> 2, parsed |-> 3,
            versions |-> 1, answers |-> {"text", "image", "video"}, logprobs |-> TRUE, aborts |-> FALSE]

(* Limited turns, and requests aborted before their first token.            *)
limited == [prompt |-> 1, response |-> 5, assistant |-> 3, user |-> 1, parallel |-> 2, parsed |-> 3,
            versions |-> 0, answers |-> {"text", "video"}, logprobs |-> TRUE, aborts |-> TRUE]

(* The rate limiter in a given configuration.                               *)
LimiterOf(c) == INSTANCE RateLimiter WITH
    Workers <- c.workers, Requests <- c.requests, Home <- c.home, Layers <- c.layers,
    Rate <- c.rate, Second <- c.second, Costs <- c.costs, MaxConcurrent <- c.slots,
    Timeout <- c.timeout, Threaded <- c.threaded, Late <- c.late,
    tokens <- l_tokens, since <- l_since, cost <- l_cost, pc <- l_pc, stage <- l_stage,
    timer <- l_timer, queue <- l_queue, free <- l_free, threads <- l_threads, result <- l_result,
    credit <- l_credit

(* One worker, calls per tick and tokens per tick; the first bucket is asked*)
(* for what it can hold and for more, the second for more than it can hold. *)
layered == [workers |-> {"w1"}, requests |-> {"r1", "r2"}, home |-> [r \in {"r1", "r2"} |-> "w1"],
            layers |-> <<"rpm", "tpm">>, rate |-> <<1, 2>>, second |-> 2,
            costs |-> <<{1, 2, 3}, {5}>>, slots |-> 1, timeout |-> 2, threaded |-> TRUE, late |-> 1]

(* Three requests that sleep for the calls of one bucket, and run on time.  *)
paced == [workers |-> {"w1"}, requests |-> {"r1", "r2", "r3"},
          home |-> [r \in {"r1", "r2", "r3"} |-> "w1"],
          layers |-> <<"rpm">>, rate |-> <<1>>, second |-> 2,
          costs |-> <<{1, 2, 3}>>, slots |-> 1, timeout |-> 1, threaded |-> FALSE, late |-> 0]

ToolsAssumption(c) ==
    ToolsOf(c)!LengthsAssumption /\ ToolsOf(c)!TurnsAssumption /\ ToolsOf(c)!ChoicesAssumption
LimiterAssumption(c) ==
    /\ LimiterOf(c)!SetsAssumption /\ LimiterOf(c)!HomeAssumption /\ LimiterOf(c)!RateAssumption
    /\ LimiterOf(c)!TimeAssumption /\ LimiterOf(c)!CostAssumption /\ LimiterOf(c)!SlotsAssumption

ASSUME InstancesAssumption ==
    /\ Drained!ServersAssumption /\ Drained!RequestsAssumption
    /\ Drained!MaxTurnsAssumption /\ Drained!CacheSizeAssumption
    /\ ToolsAssumption(endless) /\ ToolsAssumption(limited)
    /\ LimiterAssumption(layered) /\ LimiterAssumption(paced)

drainVars  == <<d_inflight, d_sticky, d_held, d_releasing, d_turns, d_last, d_since>>
toolVars   == <<t_state, t_prompt_ids, t_response_mask, t_response_logprobs, t_assistant_turns,
                t_user_turns, t_image_data, t_tool_rewards, t_extra_fields, t_calls, t_version,
                t_output>>
limitVars  == <<l_tokens, l_since, l_cost, l_pc, l_stage, l_timer, l_queue, l_free, l_threads,
                l_result, l_credit>>
allVars    == <<model, vars, drainVars, toolVars, limitVars>>

InitOfAll ==
    /\ model \in {"balancer", "drained", "tools", "turns", "limiter", "paced"}
    /\ Init /\ Drained!Init /\ ToolsOf(endless)!Init
    /\ IF model = "paced" THEN LimiterOf(paced)!Init ELSE LimiterOf(layered)!Init
    /\ model \notin {"limiter", "paced"} => \A r \in {"r1", "r2"} : l_cost[r][1] = 1

NextOfOne ==
    /\ UNCHANGED model
    /\ \/ /\ model = "balancer" /\ Next
          /\ UNCHANGED <<drainVars, toolVars, limitVars>>
       \/ /\ model = "drained" /\ Drained!Next
          /\ UNCHANGED <<vars, toolVars, limitVars>>
       \/ /\ model = "tools" /\ ToolsOf(endless)!Next
          /\ UNCHANGED <<vars, drainVars, limitVars>>
       \/ /\ model = "turns" /\ ToolsOf(limited)!Next
          /\ UNCHANGED <<vars, drainVars, limitVars>>
       \/ /\ model = "limiter" /\ LimiterOf(layered)!Next
          /\ UNCHANGED <<vars, drainVars, toolVars>>
       \/ /\ model = "paced" /\ LimiterOf(paced)!Next
          /\ UNCHANGED <<vars, drainVars, toolVars>>

(* The fairness of each model, where it runs.                               *)
FairnessOfOne ==
    /\ \A r \in {"r1", "r2"} : WF_drainVars(model = "drained" /\ Drained!Finish(r))
    /\ \A s \in {"a", "b", "h"} : WF_drainVars(model = "drained" /\ Drained!Release(s))
    /\ WF_toolVars(model = "turns" /\ ToolsOf(limited)!Next)
    /\ \A i \in 1 .. 2 :
         WF_toolVars(model = "turns" /\ i \in DOMAIN t_calls /\ ToolsOf(limited)!CallTool(i))
    /\ WF_limitVars(model = "limiter" /\ LimiterOf(layered)!Tick)
    /\ \A r \in {"r1", "r2"} : WF_limitVars(model = "limiter" /\ LimiterOf(layered)!GoOn(r))

SpecOfAll == InitOfAll /\ [][NextOfOne]_allVars /\ FairnessOfOne
-----------------------------------------------------------------------------
(* Types of all the models; only a request for more than a bucket of the    *)
(* rate limiter can hold leaves it in debt.                                 *)
TypesOK ==
    /\ TypeOK
    /\ Drained!TypeOK
    /\ IF model = "turns" THEN ToolsOf(limited)!TypeOK ELSE ToolsOf(endless)!TypeOK
    /\ IF model = "paced" THEN LimiterOf(paced)!TypeOK ELSE LimiterOf(layered)!TypeOK

(* Balancer: once the conversations are over every count returns to 0.      *)
CountsReturnToZero == model = "drained" => Drained!CountsDrain

(* Agent with tools, in either configuration.  The mask the trainer gets is *)
(* 1 at the model's tokens and nowhere else, and nothing of the response is *)
(* left in the prompt, unless nothing was generated; over all turns there is*)
(* one log probability for each token; the model always has room when it is *)
(* asked, and the response ends with its tokens however it was cut, unless  *)
(* the last request was aborted before its first token.                     *)
OutputIsWhole(c) ==
    ToolsOf(c)!MaskTellsTheModel /\ ToolsOf(c)!LogprobsAreAligned /\ ToolsOf(c)!EndsWithTheModel

(* Agent with tools: concurrent calls end in any order, their answers stand *)
(* in the order of the calls, with rewards of a dropped turn at most.       *)
AnswersAreInCallOrder == ToolsOf(endless)!AnswersAreInCallOrder

(* Agent with tools: as many images as the tokens have places for, if no    *)
(* tool answers with several.                                               *)
ImagesHavePlaceholders == ToolsOf(endless)!ImagesHavePlaceholders

(* Agent with tools: the versions reported bracket those of all the tokens. *)
VersionsBracketTheTrajectory == ToolsOf(endless)!VersionsBracketTheTrajectory

(* Agent with tools: an instance that was created is released, or its       *)
(* release has failed, whatever the other calls of the turn come to.        *)
EveryInstanceIsReleased == model = "turns" => ToolsOf(limited)!EveryInstanceIsReleased

(* Rate limiter: over any stretch of time a bucket lets through no more     *)
(* than a full bucket and what the rate adds, but for a large request.      *)
GrantsFollowTheRate ==
    IF model = "paced" THEN LimiterOf(paced)!GrantsFollowTheRate ELSE LimiterOf(layered)!GrantsFollowTheRate

(* Rate limiter: every way a call can end gives its slot back.              *)
SlotsAreGivenBack ==
    IF model = "paced" THEN LimiterOf(paced)!SlotsAreGivenBack ELSE LimiterOf(layered)!SlotsAreGivenBack

(* Rate limiter: every request is answered, even if the API never answers.  *)
EveryRequestIsAnswered == model = "limiter" => LimiterOf(layered)!EveryRequestIsAnswered

(* Agent with tools: after any turns, cuts, aborts and weight updates what  *)
(* the trainer is given fits together, token by token, but for what a       *)
(* request aborted before its first token leaves out.                       *)
TrajectoriesAreWhole ==
    /\ IF model = "turns" THEN OutputIsWhole(limited) ELSE OutputIsWhole(endless)
    /\ AnswersAreInCallOrder /\ ImagesHavePlaceholders /\ VersionsBracketTheTrajectory

(* Rate limiter: neither the rates nor the slots drift.                     *)
LimitsAreKept == GrantsFollowTheRate /\ SlotsAreGivenBack

(* What a trajectory takes is given back, and what it asks for answered.    *)
NothingIsHeldForEver == CountsReturnToZero /\ EveryInstanceIsReleased /\ EveryRequestIsAnswered
=============================================================================
