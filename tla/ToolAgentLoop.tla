--------------------------- MODULE ToolAgentLoop ---------------------------
(***************************************************************************)
(* One trajectory of the agent with tools: ToolAgentLoop.run, its three    *)
(* handlers and _call_tool (verl/experimental/agent_loop/                  *)
(* tool_agent_loop.py).  The tool calls of a turn run concurrently; each   *)
(* creates, uses and releases an instance of its tool.  Prompts, weights   *)
(* and tools are external.                                                 *)
(* Operators introduced by "Slip:" are mistakes the properties notice.     *)
(***************************************************************************)
EXTENDS Integers, Sequences, FiniteSets

CONSTANTS
    PromptLength, ResponseLength,      \* rollout.prompt_length, response_length
    MaxAssistantTurns, MaxUserTurns,   \* multi_turn.*, 0 for no limit
    MaxParallelCalls,
    MaxParsedCalls,                    \* bound: calls the parser finds in a turn
    MaxVersion,                        \* bound: updates of the served weights
    Answers,                           \* what tools answer with
    WithLogprobs,                      \* rollout.calculate_log_probs
    Aborts,                            \* a request may be aborted before its first token
    None

LengthsAssumption ==
    /\ PromptLength \in Nat \ {0} /\ ResponseLength \in Nat \ {0}
    /\ MaxParallelCalls \in Nat \ {0} /\ MaxParsedCalls \in Nat
TurnsAssumption == MaxAssistantTurns \in Nat /\ MaxUserTurns \in Nat
ChoicesAssumption ==
    /\ Answers \subseteq {"text", "image", "images", "video"}
    /\ WithLogprobs \in BOOLEAN /\ Aborts \in BOOLEAN /\ MaxVersion \in Nat
    /\ \A first, last \in 0 .. MaxVersion : None # [min |-> first, max |-> last]

VARIABLES
    state,              \* AgentState, then "returned" or "raised"
    prompt_ids,         \* every token: whose it is
    response_mask, response_logprobs,
    assistant_turns, user_turns,
    image_data,         \* number of images
    tool_rewards,       \* the calls rewards were noted for
    extra_fields,       \* [min, max] weights versions, None before a generation
    calls,              \* the tool calls of the turn
    version,            \* of the served weights
    output              \* AgentLoopOutput, None before the end

trajectory == <<prompt_ids, response_mask, response_logprobs, assistant_turns, user_turns,
                image_data, tool_rewards, extra_fields>>
vars == <<state, trajectory, calls, version, output>>

Prompt == [by |-> "prompt"]
Model(v) == [by |-> "model", version |-> v]
Tool(turn, i, placeholders) == [by |-> "tool", call |-> <<turn, i>>, placeholders |-> placeholders]

Init ==
    /\ state = "PENDING"
    /\ prompt_ids = << >> /\ response_mask = << >> /\ response_logprobs = << >>
    /\ assistant_turns = 0 /\ user_turns = 0 /\ image_data = 0
    /\ tool_rewards = << >> /\ extra_fields = None
    /\ calls = << >> /\ version = 0 /\ output = None

HandlePending ==
    /\ state = "PENDING" /\ state' = "GENERATING"
    /\ \E n \in 1 .. PromptLength : prompt_ids' = [i \in 1 .. n |-> Prompt]
    /\ UNCHANGED <<response_mask, response_logprobs, assistant_turns, user_turns, image_data,
                   tool_rewards, extra_fields, calls, version, output>>

Least(a, b) == IF a <= b THEN a ELSE b
Repeat(x, n) == [i \in 1 .. n |-> x]

(* The server's max_tokens without one in the sampling parameters          *)
Room == Least(ResponseLength, PromptLength + ResponseLength - Len(prompt_ids))

(* Slip: a later answer replaces both versions of the trajectory. *)
LatestFields(first, last) == [min |-> first, max |-> last]

MergedFields(first, last) ==
    IF extra_fields = None THEN [min |-> first, max |-> last]
    ELSE IF last # 0 THEN [extra_fields EXCEPT !.max = last]
    ELSE extra_fields

Exhausted ==
    \/ Len(response_mask') >= ResponseLength
    \/ MaxAssistantTurns # 0 /\ assistant_turns' >= MaxAssistantTurns
    \/ MaxUserTurns # 0 /\ user_turns >= MaxUserTurns

Taken(m) == Least(m, MaxParallelCalls)

Call(kind) == [kind |-> kind, at |-> "called", answer |-> None]

(* n tokens by weights of version first to last; the parser finds m calls  *)
HandleGenerating ==
    /\ state = "GENERATING"
    /\ \E n \in (IF Aborts THEN 0 ELSE 1) .. Room, first \in version .. MaxVersion :
       \E last \in first .. MaxVersion :
          /\ version' = last
          /\ extra_fields' = MergedFields(first, last)
          /\ prompt_ids' = prompt_ids \o Repeat(Model(last), n)
          /\ response_mask' = response_mask \o Repeat(1, n)
          /\ response_logprobs' = IF WithLogprobs THEN response_logprobs \o Repeat("logprob", n)
                                  ELSE response_logprobs
          /\ assistant_turns' = assistant_turns + 1
          /\ IF Exhausted THEN state' = "TERMINATED" /\ calls' = << >>
             ELSE \E m \in 0 .. IF n = 0 THEN 0 ELSE MaxParsedCalls :
                  IF m = 0 THEN state' = "TERMINATED" /\ calls' = << >>
                  ELSE /\ state' = "PROCESSING_TOOLS"
                       /\ \E kinds \in [1 .. Taken(m) -> {"refused", "function", "tool"}] :
                             calls' = [i \in DOMAIN kinds |-> Call(kinds[i])]
    /\ UNCHANGED <<user_turns, image_data, tool_rewards, output>>
-----------------------------------------------------------------------------
(* _call_tool: the name or the arguments are refused, a function is called *)
(* directly, a tool's instance is created, used and released.  What goes   *)
(* wrong before the release is answered with a text.                       *)
Set(i, at, answer) == calls' = [calls EXCEPT ![i].at = at, ![i].answer = answer]

Refuse(i) ==
    /\ calls[i].at = "called" /\ calls[i].kind = "refused" /\ Set(i, "done", "text")
    /\ UNCHANGED <<state, trajectory, version, output>>

CallFunction(i) ==
    /\ calls[i].at = "called" /\ calls[i].kind = "function"
    /\ \E answer \in Answers \cup {"text"} : Set(i, "done", answer)
    /\ UNCHANGED <<state, trajectory, version, output>>

Create(i) ==
    /\ calls[i].at = "called" /\ calls[i].kind = "tool"
    /\ \/ Set(i, "created", None)
       \/ Set(i, "done", "text")
    /\ UNCHANGED <<state, trajectory, version, output>>

(* Slip: a failure of the tool is answered before its instance is released. *)
ExecuteAndForget(i) ==
    /\ calls[i].at = "created"
    /\ \/ \E answer \in Answers : Set(i, "executed", answer)
       \/ Set(i, "lost", "text")
    /\ UNCHANGED <<state, trajectory, version, output>>

Execute(i) ==
    /\ calls[i].at = "created"
    /\ \E answer \in Answers \cup {"text"} : Set(i, "executed", answer)
    /\ UNCHANGED <<state, trajectory, version, output>>

Release(i) ==
    /\ calls[i].at = "executed"
    /\ \/ Set(i, "done", calls[i].answer) /\ UNCHANGED state
       \/ Set(i, "release failed", None) /\ state' = "raised"
    /\ UNCHANGED <<trajectory, version, output>>

CallTool(i) == Refuse(i) \/ CallFunction(i) \/ Create(i) \/ Execute(i) \/ Release(i)
-----------------------------------------------------------------------------
Placeholders(answer) == IF answer \in {"image", "images"} THEN 1 ELSE 0

NewImages ==
    Cardinality({i \in DOMAIN calls : calls[i].answer = "image"})
        + 2 * Cardinality({i \in DOMAIN calls : calls[i].answer = "images"})

(* Slip: the answers are taken in another order than the calls. *)
Reversed == [i \in DOMAIN calls |-> Tool(user_turns, Len(calls) + 1 - i, Placeholders(calls[i].answer))]

AddMessages == [i \in DOMAIN calls |-> Tool(user_turns, i, Placeholders(calls[i].answer))]

(* Slip: answers that just fill the response are kept. *)
FitsExactly == Len(response_mask) + Len(calls) <= ResponseLength

Fits == Len(response_mask) + Len(calls) < ResponseLength

AllAnswered == state = "PROCESSING_TOOLS" /\ \A i \in DOMAIN calls : calls[i].at = "done"

VideoAnswered ==
    /\ AllAnswered /\ \E i \in DOMAIN calls : calls[i].answer = "video"
    /\ state' = "raised"
    /\ UNCHANGED <<trajectory, calls, version, output>>

(* Slip: the images are noted before the length is looked at. *)
ProcessAnswersImagesFirst ==
    /\ AllAnswered /\ \A i \in DOMAIN calls : calls[i].answer # "video"
    /\ tool_rewards' = tool_rewards \o [i \in DOMAIN calls |-> <<user_turns, i>>]
    /\ image_data' = image_data + NewImages
    /\ IF Fits
       THEN /\ prompt_ids' = prompt_ids \o AddMessages
            /\ response_mask' = response_mask \o Repeat(0, Len(calls))
            /\ response_logprobs' = IF response_logprobs = << >> THEN << >>
                                    ELSE response_logprobs \o Repeat("0.0", Len(calls))
            /\ user_turns' = user_turns + 1 /\ state' = "GENERATING"
       ELSE /\ state' = "TERMINATED"
            /\ UNCHANGED <<prompt_ids, response_mask, response_logprobs, user_turns>>
    /\ calls' = << >>
    /\ UNCHANGED <<assistant_turns, extra_fields, version, output>>

(* Slip: no log probabilities are filled in for the answers. *)
ProcessAnswersWithoutLogprobs ==
    /\ AllAnswered /\ \A i \in DOMAIN calls : calls[i].answer # "video"
    /\ tool_rewards' = tool_rewards \o [i \in DOMAIN calls |-> <<user_turns, i>>]
    /\ IF Fits
       THEN /\ prompt_ids' = prompt_ids \o AddMessages
            /\ response_mask' = response_mask \o Repeat(0, Len(calls))
            /\ image_data' = image_data + NewImages
            /\ user_turns' = user_turns + 1 /\ state' = "GENERATING"
       ELSE /\ state' = "TERMINATED"
            /\ UNCHANGED <<prompt_ids, response_mask, image_data, user_turns>>
    /\ calls' = << >>
    /\ UNCHANGED <<response_logprobs, assistant_turns, extra_fields, version, output>>

ProcessAnswers ==
    /\ AllAnswered /\ \A i \in DOMAIN calls : calls[i].answer # "video"
    /\ tool_rewards' = tool_rewards \o [i \in DOMAIN calls |-> <<user_turns, i>>]
    /\ IF Fits
       THEN /\ prompt_ids' = prompt_ids \o AddMessages
            /\ response_mask' = response_mask \o Repeat(0, Len(calls))
            /\ response_logprobs' = IF response_logprobs = << >> THEN << >>
                                    ELSE response_logprobs \o Repeat("0.0", Len(calls))
            /\ image_data' = image_data + NewImages
            /\ user_turns' = user_turns + 1 /\ state' = "GENERATING"
       ELSE /\ state' = "TERMINATED"
            /\ UNCHANGED <<prompt_ids, response_mask, response_logprobs, image_data, user_turns>>
    /\ calls' = << >>
    /\ UNCHANGED <<assistant_turns, extra_fields, version, output>>
-----------------------------------------------------------------------------
FirstOf(s, n) == SubSeq(s, 1, Least(n, Len(s)))

(* prompt_ids[-n:]: for n = 0 that is the whole list                       *)
LastOf(s, n) == IF n = 0 THEN s ELSE SubSeq(s, Len(s) - n + 1, Len(s))

(* Slip: the mask is not cut with the tokens. *)
FinishUncut ==
    /\ state = "TERMINATED" /\ state' = "returned"
    /\ output' = [
          prompt_ids |-> FirstOf(prompt_ids, Len(prompt_ids) - Len(response_mask)),
          response_ids |-> FirstOf(LastOf(prompt_ids, Len(response_mask)), ResponseLength),
          response_mask |-> response_mask,
          response_logprobs |-> FirstOf(response_logprobs, ResponseLength)]
    /\ UNCHANGED <<trajectory, calls, version>>

Finish ==
    /\ state = "TERMINATED" /\ state' = "returned"
    /\ output' = [
          prompt_ids |-> FirstOf(prompt_ids, Len(prompt_ids) - Len(response_mask)),
          response_ids |-> FirstOf(LastOf(prompt_ids, Len(response_mask)), ResponseLength),
          response_mask |-> FirstOf(response_mask, ResponseLength),
          response_logprobs |-> FirstOf(response_logprobs, ResponseLength)]
    /\ UNCHANGED <<trajectory, calls, version>>

Next ==
    \/ HandlePending \/ HandleGenerating \/ VideoAnswered \/ ProcessAnswers \/ Finish
    \/ \E i \in DOMAIN calls : CallTool(i)

Spec == Init /\ [][Next]_vars

(* The event loop runs every coroutine that is ready; a call of a tool     *)
(* returns or raises.                                                      *)
FairSpec == Spec /\ WF_vars(Next) /\ \A i \in 1 .. MaxParallelCalls : WF_vars(i \in DOMAIN calls /\ CallTool(i))
-----------------------------------------------------------------------------
(* Types, and a mask as long as what was added to the prompt.              *)
TypeOK ==
    /\ state \in {"PENDING", "GENERATING", "PROCESSING_TOOLS", "TERMINATED", "returned", "raised"}
    /\ response_mask \in Seq({0, 1}) /\ Len(response_mask) <= Len(prompt_ids)
    /\ assistant_turns \in Nat /\ user_turns \in 0 .. assistant_turns /\ image_data \in Nat
    /\ Len(calls) <= MaxParallelCalls

(* Nothing was generated: the only request was aborted before its first    *)
(* token.                                                                  *)
NothingGenerated == Aborts /\ output # None /\ output.response_mask = << >>

(* What is handed to the training: the mask is 1 at the model's tokens and *)
(* nowhere else, it is as long as the response, and nothing of the         *)
(* response is left in the prompt nor of the prompt in the response.  The  *)
(* exception: if nothing was generated the prompt is the response as well. *)
MaskTellsTheModel ==
    output # None /\ ~NothingGenerated =>
        /\ Len(output.response_mask) = Len(output.response_ids)
        /\ \A i \in DOMAIN output.response_ids :
              output.response_ids[i].by = IF output.response_mask[i] = 1 THEN "model" ELSE "tool"
        /\ \A i \in DOMAIN output.prompt_ids : output.prompt_ids[i] = Prompt

(* agent_loop.py:90-92 says of every response what MaskTellsTheModel says  *)
(* of those that are not empty: its tokens are the model's, with mask 1, or*)
(* a tool's, with mask 0.                                                  *)
EveryResponseTokenIsMasked ==
    output # None =>
        \A i \in DOMAIN output.response_ids :
            i \in DOMAIN output.response_mask /\ output.response_ids[i].by \in {"model", "tool"}

(* Over all turns a response that has log probabilities has one for each   *)
(* token: the model's where the model spoke, zero where a tool did.        *)
LogprobsAreAligned ==
    output # None /\ output.response_logprobs # << >> =>
        /\ Len(output.response_logprobs) = Len(output.response_mask)
        /\ \A i \in DOMAIN output.response_mask :
              (output.response_mask[i] = 1) <=> (output.response_logprobs[i] = "logprob")

(* However the budget of tokens was used up, the model always has room for *)
(* a token when it is asked, and so what is left of the response after the *)
(* cut ends with the model's tokens: no answer of a tool is trained on     *)
(* without the model's reaction.  The exception: if the last request was   *)
(* aborted before its first token, the response is short of its limit and  *)
(* may be empty or end with the answers that request was to react to.      *)
EndsWithTheModel ==
    /\ state = "GENERATING" => Room >= 1 /\ Len(response_mask) < ResponseLength
    /\ output # None =>
          \/ Aborts /\ Len(output.response_mask) < ResponseLength
          \/ output.response_mask[Len(output.response_mask)] = 1

(* The tokens that answer calls, and where one of them stands among them.  *)
Answered == {i \in DOMAIN prompt_ids : prompt_ids[i].by = "tool"}
Number(i) == Cardinality({j \in Answered : j <= i})

(* The concurrent calls may end in any order: their answers stand in the   *)
(* order of the calls, once each, and the rewards noted are those of these *)
(* answers and of one dropped turn at most.                                *)
AnswersAreInCallOrder ==
    /\ Cardinality(Answered) <= Len(tool_rewards)
    /\ \A i \in Answered : prompt_ids[i].call = tool_rewards[Number(i)]
    /\ \A n \in Cardinality(Answered) + 1 .. Len(tool_rewards) : tool_rewards[n][1] = user_turns
    /\ \A i, j \in Answered :
          i < j => \/ prompt_ids[i].call[1] < prompt_ids[j].call[1]
                  \/ /\ prompt_ids[i].call[1] = prompt_ids[j].call[1]
                     /\ prompt_ids[i].call[2] < prompt_ids[j].call[2]

(* The trainer is given as many images as the tokens have places for.      *)
ImagesHavePlaceholders ==
    image_data = Cardinality({i \in Answered : prompt_ids[i].placeholders = 1})

(* The versions reported bracket those that made the tokens of every turn. *)
VersionsBracketTheTrajectory ==
    \A i \in DOMAIN prompt_ids :
        prompt_ids[i].by = "model" =>
            extra_fields.min <= prompt_ids[i].version /\ prompt_ids[i].version <= extra_fields.max

(* Whatever the tool, its fellows or the run come to: an instance that was *)
(* created is released, or its release has failed.                         *)
EveryInstanceIsReleased ==
    \A i \in 1 .. MaxParallelCalls :
        (i \in DOMAIN calls /\ calls[i].at = "created")
            ~> (i \notin DOMAIN calls \/ calls[i].at \in {"done", "release failed"})
=============================================================================
