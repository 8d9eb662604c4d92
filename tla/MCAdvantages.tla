---------------------------- MODULE MCAdvantages ----------------------------
(***************************************************************************)
(* The advantage estimators a run is configured with: those that look at   *)
(* the tokens of one response, those that compare the responses to a       *)
(* prompt, and the optimal baseline.  A behaviour is one of the chosen     *)
(* model; the variables of the others hold None.  MCBatches runs them.     *)
(***************************************************************************)
EXTENDS Integers, Sequences

CONSTANT None

VARIABLES
    model,   \* the model that runs
    t_stage, t_last, t_generated, t_mask, t_rewards, t_values, t_estimator, t_advantages, t_returns,
    g_uid, g_session, g_turn, g_score, g_length, g_estimator, g_advantage,
    b_mask, b_rewards, b_energy, b_estimator, b_baselines

(* Five positions; the discounts tell each power of them from the others.   *)
Tokens == INSTANCE TokenAdvantages WITH
    Length <- 5, Scores <- {0, 1}, Values <- {0, 1}, Klds <- {0, 1}, Gamma <- 2, Lam <- 3,
    stage <- t_stage, last <- t_last, generated <- t_generated, mask <- t_mask,
    rewards <- t_rewards, values <- t_values, estimator <- t_estimator,
    advantages <- t_advantages, returns <- t_returns

(* Up to four responses to two prompts, one or two outputs per session; the *)
(* first response is to p1 and of session 1, as prompts and sessions have no*)
(* other name of their own.                                                 *)
Groups == INSTANCE GroupAdvantages WITH
    MaxRows <- 4, Prompts <- {"p1", "p2"}, Scores <- {0, 1, 3}, Lengths <- {0, 2},
    uid <- g_uid, session <- g_session, turn <- g_turn, score <- g_score, length <- g_length,
    estimator <- g_estimator, advantage <- g_advantage

(* Up to three responses of up to three tokens, which are sure of all their *)
(* tokens alike, or less and less so.                                       *)
Baseline == INSTANCE OptimalBaseline WITH
    MaxRows <- 3, Length <- 3, Scores <- {0, 1}, Energies <- {<<1, 1, 1>>, <<2, 3, 4>>},
    mask <- b_mask, rewards <- b_rewards, energy <- b_energy, estimator <- b_estimator,
    baselines <- b_baselines

InstancesAssumption ==
    /\ Tokens!LengthAssumption /\ Tokens!NumbersAssumption
    /\ Groups!RowsAssumption /\ Groups!NumbersAssumption
    /\ Baseline!SizesAssumption /\ Baseline!NumbersAssumption

tokenVars    == <<t_stage, t_last, t_generated, t_mask, t_rewards, t_values, t_estimator,
                  t_advantages, t_returns>>
groupVars    == <<g_uid, g_session, g_turn, g_score, g_length, g_estimator, g_advantage>>
baselineVars == <<b_mask, b_rewards, b_energy, b_estimator, b_baselines>>

NoTokens ==
    /\ t_stage = None /\ t_last = None /\ t_generated = None /\ t_mask = None
    /\ t_rewards = None /\ t_values = None /\ t_estimator = None /\ t_advantages = None
    /\ t_returns = None
NoGroups ==
    /\ g_uid = None /\ g_session = None /\ g_turn = None /\ g_score = None /\ g_length = None
    /\ g_estimator = None /\ g_advantage = None
NoBaseline ==
    /\ b_mask = None /\ b_rewards = None /\ b_energy = None /\ b_estimator = None
    /\ b_baselines = None
NoEstimator == NoTokens /\ NoGroups /\ NoBaseline

InitOfAll ==
    \/ model = "tokens" /\ Tokens!Init /\ NoGroups /\ NoBaseline
    \/ model = "responses" /\ Groups!Init /\ g_uid[1] = "p1" /\ g_session[1] = 1 /\ NoTokens /\ NoBaseline
    \/ model = "baseline" /\ Baseline!Init /\ NoTokens /\ NoGroups

NextOfOne ==
    /\ UNCHANGED model
    /\ \/ model = "tokens" /\ Tokens!Next /\ UNCHANGED <<groupVars, baselineVars>>
       \/ model = "responses" /\ Groups!Next /\ UNCHANGED <<tokenVars, baselineVars>>
       \/ model = "baseline" /\ Baseline!Next /\ UNCHANGED <<tokenVars, groupVars>>

-----------------------------------------------------------------------------
(* GAE: observations and rejected tokens are as if they were not there.     *)
GaeSkipsOtherTokens == model = "tokens" => Tokens!GaeSkipsOtherTokens

(* REINFORCE++: a token is credited with the discounted rewards of the run  *)
(* of trained tokens it is in.                                              *)
ReturnsStayInTheRun == model = "tokens" => Tokens!ReturnsStayInTheRun

(* ReMax: what tokens may expect differs by the rewards of trained tokens.  *)
RemaxCountsTrainedRewards == model = "tokens" => Tokens!RemaxCountsTrainedRewards

(* RLOO, in a loop or all at once: a response is compared with the others.  *)
LeavesOneOut == model = "responses" => Groups!LeavesOneOut

(* Advantages of a group add up to 0, under OPO weighted with the tokens.   *)
GroupsAreBalanced == model = "responses" => Groups!GroupsAreBalanced

(* Pass@k: only a response better than every other has an advantage.        *)
OnlyTheBestCounts == model = "responses" => Groups!OnlyTheBestCounts

(* Sessions: outputs share an advantage, the sessions of a prompt are       *)
(* balanced however many outputs they have.                                 *)
SessionsAreBalanced == model = "responses" => Groups!SessionsAreBalanced

(* Optimal baseline: the advantages of the kth tokens, weighted with the    *)
(* energies, cancel out, whatever stands between them (in the one-turn form:*)
(* when nothing does).                                                      *)
BaselineIsOptimal == model = "baseline" => Baseline!BaselineIsOptimal

(* Optimal baseline: a token without a counterpart keeps its return; in the *)
(* one-turn form, when nothing but the model's own tokens is in between.    *)
TailKeepsItsReturn == model = "baseline" => Baseline!TailKeepsItsReturn

(* Only trained tokens are credited, and each with what the estimator       *)
(* defines, wherever observations and rejected tokens stand.                *)
TokensAreCredited ==
    /\ model = "tokens" => Tokens!TypeOK
    /\ GaeSkipsOtherTokens /\ ReturnsStayInTheRun /\ RemaxCountsTrainedRewards

(* Responses are compared with the others of their group, for groups of     *)
(* one, ties, empty responses and sessions of several outputs as well; a    *)
(* denominator is 0 only where no token can notice.                         *)
GroupsAreCompared ==
    /\ model = "responses" => Groups!TypeOK
    /\ LeavesOneOut /\ GroupsAreBalanced /\ OnlyTheBestCounts /\ SessionsAreBalanced

(* The optimal baseline is optimal where it applies, and absent elsewhere.  *)
BaselinesFit ==
    /\ model = "baseline" => Baseline!TypeOK
    /\ BaselineIsOptimal /\ TailKeepsItsReturn
=============================================================================
