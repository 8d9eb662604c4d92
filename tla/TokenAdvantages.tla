-------------------------- MODULE TokenAdvantages --------------------------
(***************************************************************************)
(* What a step of training makes of one response before the actor is       *)
(* updated: the score on its last token, the KL penalty, the rejection of  *)
(* tokens by the rollout correction, and the advantage of every token      *)
(* (fit and apply_kl_penalty of verl/trainer/ppo/ray_trainer.py,           *)
(* compute_gae_advantage_return, compute_reinforce_plus_plus_outcome_      *)
(* advantage and compute_remax_outcome_advantage of                        *)
(* verl/trainer/ppo/core_algos.py), up to the whitening.                   *)
(* Numbers are integers: every estimator is a polynomial in them.          *)
(* Operators introduced by "Slip:" are mistakes the properties notice.     *)
(***************************************************************************)
EXTENDS Integers, Sequences, FiniteSetsExt, SequencesExt

CONSTANTS
    Length,    \* response length, padding included
    Scores,    \* scores of a response
    Values,    \* values of the critic
    Klds,      \* KL estimates of a token, times the coefficient
    Gamma, Lam

LengthAssumption == Length \in Nat \ {0}
NumbersAssumption ==
    Scores \cup Values \cup Klds \subseteq Int /\ Gamma \in Nat /\ Lam \in Nat

Positions  == 1 .. Length
Estimators == {"gae", "reinforce_plus_plus", "remax"}

VARIABLES
    stage,      \* "scored", "penalised", "corrected", "done"
    last,       \* the last token before the padding
    generated,  \* the tokens the model generated; the others before last are observations
    mask,       \* response_mask
    rewards,    \* token_level_scores, then token_level_rewards
    values,     \* of the critic
    estimator,  \* adv_estimator
    advantages, returns

vars == <<stage, last, generated, mask, rewards, values, estimator, advantages, returns>>

Zeros == [t \in Positions |-> 0]
Masked(f) == [t \in Positions |-> f[t] * mask[t]]

(* A response starts with the model's tokens and ends with them.            *)
Init ==
    /\ stage = "scored" /\ last \in Positions
    /\ generated \in SUBSET (1 .. last)
    /\ {1, last} \subseteq generated
    /\ mask = [t \in Positions |-> IF t \in generated THEN 1 ELSE 0]
    /\ \E s \in Scores : rewards = [Zeros EXCEPT ![last] = s]
    /\ values = Zeros /\ estimator = "none"
    /\ advantages = Zeros /\ returns = Zeros

ApplyKlPenalty ==
    /\ stage = "scored" /\ stage' = "penalised"
    /\ \E kld \in [Positions -> Klds] :
         rewards' = [t \in Positions |-> rewards[t] - Masked(kld)[t]]
    /\ UNCHANGED <<last, generated, mask, values, estimator, advantages, returns>>

(* Token-level or sequence-level: the mask loses any of its tokens.         *)
Correct ==
    /\ stage \in {"scored", "penalised"} /\ stage' = "corrected"
    /\ \E rejected \in SUBSET generated :
         mask' = [t \in Positions |-> IF t \in rejected THEN 0 ELSE mask[t]]
    /\ UNCHANGED <<last, generated, rewards, values, estimator, advantages, returns>>

(* The loop of compute_gae_advantage_return, from the last token to the     *)
(* first: lastgaelam and nextvalues after position t.                       *)
(* Slip: the value of an observation is the next value. *)
GaeOverEveryValue(v) ==
    LET from[t \in 1 .. Length + 1] ==
          IF t > Length THEN [lastgaelam |-> 0, nextvalues |-> 0]
          ELSE LET later == from[t + 1]
                   delta == rewards[t] + Gamma * later.nextvalues - v[t]
               IN  [lastgaelam |-> IF mask[t] = 1 THEN delta + Gamma * Lam * later.lastgaelam
                                   ELSE later.lastgaelam,
                    nextvalues |-> v[t]]
    IN  from

Gae(v) ==
    LET from[t \in 1 .. Length + 1] ==
          IF t > Length THEN [lastgaelam |-> 0, nextvalues |-> 0]
          ELSE LET later == from[t + 1]
                   delta == rewards[t] + Gamma * later.nextvalues - v[t]
               IN  IF mask[t] = 1
                   THEN [lastgaelam |-> delta + Gamma * Lam * later.lastgaelam, nextvalues |-> v[t]]
                   ELSE later
    IN  from

EstimateGae ==
    /\ stage # "done" /\ stage' = "done" /\ estimator' = "gae"
    /\ values' \in [Positions -> Values]
    /\ LET gae == Gae(values') IN
         /\ advantages' = [t \in Positions |-> gae[t].lastgaelam]
         /\ returns' = [t \in Positions |-> gae[t].lastgaelam + values'[t]]
    /\ UNCHANGED <<last, generated, mask, rewards>>

(* The loop of REINFORCE++: running_return before it is reset.              *)
(* Slip: the discount is forgotten. *)
RunningReturnUndiscounted ==
    LET from[t \in 1 .. Length + 1] ==
          IF t > Length THEN 0
          ELSE rewards[t] + (IF t < Length /\ mask[t + 1] = 0 THEN 0 ELSE from[t + 1])
    IN  from

RunningReturn ==
    LET from[t \in 1 .. Length + 1] ==
          IF t > Length THEN 0
          ELSE rewards[t]
                 + Gamma * (IF t < Length /\ mask[t + 1] = 0 THEN 0 ELSE from[t + 1])
    IN  from

EstimateReinforcePlusPlus ==
    /\ stage # "done" /\ stage' = "done" /\ estimator' = "reinforce_plus_plus"
    /\ returns' = [t \in Positions |-> RunningReturn[t]]
    /\ advantages' = [t \in Positions |-> RunningReturn[t] * mask[t]]
    /\ UNCHANGED <<last, generated, mask, rewards, values>>

SumFrom(f, t) == MapThenSumSet(LAMBDA j : f[j], t .. Length)

(* Slip: rewards of tokens that are masked count. *)
RewardsToGoUnmasked == [t \in Positions |-> SumFrom(rewards, t)]

RewardsToGo == [t \in Positions |-> SumFrom(Masked(rewards), t)]

(* The baseline is the score of the greedy answer.                          *)
EstimateRemax ==
    /\ stage # "done" /\ stage' = "done" /\ estimator' = "remax"
    /\ returns' = RewardsToGo
    /\ \E baseline \in Scores :
         advantages' = [t \in Positions |-> RewardsToGo[t] - baseline * mask[t]]
    /\ UNCHANGED <<last, generated, mask, rewards, values>>

Next ==
    \/ ApplyKlPenalty \/ Correct
    \/ EstimateGae \/ EstimateReinforcePlusPlus \/ EstimateRemax

Spec == Init /\ [][Next]_vars
-----------------------------------------------------------------------------
TypeOK ==
    /\ stage \in {"scored", "penalised", "corrected", "done"}
    /\ last \in Positions /\ generated \subseteq Positions
    /\ mask \in [Positions -> {0, 1}] /\ estimator \in Estimators \cup {"none"}
    /\ {rewards, values, advantages, returns} \subseteq [Positions -> Int]

Trained == {t \in Positions : mask[t] = 1}
(* Tokens of the mask from i up to before j: how far j is from i, without  *)
(* what is between them that is not trained.                               *)
Steps(i, j) == Cardinality({t \in Trained : i <= t /\ t < j})
NextValue(i) ==
    LET later == {t \in Trained : t > i} IN IF later = {} THEN 0 ELSE values[Min(later)]
TdError(i) == rewards[i] + Gamma * NextValue(i) - values[i]

(* Observations of tools and rejected tokens are as if they were not there: *)
(* the advantage of a token is the sum of the errors of the trained tokens  *)
(* from it on, each discounted by the number of trained tokens in between,  *)
(* however the mask is broken up.                                           *)
GaeSkipsOtherTokens ==
    stage = "done" /\ estimator = "gae" =>
      \A i \in Trained :
        advantages[i] = MapThenSumSet(LAMBDA j : (Gamma * Lam)^Steps(i, j) * TdError(j),
                                      {j \in Trained : j >= i})

(* REINFORCE++ credits a token with the discounted rewards up to the end of *)
(* the run of trained tokens it is in, and with nothing of what follows.    *)
RunFrom(i) == {j \in Trained : j >= i /\ i .. j \subseteq Trained}
ReturnsStayInTheRun ==
    stage = "done" /\ estimator = "reinforce_plus_plus" =>
      \A i \in Trained :
        returns[i] = MapThenSumSet(LAMBDA j : Gamma^(j - i) * rewards[j], RunFrom(i))

(* ReMax: tokens of one turn or several, what a trained token may expect    *)
(* differs from the next trained token by its own reward and nothing else.  *)
RemaxCountsTrainedRewards ==
    stage = "done" /\ estimator = "remax" =>
      \A i \in Trained : \A j \in Trained :
        i < j /\ Steps(i, j) = 1 => advantages[i] - advantages[j] = rewards[i]
=============================================================================
