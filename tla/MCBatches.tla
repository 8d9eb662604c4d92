------------------------------ MODULE MCBatches ------------------------------
(***************************************************************************)
(* What is done to the rows of a batch on their way to the workers and to  *)
(* the loss: the recurrent step, a padded generation, the partitioning by  *)
(* work (BalancedPartitions), alone, for micro-batches and for ranks, and  *)
(* the advantage estimators (MCAdvantages).                                *)
(* A behaviour is one of the chosen model; the variables of the others     *)
(* hold None.                                                              *)
(***************************************************************************)
EXTENDS BalancedPartitions, Sequences

CONSTANT None

VARIABLES
    model,   \* the model that runs
    s_stage, s_correct, s_passUsed, s_batch, s_finalMask, s_sampleIndex, s_reward, s_padded, s_work,
    p_bsz, p_groups, p_stage, p_share, p_answered, p_output,
    lens, m_size, m_limit, m_balance, m_least, m_others, m_divisor, m_stage, m_batches, m_restored,
    r_n, r_grouper, r_batch, r_ranks,
    t_stage, t_last, t_generated, t_mask, t_rewards, t_values, t_estimator, t_advantages, t_returns,
    g_uid, g_session, g_turn, g_score, g_length, g_estimator, g_advantage,
    b_mask, b_rewards, b_energy, b_estimator, b_baselines

(* Two prompts with two samples each, of up to two passes, filtered.        *)
Groups == INSTANCE RecurrentStep WITH
    Prompts <- 2, RolloutN <- 2, MaxPasses <- 2, CorrectReward <- 2, FilterGroups <- TRUE,
    DpSize <- 2, UpdateSteps <- 2, MicroBatch <- 2,
    stage <- s_stage, correct <- s_correct, passUsed <- s_passUsed, batch <- s_batch,
    finalMask <- s_finalMask, sampleIndex <- s_sampleIndex, reward <- s_reward,
    padded <- s_padded, work <- s_work

(* Three prompts with one sample each, of up to three passes.               *)
Singles == INSTANCE RecurrentStep WITH
    Prompts <- 3, RolloutN <- 1, MaxPasses <- 3, CorrectReward <- 2, FilterGroups <- FALSE,
    DpSize <- 2, UpdateSteps <- 3, MicroBatch <- 1,
    stage <- s_stage, correct <- s_correct, passUsed <- s_passUsed, batch <- s_batch,
    finalMask <- s_finalMask, sampleIndex <- s_sampleIndex, reward <- s_reward,
    padded <- s_padded, work <- s_work

(* Every batch of up to 13 rows on every group of up to five workers.       *)
Padded == INSTANCE PaddedGeneration WITH
    MaxRows <- 13, MaxGroups <- 5,
    bsz <- p_bsz, groups <- p_groups, stage <- p_stage, share <- p_share, answered <- p_answered,
    output <- p_output

(* Up to four samples, alone or in groups of two.                           *)
Micro == INSTANCE MicroBatches WITH
    MaxItems <- 4, MaxSets <- 4, Workloads <- {}, MaxSamples <- 4, Lengths <- {1, 2, 3},
    Limits <- {4}, GroupSizes <- {1, 2}, AtLeast <- {0, 2}, Divisors <- {1, 2},
    size <- m_size, limit <- m_limit, balance <- m_balance, least <- m_least, others <- m_others,
    divisor <- m_divisor, stage <- m_stage, batches <- m_batches, restored <- m_restored

(* Up to six rows on up to three ranks, of one or two responses per prompt. *)
Ranks == INSTANCE RankBalance WITH
    MaxItems <- 6, MaxSets <- 3, Workloads <- {}, MaxRows <- 6, Lengths <- {1, 2, 4},
    RolloutNs <- {1, 2},
    n <- r_n, grouper <- r_grouper, batch <- r_batch, ranks <- r_ranks

(* The models "tokens", "responses" and "baseline".                         *)
Estimators == INSTANCE MCAdvantages

ASSUME InstancesAssumption ==
    /\ Groups!SizesAssumption /\ Groups!RewardAssumption /\ Groups!FilterAssumption
    /\ Singles!SizesAssumption /\ Singles!RewardAssumption /\ Singles!FilterAssumption
    /\ Padded!BoundsAssumption
    /\ ItemsAssumption /\ WorkloadsAssumption
    /\ Micro!SamplesAssumption /\ Micro!NumbersAssumption
    /\ Ranks!RowsAssumption /\ Ranks!LengthsAssumption
    /\ Estimators!InstancesAssumption

stepVars   == <<s_stage, s_correct, s_passUsed, s_batch, s_finalMask, s_sampleIndex, s_reward,
                s_padded, s_work>>
paddedVars == <<p_bsz, p_groups, p_stage, p_share, p_answered, p_output>>
microVars  == <<m_size, m_limit, m_balance, m_least, m_others, m_divisor, m_stage, m_batches,
                m_restored>>
rankVars   == <<r_n, r_grouper, r_batch, r_ranks>>
otherVars  == <<stepVars, paddedVars, vars, lens, microVars, rankVars>>
estimatorVars ==
    <<t_stage, t_last, t_generated, t_mask, t_rewards, t_values, t_estimator, t_advantages,
      t_returns, g_uid, g_session, g_turn, g_score, g_length, g_estimator, g_advantage,
      b_mask, b_rewards, b_energy, b_estimator, b_baselines>>
allVars    == <<model, otherVars, estimatorVars>>

NoStep ==
    /\ s_stage = None /\ s_correct = None /\ s_passUsed = None /\ s_batch = None
    /\ s_finalMask = None /\ s_sampleIndex = None /\ s_reward = None /\ s_padded = None
    /\ s_work = None
NoPadding ==
    /\ p_bsz = None /\ p_groups = None /\ p_stage = None /\ p_share = None /\ p_answered = None
    /\ p_output = None
NoSets  == workload = None /\ k = None /\ equal = None /\ pool = None
NoMicro ==
    /\ m_size = None /\ m_limit = None /\ m_balance = None /\ m_least = None /\ m_others = None
    /\ m_divisor = None /\ m_stage = None /\ m_batches = None /\ m_restored = None
NoRanks == r_n = None /\ r_grouper = None /\ r_batch = None /\ r_ranks = None

(* What has no advantages.                                                  *)
InitOther ==
    \/ /\ model = "groups" /\ Groups!Init
       /\ NoPadding /\ NoSets /\ lens = None /\ NoMicro /\ NoRanks
    \/ /\ model = "singles" /\ Singles!Init
       /\ NoPadding /\ NoSets /\ lens = None /\ NoMicro /\ NoRanks
    \/ /\ model = "padded" /\ Padded!Init
       /\ NoStep /\ NoSets /\ lens = None /\ NoMicro /\ NoRanks
    \/ /\ model = "sets" /\ Init
       /\ NoStep /\ NoPadding /\ lens = None /\ NoMicro /\ NoRanks
    \/ /\ model = "micro" /\ Micro!InitMicroBatches
       /\ NoStep /\ NoPadding /\ NoRanks
    \/ /\ model = "ranks" /\ Ranks!InitBalance
       /\ NoStep /\ NoPadding /\ NoMicro

InitOfAll ==
    \/ InitOther /\ Estimators!NoEstimator
    \/ /\ Estimators!InitOfAll
       /\ NoStep /\ NoPadding /\ NoSets /\ lens = None /\ NoMicro /\ NoRanks

NextOther ==
    \/ /\ model = "groups" /\ Groups!Next
       /\ UNCHANGED <<paddedVars, vars, lens, microVars, rankVars>>
    \/ /\ model = "singles" /\ Singles!Next
       /\ UNCHANGED <<paddedVars, vars, lens, microVars, rankVars>>
    \/ /\ model = "padded" /\ Padded!Next
       /\ UNCHANGED <<stepVars, vars, lens, microVars, rankVars>>
    \/ /\ model = "sets" /\ Next
       /\ UNCHANGED <<stepVars, paddedVars, lens, microVars, rankVars>>
    \/ /\ model = "micro" /\ Micro!NextMicroBatches
       /\ UNCHANGED <<stepVars, paddedVars, rankVars>>
    \/ /\ model = "ranks" /\ Ranks!NextBalance
       /\ UNCHANGED <<stepVars, paddedVars, microVars>>

NextOfOne ==
    /\ UNCHANGED model
    /\ \/ NextOther /\ UNCHANGED estimatorVars
       \/ Estimators!NextOfOne /\ UNCHANGED otherVars

SpecOfAll == InitOfAll /\ [][NextOfOne]_allVars
-----------------------------------------------------------------------------
(* Recurrent step: rewards go to the samples that earned them, whatever the *)
(* order of the final conversations.                                        *)
RewardsFollowTheSamples == model = "groups" => Groups!RewardsFollowTheSamples

(* Recurrent step: only prompts whose samples all have the same reward are  *)
(* dropped, and of the others no conversation.                              *)
FilterDropsNoSignal == model = "groups" => Groups!FilterDropsNoSignal

(* Recurrent step: after reordering, filtering, padding and unpadding every *)
(* row has its sample's advantage and its own log probabilities.            *)
AdvantagesFollowTheSamples == model = "groups" => Groups!AdvantagesFollowTheSamples

(* Recurrent step: every row takes part in the update once, on one rank.    *)
EveryRowIsTrainedOnce ==
    /\ model = "groups" => Groups!EveryRowIsTrainedOnce
    /\ model = "singles" => Singles!EveryRowIsTrainedOnce

(* Recurrent step: all ranks run as many full micro-batches.                *)
RanksStayAligned == model = "groups" => Groups!RanksStayAligned

(* Recurrent step: no loss is divided by a count of no rows, unless the     *)
(* filter left too few rows.                                                *)
NoMiniBatchIsAllDummies == model = "groups" => Groups!NoMiniBatchIsAllDummies

(* Padded generation: workers are sent as many rows, one dummy at most.     *)
SharesAreEven == model = "padded" => Padded!SharesAreEven

(* Padded generation: what comes back is the batch in its order.            *)
OutputIsTheBatch == model = "padded" => Padded!OutputIsTheBatch

(* Micro-batches: there are never more than groups to fill them.            *)
EnoughGroups == model = "micro" => Micro!EnoughGroups

(* Micro-batches: their number fits what every rank asked for.              *)
EveryRankIsServed == model = "micro" => Micro!EveryRankIsServed

(* Micro-batches: outputs come back in the order of the samples.            *)
RestoredInOrder == model = "micro" => Micro!RestoredInOrder

(* Micro-batches: the samples of a group are neighbours in one of them.     *)
GroupsStayTogether == model = "micro" => Micro!GroupsStayTogether

(* Micro-batches: their work rises and then falls.                          *)
BatchesAreSmallerAtTheEnds == model = "micro" => Micro!SmallerAtTheEnds

(* Micro-batches: none has more than an even share and one group's work.    *)
WorkIsShared == model = "micro" => Micro!WorkIsShared

(* Ranks: every row is trained on by one rank, once, all have as many.      *)
EveryRowOnOneRank == model = "ranks" => Ranks!EveryRowOnOneRank

(* Ranks: the responses to a prompt that are to share it are neighbours.    *)
PromptsStayTogether == model = "ranks" => Ranks!PromptsStayTogether

(* Ranks: the cut keeps the balance of the partitions.                      *)
RanksShareTheWork == model = "ranks" => Ranks!RanksShareTheWork

(* Ranks: the work of the rows of a rank rises and then falls.              *)
RowsAreSmallerAtTheEnds == model = "ranks" => Ranks!SmallerAtTheEnds

(* However a batch is reordered, filtered, padded and cut, every row is     *)
(* trained on once, with the reward and the advantage of its sample, and no *)
(* rank waits for another.                                                  *)
RowsKeepTheirSample ==
    /\ model = "groups" => Groups!TypeOK
    /\ model = "singles" => Singles!TypeOK
    /\ RewardsFollowTheSamples /\ FilterDropsNoSignal /\ AdvantagesFollowTheSamples
    /\ EveryRowIsTrainedOnce /\ RanksStayAligned /\ NoMiniBatchIsAllDummies
    /\ SharesAreEven /\ OutputIsTheBatch

(* Partitioning: a partition indeed, as fair as the largest item allows.    *)
PartitionsAreFair ==
    model = "sets" =>
        TypeOK /\ EveryItemOnce /\ SumsAreOfTheItems /\ NoneIsEmpty /\ EqualSizes /\ SpreadIsBounded

(* Micro-batches: as many as every rank asked for, none without a sample,   *)
(* with balanced work, and undone afterwards.                               *)
MicroBatchesCanBeUndone ==
    /\ EnoughGroups /\ EveryRankIsServed /\ RestoredInOrder /\ GroupsStayTogether
    /\ BatchesAreSmallerAtTheEnds /\ WorkIsShared

(* Ranks: the dispatch cuts the reordered rows where the partitions end.    *)
RanksAreBalanced ==
    EveryRowOnOneRank /\ PromptsStayTogether /\ RanksShareTheWork /\ RowsAreSmallerAtTheEnds

(* Only trained tokens are credited, and each with what the estimator       *)
(* defines, wherever observations and rejected tokens stand.                *)
TokensAreCredited == Estimators!TokensAreCredited

(* Responses are compared with the others of their group, for groups of     *)
(* one, ties, empty responses and sessions of several outputs as well; a    *)
(* denominator is 0 only where no token can notice.                         *)
GroupsAreCompared == Estimators!GroupsAreCompared

(* The optimal baseline is optimal where it applies, and absent elsewhere.  *)
BaselinesFit == Estimators!BaselinesFit
=============================================================================
