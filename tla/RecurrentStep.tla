---------------------------- MODULE RecurrentStep ----------------------------
(***************************************************************************)
(* One training step of the recurrent trainer, from the conversations that *)
(* the memory agent returns to the mini-batches that the actor is updated  *)
(* with: RayPPOTrainer.fit (verl/trainer/ppo/ray_trainer.py),              *)
(* compute_1D_grpo_advantage, apply_pass_reward_bonus, final_batch         *)
(* (recurrent/utils.py), and train_mini_batch on every data parallel rank  *)
(* (verl/workers/engine_workers.py).                                       *)
(* The step reorders, filters, pads and unpads the rows of the batch,      *)
(* which are tied to their samples by position only.                       *)
(* Operators introduced by "Slip:" are mistakes the properties notice.     *)
(***************************************************************************)
EXTENDS GracefulPadding, SequencesExt

CONSTANTS
    Prompts,       \* number of prompts of the batch
    RolloutN,      \* rollout.n: samples per prompt
    MaxPasses,     \* recurrent.max_passes
    CorrectReward, \* reward of a correct answer, in steps of the pass bonus
    FilterGroups,  \* algorithm.filter_groups.enable
    DpSize,        \* data parallel ranks
    UpdateSteps,   \* recurrent_update_steps_per_batch
    MicroBatch     \* micro batch size per GPU

SizesAssumption ==
    /\ Prompts \in Nat \ {0} /\ RolloutN \in Nat \ {0}
    /\ DpSize \in Nat \ {0} /\ UpdateSteps \in Nat \ {0} /\ MicroBatch \in Nat \ {0}
RewardAssumption == MaxPasses \in Nat \ {0} /\ CorrectReward \in Nat \ {0}
FilterAssumption == FilterGroups \in BOOLEAN

Samples == 1 .. Prompts * RolloutN
Uid(s)  == (s - 1) \div RolloutN + 1       \* repeat(interleave=True)
Group(s) == {t \in Samples : Uid(t) = Uid(s)}

VARIABLES
    stage,       \* where fit is
    correct,     \* samples whose answer is right
    passUsed,    \* passes of each sample
    batch,       \* rows: the conversation, its old_log_prob, its advantage
    finalMask, sampleIndex,
    reward,      \* reward_tensor.sum(-1), in the order of the samples
    padded,      \* pad_size, or the update batch's no_padding_mask
    work         \* mini-batches of each rank

vars == <<stage, correct, passUsed, batch, finalMask, sampleIndex, reward, padded, work>>

Row(s, turn) == [conv |-> <<s, turn>>, logProb |-> 0, adv |-> 0]

(* run_llm_loop returns turn after turn: the first conversation of every   *)
(* sample, the later ones of those that need more passes, and the final    *)
(* ones in whatever order they came.                                       *)
Init ==
    /\ stage = "generated"
    /\ correct \in SUBSET Samples
    /\ passUsed \in [Samples -> 1 .. MaxPasses]
    /\ \E last \in {f \in [Samples -> Samples] : \A s, t \in Samples : f[s] = f[t] => s = t} :
         LET n == Cardinality(Samples)
             every == [i \in 1 .. MaxPasses * n |-> Row(((i - 1) % n) + 1, (i - 1) \div n + 1)]
             turns == SelectSeq(every, LAMBDA row : row.conv[2] <= passUsed[row.conv[1]])
                      \o [s \in Samples |-> Row(last[s], passUsed[last[s]] + 1)]
         IN /\ batch = turns
            /\ finalMask = [i \in DOMAIN turns |-> i > Len(turns) - Len(last)]
            /\ sampleIndex = [i \in DOMAIN turns |-> turns[i].conv[1]]
    /\ reward = [s \in Samples |-> 0]
    /\ padded = 0 /\ work = << >>

(* Positions i of a sequence that satisfy a mask, in order.                *)
Kept(mask) == SelectSeq([i \in DOMAIN mask |-> i], LAMBDA i : mask[i])
Select(seq, idx) == [k \in DOMAIN idx |-> seq[idx[k]]]

(* final_batch: the final conversations, reordered by reverse_indices so   *)
(* that row s belongs to sample s.                                         *)
(* Slip: they are left in the order they came. *)
FinalBatchUnordered == Select(batch, Kept(finalMask))

FinalBatch ==
    LET finals == Kept(finalMask) IN
    [s \in Samples |-> batch[CHOOSE i \in Range(finals) : sampleIndex[i] = s]]

(* The score of an answer, and the bonus for few passes if it is correct.  *)
Reward(s) ==
    IF s \in correct
    THEN CorrectReward + (IF MaxPasses > 1 THEN MaxPasses - passUsed[s] ELSE 0)
    ELSE 0

ComputeReward ==
    /\ stage = "generated" /\ stage' = "rewarded"
    /\ reward' = [s \in Samples |-> Reward(FinalBatch[s].conv[1])]
    /\ UNCHANGED <<correct, passUsed, batch, finalMask, sampleIndex, padded, work>>

SumOf(S) == FoldSet(LAMBDA t, acc : reward[t] + acc, 0, S)

(* Prompts whose samples differ in reward, and those with one sample.      *)
(* Slip: they must differ in correctness. *)
KeptPromptsMixed ==
    {Uid(s) : s \in {t \in Samples : \E u \in Group(t) : (u \in correct) # (t \in correct)}}

KeptPrompts ==
    {Uid(s) : s \in {t \in Samples : RolloutN = 1 \/ \E u \in Group(t) : reward[u] # reward[t]}}

(* Slip: sample_index is left as it was. *)
FilterStaleIndex ==
    LET idx == Kept([i \in DOMAIN batch |-> Uid(sampleIndex[i]) \in KeptPrompts]) IN
    /\ stage = "rewarded" /\ FilterGroups /\ idx # << >>
    /\ stage' = "filtered"
    /\ batch' = Select(batch, idx)
    /\ finalMask' = Select(finalMask, idx)
    /\ UNCHANGED <<correct, passUsed, sampleIndex, reward, padded, work>>

Filter ==
    LET idx == Kept([i \in DOMAIN batch |-> Uid(sampleIndex[i]) \in KeptPrompts]) IN
    /\ stage = "rewarded" /\ FilterGroups /\ idx # << >>
    /\ stage' = "filtered"
    /\ batch' = Select(batch, idx)
    /\ finalMask' = Select(finalMask, idx)
    /\ sampleIndex' = Select(sampleIndex, idx)
    /\ UNCHANGED <<correct, passUsed, reward, padded, work>>

(* Nothing is left to train on: weights are refreshed, the step is over.   *)
SkipStep ==
    /\ stage = "rewarded" /\ FilterGroups /\ KeptPrompts = {}
    /\ stage' = "skipped"
    /\ UNCHANGED <<correct, passUsed, batch, finalMask, sampleIndex, reward, padded, work>>

NoFilter ==
    /\ stage = "rewarded" /\ ~ FilterGroups
    /\ stage' = "filtered"
    /\ UNCHANGED <<correct, passUsed, batch, finalMask, sampleIndex, reward, padded, work>>

(* pad_dataproto_to_divisor repeats rows from the start of the batch, as   *)
(* often as it takes.                                                      *)
PadToDivisor(seq, divisor) ==
    LET short == (divisor - (Len(seq) % divisor)) % divisor IN
    [i \in 1 .. Len(seq) + short |-> seq[((i - 1) % Len(seq)) + 1]]

(* Each rank computes the log probabilities of its chunk; they are joined  *)
(* to the rows by position.                                                *)
OldLogProb ==
    LET full == PadToDivisor(batch, DpSize * MicroBatch) IN
    /\ stage = "filtered" /\ stage' = "scored"
    /\ batch' = [i \in DOMAIN full |-> [full[i] EXCEPT !.logProb = full[i].conv]]
    /\ padded' = Len(full) - Len(batch)
    /\ UNCHANGED <<correct, passUsed, finalMask, sampleIndex, reward, work>>

(* compute_1D_grpo_advantage: distance from the prompt's mean reward, in   *)
(* units of 1/n (division by the group's deviation changes no sign and no  *)
(* order).  A prompt with one sample keeps its reward.                     *)
Advantage(s) ==
    IF RolloutN = 1 THEN reward[s] ELSE RolloutN * reward[s] - SumOf(Group(s))

(* Slip: the padding stays in the batch. *)
ComputeAdvantagePadded ==
    /\ stage = "scored" /\ stage' = "weighed"
    /\ batch' = [i \in DOMAIN batch |->
                   [batch[i] EXCEPT !.adv = IF i \in DOMAIN sampleIndex
                                            THEN Advantage(sampleIndex[i]) ELSE 0]]
    /\ UNCHANGED <<correct, passUsed, finalMask, sampleIndex, reward, padded, work>>

ComputeAdvantage ==
    /\ stage = "scored" /\ stage' = "weighed"
    /\ LET real == SubSeq(batch, 1, Len(batch) - padded) IN
       batch' = [i \in DOMAIN real |-> [real[i] EXCEPT !.adv = Advantage(sampleIndex[i])]]
    /\ UNCHANGED <<correct, passUsed, finalMask, sampleIndex, reward, padded, work>>

Divisor == DpSize * UpdateSteps * MicroBatch

(* batch[padding_index]: a dummy is a copy of the last row, with an empty  *)
(* response mask.                                                          *)
(* Slip: the mask of a dummy is left as it was copied. *)
UpdateRowsUnmasked ==
    LET idx == PaddingIndex(Len(batch), Divisor) IN
    [i \in DOMAIN idx |-> [row  |-> IF idx[i] = 0 THEN batch[Len(batch)] ELSE batch[idx[i]],
                           real |-> TRUE]]

(* Slip: the dummies are put at the end. *)
UpdateRowsAtEnd ==
    LET full == PadToDivisor(batch, Divisor) IN
    [i \in DOMAIN full |-> [row |-> full[i], real |-> i <= Len(batch)]]

UpdateRows ==
    LET mask == NoPaddingMask(Len(batch), Divisor)
        idx  == PaddingIndex(Len(batch), Divisor) IN
    [i \in DOMAIN idx |-> [row  |-> IF idx[i] = 0 THEN batch[Len(batch)] ELSE batch[idx[i]],
                           real |-> mask[i]]]

(* The dispatch gives every rank an equal chunk, and the rank splits it    *)
(* into num_mini_batch parts (tensor_split: the first are longer).         *)
MiniBatch(chunk, k) ==
    LET n == Len(chunk)  q == n \div UpdateSteps  r == n % UpdateSteps
        Start(j) == j * q + (IF j < r THEN j ELSE r) IN
    SubSeq(chunk, Start(k - 1) + 1, Start(k))

(* Slip: the batch is padded for the ranks only. *)
UpdateActorCoarse ==
    LET rows == [i \in DOMAIN PadToDivisor(batch, DpSize) |->
                   [row |-> PadToDivisor(batch, DpSize)[i], real |-> i <= Len(batch)]]
        size == Len(rows) \div DpSize IN
    /\ stage = "weighed" /\ stage' = "updated"
    /\ work' = [rank \in 1 .. DpSize |-> [k \in 1 .. UpdateSteps |->
                  MiniBatch(SubSeq(rows, (rank - 1) * size + 1, rank * size), k)]]
    /\ UNCHANGED <<correct, passUsed, batch, finalMask, sampleIndex, reward, padded>>

UpdateActor ==
    LET rows == UpdateRows  size == Len(rows) \div DpSize IN
    /\ stage = "weighed" /\ stage' = "updated"
    /\ work' = [rank \in 1 .. DpSize |-> [k \in 1 .. UpdateSteps |->
                  MiniBatch(SubSeq(rows, (rank - 1) * size + 1, rank * size), k)]]
    /\ UNCHANGED <<correct, passUsed, batch, finalMask, sampleIndex, reward, padded>>

Next ==
    \/ ComputeReward \/ Filter \/ SkipStep \/ NoFilter
    \/ OldLogProb \/ ComputeAdvantage \/ UpdateActor

Spec == Init /\ [][Next]_vars
-----------------------------------------------------------------------------
Ranks == 1 .. DpSize
Minis == 1 .. UpdateSteps

RowsInWork ==
    {x \in Ranks \X Minis \X (1 .. Len(work[1][1]) + MicroBatch) :
        x[3] \in DOMAIN work[x[1]][x[2]]}
At(x) == work[x[1]][x[2]][x[3]]
RealIn(rank, k) == {i \in DOMAIN work[rank][k] : work[rank][k][i].real}

(* Types: the masks and indices have a row for each row of the batch, and  *)
(* every sample that is left has one final conversation.                   *)
TypeOK ==
    /\ stage \in {"generated", "rewarded", "filtered", "skipped", "scored", "weighed", "updated"}
    /\ Len(finalMask) = Len(sampleIndex)
    /\ Len(batch) = Len(sampleIndex) + (IF stage = "scored" THEN padded ELSE 0)
    /\ \A s \in Range(sampleIndex) :
         Cardinality({i \in DOMAIN sampleIndex : finalMask[i] /\ sampleIndex[i] = s}) = 1

(* Rewards go to the samples that earned them, whatever the order in which *)
(* the final conversations came: a wrong answer gets nothing, a correct one*)
(* more than any wrong one, and of two correct ones the one that used      *)
(* fewer passes gets more.                                                 *)
RewardsFollowTheSamples ==
    stage # "generated" =>
        \A s, t \in Samples :
            /\ s \notin correct => reward[s] = 0
            /\ s \in correct /\ t \notin correct => reward[s] > reward[t]
            /\ s \in correct /\ t \in correct /\ passUsed[s] < passUsed[t] => reward[s] > reward[t]

(* The filter drops whole prompts and only those that would teach nothing: *)
(* all their samples have the same reward.  Of a prompt that is kept every *)
(* conversation is kept.                                                   *)
FilterDropsNoSignal ==
    stage \in {"filtered", "skipped"} =>
        \A s \in Samples :
            \/ \A turn \in 1 .. passUsed[s] + 1 :
                 \E i \in DOMAIN batch : batch[i].conv = <<s, turn>>
            \/ \A t \in Group(s) : reward[t] = reward[s]

(* After reordering, filtering, padding and unpadding every row of a       *)
(* sample carries the sample's advantage and its own log probabilities:    *)
(* rows of one prompt are ordered as the rewards of their samples, rows of *)
(* one sample agree, and a row whose sample is average gets nothing.       *)
AdvantagesFollowTheSamples ==
    stage \in {"weighed", "updated"} =>
        \A i \in DOMAIN batch :
            LET s == batch[i].conv[1] IN
            /\ batch[i].logProb = batch[i].conv
            /\ RolloutN > 1 /\ (\A t \in Group(s) : reward[t] = reward[s]) => batch[i].adv = 0
            /\ \A j \in DOMAIN batch :
                 LET t == batch[j].conv[1] IN
                 t \in Group(s) => /\ reward[s] = reward[t] => batch[i].adv = batch[j].adv
                                   /\ reward[s] > reward[t] => batch[i].adv > batch[j].adv

(* Every row of the batch takes part in the update once, on one rank, and  *)
(* nothing else does: the dummies are masked out.                          *)
EveryRowIsTrainedOnce ==
    stage = "updated" =>
        \A i \in DOMAIN batch :
            Cardinality({x \in RowsInWork : At(x).real /\ At(x).row = batch[i]}) = 1

(* The ranks run the same number of full micro-batches in every mini-batch,*)
(* as the collective operations of the update require.                     *)
RanksStayAligned ==
    stage = "updated" =>
        \A k \in Minis, rank \in Ranks :
            /\ Len(work[rank][k]) = Len(work[1][k])
            /\ Len(work[rank][k]) > 0 /\ Len(work[rank][k]) % MicroBatch = 0

(* The loss of a mini-batch is divided by the number of its real rows.  A  *)
(* batch with a row for every group leaves none of them without, on any    *)
(* rank; a smaller one, as the filter may leave, only when it is too small *)
(* to reach into the mini-batches of the first rank.                       *)
NoMiniBatchIsAllDummies ==
    stage = "updated" =>
        /\ Len(batch) >= Divisor =>
             \A rank \in Ranks, k \in Minis : Cardinality(RealIn(rank, k)) >= MicroBatch
        /\ \A k \in Minis :
             (\A rank \in Ranks : RealIn(rank, k) = {}) => Len(batch) <= (k - 1) * MicroBatch
=============================================================================
