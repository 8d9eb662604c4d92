---------------------------- MODULE MicroBatches ----------------------------
(***************************************************************************)
(* One rank's forward pass over micro-batches of about the same work:      *)
(* rearrange_micro_batches and restore_dynamic_batch                       *)
(* (verl/utils/seqlen_balancing.py) under prepare_micro_batches and        *)
(* postprocess_batch_func (verl/workers/engine/utils.py).                  *)
(* A sample is its position in the batch; samples of a group (pairs of a   *)
(* reward model) stay together.  The groups are the items of               *)
(* BalancedPartitions.  The model's output for a sample is the sample.     *)
(* Operators introduced by "Slip:" are mistakes the properties notice.     *)
(***************************************************************************)
EXTENDS BalancedPartitions, Sequences, SequencesExt

CONSTANTS
    MaxSamples,   \* bound: samples of the rank
    Lengths,      \* sequence lengths
    Limits,       \* max_token_len
    GroupSizes,   \* force_group_size
    AtLeast,      \* min_num_micro_batch, 0 for None
    Divisors      \* num_batches_divided_by, 1 for None

SamplesAssumption == MaxSamples \in Nat \ {0}
NumbersAssumption ==
    /\ Lengths \subseteq Nat \ {0} /\ Limits \subseteq Nat \ {0}
    /\ GroupSizes \subseteq Nat \ {0} /\ Divisors \subseteq Nat \ {0} /\ AtLeast \subseteq Nat

VARIABLES
    lens,      \* seq_len_effective
    size,      \* force_group_size
    limit,     \* max_token_len
    balance,   \* use_dynamic_bsz_balance
    least,     \* min_num_micro_batch
    others,    \* the most micro-batches that another rank asks for
    divisor,   \* num_batches_divided_by
    stage,     \* "partition", "forward", "done"
    batches,   \* micro_bsz_idx: the samples of each micro-batch
    restored   \* the outputs in the order handed back

setting == <<lens, size, limit, balance, least, others, divisor>>
mbvars  == <<vars, setting, stage, batches, restored>>

Total(S) == FoldFunctionOnSet(+, 0, lens, S)
LargerOf(a, b) == IF a < b THEN b ELSE a
CeilDiv(a, b) == -((-a) \div b)
RoundUp(a, b) == ((a + b - 1) \div b) * b

Groups == Len(lens) \div size
SamplesOf(g) == (g - 1) * size + 1 .. g * size

(* calculate_workload, summed up over a group *)
WorkOf(i) == 24576 * lens[i] + lens[i] * lens[i]
WorkOfSamples(S) == FoldFunctionOnSet(+, 0, [i \in S |-> WorkOf(i)], S)
WorkOfGroup(g) == WorkOfSamples(SamplesOf(g))

(* num_micro_batches.  The maximum over the ranks is taken before it is     *)
(* rounded up, so that every rank has as many.                              *)
(* Slip: the natural number is not bounded by the groups. *)
CountUnbounded ==
    RoundUp(LargerOf(LargerOf(least, CeilDiv(Total(DOMAIN lens), limit)), others), divisor)
(* Slip: every rank rounds its own number. *)
CountRoundedFirst ==
    LET natural == CeilDiv(Total(DOMAIN lens), limit) IN
    LargerOf(RoundUp(LargerOf(least, IF natural < Groups THEN natural ELSE Groups), divisor), others)
Count ==
    LET natural == CeilDiv(Total(DOMAIN lens), limit) IN
    RoundUp(LargerOf(LargerOf(least, IF natural < Groups THEN natural ELSE Groups), others), divisor)

InitMicroBatches ==
    /\ \E n \in 1 .. MaxSamples : lens \in [1 .. n -> Lengths]
    /\ size \in GroupSizes /\ Len(lens) % size = 0
    /\ limit \in Limits /\ \A i \in DOMAIN lens : lens[i] <= limit
    /\ balance \in BOOLEAN
    \* the ranks have as many groups, which the divisor divides
    /\ others \in 0 .. Groups
    /\ divisor \in Divisors /\ Groups % divisor = 0
    /\ least \in AtLeast /\ least <= Groups
    /\ workload = [g \in 1 .. Groups |-> WorkOfGroup(g)]
    /\ k = Count /\ equal = FALSE /\ pool = FirstStates
    /\ stage = "partition" /\ batches = << >> /\ restored = << >>

Partition ==
    /\ stage = "partition" /\ Next
    /\ UNCHANGED <<setting, stage, batches, restored>>

(* Each partition is sorted by index and its groups are spelt out.          *)
Ascending(a, b) == a < b
(* Slip: the indices of the groups are taken for those of samples. *)
SamplesInOrderOfGroups(items) == SetToSortSeq(items, Ascending)
SamplesInOrder(items) ==
    FlattenSeq([j \in 1 .. Cardinality(items) |->
        SetToSortSeq(SamplesOf(SetToSortSeq(items, Ascending)[j]), Ascending)])

(* The heaviest first, those of the same work by their first sample, and    *)
(* then "smaller micro-batches at both ends": [::2][::-1] + [1::2].         *)
HeavierFirst(a, b) ==
    \/ WorkOfSamples(ToSet(a)) > WorkOfSamples(ToSet(b))
    \/ WorkOfSamples(ToSet(a)) = WorkOfSamples(ToSet(b)) /\ a[1] > b[1]
EveryOther(s, first) == [i \in 1 .. (Len(s) - first) \div 2 + 1 |-> s[first + 2 * (i - 1)]]
(* Slip: only the order of the first half is turned round. *)
ArrangedDescending(s) == EveryOther(s, 1) \o EveryOther(s, 2)
Arranged(s) == Reverse(EveryOther(s, 1)) \o EveryOther(s, 2)

Arrange ==
    /\ stage = "partition" /\ Finished
    /\ LET micro == [s \in 1 .. k |-> SamplesInOrder(Final[s].items)] IN
       batches' = IF balance THEN Arranged(SortSeq(micro, HeavierFirst)) ELSE micro
    /\ stage' = "forward"
    /\ UNCHANGED <<vars, setting, restored>>

(* get_reverse_idx: where in the outputs each sample's is *)
(* Slip: the order of the outputs, not its inverse. *)
ReverseIdxForward(s) == s
ReverseIdx(s) == [i \in DOMAIN s |-> CHOOSE j \in DOMAIN s : s[j] = i]

(* The outputs of the micro-batches one after the other, brought back into  *)
(* the order of the batch.                                                  *)
Restore ==
    /\ stage = "forward"
    /\ LET outputs == FlattenSeq(batches) IN
       restored' = [i \in DOMAIN outputs |-> outputs[ReverseIdx(FlattenSeq(batches))[i]]]
    /\ stage' = "done"
    /\ UNCHANGED <<vars, setting, batches>>

NextMicroBatches == Partition \/ Arrange \/ Restore
SpecMicroBatches == InitMicroBatches /\ [][NextMicroBatches]_mbvars
-----------------------------------------------------------------------------
(* "assert num_micro_batches <= num_groups", which would end this rank      *)
(* while the others wait for it.  It rests on what the first conditions     *)
(* say: as many groups on every rank, in a number that is divided evenly.   *)
EnoughGroups == k >= 1 /\ k <= Groups

(* The number fits what every rank asked for, also after rounding.          *)
EveryRankIsServed == k >= others /\ k >= least /\ k % divisor = 0

(* Whatever was grouped, balanced and put in another order: the outputs     *)
(* come back in the order of the samples, each of them once.                *)
RestoredInOrder == stage = "done" => restored = [i \in DOMAIN lens |-> i]

(* The samples of a group are neighbours in one micro-batch, in order.      *)
GroupsStayTogether ==
    stage # "partition" => \A g \in 1 .. Groups : \E b \in DOMAIN batches :
        \E at \in DOMAIN batches[b] : \A i \in 1 .. size :
            at + i - 1 \in DOMAIN batches[b] /\ batches[b][at + i - 1] = (g - 1) * size + i

(* The work rises up to some micro-batch and falls after it, so that the    *)
(* pipeline fills and drains with small ones.                               *)
WorkOfBatch(b) == WorkOfSamples(ToSet(batches[b]))
SmallerAtTheEnds ==
    stage # "partition" /\ balance =>
        \A b, c, d \in DOMAIN batches : b < c /\ c < d =>
            WorkOfBatch(c) >= WorkOfBatch(b) \/ WorkOfBatch(c) >= WorkOfBatch(d)

(* No micro-batch has more work than an even share and what one group more  *)
(* would add to it.                                                         *)
WorkIsShared ==
    stage # "partition" => \A b \in DOMAIN batches :
        k * WorkOfBatch(b) <= FoldFunctionOnSet(+, 0, workload, Items) + (k - 1) * Largest
=============================================================================
