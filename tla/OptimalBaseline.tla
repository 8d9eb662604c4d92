-------------------------- MODULE OptimalBaseline --------------------------
(***************************************************************************)
(* The optimal token baseline of the responses to one prompt:              *)
(* compute_optimal_token_baseline_advantage and, for responses of several  *)
(* turns, compute_multi_turn_optimal_token_baseline_advantage              *)
(* (verl/trainer/ppo/core_algos.py).                                       *)
(* A baseline is a fraction <<numerator, denominator>>, and 0 is <<0, 1>>; *)
(* epsilon only keeps a denominator of 0 from dividing.                    *)
(* Operators introduced by "Slip:" are mistakes the properties notice.     *)
(***************************************************************************)
EXTENDS Integers, Sequences, FiniteSetsExt, SequencesExt

CONSTANTS
    MaxRows,   \* bound: responses to the prompt
    Length,    \* response length, padding included
    Scores,
    Energies   \* w_per_timestep: numbers for the tokens of a response

SizesAssumption == MaxRows \in Nat \ {0} /\ Length \in Nat \ {0}
NumbersAssumption == Scores \subseteq Int /\ Energies \subseteq [1 .. Length -> Nat \ {0}]

Positions == 1 .. Length

VARIABLES
    mask,       \* of each response, the positions where it is 1
    rewards,    \* token_level_rewards
    energy,     \* w_per_timestep
    estimator,  \* adv_estimator
    baselines

vars == <<mask, rewards, energy, estimator, baselines>>
Rows == DOMAIN mask

(* The score stands on the last token of the response, which may be one of  *)
(* those that are missing from the mask: observations and rejected tokens.  *)
Init ==
    /\ \E n \in 1 .. MaxRows :
         \E last \in [1 .. n -> Positions], score \in [1 .. n -> Scores] :
           /\ mask \in [1 .. n -> SUBSET Positions]
           /\ \A i \in 1 .. n : \A t \in mask[i] : t <= last[i]
           /\ rewards = [i \in 1 .. n |-> [t \in Positions |-> IF t = last[i] THEN score[i] ELSE 0]]
           /\ energy \in [1 .. n -> Energies]
    /\ estimator = "none" /\ baselines = << >>

Return(i, t) == MapThenSumSet(LAMBDA j : rewards[i][j], {j \in mask[i] : j >= t})
(* w_cumulative *)
Energy(i, t) == MapThenSumSet(LAMBDA j : energy[i][j], {j \in mask[i] : j <= t})

(* The returns of tokens <<i, t>> weighted by their energies.               *)
Weighted(tokens) ==
    LET sum == MapThenSumSet(LAMBDA x : Energy(x[1], x[2]), tokens) IN
    IF sum = 0 THEN <<0, 1>>
    ELSE <<MapThenSumSet(LAMBDA x : Return(x[1], x[2]) * Energy(x[1], x[2]), tokens), sum>>

(* handle_zero_tail: the tokens, from number m + 1 on, of the one response  *)
(* that is longer than the others, the longest of which has m.              *)
LengthOfOthers(i, S) == Max({0} \cup {Cardinality(mask[j]) : j \in S \ {i}})

(* Slip: the tail starts one token late. *)
InTailTooLate(i, k, S) ==
    Cardinality(mask[i]) > LengthOfOthers(i, S) /\ k > LengthOfOthers(i, S) + 1

InTail(i, k, S) == Cardinality(mask[i]) > LengthOfOthers(i, S) /\ k > LengthOfOthers(i, S)

(* Position t of all responses, and the tail counted in positions.          *)
Otb(i, t) ==
    IF Cardinality(Rows) = 1 \/ InTail(i, t, Rows) THEN <<0, 1>>
    ELSE Weighted({<<j, t>> : j \in {j \in Rows : t \in mask[j]}})

Kth(i, k) == SetToSortSeq(mask[i], <)[k]
Rank(i, t) == Cardinality({j \in mask[i] : j <= t})
NonEmpty == {i \in Rows : mask[i] # {}}

(* The kth token in the mask of all responses that have as many, and the    *)
(* tail counted likewise; responses without tokens are left out.            *)
(* Slip: a token is compared with what stands at its position. *)
TirByPosition(i, t) ==
    IF Cardinality(NonEmpty) = 1 \/ InTail(i, Rank(i, t), NonEmpty) THEN <<0, 1>>
    ELSE Weighted({<<j, t>> : j \in {j \in NonEmpty : t \in mask[j]}})

Tir(i, t) ==
    IF Cardinality(NonEmpty) = 1 \/ InTail(i, Rank(i, t), NonEmpty) THEN <<0, 1>>
    ELSE LET k == Rank(i, t) IN
         Weighted({<<j, Kth(j, k)>> : j \in {j \in NonEmpty : Cardinality(mask[j]) >= k}})

EstimateOtb ==
    /\ estimator = "none" /\ estimator' = "optimal_token_baseline"
    /\ baselines' = [i \in Rows |-> [t \in mask[i] |-> Otb(i, t)]]
    /\ UNCHANGED <<mask, rewards, energy>>

EstimateTir ==
    /\ estimator = "none" /\ estimator' = "tir_optimal_token_baseline"
    /\ baselines' = [i \in Rows |-> [t \in mask[i] |-> Tir(i, t)]]
    /\ UNCHANGED <<mask, rewards, energy>>

Next == EstimateOtb \/ EstimateTir

Spec == Init /\ [][Next]_vars
-----------------------------------------------------------------------------
(* A token of the mask has a baseline that is a fraction.                   *)
TypeOK ==
    /\ estimator \in {"none", "optimal_token_baseline", "tir_optimal_token_baseline"}
    /\ mask \in Seq(SUBSET Positions)
    /\ estimator # "none" =>
         \A i \in Rows : baselines[i] \in [mask[i] -> Int \X (Nat \ {0})]

(* (returns - baselines), times the denominator                             *)
Advantage(i, t) == Return(i, t) * baselines[i][t][2] - baselines[i][t][1]

Balanced(tokens) ==
    Cardinality(tokens) >= 2 =>
      MapThenSumSet(LAMBDA x : Energy(x[1], x[2]) * Advantage(x[1], x[2]), tokens) = 0

OneTurnEach == \A i \in Rows : mask[i] = 1 .. Cardinality(mask[i])
KthTokens(k) == {<<i, Kth(i, k)>> : i \in {i \in Rows : Cardinality(mask[i]) >= k}}
Comparable ==
    \/ estimator = "tir_optimal_token_baseline"
    \/ estimator = "optimal_token_baseline" /\ OneTurnEach

(* What makes the baseline optimal: the advantages of the kth tokens of the *)
(* responses, weighted with the energies, cancel out, whatever observations *)
(* and rejected tokens stand between them (in the one-turn form: when there *)
(* are none).                                                               *)
BaselineIsOptimal == Comparable => \A k \in Positions : Balanced(KthTokens(k))

(* A token that no other response has a counterpart to is not its own       *)
(* baseline, which would take its advantage away: it keeps its return (in   *)
(* the one-turn form: when there are no observations or rejected tokens).   *)
TailKeepsItsReturn ==
    Comparable =>
      \A k \in Positions : Cardinality(KthTokens(k)) = 1 =>
        \A x \in KthTokens(k) : Advantage(x[1], x[2]) = Return(x[1], x[2])
=============================================================================
