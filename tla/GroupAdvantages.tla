-------------------------- MODULE GroupAdvantages --------------------------
(***************************************************************************)
(* Advantages of responses relative to the other responses to the same     *)
(* prompt: the outcome estimators of verl/trainer/ppo/core_algos.py, and   *)
(* compute_advantage_for_multi_trajectories of                             *)
(* verl/trainer/main_ppo_sync.py, which computes them between the final    *)
(* outputs of agent sessions that have several.                            *)
(* Advantages are the scalars before they are multiplied with the mask,    *)
(* without the division by the standard deviation and the whitening, as    *)
(* fractions <<numerator, denominator>>.                                   *)
(* Operators introduced by "Slip:" are mistakes the properties notice.     *)
(***************************************************************************)
EXTENDS Integers, Sequences, FiniteSetsExt

CONSTANTS
    MaxRows,   \* bound: responses in the batch
    Prompts,
    Scores,
    Lengths    \* numbers of tokens in the response mask, 0 if all are rejected

RowsAssumption == MaxRows \in Nat \ {0}
NumbersAssumption == Scores \subseteq Int /\ Lengths \subseteq Nat

Estimators == {"grpo", "grpo_vectorized", "rloo", "rloo_vectorized", "opo", "gpg", "grpo_passk"}

VARIABLES
    uid,        \* index: the prompt of each response
    session,    \* a session of the prompt; a response is its session's output
    turn,       \*   number turn[i]
    score,      \* scores: the rewards of each response, summed up
    length,     \* tokens left in its mask
    estimator,
    advantage

vars == <<uid, session, turn, score, length, estimator, advantage>>

Rows == DOMAIN uid
Group(i) == {j \in Rows : uid[j] = uid[i]}
Total(S) == MapThenSumSet(LAMBDA j : score[j], S)

(* Sessions with one output each, or keys that differ and number the        *)
(* outputs of a session from 0.                                             *)
Init ==
    /\ \E n \in 1 .. MaxRows :
         /\ uid \in [1 .. n -> Prompts]
         /\ \/ session = [i \in 1 .. n |-> i] /\ turn = [i \in 1 .. n |-> 0]
            \/ /\ session \in [1 .. n -> 1 .. 2] /\ turn \in [1 .. n -> 0 .. 1]
               /\ \E i \in 1 .. n : turn[i] = 1
    /\ \A i, j \in Rows :
         /\ i # j => <<uid[i], session[i], turn[i]>> # <<uid[j], session[j], turn[j]>>
         /\ turn[i] = 1 => \E k \in Rows : <<uid[k], session[k], turn[k]>> = <<uid[i], session[i], 0>>
    /\ score \in [Rows -> Scores] /\ length \in [Rows -> Lengths]
    /\ estimator = "none" /\ advantage = << >>

(* The score against the mean of a group S; a group of one has mean 0.      *)
AgainstMean(i, S) ==
    IF Cardinality(S) = 1 THEN <<score[i], 1>>
    ELSE <<Cardinality(S) * score[i] - Total(S), Cardinality(S)>>

(* scores * n / (n - 1) - mean * n / (n - 1), and the score itself in a     *)
(* group of one.                                                            *)
(* Slip: the mean of all is taken for the mean of the others. *)
RlooUnscaled(i) == AgainstMean(i, Group(i))

Rloo(i) ==
    LET n == Cardinality(Group(i)) IN
    IF n = 1 THEN <<score[i], 1>> ELSE <<n * score[i] - Total(Group(i)), n - 1>>

RlooVectorized(i) ==
    LET n == Cardinality(Group(i)) IN
    IF n > 1 THEN <<n * score[i] - Total(Group(i)), n - 1>> ELSE <<0, 1>>

(* The mean of the scores weighted by length.  No tokens at all make 0 / 0, *)
(* which is not a number, and is then multiplied with a mask of zeros.      *)
(* Slip: the baseline is that of the other responses. *)
OpoOverOthers(i) ==
    LET S == Group(i) \ {i}
        tokens == MapThenSumSet(LAMBDA j : length[j], S)
    IN  IF S = {} THEN <<score[i], 1>>
        ELSE <<score[i] * tokens - MapThenSumSet(LAMBDA j : length[j] * score[j], S), tokens>>

(* Slip: lengths are left out of the denominator. *)
OpoUnweighted(i) ==
    LET S == Group(i)
        n == Cardinality(S)
    IN  IF n = 1 THEN <<score[i], 1>>
        ELSE <<score[i] * n - MapThenSumSet(LAMBDA j : length[j] * score[j], S), n>>

Opo(i) ==
    LET S == Group(i)
        tokens == MapThenSumSet(LAMBDA j : length[j], S)
    IN  IF Cardinality(S) = 1 THEN <<score[i], 1>>
        ELSE <<score[i] * tokens - MapThenSumSet(LAMBDA j : length[j] * score[j], S), tokens>>

(* alpha = batch size / number of scores that are not 0                     *)
Gpg(i) ==
    LET nonzero == Cardinality({j \in Rows : score[j] # 0})
        a == AgainstMean(i, Group(i))
    IN  <<Cardinality(Rows) * a[1], (IF nonzero = 0 THEN 1 ELSE nonzero) * a[2]>>

OneEach == \A i \in Rows : turn[i] = 0

(* Every estimator but Pass@k, on responses that are sessions' only ones.   *)
Estimate ==
    /\ estimator = "none" /\ OneEach
    /\ estimator' \in Estimators \ {"grpo_passk"}
    /\ advantage' = [i \in Rows |->
         CASE estimator' \in {"grpo", "grpo_vectorized"} -> AgainstMean(i, Group(i))
           [] estimator' = "rloo" -> Rloo(i)
           [] estimator' = "rloo_vectorized" -> RlooVectorized(i)
           [] estimator' = "opo" -> Opo(i)
           [] estimator' = "gpg" -> Gpg(i)]
    /\ UNCHANGED <<uid, session, turn, score, length>>

(* topk(rewards, 2): a best response and another of the group, the best     *)
(* that is left.  Which of several is best is not defined.                  *)
(* Slip: the runner-up is the best score below the maximum. *)
RunnerUpBelow(i) ==
    LET below == {score[j] : j \in {j \in Group(i) : score[j] < score[i]}} IN
    IF below = {} THEN score[i] ELSE Max(below)

RunnerUp(i) == Max({score[j] : j \in Group(i) \ {i}})

EstimatePassK ==
    /\ estimator = "none" /\ OneEach
    /\ \A i \in Rows : Cardinality(Group(i)) >= 2 \* or else it raises an error
    /\ estimator' = "grpo_passk"
    /\ \E best \in {f \in [{uid[i] : i \in Rows} -> Rows] :
                      \A p \in DOMAIN f : /\ uid[f[p]] = p
                                          /\ \A j \in Group(f[p]) : score[j] <= score[f[p]]} :
         advantage' = [i \in Rows |->
           IF i = best[uid[i]] THEN <<score[i] - RunnerUp(i), 1>> ELSE <<0, 1>>]
    /\ UNCHANGED <<uid, session, turn, score, length>>

SameSession(i, j) == uid[i] = uid[j] /\ session[i] = session[j]

(* Slip: the first output is taken. *)
FinalOutputFirst(i) == CHOOSE j \in Rows : SameSession(i, j) /\ turn[j] = 0

FinalOutput(i) ==
    CHOOSE j \in Rows : SameSession(i, j) /\ \A k \in Rows : SameSession(i, k) => turn[k] <= turn[j]
Finals == {FinalOutput(i) : i \in Rows}

(* GRPO between the final outputs; what every output of the session gets is *)
(* read where the final output's mask is 1 first, or at its first token.    *)
EstimateSessions ==
    /\ estimator = "none" /\ estimator' = "sessions"
    /\ advantage' = [i \in Rows |->
         LET f == FinalOutput(i) IN
         IF length[f] = 0 THEN <<0, 1>> ELSE AgainstMean(f, Group(f) \cap Finals)]
    /\ UNCHANGED <<uid, session, turn, score, length>>

Next == Estimate \/ EstimatePassK \/ EstimateSessions

Spec == Init /\ [][Next]_vars
-----------------------------------------------------------------------------
(* A batch of responses, and a fraction for each of them at the end, whose  *)
(* denominator is 0 only where no token can notice.                         *)
TypeOK ==
    /\ estimator \in Estimators \cup {"none", "sessions"}
    /\ estimator = "none" => advantage = << >>
    /\ estimator # "none" =>
         /\ DOMAIN advantage = Rows
         /\ \A i \in Rows : /\ advantage[i] \in Int \X Nat
                            /\ length[i] > 0 => advantage[i][2] > 0

SameFraction(a, b) == a[1] * b[2] = b[1] * a[2]
Others(i) == Group(i) \ {i}

(* However it is computed, the loop's way or all at once, leave-one-out     *)
(* compares a response with the mean of the others, which it has no         *)
(* influence on.                                                            *)
LeavesOneOut ==
    estimator \in {"rloo", "rloo_vectorized"} =>
      \A i \in Rows : Others(i) # {} =>
        LET n == Cardinality(Others(i)) IN
        SameFraction(advantage[i], <<n * score[i] - Total(Others(i)), n>>)

(* Nothing is gained or lost by a group as a whole: its advantages add up   *)
(* to 0, weighted by the number of tokens under OPO, where they are what is *)
(* multiplied with the gradients of the tokens.                             *)
Weight(i) == IF estimator = "opo" THEN length[i] ELSE 1
GroupsAreBalanced ==
    estimator \in Estimators \ {"grpo_passk"} =>
      \A i \in Rows : Others(i) # {} =>
        MapThenSumSet(LAMBDA j : Weight(j) * advantage[j][1], Group(i)) = 0

(* Pass@k: a group has an advantage for one response at most, which is      *)
(* better than every other, by what the group would lose without it; two    *)
(* best ones have none.                                                     *)
OnlyTheBestCounts ==
    estimator = "grpo_passk" =>
      \A i \in Rows :
        advantage[i][1] = (LET best == Max({score[j] : j \in Group(i)})
                               without == Max({score[j] : j \in Others(i)})
                           IN  best - without)

(* Sessions: their outputs share an advantage; the sessions of a prompt are *)
(* balanced against each other, however many outputs each of them has and   *)
(* in whatever order they stand, and by what came out at their ends.        *)
Ends == {i \in Rows : \A k \in Rows : SameSession(i, k) => turn[k] <= turn[i]}
SessionsAreBalanced ==
    estimator = "sessions" /\ (\A i \in Ends : length[i] > 0) =>
      /\ \A i, j \in Rows : SameSession(i, j) => advantage[i] = advantage[j]
      /\ \A i \in Ends : LET rivals == Group(i) \cap Ends IN
           rivals # {i} =>
             /\ MapThenSumSet(LAMBDA j : advantage[j][1], rivals) = 0
             /\ \A j \in rivals : score[i] > score[j] => advantage[i][1] > advantage[j][1]
=============================================================================
