---------------------------- MODULE RankBalance ----------------------------
(***************************************************************************)
(* The rows of a training batch are put in an order in which an equal cut  *)
(* gives every data parallel rank about the same work: _balance_batch      *)
(* (verl/trainer/ppo/ray_trainer.py), get_group_balanced_partitions        *)
(* (verl/utils/seqlen_balancing.py) and the equal chunks of the dispatch   *)
(* (verl/protocol.py).  With the prefix grouper, the responses to a prompt *)
(* have to end up on one rank: prompts are then the items of               *)
(* BalancedPartitions, and rows otherwise.                                 *)
(* Operators introduced by "Slip:" are mistakes the properties notice.     *)
(***************************************************************************)
EXTENDS BalancedPartitions, Sequences, SequencesExt

CONSTANTS
    MaxRows,      \* bound: rows of the batch
    Lengths,      \* sequence lengths of a row
    RolloutNs     \* rollout.n: responses to a prompt, next to each other

RowsAssumption == MaxRows \in Nat \ {0}
LengthsAssumption == Lengths \subseteq Nat \ {0} /\ RolloutNs \subseteq Nat \ {0}

VARIABLES
    lens,      \* global_seqlen_lst
    n,         \* rollout.n
    grouper,   \* use_prefix_grouper
    batch,     \* the rows of the reordered batch
    ranks      \* the rows that each rank is sent

rvars == <<vars, lens, n, grouper, batch, ranks>>

Rows == DOMAIN lens
Uid(row) == (row - 1) \div n + 1
RowsOf(item) == IF grouper THEN {row \in Rows : Uid(row) = item} ELSE {item}

(* calculate_workload *)
WorkOf(row) == 24576 * lens[row] + lens[row] * lens[row]
Work(S) == FoldFunctionOnSet(+, 0, [row \in S |-> WorkOf(row)], S)

(* A batch whose prompts the ranks do not divide is refused.                *)
InitBalance ==
    /\ \E m \in 1 .. MaxRows : lens \in [1 .. m -> Lengths]
    /\ n \in RolloutNs /\ Len(lens) % n = 0
    /\ grouper \in BOOLEAN
    /\ workload = [item \in 1 .. Len(lens) \div (IF grouper THEN n ELSE 1) |-> Work(RowsOf(item))]
    /\ k \in 1 .. MaxSets /\ equal = TRUE
    /\ Len(workload) >= k /\ Len(workload) % k = 0
    /\ pool = FirstStates
    /\ batch = << >> /\ ranks = << >>

Partition ==
    /\ batch = << >> /\ Next
    /\ UNCHANGED <<lens, n, grouper, batch, ranks>>

Ascending(a, b) == a < b
Lighter(a, b) == \/ WorkOf(a) < WorkOf(b)
                 \/ WorkOf(a) = WorkOf(b) /\ a < b
EveryOther(s, first) == [i \in 1 .. (Len(s) - first) \div 2 + 1 |-> s[first + 2 * (i - 1)]]

(* "Place smaller micro-batches at both ends": [::2] + [1::2][::-1], but    *)
(* groups stay as they are.                                                 *)
(* Slip: groups are taken apart as well. *)
OrderedByWork(S) ==
    LET sorted == SetToSortSeq(S, Lighter) IN
    EveryOther(sorted, 1) \o Reverse(EveryOther(sorted, 2))
(* Slip: the same half twice. *)
OrderedTwice(S) ==
    IF grouper THEN SetToSortSeq(S, Ascending)
    ELSE LET sorted == SetToSortSeq(S, Lighter) IN
         EveryOther(sorted, 1) \o Reverse(EveryOther(sorted, 1))
(* Slip: the second half is not turned round. *)
OrderedRising(S) ==
    IF grouper THEN SetToSortSeq(S, Ascending)
    ELSE LET sorted == SetToSortSeq(S, Lighter) IN EveryOther(sorted, 1) \o EveryOther(sorted, 2)

Ordered(S) ==
    IF grouper THEN SetToSortSeq(S, Ascending)
    ELSE LET sorted == SetToSortSeq(S, Lighter) IN
         EveryOther(sorted, 1) \o Reverse(EveryOther(sorted, 2))

RowsOfSet(s) == UNION {RowsOf(item) : item \in Final[s].items}

Reorder ==
    /\ batch = << >> /\ Finished
    /\ batch' = FlattenSeq([s \in 1 .. k |-> Ordered(RowsOfSet(s))])
    /\ UNCHANGED <<vars, lens, n, grouper, ranks>>

(* Slip: rows are dealt out in turn. *)
ChunkInTurn(r) == SelectSeq(batch, LAMBDA row : row % k = r % k)

Chunk(r) ==
    LET size == Len(batch) \div k IN SubSeq(batch, (r - 1) * size + 1, r * size)

Dispatch ==
    /\ batch # << >> /\ ranks = << >>
    /\ ranks' = [r \in 1 .. k |-> Chunk(r)]
    /\ UNCHANGED <<vars, lens, n, grouper, batch>>

NextBalance == Partition \/ Reorder \/ Dispatch
SpecBalance == InitBalance /\ [][NextBalance]_rvars
-----------------------------------------------------------------------------
(* Every row is trained on by one rank, once, and ranks have as many rows.  *)
EveryRowOnOneRank ==
    ranks # << >> =>
      /\ \A row \in Rows : \E r \in 1 .. k : row \in ToSet(ranks[r])
      /\ \A r \in 1 .. k : k * Len(ranks[r]) = Len(lens)

(* The prefix grouper shares the prompt of neighbouring rows of one rank:   *)
(* the responses to a prompt are on one rank, next to each other.           *)
PromptsStayTogether ==
    ranks # << >> /\ grouper =>
      \A row \in Rows : \E r \in 1 .. k :
        \E at \in 1 .. Len(ranks[r]) - n + 1 :
          ToSet(SubSeq(ranks[r], at, at + n - 1)) = {o \in Rows : Uid(o) = Uid(row)}

(* The cut, which knows nothing of the partitions, keeps their balance: no  *)
(* rank has more work than another by more than the heaviest item.          *)
RanksShareTheWork ==
    ranks # << >> =>
      \A q, r \in 1 .. k : Work(ToSet(ranks[q])) - Work(ToSet(ranks[r])) <= Largest

(* On a rank the work of the rows rises and then falls.                     *)
SmallerAtTheEnds ==
    ranks # << >> /\ ~grouper =>
      \A r \in 1 .. k : \A a, b, c \in DOMAIN ranks[r] :
        a < b /\ b < c => \/ WorkOf(ranks[r][b]) >= WorkOf(ranks[r][a])
                          \/ WorkOf(ranks[r][b]) >= WorkOf(ranks[r][c])
=============================================================================
