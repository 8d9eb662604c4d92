------------------------- MODULE BalancedPartitions -------------------------
(***************************************************************************)
(* karmarkar_karp and get_seqlen_balanced_partitions                       *)
(* (verl/utils/seqlen_balancing.py): the items of a batch are divided into *)
(* k sets of about the same workload.  Partial solutions ("states", each k *)
(* sets in decreasing order) are merged two at a time, the most unbalanced *)
(* ones first, the heaviest set of one with the lightest of the other.     *)
(* Items that sets of the same sum and size hold do not order them here:   *)
(* ties are broken either way.                                             *)
(* Operators introduced by "Slip:" are mistakes the properties notice.     *)
(***************************************************************************)
EXTENDS Integers, FiniteSets

CONSTANTS
    MaxItems,    \* bound: items of one call
    MaxSets,     \* bound: k_partitions
    Workloads    \* workloads of an item

ItemsAssumption     == MaxItems \in Nat \ {0} /\ MaxSets \in Nat \ {0}
WorkloadsAssumption == Workloads \subseteq Nat

VARIABLES
    workload,   \* seqlen_list, from the items 1 .. n
    k,          \* k_partitions
    equal,      \* equal_size
    pool        \* states_pq

arguments == <<workload, k, equal>>
vars      == <<arguments, pool>>

Items == DOMAIN workload

(* Set.__lt__, up to the items: heavier, or as heavy with more items.       *)
(* Slip: the number of items is not compared. *)
GreaterBySum(a, b) == a.sum > b.sum
Greater(a, b) == \/ a.sum > b.sum
                 \/ a.sum = b.sum /\ Cardinality(a.items) > Cardinality(b.items)

(* sorted(self.sets, reverse=True): order says where each set comes from.   *)
Orders == {order \in [1 .. k -> 1 .. k] : \A i, j \in 1 .. k : order[i] = order[j] => i = j}
(* Slip: the sets stay as they are. *)
UnsortedBy(sets, order) == \A i \in 1 .. k : order[i] = i
SortedBy(sets, order) ==
    \A i, j \in 1 .. k : i < j => ~Greater(sets[order[j]], sets[order[i]])

(* State(items): the first sets have an item each, or only the first one.   *)
EmptySet == [sum |-> 0, items |-> {}]
SetOf(i) == [sum |-> workload[i], items |-> {i}]

(* sorted_seqlen_list: by workload, then by index, counting from 0 *)
Rank(i) == Cardinality({j \in Items : \/ workload[j] < workload[i]
                                      \/ workload[j] = workload[i] /\ j < i})

StateOfItem(i) == [s \in 1 .. k |-> IF s = 1 THEN SetOf(i) ELSE EmptySet]

(* The items of ranks k * g to k * g + k - 1, the heaviest in the first set *)
StateOfGroup(g) ==
    [s \in 1 .. k |-> SetOf(CHOOSE i \in Items : Rank(i) = g * k + (k - s))]

(* The states pushed before the merging starts *)
(* Slip: every item has a state of its own, also for sets of equal sizes. *)
FirstStatesSingle == {StateOfItem(i) : i \in Items}
FirstStates ==
    IF equal THEN {StateOfGroup(g) : g \in 0 .. Cardinality(Items) \div k - 1}
    ELSE {StateOfItem(i) : i \in Items}

Init ==
    /\ \E n \in 1 .. MaxItems : workload \in [1 .. n -> Workloads]
    /\ k \in 1 .. MaxSets /\ k <= Cardinality(Items)
    /\ equal \in BOOLEAN /\ (equal => Cardinality(Items) % k = 0)
    /\ pool = FirstStates

(* State.__lt__: the larger spread comes off the heap first, then the       *)
(* larger first set.                                                        *)
Spread(p) == p[1].sum - p[k].sum
Before(p, q) == \/ Spread(p) > Spread(q)
                \/ Spread(p) = Spread(q) /\ Greater(p[1], q[1])

(* Set.merge and State.merge *)
(* Slip: what is left of the sums, as between two sets, not their total. *)
MergedDifference(p, q) ==
    [i \in 1 .. k |-> [sum   |-> p[i].sum - q[k + 1 - i].sum,
                       items |-> p[i].items \cup q[k + 1 - i].items]]
(* Slip: the last set of the other state is left out. *)
MergedButOne(p, q) ==
    [i \in 1 .. k |-> IF i = 1 /\ k > 1 THEN p[i]
                      ELSE [sum   |-> p[i].sum + q[k + 1 - i].sum,
                            items |-> p[i].items \cup q[k + 1 - i].items]]
Merged(p, q) ==
    [i \in 1 .. k |-> [sum   |-> p[i].sum + q[k + 1 - i].sum,
                       items |-> p[i].items \cup q[k + 1 - i].items]]

Merge(p, q) ==
    /\ \A o \in pool \ {p} : ~Before(o, p)
    /\ \A o \in pool \ {p, q} : ~Before(o, q)
    /\ LET merged == Merged(p, q) IN
       \E order \in Orders :
          /\ SortedBy(merged, order)
          /\ pool' = (pool \ {p, q}) \cup {[i \in 1 .. k |-> merged[order[i]]]}
    /\ UNCHANGED arguments

Next == \E p, q \in pool : p # q /\ Merge(p, q)
Spec == Init /\ [][Next]_vars

(* The loop has ended: final_state. *)
Finished == Cardinality(pool) = 1
Final == CHOOSE p \in pool : TRUE
-----------------------------------------------------------------------------
Partitions == [sum : Nat, items : SUBSET Items]
Largest == CHOOSE m \in {workload[i] : i \in Items} :
               \A i \in Items : workload[i] <= m

TypeOK ==
    /\ \E n \in 1 .. MaxItems : workload \in [1 .. n -> Workloads]
    /\ k \in 1 .. MaxSets /\ equal \in BOOLEAN
    /\ pool # {} /\ pool \subseteq [1 .. k -> Partitions]

(* "assert seen_idx == set(range(len(seqlen_list)))", and no index twice,   *)
(* which that assertion would not notice.                                   *)
EveryItemOnce ==
    /\ \A i \in Items : \E p \in pool : \E s \in 1 .. k : i \in p[s].items
    /\ \A p, q \in pool : \A s, t \in 1 .. k :
          p[s].items \cap q[t].items # {} => p = q /\ s = t

(* The sums the sets are ordered by are those of their items.               *)
SumOf[S \in SUBSET (1 .. MaxItems)] ==
    IF S = {} THEN 0
    ELSE LET i == CHOOSE j \in S : TRUE IN workload[i] + SumOf[S \ {i}]
SumsAreOfTheItems == \A p \in pool : \A s \in 1 .. k : p[s].sum = SumOf[p[s].items]

(* "the {i}-th partition is empty": a state has as many sets in use as it   *)
(* has items, up to k, so that with k items or more none remains empty;     *)
(* also for items of no workload, which do not show in the sums.            *)
NoneIsEmpty == Finished => \A s \in 1 .. k : Final[s].items # {}

(* With equal_size every set of every state has the same number of items.   *)
EqualSizes ==
    equal => \A p \in pool : \A s, t \in 1 .. k :
                Cardinality(p[s].items) = Cardinality(p[t].items)

(* No two sets differ by more than the largest item: what the differencing  *)
(* is for, whatever is merged when.                                         *)
SpreadIsBounded ==
    \A p \in pool : \A s, t \in 1 .. k : p[s].sum - p[t].sum <= Largest
=============================================================================
