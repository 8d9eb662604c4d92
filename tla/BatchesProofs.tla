--------------------------- MODULE BatchesProofs ---------------------------
(***************************************************************************)
(* Theorems about BalancedPartitions for any number of items, of sets and  *)
(* any workloads, and about MCBatches, which runs it as one of its models. *)
(*                                                                         *)
(* The invariant says of every partial solution in the pool that its sums  *)
(* are those of its items, that its sets stand in decreasing order with    *)
(* the empty ones last, that no two of them differ by more than the        *)
(* largest workload, and that as long as one is empty none has two items.  *)
(* Merging keeps it: the sums of p fall from set to set by no more than    *)
(* the largest workload and those of the reversed q rise by no more than   *)
(* it, so that two sums of both together are no further apart either.      *)
(***************************************************************************)
EXTENDS MCBatches, FiniteSetTheorems, FunctionTheorems, WellFoundedInduction, TLAPS


LEMMA LeastNumber ==
    ASSUME NEW S \in SUBSET Nat, S # {}
    PROVE  \E x \in S : \A y \in S : x <= y
<1> DEFINE R == OpToRel(<, Nat)
<1>1. IsWellFoundedOn(R, Nat)
    BY NatLessThanWellFounded
<1>2. \A x, y \in Nat : x < y => <<x, y>> \in R
    BY DEF OpToRel
<1> HIDE DEF R
<1>3. PICK x \in S : \A y \in S : ~(<<y, x>> \in R)
    BY <1>1, WFMin
<1>4. \A y \in S : x <= y
    <2> SUFFICES ASSUME NEW y \in S PROVE x <= y
        OBVIOUS
    <2>1. x \in Nat /\ y \in Nat /\ ~(y < x)
        BY <1>2, <1>3
    <2> QED BY <2>1
<1> QED BY <1>4

(* A set of subsets of a finite set has a member of which no member lacks   *)
(* one element only.                                                        *)
LEMMA MinimalSubset ==
    ASSUME NEW S, IsFiniteSet(S), NEW G \in SUBSET SUBSET S, G # {}
    PROVE  \E T \in G : \A x \in T : T \ {x} \notin G
<1> DEFINE sizes == {Cardinality(T) : T \in G}
<1>1. \A T \in SUBSET S : IsFiniteSet(T) /\ Cardinality(T) \in Nat
    BY FS_Subset, FS_CardinalityType
<1>2. sizes # {} /\ sizes \in SUBSET Nat
    BY <1>1
<1>3. PICK n \in sizes : \A m \in sizes : n <= m
    <2> HIDE DEF sizes
    <2> QED BY <1>2, LeastNumber
<1>4. PICK T \in G : Cardinality(T) = n
    BY <1>3
<1>5. ASSUME NEW x \in T PROVE T \ {x} \notin G
    <2>1. Cardinality(T \ {x}) = n - 1 /\ n \in Nat
        BY <1>1, <1>4, FS_RemoveElement
    <2>2. ~(n <= n - 1)
        BY <2>1
    <2> QED BY <1>3, <2>1, <2>2
<1> QED BY <1>5

(* SumOf is what its definition says: it exists for the sets of at most n   *)
(* items, whatever n is.                                                    *)
SumBody(f, S) == IF S = {} THEN 0
                 ELSE LET i == CHOOSE j \in S : TRUE IN workload[i] + f[S \ {i}]

LEMMA SumOfItems ==
    ASSUME ItemsAssumption
    PROVE  \A S \in SUBSET (1 .. MaxItems) : SumOf[S] = SumBody(SumOf, S)
<1> DEFINE D == SUBSET (1 .. MaxItems)
           Up(n) == {S \in D : Cardinality(S) <= n}
           partial == {n \in Nat : \E f : f = [S \in Up(n) |-> SumBody(f, S)]}
<1>1. IsFiniteSet(1 .. MaxItems) /\ Cardinality(1 .. MaxItems) = MaxItems
    BY FS_Interval DEF ItemsAssumption
<1>2. \A S \in D : IsFiniteSet(S) /\ Cardinality(S) \in Nat /\ Cardinality(S) <= MaxItems
    BY <1>1, FS_Subset, FS_CardinalityType
<1>3. 0 \in partial
    <2> DEFINE f == [S \in Up(0) |-> 0]
    <2>1. \A S \in Up(0) : S = {}
        BY <1>2, FS_EmptySet
    <2>2. f = [S \in Up(0) |-> SumBody(f, S)]
        BY <2>1 DEF SumBody
    <2> QED BY <2>2
<1>4. ASSUME NEW n \in partial PROVE n + 1 \in partial
    <2> n \in Nat
        OBVIOUS
    <2>1. PICK f : f = [S \in Up(n) |-> SumBody(f, S)]
        OBVIOUS
    <2> DEFINE g == [S \in Up(n + 1) |-> SumBody(f, S)]
    <2>2. ASSUME NEW S \in Up(n + 1), S # {} PROVE
              LET i == CHOOSE j \in S : TRUE IN S \ {i} \in Up(n) /\ S \ {i} \in Up(n + 1)
        <3> DEFINE i == CHOOSE j \in S : TRUE
        <3>1. i \in S /\ S \ {i} \in D
            BY <2>2
        <3> HIDE DEF i
        <3>2. Cardinality(S \ {i}) = Cardinality(S) - 1 /\ Cardinality(S) \in Nat /\ Cardinality(S) <= n + 1
            BY <1>2, <3>1, FS_RemoveElement
        <3>3. Cardinality(S \ {i}) <= n /\ Cardinality(S \ {i}) <= n + 1
            BY <3>2
        <3>4. S \ {i} \in Up(n) /\ S \ {i} \in Up(n + 1)
            BY <3>1, <3>3
        <3> QED BY <3>4 DEF i
    <2>3. ASSUME NEW S \in Up(n) PROVE S \in Up(n + 1) /\ f[S] = g[S]
        <3>1. Cardinality(S) <= n /\ Cardinality(S) \in Nat
            BY <1>2
        <3>2. S \in Up(n + 1)
            BY <3>1
        <3> QED BY <3>2, <2>1
    <2>4. ASSUME NEW S \in Up(n + 1) PROVE SumBody(f, S) = SumBody(g, S)
        <3>1. CASE S = {}
            BY <3>1 DEF SumBody
        <3>2. CASE S # {}
            <4> DEFINE i == CHOOSE j \in S : TRUE
            <4>1. f[S \ {i}] = g[S \ {i}]
                BY <2>2, <2>3, <3>2
            <4> HIDE DEF g
            <4> QED BY <4>1, <3>2 DEF SumBody
        <3> QED BY <3>1, <3>2
    <2>5. g = [S \in Up(n + 1) |-> SumBody(g, S)]
        <3>1. g = [S \in Up(n + 1) |-> SumBody(f, S)]
            OBVIOUS
        <3> HIDE DEF Up, g
        <3> QED BY <2>4, <3>1
    <2>6. n + 1 \in Nat
        OBVIOUS
    <2> HIDE DEF g, Up
    <2> QED BY <2>5, <2>6, Zenon
<1>5. MaxItems \in partial
    <2> HIDE DEF partial
    <2> DEFINE S == Nat \ partial
    <2>1. CASE S = {}
        BY <2>1 DEF ItemsAssumption
    <2>2. CASE S # {}
        <3>1. PICK n \in S : \A m \in S : n <= m
            <4>1. S \in SUBSET Nat
                OBVIOUS
            <4> HIDE DEF S
            <4> QED BY <2>2, <4>1, LeastNumber
        <3>2. n \in Nat /\ n # 0 /\ n - 1 \in Nat /\ ~(n <= n - 1) /\ n - 1 + 1 = n
            BY <1>3, <3>1
        <3>3. n - 1 \in partial
            BY <3>1, <3>2
        <3> QED BY <1>4, <3>1, <3>2, <3>3
    <2> QED BY <2>1, <2>2
<1>6. Up(MaxItems) = D
    BY <1>2
<1>7. PICK f : f = [S \in D |-> SumBody(f, S)]
    <2> HIDE DEF D
    <2> QED BY <1>5, <1>6
<1>8. SumOf = [S \in D |-> SumBody(SumOf, S)]
    BY <1>7 DEF SumOf, SumBody
<1> QED BY <1>8
(* Induction over the size of a finite set's subsets.                      *)
LEMMA SubsetInduction ==
    ASSUME NEW S, IsFiniteSet(S), NEW G \in SUBSET SUBSET S, {} \in G,
           \A T \in SUBSET S, x \in S : T \in G /\ x \notin T => T \cup {x} \in G
    PROVE  S \in G
<1> DEFINE bad == {n \in Nat : \E T \in SUBSET S : T \notin G /\ Cardinality(T) = n}
<1> SUFFICES ASSUME S \notin G PROVE FALSE
    OBVIOUS
<1>1. \A T \in SUBSET S : IsFiniteSet(T) /\ Cardinality(T) \in Nat
    <2> TAKE T \in SUBSET S
    <2>1. IsFiniteSet(T)
        BY FS_Subset
    <2> QED BY <2>1, FS_CardinalityType
<1>2. bad # {} /\ bad \in SUBSET Nat
    BY <1>1
<1>3. PICK n \in bad : \A m \in bad : n <= m
    BY <1>2, LeastNumber
<1>4. PICK T \in SUBSET S : T \notin G /\ Cardinality(T) = n
    BY <1>3
<1>5. PICK x \in T : TRUE
    BY <1>4
<1>6. IsFiniteSet(T) /\ T \ {x} \in SUBSET S /\ T = (T \ {x}) \cup {x} /\ n \in Nat
    BY <1>1, <1>3
<1>7. Cardinality(T \ {x}) = n - 1
    BY <1>4, <1>5, <1>6, FS_RemoveElement
<1>8. T \ {x} \in G
    <2>1. Cardinality(T \ {x}) \in Nat
        BY <1>1, <1>6
    <2>2. ~(n <= n - 1)
        BY <1>6
    <2> QED BY <2>1, <2>2, <1>3, <1>6, <1>7
<1> QED BY <1>4, <1>5, <1>6, <1>8

(* Sums over the subsets of S                                              *)
Adds(sum, S, f) ==
    /\ sum \in [SUBSET S -> Nat] /\ sum[{}] = 0
    /\ \A T \in SUBSET S, x \in S : x \notin T => sum[T \cup {x}] = sum[T] + f[x]

LEMMA SumExists ==
    ASSUME NEW S, IsFiniteSet(S), NEW f \in [S -> Nat]
    PROVE  \E sum : Adds(sum, S, f)
<1> DEFINE G == {T \in SUBSET S : \E sum : Adds(sum, T, f)}
<1>1. {} \in G
    <2> DEFINE s == [T \in SUBSET {} |-> 0]
    <2>1. Adds(s, {}, f)
        BY DEF Adds
    <2> QED BY <2>1
<1>2. ASSUME NEW T \in SUBSET S, NEW x \in S, T \in G, x \notin T PROVE T \cup {x} \in G
    <2>1. PICK s : Adds(s, T, f)
        BY <1>2
    <2> DEFINE U == T \cup {x}
               z == [V \in SUBSET U |-> IF x \in V THEN s[V \ {x}] + f[x] ELSE s[V]]
    <2>2. \A V \in SUBSET U : V \ {x} \in SUBSET T /\ (x \notin V => V \in SUBSET T)
        OBVIOUS
    <2>3. \A V \in SUBSET T : s[V] \in Nat
        BY <2>1 DEF Adds
    <2>4. f[x] \in Nat
        OBVIOUS
    <2>5. z \in [SUBSET U -> Nat]
        BY <2>2, <2>3, <2>4
    <2>6. z[{}] = 0
        BY <2>1 DEF Adds
    <2>7. ASSUME NEW V \in SUBSET U, NEW y \in U, y \notin V PROVE z[V \cup {y}] = z[V] + f[y]
        <3>1. V \cup {y} \in SUBSET U
            BY <2>7
        <3>2. CASE y = x
            <4>1. (V \cup {y}) \ {x} = V /\ x \notin V
                BY <2>7, <3>2
            <4>2. z[V \cup {y}] = s[V] + f[x] /\ z[V] = s[V]
                BY <4>1, <3>1, <3>2
            <4> QED BY <4>2, <3>2
        <3>3. CASE y # x /\ x \in V
            <4>1. (V \cup {y}) \ {x} = (V \ {x}) \cup {y} /\ y \in T /\ V \ {x} \in SUBSET T /\ y \notin V \ {x}
                BY <2>7, <3>3
            <4>2. z[V \cup {y}] = s[(V \ {x}) \cup {y}] + f[x] /\ z[V] = s[V \ {x}] + f[x]
                BY <4>1, <3>1, <3>3
            <4>3. s[(V \ {x}) \cup {y}] = s[V \ {x}] + f[y]
                BY <2>1, <4>1 DEF Adds
            <4>4. s[V \ {x}] \in Nat /\ f[x] \in Nat /\ f[y] \in Nat
                BY <2>3, <4>1, <2>4
            <4> QED BY <4>2, <4>3, <4>4
        <3>4. CASE y # x /\ x \notin V
            <4>1. x \notin V \cup {y} /\ y \in T /\ V \in SUBSET T
                BY <2>7, <3>4
            <4>2. z[V \cup {y}] = s[V \cup {y}] /\ z[V] = s[V]
                BY <4>1, <3>1, <3>4
            <4>3. s[V \cup {y}] = s[V] + f[y]
                BY <2>1, <2>7, <4>1 DEF Adds
            <4> QED BY <4>2, <4>3
        <3> QED BY <3>2, <3>3, <3>4
    <2> HIDE DEF z
    <2>8. Adds(z, U, f)
        BY <2>5, <2>6, <2>7 DEF Adds
    <2> QED BY <2>8
<1>3. S \in G
    <2>1. G \in SUBSET SUBSET S
        OBVIOUS
    <2> HIDE DEF G
    <2> QED BY <1>1, <1>2, <2>1, SubsetInduction
<1> QED BY <1>3


(* What a call is made with                                                 *)
ArgumentsAre ==
    /\ \E n \in 1 .. MaxItems : workload \in [1 .. n -> Workloads]
    /\ k \in 1 .. MaxSets /\ k <= Cardinality(Items)
    /\ equal \in BOOLEAN /\ (equal => Cardinality(Items) % k = 0)

LEMMA ItemsAre ==
    ASSUME ItemsAssumption, WorkloadsAssumption, ArgumentsAre
    PROVE  /\ IsFiniteSet(Items) /\ Cardinality(Items) \in Nat /\ Cardinality(Items) >= 1
           /\ Items = 1 .. Cardinality(Items) /\ Items \subseteq 1 .. MaxItems
           /\ workload \in [Items -> Nat] /\ k \in Nat /\ k >= 1
           /\ \A S \in SUBSET Items : IsFiniteSet(S) /\ Cardinality(S) \in Nat
<1>1. PICK n \in 1 .. MaxItems : workload \in [1 .. n -> Workloads]
    BY DEF ArgumentsAre
<1>2. n \in Nat /\ n >= 1 /\ Items = 1 .. n /\ 1 .. n \subseteq 1 .. MaxItems
    BY <1>1 DEF Items, ItemsAssumption
<1>3. IsFiniteSet(Items) /\ Cardinality(Items) = n
    BY <1>2, FS_Interval
<1>4. workload \in [Items -> Nat]
    BY <1>1, <1>2 DEF WorkloadsAssumption
<1>5. k \in Nat /\ k >= 1
    BY DEF ArgumentsAre, ItemsAssumption
<1>6. \A S \in SUBSET Items : IsFiniteSet(S) /\ Cardinality(S) \in Nat
    BY <1>3, FS_Subset, FS_CardinalityType
<1> QED BY <1>2, <1>3, <1>4, <1>5, <1>6

(* The sum over a set of items does not depend on the order they are taken. *)
LEMMA SumsAdd ==
    ASSUME ItemsAssumption, WorkloadsAssumption, ArgumentsAre
    PROVE  /\ SumOf[{}] = 0
           /\ \A S \in SUBSET Items : SumOf[S] \in Nat
           /\ \A i \in Items : SumOf[{i}] = workload[i]
           /\ \A S, T \in SUBSET Items : S \cap T = {} => SumOf[S \cup T] = SumOf[S] + SumOf[T]
<1>1. PICK sum : Adds(sum, Items, workload)
    BY ItemsAre, SumExists
<1>2. \A S \in SUBSET Items : sum[S] \in Nat
    BY <1>1 DEF Adds
<1>3. \A S \in SUBSET Items : SumOf[S] = sum[S]
    <2> DEFINE G == {S \in SUBSET Items : SumOf[S] # sum[S]}
    <2>1. SUFFICES ASSUME G # {} PROVE FALSE
        OBVIOUS
    <2>2. PICK S \in G : \A x \in S : S \ {x} \notin G
        <3>1. G \in SUBSET SUBSET Items
            OBVIOUS
        <3> HIDE DEF G
        <3> QED BY <2>1, <3>1, ItemsAre, MinimalSubset
    <2>3. SumOf[S] = SumBody(SumOf, S)
        BY ItemsAre, SumOfItems
    <2>6. /\ S \in SUBSET Items /\ SumOf[S] # sum[S]
          /\ \A x \in S : SumOf[S \ {x}] = sum[S \ {x}] /\ S \ {x} \in SUBSET Items
        BY <2>2
    <2>4. CASE S = {}
        BY <2>3, <2>4, <1>1 DEF SumBody, Adds
    <2>5. CASE S # {}
        <3> DEFINE i == CHOOSE j \in S : TRUE
        <3>1. i \in S
            BY <2>5
        <3>2. SumOf[S] = workload[i] + SumOf[S \ {i}]
            BY <2>3, <2>5, Zenon DEF SumBody
        <3> HIDE DEF i, G
        <3>3. S \ {i} \in SUBSET Items /\ SumOf[S \ {i}] = sum[S \ {i}]
            BY <2>6, <3>1
        <3>4. i \in Items /\ i \notin S \ {i} /\ (S \ {i}) \cup {i} = S
            BY <2>6, <3>1
        <3>5. sum[(S \ {i}) \cup {i}] = sum[S \ {i}] + workload[i]
            BY <1>1, <3>3, <3>4 DEF Adds
        <3>6. workload[i] \in Nat /\ sum[S \ {i}] \in Nat
            BY <1>2, <3>3, <3>4, ItemsAre
        <3>7. sum[(S \ {i}) \cup {i}] = sum[S]
            BY <3>4, Zenon
        <3>8. SumOf[S] = sum[S]
            BY <3>2, <3>3, <3>5, <3>6, <3>7, SMT
        <3> QED BY <2>6, <3>8
    <2> QED BY <2>4, <2>5
<1>4. ASSUME NEW i \in Items PROVE sum[{i}] = workload[i]
    <2>1. {} \in SUBSET Items /\ i \notin {} /\ {} \cup {i} = {i}
        OBVIOUS
    <2>2. sum[{}] = 0 /\ sum[{} \cup {i}] = sum[{}] + workload[i] /\ workload[i] \in Nat
        BY <1>1, <2>1, ItemsAre DEF Adds
    <2> QED BY <2>1, <2>2
<1>5. ASSUME NEW S \in SUBSET Items, NEW T \in SUBSET Items, S \cap T = {}
      PROVE  sum[S \cup T] = sum[S] + sum[T]
    <2> DEFINE G == {U \in SUBSET T : sum[S \cup U] = sum[S] + sum[U]}
    <2>1. {} \in G
        <3>1. sum[{}] = 0 /\ S \cup {} = S /\ sum[S] \in Nat
            BY <1>1, <1>2 DEF Adds
        <3> QED BY <3>1
    <2>2. ASSUME NEW U \in SUBSET T, NEW x \in T, U \in G, x \notin U PROVE U \cup {x} \in G
        <3>1. /\ S \cup U \in SUBSET Items /\ x \in Items /\ x \notin S \cup U /\ U \in SUBSET Items
              /\ S \cup (U \cup {x}) = (S \cup U) \cup {x} /\ U \cup {x} \in SUBSET T
            BY <1>5, <2>2
        <3>2. sum[(S \cup U) \cup {x}] = sum[S \cup U] + workload[x]
            BY <1>1, <3>1 DEF Adds
        <3>3. sum[U \cup {x}] = sum[U] + workload[x]
            BY <1>1, <2>2, <3>1 DEF Adds
        <3>4. sum[S] \in Nat /\ sum[U] \in Nat /\ workload[x] \in Nat
            BY <1>2, <3>1, ItemsAre
        <3>5. sum[S \cup (U \cup {x})] = sum[S \cup U] + workload[x]
            BY <3>1, <3>2
        <3>6. sum[S \cup U] = sum[S] + sum[U]
            BY <2>2
        <3>7. sum[S \cup (U \cup {x})] = sum[S] + sum[U \cup {x}]
            BY <3>3, <3>4, <3>5, <3>6, SMT
        <3> QED BY <3>1, <3>7
    <2>3. T \in G
        <3>1. G \in SUBSET SUBSET T /\ IsFiniteSet(T)
            BY ItemsAre
        <3> HIDE DEF G
        <3> QED BY <2>1, <2>2, <3>1, SubsetInduction
    <2> QED BY <2>3
<1>6. sum[{}] = 0
    BY <1>1 DEF Adds
<1>7. \A S, T \in SUBSET Items : S \cup T \in SUBSET Items
    OBVIOUS
<1>8. {} \in SUBSET Items /\ \A i \in Items : {i} \in SUBSET Items
    OBVIOUS
<1> QED BY <1>2, <1>3, <1>4, <1>5, <1>6, <1>7, <1>8

(* Ranks: items of a smaller workload come first, and every place is taken  *)
(* once.                                                                    *)
LEMMA RanksAreTaken ==
    ASSUME ItemsAssumption, WorkloadsAssumption, ArgumentsAre
    PROVE  /\ \A i \in Items : Rank(i) \in 0 .. Cardinality(Items) - 1
           /\ \A i, j \in Items : Rank(i) = Rank(j) => i = j
           /\ \A i, j \in Items : Rank(i) <= Rank(j) => workload[i] <= workload[j]
           /\ \A r \in 0 .. Cardinality(Items) - 1 : \E i \in Items : Rank(i) = r
<1> DEFINE Less(i) == {j \in Items : \/ workload[j] < workload[i]
                                     \/ workload[j] = workload[i] /\ j < i}
           n == Cardinality(Items)
<1>1. \A i \in Items : workload[i] \in Nat /\ i \in Nat
    BY ItemsAre
<1>2. \A i \in Items : Rank(i) = Cardinality(Less(i)) /\ Less(i) \in SUBSET Items /\ IsFiniteSet(Less(i))
    BY ItemsAre DEF Rank
<1>3. ASSUME NEW i \in Items, NEW j \in Items, j \in Less(i) PROVE Rank(j) < Rank(i)
    <2>1. Less(j) \subseteq Less(i)
        <3> SUFFICES ASSUME NEW x \in Less(j) PROVE x \in Less(i)
            OBVIOUS
        <3> QED BY <1>1, <1>3
    <2>2. j \notin Less(j)
        BY <1>1
    <2>3. Less(j) \in SUBSET Less(i) /\ Less(j) # Less(i)
        BY <2>1, <2>2, <1>3
    <2> HIDE DEF Less
    <2>4. Cardinality(Less(j)) <= Cardinality(Less(i)) /\ Cardinality(Less(j)) # Cardinality(Less(i))
        BY <1>2, <2>3, FS_Subset
    <2>5. Rank(i) \in Nat /\ Rank(j) \in Nat
        BY <1>2, FS_CardinalityType
    <2> QED BY <1>2, <2>4, <2>5
<1>4. \A i, j \in Items : i = j \/ i \in Less(j) \/ j \in Less(i)
    BY <1>1
<1>5. \A i, j \in Items : workload[j] < workload[i] => j \in Less(i)
    OBVIOUS
<1>6. ASSUME NEW i \in Items PROVE Rank(i) \in 0 .. n - 1
    <2>1. i \notin Less(i)
        BY <1>1
    <2>2. Less(i) \in SUBSET Items /\ Less(i) # Items
        BY <1>2, <2>1
    <2> HIDE DEF Less
    <2>3. Cardinality(Less(i)) <= n /\ Cardinality(Less(i)) # n /\ Cardinality(Less(i)) \in Nat /\ n \in Nat
        BY <1>2, <2>2, ItemsAre, FS_Subset
    <2> HIDE DEF n
    <2> QED BY <1>2, <2>3
<1> HIDE DEF Less
<1>7. \A i, j \in Items : Rank(i) \in Int /\ (Rank(i) = Rank(j) => i = j)
    BY <1>3, <1>4, <1>6
<1>8. \A i, j \in Items : Rank(i) <= Rank(j) => workload[i] <= workload[j]
    <2> TAKE i, j \in Items
    <2>1. workload[j] < workload[i] => Rank(j) < Rank(i)
        BY <1>3, <1>5
    <2> QED BY <1>1, <1>7, <2>1
<1>9. \A r \in 0 .. n - 1 : \E i \in Items : Rank(i) = r
    <2> DEFINE f == [i \in Items |-> Rank(i)]
    <2>1. f \in Injection(Items, 0 .. n - 1)
        BY <1>6, <1>7 DEF Injection, IsInjective
    <2>2. IsFiniteSet(0 .. n - 1) /\ Cardinality(0 .. n - 1) = n
        <3>1. n \in Nat /\ n >= 1
            BY ItemsAre
        <3> HIDE DEF n
        <3>2. Cardinality(0 .. n - 1) = (n - 1) - 0 + 1 /\ IsFiniteSet(0 .. n - 1)
            BY <3>1, FS_Interval
        <3> QED BY <3>1, <3>2
    <2>3. f \in Surjection(Items, 0 .. n - 1)
        <3> HIDE DEF f
        <3> QED BY <2>1, <2>2, FS_Injection
    <2> QED BY <2>3 DEF Surjection
<1> QED BY <1>6, <1>7, <1>8, <1>9

(* What holds of a state, whatever it was merged from: its sums are those   *)
(* of its items, its sets are sorted, with the empty ones at the end, two   *)
(* of them differ by the largest item at most, and as long as one is empty  *)
(* none has two items.                                                      *)
SumsOf(p)       == \A s \in 1 .. k : p[s].sum = SumOf[p[s].items]
Decreasing(p)   == \A s, t \in 1 .. k : s < t => p[t].sum <= p[s].sum
EmptiesLast(p)  == \A s, t \in 1 .. k : s < t /\ p[s].items = {} => p[t].items = {}
FewDiffer(p)    == \A s, t \in 1 .. k : p[s].sum - p[t].sum <= Largest
SinglesFirst(p) == \/ \A s \in 1 .. k : p[s].items # {}
                   \/ \A s \in 1 .. k : \A i, j \in p[s].items : i = j
AsMany(p)       == \A s, t \in 1 .. k : Cardinality(p[s].items) = Cardinality(p[t].items)
Solution(p)     == /\ p \in [1 .. k -> Partitions]
                   /\ SumsOf(p) /\ Decreasing(p) /\ EmptiesLast(p) /\ FewDiffer(p)
                   /\ SinglesFirst(p) /\ (equal => AsMany(p))

(* The inductive invariant                                                  *)
IInv == ArgumentsAre /\ pool # {} /\ IsFiniteSet(pool) /\ EveryItemOnce /\ \A p \in pool : Solution(p)

LEMMA LargestIs ==
    ASSUME ItemsAssumption, WorkloadsAssumption, ArgumentsAre
    PROVE  Largest \in Nat /\ \A i \in Items : workload[i] <= Largest
<1> DEFINE m(i) == workload[i]
           r == Cardinality(Items) - 1
<1>1. PICK i \in Items : Rank(i) = r
    <2>1. r \in 0 .. r
        BY ItemsAre
    <2> QED BY <2>1, RanksAreTaken
<1>2. \A j \in Items : workload[j] <= workload[i]
    <2> TAKE j \in Items
    <2>1. Rank(j) <= Rank(i)
        BY <1>1, RanksAreTaken, ItemsAre
    <2> QED BY <2>1, RanksAreTaken
<1>3. \E x \in {workload[j] : j \in Items} : \A j \in Items : workload[j] <= x
    BY <1>2
<1>4. Largest \in {workload[j] : j \in Items} /\ \A j \in Items : workload[j] <= Largest
    BY <1>3 DEF Largest
<1> QED BY <1>4, ItemsAre

(* The states the merging starts with: an item in the first set             *)
LEMMA ItemsAreSolutions ==
    ASSUME ItemsAssumption, WorkloadsAssumption, ArgumentsAre, ~equal, NEW i \in Items
    PROVE  Solution(StateOfItem(i))
<1> DEFINE p == StateOfItem(i)
<1>1. workload[i] \in Nat /\ {i} \in SUBSET Items /\ k \in Nat /\ workload[i] <= Largest /\ Largest \in Nat
    BY ItemsAre, LargestIs
<1>2. /\ p \in [1 .. k -> Partitions]
      /\ \A s \in 1 .. k : /\ s = 1 => p[s].sum = workload[i] /\ p[s].items = {i}
                           /\ s # 1 => p[s].sum = 0 /\ p[s].items = {}
    BY <1>1 DEF StateOfItem, SetOf, EmptySet, Partitions
<1> HIDE DEF p
<1>3. ASSUME NEW s \in 1 .. k
      PROVE  /\ s \in Int /\ s >= 1
             /\ s = 1 => p[s].sum = workload[i] /\ p[s].items = {i}
             /\ s # 1 => p[s].sum = 0 /\ p[s].items = {}
             /\ p[s].sum = SumOf[p[s].items]
    <2>1. /\ s = 1 => p[s].sum = workload[i] /\ p[s].items = {i}
          /\ s # 1 => p[s].sum = 0 /\ p[s].items = {}
        BY <1>2
    <2>2. s \in Int /\ s >= 1
        BY <1>1
    <2>3. SumOf[{}] = 0 /\ SumOf[{i}] = workload[i]
        BY SumsAdd
    <2>4. p[s].sum = SumOf[p[s].items]
        BY <2>1, <2>3, Zenon
    <2> QED BY <2>1, <2>2, <2>4
<1>4. ASSUME NEW s \in 1 .. k, NEW t \in 1 .. k
      PROVE  /\ s < t => p[t].sum <= p[s].sum
             /\ s < t /\ p[s].items = {} => p[t].items = {}
             /\ p[s].sum - p[t].sum <= Largest
    <2>1. s \in Int /\ t \in Int /\ (s < t => t # 1)
        BY <1>3
    <2>2. CASE s = 1
        BY <1>1, <1>3, <2>1, <2>2
    <2>3. CASE s # 1
        BY <1>1, <1>3, <2>1, <2>3
    <2> QED BY <2>2, <2>3
<1>5. ASSUME NEW s \in 1 .. k PROVE \A x, y \in p[s].items : x = y
    BY <1>3
<1>6. SumsOf(p) /\ Decreasing(p)
    BY <1>3, <1>4 DEF SumsOf, Decreasing
<1>7. EmptiesLast(p) /\ FewDiffer(p) /\ SinglesFirst(p)
    BY <1>4, <1>5 DEF EmptiesLast, FewDiffer, SinglesFirst
<1> QED BY <1>2, <1>6, <1>7 DEF p, Solution

(* With equal_size: k items of neighbouring ranks                           *)
PlaceOf(g, s) == g * k + (k - s)

LEMMA PlacesAre ==
    ASSUME ItemsAssumption, WorkloadsAssumption, ArgumentsAre, Cardinality(Items) % k = 0
    PROVE  /\ \A g \in 0 .. Cardinality(Items) \div k - 1, s \in 1 .. k :
                  PlaceOf(g, s) \in 0 .. Cardinality(Items) - 1
           /\ \A g, h \in 0 .. Cardinality(Items) \div k - 1 : \A s, t \in 1 .. k :
                  PlaceOf(g, s) = PlaceOf(h, t) => g = h /\ s = t
           /\ \A r \in 0 .. Cardinality(Items) - 1 :
                  \E g \in 0 .. Cardinality(Items) \div k - 1, s \in 1 .. k : PlaceOf(g, s) = r
           /\ Cardinality(Items) \div k \in Nat
<1> DEFINE n == Cardinality(Items)
           d == n \div k
<1>1. n \in Nat /\ k \in Nat /\ k >= 1
    BY ItemsAre
<1>2. n = k * d /\ d \in Nat
    <2> HIDE DEF n
    <2>1. n % k = 0
        BY DEF n
    <2>2. n = k * (n \div k) + (n % k) /\ n \div k \in Nat
        BY <1>1, SMT
    <2> QED BY <1>1, <2>1, <2>2
<1> HIDE DEF d
<1>3. ASSUME NEW g \in 0 .. d - 1, NEW s \in 1 .. k PROVE PlaceOf(g, s) \in 0 .. n - 1
    <2>1. g \in Nat /\ d - 1 - g \in Nat /\ s \in Nat /\ g * k \in Nat /\ (d - 1 - g) * k \in Nat
        BY <1>1, <1>2
    <2>2. n = g * k + (d - 1 - g) * k + k
        BY <1>1, <1>2, <2>1
    <2> HIDE DEF n
    <2> QED BY <1>1, <2>1, <2>2 DEF PlaceOf
<1>4. ASSUME NEW g \in 0 .. d - 1, NEW h \in 0 .. d - 1, NEW s \in 1 .. k, NEW t \in 1 .. k,
             PlaceOf(g, s) = PlaceOf(h, t)
      PROVE  g = h /\ s = t
    <2>1. g \in Int /\ h \in Int /\ s \in Int /\ t \in Int /\ g - h \in Int
        BY <1>2
    <2>2. (g - h) * k = s - t
        BY <1>1, <1>4, <2>1 DEF PlaceOf
    <2>3. g - h >= 1 => (g - h) * k >= k
        BY <1>1, <2>1
    <2>4. h - g >= 1 => (h - g) * k >= k /\ (h - g) * k = -((g - h) * k)
        BY <1>1, <2>1
    <2>5. g = h
        BY <1>1, <2>1, <2>2, <2>3, <2>4
    <2>6. (g - h) * k = 0
        BY <1>1, <2>1, <2>5
    <2> QED BY <2>1, <2>2, <2>5, <2>6
<1>5. ASSUME NEW r \in 0 .. n - 1 PROVE \E g \in 0 .. d - 1, s \in 1 .. k : PlaceOf(g, s) = r
    <2> DEFINE g == r \div k
               s == k - (r % k)
    <2>1. r \in Nat /\ r = k * g + (r % k) /\ g \in Nat /\ r % k \in 0 .. k - 1
        BY <1>1, SMT
    <2>2. s \in 1 .. k /\ k - s = r % k
        BY <1>1, <2>1
    <2> HIDE DEF g, s
    <2>3. g <= d - 1
        <3> SUFFICES ASSUME g >= d PROVE FALSE
            BY <1>2, <2>1
        <3>1. k * g >= k * d
            BY <1>1, <1>2, <2>1
        <3>2. r <= n - 1
            OBVIOUS
        <3> HIDE DEF n
        <3> QED BY <1>1, <1>2, <2>1, <3>1, <3>2
    <2>4. PlaceOf(g, s) = r
        BY <1>1, <2>1, <2>2 DEF PlaceOf
    <2> QED BY <1>2, <2>1, <2>2, <2>3, <2>4
<1> QED BY <1>2, <1>3, <1>4, <1>5 DEF d

LEMMA GroupsAre ==
    ASSUME ItemsAssumption, WorkloadsAssumption, ArgumentsAre, Cardinality(Items) % k = 0,
           NEW g \in 0 .. Cardinality(Items) \div k - 1
    PROVE  /\ StateOfGroup(g) \in [1 .. k -> Partitions]
           /\ \A s \in 1 .. k : \E i \in Items :
                 Rank(i) = PlaceOf(g, s) /\ StateOfGroup(g)[s] = [sum |-> workload[i], items |-> {i}]
<1>1. ASSUME NEW s \in 1 .. k
      PROVE  \E i \in Items :
                Rank(i) = PlaceOf(g, s) /\ StateOfGroup(g)[s] = [sum |-> workload[i], items |-> {i}]
    <2> DEFINE i == CHOOSE j \in Items : Rank(j) = PlaceOf(g, s)
    <2>1. \E j \in Items : Rank(j) = PlaceOf(g, s)
        BY PlacesAre, RanksAreTaken
    <2>2. i \in Items /\ Rank(i) = PlaceOf(g, s)
        BY <2>1
    <2>3. StateOfGroup(g)[s] = [sum |-> workload[i], items |-> {i}]
        BY DEF StateOfGroup, SetOf, PlaceOf
    <2> QED BY <2>2, <2>3
<1>2. \A s \in 1 .. k : StateOfGroup(g)[s] \in Partitions
    <2> TAKE s \in 1 .. k
    <2>1. PICK i \in Items : StateOfGroup(g)[s] = [sum |-> workload[i], items |-> {i}]
        BY <1>1
    <2>2. workload[i] \in Nat /\ {i} \in SUBSET Items
        BY ItemsAre
    <2> QED BY <2>1, <2>2 DEF Partitions
<1>3. StateOfGroup(g) \in [1 .. k -> Partitions]
    BY <1>2 DEF StateOfGroup
<1> QED BY <1>1, <1>3

LEMMA GroupsAreSolutions ==
    ASSUME ItemsAssumption, WorkloadsAssumption, ArgumentsAre, Cardinality(Items) % k = 0,
           NEW g \in 0 .. Cardinality(Items) \div k - 1
    PROVE  Solution(StateOfGroup(g))
<1> DEFINE p == StateOfGroup(g)
<1>1. PICK at \in [1 .. k -> Items] :
          \A s \in 1 .. k : Rank(at[s]) = PlaceOf(g, s) /\ p[s].sum = workload[at[s]] /\ p[s].items = {at[s]}
    <2> DEFINE at == [s \in 1 .. k |-> CHOOSE i \in Items :
                  Rank(i) = PlaceOf(g, s) /\ p[s] = [sum |-> workload[i], items |-> {i}]]
    <2> HIDE DEF p
    <2>1. \A s \in 1 .. k : /\ at[s] \in Items /\ Rank(at[s]) = PlaceOf(g, s)
                            /\ p[s] = [sum |-> workload[at[s]], items |-> {at[s]}]
        BY GroupsAre DEF p
    <2>2. at \in [1 .. k -> Items]
        BY <2>1
    <2> HIDE DEF at
    <2>3. ASSUME NEW s \in 1 .. k PROVE p[s].sum = workload[at[s]] /\ p[s].items = {at[s]}
        <3>1. p[s] = [sum |-> workload[at[s]], items |-> {at[s]}]
            BY <2>1
        <3> QED BY <3>1
    <2> QED BY <2>1, <2>2, <2>3
<1>2. p \in [1 .. k -> Partitions]
    BY GroupsAre
<1> HIDE DEF p
<1>3. SumsOf(p)
    <2> SUFFICES ASSUME NEW s \in 1 .. k PROVE p[s].sum = SumOf[p[s].items]
        BY DEF SumsOf
    <2>1. at[s] \in Items /\ p[s].sum = workload[at[s]] /\ p[s].items = {at[s]}
        BY <1>1
    <2> QED BY <2>1, SumsAdd
<1>4. Decreasing(p)
    <2> SUFFICES ASSUME NEW s \in 1 .. k, NEW t \in 1 .. k, s < t PROVE p[t].sum <= p[s].sum
        BY DEF Decreasing
    <2>1. g * k \in Int /\ k \in Nat
        BY ItemsAre, PlacesAre
    <2>2. PlaceOf(g, t) <= PlaceOf(g, s)
        BY <2>1 DEF PlaceOf
    <2> QED BY <1>1, <2>2, RanksAreTaken
<1>5. FewDiffer(p)
    <2> SUFFICES ASSUME NEW s \in 1 .. k, NEW t \in 1 .. k PROVE p[s].sum - p[t].sum <= Largest
        BY DEF FewDiffer
    <2>1. p[s].sum \in Nat /\ p[t].sum \in Nat /\ p[s].sum <= Largest /\ Largest \in Nat
        BY <1>1, ItemsAre, LargestIs
    <2> QED BY <2>1
<1>6. EmptiesLast(p) /\ SinglesFirst(p)
    BY <1>1 DEF EmptiesLast, SinglesFirst
<1>7. AsMany(p)
    <2>1. ASSUME NEW s \in 1 .. k PROVE Cardinality(p[s].items) = 1
        <3>1. p[s].items = {at[s]}
            BY <1>1
        <3> QED BY <3>1, FS_Singleton, Zenon
    <2> QED BY <2>1 DEF AsMany
<1> QED BY <1>2, <1>3, <1>4, <1>5, <1>6, <1>7 DEF p, Solution

LEMMA InitIInv == ASSUME ItemsAssumption, WorkloadsAssumption, Init PROVE IInv
<1>1. ArgumentsAre
    BY DEF Init, ArgumentsAre
<1>2. /\ k \in Nat /\ k >= 1 /\ k <= Cardinality(Items) /\ Cardinality(Items) \in Nat
      /\ Items # {}
    BY <1>1, ItemsAre DEF ArgumentsAre
<1>3. CASE ~equal
    <2>1. pool = {StateOfItem(i) : i \in Items}
        BY <1>3 DEF Init, FirstStates
    <2>2. \A p \in pool : Solution(p)
        BY <1>1, <1>3, <2>1, ItemsAreSolutions
    <2>3. ASSUME NEW i \in Items, NEW s \in 1 .. k
          PROVE  StateOfItem(i)[s].items = IF s = 1 THEN {i} ELSE {}
        BY DEF StateOfItem, SetOf, EmptySet
    <2>4. ASSUME NEW i \in Items PROVE \E p \in pool : \E s \in 1 .. k : i \in p[s].items
        <3>1. 1 \in 1 .. k /\ StateOfItem(i) \in pool
            BY <1>2, <2>1
        <3> QED BY <2>3, <3>1
    <2>5. ASSUME NEW p \in pool, NEW q \in pool, NEW s \in 1 .. k, NEW t \in 1 .. k,
                 p[s].items \cap q[t].items # {}
          PROVE  p = q /\ s = t
        <3>1. PICK i \in Items, j \in Items : p = StateOfItem(i) /\ q = StateOfItem(j)
            BY <2>1
        <3>2. p[s].items = (IF s = 1 THEN {i} ELSE {}) /\ q[t].items = IF t = 1 THEN {j} ELSE {}
            BY <2>3, <3>1
        <3>3. s = 1 /\ t = 1 /\ i = j
            BY <2>5, <3>2
        <3> QED BY <3>1, <3>3
    <2>6. EveryItemOnce
        BY <2>4, <2>5 DEF EveryItemOnce
    <2>7. IsFiniteSet(pool)
        <3> DEFINE f == [i \in Items |-> StateOfItem(i)]
        <3>1. f \in Surjection(Items, pool)
            BY <2>1 DEF Surjection
        <3> HIDE DEF f
        <3> QED BY <1>1, <3>1, ItemsAre, FS_Surjection
    <2> QED BY <1>1, <1>2, <2>1, <2>2, <2>6, <2>7 DEF IInv
<1>4. CASE equal
    <2> DEFINE groups == 0 .. Cardinality(Items) \div k - 1
    <2>1. pool = {StateOfGroup(g) : g \in groups} /\ Cardinality(Items) % k = 0
        BY <1>4 DEF Init, FirstStates
    <2>2. \A p \in pool : Solution(p)
        BY <1>1, <2>1, GroupsAreSolutions
    <2>3. ASSUME NEW i \in Items PROVE \E p \in pool : \E s \in 1 .. k : i \in p[s].items
        <3>1. Rank(i) \in 0 .. Cardinality(Items) - 1
            BY <1>1, RanksAreTaken
        <3>2. PICK g \in groups, s \in 1 .. k : PlaceOf(g, s) = Rank(i)
            BY <1>1, <2>1, <3>1, PlacesAre
        <3>3. PICK j \in Items : Rank(j) = PlaceOf(g, s) /\ StateOfGroup(g)[s] = [sum |-> workload[j], items |-> {j}]
            BY <1>1, <2>1, GroupsAre
        <3>4. i = j
            BY <1>1, <3>2, <3>3, RanksAreTaken
        <3>5. i \in StateOfGroup(g)[s].items
            BY <3>3, <3>4
        <3> QED BY <2>1, <3>5
    <2>4. ASSUME NEW p \in pool, NEW q \in pool, NEW s \in 1 .. k, NEW t \in 1 .. k,
                 p[s].items \cap q[t].items # {}
          PROVE  p = q /\ s = t
        <3>1. PICK g \in groups, h \in groups : p = StateOfGroup(g) /\ q = StateOfGroup(h)
            BY <2>1
        <3>2. PICK i \in Items : Rank(i) = PlaceOf(g, s) /\ p[s] = [sum |-> workload[i], items |-> {i}]
            BY <1>1, <2>1, <3>1, GroupsAre
        <3>3. PICK j \in Items : Rank(j) = PlaceOf(h, t) /\ q[t] = [sum |-> workload[j], items |-> {j}]
            BY <1>1, <2>1, <3>1, GroupsAre
        <3>4. p[s].items = {i} /\ q[t].items = {j}
            BY <3>2, <3>3
        <3>5. i = j
            BY <2>4, <3>4
        <3>6. PlaceOf(g, s) = PlaceOf(h, t)
            BY <3>2, <3>3, <3>5
        <3>7. g = h /\ s = t
            BY <1>1, <2>1, <3>6, PlacesAre
        <3> QED BY <3>1, <3>7
    <2>5. EveryItemOnce
        BY <2>3, <2>4 DEF EveryItemOnce
    <2>6. pool # {}
        <3>1. 1 \in Items
            BY <1>1, <1>2, ItemsAre
        <3> QED BY <2>3, <3>1
    <2>7. IsFiniteSet(pool)
        <3> DEFINE f == [g \in groups |-> StateOfGroup(g)]
        <3>1. f \in Surjection(groups, pool)
            BY <2>1 DEF Surjection
        <3>2. IsFiniteSet(groups)
            <4>1. Cardinality(Items) \div k - 1 \in Int
                BY <1>1, <2>1, PlacesAre
            <4> QED BY <4>1, FS_Interval
        <3> HIDE DEF f, groups
        <3> QED BY <3>1, <3>2, FS_Surjection
    <2> QED BY <1>1, <2>2, <2>5, <2>6, <2>7 DEF IInv
<1> QED BY <1>3, <1>4 DEF Init
-----------------------------------------------------------------------------
(* Two states without an item in common are merged: what their sets have    *)
LEMMA MergedHas ==
    ASSUME ItemsAssumption, WorkloadsAssumption, ArgumentsAre,
           NEW p, NEW q, Solution(p), Solution(q), NEW i \in 1 .. k
    PROVE  /\ k + 1 - i \in 1 .. k /\ k + 1 - (k + 1 - i) = i
           /\ p[i] \in Partitions /\ q[k + 1 - i] \in Partitions
           /\ Merged(p, q)[i].sum = p[i].sum + q[k + 1 - i].sum
           /\ Merged(p, q)[i].items = p[i].items \cup q[k + 1 - i].items
           /\ p[i].sum \in Nat /\ q[k + 1 - i].sum \in Nat
           /\ p[i].items \in SUBSET Items /\ q[k + 1 - i].items \in SUBSET Items
<1>1. k \in Nat /\ i \in Nat
    BY ItemsAre
<1>2. k + 1 - i \in 1 .. k /\ k + 1 - (k + 1 - i) = i
    BY <1>1
<1>3. p[i] \in Partitions /\ q[k + 1 - i] \in Partitions
    BY <1>2 DEF Solution
<1>4. /\ p[i].sum \in Nat /\ q[k + 1 - i].sum \in Nat
      /\ p[i].items \in SUBSET Items /\ q[k + 1 - i].items \in SUBSET Items
    BY <1>3 DEF Partitions
<1>5. /\ Merged(p, q)[i].sum = p[i].sum + q[k + 1 - i].sum
      /\ Merged(p, q)[i].items = p[i].items \cup q[k + 1 - i].items
    BY DEF Merged
<1> QED BY <1>2, <1>3, <1>4, <1>5

Disjoint(p, q) == \A s, t \in 1 .. k : p[s].items \cap q[t].items = {}

(* What holds of the merged sets before they are sorted                     *)
LEMMA MergedSets ==
    ASSUME ItemsAssumption, WorkloadsAssumption, ArgumentsAre,
           NEW p, NEW q, Solution(p), Solution(q), Disjoint(p, q)
    PROVE  /\ Merged(p, q) \in [1 .. k -> Partitions]
           /\ SumsOf(Merged(p, q)) /\ FewDiffer(Merged(p, q)) /\ SinglesFirst(Merged(p, q))
           /\ equal => AsMany(Merged(p, q))
<1> DEFINE m == Merged(p, q)
<1>1. \A i \in 1 .. k : m[i] \in Partitions
    <2> TAKE i \in 1 .. k
    <2>1. m[i] = [sum |-> p[i].sum + q[k + 1 - i].sum, items |-> p[i].items \cup q[k + 1 - i].items]
        BY DEF Merged
    <2>2. /\ p[i].sum \in Nat /\ q[k + 1 - i].sum \in Nat
          /\ p[i].items \in SUBSET Items /\ q[k + 1 - i].items \in SUBSET Items
        BY MergedHas
    <2>3. p[i].sum + q[k + 1 - i].sum \in Nat /\ p[i].items \cup q[k + 1 - i].items \in SUBSET Items
        BY <2>2
    <2> QED BY <2>1, <2>3 DEF Partitions
<1>2. m \in [1 .. k -> Partitions]
    BY <1>1 DEF Merged
<1>has. ASSUME NEW i \in 1 .. k
        PROVE  /\ k + 1 - i \in 1 .. k /\ i \in Nat
               /\ m[i].sum = p[i].sum + q[k + 1 - i].sum /\ m[i].items = p[i].items \cup q[k + 1 - i].items
               /\ p[i].sum \in Nat /\ q[k + 1 - i].sum \in Nat
               /\ p[i].items \in SUBSET Items /\ q[k + 1 - i].items \in SUBSET Items
    <2>1. i \in Nat
        BY ItemsAre
    <2>2. k + 1 - i \in 1 .. k /\ p[i].sum \in Nat /\ q[k + 1 - i].sum \in Nat
        BY MergedHas
    <2>3. p[i].items \in SUBSET Items /\ q[k + 1 - i].items \in SUBSET Items
        BY MergedHas
    <2>4. m[i].sum = p[i].sum + q[k + 1 - i].sum
        BY MergedHas
    <2>5. m[i].items = p[i].items \cup q[k + 1 - i].items
        BY DEF Merged
    <2> QED BY <2>1, <2>2, <2>3, <2>4, <2>5
<1> HIDE DEF m
<1>3. SumsOf(m)
    <2> SUFFICES ASSUME NEW i \in 1 .. k PROVE m[i].sum = SumOf[m[i].items]
        BY DEF SumsOf
    <2> DEFINE S == p[i].items
               T == q[k + 1 - i].items
    <2>1. /\ S \in SUBSET Items /\ T \in SUBSET Items /\ k + 1 - i \in 1 .. k
          /\ m[i].sum = p[i].sum + q[k + 1 - i].sum /\ m[i].items = S \cup T
        BY <1>has
    <2>2. p[i].sum = SumOf[S] /\ q[k + 1 - i].sum = SumOf[T]
        BY <2>1 DEF Solution, SumsOf
    <2>3. S \cap T = {}
        BY <2>1 DEF Disjoint
    <2> HIDE DEF S, T
    <2>4. SumOf[S \cup T] = SumOf[S] + SumOf[T]
        BY <2>1, <2>3, SumsAdd
    <2>5. SumOf[m[i].items] = SumOf[S \cup T]
        BY <2>1, Zenon
    <2> QED BY <2>1, <2>2, <2>4, <2>5
<1>4. FewDiffer(m)
    <2> SUFFICES ASSUME NEW i \in 1 .. k, NEW j \in 1 .. k PROVE m[i].sum - m[j].sum <= Largest
        BY DEF FewDiffer
    <2>1. /\ k + 1 - i \in 1 .. k /\ k + 1 - j \in 1 .. k /\ k \in Nat /\ Largest \in Nat
          /\ m[i].sum = p[i].sum + q[k + 1 - i].sum /\ m[j].sum = p[j].sum + q[k + 1 - j].sum
          /\ p[i].sum \in Nat /\ q[k + 1 - i].sum \in Nat /\ p[j].sum \in Nat /\ q[k + 1 - j].sum \in Nat
        BY <1>has, LargestIs, ItemsAre
    <2>2. p[i].sum - p[j].sum <= Largest /\ q[k + 1 - i].sum - q[k + 1 - j].sum <= Largest
        BY <2>1 DEF Solution, FewDiffer
    <2>3. CASE i < j
        <3>1. k + 1 - j < k + 1 - i
            BY <2>1, <2>3
        <3>2. q[k + 1 - i].sum <= q[k + 1 - j].sum
            BY <2>1, <3>1 DEF Solution, Decreasing
        <3> QED BY <2>1, <2>2, <3>2
    <2>4. CASE j < i
        <3>1. p[i].sum <= p[j].sum
            BY <2>4 DEF Solution, Decreasing
        <3> QED BY <2>1, <2>2, <3>1
    <2>5. CASE i = j
        BY <2>1, <2>5
    <2>6. i < j \/ j < i \/ i = j
        BY <2>1
    <2> QED BY <2>3, <2>4, <2>5, <2>6
<1>5. SinglesFirst(m)
    <2> SUFFICES ASSUME NEW e \in 1 .. k, m[e].items = {}, NEW s \in 1 .. k,
                        NEW x \in m[s].items, NEW y \in m[s].items
                 PROVE  x = y
        BY DEF SinglesFirst
    <2>1. /\ k \in Nat /\ e \in Nat /\ s \in Nat /\ k + 1 - e \in 1 .. k /\ k + 1 - s \in 1 .. k
          /\ m[e].items = p[e].items \cup q[k + 1 - e].items /\ m[s].items = p[s].items \cup q[k + 1 - s].items
        BY <1>has, ItemsAre
    <2>2. p[e].items = {} /\ q[k + 1 - e].items = {}
        BY <2>1
    <2>3. (\A i, j \in p[s].items : i = j) /\ (\A i, j \in q[k + 1 - s].items : i = j)
        BY <2>1, <2>2 DEF Solution, SinglesFirst
    <2>4. CASE s < e
        <3>1. k + 1 - e < k + 1 - s
            BY <2>1, <2>4
        <3>2. q[k + 1 - s].items = {}
            BY <2>1, <2>2, <3>1 DEF Solution, EmptiesLast
        <3> QED BY <2>1, <2>3, <3>2
    <2>5. CASE e < s
        <3>1. p[s].items = {}
            BY <2>2, <2>5 DEF Solution, EmptiesLast
        <3> QED BY <2>1, <2>3, <3>1
    <2>6. CASE e = s
        BY <2>6
    <2>7. s < e \/ e < s \/ e = s
        BY <2>1
    <2> QED BY <2>4, <2>5, <2>6, <2>7
<1>6. ASSUME equal PROVE AsMany(m)
    <2>1. ASSUME NEW i \in 1 .. k
          PROVE  /\ k + 1 - i \in 1 .. k
                 /\ Cardinality(m[i].items) = Cardinality(p[i].items) + Cardinality(q[k + 1 - i].items)
        <3> DEFINE S == p[i].items
                   T == q[k + 1 - i].items
        <3>1. S \in SUBSET Items /\ T \in SUBSET Items /\ m[i].items = S \cup T /\ k + 1 - i \in 1 .. k
            BY <1>has
        <3>2. S \cap T = {}
            BY <3>1 DEF Disjoint
        <3> HIDE DEF S, T
        <3>3. IsFiniteSet(S) /\ IsFiniteSet(T) /\ Cardinality(S) \in Nat /\ Cardinality(T) \in Nat
            BY <3>1, ItemsAre
        <3>4. Cardinality(S \cup T) = Cardinality(S) + Cardinality(T) - Cardinality(S \cap T)
            BY <3>3, FS_Union
        <3>5. Cardinality(S \cap T) = 0
            BY <3>2, FS_EmptySet, Zenon
        <3>6. Cardinality(S \cup T) = Cardinality(S) + Cardinality(T)
            BY <3>3, <3>4, <3>5
        <3>7. Cardinality(m[i].items) = Cardinality(S) + Cardinality(T)
            BY <3>1, <3>6, Zenon
        <3> QED BY <3>1, <3>7 DEF S, T
    <2> SUFFICES ASSUME NEW i \in 1 .. k, NEW j \in 1 .. k PROVE Cardinality(m[i].items) = Cardinality(m[j].items)
        BY DEF AsMany
    <2>2. /\ Cardinality(p[i].items) = Cardinality(p[j].items)
          /\ Cardinality(q[k + 1 - i].items) = Cardinality(q[k + 1 - j].items)
        BY <1>6, <2>1 DEF Solution, AsMany
    <2> QED BY <2>1, <2>2
<1> QED BY <1>2, <1>3, <1>4, <1>5, <1>6 DEF m

(* Sorting makes a state of them.                                           *)
LEMMA SortedIsSolution ==
    ASSUME ItemsAssumption, WorkloadsAssumption, ArgumentsAre,
           NEW m \in [1 .. k -> Partitions], SumsOf(m), FewDiffer(m), SinglesFirst(m), equal => AsMany(m),
           NEW order \in Orders, SortedBy(m, order)
    PROVE  Solution([i \in 1 .. k |-> m[order[i]]])
<1> DEFINE r == [i \in 1 .. k |-> m[order[i]]]
<1>1. \A i \in 1 .. k : order[i] \in 1 .. k /\ r[i] = m[order[i]] /\ m[order[i]] \in Partitions
    BY DEF Orders
<1>2. r \in [1 .. k -> Partitions]
    BY <1>1
<1> HIDE DEF r
<1>3. \A i \in 1 .. k : /\ r[i].sum \in Nat /\ r[i].items \in SUBSET Items
    BY <1>2 DEF Partitions
<1>4. SumsOf(r)
    BY <1>1 DEF SumsOf
<1>5. FewDiffer(r)
    BY <1>1 DEF FewDiffer
<1>6. SinglesFirst(r)
    BY <1>1 DEF SinglesFirst
<1>7. equal => AsMany(r)
    BY <1>1 DEF AsMany
<1>8. \A i, j \in 1 .. k : i < j => ~Greater(r[j], r[i])
    BY <1>1 DEF SortedBy
<1>9. Decreasing(r)
    <2> SUFFICES ASSUME NEW i \in 1 .. k, NEW j \in 1 .. k, i < j PROVE r[j].sum <= r[i].sum
        BY DEF Decreasing
    <2>1. ~(r[j].sum > r[i].sum)
        BY <1>8 DEF Greater
    <2> QED BY <1>3, <2>1
<1>10. EmptiesLast(r)
    <2> SUFFICES ASSUME NEW i \in 1 .. k, NEW j \in 1 .. k, i < j, r[i].items = {} PROVE r[j].items = {}
        BY DEF EmptiesLast
    <2>1. SumOf[r[i].items] = SumOf[{}] /\ Cardinality(r[i].items) = Cardinality({})
        BY Zenon
    <2>2. r[i].sum = 0 /\ Cardinality(r[i].items) = 0
        BY <1>4, <2>1, SumsAdd, FS_EmptySet DEF SumsOf
    <2>3. ~(r[j].sum > r[i].sum) /\ ~(r[j].sum = r[i].sum /\ Cardinality(r[j].items) > Cardinality(r[i].items))
        BY <1>8 DEF Greater
    <2>4. IsFiniteSet(r[j].items) /\ Cardinality(r[j].items) \in Nat
        BY <1>3, ItemsAre
    <2>5. Cardinality(r[j].items) = 0
        BY <1>3, <2>2, <2>3, <2>4
    <2> QED BY <2>4, <2>5, FS_EmptySet
<1> QED BY <1>2, <1>4, <1>5, <1>6, <1>7, <1>9, <1>10 DEF Solution, r

(* A merge takes two states and puts back what they hold, once.             *)
LEMMA MergeIInv ==
    ASSUME ItemsAssumption, WorkloadsAssumption, IInv, NEW p \in pool, NEW q \in pool, p # q, Merge(p, q)
    PROVE  IInv'
<1>1. /\ workload' = workload /\ k' = k /\ equal' = equal
      /\ ArgumentsAre /\ EveryItemOnce /\ \A o \in pool : Solution(o)
    BY DEF Merge, arguments, IInv
<1>2. ArgumentsAre' /\ Items' = Items /\ Partitions' = Partitions /\ Largest' = Largest /\ SumOf' = SumOf
    BY <1>1 DEF ArgumentsAre, Items, Partitions, Largest, SumOf
<1> DEFINE m == Merged(p, q)
<1>3. PICK order \in Orders : /\ SortedBy(m, order)
                              /\ pool' = (pool \ {p, q}) \cup {[i \in 1 .. k |-> m[order[i]]]}
    BY DEF Merge
<1> DEFINE r == [i \in 1 .. k |-> m[order[i]]]
<1>4. \A o1, o2 \in pool : \A s, t \in 1 .. k : o1[s].items \cap o2[t].items # {} => o1 = o2 /\ s = t
    BY <1>1 DEF EveryItemOnce
<1>5. Disjoint(p, q)
    BY <1>4 DEF Disjoint
<1>6. Solution(r)
    <2>1. /\ m \in [1 .. k -> Partitions] /\ SumsOf(m) /\ FewDiffer(m) /\ SinglesFirst(m)
          /\ equal => AsMany(m)
        BY <1>1, <1>5, MergedSets
    <2> HIDE DEF m
    <2> QED BY <1>1, <1>3, <2>1, SortedIsSolution
<1>7. \A i \in 1 .. k : /\ order[i] \in 1 .. k /\ k + 1 - order[i] \in 1 .. k
                        /\ r[i].items = p[order[i]].items \cup q[k + 1 - order[i]].items
    <2> TAKE i \in 1 .. k
    <2>1. order[i] \in 1 .. k
        BY DEF Orders
    <2>2. k + 1 - order[i] \in 1 .. k
        BY <1>1, <2>1, ItemsAre
    <2>3. m[order[i]].items = p[order[i]].items \cup q[k + 1 - order[i]].items
        BY <2>1 DEF Merged
    <2> QED BY <2>1, <2>2, <2>3
<1>8. \A i, j \in 1 .. k : /\ order[i] = order[j] => i = j
                           /\ k + 1 - order[i] = k + 1 - order[j] => i = j
                           /\ \E h \in 1 .. k : order[h] = i
    <2>1. \A i, j \in 1 .. k : order[i] = order[j] => i = j
        BY DEF Orders
    <2>2. ASSUME NEW i \in 1 .. k, NEW j \in 1 .. k, k + 1 - order[i] = k + 1 - order[j] PROVE i = j
        <3>1. order[i] \in Int /\ order[j] \in Int /\ k \in Int
            BY <1>1, <1>7, ItemsAre
        <3> QED BY <2>1, <2>2, <3>1
    <2>3. \A i \in 1 .. k : \E h \in 1 .. k : order[h] = i
        <3>1. order \in Injection(1 .. k, 1 .. k)
            BY <2>1 DEF Orders, Injection, IsInjective
        <3>2. IsFiniteSet(1 .. k)
            BY <1>1, ItemsAre, FS_Interval
        <3>3. order \in Surjection(1 .. k, 1 .. k)
            BY <3>1, <3>2, FS_Injection
        <3> QED BY <3>3 DEF Surjection
    <2> QED BY <2>1, <2>2, <2>3
<1> HIDE DEF r, m
<1>9. ASSUME NEW x \in Items PROVE \E o \in pool' : \E s \in 1 .. k : x \in o[s].items
    <2>1. PICK o \in pool, s \in 1 .. k : x \in o[s].items
        BY <1>1 DEF EveryItemOnce
    <2>2. CASE o # p /\ o # q
        BY <1>3, <2>1, <2>2
    <2>3. CASE o = p
        <3>1. PICK h \in 1 .. k : order[h] = s
            BY <1>8
        <3>2. x \in r[h].items
            BY <1>7, <2>1, <2>3, <3>1
        <3> QED BY <1>3, <3>2 DEF r
    <2>4. CASE o = q
        <3>1. k + 1 - s \in 1 .. k /\ k + 1 - (k + 1 - s) = s
            BY <1>1, MergedHas
        <3>2. PICK h \in 1 .. k : order[h] = k + 1 - s
            BY <1>8, <3>1
        <3>3. x \in r[h].items
            BY <1>7, <2>1, <2>4, <3>1, <3>2
        <3> QED BY <1>3, <3>3 DEF r
    <2> QED BY <2>2, <2>3, <2>4
<1>10. ASSUME NEW s \in 1 .. k, NEW t \in 1 .. k, r[s].items \cap r[t].items # {} PROVE s = t
    <2>1. PICK x : x \in r[s].items /\ x \in r[t].items
        BY <1>10
    <2>2. /\ x \in p[order[s]].items \/ x \in q[k + 1 - order[s]].items
          /\ x \in p[order[t]].items \/ x \in q[k + 1 - order[t]].items
        BY <1>7, <2>1
    <2>3. \A o1, o2 \in pool : \A u, v \in 1 .. k : x \in o1[u].items /\ x \in o2[v].items => o1 = o2 /\ u = v
        BY <1>4
    <2>4. CASE x \in p[order[s]].items /\ x \in p[order[t]].items
        BY <1>7, <1>8, <2>3, <2>4
    <2>5. CASE x \in q[k + 1 - order[s]].items /\ x \in q[k + 1 - order[t]].items
        BY <1>7, <1>8, <2>3, <2>5
    <2>6. ~(x \in p[order[s]].items /\ x \in q[k + 1 - order[t]].items)
        BY <1>7, <2>3
    <2>7. ~(x \in q[k + 1 - order[s]].items /\ x \in p[order[t]].items)
        BY <1>7, <2>3
    <2> QED BY <2>2, <2>4, <2>5, <2>6, <2>7
<1>11. ASSUME NEW o \in pool \ {p, q}, NEW s \in 1 .. k, NEW t \in 1 .. k PROVE o[s].items \cap r[t].items = {}
    <2>1. o[s].items \cap p[order[t]].items = {} /\ o[s].items \cap q[k + 1 - order[t]].items = {}
        BY <1>4, <1>7
    <2> QED BY <1>7, <2>1
<1>12. ASSUME NEW o1 \in pool', NEW o2 \in pool', NEW s \in 1 .. k, NEW t \in 1 .. k,
              o1[s].items \cap o2[t].items # {}
       PROVE  o1 = o2 /\ s = t
    <2>1. (o1 \in pool \ {p, q} \/ o1 = r) /\ (o2 \in pool \ {p, q} \/ o2 = r)
        BY <1>3 DEF r
    <2>2. CASE o1 = r /\ o2 = r
        BY <1>10, <1>12, <2>2
    <2>3. CASE o1 = r /\ o2 # r
        BY <1>11, <1>12, <2>1, <2>3
    <2>4. CASE o1 # r /\ o2 = r
        BY <1>11, <1>12, <2>1, <2>4
    <2>5. CASE o1 # r /\ o2 # r
        BY <1>4, <1>12, <2>1, <2>5
    <2> QED BY <2>2, <2>3, <2>4, <2>5
<1>13. EveryItemOnce'
    BY <1>1, <1>2, <1>9, <1>12 DEF EveryItemOnce
<1>14. \A o \in pool' : Solution(o)
    BY <1>1, <1>3, <1>6 DEF r
<1>15. \A o \in pool' : Solution(o)'
    BY <1>1, <1>2, <1>14 DEF Solution, SumsOf, Decreasing, EmptiesLast, FewDiffer, SinglesFirst, AsMany
<1>16. pool' # {}
    BY <1>3
<1>17. IsFiniteSet(pool)'
    <2>1. IsFiniteSet(pool) /\ IsFiniteSet({r})
        BY FS_Singleton DEF IInv
    <2>2. IsFiniteSet(pool \ {p, q})
        BY <2>1, FS_Difference
    <2>3. IsFiniteSet((pool \ {p, q}) \cup {r})
        BY <2>1, <2>2, FS_Union
    <2> QED BY <1>3, <2>3 DEF r
<1> QED BY <1>2, <1>13, <1>15, <1>16, <1>17 DEF IInv

(* The invariant says all that was asked for. With k items or more no set   *)
(* of the last state is empty: its sets would have an item each at most,    *)
(* too few for all of them.                                                 *)
LEMMA IInvIsEnough ==
    ASSUME ItemsAssumption, WorkloadsAssumption, IInv
    PROVE  TypeOK /\ EveryItemOnce /\ SumsAreOfTheItems /\ NoneIsEmpty /\ EqualSizes /\ SpreadIsBounded
<1>1. ArgumentsAre /\ pool # {} /\ EveryItemOnce /\ \A p \in pool : Solution(p)
    BY DEF IInv
<1>2. TypeOK
    <2>1. pool \subseteq [1 .. k -> Partitions]
        BY <1>1 DEF Solution
    <2> QED BY <1>1, <2>1 DEF TypeOK, ArgumentsAre
<1>3. SumsAreOfTheItems
    BY <1>1 DEF SumsAreOfTheItems, Solution, SumsOf
<1>4. EqualSizes
    BY <1>1 DEF EqualSizes, Solution, AsMany
<1>5. SpreadIsBounded
    BY <1>1 DEF SpreadIsBounded, Solution, FewDiffer
<1>6. NoneIsEmpty
    <2> SUFFICES ASSUME Finished, NEW e \in 1 .. k, Final[e].items = {} PROVE FALSE
        BY DEF NoneIsEmpty
    <2>1. PICK p : pool = {p}
        <3>1. IsFiniteSet(pool)
            BY DEF IInv
        <3> QED BY <3>1, FS_Singleton DEF Finished
    <2>2. Final = p
        BY <2>1 DEF Final
    <2>3. \A s \in 1 .. k : \A i, j \in p[s].items : i = j
        BY <1>1, <2>1, <2>2 DEF Solution, SinglesFirst
    <2> DEFINE rest == (1 .. k) \ {e}
               f == [i \in Items |-> CHOOSE s \in rest : i \in p[s].items]
    <2>4. ASSUME NEW i \in Items PROVE f[i] \in rest /\ i \in p[f[i]].items
        <3>1. PICK s \in 1 .. k : i \in p[s].items
            BY <1>1, <2>1 DEF EveryItemOnce
        <3>2. s \in rest
            BY <2>2, <3>1
        <3> QED BY <3>1, <3>2
    <2>5. f \in [Items -> rest]
        BY <2>4
    <2>6. IsFiniteSet(rest) /\ Cardinality(rest) < Cardinality(Items) /\ IsFiniteSet(Items)
        <3>1. k \in Nat /\ k >= 1 /\ k <= Cardinality(Items) /\ Cardinality(Items) \in Nat /\ IsFiniteSet(Items)
            BY <1>1, ItemsAre DEF ArgumentsAre
        <3>2. IsFiniteSet(1 .. k) /\ Cardinality(1 .. k) = k
            BY <3>1, FS_Interval
        <3>3. IsFiniteSet(rest) /\ Cardinality(rest) = k - 1
            BY <3>2, FS_RemoveElement
        <3> QED BY <3>1, <3>3
    <2>7. PICK i \in Items, j \in Items : i # j /\ f[i] = f[j]
        <3> HIDE DEF f, rest
        <3> QED BY <2>5, <2>6, FS_PigeonHole
    <2> QED BY <2>3, <2>4, <2>7
<1> QED BY <1>1, <1>2, <1>3, <1>4, <1>5, <1>6

LEMMA NextIInv == ASSUME ItemsAssumption, WorkloadsAssumption, IInv, [Next]_vars PROVE IInv'
<1>1. CASE Next
    <2>1. PICK p \in pool, q \in pool : p # q /\ Merge(p, q)
        BY <1>1 DEF Next
    <2> QED BY <2>1, MergeIInv
<1>2. CASE UNCHANGED vars
    <2>1. workload' = workload /\ k' = k /\ equal' = equal /\ pool' = pool
        BY <1>2 DEF vars, arguments
    <2>2. ArgumentsAre' /\ Partitions' = Partitions /\ Largest' = Largest /\ SumOf' = SumOf
        BY <2>1 DEF IInv, ArgumentsAre, Items, Partitions, Largest, SumOf
    <2>3. EveryItemOnce' /\ pool' # {} /\ IsFiniteSet(pool)'
        BY <2>1 DEF IInv, EveryItemOnce, Items
    <2>4. \A p \in pool' : Solution(p)'
        BY <2>1, <2>2 DEF IInv, Solution, SumsOf, Decreasing, EmptiesLast, FewDiffer, SinglesFirst, AsMany
    <2> QED BY <2>2, <2>3, <2>4 DEF IInv
<1> QED BY <1>1, <1>2

(* Every item is in one set, the sums are those of the items, with as many *)
(* items as sets none remains empty, sets to be of equal size are, and no  *)
(* two differ by more than the largest workload: of any items and number   *)
(* of sets, whichever ties the merging meets (karmarkar_karp).             *)
THEOREM AnyBatchIsDividedFairly ==
    Spec => [](TypeOK /\ EveryItemOnce /\ SumsAreOfTheItems /\ NoneIsEmpty /\ EqualSizes
               /\ SpreadIsBounded)
<1>1. ItemsAssumption /\ WorkloadsAssumption
    BY InstancesAssumption
<1>2. Init => IInv
    BY <1>1, InitIInv
<1>3. IInv /\ [Next]_vars => IInv'
    BY <1>1, NextIInv
<1>4. IInv => /\ TypeOK /\ EveryItemOnce /\ SumsAreOfTheItems /\ NoneIsEmpty /\ EqualSizes
              /\ SpreadIsBounded
    BY <1>1, IInvIsEnough
<1> QED BY <1>2, <1>3, <1>4, PTL DEF Spec
-----------------------------------------------------------------------------
(* The same of the behaviours of MCBatches that divide a batch, the others *)
(* being left alone (get_seqlen_balanced_partitions).                      *)
THEOREM PartitionsStayFair == SpecOfAll => []PartitionsAreFair
<1> DEFINE Inv == model = "sets" => IInv
<1>1. ItemsAssumption /\ WorkloadsAssumption
    BY InstancesAssumption
<1>2. InitOfAll => Inv
    BY <1>1, InitIInv DEF InitOfAll, InitOther, Estimators!InitOfAll
<1>3. Inv /\ [NextOfOne]_allVars => Inv'
    <2> SUFFICES ASSUME Inv, [NextOfOne]_allVars, model' = "sets" PROVE IInv'
        OBVIOUS
    <2>1. model = "sets" /\ [Next]_vars
        BY DEF NextOfOne, NextOther, Estimators!NextOfOne, allVars, otherVars, vars
    <2> QED BY <1>1, <2>1, NextIInv
<1>4. Inv => PartitionsAreFair
    BY <1>1, IInvIsEnough DEF PartitionsAreFair
<1> QED BY <1>2, <1>3, <1>4, PTL DEF SpecOfAll
=============================================================================
