------------------------- MODULE WeightUpdatesProofs -------------------------
(***************************************************************************)
(* Theorems about what happens between two training steps: the three ways  *)
(* weights travel (NcclTransfer, NixlTransfer, BucketedTransfer), for      *)
(* every model, bucket size and number of receivers; validation on the     *)
(* shared devices (HybridValidation), for any replicas, clients and number *)
(* of updates; and MCWeightUpdates, which is checked by a run.             *)
(*                                                                         *)
(* Of the chunks only their order matters: each continues its weight or    *)
(* begins the next one (RunsFromTo).  What a bucket carries is then named  *)
(* by how many chunks came before it, and what a receiver has put together *)
(* (Progress) by how many chunks it has read.                              *)
(***************************************************************************)
EXTENDS MCWeightUpdates, TLAPS, WellFoundedInduction, SequenceTheorems

LEMMA LeastNumber ==
    ASSUME NEW S \in SUBSET Nat, S # {}
    PROVE  \E x \in S : \A y \in S : x <= y
<1> DEFINE R == OpToRel(<, Nat)
<1>1. IsWellFoundedOn(R, Nat)
    BY NatLessThanWellFounded
<1>2. \A x, y \in Nat : x < y => <<x, y>> \in R
    BY DEF OpToRel
<1> HIDE DEF R
<1>3. PICK x \in S : \A y \in S : ~(<<y, x>> \in R)
    BY <1>1, WFMin
<1>4. \A y \in S : x <= y
    <2> SUFFICES ASSUME NEW y \in S PROVE x <= y
        OBVIOUS
    <2>1. x \in Nat /\ y \in Nat /\ ~(y < x)
        BY <1>2, <1>3
    <2> QED BY <2>1
<1> QED BY <1>4

(* Induction, with the set of the numbers a fact holds for.                 *)
LEMMA SetInduction ==
    ASSUME NEW n \in Nat, NEW S, 0 \in S,
           \A i \in 0 .. n : i < n /\ i \in S => i + 1 \in S
    PROVE  0 .. n \subseteq S
<1> SUFFICES ASSUME NEW k \in 0 .. n, k \notin S PROVE FALSE
    OBVIOUS
<1> DEFINE T == {i \in 0 .. n : i \notin S}
<1>1. T \in SUBSET Nat /\ T # {}
    OBVIOUS
<1>2. PICK x \in T : \A y \in T : x <= y
    BY <1>1, LeastNumber
<1>3. x \in 0 .. n /\ x \notin S /\ x # 0
    BY <1>2
<1>4. x - 1 \in 0 .. n /\ x - 1 < n /\ x - 1 + 1 = x
    BY <1>3
<1>5. x - 1 \in S
    BY <1>2, <1>4
<1> QED BY <1>3, <1>4, <1>5

LEMMA CeilingFacts ==
    ASSUME NEW s \in Nat \ {0}, NEW b \in Nat \ {0}
    PROVE  /\ (s + b - 1) \div b \in Nat \ {0}
           /\ ((s + b - 1) \div b) * b >= s
           /\ ((s + b - 1) \div b - 1) * b < s
<1> DEFINE n == (s + b - 1) \div b
<1>1. n \in Int /\ b * n <= s + b - 1 /\ s + b - 1 < b * (n + 1)
    BY SMT
<1> QED BY <1>1, SMT

(* The function that joins sequences one after another is the one its       *)
(* recursive definition describes.                                          *)
Joins(f, seqs, n) == f[0] = << >> /\ \A i \in 1 .. n : f[i] = f[i - 1] \o seqs[i]

LEMMA JoinsUp ==
    ASSUME NEW T, NEW n \in Nat, NEW seqs \in [1 .. n -> Seq(T)], NEW h,
           h = CHOOSE g : g = [i \in 0 .. n |-> IF i = 0 THEN << >> ELSE g[i - 1] \o seqs[i]]
    PROVE  h \in [0 .. n -> Seq(T)] /\ Joins(h, seqs, n)
<1> DEFINE Unrolled(f, k) == f \in [0 .. k -> Seq(T)] /\ Joins(f, seqs, k)
           S == {k \in 0 .. n : \E f : Unrolled(f, k)}
<1>1. 0 \in S
    <2> DEFINE g == [i \in 0 .. 0 |-> << >>]
    <2>1. g \in [0 .. 0 -> Seq(T)] /\ g[0] = << >>
        <3>1. << >> \in Seq(T)
            OBVIOUS
        <3> QED BY <3>1
    <2>2. \A i \in 1 .. 0 : FALSE
        OBVIOUS
    <2> HIDE DEF g
    <2>3. Unrolled(g, 0) /\ 0 \in 0 .. n
        BY <2>1, <2>2 DEF Joins
    <2> QED BY <2>3
<1>2. ASSUME NEW k \in 0 .. n, k < n, k \in S PROVE k + 1 \in S
    <2>1. PICK f : Unrolled(f, k)
        BY <1>2
    <2>2. f \in [0 .. k -> Seq(T)] /\ f[0] = << >>
        BY <2>1 DEF Joins
    <2> DEFINE g == [i \in 0 .. k + 1 |-> IF i = k + 1 THEN f[k] \o seqs[i] ELSE f[i]]
    <2>3. f[k] \in Seq(T) /\ seqs[k + 1] \in Seq(T)
        BY <1>2, <2>2
    <2>4. g \in [0 .. k + 1 -> Seq(T)] /\ g[0] = << >>
        <3>1. f[k] \o seqs[k + 1] \in Seq(T)
            BY <2>3
        <3>2. \A i \in 0 .. k : f[i] \in Seq(T) /\ i # k + 1
            BY <2>2
        <3> QED BY <2>2, <3>1, <3>2
    <2>5. ASSUME NEW i \in 1 .. k + 1 PROVE g[i] = g[i - 1] \o seqs[i]
        <3>1. CASE i = k + 1
            <4>1. i - 1 = k /\ k # k + 1 /\ k \in 0 .. k + 1 /\ k + 1 \in 0 .. k + 1
                BY <3>1
            <4>2. g[k + 1] = f[k] \o seqs[k + 1] /\ g[k] = f[k]
                BY <4>1
            <4> HIDE DEF g
            <4> QED BY <3>1, <4>1, <4>2
        <3>2. CASE i # k + 1
            <4>1. i \in 1 .. k /\ i - 1 \in 0 .. k /\ i - 1 # k + 1 /\ i \in 0 .. k + 1 /\ i - 1 \in 0 .. k + 1
                BY <3>2
            <4>2. f[i] = f[i - 1] \o seqs[i]
                BY <2>1, <4>1 DEF Joins
            <4> QED BY <3>2, <4>1, <4>2
        <3> QED BY <3>1, <3>2
    <2> HIDE DEF g
    <2>6. Unrolled(g, k + 1)
        BY <2>4, <2>5 DEF Joins
    <2>7. k + 1 \in 0 .. n
        BY <1>2
    <2> QED BY <2>6, <2>7
<1>3. n \in S
    <2>1. 0 .. n \subseteq S
        <3> HIDE DEF S
        <3> QED BY <1>1, <1>2, SetInduction
    <2>2. n \in 0 .. n
        OBVIOUS
    <2> QED BY <2>1, <2>2
<1>4. PICK f : Unrolled(f, n)
    BY <1>3
<1> DEFINE Body(g) == [i \in 0 .. n |-> IF i = 0 THEN << >> ELSE g[i - 1] \o seqs[i]]
<1>6. f = Body(f)
    <2>1. f = [i \in 0 .. n |-> f[i]]
        BY <1>4
    <2>2. ASSUME NEW i \in 0 .. n PROVE f[i] = IF i = 0 THEN << >> ELSE f[i - 1] \o seqs[i]
        <3>1. i = 0 \/ i \in 1 .. n
            OBVIOUS
        <3> QED BY <1>4, <3>1 DEF Joins
    <2> QED BY <2>1, <2>2, Zenon
<1>7. h = Body(h)
    <2>1. h = CHOOSE g : g = Body(g)
        BY Zenon
    <2> HIDE DEF Body
    <2> QED BY <1>6, <2>1
<1>8. \A i \in 0 .. n : h[i] = IF i = 0 THEN << >> ELSE h[i - 1] \o seqs[i]
    BY <1>7
<1>9. h = [i \in 0 .. n |-> h[i]]
    BY <1>7
<1> HIDE DEF Body
<1> DEFINE V == {k \in 0 .. n : h[k] \in Seq(T)}
<1>10. 0 \in V
    <2>1. << >> \in Seq(T) /\ 0 \in 0 .. n
        OBVIOUS
    <2>2. h[0] = << >>
        BY <1>8, <2>1, Zenon
    <2> QED BY <2>1, <2>2
<1>11. \A i \in 0 .. n : i # 0 => h[i] = h[i - 1] \o seqs[i]
    BY <1>8
<1>12. ASSUME NEW k \in 0 .. n, k < n, k \in V PROVE k + 1 \in V
    <2>1. PICK j \in 0 .. n : j = k + 1 /\ j # 0 /\ j - 1 = k
        BY <1>12
    <2>2. h[j] = h[j - 1] \o seqs[j]
        BY <1>11, <2>1, Zenon
    <2>3. h[j] = h[k] \o seqs[j]
        BY <2>1, <2>2, Zenon
    <2>3a. j \in 1 .. n
        BY <2>1
    <2>3b. seqs[j] \in Seq(T) /\ h[k] \in Seq(T)
        BY <1>12, <2>3a
    <2>4. h[j] \in Seq(T)
        BY <2>3, <2>3b, ConcatProperties
    <2> QED BY <2>1, <2>4
<1>13. \A k \in 0 .. n : h[k] \in Seq(T)
    <2>1. 0 .. n \subseteq V
        <3> HIDE DEF V
        <3> QED BY <1>10, <1>12, SetInduction
    <2> QED BY <2>1
<1>14. \A i \in 1 .. n : i \in 0 .. n /\ i # 0
    OBVIOUS
<1>15. 0 \in 0 .. n
    OBVIOUS
<1>16. Joins(h, seqs, n)
    BY <1>8, <1>11, <1>14, <1>15 DEF Joins
<1>17. h \in [0 .. n -> Seq(T)]
    BY <1>9, <1>13
<1> QED BY <1>16, <1>17
-----------------------------------------------------------------------------
Lengths == Seq(Nat \ {0})
ChunkOf(sizes, b) == [name : 1 .. Len(sizes), from : Nat, size : 1 .. b]

EndsWeight(sizes, c) == c.from + c.size = sizes[c.name]
IsChunk(sizes, b, c) ==
    /\ c \in ChunkOf(sizes, b)
    /\ c.from + c.size <= sizes[c.name]
    /\ ~EndsWeight(sizes, c) => c.size = b
    /\ sizes[c.name] <= b => c.from = 0 /\ c.size = sizes[c.name]
Follows(sizes, c, d) ==
    IF EndsWeight(sizes, c) THEN d.name = c.name + 1 /\ d.from = 0
                            ELSE d.name = c.name /\ d.from = c.from + c.size

RunsFromTo(sizes, b, cs, v, w) ==
    /\ cs \in Seq(ChunkOf(sizes, b)) /\ Len(cs) > 0
    /\ \A i \in 1 .. Len(cs) : IsChunk(sizes, b, cs[i])
    /\ \A i \in 1 .. Len(cs) - 1 : Follows(sizes, cs[i], cs[i + 1])
    /\ cs[1].name = v /\ cs[1].from = 0
    /\ cs[Len(cs)].name = w /\ EndsWeight(sizes, cs[Len(cs)])

Pieces(sizes, b, w) ==
    [k \in 1 .. (sizes[w] + b - 1) \div b |->
        [name |-> w, from |-> (k - 1) * b,
         size |-> IF b < sizes[w] - (k - 1) * b THEN b ELSE sizes[w] - (k - 1) * b]]

LEMMA PiecesRun ==
    ASSUME NEW sizes \in Lengths, NEW b \in Nat \ {0}, NEW w \in 1 .. Len(sizes)
    PROVE  RunsFromTo(sizes, b, Pieces(sizes, b, w), w, w)
<1> DEFINE s == sizes[w]
           n == (s + b - 1) \div b
           p == Pieces(sizes, b, w)
<1>1. s \in Nat \ {0}
    BY DEF Lengths
<1>2. n \in Nat \ {0} /\ n * b >= s /\ (n - 1) * b < s
    BY <1>1, CeilingFacts
<1>3. p = [k \in 1 .. n |-> [name |-> w, from |-> (k - 1) * b,
                             size |-> IF b < s - (k - 1) * b THEN b ELSE s - (k - 1) * b]]
    BY DEF Pieces
<1> HIDE DEF n, s, p
<1>4. ASSUME NEW k \in 1 .. n
      PROVE  /\ (k - 1) * b \in Nat /\ (k - 1) * b < s
             /\ k = n => s - (k - 1) * b <= b
             /\ k < n => k * b < s /\ k * b = (k - 1) * b + b
             /\ k > 1 => (k - 1) * b >= b
    <2>1. k \in Nat /\ k >= 1 /\ k <= n /\ n \in Nat /\ b \in Nat /\ b >= 1
        BY <1>2
    <2>2. (k - 1) * b <= (n - 1) * b
        BY <2>1, SMT
    <2>3. (k - 1) * b \in Nat /\ (k > 1 => (k - 1) * b >= b)
        BY <2>1, SMT
    <2>4. k < n => k * b <= (n - 1) * b /\ k * b \in Nat /\ k * b = (k - 1) * b + b
        BY <2>1, SMT
    <2>5. (n - 1) * b = n * b - b /\ n * b \in Nat
        BY <2>1, SMT
    <2> QED BY <1>1, <1>2, <2>1, <2>2, <2>3, <2>4, <2>5
<1>5. \A k \in 1 .. n : /\ p[k].name = w /\ p[k].from = (k - 1) * b
                        /\ p[k].size = IF b < s - (k - 1) * b THEN b ELSE s - (k - 1) * b
                        /\ p[k] = [name |-> p[k].name, from |-> p[k].from, size |-> p[k].size]
    BY <1>3
<1>6. p \in Seq(ChunkOf(sizes, b)) /\ Len(p) = n
    <2>1. ASSUME NEW k \in 1 .. n PROVE p[k] \in ChunkOf(sizes, b)
        <3> DEFINE o == (k - 1) * b
        <3>1. o \in Nat /\ o < s
            BY <1>4
        <3>2. p[k] = [name |-> w, from |-> o, size |-> IF b < s - o THEN b ELSE s - o]
            BY <1>5
        <3> HIDE DEF o
        <3> QED BY <1>1, <3>1, <3>2 DEF ChunkOf
    <2>2. p \in [1 .. n -> ChunkOf(sizes, b)]
        BY <1>3, <2>1
    <2> QED BY <1>2, <2>2
<1>7. ASSUME NEW k \in 1 .. n
      PROVE  /\ IsChunk(sizes, b, p[k])
             /\ k < n => p[k].size = b /\ ~EndsWeight(sizes, p[k])
             /\ k = n => EndsWeight(sizes, p[k])
    <2> DEFINE o == (k - 1) * b
               e == k * b
    <2>1. /\ o \in Nat /\ o < s
          /\ k = n => s - o <= b
          /\ k < n => e < s /\ e = o + b
          /\ k > 1 => o >= b
          /\ k = 1 => o = 0
        BY <1>4
    <2>2. /\ p[k].name = w /\ p[k].from = o
          /\ p[k].size = IF b < s - o THEN b ELSE s - o
        BY <1>5
    <2>3. p[k] \in ChunkOf(sizes, b)
        BY <1>6, ElementOfSeq
    <2>4. k \in Nat /\ n \in Nat /\ 1 <= k /\ k <= n
        BY <1>2
    <2> HIDE DEF o, e
    <2>5. sizes[p[k].name] = s
        BY <2>2 DEF s
    <2> QED BY <1>1, <2>1, <2>2, <2>3, <2>4, <2>5 DEF IsChunk, EndsWeight
<1>8. ASSUME NEW k \in 1 .. n - 1 PROVE Follows(sizes, p[k], p[k + 1])
    <2>1. k \in 1 .. n /\ k + 1 \in 1 .. n /\ k < n /\ k + 1 - 1 = k
        BY <1>2
    <2>2. k * b = (k - 1) * b + b
        BY <1>4, <2>1
    <2>3. /\ p[k].name = w /\ p[k].from = (k - 1) * b /\ p[k].size = b /\ ~EndsWeight(sizes, p[k])
        BY <1>5, <1>7, <2>1
    <2>4. p[k + 1].name = w /\ p[k + 1].from = k * b
        <3>1. PICK j \in 1 .. n : j = k + 1 /\ j - 1 = k
            BY <2>1
        <3>2. p[j].name = w /\ p[j].from = (j - 1) * b
            BY <1>5, Zenon
        <3> QED BY <3>1, <3>2, Zenon
    <2> QED BY <2>2, <2>3, <2>4 DEF Follows
<1>9. p[1].from = 0 /\ p[1].name = w /\ p[n].name = w
    <2>1. 1 \in 1 .. n /\ n \in 1 .. n /\ (1 - 1) * b = 0
        BY <1>2
    <2> QED BY <1>5, <2>1
<1>10. n \in 1 .. n
    BY <1>2
<1> QED BY <1>2, <1>6, <1>7, <1>8, <1>9, <1>10 DEF RunsFromTo, p

LEMMA RunsConcatenate ==
    ASSUME NEW sizes \in Lengths, NEW b \in Nat \ {0}, NEW v, NEW w \in Nat, NEW cs, NEW ds,
           RunsFromTo(sizes, b, cs, v, w), RunsFromTo(sizes, b, ds, w + 1, w + 1)
    PROVE  RunsFromTo(sizes, b, cs \o ds, v, w + 1)
<1> DEFINE C == ChunkOf(sizes, b)
           es == cs \o ds
           m == Len(cs)
           n == Len(ds)
<1>1. cs \in Seq(C) /\ ds \in Seq(C) /\ m \in Nat /\ n \in Nat /\ m > 0 /\ n > 0
    BY DEF RunsFromTo
<1>2. /\ es \in Seq(C) /\ Len(es) = m + n
      /\ \A i \in 1 .. m + n : es[i] = IF i <= m THEN cs[i] ELSE ds[i - m]
    BY <1>1, ConcatProperties
<1>3. /\ \A i \in 1 .. m : IsChunk(sizes, b, cs[i])
      /\ \A i \in 1 .. m - 1 : Follows(sizes, cs[i], cs[i + 1])
      /\ cs[1].name = v /\ cs[1].from = 0
      /\ cs[m].name = w /\ EndsWeight(sizes, cs[m])
    BY DEF RunsFromTo
<1>4. /\ \A i \in 1 .. n : IsChunk(sizes, b, ds[i])
      /\ \A i \in 1 .. n - 1 : Follows(sizes, ds[i], ds[i + 1])
      /\ ds[1].name = w + 1 /\ ds[1].from = 0
      /\ ds[n].name = w + 1 /\ EndsWeight(sizes, ds[n])
    BY DEF RunsFromTo
<1> HIDE DEF es, m, n, C
<1>5. ASSUME NEW i \in 1 .. m + n PROVE IsChunk(sizes, b, es[i])
    <2>1. CASE i <= m
        <3>1. i \in 1 .. m /\ es[i] = cs[i]
            BY <1>1, <1>2, <2>1
        <3> QED BY <1>3, <3>1
    <2>2. CASE i > m
        <3>1. i - m \in 1 .. n /\ es[i] = ds[i - m]
            BY <1>1, <1>2, <2>2
        <3> QED BY <1>4, <3>1
    <2> QED BY <1>1, <2>1, <2>2
<1>6. ASSUME NEW i \in 1 .. m + n - 1 PROVE Follows(sizes, es[i], es[i + 1])
    <2>0. i \in 1 .. m + n /\ i + 1 \in 1 .. m + n
        BY <1>1
    <2>1. CASE i < m
        <3>1. i \in 1 .. m - 1 /\ es[i] = cs[i] /\ es[i + 1] = cs[i + 1]
            BY <1>1, <1>2, <2>0, <2>1
        <3> QED BY <1>3, <3>1
    <2>2. CASE i = m
        <3>1. es[i] = cs[m] /\ es[i + 1] = ds[1]
            BY <1>1, <1>2, <2>0, <2>2
        <3> QED BY <1>3, <1>4, <3>1 DEF Follows
    <2>3. CASE i > m
        <3>1. i - m \in 1 .. n - 1 /\ es[i] = ds[i - m] /\ es[i + 1] = ds[i - m + 1]
            <4>1. i + 1 - m = i - m + 1
                BY <1>1
            <4> QED BY <1>1, <1>2, <2>0, <2>3, <4>1
        <3> QED BY <1>4, <3>1
    <2> QED BY <1>1, <2>1, <2>2, <2>3
<1>7. es[1] = cs[1] /\ es[m + n] = ds[n]
    <2>1. 1 \in 1 .. m + n /\ m + n \in 1 .. m + n /\ 1 <= m /\ ~(m + n <= m) /\ m + n - m = n
        BY <1>1
    <2>2. es[1] = cs[1]
        BY <1>2, <2>1
    <2>3. es[m + n] = ds[m + n - m]
        <3>1. PICK j \in 1 .. m + n : j = m + n /\ j - m = m + n - m
            BY <1>1, <2>1
        <3>2. es[j] = IF j <= m THEN cs[j] ELSE ds[j - m]
            BY <1>2, Zenon
        <3>3. ~(j <= m)
            BY <2>1, <3>1
        <3>4. es[j] = ds[j - m]
            BY <3>2, <3>3, Zenon
        <3> QED BY <3>1, <3>4, Zenon
    <2> QED BY <2>1, <2>2, <2>3
<1>8. RunsFromTo(sizes, b, es, v, w + 1)
    <2>1. Len(es) = m + n /\ m + n > 0 /\ es \in Seq(ChunkOf(sizes, b))
        BY <1>1, <1>2 DEF C
    <2>2. es[1].name = v /\ es[1].from = 0
        BY <1>3, <1>7
    <2>3. es[m + n].name = w + 1 /\ EndsWeight(sizes, es[m + n])
        BY <1>4, <1>7
    <2>4. /\ \A i \in 1 .. Len(es) : IsChunk(sizes, b, es[i])
          /\ \A i \in 1 .. Len(es) - 1 : Follows(sizes, es[i], es[i + 1])
          /\ es[Len(es)].name = w + 1 /\ EndsWeight(sizes, es[Len(es)])
          /\ Len(es) > 0
        <3>0. Len(es) \in Nat /\ Len(es) = m + n
            BY <1>1, <2>1
        <3> DEFINE l == Len(es)
        <3>1. l = m + n /\ l - 1 = m + n - 1
            BY <1>1, <3>0, SMT
        <3> HIDE DEF l
        <3>2. \A i \in 1 .. l : IsChunk(sizes, b, es[i])
            BY <1>5, <3>1, Zenon
        <3>3. \A i \in 1 .. l - 1 : Follows(sizes, es[i], es[i + 1])
            BY <1>6, <3>1, Zenon
        <3>4. es[l].name = w + 1 /\ EndsWeight(sizes, es[l]) /\ l > 0
            BY <2>1, <2>3, <3>1, Zenon
        <3> QED BY <3>2, <3>3, <3>4, Zenon DEF l
    <2> QED BY <2>1, <2>2, <2>4, Zenon DEF RunsFromTo
<1> QED BY <1>8 DEF es

Cut(sizes, bucketSize) == INSTANCE WeightChunks WITH Sizes <- sizes, BucketSize <- bucketSize

(* The chunks of all weights follow one another from the first byte of the  *)
(* first weight to the last byte of the last.                               *)
LEMMA ChunksRun ==
    ASSUME NEW sizes \in Lengths, Len(sizes) > 0, NEW b \in Nat \ {0}
    PROVE  RunsFromTo(sizes, b, Cut(sizes, b)!Chunks, 1, Len(sizes))
<1> DEFINE n == Len(sizes)
           C == ChunkOf(sizes, b)
           seqs == [w \in 1 .. n |-> Pieces(sizes, b, w)]
           f == CHOOSE g : g = [i \in 0 .. n |-> IF i = 0 THEN << >> ELSE g[i - 1] \o seqs[i]]
<1>1. n \in Nat \ {0} /\ DOMAIN sizes = 1 .. n
    BY DEF Lengths
<1>2. \A w \in 1 .. n : RunsFromTo(sizes, b, seqs[w], w, w)
    BY PiecesRun
<1>3. seqs \in [1 .. n -> Seq(C)]
    BY <1>2 DEF RunsFromTo
<1>4. f \in [0 .. n -> Seq(C)] /\ Joins(f, seqs, n)
    <2> HIDE DEF seqs, C, n
    <2> QED BY <1>1, <1>3, JoinsUp
<1>5. Cut(sizes, b)!Chunks = f[n]
    <2> DEFINE h == CHOOSE g : g = [i \in 0 .. n |-> IF i = 0 THEN << >>
                                                    ELSE g[i - 1] \o Cut(sizes, b)!ChunksOf(i)]
    <2>1. Cut(sizes, b)!Chunks = h[n]
        BY Zenon DEF Cut!Chunks
    <2>2. ASSUME NEW i \in 0 .. n, i # 0 PROVE seqs[i] = Cut(sizes, b)!ChunksOf(i)
        <3>1. i \in 1 .. n
            BY <1>1, <2>2
        <3>2. seqs[i] = Pieces(sizes, b, i)
            BY <3>1, Zenon
        <3> QED BY <3>2, Zenon DEF Cut!ChunksOf, Cut!Lesser, Pieces
    <2>3. \A g : [i \in 0 .. n |-> IF i = 0 THEN << >> ELSE g[i - 1] \o seqs[i]]
               = [i \in 0 .. n |-> IF i = 0 THEN << >> ELSE g[i - 1] \o Cut(sizes, b)!ChunksOf(i)]
        <3> HIDE DEF seqs
        <3> QED BY <2>2, Zenon
    <2>4. h = f
        <3> HIDE DEF seqs
        <3> QED BY <2>3, Zenon
    <2> QED BY <2>1, <2>4, Zenon
<1> HIDE DEF seqs, C, n, f
<1> DEFINE S == {w \in 0 .. n : w = 0 \/ RunsFromTo(sizes, b, f[w], 1, w)}
<1>6. 0 \in S
    BY <1>1
<1>7. ASSUME NEW w \in 0 .. n, w < n, w \in S PROVE w + 1 \in S
    <2>1. PICK j \in 1 .. n : j = w + 1 /\ j - 1 = w
        BY <1>1, <1>7
    <2>2. f[j] = f[j - 1] \o seqs[j]
        BY <1>4, Zenon DEF Joins
    <2>3. f[j] = f[w] \o seqs[j]
        BY <2>1, <2>2, Zenon
    <2>4. RunsFromTo(sizes, b, seqs[j], j, j)
        BY <1>2, Zenon
    <2>5. CASE w = 0
        <3>0. f[0] = << >>
            BY <1>4, Zenon DEF Joins
        <3>1. f[w] = << >> /\ seqs[j] \in Seq(C) /\ j = 1
            BY <1>3, <2>1, <2>5, <3>0
        <3>2. f[j] = seqs[j]
            BY <2>3, <3>1, ConcatEmptySeq
        <3>3. RunsFromTo(sizes, b, f[j], 1, j)
            BY <2>4, <3>1, <3>2, Zenon
        <3> QED BY <2>1, <3>3
    <2>6. CASE w # 0
        <3>1. RunsFromTo(sizes, b, f[w], 1, w) /\ w \in Nat
            BY <1>7, <2>6
        <3>2. RunsFromTo(sizes, b, seqs[j], w + 1, w + 1)
            BY <2>1, <2>4, Zenon
        <3>3. RunsFromTo(sizes, b, f[w] \o seqs[j], 1, w + 1)
            BY <3>1, <3>2, RunsConcatenate
        <3>4. RunsFromTo(sizes, b, f[j], 1, j)
            BY <2>1, <2>3, <3>3, Zenon
        <3> QED BY <2>1, <3>4
    <2> QED BY <2>5, <2>6
<1>8. 0 .. n \subseteq S
    <2> HIDE DEF S
    <2> QED BY <1>1, <1>6, <1>7, SetInduction
<1>9. RunsFromTo(sizes, b, f[n], 1, n)
    <2>1. n \in 0 .. n /\ n # 0
        BY <1>1
    <2> QED BY <1>8, <2>1
<1> QED BY <1>5, <1>9, Zenon DEF n
-----------------------------------------------------------------------------
(* What merge_weight_chunks has made of the first k chunks: the whole       *)
(* weights they contain and the beginning of the one that is under way.     *)
Wholes(sizes, n) == [w \in 1 .. n |-> [i \in 1 .. sizes[w] |-> <<w, i - 1>>]]
Progress(sizes, cs, k) ==
    IF k = 0 \/ EndsWeight(sizes, cs[k])
    THEN [name |-> 0, bytes |-> << >>, failed |-> FALSE,
          yielded |-> Wholes(sizes, IF k = 0 THEN 0 ELSE cs[k].name)]
    ELSE [name |-> cs[k].name, failed |-> FALSE,
          bytes |-> [i \in 1 .. cs[k].from + cs[k].size |-> <<cs[k].name, i - 1>>],
          yielded |-> Wholes(sizes, cs[k].name - 1)]

(* The bytes of one chunk.                                                  *)
DataOf(c) == [i \in 1 .. c.size |-> <<c.name, c.from + i - 1>>]

Window(s, m, n) == [i \in 1 .. n - m + 1 |-> s[i + m - 1]]

LEMMA SubSeqIs ==
    ASSUME NEW T, NEW s \in Seq(T), NEW m \in 1 .. Len(s), NEW n \in m .. Len(s)
    PROVE  SubSeq(s, m, n) = Window(s, m, n)
BY DEF Window

LEMMA ChunkData ==
    ASSUME NEW sizes \in Lengths, NEW b \in Nat \ {0}, NEW c, IsChunk(sizes, b, c)
    PROVE  Cut(sizes, b)!BytesOf(c) = DataOf(c)
<1> DEFINE s == sizes[c.name]
           whole == [i \in 1 .. s |-> <<c.name, i - 1>>]
<1>1. /\ c.from \in Nat /\ c.size \in 1 .. b /\ c.from + c.size <= s /\ s \in Nat
      /\ c.name \in 1 .. Len(sizes)
    BY DEF IsChunk, ChunkOf, Lengths
<1>2. Cut(sizes, b)!BytesOf(c) = SubSeq(whole, c.from + 1, c.from + c.size)
    BY Zenon DEF Cut!BytesOf, Cut!Bytes, Cut!BytesOfWeight
<1> HIDE DEF s
<1>3. whole \in Seq({c.name} \X Int) /\ Len(whole) = s
    BY <1>1
<1>4. SubSeq(whole, c.from + 1, c.from + c.size)
        = [i \in 1 .. c.size |-> whole[i + (c.from + 1) - 1]]
    <2>1. (c.from + c.size) - (c.from + 1) + 1 = c.size
        BY <1>1
    <2> HIDE DEF whole
    <2>2. SubSeq(whole, c.from + 1, c.from + c.size) = Window(whole, c.from + 1, c.from + c.size)
        <3>1. c.from + 1 \in 1 .. Len(whole) /\ c.from + c.size \in c.from + 1 .. Len(whole)
            BY <1>1, <1>3
        <3> QED BY <1>3, <3>1, SubSeqIs
    <2>3. Window(whole, c.from + 1, c.from + c.size)
            = [i \in 1 .. (c.from + c.size) - (c.from + 1) + 1 |-> whole[i + (c.from + 1) - 1]]
        BY Zenon DEF Window
    <2> QED BY <2>1, <2>2, <2>3, Zenon
<1>5. ASSUME NEW i \in 1 .. c.size PROVE whole[i + (c.from + 1) - 1] = <<c.name, c.from + i - 1>>
    <2>1. PICK j \in 1 .. s : j = i + (c.from + 1) - 1 /\ j - 1 = c.from + i - 1
        BY <1>1
    <2>2. whole[j] = <<c.name, j - 1>>
        BY Zenon
    <2> QED BY <2>1, <2>2, Zenon
<1>6. SubSeq(whole, c.from + 1, c.from + c.size) = DataOf(c)
    BY <1>4, <1>5, Zenon DEF DataOf
<1> QED BY <1>2, <1>6, Zenon

LEMMA WholesAppend ==
    ASSUME NEW sizes, NEW n \in Nat
    PROVE  /\ Append(Wholes(sizes, n), [i \in 1 .. sizes[n + 1] |-> <<n + 1, i - 1>>])
                = Wholes(sizes, n + 1)
           /\ Len(Wholes(sizes, n)) = n /\ Wholes(sizes, 0) = << >>
<1> DEFINE F(w) == [i \in 1 .. sizes[w] |-> <<w, i - 1>>]
           T == {F(w) : w \in 1 .. n + 1}
           s == [w \in 1 .. n |-> F(w)]
           t == [w \in 1 .. n + 1 |-> F(w)]
<1>1. \A w \in 1 .. n + 1 : F(w) \in T
    OBVIOUS
<1> HIDE DEF F, T
<1>2. s \in Seq(T) /\ Len(s) = n /\ t \in Seq(T) /\ Len(t) = n + 1
    BY <1>1
<1>3. Append(s, F(n + 1)) \in Seq(T) /\ Len(Append(s, F(n + 1))) = n + 1
    BY <1>1, <1>2
<1>4. \A i \in 1 .. n + 1 : Append(s, F(n + 1))[i] = t[i]
    BY <1>2
<1>5. Append(s, F(n + 1)) = t
    BY <1>2, <1>3, <1>4, SeqEqual
<1>6. Wholes(sizes, 0) = << >>
    BY DEF Wholes
<1> QED BY <1>2, <1>5, <1>6, Zenon DEF Wholes, F

StretchOf(w, m, n) == [i \in 1 .. n |-> <<w, m + i - 1>>]
Start(w, n) == [i \in 1 .. n |-> <<w, i - 1>>]

LEMMA BytesConcatenate ==
    ASSUME NEW w, NEW m \in Nat, NEW n \in Nat
    PROVE  Start(w, m) \o StretchOf(w, m, n) = Start(w, m + n) /\ Len(Start(w, m)) = m
<1> DEFINE s == [i \in 1 .. m |-> <<w, i - 1>>]
           t == [i \in 1 .. n |-> <<w, m + i - 1>>]
           u == [i \in 1 .. m + n |-> <<w, i - 1>>]
           T == {w} \X Int
<1>1. s \in Seq(T) /\ Len(s) = m /\ t \in Seq(T) /\ Len(t) = n /\ u \in Seq(T) /\ Len(u) = m + n
    OBVIOUS
<1>2. s \o t \in Seq(T) /\ Len(s \o t) = m + n
    BY <1>1
<1>3. ASSUME NEW i \in 1 .. m + n PROVE (s \o t)[i] = u[i]
    <2>1. (s \o t)[i] = IF i <= m THEN s[i] ELSE t[i - m]
        <3> HIDE DEF s, t
        <3> QED BY <1>1, ConcatProperties
    <2>2. CASE i <= m
        BY <2>1, <2>2
    <2>3. CASE ~(i <= m)
        <3>1. i - m \in 1 .. n /\ m + (i - m) - 1 = i - 1
            BY <2>3
        <3>2. t[i - m] = <<w, i - 1>>
            BY <3>1
        <3> QED BY <2>1, <2>3, <3>2
    <2> QED BY <2>2, <2>3
<1>4. s \o t = u
    <2> HIDE DEF s, t, u
    <2> QED BY <1>1, <1>2, <1>3, SeqEqual
<1> QED BY <1>1, <1>4 DEF Start, StretchOf

LEMMA RecordEnded ==
    ASSUME NEW v, NEW x, NEW y, NEW z
    PROVE  [[name |-> v, bytes |-> x, failed |-> FALSE, yielded |-> y]
                   EXCEPT !.yielded = z, !.failed = FALSE]
                = [name |-> v, bytes |-> x, failed |-> FALSE, yielded |-> z]
<1> DEFINE m == [name |-> v, bytes |-> x, failed |-> FALSE, yielded |-> y]
           n == [m EXCEPT !.yielded = z, !.failed = FALSE]
<1>2. DOMAIN n = {"name", "bytes", "failed", "yielded"} /\ n = [i \in DOMAIN n |-> n[i]]
    OBVIOUS
<1>3. n.name = v /\ n.bytes = x /\ n.yielded = z /\ n.failed = FALSE
    OBVIOUS
<1> HIDE DEF n
<1>4. n = [name |-> v, bytes |-> x, failed |-> FALSE, yielded |-> z]
    BY <1>2, <1>3
<1> QED BY <1>4 DEF n

LEMMA RecordExtended ==
    ASSUME NEW v, NEW w, NEW x, NEW y, NEW u
    PROVE  [[name |-> v, bytes |-> x, failed |-> FALSE, yielded |-> y]
                   EXCEPT !.name = w, !.bytes = u, !.failed = FALSE]
                = [name |-> w, bytes |-> u, failed |-> FALSE, yielded |-> y]
<1> DEFINE m == [name |-> v, bytes |-> x, failed |-> FALSE, yielded |-> y]
           n == [m EXCEPT !.name = w, !.bytes = u, !.failed = FALSE]
<1>2. DOMAIN n = {"name", "bytes", "failed", "yielded"} /\ n = [i \in DOMAIN n |-> n[i]]
    OBVIOUS
<1>3. n.name = w /\ n.bytes = u /\ n.yielded = y /\ n.failed = FALSE
    OBVIOUS
<1> HIDE DEF n
<1>4. n = [name |-> w, bytes |-> u, failed |-> FALSE, yielded |-> y]
    BY <1>2, <1>3
<1> QED BY <1>4 DEF n

LEMMA MergedAdvances ==
    ASSUME NEW sizes \in Lengths, NEW b \in Nat \ {0}, NEW cs, NEW n,
           RunsFromTo(sizes, b, cs, 1, n), NEW k \in Nat, k + 1 <= Len(cs)
    PROVE  /\ Cut(sizes, b)!Merged(Progress(sizes, cs, k), cs[k + 1], DataOf(cs[k + 1]))
                = Progress(sizes, cs, k + 1)
           /\ LET p == Progress(sizes, cs, k).yielded
                  q == Progress(sizes, cs, k + 1).yielded
              IN q = p \/ \E w \in Nat : w < Len(sizes) /\ p = Wholes(sizes, w) /\ q = Wholes(sizes, w + 1)
<1> DEFINE c == cs[k]
           d == cs[k + 1]
           m == Progress(sizes, cs, k)
           before == IF k = 0 \/ EndsWeight(sizes, c) THEN d.name - 1 ELSE c.name - 1
<1>1. IsChunk(sizes, b, d) /\ k + 1 \in 1 .. Len(cs) /\ Len(cs) \in Nat
    BY DEF RunsFromTo
<1>2. /\ d.name \in 1 .. Len(sizes) /\ d.from \in Nat /\ d.size \in 1 .. b /\ sizes[d.name] \in Nat \ {0}
      /\ d.from + d.size <= sizes[d.name]
      /\ EndsWeight(sizes, d) <=> d.from + d.size = sizes[d.name]
      /\ sizes[d.name] <= b => d.from = 0 /\ d.size = sizes[d.name]
      /\ Len(sizes) \in Nat
    BY <1>1 DEF IsChunk, ChunkOf, Lengths, EndsWeight
<1>3. CASE k = 0 \/ EndsWeight(sizes, c)
    <2>1. d.from = 0
        <3>1. CASE k = 0
            BY <3>1 DEF RunsFromTo
        <3>2. CASE k # 0
            <4>1. k \in 1 .. Len(cs) - 1
                BY <1>1, <3>2
            <4>2. Follows(sizes, c, d)
                BY <4>1 DEF RunsFromTo
            <4> QED BY <1>3, <3>2, <4>2 DEF Follows
        <3> QED BY <3>1, <3>2
    <2>2. (IF k = 0 THEN 0 ELSE c.name) = d.name - 1
        <3>1. CASE k = 0
            <4>1. d.name = 1
                BY <3>1 DEF RunsFromTo
            <4> QED BY <3>1, <4>1
        <3>2. CASE k # 0
            <4>1. k \in 1 .. Len(cs) - 1 /\ k \in 1 .. Len(cs)
                BY <1>1, <3>2
            <4>2. Follows(sizes, c, d) /\ IsChunk(sizes, b, c)
                BY <4>1 DEF RunsFromTo
            <4>3. d.name = c.name + 1 /\ c.name \in Nat
                BY <1>3, <3>2, <4>2 DEF Follows, IsChunk, ChunkOf
            <4> QED BY <3>2, <4>3
        <3> QED BY <3>1, <3>2
    <2>3. m = [name |-> 0, bytes |-> << >>, failed |-> FALSE, yielded |-> Wholes(sizes, d.name - 1)]
        BY <1>3, <2>2, Zenon DEF Progress
    <2>4. DataOf(d) = [i \in 1 .. d.size |-> <<d.name, i - 1>>]
        <3>1. \A i \in 1 .. d.size : d.from + i - 1 = i - 1
            BY <1>2, <2>1
        <3> QED BY <3>1, Zenon DEF DataOf
    <2>5. CASE sizes[d.name] <= b
        <3>1. EndsWeight(sizes, d) /\ d.size = sizes[d.name]
            BY <1>2, <2>1, <2>5
        <3>2. Progress(sizes, cs, k + 1) = [name |-> 0, bytes |-> << >>, failed |-> FALSE,
                                            yielded |-> Wholes(sizes, d.name)]
            <4>1. k + 1 # 0
                BY <1>1
            <4> QED BY <3>1, <4>1, Zenon DEF Progress
        <3>3. Append(Wholes(sizes, d.name - 1), DataOf(d)) = Wholes(sizes, d.name)
            <4>1. d.name - 1 \in Nat /\ d.name - 1 + 1 = d.name
                BY <1>2
            <4>2. Append(Wholes(sizes, d.name - 1), [i \in 1 .. sizes[d.name - 1 + 1] |-> <<d.name - 1 + 1, i - 1>>])
                    = Wholes(sizes, d.name - 1 + 1)
                BY <4>1, WholesAppend
            <4> QED BY <2>4, <3>1, <4>1, <4>2, Zenon
        <3>4. Cut(sizes, b)!Merged(m, d, DataOf(d))
                = [m EXCEPT !.yielded = Append(m.yielded, DataOf(d)), !.failed = m.failed \/ m.name # 0]
            BY <2>5, Zenon DEF Cut!Merged
        <3>5. Cut(sizes, b)!Merged(m, d, DataOf(d)) = Progress(sizes, cs, k + 1)
            <4> HIDE DEF m
            <4>1. (m.failed \/ m.name # 0) = FALSE /\ Append(m.yielded, DataOf(d)) = Wholes(sizes, d.name)
                BY <2>3, <3>3
            <4>2. Cut(sizes, b)!Merged(m, d, DataOf(d))
                    = [m EXCEPT !.yielded = Wholes(sizes, d.name), !.failed = FALSE]
                BY <3>4, <4>1, Zenon
            <4> QED BY <2>3, <3>2, <4>2, RecordEnded, Zenon
        <3>6. m.yielded = Wholes(sizes, d.name - 1) /\ Progress(sizes, cs, k + 1).yielded = Wholes(sizes, d.name)
            BY <2>3, <3>2
        <3>7. d.name - 1 \in Nat /\ d.name - 1 < Len(sizes) /\ d.name - 1 + 1 = d.name
            BY <1>2
        <3> HIDE DEF m, d
        <3>8. \E w \in Nat : w < Len(sizes) /\ m.yielded = Wholes(sizes, w) /\ Progress(sizes, cs, k + 1).yielded = Wholes(sizes, w + 1)
            BY <3>6, <3>7
        <3> QED BY <3>5, <3>8 DEF m, d
    <2>6. CASE ~(sizes[d.name] <= b)
        <3>1. ~EndsWeight(sizes, d) /\ d.from + d.size = d.size
            BY <1>2, <2>1, <2>6
        <3>2. Progress(sizes, cs, k + 1) = [name |-> d.name, failed |-> FALSE, bytes |-> DataOf(d),
                                            yielded |-> Wholes(sizes, d.name - 1)]
            <4>1. k + 1 # 0
                BY <1>1
            <4> QED BY <2>4, <3>1, <4>1, Zenon DEF Progress
        <3>3. << >> \o DataOf(d) = DataOf(d)
            <4>1. DataOf(d) \in Seq({d.name} \X Int)
                BY <1>2 DEF DataOf
            <4> QED BY <4>1, ConcatEmptySeq
        <3>4. m.name = 0 /\ m.bytes = << >> /\ m.failed = FALSE /\ Len(m.bytes) = d.from
            BY <2>1, <2>3
        <3>5. d.from + d.size # sizes[d.name]
            BY <1>2, <3>1
        <3>6. Cut(sizes, b)!Merged(m, d, DataOf(d))
                = [m EXCEPT !.name = d.name, !.bytes = m.bytes \o DataOf(d),
                            !.failed = m.failed \/ ~(m.name \in {0, d.name} /\ Len(m.bytes) = d.from)]
            BY <2>6, <3>5, Zenon DEF Cut!Merged
        <3>7. Cut(sizes, b)!Merged(m, d, DataOf(d)) = Progress(sizes, cs, k + 1)
            <4> HIDE DEF m
            <4>1. (m.failed \/ ~(m.name \in {0, d.name} /\ Len(m.bytes) = d.from)) = FALSE
                BY <3>4
            <4>2. m.bytes \o DataOf(d) = DataOf(d)
                BY <3>3, <3>4, Zenon
            <4>3. Cut(sizes, b)!Merged(m, d, DataOf(d))
                    = [m EXCEPT !.name = d.name, !.bytes = DataOf(d), !.failed = FALSE]
                BY <3>6, <4>1, <4>2, Zenon
            <4> QED BY <2>3, <3>2, <4>3, RecordExtended, Zenon
        <3>8. m.yielded = Progress(sizes, cs, k + 1).yielded
            BY <2>3, <3>2
        <3> HIDE DEF m, d
        <3> QED BY <3>7, <3>8 DEF m, d
    <2> QED BY <2>5, <2>6
<1>4. CASE ~(k = 0 \/ EndsWeight(sizes, c))
    <2>0. k \in 1 .. Len(cs) - 1 /\ k \in 1 .. Len(cs)
        BY <1>1, <1>4
    <2>1. Follows(sizes, c, d) /\ IsChunk(sizes, b, c)
        BY <2>0 DEF RunsFromTo
    <2>2. d.name = c.name /\ d.from = c.from + c.size
        BY <1>4, <2>1 DEF Follows
    <2>3. ~(sizes[d.name] <= b)
        <3>1. c.from \in Nat /\ c.size \in Nat
            BY <2>1 DEF IsChunk, ChunkOf
        <3>2. sizes[c.name] <= b => c.from = 0 /\ c.size = sizes[c.name]
            BY <2>1 DEF IsChunk
        <3>3. c.from + c.size # sizes[c.name]
            BY <1>4 DEF EndsWeight
        <3> QED BY <1>2, <2>2, <3>1, <3>2, <3>3
    <2>4. m = [name |-> d.name, failed |-> FALSE, bytes |-> [i \in 1 .. d.from |-> <<d.name, i - 1>>],
               yielded |-> Wholes(sizes, d.name - 1)]
        BY <1>4, <2>2, Zenon DEF Progress
    <2>5. /\ m.bytes \o DataOf(d) = [i \in 1 .. d.from + d.size |-> <<d.name, i - 1>>]
          /\ Len(m.bytes) = d.from
        <3>1. m.bytes = [i \in 1 .. d.from |-> <<d.name, i - 1>>]
            BY <2>4
        <3>2. DataOf(d) = [i \in 1 .. d.size |-> <<d.name, d.from + i - 1>>]
            BY Zenon DEF DataOf
        <3>3. d.from \in Nat /\ d.size \in Nat
            BY <1>2
        <3>4. /\ Start(d.name, d.from) \o StretchOf(d.name, d.from, d.size) = Start(d.name, d.from + d.size)
              /\ Len(Start(d.name, d.from)) = d.from
            BY <3>3, BytesConcatenate
        <3> QED BY <3>1, <3>2, <3>4, Zenon DEF Start, StretchOf
    <2>6. m.name \in {0, d.name} /\ m.failed = FALSE /\ m.yielded = Wholes(sizes, d.name - 1)
        BY <2>4
    <2>7. CASE EndsWeight(sizes, d)
        <3>1. d.from + d.size = sizes[d.name]
            BY <1>2, <2>7
        <3>2. Progress(sizes, cs, k + 1) = [name |-> 0, bytes |-> << >>, failed |-> FALSE,
                                            yielded |-> Wholes(sizes, d.name)]
            <4>1. k + 1 # 0
                BY <1>1
            <4> QED BY <2>7, <4>1, Zenon DEF Progress
        <3>3. Append(m.yielded, m.bytes \o DataOf(d)) = Wholes(sizes, d.name)
            <4>1. d.name - 1 \in Nat /\ d.name - 1 + 1 = d.name
                BY <1>2
            <4>2. Append(Wholes(sizes, d.name - 1), [i \in 1 .. sizes[d.name - 1 + 1] |-> <<d.name - 1 + 1, i - 1>>])
                    = Wholes(sizes, d.name - 1 + 1)
                BY <4>1, WholesAppend
            <4> QED BY <2>5, <2>6, <3>1, <4>1, <4>2, Zenon
        <3>4. Cut(sizes, b)!Merged(m, d, DataOf(d))
                = [Cut(sizes, b)!NoMerge EXCEPT !.yielded = Append(m.yielded, m.bytes \o DataOf(d)),
                      !.failed = m.failed \/ ~(m.name \in {0, d.name} /\ Len(m.bytes) = d.from)]
            BY <2>3, <3>1, Zenon DEF Cut!Merged
        <3>5. Cut(sizes, b)!Merged(m, d, DataOf(d)) = Progress(sizes, cs, k + 1)
            <4>1. Cut(sizes, b)!NoMerge = [name |-> 0, bytes |-> << >>, yielded |-> << >>, failed |-> FALSE]
                BY Zenon DEF Cut!NoMerge
            <4>2. (m.failed \/ ~(m.name \in {0, d.name} /\ Len(m.bytes) = d.from)) = FALSE
                BY <2>5, <2>6
            <4> HIDE DEF m
            <4>3. [Cut(sizes, b)!NoMerge EXCEPT !.yielded = Append(m.yielded, m.bytes \o DataOf(d)),
                      !.failed = m.failed \/ ~(m.name \in {0, d.name} /\ Len(m.bytes) = d.from)]
                    = [Cut(sizes, b)!NoMerge EXCEPT !.yielded = Wholes(sizes, d.name), !.failed = FALSE]
                BY <3>3, <4>2, Zenon
            <4>4. [Cut(sizes, b)!NoMerge EXCEPT !.yielded = Wholes(sizes, d.name), !.failed = FALSE]
                    = Progress(sizes, cs, k + 1)
                <5>1. Cut(sizes, b)!NoMerge = [name |-> 0, bytes |-> << >>, failed |-> FALSE, yielded |-> << >>]
                    BY <4>1
                <5>0. \A x, y, z : [[name |-> 0, bytes |-> x, failed |-> FALSE, yielded |-> y]
                          EXCEPT !.yielded = z, !.failed = FALSE]
                        = [name |-> 0, bytes |-> x, failed |-> FALSE, yielded |-> z]
                    BY RecordEnded, Zenon
                <5>2. [[name |-> 0, bytes |-> << >>, failed |-> FALSE, yielded |-> << >>]
                          EXCEPT !.yielded = Wholes(sizes, d.name), !.failed = FALSE]
                        = [name |-> 0, bytes |-> << >>, failed |-> FALSE, yielded |-> Wholes(sizes, d.name)]
                    BY <5>0, Zenon
                <5> QED BY <3>2, <5>1, <5>2, Zenon
            <4> QED BY <3>4, <4>3, <4>4, Zenon
        <3>6. Progress(sizes, cs, k + 1).yielded = Wholes(sizes, d.name)
            BY <3>2
        <3>7. d.name - 1 \in Nat /\ d.name - 1 < Len(sizes) /\ d.name - 1 + 1 = d.name
            BY <1>2
        <3> HIDE DEF m, d
        <3>8. \E w \in Nat : w < Len(sizes) /\ m.yielded = Wholes(sizes, w) /\ Progress(sizes, cs, k + 1).yielded = Wholes(sizes, w + 1)
            BY <2>6, <3>6, <3>7
        <3> QED BY <3>5, <3>8 DEF m, d
    <2>8. CASE ~EndsWeight(sizes, d)
        <3>1. d.from + d.size # sizes[d.name]
            BY <1>2, <2>8
        <3>2. Progress(sizes, cs, k + 1)
                = [name |-> d.name, failed |-> FALSE, yielded |-> Wholes(sizes, d.name - 1),
                   bytes |-> [i \in 1 .. d.from + d.size |-> <<d.name, i - 1>>]]
            <4>1. k + 1 # 0
                BY <1>1
            <4> QED BY <2>8, <4>1, Zenon DEF Progress
        <3>3. Cut(sizes, b)!Merged(m, d, DataOf(d))
                = [m EXCEPT !.name = d.name, !.bytes = m.bytes \o DataOf(d),
                            !.failed = m.failed \/ ~(m.name \in {0, d.name} /\ Len(m.bytes) = d.from)]
            BY <2>3, <3>1, Zenon DEF Cut!Merged
        <3>4. Cut(sizes, b)!Merged(m, d, DataOf(d)) = Progress(sizes, cs, k + 1)
            <4> HIDE DEF m
            <4>1. (m.failed \/ ~(m.name \in {0, d.name} /\ Len(m.bytes) = d.from)) = FALSE
                BY <2>5, <2>6
            <4>2. m.bytes \o DataOf(d) = [i \in 1 .. d.from + d.size |-> <<d.name, i - 1>>]
                BY <2>5, Zenon
            <4>3. Cut(sizes, b)!Merged(m, d, DataOf(d))
                    = [m EXCEPT !.name = d.name, !.bytes = [i \in 1 .. d.from + d.size |-> <<d.name, i - 1>>], !.failed = FALSE]
                BY <3>3, <4>1, <4>2, Zenon
            <4> QED BY <2>4, <3>2, <4>3, RecordExtended, Zenon
        <3>5. m.yielded = Progress(sizes, cs, k + 1).yielded
            BY <2>6, <3>2
        <3> HIDE DEF m, d
        <3> QED BY <3>4, <3>5 DEF m, d
    <2> QED BY <2>7, <2>8
<1> QED BY <1>3, <1>4
-----------------------------------------------------------------------------
(* Buckets                                                                  *)

BytesOfAll(sizes)   == UNION {{<<w, i>> : i \in 0 .. sizes[w] - 1} : w \in DOMAIN sizes}
BufferOf(sizes, b)  == [0 .. b - 1 -> BytesOfAll(sizes) \cup {NoByte}]
EntryOf(sizes, b)   == [chunk : ChunkOf(sizes, b), offset : 0 .. b - 1]
CopyInOf(sizes, b)  == [buf : 0 .. 1, offset : 0 .. b - 1, chunk : ChunkOf(sizes, b)]
CopyOutOf(sizes, b) == [buf : 0 .. 1, entry : EntryOf(sizes, b)]

End(e) == e.offset + e.chunk.size

(* The bytes of a chunk are in a buffer at the place its metadata names.    *)
Holds(buf, e) == \A p \in 0 .. e.chunk.size - 1 :
                    buf[e.offset + p] = <<e.chunk.name, e.chunk.from + p>>

(* A bucket that is ready: its metadata es is that of the chunks after the  *)
(* first k, and it holds them.                                              *)
Package(sizes, b, cs, k, es, buf) ==
    /\ k \in Nat /\ es \in Seq(EntryOf(sizes, b)) /\ k + Len(es) <= Len(cs)
    /\ \A j \in 1 .. Len(es) : /\ es[j].chunk = cs[k + j]
                               /\ End(es[j]) <= b
                               /\ Holds(buf, es[j])

(* The bucket i that is being filled: its chunks lie one behind the other,  *)
(* no two of them are of the same weight, and it holds all but those whose  *)
(* copies ws are still queued.                                              *)
Covers(cs, k, es, end) ==
    \A j \in 1 .. Len(es) : es[j].chunk = cs[k + j] /\ End(es[j]) <= end
InLine(es) ==
    \A j, l \in 1 .. Len(es) : j < l => /\ End(es[j]) <= es[l].offset
                                        /\ es[j].chunk.name < es[l].chunk.name
Queued(ws, g, es, i) ==
    \A j \in 1 .. Len(ws) :
        /\ ws[j].buf = i
        /\ ws[j].offset = es[g + j].offset
        /\ ws[j].chunk = es[g + j].chunk
HoldsFirst(buf, g, es) == \A j \in 1 .. g : Holds(buf, es[j])
Filling(sizes, b, cs, k, es, end, ws, i, buf) ==
    /\ k \in Nat /\ es \in Seq(EntryOf(sizes, b)) /\ k + Len(es) <= Len(cs)
    /\ end \in 0 .. b /\ i \in 0 .. 1
    /\ ws \in Seq(CopyInOf(sizes, b)) /\ Len(ws) <= Len(es)
    /\ Covers(cs, k, es, end) /\ InLine(es)
    /\ Queued(ws, Len(es) - Len(ws), es, i)
    /\ HoldsFirst(buf, Len(es) - Len(ws), es)

(* The bucket i a receiver hands out: k chunks have been handed out, the    *)
(* copies of some of them are queued, and those before are merged.          *)
CopiedOut(cs, k, rs, i, b, buf) ==
    \A j \in 1 .. Len(rs) :
        /\ rs[j].buf = i
        /\ rs[j].entry.chunk = cs[k + j]
        /\ End(rs[j].entry) <= b
        /\ Holds(buf, rs[j].entry)
Handing(sizes, b, cs, k, todo, rs, i, buf, m) ==
    /\ Package(sizes, b, cs, k, todo, buf)
    /\ rs \in Seq(CopyOutOf(sizes, b)) /\ Len(rs) <= k /\ i \in 0 .. 1
    /\ CopiedOut(cs, k - Len(rs), rs, i, b, buf)
    /\ m = Progress(sizes, cs, k - Len(rs))

LEMMA ChunkAt ==
    ASSUME NEW sizes \in Lengths, NEW b \in Nat \ {0}, NEW cs, NEW n,
           RunsFromTo(sizes, b, cs, 1, n), NEW k \in 1 .. Len(cs)
    PROVE  /\ IsChunk(sizes, b, cs[k]) /\ cs[k] \in ChunkOf(sizes, b)
           /\ cs[k].name \in 1 .. Len(sizes) /\ cs[k].from \in Nat /\ cs[k].size \in 1 .. b
           /\ cs[k].from + cs[k].size <= sizes[cs[k].name] /\ sizes[cs[k].name] \in Nat
           /\ Len(cs) \in Nat /\ Len(sizes) \in Nat
<1>1. IsChunk(sizes, b, cs[k]) /\ Len(cs) \in Nat
    BY DEF RunsFromTo
<1> QED BY <1>1 DEF IsChunk, ChunkOf, Lengths

LEMMA SameWeightFills ==
    ASSUME NEW sizes \in Lengths, NEW b \in Nat \ {0}, NEW cs, NEW n,
           RunsFromTo(sizes, b, cs, 1, n), NEW k \in 1 .. Len(cs), k + 1 <= Len(cs)
    PROVE  cs[k].name < cs[k + 1].name \/ cs[k].size = b
<1>1. IsChunk(sizes, b, cs[k]) /\ Follows(sizes, cs[k], cs[k + 1]) /\ cs[k].name \in Int
    <2>1. Len(cs) \in Nat /\ k \in 1 .. Len(cs) - 1
        BY DEF RunsFromTo
    <2>2. IsChunk(sizes, b, cs[k]) /\ cs[k].name \in 1 .. Len(sizes) /\ Len(sizes) \in Nat
        BY ChunkAt, Zenon
    <2> QED BY <2>1, <2>2 DEF RunsFromTo
<1> QED BY <1>1 DEF IsChunk, Follows

LEMMA FillingGoesOn ==
    ASSUME NEW sizes \in Lengths, NEW b \in Nat \ {0}, NEW cs, NEW n,
           RunsFromTo(sizes, b, cs, 1, n),
           NEW k, NEW es, NEW end, NEW ws, NEW i, NEW buf, NEW c,
           Filling(sizes, b, cs, k, es, end, ws, i, buf),
           k + Len(es) + 1 <= Len(cs), c = cs[k + Len(es) + 1], end + c.size <= b
    PROVE  /\ Filling(sizes, b, cs, k, Append(es, [chunk |-> c, offset |-> end]), end + c.size,
                      Append(ws, [buf |-> i, offset |-> end, chunk |-> c]), i, buf)
           /\ Len(Append(es, [chunk |-> c, offset |-> end])) = Len(es) + 1
<1> DEFINE e == [chunk |-> c, offset |-> end]
           w == [buf |-> i, offset |-> end, chunk |-> c]
           es2 == Append(es, e)
           ws2 == Append(ws, w)
           l == Len(es)
           E == EntryOf(sizes, b)
           g == Len(es) - Len(ws)
<1>1. /\ k \in Nat /\ es \in Seq(E) /\ l \in Nat /\ end \in 0 .. b /\ i \in 0 .. 1
      /\ ws \in Seq(CopyInOf(sizes, b)) /\ Len(ws) \in Nat /\ Len(ws) <= l /\ g \in Nat /\ g <= l
      /\ g + Len(ws) = l
      /\ Len(cs) \in Nat
    BY DEF Filling, RunsFromTo
<1>2. c \in ChunkOf(sizes, b) /\ c.size \in 1 .. b /\ c.name \in Int
    <2>1. k + l + 1 \in 1 .. Len(cs)
        BY <1>1
    <2>2. /\ c \in ChunkOf(sizes, b) /\ c.size \in 1 .. b /\ c.name \in 1 .. Len(sizes)
          /\ Len(sizes) \in Nat
        BY <2>1, ChunkAt, Zenon
    <2> QED BY <2>2
<1>3. e \in E /\ w \in CopyInOf(sizes, b) /\ e.chunk = c /\ e.offset = end
      /\ w.buf = i /\ w.offset = end /\ w.chunk = c
    BY <1>1, <1>2 DEF EntryOf, CopyInOf
<1> HIDE DEF e, w, E
<1>4. /\ es2 \in Seq(E) /\ Len(es2) = l + 1
      /\ \A j \in 1 .. l : es2[j] = es[j]
      /\ es2[l + 1] = e
    BY <1>1, <1>3, AppendProperties
<1>5. /\ ws2 \in Seq(CopyInOf(sizes, b)) /\ Len(ws2) = Len(ws) + 1
      /\ \A j \in 1 .. Len(ws) : ws2[j] = ws[j]
      /\ ws2[Len(ws) + 1] = w
    BY <1>1, <1>3, AppendProperties
<1> HIDE DEF es2, ws2
<1>6. \A j \in 1 .. l : /\ es[j].chunk \in ChunkOf(sizes, b) /\ es[j].offset \in Nat
                        /\ es[j].chunk.size \in Nat /\ es[j].chunk.name \in Int /\ End(es[j]) \in Nat
    <2> SUFFICES ASSUME NEW j \in 1 .. l
                 PROVE  /\ es[j].chunk \in ChunkOf(sizes, b) /\ es[j].offset \in Nat
                        /\ es[j].chunk.size \in Nat /\ es[j].chunk.name \in Int /\ End(es[j]) \in Nat
        OBVIOUS
    <2>1. es[j] \in E
        BY <1>1, ElementOfSeq
    <2> QED BY <2>1 DEF E, EntryOf, ChunkOf, End
<1>7. Covers(cs, k, es2, end + c.size)
    <2>1. Covers(cs, k, es, end)
        BY DEF Filling
    <2> SUFFICES ASSUME NEW j \in 1 .. l + 1 PROVE es2[j].chunk = cs[k + j] /\ End(es2[j]) <= end + c.size
        BY <1>4 DEF Covers
    <2>2. CASE j = l + 1
        <3>1. es2[j] = e /\ End(e) = end + c.size /\ c = cs[k + j] /\ end + c.size \in Int
            BY <1>1, <1>2, <1>3, <1>4, <2>2 DEF End
        <3> QED BY <1>3, <3>1
    <2>3. CASE j # l + 1
        <3>1. j \in 1 .. l
            BY <1>1, <2>3
        <3>2. es2[j] = es[j] /\ es[j].chunk = cs[k + j] /\ End(es[j]) <= end /\ End(es[j]) \in Int
            BY <1>4, <1>6, <2>1, <3>1 DEF Covers
        <3>3. End(es2[j]) <= end /\ End(es2[j]) \in Int
            BY <3>2
        <3>4. End(es2[j]) <= end + c.size
            <4>1. \A x \in Int : x <= end => x <= end + c.size
                BY <1>1, <1>2
            <4> QED BY <3>3, <4>1, Zenon
        <3> QED BY <3>2, <3>4, Zenon
    <2> QED BY <2>2, <2>3
<1>8. InLine(es2)
    <2>1. Covers(cs, k, es, end) /\ InLine(es)
        BY DEF Filling
    <2>2. ASSUME NEW j \in 1 .. l PROVE End(es[j]) <= end /\ es[j].chunk.name < c.name
        <3>1. End(es[j]) <= end
            BY <2>1 DEF Covers
        <3>2. es[l].chunk = cs[k + l] /\ End(es[l]) <= end /\ l \in 1 .. l /\ k + l \in 1 .. Len(cs)
            BY <1>1, <2>1 DEF Covers
        <3>3. es[l].chunk.name < c.name
            <4>1. cs[k + l].name < c.name \/ cs[k + l].size = b
                BY <1>1, <3>2, SameWeightFills
            <4>2. es[l].chunk.size # b
                <5>1. es[l].offset \in Nat /\ es[l].offset + es[l].chunk.size <= end
                    BY <1>6, <3>2 DEF End
                <5> QED BY <1>1, <1>2, <5>1
            <4> QED BY <3>2, <4>1, <4>2
        <3>4. j = l \/ es[j].chunk.name < es[l].chunk.name
            <4>1. j = l \/ j < l
                <5>1. l \in Nat /\ j \in 1 .. l
                    BY <1>1
                <5> HIDE DEF l
                <5> QED BY <5>1
            <4> QED BY <2>1, <3>2, <4>1, Zenon DEF InLine
        <3>5. es[j].chunk.name \in Int /\ es[l].chunk.name \in Int
            BY <1>6, <3>2
        <3> QED BY <1>2, <3>1, <3>3, <3>4, <3>5
    <2> SUFFICES ASSUME NEW j \in 1 .. l + 1, NEW h \in 1 .. l + 1, j < h
                 PROVE  End(es2[j]) <= es2[h].offset /\ es2[j].chunk.name < es2[h].chunk.name
        BY <1>4 DEF InLine
    <2>3. j \in 1 .. l /\ es2[j] = es[j]
        BY <1>1, <1>4
    <2>4. CASE h = l + 1
        BY <1>3, <1>4, <2>2, <2>3, <2>4
    <2>5. CASE h # l + 1
        <3>1. h \in 1 .. l
            BY <1>1, <2>5
        <3>2. es2[h] = es[h]
            BY <1>4, <3>1
        <3> QED BY <2>1, <2>3, <3>1, <3>2, Zenon DEF InLine
    <2> QED BY <2>4, <2>5
<1>9. Len(es2) - Len(ws2) = g
    BY <1>1, <1>4, <1>5
<1>10. Queued(ws2, g, es2, i)
    <2>1. Queued(ws, g, es, i)
        BY DEF Filling
    <2> HIDE DEF g
    <2> SUFFICES ASSUME NEW j \in 1 .. Len(ws) + 1
                 PROVE  ws2[j].buf = i /\ ws2[j].offset = es2[g + j].offset /\ ws2[j].chunk = es2[g + j].chunk
        BY <1>5 DEF Queued
    <2>2. CASE j = Len(ws) + 1
        <3>1. g + j = l + 1
            BY <1>1, <2>2
        <3> QED BY <1>3, <1>4, <1>5, <2>2, <3>1
    <2>3. CASE j # Len(ws) + 1
        <3>1. j \in 1 .. Len(ws) /\ g + j \in 1 .. l
            BY <1>1, <2>3
        <3>2. ws2[j] = ws[j] /\ es2[g + j] = es[g + j]
            BY <1>4, <1>5, <3>1
        <3> QED BY <2>1, <3>1, <3>2 DEF Queued
    <2> QED BY <2>2, <2>3
<1>11. HoldsFirst(buf, g, es2)
    <2>1. HoldsFirst(buf, g, es)
        BY DEF Filling
    <2>2. ASSUME NEW j \in 1 .. g PROVE es2[j] = es[j]
        <3>1. j \in 1 .. l
            BY <1>1
        <3> QED BY <1>4, <3>1
    <2> HIDE DEF g
    <2> QED BY <2>1, <2>2 DEF HoldsFirst
<1>12. k + Len(es2) <= Len(cs) /\ end + c.size \in 0 .. b /\ Len(ws2) <= Len(es2)
    BY <1>1, <1>2, <1>4, <1>5
<1>13. Filling(sizes, b, cs, k, es2, end + c.size, ws2, i, buf)
    BY <1>1, <1>4, <1>5, <1>7, <1>8, <1>9, <1>10, <1>11, <1>12 DEF Filling, E
<1> QED BY <1>4, <1>13 DEF es2, ws2, e, w

(* A copy into a buffer puts the bytes of the chunk at its place, and leaves*)
(* the other places.                                                        *)
Into(buf, o, c) == [p \in DOMAIN buf |-> IF p \in o .. o + c.size - 1
                                         THEN <<c.name, c.from + (p - o)>> ELSE buf[p]]

LEMMA CopyOne ==
    ASSUME NEW sizes \in Lengths, NEW b \in Nat \ {0}, NEW buf \in BufferOf(sizes, b), NEW o \in Nat,
           NEW c, IsChunk(sizes, b, c), o + c.size <= b
    PROVE  /\ Cut(sizes, b)!Written(buf, o, DataOf(c)) = Into(buf, o, c)
           /\ Into(buf, o, c) \in BufferOf(sizes, b)
           /\ Holds(Into(buf, o, c), [chunk |-> c, offset |-> o])
           /\ \A q \in 0 .. b - 1 : q < o \/ q >= o + c.size => Into(buf, o, c)[q] = buf[q]
<1>1. /\ c.name \in DOMAIN sizes /\ c.from \in Nat /\ c.size \in 1 .. b
      /\ c.from + c.size <= sizes[c.name] /\ sizes[c.name] \in Nat
    BY DEF IsChunk, ChunkOf, Lengths
<1>2. DOMAIN buf = 0 .. b - 1
    BY DEF BufferOf
<1>3. Len(DataOf(c)) = c.size
    BY <1>1 DEF DataOf
<1>4. Cut(sizes, b)!Written(buf, o, DataOf(c)) = Into(buf, o, c)
    <2>1. Cut(sizes, b)!Written(buf, o, DataOf(c))
            = [p \in DOMAIN buf |-> IF p \in o .. o + c.size - 1 THEN DataOf(c)[p - o + 1] ELSE buf[p]]
        BY <1>3, Zenon DEF Cut!Written
    <2>2. ASSUME NEW p \in 0 .. b - 1, p \in o .. o + c.size - 1
          PROVE  DataOf(c)[p - o + 1] = <<c.name, c.from + (p - o)>>
        <3>1. p - o + 1 \in 1 .. c.size /\ c.from + (p - o + 1) - 1 = c.from + (p - o)
            BY <1>1, <2>2
        <3>2. DataOf(c)[p - o + 1] = <<c.name, c.from + (p - o + 1) - 1>>
            BY <3>1 DEF DataOf
        <3> QED BY <3>1, <3>2
    <2> QED BY <1>2, <2>1, <2>2 DEF Into
<1>5. Into(buf, o, c) \in BufferOf(sizes, b)
    <2>1. ASSUME NEW p \in 0 .. b - 1, p \in o .. o + c.size - 1
          PROVE  <<c.name, c.from + (p - o)>> \in BytesOfAll(sizes)
        <3>1. c.from + (p - o) \in 0 .. sizes[c.name] - 1
            BY <1>1, <2>1
        <3>2. <<c.name, c.from + (p - o)>> \in {<<c.name, x>> : x \in 0 .. sizes[c.name] - 1}
            BY <3>1
        <3> QED BY <1>1, <3>2, Zenon DEF BytesOfAll
    <2>2. \A p \in 0 .. b - 1 : buf[p] \in BytesOfAll(sizes) \cup {NoByte}
        BY DEF BufferOf
    <2> QED BY <1>2, <2>1, <2>2 DEF Into, BufferOf
<1>6. Holds(Into(buf, o, c), [chunk |-> c, offset |-> o])
    <2> SUFFICES ASSUME NEW p \in 0 .. c.size - 1 PROVE Into(buf, o, c)[o + p] = <<c.name, c.from + p>>
        BY DEF Holds
    <2>1. o + p \in 0 .. b - 1 /\ o + p \in o .. o + c.size - 1 /\ (o + p) - o = p
        BY <1>1
    <2> QED BY <1>2, <2>1 DEF Into
<1>7. ASSUME NEW q \in 0 .. b - 1, q < o \/ q >= o + c.size PROVE Into(buf, o, c)[q] = buf[q]
    <2>1. q \notin o .. o + c.size - 1
        BY <1>1, <1>7
    <2> QED BY <1>2, <2>1 DEF Into
<1> QED BY <1>4, <1>5, <1>6, <1>7

LEMMA WritingGoesOn ==
    ASSUME NEW sizes \in Lengths, NEW b \in Nat \ {0}, NEW cs, NEW n,
           RunsFromTo(sizes, b, cs, 1, n),
           NEW k, NEW es, NEW end, NEW ws, NEW i, NEW buf \in BufferOf(sizes, b),
           Filling(sizes, b, cs, k, es, end, ws, i, buf), ws # << >>
    PROVE  LET w == Head(ws)
               after == Cut(sizes, b)!Written(buf, w.offset, DataOf(w.chunk)) IN
           /\ w.buf = i /\ IsChunk(sizes, b, w.chunk) /\ after \in BufferOf(sizes, b)
           /\ Filling(sizes, b, cs, k, es, end, Tail(ws), i, after)
<1> DEFINE w == Head(ws)
           after == Into(buf, w.offset, w.chunk)
           l == Len(es)
           g == Len(es) - Len(ws)
<1>1. /\ k \in Nat /\ es \in Seq(EntryOf(sizes, b)) /\ l \in Nat /\ end \in 0 .. b /\ i \in 0 .. 1
      /\ ws \in Seq(CopyInOf(sizes, b)) /\ Len(ws) \in Nat \ {0} /\ Len(ws) <= l /\ g \in Nat
      /\ g + 1 <= l /\ Len(cs) \in Nat /\ k + l <= Len(cs)
    BY DEF Filling, RunsFromTo
<1>2. /\ Tail(ws) \in Seq(CopyInOf(sizes, b)) /\ Len(Tail(ws)) = Len(ws) - 1
      /\ \A j \in 1 .. Len(Tail(ws)) : Tail(ws)[j] = ws[j + 1]
      /\ w = ws[1]
    BY <1>1, HeadTailProperties
<1>3. PICK h \in 1 .. l : h = g + 1 /\ k + h \in 1 .. Len(cs)
    <2>1. g + 1 \in 1 .. l /\ k + (g + 1) \in 1 .. Len(cs)
        BY <1>1
    <2> HIDE DEF g, l
    <2> QED BY <2>1
<1> DEFINE e == es[h]
<1> HIDE DEF e
<1>4. w.buf = i /\ w.offset = e.offset /\ w.chunk = e.chunk
    <2>1. Queued(ws, g, es, i) /\ 1 \in 1 .. Len(ws)
        BY <1>1 DEF Filling
    <2> QED BY <1>2, <1>3, <2>1, Zenon DEF Queued, e
<1>5. \A j \in 1 .. l : /\ es[j].offset \in Nat /\ es[j].chunk.size \in Nat
                        /\ End(es[j]) = es[j].offset + es[j].chunk.size
                        /\ es[j] = [chunk |-> es[j].chunk, offset |-> es[j].offset]
    <2> SUFFICES ASSUME NEW j \in 1 .. l
                 PROVE  /\ es[j].offset \in Nat /\ es[j].chunk.size \in Nat
                        /\ End(es[j]) = es[j].offset + es[j].chunk.size
                        /\ es[j] = [chunk |-> es[j].chunk, offset |-> es[j].offset]
        OBVIOUS
    <2>1. es[j] \in EntryOf(sizes, b)
        BY <1>1, ElementOfSeq
    <2> QED BY <2>1 DEF EntryOf, ChunkOf, End
<1>6. Covers(cs, k, es, end) /\ InLine(es) /\ HoldsFirst(buf, g, es)
    BY DEF Filling
<1>7. IsChunk(sizes, b, w.chunk) /\ w.offset \in Nat /\ w.offset + w.chunk.size <= b
    <2>2. e = es[h] /\ e.chunk = cs[k + h] /\ End(e) <= end
        BY <1>3, <1>6, Zenon DEF Covers, e
    <2>3. IsChunk(sizes, b, e.chunk)
        BY <1>3, <2>2, ChunkAt, Zenon
    <2>4. e.offset \in Nat /\ e.chunk.size \in Nat /\ End(e) = e.offset + e.chunk.size
        BY <1>5, <2>2, Zenon
    <2>5. e.offset + e.chunk.size <= b
        BY <1>1, <2>2, <2>4
    <2> QED BY <1>4, <2>3, <2>4, <2>5
<1>8. /\ Cut(sizes, b)!Written(buf, w.offset, DataOf(w.chunk)) = after
      /\ after \in BufferOf(sizes, b)
      /\ Holds(after, [chunk |-> w.chunk, offset |-> w.offset])
      /\ \A q \in 0 .. b - 1 : q < w.offset \/ q >= w.offset + w.chunk.size => after[q] = buf[q]
    <2> HIDE DEF w
    <2> QED BY <1>7, CopyOne
<1> HIDE DEF w, after
<1>9. HoldsFirst(after, g + 1, es)
    <2> SUFFICES ASSUME NEW j \in 1 .. g + 1 PROVE Holds(after, es[j])
        BY DEF HoldsFirst
    <2>2. CASE j = g + 1
        <3>1. es[j] = [chunk |-> w.chunk, offset |-> w.offset]
            BY <1>3, <1>4, <1>5, <2>2, Zenon DEF e
        <3> QED BY <1>8, <3>1, Zenon
    <2>3. CASE j # g + 1
        <3>1. j \in 1 .. g /\ j \in 1 .. l /\ j < h
            BY <1>1, <1>3, <2>3
        <3>2. Holds(buf, es[j]) /\ End(es[j]) <= es[h].offset /\ End(es[j]) <= end /\ es[h] = e
            BY <1>3, <1>6, <3>1, Zenon DEF HoldsFirst, InLine, Covers, e
        <3>3. PICK x \in Nat, y \in Nat : x = es[j].offset /\ y = es[j].chunk.size /\ x + y <= w.offset /\ x + y <= b
            <4>1. End(es[j]) = es[j].offset + es[j].chunk.size /\ es[j].offset \in Nat /\ es[j].chunk.size \in Nat
                BY <1>5, <3>1, Zenon
            <4>2. w.offset = es[h].offset
                BY <1>4, <3>2
            <4>3. end <= b /\ end \in Nat /\ b \in Nat /\ w.offset \in Nat
                BY <1>1, <1>7
            <4>4. es[j].offset + es[j].chunk.size <= w.offset /\ es[j].offset + es[j].chunk.size <= end
                BY <3>2, <4>1, <4>2, Zenon
            <4> QED BY <4>1, <4>3, <4>4
        <3>4. ASSUME NEW p \in 0 .. y - 1 PROVE after[x + p] = buf[x + p]
            <4>1. x + p \in 0 .. b - 1 /\ x + p < w.offset
                <5>1. x \in Nat /\ y \in Nat /\ x + y <= w.offset /\ x + y <= b /\ w.offset \in Nat
                    BY <1>7, <3>3
                <5> HIDE DEF g, l
                <5> QED BY <5>1
            <4> QED BY <1>8, <4>1, Zenon
        <3> QED BY <3>2, <3>3, <3>4, Zenon DEF Holds
    <2> QED BY <2>2, <2>3
<1>10. Len(es) - Len(Tail(ws)) = g + 1
    BY <1>1, <1>2
<1>11. Queued(Tail(ws), g + 1, es, i)
    <2>1. Queued(ws, g, es, i)
        BY DEF Filling
    <2>2. \A j \in 1 .. Len(Tail(ws)) : /\ j + 1 \in 1 .. Len(ws) /\ Tail(ws)[j] = ws[j + 1]
                                        /\ (g + 1) + j = g + (j + 1)
        BY <1>1, <1>2
    <2> HIDE DEF g
    <2> QED BY <2>1, <2>2 DEF Queued
<1>12. Filling(sizes, b, cs, k, es, end, Tail(ws), i, after)
    <2>1. Len(Tail(ws)) <= l
        BY <1>1, <1>2
    <2> HIDE DEF g
    <2> QED BY <1>1, <1>2, <1>6, <1>9, <1>10, <1>11, <2>1 DEF Filling
<1> QED BY <1>4, <1>7, <1>8, <1>12 DEF w

(* The copies queued when all have run, and when a new bucket is begun.     *)
LEMMA FilledIsPackage ==
    ASSUME NEW sizes, NEW b \in Nat, NEW cs, NEW k, NEW es, NEW end, NEW i, NEW buf,
           Filling(sizes, b, cs, k, es, end, << >>, i, buf)
    PROVE  Package(sizes, b, cs, k, es, buf)
<1>1. /\ k \in Nat /\ es \in Seq(EntryOf(sizes, b)) /\ k + Len(es) <= Len(cs) /\ end \in 0 .. b
      /\ Covers(cs, k, es, end) /\ HoldsFirst(buf, Len(es) - 0, es)
    BY DEF Filling
<1>2. ASSUME NEW j \in 1 .. Len(es) PROVE es[j].chunk = cs[k + j] /\ End(es[j]) <= b /\ Holds(buf, es[j])
    <2>1. es[j].chunk = cs[k + j] /\ End(es[j]) <= end
        BY <1>1 DEF Covers
    <2>2. Len(es) - 0 = Len(es)
        BY <1>1
    <2>3. Holds(buf, es[j])
        BY <1>1, <2>2, Zenon DEF HoldsFirst
    <2>4. End(es[j]) \in Int
        <3>1. es[j] \in EntryOf(sizes, b)
            BY <1>1, ElementOfSeq
        <3> QED BY <3>1 DEF EntryOf, ChunkOf, End
    <2> QED BY <1>1, <2>1, <2>3, <2>4
<1> QED BY <1>1, <1>2 DEF Package

LEMMA FillingBegins ==
    ASSUME NEW sizes, NEW b \in Nat, NEW cs, NEW k \in Nat, k <= Len(cs), NEW i \in 0 .. 1, NEW buf
    PROVE  Filling(sizes, b, cs, k, << >>, 0, << >>, i, buf)
BY DEF Filling, Covers, InLine, Queued, HoldsFirst

LEMMA NothingPacked ==
    ASSUME NEW sizes, NEW b \in Nat, NEW cs, NEW k \in Nat, k <= Len(cs), NEW buf
    PROVE  Package(sizes, b, cs, k, << >>, buf)
BY DEF Package

(* A bucket arrives with a receiver that has merged all before it.          *)
LEMMA HandingBegins ==
    ASSUME NEW sizes, NEW b \in Nat, NEW cs, NEW k, NEW es, NEW i \in 0 .. 1, NEW buf, NEW m,
           Package(sizes, b, cs, k, es, buf), m = Progress(sizes, cs, k)
    PROVE  Handing(sizes, b, cs, k, es, << >>, i, buf, m)
<1>1. k \in Nat /\ Len(<< >>) = 0 /\ k - 0 = k
    BY DEF Package
<1>2. CopiedOut(cs, k, << >>, i, b, buf)
    BY DEF CopiedOut
<1> QED BY <1>1, <1>2 DEF Handing

LEMMA HandedOver ==
    ASSUME NEW sizes, NEW b \in Nat, NEW cs, NEW k, NEW i, NEW buf, NEW m,
           Handing(sizes, b, cs, k, << >>, << >>, i, buf, m)
    PROVE  m = Progress(sizes, cs, k) /\ k \in Nat
<1>1. k \in Nat /\ Len(<< >>) = 0 /\ k - 0 = k
    BY DEF Handing, Package
<1> QED BY <1>1 DEF Handing

LEMMA YieldingGoesOn ==
    ASSUME NEW sizes, NEW b \in Nat \ {0}, NEW cs, NEW k, NEW todo, NEW rs, NEW i, NEW buf, NEW m,
           Handing(sizes, b, cs, k, todo, rs, i, buf, m), todo # << >>
    PROVE  LET r == [buf |-> i, entry |-> Head(todo)] IN
           /\ Handing(sizes, b, cs, k + 1, Tail(todo), Append(rs, r), i, buf, m)
           /\ Len(Tail(todo)) = Len(todo) - 1 /\ Len(Append(rs, r)) = Len(rs) + 1
<1> DEFINE r == [buf |-> i, entry |-> Head(todo)]
           E == EntryOf(sizes, b)
           g == k - Len(rs)
           rs2 == Append(rs, r)
<1>1. /\ k \in Nat /\ todo \in Seq(E) /\ Len(todo) \in Nat \ {0} /\ k + Len(todo) <= Len(cs)
      /\ rs \in Seq(CopyOutOf(sizes, b)) /\ Len(rs) \in Nat /\ Len(rs) <= k /\ i \in 0 .. 1
      /\ g \in Nat /\ g + Len(rs) = k
    BY DEF Handing, Package
<1>2. /\ Tail(todo) \in Seq(E) /\ Len(Tail(todo)) = Len(todo) - 1
      /\ \A j \in 1 .. Len(Tail(todo)) : Tail(todo)[j] = todo[j + 1]
      /\ Head(todo) \in E /\ Head(todo) = todo[1]
    <2> HIDE DEF E
    <2> QED BY <1>1, HeadTailProperties
<1>3. r \in CopyOutOf(sizes, b) /\ r.buf = i /\ r.entry = todo[1]
    BY <1>1, <1>2 DEF CopyOutOf
<1> HIDE DEF r
<1>4. /\ rs2 \in Seq(CopyOutOf(sizes, b)) /\ Len(rs2) = Len(rs) + 1
      /\ \A j \in 1 .. Len(rs) : rs2[j] = rs[j]
      /\ rs2[Len(rs) + 1] = r
    BY <1>1, <1>3, AppendProperties
<1> HIDE DEF rs2
<1>5. \A j \in 1 .. Len(todo) : todo[j].chunk = cs[k + j] /\ End(todo[j]) <= b /\ Holds(buf, todo[j])
    BY DEF Handing, Package
<1>6. CopiedOut(cs, g, rs, i, b, buf)
    BY DEF Handing
<1>7. CopiedOut(cs, g, rs2, i, b, buf)
    <2> SUFFICES ASSUME NEW j \in 1 .. Len(rs) + 1
                 PROVE  /\ rs2[j].buf = i /\ rs2[j].entry.chunk = cs[g + j]
                        /\ End(rs2[j].entry) <= b /\ Holds(buf, rs2[j].entry)
        <3> HIDE DEF g
        <3> QED BY <1>4 DEF CopiedOut
    <2>1. CASE j = Len(rs) + 1
        <3>1. rs2[j] = r /\ 1 \in 1 .. Len(todo) /\ g + j = k + 1
            BY <1>1, <1>4, <2>1
        <3> HIDE DEF g
        <3> QED BY <1>3, <1>5, <3>1, Zenon
    <2>2. CASE j # Len(rs) + 1
        <3>1. j \in 1 .. Len(rs)
            BY <1>1, <2>2
        <3> HIDE DEF g
        <3> QED BY <1>4, <1>6, <3>1, Zenon DEF CopiedOut
    <2> QED BY <2>1, <2>2
<1>8. Package(sizes, b, cs, k + 1, Tail(todo), buf)
    <2>1. ASSUME NEW j \in 1 .. Len(Tail(todo))
          PROVE  /\ Tail(todo)[j].chunk = cs[(k + 1) + j]
                 /\ End(Tail(todo)[j]) <= b /\ Holds(buf, Tail(todo)[j])
        <3>1. j + 1 \in 1 .. Len(todo) /\ (k + 1) + j = k + (j + 1) /\ Tail(todo)[j] = todo[j + 1]
            BY <1>1, <1>2
        <3> QED BY <1>5, <3>1, Zenon
    <2>2. k + 1 \in Nat /\ (k + 1) + Len(Tail(todo)) <= Len(cs)
        <3>1. (k + 1) + Len(Tail(todo)) = k + Len(todo)
            BY <1>1, <1>2
        <3> QED BY <1>1, <3>1
    <2> QED BY <1>2, <2>1, <2>2 DEF Package
<1>9. (k + 1) - Len(rs2) = g /\ Len(rs2) <= k + 1
    BY <1>1, <1>4
<1>10. m = Progress(sizes, cs, g)
    BY DEF Handing
<1>11. Handing(sizes, b, cs, k + 1, Tail(todo), rs2, i, buf, m)
    <2> HIDE DEF g
    <2> QED BY <1>1, <1>4, <1>7, <1>8, <1>9, <1>10 DEF Handing
<1> QED BY <1>2, <1>4, <1>11 DEF r, rs2

LEMMA BytesInPlace ==
    ASSUME NEW sizes, NEW b \in Nat \ {0}, NEW e \in EntryOf(sizes, b), NEW buf, Holds(buf, e)
    PROVE  Cut(sizes, b)!Stretch(buf, e.offset, e.chunk.size) = DataOf(e.chunk)
<1>1. e.offset \in Nat /\ e.chunk.size \in Nat /\ e.chunk.from \in Nat
    BY DEF EntryOf, ChunkOf
<1>2. ASSUME NEW j \in 1 .. e.chunk.size
      PROVE  buf[e.offset + j - 1] = <<e.chunk.name, e.chunk.from + j - 1>>
    <2>1. j - 1 \in 0 .. e.chunk.size - 1
        BY <1>1
    <2>2. buf[e.offset + (j - 1)] = <<e.chunk.name, e.chunk.from + (j - 1)>>
        BY <2>1, Zenon DEF Holds
    <2>3. e.offset + (j - 1) = e.offset + j - 1 /\ e.chunk.from + (j - 1) = e.chunk.from + j - 1
        BY <1>1
    <2> QED BY <2>2, <2>3
<1> QED BY <1>2 DEF Cut!Stretch, DataOf

LEMMA ReadingGoesOn ==
    ASSUME NEW sizes \in Lengths, NEW b \in Nat \ {0}, NEW cs, NEW n,
           RunsFromTo(sizes, b, cs, 1, n),
           NEW k, NEW todo, NEW rs, NEW i, NEW buf, NEW m,
           Handing(sizes, b, cs, k, todo, rs, i, buf, m), rs # << >>
    PROVE  LET e == Head(rs).entry
               after == Cut(sizes, b)!Merged(m, e.chunk, Cut(sizes, b)!Stretch(buf, e.offset, e.chunk.size)) IN
           /\ Head(rs).buf = i
           /\ Handing(sizes, b, cs, k, todo, Tail(rs), i, buf, after)
           /\ Len(Tail(rs)) = Len(rs) - 1
           /\ \/ after.yielded = m.yielded
              \/ \E w \in Nat : /\ w < Len(sizes) /\ m.yielded = Wholes(sizes, w)
                                /\ after.yielded = Wholes(sizes, w + 1)
<1> DEFINE e == Head(rs).entry
           after == Cut(sizes, b)!Merged(m, e.chunk, Cut(sizes, b)!Stretch(buf, e.offset, e.chunk.size))
           g == k - Len(rs)
<1>1. /\ k \in Nat /\ todo \in Seq(EntryOf(sizes, b)) /\ Len(todo) \in Nat /\ k + Len(todo) <= Len(cs)
      /\ rs \in Seq(CopyOutOf(sizes, b)) /\ Len(rs) \in Nat \ {0} /\ Len(rs) <= k /\ i \in 0 .. 1
      /\ g \in Nat /\ g + 1 <= Len(cs) /\ Len(cs) \in Nat /\ Package(sizes, b, cs, k, todo, buf)
    BY DEF Handing, Package, RunsFromTo
<1>2. /\ Tail(rs) \in Seq(CopyOutOf(sizes, b)) /\ Len(Tail(rs)) = Len(rs) - 1
      /\ \A j \in 1 .. Len(Tail(rs)) : Tail(rs)[j] = rs[j + 1]
      /\ Head(rs) \in CopyOutOf(sizes, b) /\ Head(rs) = rs[1]
    BY <1>1, HeadTailProperties
<1>3. CopiedOut(cs, g, rs, i, b, buf) /\ m = Progress(sizes, cs, g)
    BY DEF Handing
<1>4. Head(rs).buf = i /\ e.chunk = cs[g + 1] /\ Holds(buf, e)
    <2>1. 1 \in 1 .. Len(rs)
        BY <1>1
    <2> HIDE DEF g
    <2> QED BY <1>2, <1>3, <2>1, Zenon DEF CopiedOut
<1>5. Cut(sizes, b)!Stretch(buf, e.offset, e.chunk.size) = DataOf(e.chunk)
    <2>1. e \in EntryOf(sizes, b)
        BY <1>2 DEF CopyOutOf
    <2> HIDE DEF e
    <2> QED BY <1>4, <2>1, BytesInPlace
<1>6. after = Cut(sizes, b)!Merged(Progress(sizes, cs, g), cs[g + 1], DataOf(cs[g + 1]))
    <2> HIDE DEF e, g
    <2> QED BY <1>3, <1>4, <1>5
<1> HIDE DEF after
<1>7. /\ after = Progress(sizes, cs, g + 1)
      /\ \/ after.yielded = m.yielded
         \/ \E w \in Nat : /\ w < Len(sizes) /\ m.yielded = Wholes(sizes, w)
                           /\ after.yielded = Wholes(sizes, w + 1)
    <2> HIDE DEF g
    <2> QED BY <1>1, <1>3, <1>6, MergedAdvances
<1>8. CopiedOut(cs, g + 1, Tail(rs), i, b, buf)
    <2>1. \A j \in 1 .. Len(Tail(rs)) : /\ j + 1 \in 1 .. Len(rs) /\ Tail(rs)[j] = rs[j + 1]
                                        /\ (g + 1) + j = g + (j + 1)
        BY <1>1, <1>2
    <2> HIDE DEF g
    <2> QED BY <1>3, <2>1 DEF CopiedOut
<1>9. k - Len(Tail(rs)) = g + 1 /\ Len(Tail(rs)) <= k
    BY <1>1, <1>2
<1>10. Handing(sizes, b, cs, k, todo, Tail(rs), i, buf, after)
    <2> HIDE DEF g
    <2> QED BY <1>1, <1>2, <1>7, <1>8, <1>9 DEF Handing
<1> QED BY <1>2, <1>4, <1>7, <1>10 DEF after
-----------------------------------------------------------------------------
(* The broadcast                                                            *)
NcclOf(sizes, bucketSize, receivers) == INSTANCE NcclTransfer WITH
    Sizes <- sizes, BucketSize <- bucketSize, Receivers <- receivers,
    next <- n_next, fill <- n_fill, bufs <- n_bufs, meta <- n_meta, offset <- n_offset,
    writes <- n_writes, op <- n_op, reached <- n_reached, pc <- n_pc, read <- n_read,
    rbufs <- n_rbufs, posted <- n_posted, arrived <- n_arrived, bucket <- n_bucket,
    todo <- n_todo, reads <- n_reads, merge <- n_merge

LEMMA NcclOperators ==
    ASSUME NEW sizes, NEW b, NEW R
    PROVE  /\ NcclOf(sizes, b, R)!Chunks = Cut(sizes, b)!Chunks
           /\ \A c : NcclOf(sizes, b, R)!BytesOf(c) = Cut(sizes, b)!BytesOf(c)
           /\ \A f, o, d : NcclOf(sizes, b, R)!Written(f, o, d) = Cut(sizes, b)!Written(f, o, d)
           /\ \A f, o, n : NcclOf(sizes, b, R)!Stretch(f, o, n) = Cut(sizes, b)!Stretch(f, o, n)
           /\ \A m, c, d : NcclOf(sizes, b, R)!Merged(m, c, d) = Cut(sizes, b)!Merged(m, c, d)
<1>1. NcclOf(sizes, b, R)!Chunks = Cut(sizes, b)!Chunks
    BY Zenon DEF NcclOf!Chunks, NcclOf!ChunksOf, NcclOf!Lesser, Cut!Chunks, Cut!ChunksOf, Cut!Lesser
<1>2. \A c : NcclOf(sizes, b, R)!BytesOf(c) = Cut(sizes, b)!BytesOf(c)
    BY Zenon DEF NcclOf!BytesOf, NcclOf!Bytes, NcclOf!BytesOfWeight, Cut!BytesOf, Cut!Bytes, Cut!BytesOfWeight
<1>3. \A f, o, d : NcclOf(sizes, b, R)!Written(f, o, d) = Cut(sizes, b)!Written(f, o, d)
    BY Zenon DEF NcclOf!Written, Cut!Written
<1>4. \A f, o, n : NcclOf(sizes, b, R)!Stretch(f, o, n) = Cut(sizes, b)!Stretch(f, o, n)
    BY Zenon DEF NcclOf!Stretch, Cut!Stretch
<1>5. \A m, c, d : NcclOf(sizes, b, R)!Merged(m, c, d) = Cut(sizes, b)!Merged(m, c, d)
    BY Zenon DEF NcclOf!Merged, NcclOf!NoMerge, Cut!Merged, Cut!NoMerge
<1> QED BY <1>1, <1>2, <1>3, <1>4, <1>5

(* How many chunks are in the buckets sent, in those that have reached a    *)
(* receiver, in those it has begun to yield; and how many it has yielded.   *)
n_Sent       == n_next - 1 - Len(n_meta)
n_Fresh(r)   == ~n_posted[r] /\ ~n_bucket[r].last
n_Told(r)    == IF r \in n_reached THEN n_Sent ELSE n_Sent - Len(n_op.chunks)
n_Taken(r)   == IF n_Fresh(r) THEN n_Told(r) - Len(n_arrived[r].chunks) ELSE n_Told(r)
n_Yielded(r) == n_Taken(r) - Len(n_todo[r])

n_Types(sizes, b, R) ==
    /\ n_next \in Nat /\ n_fill \in 0 .. 1 /\ n_bufs \in [0 .. 1 -> BufferOf(sizes, b)]
    /\ n_reached \subseteq R
    /\ n_pc \in [R -> {"first", "yield", "done"}] /\ n_read \in [R -> 0 .. 1]
    /\ n_rbufs \in [R -> [0 .. 1 -> BufferOf(sizes, b)]]
    /\ n_posted \in [R -> BOOLEAN]
    /\ n_arrived \in [R -> [chunks : Seq(EntryOf(sizes, b)), last : BOOLEAN]]
    /\ n_bucket \in [R -> [chunks : Seq(EntryOf(sizes, b)), last : BOOLEAN]]
    /\ n_todo \in [R -> Seq(EntryOf(sizes, b))] /\ n_reads \in [R -> Seq(CopyOutOf(sizes, b))]
    /\ n_merge \in [R -> {Progress(sizes, Cut(sizes, b)!Chunks, k) : k \in Nat}]

(* The sender fills one bucket; the other one is what is being broadcast.   *)
n_SenderOK(sizes, b, R) ==
    /\ Filling(sizes, b, Cut(sizes, b)!Chunks, n_Sent, n_meta, n_offset, n_writes,
               n_fill, n_bufs[n_fill])
    /\ n_op # << >> =>
          /\ n_op.buf = 1 - n_fill /\ n_op.last \in BOOLEAN
          /\ Package(sizes, b, Cut(sizes, b)!Chunks, n_Sent - Len(n_op.chunks), n_op.chunks,
                     n_bufs[1 - n_fill])
    /\ n_reached # R => n_op # << >>

(* A receiver hands out one bucket; the other one is what has arrived.      *)
n_ReceiverOK(sizes, b, r) ==
    /\ n_posted[r] => ~n_bucket[r].last
    /\ n_Fresh(r) => Package(sizes, b, Cut(sizes, b)!Chunks, n_Taken(r), n_arrived[r].chunks,
                             n_rbufs[r][1 - n_read[r]])
    /\ Handing(sizes, b, Cut(sizes, b)!Chunks, n_Yielded(r), n_todo[r], n_reads[r], n_read[r],
               n_rbufs[r][n_read[r]], n_merge[r])

n_Inv(sizes, b, R) ==
    /\ n_Types(sizes, b, R) /\ n_SenderOK(sizes, b, R)
    /\ \A r \in R : n_ReceiverOK(sizes, b, r)

(* What is sent stays what it is for a receiver none of whose state, nor of *)
(* whose news, changes.                                                     *)
n_OfReceiver(r) == <<n_read[r], n_rbufs[r], n_posted[r], n_arrived[r], n_bucket[r], n_todo[r],
                     n_reads[r], n_merge[r]>>
LEMMA n_ReceiverStays ==
    ASSUME NEW sizes, NEW b, NEW r, n_ReceiverOK(sizes, b, r),
           UNCHANGED n_OfReceiver(r), n_Told(r)' = n_Told(r)
    PROVE  n_ReceiverOK(sizes, b, r)'
<1>1. /\ n_read'[r] = n_read[r] /\ n_rbufs'[r] = n_rbufs[r] /\ n_posted'[r] = n_posted[r]
      /\ n_arrived'[r] = n_arrived[r] /\ n_bucket'[r] = n_bucket[r] /\ n_todo'[r] = n_todo[r]
      /\ n_reads'[r] = n_reads[r] /\ n_merge'[r] = n_merge[r]
    BY DEF n_OfReceiver
<1>2. n_Fresh(r)' <=> n_Fresh(r)
    BY <1>1 DEF n_Fresh
<1>3. n_Taken(r)' = n_Taken(r)
    BY <1>1, <1>2 DEF n_Taken
<1>4. n_Yielded(r)' = n_Yielded(r)
    BY <1>1, <1>3 DEF n_Yielded
<1> QED BY <1>1, <1>2, <1>3, <1>4, Zenon DEF n_ReceiverOK

LEMMA n_FillStep ==
    ASSUME NEW sizes \in Lengths, Len(sizes) > 0, NEW b \in Nat \ {0}, NEW R,
           n_Inv(sizes, b, R), NcclOf(sizes, b, R)!FillChunk
    PROVE  n_Inv(sizes, b, R)'
<1> DEFINE cs == Cut(sizes, b)!Chunks
<1>1. RunsFromTo(sizes, b, cs, 1, Len(sizes))
    BY ChunksRun
<1>2. /\ n_next <= Len(cs) /\ n_offset + cs[n_next].size <= b
      /\ n_meta' = Append(n_meta, [chunk |-> cs[n_next], offset |-> n_offset])
      /\ n_writes' = Append(n_writes, [buf |-> n_fill, offset |-> n_offset, chunk |-> cs[n_next]])
      /\ n_offset' = n_offset + cs[n_next].size /\ n_next' = n_next + 1
      /\ UNCHANGED <<n_fill, n_bufs, n_op, n_reached, n_pc, n_read, n_rbufs, n_posted, n_arrived,
                     n_bucket, n_todo, n_reads, n_merge>>
    <2>1. NcclOf(sizes, b, R)!Chunks = cs
        BY NcclOperators
    <2> QED BY <2>1, Zenon DEF NcclOf!FillChunk, NcclOf!Fits, NcclOf!receiver
<1>3. Filling(sizes, b, cs, n_Sent, n_meta, n_offset, n_writes, n_fill, n_bufs[n_fill])
    BY DEF n_Inv, n_SenderOK
<1>4. n_next \in Nat /\ n_Sent \in Nat /\ Len(n_meta) \in Nat /\ n_Sent + Len(n_meta) + 1 = n_next
    BY <1>3 DEF n_Inv, n_Types, n_Sent, Filling
<1> HIDE DEF cs
<1>5. /\ Filling(sizes, b, cs, n_Sent, n_meta', n_offset', n_writes', n_fill, n_bufs[n_fill])
      /\ Len(n_meta') = Len(n_meta) + 1
    <2>1. n_Sent + Len(n_meta) + 1 <= Len(cs) /\ cs[n_next] = cs[n_Sent + Len(n_meta) + 1]
        BY <1>2, <1>4
    <2> QED BY <1>1, <1>2, <1>3, <2>1, FillingGoesOn
<1>6. n_Sent' = n_Sent
    BY <1>2, <1>4, <1>5 DEF n_Sent
<1>7. n_SenderOK(sizes, b, R)'
    BY <1>2, <1>5, <1>6 DEF n_SenderOK, n_Inv, cs
<1>8. n_Types(sizes, b, R)'
    BY <1>2, <1>4 DEF n_Types, n_Inv
<1>9. ASSUME NEW r \in R PROVE n_ReceiverOK(sizes, b, r)'
    <2>1. n_Told(r)' = n_Told(r)
        BY <1>2, <1>6 DEF n_Told
    <2>2. UNCHANGED n_OfReceiver(r)
        BY <1>2 DEF n_OfReceiver
    <2> QED BY <2>1, <2>2, n_ReceiverStays DEF n_Inv
<1> QED BY <1>7, <1>8, <1>9 DEF n_Inv

LEMMA n_WriteStep ==
    ASSUME NEW sizes \in Lengths, Len(sizes) > 0, NEW b \in Nat \ {0}, NEW R,
           n_Inv(sizes, b, R), NcclOf(sizes, b, R)!WriteRuns
    PROVE  n_Inv(sizes, b, R)' /\ (n_op # << >> => n_bufs'[n_op.buf] = n_bufs[n_op.buf])
<1> DEFINE cs == Cut(sizes, b)!Chunks
           w  == Head(n_writes)
           after == Cut(sizes, b)!Written(n_bufs[n_fill], w.offset, DataOf(w.chunk))
<1>1. RunsFromTo(sizes, b, cs, 1, Len(sizes))
    BY ChunksRun
<1>2. /\ n_writes # << >> /\ n_writes' = Tail(n_writes)
      /\ n_bufs' = [n_bufs EXCEPT ![w.buf] = Cut(sizes, b)!Written(n_bufs[w.buf], w.offset, Cut(sizes, b)!BytesOf(w.chunk))]
      /\ UNCHANGED <<n_next, n_fill, n_meta, n_offset, n_op, n_reached, n_pc, n_read, n_rbufs,
                     n_posted, n_arrived, n_bucket, n_todo, n_reads, n_merge>>
    <2>1. /\ NcclOf(sizes, b, R)!BytesOf(w.chunk) = Cut(sizes, b)!BytesOf(w.chunk)
          /\ \A f, o, d : NcclOf(sizes, b, R)!Written(f, o, d) = Cut(sizes, b)!Written(f, o, d)
        BY NcclOperators
    <2>2. /\ n_writes # << >> /\ n_writes' = Tail(n_writes)
          /\ n_bufs' = [n_bufs EXCEPT ![w.buf] = NcclOf(sizes, b, R)!Written(n_bufs[w.buf], w.offset, NcclOf(sizes, b, R)!BytesOf(w.chunk))]
          /\ UNCHANGED <<n_next, n_fill, n_meta, n_offset, n_op, n_reached, n_pc, n_read, n_rbufs,
                     n_posted, n_arrived, n_bucket, n_todo, n_reads, n_merge>>
        BY Zenon DEF NcclOf!WriteRuns, NcclOf!receiver
    <2> HIDE DEF w
    <2> QED BY <2>1, <2>2, Zenon
<1>3. /\ Filling(sizes, b, cs, n_Sent, n_meta, n_offset, n_writes, n_fill, n_bufs[n_fill])
      /\ n_fill \in 0 .. 1 /\ n_bufs \in [0 .. 1 -> BufferOf(sizes, b)]
      /\ n_bufs[n_fill] \in BufferOf(sizes, b)
    BY DEF n_Inv, n_SenderOK, n_Types
<1> HIDE DEF cs, after
<1>4. /\ w.buf = n_fill /\ IsChunk(sizes, b, w.chunk) /\ after \in BufferOf(sizes, b)
      /\ Filling(sizes, b, cs, n_Sent, n_meta, n_offset, Tail(n_writes), n_fill, after)
    BY <1>1, <1>2, <1>3, WritingGoesOn DEF after
<1> HIDE DEF w
<1>5. n_bufs' = [n_bufs EXCEPT ![n_fill] = after]
    <2>1. Cut(sizes, b)!BytesOf(w.chunk) = DataOf(w.chunk)
        BY <1>4, ChunkData
    <2> QED BY <1>2, <1>4, <2>1, Zenon DEF after
<1>6. n_bufs'[n_fill] = after /\ n_bufs'[1 - n_fill] = n_bufs[1 - n_fill]
      /\ n_bufs' \in [0 .. 1 -> BufferOf(sizes, b)]
    <2>1. 1 - n_fill \in 0 .. 1 /\ 1 - n_fill # n_fill
        BY <1>3
    <2> QED BY <1>3, <1>4, <1>5, <2>1
<1>7. n_Sent' = n_Sent
    BY <1>2 DEF n_Sent
<1>8. n_SenderOK(sizes, b, R)'
    BY <1>2, <1>4, <1>6, <1>7 DEF n_SenderOK, n_Inv, cs
<1>9. n_Types(sizes, b, R)'
    BY <1>2, <1>6 DEF n_Types, n_Inv
<1>10. ASSUME NEW r \in R PROVE n_ReceiverOK(sizes, b, r)'
    <2>1. n_Told(r)' = n_Told(r)
        BY <1>2, <1>7 DEF n_Told
    <2>2. UNCHANGED n_OfReceiver(r)
        BY <1>2 DEF n_OfReceiver
    <2> QED BY <2>1, <2>2, n_ReceiverStays DEF n_Inv
<1>11. n_op # << >> => n_bufs'[n_op.buf] = n_bufs[n_op.buf]
    BY <1>6 DEF n_Inv, n_SenderOK
<1> QED BY <1>8, <1>9, <1>10, <1>11 DEF n_Inv

LEMMA n_BroadcastStep ==
    ASSUME NEW sizes \in Lengths, Len(sizes) > 0, NEW b \in Nat \ {0}, NEW R,
           NEW last \in BOOLEAN, n_Inv(sizes, b, R), NcclOf(sizes, b, R)!Broadcast(last)
    PROVE  n_Inv(sizes, b, R)'
<1> DEFINE cs == Cut(sizes, b)!Chunks
<1>2. /\ n_writes = << >> /\ n_reached = R
      /\ n_op' = [buf |-> n_fill, chunks |-> n_meta, last |-> last]
      /\ n_reached' = {} /\ n_fill' = 1 - n_fill /\ n_meta' = << >> /\ n_offset' = 0
      /\ UNCHANGED <<n_next, n_bufs, n_writes, n_pc, n_read, n_rbufs, n_posted, n_arrived,
                     n_bucket, n_todo, n_reads, n_merge>>
    BY Zenon DEF NcclOf!Broadcast, NcclOf!receiver
<1>3. /\ Filling(sizes, b, cs, n_Sent, n_meta, n_offset, n_writes, n_fill, n_bufs[n_fill])
      /\ n_fill \in 0 .. 1 /\ n_next \in Nat
    BY DEF n_Inv, n_SenderOK, n_Types
<1>4. Package(sizes, b, cs, n_Sent, n_meta, n_bufs[n_fill])
    BY <1>2, <1>3, FilledIsPackage
<1>5. n_Sent \in Nat /\ Len(n_meta) \in Nat /\ n_Sent + Len(n_meta) <= Len(cs)
    BY <1>4 DEF Package
<1>6. n_Sent' = n_Sent + Len(n_meta) /\ n_Sent' - Len(n_meta) = n_Sent
    BY <1>2, <1>3, <1>5 DEF n_Sent
<1>7. 1 - n_fill \in 0 .. 1 /\ 1 - (1 - n_fill) = n_fill
    BY <1>3
<1>8. n_SenderOK(sizes, b, R)'
    <2>1. Filling(sizes, b, cs, n_Sent', << >>, 0, << >>, 1 - n_fill, n_bufs[1 - n_fill])
        <3>1. n_Sent' \in Nat /\ n_Sent' <= Len(cs)
            BY <1>5, <1>6
        <3> QED BY <1>7, <3>1, FillingBegins
    <2>2. /\ n_op' # << >> /\ n_op'.buf = n_fill /\ n_op'.last \in BOOLEAN /\ n_op'.chunks = n_meta
        BY <1>2
    <2> QED BY <1>2, <1>4, <1>6, <1>7, <2>1, <2>2, Zenon DEF n_SenderOK
<1>9. n_Types(sizes, b, R)'
    BY <1>2, <1>7 DEF n_Types, n_Inv
<1>10. ASSUME NEW r \in R PROVE n_ReceiverOK(sizes, b, r)'
    <2>1. n_Told(r)' = n_Told(r)
        BY <1>2, <1>6 DEF n_Told
    <2>2. UNCHANGED n_OfReceiver(r)
        BY <1>2 DEF n_OfReceiver
    <2> QED BY <2>1, <2>2, n_ReceiverStays DEF n_Inv
<1> QED BY <1>8, <1>9, <1>10 DEF n_Inv

(* What the steps of one receiver leave alone.                              *)
LEMMA n_OthersStay ==
    ASSUME NEW sizes, NEW b, NEW R, NEW r \in R, n_Inv(sizes, b, R), n_ReceiverOK(sizes, b, r)',
           n_Sent' = n_Sent, n_op' = n_op,
           n_reached' = n_reached \/ n_reached' = n_reached \cup {r},
           \A s \in R \ {r} : UNCHANGED n_OfReceiver(s)
    PROVE  \A s \in R : n_ReceiverOK(sizes, b, s)'
<1> SUFFICES ASSUME NEW s \in R \ {r} PROVE n_ReceiverOK(sizes, b, s)'
    OBVIOUS
<1>1. n_Told(s)' = n_Told(s)
    BY DEF n_Told
<1> QED BY <1>1, n_ReceiverStays DEF n_Inv

LEMMA n_ReceiveStep ==
    ASSUME NEW sizes \in Lengths, Len(sizes) > 0, NEW b \in Nat \ {0}, NEW R, NEW r \in R,
           n_Inv(sizes, b, R), NcclOf(sizes, b, R)!Receive(r)
    PROVE  n_Inv(sizes, b, R)' /\ n_rbufs'[r][n_read[r]] = n_rbufs[r][n_read[r]]
           /\ \A s \in R \ {r} : n_rbufs'[s] = n_rbufs[s]
<1> DEFINE cs == Cut(sizes, b)!Chunks
<1>2. /\ n_op # << >> /\ r \notin n_reached /\ n_posted[r]
      /\ n_rbufs' = [n_rbufs EXCEPT ![r][1 - n_read[r]] = n_bufs[n_op.buf]]
      /\ n_arrived' = [n_arrived EXCEPT ![r] = [chunks |-> n_op.chunks, last |-> n_op.last]]
      /\ n_posted' = [n_posted EXCEPT ![r] = FALSE]
      /\ n_reached' = n_reached \cup {r}
      /\ UNCHANGED <<n_next, n_fill, n_bufs, n_meta, n_offset, n_writes, n_op, n_pc, n_read,
                     n_bucket, n_todo, n_reads, n_merge>>
    BY Zenon DEF NcclOf!Receive, NcclOf!sender
<1>3. /\ n_op.buf = 1 - n_fill /\ n_op.last \in BOOLEAN
      /\ Package(sizes, b, cs, n_Sent - Len(n_op.chunks), n_op.chunks, n_bufs[1 - n_fill])
      /\ n_Types(sizes, b, R) /\ n_ReceiverOK(sizes, b, r)
    BY <1>2 DEF n_Inv, n_SenderOK
<1>4. n_Sent' = n_Sent
    BY <1>2 DEF n_Sent
<1>5. /\ n_fill \in 0 .. 1 /\ 1 - n_fill \in 0 .. 1 /\ n_read[r] \in 0 .. 1
      /\ 1 - n_read[r] \in 0 .. 1 /\ 1 - n_read[r] # n_read[r]
    <2>1. n_fill \in 0 .. 1 /\ n_read[r] \in 0 .. 1
        BY <1>3 DEF n_Types
    <2> QED BY <2>1
<1>6. /\ n_rbufs'[r][1 - n_read[r]] = n_bufs[1 - n_fill]
      /\ n_rbufs'[r][n_read[r]] = n_rbufs[r][n_read[r]]
      /\ \A s \in R \ {r} : n_rbufs'[s] = n_rbufs[s]
      /\ n_rbufs' \in [R -> [0 .. 1 -> BufferOf(sizes, b)]]
    <2>1. n_rbufs \in [R -> [0 .. 1 -> BufferOf(sizes, b)]] /\ n_bufs[1 - n_fill] \in BufferOf(sizes, b)
        BY <1>3, <1>5 DEF n_Types
    <2>2. n_rbufs' = [n_rbufs EXCEPT ![r] = [n_rbufs[r] EXCEPT ![1 - n_read[r]] = n_bufs[1 - n_fill]]]
        BY <1>2, <1>3
    <2> QED BY <1>5, <2>1, <2>2
<1>7. /\ n_arrived'[r] = [chunks |-> n_op.chunks, last |-> n_op.last] /\ n_posted'[r] = FALSE
      /\ \A s \in R \ {r} : n_arrived'[s] = n_arrived[s] /\ n_posted'[s] = n_posted[s]
      /\ n_arrived' \in [R -> [chunks : Seq(EntryOf(sizes, b)), last : BOOLEAN]]
      /\ n_posted' \in [R -> BOOLEAN]
    <2>1. n_op.chunks \in Seq(EntryOf(sizes, b))
        BY <1>3 DEF Package
    <2> QED BY <1>2, <1>3, <2>1 DEF n_Types
<1>8. n_Types(sizes, b, R)'
    BY <1>2, <1>3, <1>6, <1>7 DEF n_Types
<1>9. n_SenderOK(sizes, b, R)'
    BY <1>2, <1>4 DEF n_SenderOK, n_Inv
<1>10. n_ReceiverOK(sizes, b, r)'
    <2>1. n_Told(r)' = n_Sent /\ n_Taken(r) = n_Sent - Len(n_op.chunks)
        BY <1>2, <1>4 DEF n_Told, n_Taken, n_Fresh
    <2>2. n_Fresh(r)'
        BY <1>2, <1>3, <1>7 DEF n_Fresh, n_ReceiverOK
    <2>3. n_Taken(r)' = n_Sent - Len(n_op.chunks)
        BY <1>7, <2>1, <2>2 DEF n_Taken
    <2>4. n_Yielded(r)' = n_Yielded(r)
        BY <1>2, <2>1, <2>3 DEF n_Yielded
    <2>5. Package(sizes, b, cs, n_Sent - Len(n_op.chunks), n_arrived'[r].chunks, n_rbufs'[r][1 - n_read[r]])
        BY <1>3, <1>6, <1>7
    <2>6. ~n_posted'[r]
        BY <1>7
    <2>7. Handing(sizes, b, cs, n_Yielded(r), n_todo[r], n_reads[r], n_read[r],
                  n_rbufs[r][n_read[r]], n_merge[r])
        BY <1>3 DEF n_ReceiverOK
    <2>8. Handing(sizes, b, cs, n_Yielded(r)', n_todo'[r], n_reads'[r], n_read'[r],
                  n_rbufs'[r][n_read'[r]], n_merge'[r])
        BY <1>2, <1>6, <2>4, <2>7
    <2>9. Package(sizes, b, cs, n_Taken(r)', n_arrived'[r].chunks, n_rbufs'[r][1 - n_read'[r]])
        BY <1>2, <2>3, <2>5
    <2> QED BY <2>6, <2>8, <2>9 DEF n_ReceiverOK
<1>11. \A s \in R : n_ReceiverOK(sizes, b, s)'
    <2>1. \A s \in R \ {r} : UNCHANGED n_OfReceiver(s)
        BY <1>2, <1>6, <1>7 DEF n_OfReceiver
    <2> QED BY <1>2, <1>4, <1>10, <2>1, n_OthersStay
<1> QED BY <1>6, <1>8, <1>9, <1>11 DEF n_Inv

LEMMA n_TakenIsNumber ==
    ASSUME NEW sizes, NEW b, NEW R, n_Inv(sizes, b, R), NEW r \in R
    PROVE  n_Taken(r) \in Nat
<1>1. CASE n_Fresh(r)
    BY <1>1 DEF n_Inv, n_ReceiverOK, Package
<1>2. CASE ~n_Fresh(r) /\ r \in n_reached
    BY <1>2 DEF n_Inv, n_SenderOK, Filling, n_Taken, n_Told
<1>3. CASE ~n_Fresh(r) /\ r \notin n_reached
    <2>1. n_op # << >>
        BY <1>3 DEF n_Inv, n_SenderOK
    <2> QED BY <1>3, <2>1 DEF n_Inv, n_SenderOK, Package, n_Taken, n_Told
<1> QED BY <1>1, <1>2, <1>3

LEMMA n_NextBucketStep ==
    ASSUME NEW sizes \in Lengths, Len(sizes) > 0, NEW b \in Nat \ {0}, NEW R, NEW r \in R,
           n_Inv(sizes, b, R), NcclOf(sizes, b, R)!NextBucket(r)
    PROVE  n_Inv(sizes, b, R)'
<1> DEFINE cs == Cut(sizes, b)!Chunks
<1>2. /\ n_todo[r] = << >> /\ ~n_posted[r] /\ ~n_bucket[r].last /\ n_reads[r] = << >>
      /\ n_bucket' = [n_bucket EXCEPT ![r] = n_arrived[r]]
      /\ n_todo' = [n_todo EXCEPT ![r] = n_arrived[r].chunks]
      /\ n_read' = [n_read EXCEPT ![r] = 1 - n_read[r]]
      /\ n_posted' = [n_posted EXCEPT ![r] = ~n_arrived[r].last]
      /\ n_pc' = [n_pc EXCEPT ![r] = "yield"]
      /\ UNCHANGED <<n_next, n_fill, n_bufs, n_meta, n_offset, n_writes, n_op, n_reached,
                     n_rbufs, n_arrived, n_reads, n_merge>>
    BY Zenon DEF NcclOf!NextBucket, NcclOf!sender
<1>3. /\ n_Types(sizes, b, R) /\ n_Fresh(r)
      /\ Package(sizes, b, cs, n_Taken(r), n_arrived[r].chunks, n_rbufs[r][1 - n_read[r]])
      /\ Handing(sizes, b, cs, n_Yielded(r), << >>, << >>, n_read[r], n_rbufs[r][n_read[r]], n_merge[r])
    BY <1>2 DEF n_Inv, n_ReceiverOK, n_Fresh
<1> HIDE DEF cs
<1>4. n_merge[r] = Progress(sizes, cs, n_Yielded(r)) /\ n_Yielded(r) \in Nat
    BY <1>3, HandedOver
<1>5. n_Taken(r) \in Nat /\ n_Yielded(r) = n_Taken(r) /\ n_Taken(r) = n_Told(r) - Len(n_arrived[r].chunks)
      /\ Len(n_arrived[r].chunks) \in Nat
    <2>1. n_Taken(r) \in Nat /\ Len(n_todo[r]) = 0 /\ Len(n_arrived[r].chunks) \in Nat
        BY <1>2, <1>3 DEF Package
    <2>2. n_Taken(r) = n_Told(r) - Len(n_arrived[r].chunks)
        BY <1>3 DEF n_Taken
    <2> QED BY <2>1, <2>2 DEF n_Yielded
<1>6. n_read[r] \in 0 .. 1 /\ 1 - n_read[r] \in 0 .. 1 /\ 1 - (1 - n_read[r]) = n_read[r]
    <2>1. n_read[r] \in 0 .. 1
        BY <1>3 DEF n_Types
    <2> QED BY <2>1
<1>7. Handing(sizes, b, cs, n_Taken(r), n_arrived[r].chunks, << >>, 1 - n_read[r],
              n_rbufs[r][1 - n_read[r]], n_merge[r])
    BY <1>3, <1>4, <1>5, <1>6, HandingBegins
<1>8. /\ n_bucket'[r] = n_arrived[r] /\ n_todo'[r] = n_arrived[r].chunks /\ n_read'[r] = 1 - n_read[r]
      /\ n_posted'[r] = ~n_arrived[r].last
      /\ \A s \in R \ {r} : /\ n_bucket'[s] = n_bucket[s] /\ n_todo'[s] = n_todo[s]
                            /\ n_read'[s] = n_read[s] /\ n_posted'[s] = n_posted[s]
    BY <1>2, <1>3 DEF n_Types
<1>9. n_Types(sizes, b, R)'
    BY <1>2, <1>3, <1>6 DEF n_Types
<1>10. n_Sent' = n_Sent
    BY <1>2 DEF n_Sent
<1>11. n_SenderOK(sizes, b, R)'
    BY <1>2, <1>10 DEF n_SenderOK, n_Inv
<1>12. n_ReceiverOK(sizes, b, r)'
    <2>1. n_Told(r)' = n_Told(r) /\ ~n_Fresh(r)'
        BY <1>2, <1>8, <1>10 DEF n_Told, n_Fresh
    <2>2. n_Taken(r)' = n_Told(r)
        BY <2>1 DEF n_Taken
    <2>3. n_Yielded(r)' = n_Taken(r)
        <3>1. n_Yielded(r)' = n_Told(r) - Len(n_arrived[r].chunks)
            BY <1>8, <2>2 DEF n_Yielded
        <3> QED BY <1>5, <3>1
    <2>4. n_posted'[r] => ~n_bucket'[r].last
        BY <1>8
    <2>5. Handing(sizes, b, cs, n_Yielded(r)', n_todo'[r], n_reads'[r], n_read'[r],
                  n_rbufs'[r][n_read'[r]], n_merge'[r])
        BY <1>2, <1>7, <1>8, <2>3
    <2> QED BY <2>1, <2>4, <2>5 DEF n_ReceiverOK, cs
<1>13. \A s \in R : n_ReceiverOK(sizes, b, s)'
    <2>1. \A s \in R \ {r} : UNCHANGED n_OfReceiver(s)
        BY <1>2, <1>8 DEF n_OfReceiver
    <2> QED BY <1>2, <1>10, <1>12, <2>1, n_OthersStay
<1> QED BY <1>9, <1>11, <1>13 DEF n_Inv

LEMMA n_YieldStep ==
    ASSUME NEW sizes \in Lengths, Len(sizes) > 0, NEW b \in Nat \ {0}, NEW R, NEW r \in R,
           n_Inv(sizes, b, R), NcclOf(sizes, b, R)!Yield(r)
    PROVE  n_Inv(sizes, b, R)'
<1> DEFINE cs == Cut(sizes, b)!Chunks
           e == [buf |-> n_read[r], entry |-> Head(n_todo[r])]
<1>2. /\ n_todo[r] # << >>
      /\ n_reads' = [n_reads EXCEPT ![r] = Append(n_reads[r], e)]
      /\ n_todo' = [n_todo EXCEPT ![r] = Tail(n_todo[r])]
      /\ UNCHANGED <<n_next, n_fill, n_bufs, n_meta, n_offset, n_writes, n_op, n_reached, n_pc,
                     n_read, n_rbufs, n_posted, n_arrived, n_bucket, n_merge>>
    BY Zenon DEF NcclOf!Yield, NcclOf!sender
<1>3. /\ n_Types(sizes, b, R)
      /\ Handing(sizes, b, cs, n_Yielded(r), n_todo[r], n_reads[r], n_read[r], n_rbufs[r][n_read[r]], n_merge[r])
      /\ n_ReceiverOK(sizes, b, r)
    BY <1>2 DEF n_Inv, n_ReceiverOK
<1> HIDE DEF cs
<1>4. /\ Handing(sizes, b, cs, n_Yielded(r) + 1, Tail(n_todo[r]), Append(n_reads[r], e), n_read[r],
                 n_rbufs[r][n_read[r]], n_merge[r])
      /\ Len(Tail(n_todo[r])) = Len(n_todo[r]) - 1
    BY <1>2, <1>3, YieldingGoesOn
<1> HIDE DEF e
<1>5. Tail(n_todo[r]) \in Seq(EntryOf(sizes, b)) /\ Append(n_reads[r], e) \in Seq(CopyOutOf(sizes, b))
    BY <1>4 DEF Handing, Package
<1>6. /\ n_todo'[r] = Tail(n_todo[r]) /\ n_reads'[r] = Append(n_reads[r], e)
      /\ \A s \in R \ {r} : n_todo'[s] = n_todo[s] /\ n_reads'[s] = n_reads[s]
    BY <1>2, <1>3 DEF n_Types
<1>7. n_Types(sizes, b, R)'
    BY <1>2, <1>3, <1>5 DEF n_Types
<1>8. n_Sent' = n_Sent
    BY <1>2 DEF n_Sent
<1>9. n_SenderOK(sizes, b, R)'
    BY <1>2, <1>8 DEF n_SenderOK, n_Inv
<1>10. n_ReceiverOK(sizes, b, r)'
    <2>1. n_Told(r)' = n_Told(r) /\ (n_Fresh(r)' <=> n_Fresh(r))
        BY <1>2, <1>8 DEF n_Told, n_Fresh
    <2>2. n_Taken(r)' = n_Taken(r)
        BY <1>2, <2>1 DEF n_Taken
    <2>3. n_Yielded(r)' = n_Yielded(r) + 1
        <3>1. n_Yielded(r) \in Nat /\ Len(n_todo[r]) \in Nat
            BY <1>3 DEF Handing, Package
        <3>2. n_Yielded(r)' = n_Taken(r) - Len(Tail(n_todo[r]))
            BY <1>6, <2>2 DEF n_Yielded
        <3>3. n_Yielded(r) = n_Taken(r) - Len(n_todo[r])
            BY DEF n_Yielded
        <3>4. n_Taken(r) \in Nat
            BY n_TakenIsNumber
        <3> QED BY <1>4, <3>1, <3>2, <3>3, <3>4
    <2>4. Handing(sizes, b, cs, n_Yielded(r)', n_todo'[r], n_reads'[r], n_read'[r],
                  n_rbufs'[r][n_read'[r]], n_merge'[r])
        BY <1>2, <1>4, <1>6, <2>3
    <2> QED BY <1>2, <1>3, <2>1, <2>2, <2>4, Zenon DEF n_ReceiverOK, cs
<1>11. \A s \in R : n_ReceiverOK(sizes, b, s)'
    <2>1. \A s \in R \ {r} : UNCHANGED n_OfReceiver(s)
        BY <1>2, <1>6 DEF n_OfReceiver
    <2> QED BY <1>2, <1>8, <1>10, <2>1, n_OthersStay
<1> QED BY <1>7, <1>9, <1>11 DEF n_Inv

LEMMA n_ReadStep ==
    ASSUME NEW sizes \in Lengths, Len(sizes) > 0, NEW b \in Nat \ {0}, NEW R, NEW r \in R,
           n_Inv(sizes, b, R), NcclOf(sizes, b, R)!ReadRuns(r)
    PROVE  /\ n_Inv(sizes, b, R)'
           /\ \/ n_merge'[r].yielded = n_merge[r].yielded
              \/ \E w \in Nat : /\ w < Len(sizes) /\ n_merge[r].yielded = Wholes(sizes, w)
                                /\ n_merge'[r].yielded = Wholes(sizes, w + 1)
           /\ \A s \in R \ {r} : n_merge'[s] = n_merge[s]
<1> DEFINE cs == Cut(sizes, b)!Chunks
           e == Head(n_reads[r]).entry
           after == Cut(sizes, b)!Merged(n_merge[r], e.chunk,
                        Cut(sizes, b)!Stretch(n_rbufs[r][n_read[r]], e.offset, e.chunk.size))
<1>1. RunsFromTo(sizes, b, cs, 1, Len(sizes))
    BY ChunksRun
<1>2. /\ n_reads[r] # << >>
      /\ n_merge' = [n_merge EXCEPT ![r] =
            NcclOf(sizes, b, R)!Merged(n_merge[r], e.chunk,
                NcclOf(sizes, b, R)!Stretch(n_rbufs[r][Head(n_reads[r]).buf], e.offset, e.chunk.size))]
      /\ n_reads' = [n_reads EXCEPT ![r] = Tail(n_reads[r])]
      /\ UNCHANGED <<n_next, n_fill, n_bufs, n_meta, n_offset, n_writes, n_op, n_reached, n_pc,
                     n_read, n_rbufs, n_posted, n_arrived, n_bucket, n_todo>>
    BY Zenon DEF NcclOf!ReadRuns, NcclOf!sender
<1>3. /\ n_Types(sizes, b, R)
      /\ Handing(sizes, b, cs, n_Yielded(r), n_todo[r], n_reads[r], n_read[r], n_rbufs[r][n_read[r]], n_merge[r])
      /\ n_ReceiverOK(sizes, b, r)
    BY <1>2 DEF n_Inv, n_ReceiverOK
<1> HIDE DEF cs
<1>4. /\ Head(n_reads[r]).buf = n_read[r]
      /\ Handing(sizes, b, cs, n_Yielded(r), n_todo[r], Tail(n_reads[r]), n_read[r],
                 n_rbufs[r][n_read[r]], after)
      /\ \/ after.yielded = n_merge[r].yielded
         \/ \E w \in Nat : /\ w < Len(sizes) /\ n_merge[r].yielded = Wholes(sizes, w)
                           /\ after.yielded = Wholes(sizes, w + 1)
    BY <1>1, <1>2, <1>3, ReadingGoesOn
<1> HIDE DEF e
<1>5. n_merge' = [n_merge EXCEPT ![r] = after]
    <2>1. /\ \A f, o, n : NcclOf(sizes, b, R)!Stretch(f, o, n) = Cut(sizes, b)!Stretch(f, o, n)
          /\ \A m, c, d : NcclOf(sizes, b, R)!Merged(m, c, d) = Cut(sizes, b)!Merged(m, c, d)
        BY NcclOperators
    <2>2. n_merge' = [n_merge EXCEPT ![r] = NcclOf(sizes, b, R)!Merged(n_merge[r], e.chunk,
                NcclOf(sizes, b, R)!Stretch(n_rbufs[r][n_read[r]], e.offset, e.chunk.size))]
        BY <1>2, <1>4
    <2> QED BY <2>1, <2>2
<1> HIDE DEF after
<1>6. /\ Tail(n_reads[r]) \in Seq(CopyOutOf(sizes, b))
      /\ after \in {Progress(sizes, cs, k) : k \in Nat}
    <2>1. /\ Tail(n_reads[r]) \in Seq(CopyOutOf(sizes, b)) /\ Len(Tail(n_reads[r])) <= n_Yielded(r)
          /\ n_Yielded(r) \in Nat /\ after = Progress(sizes, cs, n_Yielded(r) - Len(Tail(n_reads[r])))
        BY <1>4 DEF Handing, Package
    <2>2. n_Yielded(r) - Len(Tail(n_reads[r])) \in Nat
        BY <2>1
    <2> QED BY <2>1, <2>2
<1>7. /\ n_merge'[r] = after /\ n_reads'[r] = Tail(n_reads[r])
      /\ \A s \in R \ {r} : n_merge'[s] = n_merge[s] /\ n_reads'[s] = n_reads[s]
    BY <1>2, <1>3, <1>5 DEF n_Types
<1>8. n_Types(sizes, b, R)'
    <2>1. n_merge' \in [R -> {Progress(sizes, cs, k) : k \in Nat}]
        BY <1>3, <1>5, <1>6 DEF n_Types, cs
    <2>2. n_reads' \in [R -> Seq(CopyOutOf(sizes, b))]
        BY <1>2, <1>3, <1>6 DEF n_Types
    <2> QED BY <1>2, <1>3, <2>1, <2>2 DEF n_Types, cs
<1>9. n_Sent' = n_Sent
    BY <1>2 DEF n_Sent
<1>10. n_SenderOK(sizes, b, R)'
    BY <1>2, <1>9 DEF n_SenderOK, n_Inv
<1>11. n_ReceiverOK(sizes, b, r)'
    <2>1. n_Told(r)' = n_Told(r) /\ (n_Fresh(r)' <=> n_Fresh(r))
        BY <1>2, <1>9 DEF n_Told, n_Fresh
    <2>2. n_Taken(r)' = n_Taken(r)
        BY <1>2, <2>1 DEF n_Taken
    <2>3. n_Yielded(r)' = n_Yielded(r)
        BY <1>2, <2>2 DEF n_Yielded
    <2>4. Handing(sizes, b, cs, n_Yielded(r)', n_todo'[r], n_reads'[r], n_read'[r],
                  n_rbufs'[r][n_read'[r]], n_merge'[r])
        BY <1>2, <1>4, <1>7, <2>3
    <2> QED BY <1>2, <1>3, <2>1, <2>2, <2>4, Zenon DEF n_ReceiverOK, cs
<1>12. \A s \in R : n_ReceiverOK(sizes, b, s)'
    <2>1. \A s \in R \ {r} : UNCHANGED n_OfReceiver(s)
        BY <1>2, <1>7 DEF n_OfReceiver
    <2> QED BY <1>2, <1>9, <1>11, <2>1, n_OthersStay
<1> QED BY <1>4, <1>7, <1>8, <1>10, <1>12 DEF n_Inv

LEMMA n_FinishStep ==
    ASSUME NEW sizes, NEW b, NEW R, NEW r \in R,
           n_Inv(sizes, b, R), NcclOf(sizes, b, R)!Finish(r)
    PROVE  n_Inv(sizes, b, R)'
<1>2. /\ n_pc' = [n_pc EXCEPT ![r] = "done"]
      /\ UNCHANGED <<n_next, n_fill, n_bufs, n_meta, n_offset, n_writes, n_op, n_reached,
                     n_read, n_rbufs, n_posted, n_arrived, n_bucket, n_todo, n_reads, n_merge>>
    BY Zenon DEF NcclOf!Finish, NcclOf!sender
<1>8. n_Types(sizes, b, R)'
    BY <1>2 DEF n_Types, n_Inv
<1>9. n_Sent' = n_Sent
    BY <1>2 DEF n_Sent
<1>10. n_SenderOK(sizes, b, R)'
    BY <1>2, <1>9 DEF n_SenderOK, n_Inv
<1>12. ASSUME NEW s \in R PROVE n_ReceiverOK(sizes, b, s)'
    <2>1. UNCHANGED n_OfReceiver(s)
        BY <1>2 DEF n_OfReceiver
    <2>2. n_Told(s)' = n_Told(s)
        BY <1>2, <1>9 DEF n_Told
    <2> QED BY <2>1, <2>2, n_ReceiverStays DEF n_Inv
<1> QED BY <1>8, <1>10, <1>12 DEF n_Inv

LEMMA n_Stutter ==
    ASSUME NEW sizes, NEW b, NEW R, n_Inv(sizes, b, R), UNCHANGED ncclVars
    PROVE  n_Inv(sizes, b, R)'
<1>2. UNCHANGED <<n_next, n_fill, n_bufs, n_meta, n_offset, n_writes, n_op, n_reached, n_pc,
                  n_read, n_rbufs, n_posted, n_arrived, n_bucket, n_todo, n_reads, n_merge>>
    BY DEF ncclVars
<1>8. n_Types(sizes, b, R)'
    BY <1>2 DEF n_Types, n_Inv
<1>9. n_Sent' = n_Sent
    BY <1>2 DEF n_Sent
<1>10. n_SenderOK(sizes, b, R)'
    BY <1>2, <1>9 DEF n_SenderOK, n_Inv
<1>12. ASSUME NEW s \in R PROVE n_ReceiverOK(sizes, b, s)'
    <2>1. UNCHANGED n_OfReceiver(s)
        BY <1>2 DEF n_OfReceiver
    <2>2. n_Told(s)' = n_Told(s)
        BY <1>2, <1>9 DEF n_Told
    <2> QED BY <2>1, <2>2, n_ReceiverStays DEF n_Inv
<1> QED BY <1>8, <1>10, <1>12 DEF n_Inv

LEMMA n_InitInv ==
    ASSUME NEW sizes \in Lengths, Len(sizes) > 0, NEW b \in Nat \ {0}, NEW R, NcclOf(sizes, b, R)!Init
    PROVE  n_Inv(sizes, b, R)
<1> DEFINE cs == Cut(sizes, b)!Chunks
           empty == [i \in 0 .. b - 1 |-> NoByte]
           none == [name |-> 0, bytes |-> << >>, yielded |-> << >>, failed |-> FALSE]
<1>1. Len(cs) \in Nat
    BY ChunksRun DEF RunsFromTo
<1>2. /\ n_next = 1 /\ n_fill = 0 /\ n_bufs = [i \in 0 .. 1 |-> empty]
      /\ n_meta = << >> /\ n_offset = 0 /\ n_writes = << >> /\ n_op = << >> /\ n_reached = R
      /\ n_pc = [r \in R |-> "first"] /\ n_read = [r \in R |-> 0]
      /\ n_rbufs = [r \in R |-> [i \in 0 .. 1 |-> empty]]
      /\ n_posted = [r \in R |-> TRUE]
      /\ n_arrived = [r \in R |-> [chunks |-> << >>, last |-> FALSE]]
      /\ n_bucket = [r \in R |-> [chunks |-> << >>, last |-> FALSE]]
      /\ n_todo = [r \in R |-> << >>] /\ n_reads = [r \in R |-> << >>]
      /\ n_merge = [r \in R |-> none]
    BY Zenon DEF NcclOf!Init, NcclOf!Each, NcclOf!NoBucket, NcclOf!EmptyBuffer, NcclOf!NoMerge
<1>3. empty \in BufferOf(sizes, b)
    BY DEF BufferOf
<1>4. none = Progress(sizes, cs, 0)
    <2>1. Wholes(sizes, 0) = << >>
        BY WholesAppend
    <2> QED BY <2>1 DEF Progress
<1> HIDE DEF cs, empty, none
<1>5. n_Sent = 0
    <2>1. n_next = 1 /\ Len(n_meta) = 0
        BY <1>2
    <2> QED BY <2>1 DEF n_Sent
<1>6. n_Types(sizes, b, R)
    <2>1. none \in {Progress(sizes, cs, k) : k \in Nat}
        BY <1>4
    <2>2. << >> \in Seq(EntryOf(sizes, b)) /\ << >> \in Seq(CopyOutOf(sizes, b))
        OBVIOUS
    <2> QED BY <1>2, <1>3, <2>1, <2>2 DEF n_Types, cs
<1>7. n_SenderOK(sizes, b, R)
    <2>1. Filling(sizes, b, cs, 0, << >>, 0, << >>, 0, n_bufs[0])
        <3>1. 0 \in Nat /\ 0 <= Len(cs) /\ 0 \in 0 .. 1 /\ b \in Nat
            BY <1>1
        <3> QED BY <3>1, FillingBegins, Zenon
    <2> QED BY <1>2, <1>5, <2>1 DEF n_SenderOK, cs
<1>8. ASSUME NEW r \in R PROVE n_ReceiverOK(sizes, b, r)
    <2>1. n_Told(r) = 0
        BY <1>2, <1>5 DEF n_Told
    <2>2. /\ n_posted[r] /\ ~n_bucket[r].last /\ n_todo[r] = << >> /\ n_reads[r] = << >>
          /\ n_read[r] = 0 /\ n_merge[r] = none
        BY <1>2
    <2>3. ~n_Fresh(r) /\ n_Yielded(r) = 0
        BY <2>1, <2>2 DEF n_Fresh, n_Taken, n_Yielded
    <2>4. Handing(sizes, b, cs, 0, << >>, << >>, 0, n_rbufs[r][0], none)
        <3>1. Package(sizes, b, cs, 0, << >>, n_rbufs[r][0])
            BY <1>1, NothingPacked
        <3> QED BY <1>4, <3>1, HandingBegins
    <2> QED BY <2>2, <2>3, <2>4 DEF n_ReceiverOK, cs
<1> QED BY <1>6, <1>7, <1>8 DEF n_Inv

(* What a step may do to the buffers in use, and to what the receivers have *)
(* been given.                                                              *)
n_Respects(R) ==
    /\ n_reached # R => n_bufs'[n_op.buf] = n_bufs[n_op.buf]
    /\ \A r \in R : \A i \in DOMAIN n_reads[r] :
          n_rbufs'[r][n_reads[r][i].buf] = n_rbufs[r][n_reads[r][i].buf]
n_GivesOne(sizes, R, r) ==
    /\ \E w \in Nat : /\ w < Len(sizes) /\ n_merge[r].yielded = Wholes(sizes, w)
                      /\ n_merge'[r].yielded = Wholes(sizes, w + 1)
    /\ \A s \in R \ {r} : n_merge'[s] = n_merge[s]
n_Gives(sizes, R) ==
    \/ \A r \in R : n_merge'[r].yielded = n_merge[r].yielded
    \/ \E r \in R : n_GivesOne(sizes, R, r)

LEMMA n_ReadsOfTheBucket ==
    ASSUME NEW sizes, NEW b, NEW R, n_Inv(sizes, b, R), NEW r \in R, NEW i \in DOMAIN n_reads[r]
    PROVE  n_reads[r][i].buf = n_read[r] /\ n_read[r] \in 0 .. 1
<1>1. /\ CopiedOut(Cut(sizes, b)!Chunks, n_Yielded(r) - Len(n_reads[r]), n_reads[r], n_read[r], b,
                   n_rbufs[r][n_read[r]])
      /\ n_reads[r] \in Seq(CopyOutOf(sizes, b)) /\ n_read[r] \in 0 .. 1
    BY DEF n_Inv, n_ReceiverOK, Handing
<1>2. i \in 1 .. Len(n_reads[r])
    BY <1>1
<1> QED BY <1>1, <1>2 DEF CopiedOut

LEMMA n_NothingWritten ==
    ASSUME NEW R, n_bufs' = n_bufs, n_rbufs' = n_rbufs
    PROVE  n_Respects(R)
BY DEF n_Respects

LEMMA n_Step ==
    ASSUME NEW sizes \in Lengths, Len(sizes) > 0, NEW b \in Nat \ {0}, NEW R,
           n_Inv(sizes, b, R), NcclOf(sizes, b, R)!Next
    PROVE  n_Inv(sizes, b, R)' /\ n_Respects(R) /\ n_Gives(sizes, R)
<1> USE DEF NcclOf!sender, NcclOf!receiver
<1>1. CASE NcclOf(sizes, b, R)!FillChunk
    <2>1. n_bufs' = n_bufs /\ n_rbufs' = n_rbufs /\ n_merge' = n_merge
        BY <1>1, Zenon DEF NcclOf!FillChunk
    <2> QED BY <1>1, <2>1, n_FillStep, n_NothingWritten DEF n_Gives
<1>2. CASE NcclOf(sizes, b, R)!WriteRuns
    <2>1. n_rbufs' = n_rbufs /\ n_merge' = n_merge
        BY <1>2, Zenon DEF NcclOf!WriteRuns
    <2>2. n_Inv(sizes, b, R)' /\ (n_op # << >> => n_bufs'[n_op.buf] = n_bufs[n_op.buf])
        BY <1>2, n_WriteStep
    <2>3. n_reached # R => n_op # << >>
        BY DEF n_Inv, n_SenderOK
    <2>4. n_Respects(R)
        BY <2>1, <2>2, <2>3 DEF n_Respects
    <2> QED BY <2>1, <2>2, <2>4 DEF n_Gives
<1>3. CASE NcclOf(sizes, b, R)!BroadcastFull \/ NcclOf(sizes, b, R)!BroadcastLast
    <2>1. PICK last \in BOOLEAN : NcclOf(sizes, b, R)!Broadcast(last)
        BY <1>3, Zenon DEF NcclOf!BroadcastFull, NcclOf!BroadcastLast
    <2>2. n_bufs' = n_bufs /\ n_rbufs' = n_rbufs /\ n_merge' = n_merge
        BY <2>1, Zenon DEF NcclOf!Broadcast
    <2> QED BY <2>1, <2>2, n_BroadcastStep, n_NothingWritten DEF n_Gives
<1>4. ASSUME NEW r \in R, NcclOf(sizes, b, R)!Receive(r)
      PROVE  n_Inv(sizes, b, R)' /\ n_Respects(R) /\ n_Gives(sizes, R)
    <2>1. n_bufs' = n_bufs /\ n_merge' = n_merge
        BY <1>4, Zenon DEF NcclOf!Receive
    <2>2. n_Inv(sizes, b, R)' /\ n_rbufs'[r][n_read[r]] = n_rbufs[r][n_read[r]]
          /\ \A s \in R \ {r} : n_rbufs'[s] = n_rbufs[s]
        BY <1>4, n_ReceiveStep
    <2>3. ASSUME NEW s \in R, NEW i \in DOMAIN n_reads[s]
          PROVE  n_rbufs'[s][n_reads[s][i].buf] = n_rbufs[s][n_reads[s][i].buf]
        <3>1. n_reads[s][i].buf = n_read[s]
            BY n_ReadsOfTheBucket
        <3>2. n_rbufs'[s][n_read[s]] = n_rbufs[s][n_read[s]]
            BY <2>2
        <3> QED BY <3>1, <3>2
    <2> QED BY <2>1, <2>2, <2>3 DEF n_Respects, n_Gives
<1>5. ASSUME NEW r \in R, NcclOf(sizes, b, R)!NextBucket(r)
      PROVE  n_Inv(sizes, b, R)' /\ n_Respects(R) /\ n_Gives(sizes, R)
    <2>1. n_bufs' = n_bufs /\ n_rbufs' = n_rbufs /\ n_merge' = n_merge
        BY <1>5, Zenon DEF NcclOf!NextBucket
    <2> QED BY <1>5, <2>1, n_NextBucketStep, n_NothingWritten DEF n_Gives
<1>6. ASSUME NEW r \in R, NcclOf(sizes, b, R)!Yield(r)
      PROVE  n_Inv(sizes, b, R)' /\ n_Respects(R) /\ n_Gives(sizes, R)
    <2>1. n_bufs' = n_bufs /\ n_rbufs' = n_rbufs /\ n_merge' = n_merge
        BY <1>6, Zenon DEF NcclOf!Yield
    <2> QED BY <1>6, <2>1, n_YieldStep, n_NothingWritten DEF n_Gives
<1>7. ASSUME NEW r \in R, NcclOf(sizes, b, R)!ReadRuns(r)
      PROVE  n_Inv(sizes, b, R)' /\ n_Respects(R) /\ n_Gives(sizes, R)
    <2>1. n_bufs' = n_bufs /\ n_rbufs' = n_rbufs
        BY <1>7, Zenon DEF NcclOf!ReadRuns
    <2>2. /\ n_Inv(sizes, b, R)'
          /\ \/ n_merge'[r].yielded = n_merge[r].yielded
             \/ \E w \in Nat : /\ w < Len(sizes) /\ n_merge[r].yielded = Wholes(sizes, w)
                               /\ n_merge'[r].yielded = Wholes(sizes, w + 1)
          /\ \A s \in R \ {r} : n_merge'[s] = n_merge[s]
        BY <1>7, n_ReadStep
    <2>3. n_Gives(sizes, R)
        <3>1. CASE n_merge'[r].yielded = n_merge[r].yielded
            BY <2>2, <3>1 DEF n_Gives
        <3>2. CASE n_merge'[r].yielded # n_merge[r].yielded
            <4>1. n_GivesOne(sizes, R, r)
                BY <2>2, <3>2, Zenon DEF n_GivesOne
            <4> QED BY <4>1 DEF n_Gives
        <3> QED BY <3>1, <3>2
    <2> QED BY <2>1, <2>2, <2>3, n_NothingWritten
<1>8. ASSUME NEW r \in R, NcclOf(sizes, b, R)!Finish(r)
      PROVE  n_Inv(sizes, b, R)' /\ n_Respects(R) /\ n_Gives(sizes, R)
    <2>1. n_bufs' = n_bufs /\ n_rbufs' = n_rbufs /\ n_merge' = n_merge
        BY <1>8, Zenon DEF NcclOf!Finish
    <2> QED BY <1>8, <2>1, n_FinishStep, n_NothingWritten DEF n_Gives
<1> QED BY <1>1, <1>2, <1>3, <1>4, <1>5, <1>6, <1>7, <1>8, Zenon
        DEF NcclOf!Next, NcclOf!Sender, NcclOf!Receiver

(* The bytes, chunks, buffers and entries of the model are those above.     *)
LEMMA NcclSets ==
    ASSUME NEW sizes \in Lengths, NEW b \in Nat \ {0}, NEW R
    PROVE  /\ NcclOf(sizes, b, R)!Buffer = BufferOf(sizes, b)
           /\ EntryOf(sizes, b) \subseteq NcclOf(sizes, b, R)!Entry
<1>1. NcclOf(sizes, b, R)!Buffer = BufferOf(sizes, b)
    BY Zenon DEF NcclOf!Buffer, NcclOf!AllBytes, NcclOf!Weights, BufferOf, BytesOfAll
<1>2. DOMAIN sizes = 1 .. Len(sizes)
    BY DEF Lengths
<1>3. EntryOf(sizes, b) \subseteq [chunk : [name : DOMAIN sizes, from : Nat, size : Nat], offset : 0 .. b - 1]
    BY <1>2 DEF EntryOf, ChunkOf
<1>4. NcclOf(sizes, b, R)!Entry = [chunk : [name : DOMAIN sizes, from : Nat, size : Nat], offset : 0 .. b - 1]
    BY Zenon DEF NcclOf!Entry, NcclOf!Chunk, NcclOf!Weights
<1> QED BY <1>1, <1>3, <1>4

LEMMA ProgressIsSound ==
    ASSUME NEW sizes, NEW cs, NEW k
    PROVE  Progress(sizes, cs, k).failed = FALSE
BY DEF Progress

LEMMA n_InvImplies ==
    ASSUME NEW sizes \in Lengths, Len(sizes) > 0, NEW b \in Nat \ {0}, NEW R, n_Inv(sizes, b, R)
    PROVE  NcclOf(sizes, b, R)!TypeOK /\ NcclOf(sizes, b, R)!AssertionsHold
<1> DEFINE cs == Cut(sizes, b)!Chunks
           E == NcclOf(sizes, b, R)!Entry
<1>1. /\ Filling(sizes, b, cs, n_Sent, n_meta, n_offset, n_writes, n_fill, n_bufs[n_fill])
      /\ n_Types(sizes, b, R)
    BY DEF n_Inv, n_SenderOK
<1>2. Len(cs) \in Nat
    BY ChunksRun DEF RunsFromTo
<1>3. NcclOf(sizes, b, R)!Chunks = cs
    BY NcclOperators
<1>4. \A es : es \in Seq(EntryOf(sizes, b)) => es \in Seq(E)
    <2> HIDE DEF E
    <2> SUFFICES ASSUME NEW es \in Seq(EntryOf(sizes, b)) PROVE es \in Seq(E)
        OBVIOUS
    <2>1. EntryOf(sizes, b) \subseteq E
        BY NcclSets DEF E
    <2>2. \A i \in 1 .. Len(es) : es[i] \in E
        BY <2>1, ElementOfSeq
    <2> QED BY <2>2
<1> HIDE DEF cs
<1>5. n_next \in 1 .. Len(cs) + 1
    <2>1. n_Sent \in Nat /\ Len(n_meta) \in Nat /\ n_Sent + Len(n_meta) <= Len(cs) /\ n_next \in Nat
        BY <1>1 DEF Filling, n_Types
    <2>2. n_next = n_Sent + Len(n_meta) + 1
        BY <2>1 DEF n_Sent
    <2> QED BY <1>2, <2>1, <2>2
<1>6. n_meta \in Seq(E) /\ n_offset \in 0 .. b /\ \A r \in R : n_todo[r] \in Seq(E)
    <2>1. n_meta \in Seq(EntryOf(sizes, b)) /\ n_offset \in 0 .. b
        BY <1>1 DEF Filling
    <2>2. \A r \in R : n_todo[r] \in Seq(EntryOf(sizes, b))
        BY <1>1 DEF n_Types
    <2> HIDE DEF E
    <2> QED BY <1>4, <2>1, <2>2
<1>7. \A i \in DOMAIN n_writes : n_writes[i].buf \in 0 .. 1
    <2>1. n_writes \in Seq(CopyInOf(sizes, b))
        BY <1>1 DEF Filling
    <2> SUFFICES ASSUME NEW i \in DOMAIN n_writes PROVE n_writes[i].buf \in 0 .. 1
        OBVIOUS
    <2>2. n_writes[i] \in CopyInOf(sizes, b)
        BY <2>1
    <2> QED BY <2>2 DEF CopyInOf
<1>8. /\ n_fill \in 0 .. 1 /\ n_bufs \in [0 .. 1 -> BufferOf(sizes, b)] /\ n_reached \subseteq R
      /\ n_pc \in [R -> {"first", "yield", "done"}] /\ n_read \in [R -> 0 .. 1]
      /\ n_rbufs \in [R -> [0 .. 1 -> BufferOf(sizes, b)]] /\ n_posted \in [R -> BOOLEAN]
    BY <1>1 DEF n_Types
<1>9. NcclOf(sizes, b, R)!Buffer = BufferOf(sizes, b)
    BY NcclSets
<1> HIDE DEF E
<1>10. NcclOf(sizes, b, R)!TypeOK
    BY <1>3, <1>5, <1>6, <1>7, <1>8, <1>9, Zenon DEF NcclOf!TypeOK, E
<1>11. ASSUME NEW i \in DOMAIN n_meta, NEW j \in DOMAIN n_meta, n_meta[i].chunk.name = n_meta[j].chunk.name
       PROVE  i = j
    <2>1. InLine(n_meta) /\ n_meta \in Seq(EntryOf(sizes, b))
        BY <1>1 DEF Filling
    <2>2. i \in 1 .. Len(n_meta) /\ j \in 1 .. Len(n_meta) /\ Len(n_meta) \in Nat
        BY <2>1
    <2>3. n_meta[i].chunk.name \in Int /\ n_meta[j].chunk.name \in Int
        <3>1. n_meta[i] \in EntryOf(sizes, b) /\ n_meta[j] \in EntryOf(sizes, b)
            BY <2>1, <2>2, ElementOfSeq
        <3> QED BY <3>1 DEF EntryOf, ChunkOf
    <2>4. /\ i < j => n_meta[i].chunk.name < n_meta[j].chunk.name
          /\ j < i => n_meta[j].chunk.name < n_meta[i].chunk.name
        BY <2>1, <2>2 DEF InLine
    <2> QED BY <1>11, <2>2, <2>3, <2>4
<1>12. ASSUME NEW r \in R PROVE ~n_merge[r].failed
    <2>1. \E k : n_merge[r] = Progress(sizes, cs, k)
        BY DEF n_Inv, n_ReceiverOK, Handing, cs
    <2> QED BY <2>1, ProgressIsSound
<1> QED BY <1>10, <1>11, <1>12, Zenon DEF NcclOf!AssertionsHold
-----------------------------------------------------------------------------
TheSizes == <<1, 1, 3, 1, 2>>
Workers  == {r1, r2}

LEMMA TheSizesAreLengths == TheSizes \in Lengths /\ Len(TheSizes) > 0
BY DEF TheSizes, Lengths

LEMMA NcclChunks == Nccl!Chunks = NcclOf(TheSizes, 2, Workers)!Chunks
BY Zenon DEF Nccl!Chunks, Nccl!ChunksOf, Nccl!Lesser, NcclOf!Chunks, NcclOf!ChunksOf, NcclOf!Lesser, TheSizes

LEMMA NcclInit == Nccl!Init <=> NcclOf(TheSizes, 2, Workers)!Init
BY Zenon DEF Nccl!Init, Nccl!Each, Nccl!NoBucket, Nccl!EmptyBuffer, Nccl!NoMerge,
         NcclOf!Init, NcclOf!Each, NcclOf!NoBucket, NcclOf!EmptyBuffer, NcclOf!NoMerge, Workers

LEMMA NcclFill == Nccl!FillChunk <=> NcclOf(TheSizes, 2, Workers)!FillChunk
BY NcclChunks, Zenon DEF Nccl!FillChunk, Nccl!Fits, Nccl!receiver, NcclOf!FillChunk, NcclOf!Fits, NcclOf!receiver

LEMMA NcclWrite == Nccl!WriteRuns <=> NcclOf(TheSizes, 2, Workers)!WriteRuns
BY Zenon DEF Nccl!WriteRuns, Nccl!Written, Nccl!BytesOf, Nccl!Bytes, Nccl!BytesOfWeight, Nccl!receiver,
      NcclOf!WriteRuns, NcclOf!Written, NcclOf!BytesOf, NcclOf!Bytes, NcclOf!BytesOfWeight, NcclOf!receiver, TheSizes

LEMMA NcclBroadcast ==
    /\ Nccl!BroadcastFull <=> NcclOf(TheSizes, 2, Workers)!BroadcastFull
    /\ Nccl!BroadcastLast <=> NcclOf(TheSizes, 2, Workers)!BroadcastLast
BY NcclChunks, Zenon DEF Nccl!BroadcastFull, Nccl!BroadcastLast, Nccl!Broadcast, Nccl!Fits, Nccl!LastSent, Nccl!receiver,
      NcclOf!BroadcastFull, NcclOf!BroadcastLast, NcclOf!Broadcast, NcclOf!Fits, NcclOf!LastSent, NcclOf!receiver, Workers

LEMMA NcclReceiver ==
    ASSUME NEW r PROVE Nccl!Receiver(r) <=> NcclOf(TheSizes, 2, Workers)!Receiver(r)
<1> USE DEF Nccl!sender, NcclOf!sender
<1>1. Nccl!Receive(r) <=> NcclOf(TheSizes, 2, Workers)!Receive(r)
    BY Zenon DEF Nccl!Receive, NcclOf!Receive
<1>2. Nccl!NextBucket(r) <=> NcclOf(TheSizes, 2, Workers)!NextBucket(r)
    BY Zenon DEF Nccl!NextBucket, NcclOf!NextBucket
<1>3. Nccl!Yield(r) <=> NcclOf(TheSizes, 2, Workers)!Yield(r)
    BY Zenon DEF Nccl!Yield, NcclOf!Yield
<1>4. Nccl!ReadRuns(r) <=> NcclOf(TheSizes, 2, Workers)!ReadRuns(r)
    BY Zenon DEF Nccl!ReadRuns, Nccl!Merged, Nccl!NoMerge, Nccl!Stretch,
          NcclOf!ReadRuns, NcclOf!Merged, NcclOf!NoMerge, NcclOf!Stretch, TheSizes
<1>5. Nccl!Finish(r) <=> NcclOf(TheSizes, 2, Workers)!Finish(r)
    BY Zenon DEF Nccl!Finish, NcclOf!Finish
<1> QED BY <1>1, <1>2, <1>3, <1>4, <1>5, Zenon DEF Nccl!Receiver, NcclOf!Receiver

LEMMA NcclNext == Nccl!Next <=> NcclOf(TheSizes, 2, Workers)!Next
<1>1. \A r : Nccl!Receiver(r) <=> NcclOf(TheSizes, 2, Workers)!Receiver(r)
    BY NcclReceiver, Zenon
<1>2. Nccl!Sender <=> NcclOf(TheSizes, 2, Workers)!Sender
    BY NcclFill, NcclWrite, NcclBroadcast, Zenon DEF Nccl!Sender, NcclOf!Sender
<1> QED BY <1>1, <1>2, Zenon DEF Nccl!Next, NcclOf!Next, Workers

LEMMA NcclStates ==
    /\ NcclOf(TheSizes, 2, Workers)!TypeOK => Nccl!TypeOK
    /\ NcclOf(TheSizes, 2, Workers)!AssertionsHold => Nccl!AssertionsHold
<1>1. Nccl!Entry = NcclOf(TheSizes, 2, Workers)!Entry /\ Nccl!Buffer = NcclOf(TheSizes, 2, Workers)!Buffer
    BY Zenon DEF Nccl!Entry, Nccl!Chunk, Nccl!Weights, Nccl!Buffer, Nccl!AllBytes,
          NcclOf!Entry, NcclOf!Chunk, NcclOf!Weights, NcclOf!Buffer, NcclOf!AllBytes, TheSizes
<1>2. NcclOf(TheSizes, 2, Workers)!TypeOK => Nccl!TypeOK
    BY <1>1, NcclChunks, Zenon DEF Nccl!TypeOK, NcclOf!TypeOK, Workers
<1>3. NcclOf(TheSizes, 2, Workers)!AssertionsHold => Nccl!AssertionsHold
    BY Zenon DEF Nccl!AssertionsHold, NcclOf!AssertionsHold, Workers
<1> QED BY <1>2, <1>3
-----------------------------------------------------------------------------
(* The chain                                                                *)
NixlOf(sizes, bucketSize, last) == INSTANCE NixlTransfer WITH
    Sizes <- sizes, BucketSize <- bucketSize, LastRank <- last,
    next <- x_next, meta <- x_meta, offset <- x_offset, writes <- x_writes, held <- x_held,
    bufs <- x_bufs, offered <- x_offered, message <- x_message, notified <- x_notified,
    pc <- x_pc, reading <- x_reading, copied <- x_copied, bucket <- x_bucket, todo <- x_todo,
    reads <- x_reads, merge <- x_merge

LEMMA NixlOperators ==
    ASSUME NEW sizes, NEW b, NEW L
    PROVE  /\ NixlOf(sizes, b, L)!Chunks = Cut(sizes, b)!Chunks
           /\ \A c : NixlOf(sizes, b, L)!BytesOf(c) = Cut(sizes, b)!BytesOf(c)
           /\ \A f, o, d : NixlOf(sizes, b, L)!Written(f, o, d) = Cut(sizes, b)!Written(f, o, d)
           /\ \A f, o, n : NixlOf(sizes, b, L)!Stretch(f, o, n) = Cut(sizes, b)!Stretch(f, o, n)
           /\ \A m, c, d : NixlOf(sizes, b, L)!Merged(m, c, d) = Cut(sizes, b)!Merged(m, c, d)
<1>1. NixlOf(sizes, b, L)!Chunks = Cut(sizes, b)!Chunks
    BY Zenon DEF NixlOf!Chunks, NixlOf!ChunksOf, NixlOf!Lesser, Cut!Chunks, Cut!ChunksOf, Cut!Lesser
<1>2. \A c : NixlOf(sizes, b, L)!BytesOf(c) = Cut(sizes, b)!BytesOf(c)
    BY Zenon DEF NixlOf!BytesOf, NixlOf!Bytes, NixlOf!BytesOfWeight, Cut!BytesOf, Cut!Bytes, Cut!BytesOfWeight
<1>3. \A f, o, d : NixlOf(sizes, b, L)!Written(f, o, d) = Cut(sizes, b)!Written(f, o, d)
    BY Zenon DEF NixlOf!Written, Cut!Written
<1>4. \A f, o, n : NixlOf(sizes, b, L)!Stretch(f, o, n) = Cut(sizes, b)!Stretch(f, o, n)
    BY Zenon DEF NixlOf!Stretch, Cut!Stretch
<1>5. \A m, c, d : NixlOf(sizes, b, L)!Merged(m, c, d) = Cut(sizes, b)!Merged(m, c, d)
    BY Zenon DEF NixlOf!Merged, NixlOf!NoMerge, Cut!Merged, Cut!NoMerge
<1> QED BY <1>1, <1>2, <1>3, <1>4, <1>5

(* The bucket a node offers, the chunks in its message, and the chunks of   *)
(* the message a node is at work on.                                        *)
x_Sent       == x_next - 1 - Len(x_meta)
x_Offer(n)   == IF n = 0 THEN 1 - x_held[0] ELSE x_held[n]
x_MsgLen(n)  == IF x_message[n] = << >> THEN 0 ELSE Len(x_message[n].chunks)
x_ReadLen(r) == IF x_reading[r] = << >> THEN 0 ELSE Len(x_reading[r].chunks)

Message(sizes, b) == [buf : 0 .. 1, chunks : Seq(EntryOf(sizes, b)), last : BOOLEAN]

x_Types(sizes, b, L) ==
    /\ x_next \in Nat /\ x_held \in [0 .. L -> 0 .. 1]
    /\ x_bufs \in [0 .. L -> [0 .. 1 -> BufferOf(sizes, b)]]
    /\ x_offered \in [0 .. L -> BOOLEAN] /\ x_notified \in [0 .. L -> BOOLEAN]
    /\ x_message \in [0 .. L -> Message(sizes, b) \cup {<< >>}]
    /\ x_pc \in [1 .. L -> {"first", "yield", "done"}] /\ x_copied \in [1 .. L -> BOOLEAN]
    /\ x_reading \in [1 .. L -> Message(sizes, b) \cup {<< >>}]
    /\ x_bucket \in [1 .. L -> [chunks : Seq(EntryOf(sizes, b)), last : BOOLEAN]]
    /\ x_todo \in [1 .. L -> Seq(EntryOf(sizes, b))] /\ x_reads \in [1 .. L -> Seq(CopyOutOf(sizes, b))]
    /\ x_merge \in [1 .. L -> {Progress(sizes, Cut(sizes, b)!Chunks, k) : k \in Nat}]
    /\ \A n \in 0 .. L : x_notified[n] => x_offered[n]

(* Between a node and the next one.  The first p[n] chunks are in the       *)
(* buckets node n has offered so far; what node n + 1 lacks of them is in   *)
(* the message that waits for it and in the bucket it reads.                *)
x_LinkOK(sizes, b, p, n) ==
    /\ p[n + 1] + x_ReadLen(n + 1) + x_MsgLen(n) = p[n]
    /\ x_message[n] # << >> =>
          /\ x_offered[n] /\ ~x_notified[n] /\ x_message[n].buf = x_Offer(n)
          /\ Package(sizes, b, Cut(sizes, b)!Chunks, p[n + 1] + x_ReadLen(n + 1), x_message[n].chunks,
                     x_bufs[n][x_Offer(n)])
    /\ x_reading[n + 1] # << >> /\ ~x_copied[n + 1] =>
          /\ x_message[n] = << >> /\ x_offered[n] /\ ~x_notified[n]
          /\ x_reading[n + 1].buf = x_Offer(n)
          /\ Package(sizes, b, Cut(sizes, b)!Chunks, p[n + 1], x_reading[n + 1].chunks,
                     x_bufs[n][x_Offer(n)])
    /\ x_reading[n + 1] # << >> /\ x_copied[n + 1] =>
          Package(sizes, b, Cut(sizes, b)!Chunks, p[n + 1], x_reading[n + 1].chunks,
                  x_bufs[n + 1][1 - x_held[n + 1]])
    /\ x_offered[n] /\ ~x_notified[n] =>
          x_message[n] # << >> \/ (x_reading[n + 1] # << >> /\ ~x_copied[n + 1])

x_NodeOK(sizes, b, p, r) ==
    Handing(sizes, b, Cut(sizes, b)!Chunks, p[r] - Len(x_todo[r]), x_todo[r], x_reads[r], x_held[r],
            x_bufs[r][x_held[r]], x_merge[r])

x_At(sizes, b, L, p) ==
    /\ p \in [0 .. L -> Nat] /\ p[0] = x_Sent
    /\ Filling(sizes, b, Cut(sizes, b)!Chunks, x_Sent, x_meta, x_offset, x_writes, x_held[0],
               x_bufs[0][x_held[0]])
    /\ \A n \in 0 .. L - 1 : x_LinkOK(sizes, b, p, n)
    /\ \A r \in 1 .. L : x_NodeOK(sizes, b, p, r)

x_Inv(sizes, b, L) == x_Types(sizes, b, L) /\ \E p : x_At(sizes, b, L, p)

(* What a step leaves alone.                                                *)
x_OfLink(n) == <<x_message[n], x_reading[n + 1], x_copied[n + 1], x_offered[n], x_notified[n],
                 x_Offer(n), x_bufs[n][x_Offer(n)], x_held[n + 1], x_bufs[n + 1][1 - x_held[n + 1]]>>
x_OfNode(r) == <<x_todo[r], x_reads[r], x_held[r], x_bufs[r][x_held[r]], x_merge[r]>>

LEMMA x_LinkStays ==
    ASSUME NEW sizes, NEW b, NEW p, NEW q, NEW n, x_LinkOK(sizes, b, p, n), UNCHANGED x_OfLink(n),
           q[n] = p[n], q[n + 1] = p[n + 1]
    PROVE  x_LinkOK(sizes, b, q, n)'
<1>1. /\ x_message'[n] = x_message[n] /\ x_reading'[n + 1] = x_reading[n + 1]
      /\ x_copied'[n + 1] = x_copied[n + 1] /\ x_offered'[n] = x_offered[n]
      /\ x_notified'[n] = x_notified[n] /\ x_Offer(n)' = x_Offer(n)
      /\ x_bufs'[n][x_Offer(n)'] = x_bufs[n][x_Offer(n)]
      /\ x_held'[n + 1] = x_held[n + 1]
      /\ x_bufs'[n + 1][1 - x_held'[n + 1]] = x_bufs[n + 1][1 - x_held[n + 1]]
    BY DEF x_OfLink
<1>2. x_MsgLen(n)' = x_MsgLen(n) /\ x_ReadLen(n + 1)' = x_ReadLen(n + 1)
    BY <1>1 DEF x_MsgLen, x_ReadLen
<1>3. q[n + 1] + x_ReadLen(n + 1)' + x_MsgLen(n)' = q[n]
    BY <1>2 DEF x_LinkOK
<1>4. /\ x_message'[n] # << >> =>
            /\ x_offered'[n] /\ ~x_notified'[n] /\ x_message'[n].buf = x_Offer(n)'
            /\ Package(sizes, b, Cut(sizes, b)!Chunks, q[n + 1] + x_ReadLen(n + 1)', x_message'[n].chunks,
                       x_bufs'[n][x_Offer(n)'])
    BY <1>1, <1>2 DEF x_LinkOK
<1>5. x_reading'[n + 1] # << >> /\ ~x_copied'[n + 1] =>
          /\ x_message'[n] = << >> /\ x_offered'[n] /\ ~x_notified'[n]
          /\ x_reading'[n + 1].buf = x_Offer(n)'
          /\ Package(sizes, b, Cut(sizes, b)!Chunks, q[n + 1], x_reading'[n + 1].chunks,
                     x_bufs'[n][x_Offer(n)'])
    BY <1>1 DEF x_LinkOK
<1>6. x_reading'[n + 1] # << >> /\ x_copied'[n + 1] =>
          Package(sizes, b, Cut(sizes, b)!Chunks, q[n + 1], x_reading'[n + 1].chunks,
                  x_bufs'[n + 1][1 - x_held'[n + 1]])
    BY <1>1 DEF x_LinkOK
<1>7. x_offered'[n] /\ ~x_notified'[n] =>
          x_message'[n] # << >> \/ (x_reading'[n + 1] # << >> /\ ~x_copied'[n + 1])
    BY <1>1 DEF x_LinkOK
<1> QED BY <1>3, <1>4, <1>5, <1>6, <1>7 DEF x_LinkOK

LEMMA x_NodeStays ==
    ASSUME NEW sizes, NEW b, NEW p, NEW q, NEW r, x_NodeOK(sizes, b, p, r), UNCHANGED x_OfNode(r),
           q[r] = p[r]
    PROVE  x_NodeOK(sizes, b, q, r)'
<1>1. /\ x_todo'[r] = x_todo[r] /\ x_reads'[r] = x_reads[r] /\ x_held'[r] = x_held[r]
      /\ x_bufs'[r][x_held'[r]] = x_bufs[r][x_held[r]] /\ x_merge'[r] = x_merge[r]
    BY DEF x_OfNode
<1> QED BY <1>1 DEF x_NodeOK

LEMMA x_InitInv ==
    ASSUME NEW sizes \in Lengths, Len(sizes) > 0, NEW b \in Nat \ {0}, NEW L \in Nat \ {0},
           NixlOf(sizes, b, L)!Init
    PROVE  x_Inv(sizes, b, L)
<1> DEFINE cs == Cut(sizes, b)!Chunks
           empty == [i \in 0 .. b - 1 |-> NoByte]
           none == [name |-> 0, bytes |-> << >>, yielded |-> << >>, failed |-> FALSE]
           p == [n \in 0 .. L |-> 0]
<1>1. Len(cs) \in Nat
    BY ChunksRun DEF RunsFromTo
<1>2. /\ x_next = 1 /\ x_meta = << >> /\ x_offset = 0 /\ x_writes = << >>
      /\ x_held = [n \in 0 .. L |-> 0] /\ x_bufs = [n \in 0 .. L |-> [i \in 0 .. 1 |-> empty]]
      /\ x_offered = [n \in 0 .. L |-> FALSE] /\ x_message = [n \in 0 .. L |-> << >>]
      /\ x_notified = [n \in 0 .. L |-> FALSE]
      /\ x_pc = [r \in 1 .. L |-> "first"] /\ x_reading = [r \in 1 .. L |-> << >>]
      /\ x_copied = [r \in 1 .. L |-> FALSE]
      /\ x_bucket = [r \in 1 .. L |-> [chunks |-> << >>, last |-> FALSE]]
      /\ x_todo = [r \in 1 .. L |-> << >>] /\ x_reads = [r \in 1 .. L |-> << >>]
      /\ x_merge = [r \in 1 .. L |-> none]
    BY Zenon DEF NixlOf!Init, NixlOf!Each, NixlOf!NoBucket, NixlOf!EmptyBuffer, NixlOf!NoMerge,
          NixlOf!Ranks, NixlOf!Receivers
<1>3. empty \in BufferOf(sizes, b)
    BY DEF BufferOf
<1>4. none = Progress(sizes, cs, 0)
    <2>1. Wholes(sizes, 0) = << >>
        BY WholesAppend
    <2> QED BY <2>1 DEF Progress
<1> HIDE DEF cs, empty, none
<1>5. x_Sent = 0
    <2>1. x_next = 1 /\ Len(x_meta) = 0
        BY <1>2
    <2> QED BY <2>1 DEF x_Sent
<1>6. x_Types(sizes, b, L)
    <2>1. none \in {Progress(sizes, cs, k) : k \in Nat}
        BY <1>4
    <2>2. << >> \in Seq(EntryOf(sizes, b)) /\ << >> \in Seq(CopyOutOf(sizes, b))
        OBVIOUS
    <2>3. /\ x_next \in Nat /\ x_held \in [0 .. L -> 0 .. 1]
          /\ x_bufs \in [0 .. L -> [0 .. 1 -> BufferOf(sizes, b)]]
          /\ x_offered \in [0 .. L -> BOOLEAN] /\ x_notified \in [0 .. L -> BOOLEAN]
          /\ \A n \in 0 .. L : x_notified[n] => x_offered[n]
        BY <1>2, <1>3
    <2>4. /\ x_message \in [0 .. L -> Message(sizes, b) \cup {<< >>}]
          /\ x_pc \in [1 .. L -> {"first", "yield", "done"}] /\ x_copied \in [1 .. L -> BOOLEAN]
          /\ x_reading \in [1 .. L -> Message(sizes, b) \cup {<< >>}]
        BY <1>2
    <2>5. /\ x_bucket \in [1 .. L -> [chunks : Seq(EntryOf(sizes, b)), last : BOOLEAN]]
          /\ x_todo \in [1 .. L -> Seq(EntryOf(sizes, b))] /\ x_reads \in [1 .. L -> Seq(CopyOutOf(sizes, b))]
          /\ x_merge \in [1 .. L -> {Progress(sizes, cs, k) : k \in Nat}]
        BY <1>2, <2>1, <2>2
    <2> QED BY <2>3, <2>4, <2>5 DEF x_Types, cs
<1>7. p \in [0 .. L -> Nat] /\ \A n \in 0 .. L : p[n] = 0
    OBVIOUS
<1> HIDE DEF p
<1>8. Filling(sizes, b, cs, 0, << >>, 0, << >>, 0, x_bufs[0][0])
    <2>1. 0 \in Nat /\ 0 <= Len(cs) /\ 0 \in 0 .. 1 /\ b \in Nat
        BY <1>1
    <2> QED BY <2>1, FillingBegins, Zenon
<1>9. ASSUME NEW n \in 0 .. L - 1 PROVE x_LinkOK(sizes, b, p, n)
    <2>1. n \in 0 .. L /\ n + 1 \in 0 .. L /\ n + 1 \in 1 .. L
        OBVIOUS
    <2>2. x_message[n] = << >> /\ x_reading[n + 1] = << >> /\ x_offered[n] = FALSE
        BY <1>2, <2>1
    <2>3. x_MsgLen(n) = 0 /\ x_ReadLen(n + 1) = 0 /\ p[n] = 0 /\ p[n + 1] = 0
        BY <1>7, <2>1, <2>2 DEF x_MsgLen, x_ReadLen
    <2> QED BY <2>2, <2>3 DEF x_LinkOK
<1>10. ASSUME NEW r \in 1 .. L PROVE x_NodeOK(sizes, b, p, r)
    <2>1. r \in 0 .. L
        OBVIOUS
    <2>2. x_todo[r] = << >> /\ x_reads[r] = << >> /\ x_held[r] = 0 /\ x_merge[r] = none /\ p[r] = 0
        BY <1>2, <1>7, <2>1
    <2>3. Len(<< >>) = 0 /\ 0 - 0 = 0 /\ 0 \in 0 .. 1 /\ 0 \in Nat /\ 0 <= Len(cs) /\ b \in Nat
        BY <1>1
    <2>4. Package(sizes, b, cs, 0, << >>, x_bufs[r][0])
        BY <2>3, NothingPacked, Zenon
    <2>5. Handing(sizes, b, cs, 0, << >>, << >>, 0, x_bufs[r][0], none)
        BY <1>4, <2>3, <2>4, HandingBegins, Zenon
    <2>6. p[r] - Len(x_todo[r]) = 0
        BY <2>2, <2>3
    <2> QED BY <2>2, <2>5, <2>6 DEF x_NodeOK, cs
<1>11. x_At(sizes, b, L, p)
    <2>1. 0 \in 0 .. L
        OBVIOUS
    <2>2. p[0] = x_Sent /\ x_held[0] = 0
        BY <1>2, <1>5, <1>7, <2>1
    <2> QED BY <1>2, <1>5, <1>7, <1>8, <1>9, <1>10, <2>2 DEF x_At, cs
<1> QED BY <1>6, <1>11 DEF x_Inv

(* The sender's steps *)
LEMMA x_FillStep ==
    ASSUME NEW sizes \in Lengths, Len(sizes) > 0, NEW b \in Nat \ {0}, NEW L \in Nat \ {0},
           x_Inv(sizes, b, L), NixlOf(sizes, b, L)!FillChunk
    PROVE  x_Inv(sizes, b, L)'
<1> DEFINE cs == Cut(sizes, b)!Chunks
<1>1. RunsFromTo(sizes, b, cs, 1, Len(sizes))
    BY ChunksRun
<1>2. /\ x_next <= Len(cs) /\ x_offset + cs[x_next].size <= b
      /\ x_meta' = Append(x_meta, [chunk |-> cs[x_next], offset |-> x_offset])
      /\ x_writes' = Append(x_writes, [buf |-> x_held[0], offset |-> x_offset, chunk |-> cs[x_next]])
      /\ x_offset' = x_offset + cs[x_next].size /\ x_next' = x_next + 1
      /\ UNCHANGED <<x_held, x_bufs, x_offered, x_message, x_notified, x_pc, x_reading, x_copied,
                     x_bucket, x_todo, x_reads, x_merge>>
    <2>1. NixlOf(sizes, b, L)!Chunks = cs
        BY NixlOperators
    <2> QED BY <2>1, Zenon DEF NixlOf!FillChunk, NixlOf!Fits, NixlOf!offers, NixlOf!receiver
<1>3. PICK p : x_At(sizes, b, L, p)
    BY DEF x_Inv
<1>4. Filling(sizes, b, cs, x_Sent, x_meta, x_offset, x_writes, x_held[0], x_bufs[0][x_held[0]])
    BY <1>3 DEF x_At
<1>5. x_next \in Nat /\ x_Sent \in Nat /\ Len(x_meta) \in Nat /\ x_Sent + Len(x_meta) + 1 = x_next
    BY <1>4 DEF x_Inv, x_Types, x_Sent, Filling
<1> HIDE DEF cs
<1>6. /\ Filling(sizes, b, cs, x_Sent, x_meta', x_offset', x_writes', x_held[0], x_bufs[0][x_held[0]])
      /\ Len(x_meta') = Len(x_meta) + 1
    <2>1. x_Sent + Len(x_meta) + 1 <= Len(cs) /\ cs[x_next] = cs[x_Sent + Len(x_meta) + 1]
        BY <1>2, <1>5
    <2> QED BY <1>1, <1>2, <1>4, <2>1, FillingGoesOn
<1>7. x_Sent' = x_Sent
    BY <1>2, <1>5, <1>6 DEF x_Sent
<1>8. x_Types(sizes, b, L)'
    <2>1. x_next' \in Nat
        BY <1>2, <1>5
    <2> QED BY <1>2, <2>1, Zenon DEF x_Types, x_Inv
<1>9. ASSUME NEW n \in 0 .. L - 1 PROVE x_LinkOK(sizes, b, p, n)'
    <2>1. UNCHANGED x_OfLink(n)
        BY <1>2 DEF x_OfLink, x_Offer
    <2> QED BY <1>3, <2>1, x_LinkStays DEF x_At
<1>10. ASSUME NEW r \in 1 .. L PROVE x_NodeOK(sizes, b, p, r)'
    <2>1. UNCHANGED x_OfNode(r)
        BY <1>2 DEF x_OfNode
    <2> QED BY <1>3, <2>1, x_NodeStays DEF x_At
<1>11. x_At(sizes, b, L, p)'
    BY <1>2, <1>3, <1>6, <1>7, <1>9, <1>10 DEF x_At, cs
<1> QED BY <1>8, <1>11 DEF x_Inv

LEMMA x_WriteStep ==
    ASSUME NEW sizes \in Lengths, Len(sizes) > 0, NEW b \in Nat \ {0}, NEW L \in Nat \ {0},
           x_Inv(sizes, b, L), NixlOf(sizes, b, L)!WriteRuns
    PROVE  /\ x_Inv(sizes, b, L)' /\ x_bufs'[0][1 - x_held[0]] = x_bufs[0][1 - x_held[0]]
           /\ \A n \in 1 .. L : x_bufs'[n] = x_bufs[n]
<1> DEFINE cs == Cut(sizes, b)!Chunks
           w  == Head(x_writes)
           i  == x_held[0]
           after == Cut(sizes, b)!Written(x_bufs[0][i], w.offset, DataOf(w.chunk))
<1>1. RunsFromTo(sizes, b, cs, 1, Len(sizes))
    BY ChunksRun
<1>2. /\ x_writes # << >> /\ x_writes' = Tail(x_writes)
      /\ x_bufs' = [x_bufs EXCEPT ![0][w.buf] = Cut(sizes, b)!Written(x_bufs[0][w.buf], w.offset, Cut(sizes, b)!BytesOf(w.chunk))]
      /\ UNCHANGED <<x_next, x_meta, x_offset, x_held, x_offered, x_message, x_notified, x_pc,
                     x_reading, x_copied, x_bucket, x_todo, x_reads, x_merge>>
    <2>1. /\ NixlOf(sizes, b, L)!BytesOf(w.chunk) = Cut(sizes, b)!BytesOf(w.chunk)
          /\ \A f, o, d : NixlOf(sizes, b, L)!Written(f, o, d) = Cut(sizes, b)!Written(f, o, d)
        BY NixlOperators
    <2>2. /\ x_writes # << >> /\ x_writes' = Tail(x_writes)
          /\ x_bufs' = [x_bufs EXCEPT ![0][w.buf] = NixlOf(sizes, b, L)!Written(x_bufs[0][w.buf], w.offset, NixlOf(sizes, b, L)!BytesOf(w.chunk))]
          /\ UNCHANGED <<x_next, x_meta, x_offset, x_held, x_offered, x_message, x_notified, x_pc,
                     x_reading, x_copied, x_bucket, x_todo, x_reads, x_merge>>
        BY Zenon DEF NixlOf!WriteRuns, NixlOf!offers, NixlOf!receiver
    <2> HIDE DEF w
    <2> QED BY <2>1, <2>2, Zenon
<1>3. PICK p : x_At(sizes, b, L, p)
    BY DEF x_Inv
<1>4. /\ Filling(sizes, b, cs, x_Sent, x_meta, x_offset, x_writes, i, x_bufs[0][i])
      /\ i \in 0 .. 1 /\ x_bufs \in [0 .. L -> [0 .. 1 -> BufferOf(sizes, b)]] /\ 0 \in 0 .. L
      /\ x_bufs[0][i] \in BufferOf(sizes, b) /\ x_Types(sizes, b, L)
    <2>1. x_Types(sizes, b, L) /\ 0 \in 0 .. L
        BY DEF x_Inv
    <2>2. i \in 0 .. 1 /\ x_bufs \in [0 .. L -> [0 .. 1 -> BufferOf(sizes, b)]]
        BY <2>1 DEF x_Types
    <2> QED BY <1>3, <2>1, <2>2 DEF x_At
<1> HIDE DEF cs, after, i
<1>5. /\ w.buf = i /\ IsChunk(sizes, b, w.chunk) /\ after \in BufferOf(sizes, b)
      /\ Filling(sizes, b, cs, x_Sent, x_meta, x_offset, Tail(x_writes), i, after)
    BY <1>1, <1>2, <1>4, WritingGoesOn DEF after
<1> HIDE DEF w
<1>6. x_bufs' = [x_bufs EXCEPT ![0] = [x_bufs[0] EXCEPT ![i] = after]]
    <2>1. Cut(sizes, b)!BytesOf(w.chunk) = DataOf(w.chunk)
        BY <1>5, ChunkData
    <2>2. x_bufs' = [x_bufs EXCEPT ![0][i] = after]
        BY <1>2, <1>5, <2>1, Zenon DEF after
    <2> QED BY <2>2
<1>7. /\ x_bufs'[0][i] = after /\ x_bufs'[0][1 - i] = x_bufs[0][1 - i]
      /\ x_bufs' \in [0 .. L -> [0 .. 1 -> BufferOf(sizes, b)]]
      /\ \A n \in 1 .. L : x_bufs'[n] = x_bufs[n]
    <2>1. 1 - i \in 0 .. 1 /\ 1 - i # i
        BY <1>4
    <2> QED BY <1>4, <1>5, <1>6, <2>1
<1>8. x_Sent' = x_Sent
    BY <1>2 DEF x_Sent
<1>9. x_Types(sizes, b, L)'
    BY <1>2, <1>4, <1>7 DEF x_Types
<1>10. ASSUME NEW n \in 0 .. L - 1 PROVE x_LinkOK(sizes, b, p, n)'
    <2>1. n + 1 \in 1 .. L /\ (n = 0 \/ n \in 1 .. L)
        OBVIOUS
    <2>2. UNCHANGED x_OfLink(n)
        BY <1>2, <1>7, <2>1 DEF x_OfLink, x_Offer, i
    <2> QED BY <1>3, <2>2, x_LinkStays DEF x_At
<1>11. ASSUME NEW r \in 1 .. L PROVE x_NodeOK(sizes, b, p, r)'
    <2>1. UNCHANGED x_OfNode(r)
        BY <1>2, <1>7 DEF x_OfNode
    <2> QED BY <1>3, <2>1, x_NodeStays DEF x_At
<1>12. x_At(sizes, b, L, p)'
    BY <1>2, <1>3, <1>5, <1>7, <1>8, <1>10, <1>11 DEF x_At, cs, i
<1> QED BY <1>7, <1>9, <1>12 DEF x_Inv, i

(* A bucket that may be given up: what was in it has been read.             *)
LEMMA x_OfferIsOver ==
    ASSUME NEW sizes, NEW b, NEW p, NEW n, x_LinkOK(sizes, b, p, n), x_offered[n] => x_notified[n]
    PROVE  x_message[n] = << >> /\ (x_reading[n + 1] # << >> => x_copied[n + 1])
BY DEF x_LinkOK

LEMMA x_OfferStep ==
    ASSUME NEW sizes \in Lengths, Len(sizes) > 0, NEW b \in Nat \ {0}, NEW L \in Nat \ {0},
           NEW last \in BOOLEAN, x_Inv(sizes, b, L), NixlOf(sizes, b, L)!OfferBucket(last)
    PROVE  x_Inv(sizes, b, L)'
<1> DEFINE cs == Cut(sizes, b)!Chunks
           i == x_held[0]
           m == [buf |-> i, chunks |-> x_meta, last |-> last]
<1>2. /\ x_writes = << >> /\ (x_offered[0] => x_notified[0])
      /\ x_offered' = [x_offered EXCEPT ![0] = TRUE]
      /\ x_message' = [x_message EXCEPT ![0] = m]
      /\ x_notified' = [x_notified EXCEPT ![0] = FALSE]
      /\ x_held' = [x_held EXCEPT ![0] = 1 - i]
      /\ x_meta' = << >> /\ x_offset' = 0
      /\ UNCHANGED <<x_next, x_writes, x_bufs, x_pc, x_reading, x_copied, x_bucket, x_todo,
                     x_reads, x_merge>>
    BY Zenon DEF NixlOf!OfferBucket, NixlOf!OfferOver, NixlOf!Offers, NixlOf!receiver
<1>3. PICK p : x_At(sizes, b, L, p)
    BY DEF x_Inv
<1>4. /\ Filling(sizes, b, cs, x_Sent, x_meta, x_offset, x_writes, i, x_bufs[0][i])
      /\ i \in 0 .. 1 /\ x_Types(sizes, b, L) /\ x_next \in Nat
      /\ p \in [0 .. L -> Nat] /\ p[0] = x_Sent /\ x_LinkOK(sizes, b, p, 0)
    <2>1. 0 \in 0 .. L - 1 /\ 0 \in 0 .. L
        OBVIOUS
    <2> QED BY <1>3, <2>1 DEF x_At, x_Inv, x_Types
<1> HIDE DEF cs
<1>5. Package(sizes, b, cs, x_Sent, x_meta, x_bufs[0][i])
    BY <1>2, <1>4, FilledIsPackage
<1>6. x_Sent \in Nat /\ Len(x_meta) \in Nat /\ x_Sent + Len(x_meta) <= Len(cs) /\ x_meta \in Seq(EntryOf(sizes, b))
    BY <1>5 DEF Package
<1>7. x_Sent' = x_Sent + Len(x_meta)
    BY <1>2, <1>4, <1>6 DEF x_Sent
<1>8. PICK q \in [0 .. L -> Nat] : q[0] = x_Sent' /\ \A n \in 1 .. L : q[n] = p[n]
    <2> DEFINE f == [n \in 0 .. L |-> IF n = 0 THEN x_Sent + Len(x_meta) ELSE p[n]]
    <2>1. f \in [0 .. L -> Nat] /\ f[0] = x_Sent + Len(x_meta) /\ \A n \in 1 .. L : f[n] = p[n]
        BY <1>4, <1>6
    <2> HIDE DEF f
    <2> QED BY <1>7, <2>1
<1>9. m \in Message(sizes, b) /\ m # << >> /\ m.buf = i /\ m.chunks = x_meta
    BY <1>4, <1>6 DEF Message
<1> HIDE DEF m
<1>10. /\ x_held'[0] = 1 - i /\ x_message'[0] = m /\ x_offered'[0] = TRUE /\ x_notified'[0] = FALSE
       /\ \A n \in 1 .. L : /\ x_held'[n] = x_held[n] /\ x_message'[n] = x_message[n]
                            /\ x_offered'[n] = x_offered[n] /\ x_notified'[n] = x_notified[n]
       /\ 1 - i \in 0 .. 1 /\ 1 - (1 - i) = i
    <2>1. i \in 0 .. 1 /\ 0 \in 0 .. L /\ \A n \in 1 .. L : n \in 0 .. L /\ n # 0
        BY <1>4
    <2> HIDE DEF i
    <2>2. 1 - i \in 0 .. 1 /\ 1 - (1 - i) = i
        BY <2>1
    <2> QED BY <1>2, <1>4, <2>1, <2>2 DEF x_Types
<1>11. x_Types(sizes, b, L)'
    <2>1. /\ x_held' \in [0 .. L -> 0 .. 1] /\ x_offered' \in [0 .. L -> BOOLEAN]
          /\ x_notified' \in [0 .. L -> BOOLEAN] /\ x_message' \in [0 .. L -> Message(sizes, b) \cup {<< >>}]
        <3> HIDE DEF i
        <3> QED BY <1>2, <1>4, <1>9, <1>10 DEF x_Types
    <2>2. \A n \in 0 .. L : x_notified'[n] => x_offered'[n]
        <3>1. \A n \in 0 .. L : n = 0 \/ n \in 1 .. L
            OBVIOUS
        <3> QED BY <1>4, <1>10, <3>1 DEF x_Types
    <2> QED BY <1>2, <1>4, <2>1, <2>2 DEF x_Types
<1>12. x_message[0] = << >> /\ (x_reading[1] # << >> => x_copied[1])
    <2>1. 0 + 1 = 1
        OBVIOUS
    <2> QED BY <1>2, <1>4, <2>1, x_OfferIsOver
<1>13. x_LinkOK(sizes, b, q, 0)'
    <2>1. 0 + 1 = 1 /\ 1 \in 1 .. L
        OBVIOUS
    <2>2. p[1] + x_ReadLen(1) = x_Sent /\ p[1] \in Nat
        <3>1. p[1] + x_ReadLen(1) + x_MsgLen(0) = p[0] /\ p[1] \in Nat
            BY <1>4, <2>1 DEF x_LinkOK
        <3>2. x_MsgLen(0) = 0
            BY <1>12 DEF x_MsgLen
        <3>3. x_ReadLen(1) \in Nat
            BY <1>4, <2>1 DEF x_ReadLen, x_Types, Message
        <3> QED BY <1>4, <1>6, <3>1, <3>2, <3>3
    <2>3. x_ReadLen(1)' = x_ReadLen(1) /\ x_MsgLen(0)' = Len(x_meta) /\ x_Offer(0)' = i
        BY <1>2, <1>9, <1>10 DEF x_ReadLen, x_MsgLen, x_Offer
    <2>4. q[1] = p[1] /\ q[0] = x_Sent + Len(x_meta)
        BY <1>7, <1>8, <2>1
    <2>5. x_reading'[1] # << >> => x_copied'[1]
        BY <1>2, <1>12
    <2>6. x_reading'[1] # << >> => Package(sizes, b, cs, q[1], x_reading'[1].chunks, x_bufs'[1][1 - x_held'[1]])
        BY <1>2, <1>4, <1>10, <1>12, <2>1, <2>4 DEF x_LinkOK, cs
    <2>7. q[0 + 1] + x_ReadLen(0 + 1)' + x_MsgLen(0)' = q[0]
        BY <1>6, <2>1, <2>2, <2>3, <2>4
    <2>8. /\ x_message'[0] # << >> /\ x_offered'[0] /\ ~x_notified'[0] /\ x_message'[0].buf = x_Offer(0)'
          /\ Package(sizes, b, cs, q[0 + 1] + x_ReadLen(0 + 1)', x_message'[0].chunks, x_bufs'[0][x_Offer(0)'])
        BY <1>2, <1>5, <1>9, <1>10, <2>1, <2>2, <2>3, <2>4
    <2> QED BY <2>1, <2>5, <2>6, <2>7, <2>8 DEF x_LinkOK, cs
<1>14. ASSUME NEW n \in 0 .. L - 1 PROVE x_LinkOK(sizes, b, q, n)'
    <2>1. CASE n = 0
        BY <1>13, <2>1
    <2>2. CASE n # 0
        <3>1. n \in 1 .. L /\ n + 1 \in 1 .. L
            BY <2>2
        <3>2. UNCHANGED x_OfLink(n) /\ q[n] = p[n] /\ q[n + 1] = p[n + 1]
            BY <1>2, <1>8, <1>10, <2>2, <3>1 DEF x_OfLink, x_Offer
        <3> QED BY <1>3, <3>2, x_LinkStays DEF x_At
    <2> QED BY <2>1, <2>2
<1>15. ASSUME NEW r \in 1 .. L PROVE x_NodeOK(sizes, b, q, r)'
    <2>1. UNCHANGED x_OfNode(r)
        BY <1>2, <1>10 DEF x_OfNode
    <2> QED BY <1>3, <1>8, <2>1, x_NodeStays DEF x_At
<1>16. Filling(sizes, b, cs, x_Sent', x_meta', x_offset', x_writes', x_held'[0], x_bufs'[0][x_held'[0]])
    <2>1. x_Sent' \in Nat /\ x_Sent' <= Len(cs) /\ b \in Nat /\ 1 - i \in 0 .. 1
        BY <1>6, <1>7, <1>10
    <2>2. Filling(sizes, b, cs, x_Sent', << >>, 0, << >>, 1 - i, x_bufs[0][1 - i])
        BY <2>1, FillingBegins, Zenon
    <2> QED BY <1>2, <1>10, <2>2
<1>17. x_At(sizes, b, L, q)'
    BY <1>8, <1>14, <1>15, <1>16 DEF x_At, cs
<1> QED BY <1>11, <1>17 DEF x_Inv

(* The receivers' steps: r comes after n. *)
LEMMA x_BeginReadStep ==
    ASSUME NEW sizes, NEW b, NEW L \in Nat \ {0}, NEW r \in 1 .. L,
           x_Inv(sizes, b, L), NixlOf(sizes, b, L)!BeginRead(r)
    PROVE  x_Inv(sizes, b, L)'
<1>1. PICK n \in 0 .. L - 1 : n = r - 1 /\ n + 1 = r
    <2>1. r - 1 \in 0 .. L - 1 /\ (r - 1) + 1 = r
        OBVIOUS
    <2> QED BY <2>1
<1>2. /\ x_message[n] # << >> /\ x_reading[r] = << >>
      /\ x_reading' = [x_reading EXCEPT ![r] = x_message[n]]
      /\ x_copied' = [x_copied EXCEPT ![r] = FALSE]
      /\ x_message' = [x_message EXCEPT ![n] = << >>]
      /\ UNCHANGED <<x_next, x_meta, x_offset, x_writes, x_held, x_bufs, x_offered, x_notified,
                     x_pc, x_bucket, x_todo, x_reads, x_merge>>
    BY <1>1, Zenon DEF NixlOf!BeginRead, NixlOf!sender
<1>3. PICK p : x_At(sizes, b, L, p)
    BY DEF x_Inv
<1>4. x_Types(sizes, b, L) /\ x_LinkOK(sizes, b, p, n) /\ n \in 0 .. L /\ p \in [0 .. L -> Nat]
    BY <1>3 DEF x_Inv, x_At
<1>5. /\ x_reading'[r] = x_message[n] /\ x_copied'[r] = FALSE /\ x_message'[n] = << >>
      /\ \A s \in 1 .. L : s # r => x_reading'[s] = x_reading[s] /\ x_copied'[s] = x_copied[s]
      /\ \A k \in 0 .. L : k # n => x_message'[k] = x_message[k]
    BY <1>2, <1>4 DEF x_Types
<1>6. x_Types(sizes, b, L)'
    <2>1. /\ x_reading' \in [1 .. L -> Message(sizes, b) \cup {<< >>}]
          /\ x_message' \in [0 .. L -> Message(sizes, b) \cup {<< >>}]
          /\ x_copied' \in [1 .. L -> BOOLEAN]
        BY <1>2, <1>4 DEF x_Types
    <2> QED BY <1>2, <1>4, <2>1 DEF x_Types
<1>7. x_LinkOK(sizes, b, p, n)'
    <2>1. p[n + 1] \in Nat /\ p[n] \in Nat /\ x_MsgLen(n) = Len(x_message[n].chunks) /\ x_ReadLen(r) = 0
        BY <1>1, <1>2, <1>4 DEF x_MsgLen, x_ReadLen
    <2>2. x_MsgLen(n)' = 0 /\ x_ReadLen(r)' = Len(x_message[n].chunks) /\ x_Offer(n)' = x_Offer(n)
        BY <1>2, <1>5 DEF x_MsgLen, x_ReadLen, x_Offer
    <2>3. Len(x_message[n].chunks) \in Nat
        <3>1. x_message[n] \in Message(sizes, b)
            BY <1>2, <1>4 DEF x_Types
        <3> QED BY <3>1 DEF Message
    <2>4. p[n + 1] + x_ReadLen(n + 1)' + x_MsgLen(n)' = p[n]
        <3>1. p[n + 1] + x_ReadLen(n + 1) + x_MsgLen(n) = p[n]
            BY <1>4 DEF x_LinkOK
        <3>2. p[n + 1] + 0 + Len(x_message[n].chunks) = p[n]
            BY <1>1, <2>1, <3>1
        <3>3. p[n + 1] + Len(x_message[n].chunks) + 0 = p[n]
            BY <2>1, <2>3, <3>2
        <3> QED BY <1>1, <2>2, <3>3
    <2>5. p[n + 1] + x_ReadLen(n + 1) = p[n + 1]
        BY <1>1, <2>1
    <2>6. /\ x_offered[n] /\ ~x_notified[n] /\ x_message[n].buf = x_Offer(n)
          /\ Package(sizes, b, Cut(sizes, b)!Chunks, p[n + 1], x_message[n].chunks, x_bufs[n][x_Offer(n)])
        BY <1>2, <1>4, <2>5 DEF x_LinkOK
    <2>7. /\ x_message'[n] = << >> /\ x_offered'[n] /\ ~x_notified'[n]
          /\ x_reading'[n + 1].buf = x_Offer(n)' /\ ~x_copied'[n + 1] /\ x_reading'[n + 1] # << >>
          /\ Package(sizes, b, Cut(sizes, b)!Chunks, p[n + 1], x_reading'[n + 1].chunks, x_bufs'[n][x_Offer(n)'])
        BY <1>1, <1>2, <1>5, <2>2, <2>6
    <2> QED BY <2>4, <2>7 DEF x_LinkOK
<1>8. ASSUME NEW k \in 0 .. L - 1 PROVE x_LinkOK(sizes, b, p, k)'
    <2>1. CASE k = n
        BY <1>7, <2>1
    <2>2. CASE k # n
        <3>1. k + 1 # r /\ k + 1 \in 1 .. L /\ k \in 0 .. L
            BY <1>1, <2>2
        <3>2. UNCHANGED x_OfLink(k)
            BY <1>2, <1>5, <2>2, <3>1 DEF x_OfLink, x_Offer
        <3> QED BY <1>3, <3>2, x_LinkStays DEF x_At
    <2> QED BY <2>1, <2>2
<1>9. ASSUME NEW s \in 1 .. L PROVE x_NodeOK(sizes, b, p, s)'
    <2>1. UNCHANGED x_OfNode(s)
        BY <1>2 DEF x_OfNode
    <2> QED BY <1>3, <2>1, x_NodeStays DEF x_At
<1>10. x_At(sizes, b, L, p)'
    <2>1. x_Sent' = x_Sent
        BY <1>2 DEF x_Sent
    <2> QED BY <1>2, <1>3, <1>8, <1>9, <2>1 DEF x_At
<1> QED BY <1>6, <1>10 DEF x_Inv

LEMMA x_RemoteReadStep ==
    ASSUME NEW sizes, NEW b, NEW L \in Nat \ {0}, NEW r \in 1 .. L,
           x_Inv(sizes, b, L), NixlOf(sizes, b, L)!RemoteRead(r)
    PROVE  /\ x_Inv(sizes, b, L)' /\ x_bufs'[r][x_held[r]] = x_bufs[r][x_held[r]]
           /\ \A n \in 0 .. L : n # r => x_bufs'[n] = x_bufs[n]
<1>1. PICK n \in 0 .. L - 1 : n = r - 1 /\ n + 1 = r
    <2>1. r - 1 \in 0 .. L - 1 /\ (r - 1) + 1 = r
        OBVIOUS
    <2> QED BY <2>1
<1> DEFINE i == 1 - x_held[r]
<1>2. /\ x_reading[r] # << >> /\ ~x_copied[r]
      /\ x_bufs' = [x_bufs EXCEPT ![r][i] = x_bufs[n][x_reading[r].buf]]
      /\ x_copied' = [x_copied EXCEPT ![r] = TRUE]
      /\ x_notified' = [x_notified EXCEPT ![n] = TRUE]
      /\ UNCHANGED <<x_next, x_meta, x_offset, x_writes, x_held, x_offered, x_message,
                     x_pc, x_reading, x_bucket, x_todo, x_reads, x_merge>>
    BY <1>1, Zenon DEF NixlOf!RemoteRead, NixlOf!sender
<1>3. PICK p : x_At(sizes, b, L, p)
    BY DEF x_Inv
<1>4. x_Types(sizes, b, L) /\ x_LinkOK(sizes, b, p, n) /\ n \in 0 .. L /\ r \in 0 .. L /\ n # r
    BY <1>1, <1>3 DEF x_Inv, x_At
<1>5. /\ x_message[n] = << >> /\ x_offered[n] /\ ~x_notified[n] /\ x_reading[r].buf = x_Offer(n)
      /\ Package(sizes, b, Cut(sizes, b)!Chunks, p[r], x_reading[r].chunks, x_bufs[n][x_Offer(n)])
    BY <1>1, <1>2, <1>4 DEF x_LinkOK
<1>6. x_held[r] \in 0 .. 1 /\ i \in 0 .. 1 /\ i # x_held[r] /\ x_Offer(n) \in 0 .. 1
    <2>1. x_held[r] \in 0 .. 1 /\ x_held[0] \in 0 .. 1 /\ x_held[n] \in 0 .. 1
        BY <1>4 DEF x_Types
    <2> QED BY <2>1 DEF x_Offer
<1> HIDE DEF i
<1>7. /\ x_bufs'[r][i] = x_bufs[n][x_Offer(n)]
      /\ x_bufs'[r][x_held[r]] = x_bufs[r][x_held[r]]
      /\ \A k \in 0 .. L : k # r => x_bufs'[k] = x_bufs[k]
      /\ x_bufs' \in [0 .. L -> [0 .. 1 -> BufferOf(sizes, b)]]
    <2>1. x_bufs \in [0 .. L -> [0 .. 1 -> BufferOf(sizes, b)]] /\ x_bufs[n][x_Offer(n)] \in BufferOf(sizes, b)
        BY <1>4, <1>6 DEF x_Types
    <2>2. x_bufs' = [x_bufs EXCEPT ![r] = [x_bufs[r] EXCEPT ![i] = x_bufs[n][x_Offer(n)]]]
        BY <1>2, <1>4, <1>5
    <2> QED BY <1>4, <1>6, <2>1, <2>2
<1>8. /\ x_copied'[r] = TRUE /\ x_notified'[n] = TRUE
      /\ \A s \in 1 .. L : s # r => x_copied'[s] = x_copied[s]
      /\ \A k \in 0 .. L : k # n => x_notified'[k] = x_notified[k]
      /\ x_copied' \in [1 .. L -> BOOLEAN] /\ x_notified' \in [0 .. L -> BOOLEAN]
    BY <1>2, <1>4 DEF x_Types
<1>9. x_Types(sizes, b, L)'
    <2>1. \A k \in 0 .. L : x_notified'[k] => x_offered'[k]
        <3> SUFFICES ASSUME NEW k \in 0 .. L, x_notified'[k] PROVE x_offered[k]
            BY <1>2
        <3>1. CASE k = n
            BY <1>5, <3>1
        <3>2. CASE k # n
            BY <1>4, <1>8, <3>2 DEF x_Types
        <3> QED BY <3>1, <3>2
    <2> QED BY <1>2, <1>4, <1>7, <1>8, <2>1 DEF x_Types
<1>10. x_LinkOK(sizes, b, p, n)'
    <2>1. x_MsgLen(n)' = x_MsgLen(n) /\ x_ReadLen(n + 1)' = x_ReadLen(n + 1)
        BY <1>2 DEF x_MsgLen, x_ReadLen
    <2>2. p[n + 1] + x_ReadLen(n + 1)' + x_MsgLen(n)' = p[n]
        BY <1>4, <2>1 DEF x_LinkOK
    <2>3. /\ x_message'[n] = << >> /\ x_notified'[n] /\ x_copied'[n + 1] /\ x_reading'[n + 1] = x_reading[r]
          /\ x_held'[n + 1] = x_held[r]
        BY <1>1, <1>2, <1>5, <1>8
    <2>4. Package(sizes, b, Cut(sizes, b)!Chunks, p[n + 1], x_reading'[n + 1].chunks,
                  x_bufs'[n + 1][1 - x_held'[n + 1]])
        BY <1>1, <1>5, <1>7, <2>3 DEF i
    <2> QED BY <2>2, <2>3, <2>4 DEF x_LinkOK
<1>11. ASSUME NEW k \in 0 .. L - 1 PROVE x_LinkOK(sizes, b, p, k)'
    <2>1. CASE k = n
        BY <1>10, <2>1
    <2>2. CASE k # n
        <3>1. k + 1 # r /\ k + 1 \in 1 .. L /\ k \in 0 .. L /\ k + 1 \in 0 .. L /\ r # 0
            BY <1>1, <2>2
        <3>2. x_bufs'[k + 1] = x_bufs[k + 1] /\ x_Offer(k)' = x_Offer(k) /\ x_held' = x_held
            BY <1>2, <1>7, <3>1 DEF x_Offer
        <3>3. x_bufs'[k][x_Offer(k)] = x_bufs[k][x_Offer(k)]
            <4>1. CASE k = r
                <5>1. x_Offer(k) = x_held[r]
                    BY <3>1, <4>1 DEF x_Offer
                <5> QED BY <1>7, <4>1, <5>1
            <4>2. CASE k # r
                BY <1>7, <3>1, <4>2
            <4> QED BY <4>1, <4>2
        <3>4. UNCHANGED x_OfLink(k)
            BY <1>2, <1>8, <2>2, <3>1, <3>2, <3>3 DEF x_OfLink
        <3> QED BY <1>3, <3>4, x_LinkStays DEF x_At
    <2> QED BY <2>1, <2>2
<1>12. ASSUME NEW s \in 1 .. L PROVE x_NodeOK(sizes, b, p, s)'
    <2>1. x_bufs'[s][x_held[s]] = x_bufs[s][x_held[s]]
        <3>1. s \in 0 .. L
            OBVIOUS
        <3> QED BY <1>7, <3>1
    <2>2. UNCHANGED x_OfNode(s)
        BY <1>2, <2>1 DEF x_OfNode
    <2> QED BY <1>3, <2>2, x_NodeStays DEF x_At
<1>13. x_At(sizes, b, L, p)'
    <2>1. x_Sent' = x_Sent /\ x_bufs'[0] = x_bufs[0]
        <3>1. 0 # r /\ 0 \in 0 .. L
            OBVIOUS
        <3> QED BY <1>2, <1>7, <3>1 DEF x_Sent
    <2> QED BY <1>2, <1>3, <1>11, <1>12, <2>1 DEF x_At
<1> QED BY <1>7, <1>9, <1>13 DEF x_Inv

(* The steps of a node that leave the links alone.                          *)
LEMMA x_WithinNode ==
    ASSUME NEW sizes, NEW b, NEW L \in Nat \ {0}, NEW r \in 1 .. L, NEW p,
           x_At(sizes, b, L, p), x_NodeOK(sizes, b, p, r)', x_Types(sizes, b, L)',
           UNCHANGED <<x_next, x_meta, x_offset, x_writes, x_held, x_bufs, x_offered, x_message,
                       x_notified, x_reading, x_copied>>,
           \A s \in 1 .. L : s # r => UNCHANGED x_OfNode(s)
    PROVE  x_Inv(sizes, b, L)'
<1>1. ASSUME NEW n \in 0 .. L - 1 PROVE x_LinkOK(sizes, b, p, n)'
    <2>1. UNCHANGED x_OfLink(n)
        BY DEF x_OfLink, x_Offer
    <2> QED BY <2>1, x_LinkStays DEF x_At
<1>2. ASSUME NEW s \in 1 .. L PROVE x_NodeOK(sizes, b, p, s)'
    <2>1. CASE s = r
        BY <2>1
    <2>2. CASE s # r
        BY <2>2, x_NodeStays DEF x_At
    <2> QED BY <2>1, <2>2
<1>3. x_At(sizes, b, L, p)'
    <2>1. x_Sent' = x_Sent
        BY DEF x_Sent
    <2> QED BY <1>1, <1>2, <2>1 DEF x_At
<1> QED BY <1>3 DEF x_Inv

LEMMA x_YieldStep ==
    ASSUME NEW sizes \in Lengths, Len(sizes) > 0, NEW b \in Nat \ {0}, NEW L \in Nat \ {0}, NEW r \in 1 .. L,
           x_Inv(sizes, b, L), NixlOf(sizes, b, L)!Yield(r)
    PROVE  x_Inv(sizes, b, L)'
<1> DEFINE cs == Cut(sizes, b)!Chunks
           e == [buf |-> x_held[r], entry |-> Head(x_todo[r])]
<1>2. /\ x_todo[r] # << >>
      /\ x_reads' = [x_reads EXCEPT ![r] = Append(x_reads[r], e)]
      /\ x_todo' = [x_todo EXCEPT ![r] = Tail(x_todo[r])]
      /\ UNCHANGED <<x_next, x_meta, x_offset, x_writes, x_held, x_bufs, x_offered, x_message,
                     x_notified, x_pc, x_reading, x_copied, x_bucket, x_merge>>
    BY Zenon DEF NixlOf!Yield, NixlOf!sender, NixlOf!offers
<1>3. PICK p : x_At(sizes, b, L, p)
    BY DEF x_Inv
<1>4. /\ x_Types(sizes, b, L) /\ r \in 0 .. L /\ p \in [0 .. L -> Nat] /\ p[r] \in Nat
      /\ Handing(sizes, b, cs, p[r] - Len(x_todo[r]), x_todo[r], x_reads[r], x_held[r],
                 x_bufs[r][x_held[r]], x_merge[r])
    <2>1. x_Types(sizes, b, L) /\ r \in 0 .. L /\ p \in [0 .. L -> Nat] /\ x_NodeOK(sizes, b, p, r)
        BY <1>3 DEF x_Inv, x_At
    <2>2. p[r] \in Nat
        BY <2>1
    <2> QED BY <2>1, <2>2 DEF x_NodeOK
<1> HIDE DEF cs
<1>5. /\ Handing(sizes, b, cs, p[r] - Len(x_todo[r]) + 1, Tail(x_todo[r]), Append(x_reads[r], e), x_held[r],
                 x_bufs[r][x_held[r]], x_merge[r])
      /\ Len(Tail(x_todo[r])) = Len(x_todo[r]) - 1
    BY <1>2, <1>4, YieldingGoesOn
<1> HIDE DEF e
<1>6. Tail(x_todo[r]) \in Seq(EntryOf(sizes, b)) /\ Append(x_reads[r], e) \in Seq(CopyOutOf(sizes, b))
    BY <1>5 DEF Handing, Package
<1>7. /\ x_todo'[r] = Tail(x_todo[r]) /\ x_reads'[r] = Append(x_reads[r], e)
      /\ \A s \in 1 .. L : s # r => x_todo'[s] = x_todo[s] /\ x_reads'[s] = x_reads[s]
      /\ x_todo' \in [1 .. L -> Seq(EntryOf(sizes, b))] /\ x_reads' \in [1 .. L -> Seq(CopyOutOf(sizes, b))]
    BY <1>2, <1>4, <1>6 DEF x_Types
<1>8. x_Types(sizes, b, L)'
    BY <1>2, <1>4, <1>7 DEF x_Types
<1>9. x_NodeOK(sizes, b, p, r)'
    <2>1. p[r] - Len(x_todo'[r]) = p[r] - Len(x_todo[r]) + 1
        <3>1. Len(x_todo[r]) \in Nat
            BY <1>4 DEF Handing, Package
        <3>2. Len(x_todo'[r]) = Len(x_todo[r]) - 1 /\ p[r] \in Nat
            BY <1>4, <1>5, <1>7
        <3> QED BY <3>1, <3>2
    <2> QED BY <1>2, <1>5, <1>7, <2>1 DEF x_NodeOK, cs
<1>10. \A s \in 1 .. L : s # r => UNCHANGED x_OfNode(s)
    BY <1>2, <1>7 DEF x_OfNode
<1> QED BY <1>2, <1>3, <1>8, <1>9, <1>10, x_WithinNode

LEMMA x_ReadStep ==
    ASSUME NEW sizes \in Lengths, Len(sizes) > 0, NEW b \in Nat \ {0}, NEW L \in Nat \ {0}, NEW r \in 1 .. L,
           x_Inv(sizes, b, L), NixlOf(sizes, b, L)!ReadRuns(r)
    PROVE  /\ x_Inv(sizes, b, L)'
           /\ \/ x_merge'[r].yielded = x_merge[r].yielded
              \/ \E w \in Nat : /\ w < Len(sizes) /\ x_merge[r].yielded = Wholes(sizes, w)
                                /\ x_merge'[r].yielded = Wholes(sizes, w + 1)
           /\ \A s \in 1 .. L : s # r => x_merge'[s] = x_merge[s]
<1> DEFINE cs == Cut(sizes, b)!Chunks
           e == Head(x_reads[r]).entry
           after == Cut(sizes, b)!Merged(x_merge[r], e.chunk,
                        Cut(sizes, b)!Stretch(x_bufs[r][x_held[r]], e.offset, e.chunk.size))
<1>1. RunsFromTo(sizes, b, cs, 1, Len(sizes))
    BY ChunksRun
<1>2. /\ x_reads[r] # << >>
      /\ x_merge' = [x_merge EXCEPT ![r] =
            NixlOf(sizes, b, L)!Merged(x_merge[r], e.chunk,
                NixlOf(sizes, b, L)!Stretch(x_bufs[r][Head(x_reads[r]).buf], e.offset, e.chunk.size))]
      /\ x_reads' = [x_reads EXCEPT ![r] = Tail(x_reads[r])]
      /\ UNCHANGED <<x_next, x_meta, x_offset, x_writes, x_held, x_bufs, x_offered, x_message,
                     x_notified, x_pc, x_reading, x_copied, x_bucket, x_todo>>
    BY Zenon DEF NixlOf!ReadRuns, NixlOf!sender, NixlOf!offers
<1>3. PICK p : x_At(sizes, b, L, p)
    BY DEF x_Inv
<1>4. /\ x_Types(sizes, b, L)
      /\ Handing(sizes, b, cs, p[r] - Len(x_todo[r]), x_todo[r], x_reads[r], x_held[r],
                 x_bufs[r][x_held[r]], x_merge[r])
    BY <1>3 DEF x_Inv, x_At, x_NodeOK
<1> HIDE DEF cs
<1>5. /\ Head(x_reads[r]).buf = x_held[r]
      /\ Handing(sizes, b, cs, p[r] - Len(x_todo[r]), x_todo[r], Tail(x_reads[r]), x_held[r],
                 x_bufs[r][x_held[r]], after)
      /\ \/ after.yielded = x_merge[r].yielded
         \/ \E w \in Nat : /\ w < Len(sizes) /\ x_merge[r].yielded = Wholes(sizes, w)
                           /\ after.yielded = Wholes(sizes, w + 1)
    BY <1>1, <1>2, <1>4, ReadingGoesOn
<1> HIDE DEF e
<1>6. x_merge' = [x_merge EXCEPT ![r] = after]
    <2>1. /\ \A f, o, n : NixlOf(sizes, b, L)!Stretch(f, o, n) = Cut(sizes, b)!Stretch(f, o, n)
          /\ \A m, c, d : NixlOf(sizes, b, L)!Merged(m, c, d) = Cut(sizes, b)!Merged(m, c, d)
        BY NixlOperators
    <2>2. x_merge' = [x_merge EXCEPT ![r] = NixlOf(sizes, b, L)!Merged(x_merge[r], e.chunk,
                NixlOf(sizes, b, L)!Stretch(x_bufs[r][x_held[r]], e.offset, e.chunk.size))]
        BY <1>2, <1>5
    <2> QED BY <2>1, <2>2
<1> HIDE DEF after
<1>7. /\ Tail(x_reads[r]) \in Seq(CopyOutOf(sizes, b))
      /\ after \in {Progress(sizes, cs, k) : k \in Nat}
    <2> DEFINE k == p[r] - Len(x_todo[r])
    <2>1. Handing(sizes, b, cs, k, x_todo[r], Tail(x_reads[r]), x_held[r], x_bufs[r][x_held[r]], after)
        BY <1>5
    <2> HIDE DEF k
    <2>2. /\ Tail(x_reads[r]) \in Seq(CopyOutOf(sizes, b)) /\ Len(Tail(x_reads[r])) <= k
          /\ k \in Nat /\ after = Progress(sizes, cs, k - Len(Tail(x_reads[r])))
        BY <2>1 DEF Handing, Package
    <2>3. k - Len(Tail(x_reads[r])) \in Nat
        BY <2>2
    <2> QED BY <2>2, <2>3
<1>8. /\ x_merge'[r] = after /\ x_reads'[r] = Tail(x_reads[r])
      /\ \A s \in 1 .. L : s # r => x_merge'[s] = x_merge[s] /\ x_reads'[s] = x_reads[s]
      /\ x_merge' \in [1 .. L -> {Progress(sizes, cs, k) : k \in Nat}]
      /\ x_reads' \in [1 .. L -> Seq(CopyOutOf(sizes, b))]
    BY <1>2, <1>4, <1>6, <1>7 DEF x_Types, cs
<1>9. x_Types(sizes, b, L)'
    BY <1>2, <1>4, <1>8 DEF x_Types, cs
<1>10. x_NodeOK(sizes, b, p, r)'
    BY <1>2, <1>5, <1>8 DEF x_NodeOK, cs
<1>11. \A s \in 1 .. L : s # r => UNCHANGED x_OfNode(s)
    BY <1>2, <1>8 DEF x_OfNode
<1>12. x_Inv(sizes, b, L)'
    BY <1>2, <1>3, <1>9, <1>10, <1>11, x_WithinNode
<1> QED BY <1>5, <1>8, <1>12

LEMMA x_FinishStep ==
    ASSUME NEW sizes, NEW b, NEW L \in Nat \ {0}, NEW r \in 1 .. L,
           x_Inv(sizes, b, L), NixlOf(sizes, b, L)!Finish(r)
    PROVE  x_Inv(sizes, b, L)'
<1>2. /\ x_pc' = [x_pc EXCEPT ![r] = "done"]
      /\ UNCHANGED <<x_next, x_meta, x_offset, x_writes, x_held, x_bufs, x_offered, x_message,
                     x_notified, x_reading, x_copied, x_bucket, x_todo, x_reads, x_merge>>
    BY Zenon DEF NixlOf!Finish, NixlOf!sender, NixlOf!offers
<1>3. PICK p : x_At(sizes, b, L, p)
    BY DEF x_Inv
<1>4. x_Types(sizes, b, L)'
    BY <1>2 DEF x_Types, x_Inv
<1>5. \A s \in 1 .. L : UNCHANGED x_OfNode(s)
    BY <1>2 DEF x_OfNode
<1>6. x_NodeOK(sizes, b, p, r)'
    BY <1>3, <1>5, x_NodeStays DEF x_At
<1> QED BY <1>2, <1>3, <1>4, <1>5, <1>6, x_WithinNode

LEMMA x_Stutter ==
    ASSUME NEW sizes, NEW b, NEW L \in Nat \ {0}, x_Inv(sizes, b, L), UNCHANGED nixlVars
    PROVE  x_Inv(sizes, b, L)'
<1>2. UNCHANGED <<x_next, x_meta, x_offset, x_writes, x_held, x_bufs, x_offered, x_message, x_pc,
                  x_notified, x_reading, x_copied, x_bucket, x_todo, x_reads, x_merge>>
    BY DEF nixlVars
<1>3. PICK p : x_At(sizes, b, L, p)
    BY DEF x_Inv
<1>4. x_Types(sizes, b, L)'
    BY <1>2 DEF x_Types, x_Inv
<1>5. \A s \in 1 .. L : UNCHANGED x_OfNode(s)
    BY <1>2 DEF x_OfNode
<1>6. 1 \in 1 .. L
    OBVIOUS
<1>7. x_NodeOK(sizes, b, p, 1)'
    BY <1>3, <1>5, <1>6, x_NodeStays DEF x_At
<1> QED BY <1>2, <1>3, <1>4, <1>5, <1>6, <1>7, x_WithinNode

(* A node gives up its bucket for the one it has read, and offers that to   *)
(* the next node.                                                           *)
LEMMA x_NextRoundStep ==
    ASSUME NEW sizes \in Lengths, Len(sizes) > 0, NEW b \in Nat \ {0}, NEW L \in Nat \ {0}, NEW r \in 1 .. L,
           x_Inv(sizes, b, L), NixlOf(sizes, b, L)!NextRound(r)
    PROVE  x_Inv(sizes, b, L)'
<1> DEFINE cs == Cut(sizes, b)!Chunks
           i == x_held[r]
           m == [buf |-> 1 - i, chunks |-> x_reading[r].chunks, last |-> x_reading[r].last]
           offers == <<x_offered, x_message, x_notified>>
<1>1. PICK n \in 0 .. L - 1 : n = r - 1 /\ n + 1 = r
    <2>1. r - 1 \in 0 .. L - 1 /\ (r - 1) + 1 = r
        OBVIOUS
    <2> QED BY <2>1
<1>2. /\ x_todo[r] = << >> /\ x_reading[r] # << >> /\ x_copied[r] /\ x_reads[r] = << >>
      /\ (x_offered[r] => x_notified[r])
      /\ x_bucket' = [x_bucket EXCEPT ![r] = [chunks |-> x_reading[r].chunks, last |-> x_reading[r].last]]
      /\ x_todo' = [x_todo EXCEPT ![r] = x_reading[r].chunks]
      /\ x_reading' = [x_reading EXCEPT ![r] = << >>]
      /\ x_held' = [x_held EXCEPT ![r] = 1 - i]
      /\ x_pc' = [x_pc EXCEPT ![r] = "yield"]
      /\ IF r < L THEN /\ x_offered' = [x_offered EXCEPT ![r] = TRUE]
                       /\ x_message' = [x_message EXCEPT ![r] = m]
                       /\ x_notified' = [x_notified EXCEPT ![r] = FALSE]
                  ELSE UNCHANGED offers
      /\ UNCHANGED <<x_next, x_meta, x_offset, x_writes, x_bufs, x_copied, x_reads, x_merge>>
    BY Zenon DEF NixlOf!NextRound, NixlOf!RoundOver, NixlOf!OfferOver, NixlOf!Swap, NixlOf!Offers,
                 NixlOf!sender, NixlOf!offers
<1>3. PICK p : x_At(sizes, b, L, p)
    BY DEF x_Inv
<1>4. /\ x_Types(sizes, b, L) /\ r \in 0 .. L /\ n \in 0 .. L /\ n # r /\ r # 0
      /\ p \in [0 .. L -> Nat] /\ p[n] \in Nat /\ p[r] \in Nat
      /\ x_LinkOK(sizes, b, p, n) /\ x_NodeOK(sizes, b, p, r)
    <2>1. /\ x_Types(sizes, b, L) /\ r \in 0 .. L /\ n \in 0 .. L /\ n # r /\ r # 0
          /\ p \in [0 .. L -> Nat] /\ x_LinkOK(sizes, b, p, n) /\ x_NodeOK(sizes, b, p, r)
        BY <1>1, <1>3 DEF x_Inv, x_At
    <2>2. p[n] \in Nat /\ p[r] \in Nat
        BY <2>1
    <2> QED BY <2>1, <2>2
<1>5. i \in 0 .. 1 /\ 1 - i \in 0 .. 1 /\ 1 - (1 - i) = i /\ 1 - i # i
    <2>1. i \in 0 .. 1
        BY <1>4 DEF x_Types
    <2> HIDE DEF i
    <2> QED BY <2>1
<1> DEFINE es == x_reading[r].chunks
<1>6. /\ x_reading[r] \in Message(sizes, b) /\ es \in Seq(EntryOf(sizes, b)) /\ Len(es) \in Nat
      /\ x_reading[r].last \in BOOLEAN
      /\ Package(sizes, b, cs, p[r], es, x_bufs[r][1 - i])
    <2>1. x_reading[r] \in Message(sizes, b)
        BY <1>2, <1>4 DEF x_Types
    <2>2. Package(sizes, b, cs, p[r], es, x_bufs[r][1 - i])
        BY <1>1, <1>2, <1>4 DEF x_LinkOK
    <2> QED BY <2>1, <2>2 DEF Message
<1>7. m \in Message(sizes, b) /\ m # << >> /\ m.buf = 1 - i /\ m.chunks = es
    BY <1>5, <1>6 DEF Message
<1> HIDE DEF cs, i, m
<1>8. /\ x_todo'[r] = es /\ x_reading'[r] = << >> /\ x_held'[r] = 1 - i
      /\ \A s \in 1 .. L : s # r => x_todo'[s] = x_todo[s] /\ x_reading'[s] = x_reading[s]
      /\ \A k \in 0 .. L : k # r => x_held'[k] = x_held[k]
      /\ x_todo' \in [1 .. L -> Seq(EntryOf(sizes, b))]
      /\ x_reading' \in [1 .. L -> Message(sizes, b) \cup {<< >>}]
      /\ x_held' \in [0 .. L -> 0 .. 1]
      /\ x_pc' \in [1 .. L -> {"first", "yield", "done"}]
      /\ x_bucket' \in [1 .. L -> [chunks : Seq(EntryOf(sizes, b)), last : BOOLEAN]]
    BY <1>2, <1>4, <1>5, <1>6 DEF x_Types
<1>9. /\ \A k \in 0 .. L : k # r => /\ x_offered'[k] = x_offered[k] /\ x_message'[k] = x_message[k]
                                    /\ x_notified'[k] = x_notified[k]
      /\ r < L => x_offered'[r] = TRUE /\ x_message'[r] = m /\ x_notified'[r] = FALSE
      /\ x_offered' \in [0 .. L -> BOOLEAN] /\ x_notified' \in [0 .. L -> BOOLEAN]
      /\ x_message' \in [0 .. L -> Message(sizes, b) \cup {<< >>}]
      /\ \A k \in 0 .. L : x_notified'[k] => x_offered'[k]
    <2> HIDE DEF offers
    <2>1. CASE r < L
        <3>1. /\ x_offered' = [x_offered EXCEPT ![r] = TRUE] /\ x_message' = [x_message EXCEPT ![r] = m]
              /\ x_notified' = [x_notified EXCEPT ![r] = FALSE]
            BY <1>2, <2>1
        <3>2. /\ \A k \in 0 .. L : k # r => /\ x_offered'[k] = x_offered[k] /\ x_message'[k] = x_message[k]
                                            /\ x_notified'[k] = x_notified[k]
              /\ x_offered'[r] = TRUE /\ x_message'[r] = m /\ x_notified'[r] = FALSE
              /\ x_offered' \in [0 .. L -> BOOLEAN] /\ x_notified' \in [0 .. L -> BOOLEAN]
              /\ x_message' \in [0 .. L -> Message(sizes, b) \cup {<< >>}]
            BY <1>4, <1>7, <3>1 DEF x_Types
        <3>3. \A k \in 0 .. L : x_notified'[k] => x_offered'[k]
            BY <1>4, <3>2 DEF x_Types
        <3> QED BY <3>2, <3>3
    <2>2. CASE ~(r < L)
        <3>1. x_offered' = x_offered /\ x_message' = x_message /\ x_notified' = x_notified
            BY <1>2, <2>2 DEF offers
        <3> QED BY <1>4, <2>2, <3>1 DEF x_Types
    <2> QED BY <2>1, <2>2
<1>10. x_Types(sizes, b, L)'
    BY <1>2, <1>4, <1>8, <1>9 DEF x_Types
<1>11. PICK q \in [0 .. L -> Nat] : q[r] = p[r] + Len(es) /\ \A k \in 0 .. L : k # r => q[k] = p[k]
    <2> DEFINE f == [k \in 0 .. L |-> IF k = r THEN p[r] + Len(es) ELSE p[k]]
    <2>1. f \in [0 .. L -> Nat] /\ f[r] = p[r] + Len(es) /\ \A k \in 0 .. L : k # r => f[k] = p[k]
        BY <1>4, <1>6
    <2> HIDE DEF f
    <2> QED BY <2>1
<1> HIDE DEF es
<1>12. x_LinkOK(sizes, b, q, n)'
    <2>1. x_ReadLen(r) = Len(es) /\ x_ReadLen(r)' = 0 /\ x_MsgLen(n)' = x_MsgLen(n)
        BY <1>2, <1>4, <1>8, <1>9 DEF x_ReadLen, x_MsgLen, es
    <2>2. x_MsgLen(n) \in Nat
        <3>1. x_message[n] # << >> => x_message[n] \in Message(sizes, b)
            BY <1>4 DEF x_Types
        <3> QED BY <3>1 DEF x_MsgLen, Message
    <2>3. p[r] + Len(es) + x_MsgLen(n) = p[n]
        BY <1>1, <1>4, <2>1 DEF x_LinkOK
    <2>4. q[r] = p[r] + Len(es) /\ q[n] = p[n]
        BY <1>4, <1>11
    <2>5. q[n + 1] + x_ReadLen(n + 1)' + x_MsgLen(n)' = q[n]
        <3>1. q[r] + 0 + x_MsgLen(n) = q[n]
            BY <1>4, <1>6, <2>2, <2>3, <2>4
        <3> QED BY <1>1, <2>1, <3>1
    <2>6. /\ x_message'[n] = x_message[n] /\ x_offered'[n] = x_offered[n] /\ x_notified'[n] = x_notified[n]
          /\ x_reading'[n + 1] = << >> /\ x_bufs' = x_bufs /\ x_Offer(n)' = x_Offer(n)
        <3>1. x_held'[n] = x_held[n] /\ (n = 0 => x_held'[0] = x_held[0])
            BY <1>4, <1>8
        <3> QED BY <1>1, <1>2, <1>4, <1>8, <1>9, <3>1 DEF x_Offer
    <2>7. q[n + 1] + x_ReadLen(n + 1)' = p[n + 1] + x_ReadLen(n + 1)
        <3>1. q[r] + 0 = p[r] + Len(es)
            BY <1>4, <1>6, <2>4
        <3> QED BY <1>1, <2>1, <3>1
    <2>8. x_message[n] # << >> =>
              /\ x_offered[n] /\ ~x_notified[n] /\ x_message[n].buf = x_Offer(n)
              /\ Package(sizes, b, cs, p[n + 1] + x_ReadLen(n + 1), x_message[n].chunks, x_bufs[n][x_Offer(n)])
        BY <1>4 DEF x_LinkOK, cs
    <2>9. x_message'[n] # << >> =>
              /\ x_offered'[n] /\ ~x_notified'[n] /\ x_message'[n].buf = x_Offer(n)'
              /\ Package(sizes, b, cs, q[n + 1] + x_ReadLen(n + 1)', x_message'[n].chunks, x_bufs'[n][x_Offer(n)'])
        BY <2>6, <2>7, <2>8
    <2>10. x_offered'[n] /\ ~x_notified'[n] => x_message'[n] # << >>
        BY <1>1, <1>2, <1>4, <2>6 DEF x_LinkOK
    <2> QED BY <2>5, <2>6, <2>9, <2>10 DEF x_LinkOK, cs
<1>13. ASSUME r < L PROVE x_LinkOK(sizes, b, q, r)'
    <2>1. r \in 0 .. L - 1 /\ r + 1 \in 1 .. L /\ r + 1 \in 0 .. L /\ r + 1 # r
        BY <1>13
    <2>2. x_LinkOK(sizes, b, p, r)
        BY <1>3, <2>1 DEF x_At
    <2>3. x_message[r] = << >> /\ (x_reading[r + 1] # << >> => x_copied[r + 1])
        BY <1>2, <2>2, x_OfferIsOver
    <2>4. x_MsgLen(r) = 0 /\ x_MsgLen(r)' = Len(es) /\ x_ReadLen(r + 1)' = x_ReadLen(r + 1) /\ x_Offer(r)' = 1 - i
        BY <1>4, <1>7, <1>8, <1>9, <1>13, <2>1, <2>3 DEF x_MsgLen, x_ReadLen, x_Offer
    <2>5. x_ReadLen(r + 1) \in Nat /\ p[r + 1] \in Nat /\ q[r + 1] = p[r + 1]
        <3>1. x_reading[r + 1] # << >> => x_reading[r + 1] \in Message(sizes, b)
            BY <1>4, <2>1 DEF x_Types
        <3>2. x_ReadLen(r + 1) \in Nat
            BY <3>1 DEF x_ReadLen, Message
        <3> QED BY <1>4, <1>11, <2>1, <3>2
    <2>6. p[r + 1] + x_ReadLen(r + 1) = p[r]
        <3>1. p[r + 1] + x_ReadLen(r + 1) + x_MsgLen(r) = p[r]
            BY <2>2 DEF x_LinkOK
        <3> QED BY <2>4, <2>5, <3>1
    <2>7. q[r + 1] + x_ReadLen(r + 1)' = p[r]
        BY <2>4, <2>5, <2>6
    <2>8. q[r + 1] + x_ReadLen(r + 1)' + x_MsgLen(r)' = q[r]
        BY <1>4, <1>11, <2>4, <2>7
    <2>9. x_held'[r + 1] = x_held[r + 1] /\ x_reading'[r + 1] = x_reading[r + 1] /\ x_copied' = x_copied /\ x_bufs' = x_bufs
        BY <1>2, <1>8, <2>1
    <2>10. x_reading'[r + 1] # << >> =>
              /\ x_copied'[r + 1]
              /\ Package(sizes, b, cs, q[r + 1], x_reading'[r + 1].chunks, x_bufs'[r + 1][1 - x_held'[r + 1]])
        BY <2>2, <2>3, <2>5, <2>9 DEF x_LinkOK, cs
    <2>11. /\ x_message'[r] # << >> /\ x_offered'[r] /\ ~x_notified'[r] /\ x_message'[r].buf = x_Offer(r)'
           /\ Package(sizes, b, cs, q[r + 1] + x_ReadLen(r + 1)', x_message'[r].chunks, x_bufs'[r][x_Offer(r)'])
        BY <1>6, <1>7, <1>9, <1>13, <2>4, <2>7, <2>9 DEF es
    <2> QED BY <2>8, <2>10, <2>11 DEF x_LinkOK, cs
<1>14. ASSUME NEW k \in 0 .. L - 1 PROVE x_LinkOK(sizes, b, q, k)'
    <2>1. CASE k = n
        BY <1>12, <2>1
    <2>2. CASE k = r
        BY <1>13, <2>2
    <2>3. CASE k # n /\ k # r
        <3>1. k + 1 # r /\ k + 1 \in 1 .. L /\ k \in 0 .. L /\ k + 1 \in 0 .. L
            BY <1>1, <2>3
        <3>2. x_Offer(k)' = x_Offer(k)
            <4>1. x_held'[k] = x_held[k] /\ (k = 0 => x_held'[0] = x_held[0])
                BY <1>8, <2>3, <3>1
            <4> QED BY <4>1 DEF x_Offer
        <3>3. UNCHANGED x_OfLink(k) /\ q[k] = p[k] /\ q[k + 1] = p[k + 1]
            BY <1>2, <1>8, <1>9, <1>11, <2>3, <3>1, <3>2 DEF x_OfLink
        <3> QED BY <1>3, <3>3, x_LinkStays DEF x_At
    <2> QED BY <2>1, <2>2, <2>3
<1>15. x_NodeOK(sizes, b, q, r)'
    <2>1. Handing(sizes, b, cs, p[r] - Len(<< >>), << >>, << >>, i, x_bufs[r][i], x_merge[r])
        BY <1>2, <1>4 DEF x_NodeOK, cs, i
    <2>2. p[r] - Len(<< >>) = p[r]
        BY <1>4
    <2>3. x_merge[r] = Progress(sizes, cs, p[r])
        BY <2>1, <2>2, HandedOver
    <2>4. Handing(sizes, b, cs, p[r], es, << >>, 1 - i, x_bufs[r][1 - i], x_merge[r])
        BY <1>5, <1>6, <2>3, HandingBegins
    <2>5. q[r] - Len(es) = p[r]
        BY <1>4, <1>6, <1>11
    <2> QED BY <1>2, <1>8, <2>4, <2>5 DEF x_NodeOK, cs
<1>16. ASSUME NEW s \in 1 .. L PROVE x_NodeOK(sizes, b, q, s)'
    <2>1. CASE s = r
        BY <1>15, <2>1
    <2>2. CASE s # r
        <3>1. UNCHANGED x_OfNode(s) /\ q[s] = p[s]
            BY <1>2, <1>8, <1>11, <2>2 DEF x_OfNode
        <3> QED BY <1>3, <3>1, x_NodeStays DEF x_At
    <2> QED BY <2>1, <2>2
<1>17. x_At(sizes, b, L, q)'
    <2>1. 0 \in 0 .. L /\ 0 # r
        OBVIOUS
    <2>2. x_Sent' = x_Sent /\ x_held'[0] = x_held[0] /\ q[0] = p[0]
        BY <1>2, <1>8, <1>11, <2>1 DEF x_Sent
    <2> QED BY <1>2, <1>3, <1>11, <1>14, <1>16, <2>2 DEF x_At
<1> QED BY <1>10, <1>17 DEF x_Inv

(* What a step may do to the buffers in use, and to what the nodes have     *)
(* been given.                                                              *)
x_Respects(L) ==
    /\ \A n \in 0 .. L - 1 :
          /\ x_message[n] # << >> => x_bufs'[n][x_message[n].buf] = x_bufs[n][x_message[n].buf]
          /\ x_reading[n + 1] # << >> /\ ~x_copied[n + 1] =>
                x_bufs'[n][x_reading[n + 1].buf] = x_bufs[n][x_reading[n + 1].buf]
    /\ \A r \in 1 .. L : \A i \in DOMAIN x_reads[r] :
          x_bufs'[r][x_reads[r][i].buf] = x_bufs[r][x_reads[r][i].buf]
x_GivesOne(sizes, L, r) ==
    /\ \E w \in Nat : /\ w < Len(sizes) /\ x_merge[r].yielded = Wholes(sizes, w)
                      /\ x_merge'[r].yielded = Wholes(sizes, w + 1)
    /\ \A s \in 1 .. L : s # r => x_merge'[s] = x_merge[s]
x_Gives(sizes, L) ==
    \/ \A r \in 1 .. L : x_merge'[r].yielded = x_merge[r].yielded
    \/ \E r \in 1 .. L : x_GivesOne(sizes, L, r)

(* The buckets in use are the one a node offers and the one it hands out.   *)
LEMMA x_InUse ==
    ASSUME NEW sizes, NEW b, NEW L \in Nat \ {0}, x_Inv(sizes, b, L),
           \A n \in 0 .. L - 1 : x_bufs'[n][x_Offer(n)] = x_bufs[n][x_Offer(n)],
           \A r \in 1 .. L : x_bufs'[r][x_held[r]] = x_bufs[r][x_held[r]]
    PROVE  x_Respects(L)
<1>1. PICK p : x_At(sizes, b, L, p)
    BY DEF x_Inv
<1>2. ASSUME NEW n \in 0 .. L - 1
      PROVE  /\ x_message[n] # << >> => x_message[n].buf = x_Offer(n)
             /\ x_reading[n + 1] # << >> /\ ~x_copied[n + 1] => x_reading[n + 1].buf = x_Offer(n)
    <2>1. x_LinkOK(sizes, b, p, n)
        BY <1>1 DEF x_At
    <2> QED BY <2>1 DEF x_LinkOK
<1>3. ASSUME NEW r \in 1 .. L, NEW i \in DOMAIN x_reads[r] PROVE x_reads[r][i].buf = x_held[r]
    <2> DEFINE k == p[r] - Len(x_todo[r])
    <2>1. Handing(sizes, b, Cut(sizes, b)!Chunks, k, x_todo[r], x_reads[r], x_held[r],
                  x_bufs[r][x_held[r]], x_merge[r])
        BY <1>1 DEF x_At, x_NodeOK
    <2> HIDE DEF k
    <2>2. /\ x_reads[r] \in Seq(CopyOutOf(sizes, b))
          /\ CopiedOut(Cut(sizes, b)!Chunks, k - Len(x_reads[r]), x_reads[r], x_held[r], b, x_bufs[r][x_held[r]])
        BY <2>1 DEF Handing
    <2>3. i \in 1 .. Len(x_reads[r])
        BY <2>2
    <2> QED BY <2>2, <2>3 DEF CopiedOut
<1> QED BY <1>2, <1>3 DEF x_Respects

LEMMA x_NothingWritten ==
    ASSUME NEW L, x_bufs' = x_bufs
    PROVE  x_Respects(L)
BY DEF x_Respects

LEMMA x_Step ==
    ASSUME NEW sizes \in Lengths, Len(sizes) > 0, NEW b \in Nat \ {0}, NEW L \in Nat \ {0},
           x_Inv(sizes, b, L), NixlOf(sizes, b, L)!Next
    PROVE  x_Inv(sizes, b, L)' /\ x_Respects(L) /\ x_Gives(sizes, L)
<1> USE DEF NixlOf!sender, NixlOf!receiver, NixlOf!offers
<1>1. CASE NixlOf(sizes, b, L)!FillChunk
    <2>1. x_bufs' = x_bufs /\ x_merge' = x_merge
        BY <1>1, Zenon DEF NixlOf!FillChunk
    <2> QED BY <1>1, <2>1, x_FillStep, x_NothingWritten DEF x_Gives
<1>2. CASE NixlOf(sizes, b, L)!WriteRuns
    <2>1. x_merge' = x_merge
        BY <1>2, Zenon DEF NixlOf!WriteRuns
    <2>2. /\ x_Inv(sizes, b, L)' /\ x_bufs'[0][1 - x_held[0]] = x_bufs[0][1 - x_held[0]]
          /\ \A n \in 1 .. L : x_bufs'[n] = x_bufs[n]
        BY <1>2, x_WriteStep
    <2>3. ASSUME NEW n \in 0 .. L - 1 PROVE x_bufs'[n][x_Offer(n)] = x_bufs[n][x_Offer(n)]
        <3>1. n = 0 \/ n \in 1 .. L
            OBVIOUS
        <3> QED BY <2>2, <3>1 DEF x_Offer
    <2>4. x_Respects(L)
        BY <2>2, <2>3, x_InUse
    <2> QED BY <2>1, <2>2, <2>4 DEF x_Gives
<1>3. CASE NixlOf(sizes, b, L)!OfferFull \/ NixlOf(sizes, b, L)!OfferLast
    <2>1. PICK last \in BOOLEAN : NixlOf(sizes, b, L)!OfferBucket(last)
        BY <1>3, Zenon DEF NixlOf!OfferFull, NixlOf!OfferLast
    <2>2. x_bufs' = x_bufs /\ x_merge' = x_merge
        BY <2>1, Zenon DEF NixlOf!OfferBucket
    <2> QED BY <2>1, <2>2, x_OfferStep, x_NothingWritten DEF x_Gives
<1>4. ASSUME NEW r \in 1 .. L, NixlOf(sizes, b, L)!BeginRead(r)
      PROVE  x_Inv(sizes, b, L)' /\ x_Respects(L) /\ x_Gives(sizes, L)
    <2>1. x_bufs' = x_bufs /\ x_merge' = x_merge
        BY <1>4, Zenon DEF NixlOf!BeginRead
    <2> QED BY <1>4, <2>1, x_BeginReadStep, x_NothingWritten DEF x_Gives
<1>5. ASSUME NEW r \in 1 .. L, NixlOf(sizes, b, L)!RemoteRead(r)
      PROVE  x_Inv(sizes, b, L)' /\ x_Respects(L) /\ x_Gives(sizes, L)
    <2>1. x_merge' = x_merge
        BY <1>5, Zenon DEF NixlOf!RemoteRead
    <2>2. /\ x_Inv(sizes, b, L)' /\ x_bufs'[r][x_held[r]] = x_bufs[r][x_held[r]]
          /\ \A n \in 0 .. L : n # r => x_bufs'[n] = x_bufs[n]
        BY <1>5, x_RemoteReadStep
    <2>3. ASSUME NEW n \in 0 .. L - 1 PROVE x_bufs'[n][x_Offer(n)] = x_bufs[n][x_Offer(n)]
        <3>1. n \in 0 .. L /\ r # 0
            OBVIOUS
        <3>2. CASE n = r
            BY <2>2, <3>1, <3>2 DEF x_Offer
        <3>3. CASE n # r
            BY <2>2, <3>1, <3>3
        <3> QED BY <3>2, <3>3
    <2>4. ASSUME NEW s \in 1 .. L PROVE x_bufs'[s][x_held[s]] = x_bufs[s][x_held[s]]
        <3>1. s \in 0 .. L
            OBVIOUS
        <3> QED BY <2>2, <3>1
    <2>5. x_Respects(L)
        BY <2>3, <2>4, x_InUse
    <2> QED BY <2>1, <2>2, <2>5 DEF x_Gives
<1>6. ASSUME NEW r \in 1 .. L, NixlOf(sizes, b, L)!Yield(r)
      PROVE  x_Inv(sizes, b, L)' /\ x_Respects(L) /\ x_Gives(sizes, L)
    <2>1. x_bufs' = x_bufs /\ x_merge' = x_merge
        BY <1>6, Zenon DEF NixlOf!Yield
    <2> QED BY <1>6, <2>1, x_YieldStep, x_NothingWritten DEF x_Gives
<1>7. ASSUME NEW r \in 1 .. L, NixlOf(sizes, b, L)!ReadRuns(r)
      PROVE  x_Inv(sizes, b, L)' /\ x_Respects(L) /\ x_Gives(sizes, L)
    <2>1. x_bufs' = x_bufs
        BY <1>7, Zenon DEF NixlOf!ReadRuns
    <2>2. /\ x_Inv(sizes, b, L)'
          /\ \/ x_merge'[r].yielded = x_merge[r].yielded
             \/ \E w \in Nat : /\ w < Len(sizes) /\ x_merge[r].yielded = Wholes(sizes, w)
                               /\ x_merge'[r].yielded = Wholes(sizes, w + 1)
          /\ \A s \in 1 .. L : s # r => x_merge'[s] = x_merge[s]
        BY <1>7, x_ReadStep
    <2>3. x_Gives(sizes, L)
        <3>1. CASE x_merge'[r].yielded = x_merge[r].yielded
            BY <2>2, <3>1 DEF x_Gives
        <3>2. CASE x_merge'[r].yielded # x_merge[r].yielded
            <4>1. x_GivesOne(sizes, L, r)
                BY <2>2, <3>2, Zenon DEF x_GivesOne
            <4> QED BY <4>1 DEF x_Gives
        <3> QED BY <3>1, <3>2
    <2> QED BY <2>1, <2>2, <2>3, x_NothingWritten
<1>8. ASSUME NEW r \in 1 .. L, NixlOf(sizes, b, L)!NextRound(r)
      PROVE  x_Inv(sizes, b, L)' /\ x_Respects(L) /\ x_Gives(sizes, L)
    <2>1. x_bufs' = x_bufs /\ x_merge' = x_merge
        BY <1>8, Zenon DEF NixlOf!NextRound, NixlOf!Swap
    <2> QED BY <1>8, <2>1, x_NextRoundStep, x_NothingWritten DEF x_Gives
<1>9. ASSUME NEW r \in 1 .. L, NixlOf(sizes, b, L)!Finish(r)
      PROVE  x_Inv(sizes, b, L)' /\ x_Respects(L) /\ x_Gives(sizes, L)
    <2>1. x_bufs' = x_bufs /\ x_merge' = x_merge
        BY <1>9, Zenon DEF NixlOf!Finish
    <2> QED BY <1>9, <2>1, x_FinishStep, x_NothingWritten DEF x_Gives
<1> QED BY <1>1, <1>2, <1>3, <1>4, <1>5, <1>6, <1>7, <1>8, <1>9, Zenon
        DEF NixlOf!Next, NixlOf!Sender, NixlOf!Receiver, NixlOf!Receivers

LEMMA NixlSets ==
    ASSUME NEW sizes \in Lengths, NEW b \in Nat \ {0}, NEW L
    PROVE  /\ NixlOf(sizes, b, L)!Buffer = BufferOf(sizes, b)
           /\ EntryOf(sizes, b) \subseteq NixlOf(sizes, b, L)!Entry
<1>1. NixlOf(sizes, b, L)!Buffer = BufferOf(sizes, b)
    BY Zenon DEF NixlOf!Buffer, NixlOf!AllBytes, NixlOf!Weights, BufferOf, BytesOfAll
<1>2. DOMAIN sizes = 1 .. Len(sizes)
    BY DEF Lengths
<1>3. EntryOf(sizes, b) \subseteq [chunk : [name : DOMAIN sizes, from : Nat, size : Nat], offset : 0 .. b - 1]
    BY <1>2 DEF EntryOf, ChunkOf
<1>4. NixlOf(sizes, b, L)!Entry = [chunk : [name : DOMAIN sizes, from : Nat, size : Nat], offset : 0 .. b - 1]
    BY Zenon DEF NixlOf!Entry, NixlOf!Chunk, NixlOf!Weights
<1> QED BY <1>1, <1>3, <1>4

LEMMA x_InvImplies ==
    ASSUME NEW sizes \in Lengths, Len(sizes) > 0, NEW b \in Nat \ {0}, NEW L \in Nat \ {0}, x_Inv(sizes, b, L)
    PROVE  NixlOf(sizes, b, L)!TypeOK /\ NixlOf(sizes, b, L)!AssertionsHold
<1> DEFINE cs == Cut(sizes, b)!Chunks
           E == NixlOf(sizes, b, L)!Entry
<1>0. PICK p : x_At(sizes, b, L, p)
    BY DEF x_Inv
<1>1. /\ Filling(sizes, b, cs, x_Sent, x_meta, x_offset, x_writes, x_held[0], x_bufs[0][x_held[0]])
      /\ x_Types(sizes, b, L)
    BY <1>0 DEF x_Inv, x_At
<1>2. Len(cs) \in Nat
    BY ChunksRun DEF RunsFromTo
<1>3. NixlOf(sizes, b, L)!Chunks = cs
    BY NixlOperators
<1>4. \A es : es \in Seq(EntryOf(sizes, b)) => es \in Seq(E)
    <2> HIDE DEF E
    <2> SUFFICES ASSUME NEW es \in Seq(EntryOf(sizes, b)) PROVE es \in Seq(E)
        OBVIOUS
    <2>1. EntryOf(sizes, b) \subseteq E
        BY NixlSets DEF E
    <2>2. \A i \in 1 .. Len(es) : es[i] \in E
        BY <2>1, ElementOfSeq
    <2> QED BY <2>2
<1> HIDE DEF cs
<1>5. x_next \in 1 .. Len(cs) + 1
    <2>1. x_Sent \in Nat /\ Len(x_meta) \in Nat /\ x_Sent + Len(x_meta) <= Len(cs) /\ x_next \in Nat
        BY <1>1 DEF Filling, x_Types
    <2>2. x_next = x_Sent + Len(x_meta) + 1
        BY <2>1 DEF x_Sent
    <2> QED BY <1>2, <2>1, <2>2
<1>6. x_meta \in Seq(E) /\ x_offset \in 0 .. b /\ \A r \in 1 .. L : x_todo[r] \in Seq(E)
    <2>1. x_meta \in Seq(EntryOf(sizes, b)) /\ x_offset \in 0 .. b
        BY <1>1 DEF Filling
    <2>2. \A r \in 1 .. L : x_todo[r] \in Seq(EntryOf(sizes, b))
        BY <1>1 DEF x_Types
    <2> HIDE DEF E
    <2> QED BY <1>4, <2>1, <2>2
<1>7. /\ x_held \in [0 .. L -> 0 .. 1] /\ x_bufs \in [0 .. L -> [0 .. 1 -> BufferOf(sizes, b)]]
      /\ x_offered \in [0 .. L -> BOOLEAN] /\ x_notified \in [0 .. L -> BOOLEAN]
      /\ \A n \in 0 .. L : x_notified[n] => x_offered[n]
      /\ x_pc \in [1 .. L -> {"first", "yield", "done"}] /\ x_copied \in [1 .. L -> BOOLEAN]
    BY <1>1 DEF x_Types
<1>8. NixlOf(sizes, b, L)!Buffer = BufferOf(sizes, b)
    BY NixlSets
<1> HIDE DEF E
<1>9. NixlOf(sizes, b, L)!TypeOK
    BY <1>3, <1>5, <1>6, <1>7, <1>8, Zenon DEF NixlOf!TypeOK, NixlOf!Ranks, NixlOf!Receivers, E
<1>10. ASSUME NEW r \in 1 .. L PROVE ~x_merge[r].failed
    <2>1. \E k : x_merge[r] = Progress(sizes, cs, k)
        BY <1>0 DEF x_At, x_NodeOK, Handing, cs
    <2> QED BY <2>1, ProgressIsSound
<1>11. ASSUME NEW n \in 0 .. L - 1, x_offered[n] /\ ~x_notified[n]
       PROVE  x_message[n] # << >> \/ (x_reading[n + 1] # << >> /\ ~x_copied[n + 1])
    <2>1. x_LinkOK(sizes, b, p, n)
        BY <1>0 DEF x_At
    <2> QED BY <1>11, <2>1 DEF x_LinkOK
<1> QED BY <1>9, <1>10, <1>11, Zenon DEF NixlOf!AssertionsHold, NixlOf!Receivers

LEMMA NixlChunks == Nixl!Chunks = NixlOf(TheSizes, 2, 3)!Chunks
BY Zenon DEF Nixl!Chunks, Nixl!ChunksOf, Nixl!Lesser, NixlOf!Chunks, NixlOf!ChunksOf, NixlOf!Lesser, TheSizes

LEMMA NixlInit == Nixl!Init <=> NixlOf(TheSizes, 2, 3)!Init
BY Zenon DEF Nixl!Init, Nixl!Each, Nixl!NoBucket, Nixl!EmptyBuffer, Nixl!NoMerge, Nixl!Ranks, Nixl!Receivers,
         NixlOf!Init, NixlOf!Each, NixlOf!NoBucket, NixlOf!EmptyBuffer, NixlOf!NoMerge, NixlOf!Ranks, NixlOf!Receivers

LEMMA NixlSender == Nixl!Sender <=> NixlOf(TheSizes, 2, 3)!Sender
<1> USE DEF Nixl!offers, Nixl!receiver, NixlOf!offers, NixlOf!receiver
<1>1. Nixl!FillChunk <=> NixlOf(TheSizes, 2, 3)!FillChunk
    BY NixlChunks, Zenon DEF Nixl!FillChunk, Nixl!Fits, NixlOf!FillChunk, NixlOf!Fits
<1>2. Nixl!WriteRuns <=> NixlOf(TheSizes, 2, 3)!WriteRuns
    BY Zenon DEF Nixl!WriteRuns, Nixl!Written, Nixl!BytesOf, Nixl!Bytes, Nixl!BytesOfWeight,
          NixlOf!WriteRuns, NixlOf!Written, NixlOf!BytesOf, NixlOf!Bytes, NixlOf!BytesOfWeight, TheSizes
<1>3. \A last : Nixl!OfferBucket(last) <=> NixlOf(TheSizes, 2, 3)!OfferBucket(last)
    BY Zenon DEF Nixl!OfferBucket, Nixl!OfferOver, Nixl!Offers, NixlOf!OfferBucket, NixlOf!OfferOver, NixlOf!Offers
<1>4. /\ Nixl!OfferFull <=> NixlOf(TheSizes, 2, 3)!OfferFull
      /\ Nixl!OfferLast <=> NixlOf(TheSizes, 2, 3)!OfferLast
    BY <1>3, NixlChunks, Zenon DEF Nixl!OfferFull, Nixl!OfferLast, Nixl!Fits,
          NixlOf!OfferFull, NixlOf!OfferLast, NixlOf!Fits
<1> QED BY <1>1, <1>2, <1>4, Zenon DEF Nixl!Sender, NixlOf!Sender

LEMMA NixlReceiver ==
    ASSUME NEW r PROVE Nixl!Receiver(r) <=> NixlOf(TheSizes, 2, 3)!Receiver(r)
<1> USE DEF Nixl!sender, NixlOf!sender, Nixl!offers, NixlOf!offers
<1>1. Nixl!BeginRead(r) <=> NixlOf(TheSizes, 2, 3)!BeginRead(r)
    BY Zenon DEF Nixl!BeginRead, NixlOf!BeginRead
<1>2. Nixl!RemoteRead(r) <=> NixlOf(TheSizes, 2, 3)!RemoteRead(r)
    BY Zenon DEF Nixl!RemoteRead, NixlOf!RemoteRead
<1>3. Nixl!Yield(r) <=> NixlOf(TheSizes, 2, 3)!Yield(r)
    BY Zenon DEF Nixl!Yield, NixlOf!Yield
<1>4. Nixl!ReadRuns(r) <=> NixlOf(TheSizes, 2, 3)!ReadRuns(r)
    BY Zenon DEF Nixl!ReadRuns, Nixl!Merged, Nixl!NoMerge, Nixl!Stretch,
          NixlOf!ReadRuns, NixlOf!Merged, NixlOf!NoMerge, NixlOf!Stretch, TheSizes
<1>5. Nixl!NextRound(r) <=> NixlOf(TheSizes, 2, 3)!NextRound(r)
    BY Zenon DEF Nixl!NextRound, Nixl!RoundOver, Nixl!OfferOver, Nixl!Swap, Nixl!Offers,
          NixlOf!NextRound, NixlOf!RoundOver, NixlOf!OfferOver, NixlOf!Swap, NixlOf!Offers
<1>6. Nixl!Finish(r) <=> NixlOf(TheSizes, 2, 3)!Finish(r)
    BY Zenon DEF Nixl!Finish, Nixl!OfferOver, NixlOf!Finish, NixlOf!OfferOver
<1> QED BY <1>1, <1>2, <1>3, <1>4, <1>5, <1>6, Zenon DEF Nixl!Receiver, NixlOf!Receiver

LEMMA NixlNext == Nixl!Next <=> NixlOf(TheSizes, 2, 3)!Next
<1>1. \A r : Nixl!Receiver(r) <=> NixlOf(TheSizes, 2, 3)!Receiver(r)
    BY NixlReceiver, Zenon
<1> QED BY <1>1, NixlSender, Zenon DEF Nixl!Next, NixlOf!Next, Nixl!Receivers, NixlOf!Receivers

LEMMA NixlStates ==
    /\ NixlOf(TheSizes, 2, 3)!TypeOK => Nixl!TypeOK
    /\ NixlOf(TheSizes, 2, 3)!AssertionsHold => Nixl!AssertionsHold
<1> USE DEF Nixl!Ranks, Nixl!Receivers, NixlOf!Ranks, NixlOf!Receivers
<1>1. Nixl!Entry = NixlOf(TheSizes, 2, 3)!Entry /\ Nixl!Buffer = NixlOf(TheSizes, 2, 3)!Buffer
    BY Zenon DEF Nixl!Entry, Nixl!Chunk, Nixl!Weights, Nixl!Buffer, Nixl!AllBytes,
          NixlOf!Entry, NixlOf!Chunk, NixlOf!Weights, NixlOf!Buffer, NixlOf!AllBytes, TheSizes
<1>2. NixlOf(TheSizes, 2, 3)!TypeOK => Nixl!TypeOK
    BY <1>1, NixlChunks, Zenon DEF Nixl!TypeOK, NixlOf!TypeOK
<1>3. NixlOf(TheSizes, 2, 3)!AssertionsHold => Nixl!AssertionsHold
    BY Zenon DEF Nixl!AssertionsHold, NixlOf!AssertionsHold
<1> QED BY <1>2, <1>3
-----------------------------------------------------------------------------
(* Weights packed whole.  An item is a name with a place in the buffer, or  *)
(* with a handle to the weight itself.                                      *)
ItemOf(sizes, b) == [name : 1 .. Len(sizes), offset : 0 .. b - 1, handle : BOOLEAN]
InPlace(sizes, buf, e) == \A p \in 0 .. sizes[e.name] - 1 : buf[e.offset + p] = <<e.name, p>>

(* What was sent: the weights after the first k, and the buffer holds them. *)
Sent(sizes, b, k, es, buf) ==
    /\ k \in Nat /\ es \in Seq(ItemOf(sizes, b)) /\ k + Len(es) <= Len(sizes)
    /\ \A j \in 1 .. Len(es) : es[j].name = k + j /\ (~es[j].handle => InPlace(sizes, buf, es[j]))

(* What is packed: the weights after the first k lie one behind the other,  *)
(* and the buffer holds all but those whose copies ws are still queued.     *)
Covered(sizes, k, es, end) ==
    \A j \in 1 .. Len(es) : /\ es[j].name = k + j /\ es[j].handle = FALSE
                            /\ es[j].offset + sizes[k + j] <= end
Apart(sizes, k, es) ==
    \A j, l \in 1 .. Len(es) : j < l => es[j].offset + sizes[k + j] <= es[l].offset
LastOnes(ws, g, es) == \A j \in 1 .. Len(ws) : ws[j] = es[g + j]
FirstInPlace(sizes, buf, g, es) == \A j \in 1 .. g : InPlace(sizes, buf, es[j])
Packing(sizes, b, k, es, end, ws, buf) ==
    /\ k \in Nat /\ es \in Seq(ItemOf(sizes, b)) /\ k + Len(es) <= Len(sizes)
    /\ end \in 0 .. b /\ ws \in Seq(ItemOf(sizes, b)) /\ Len(ws) <= Len(es)
    /\ Covered(sizes, k, es, end) /\ Apart(sizes, k, es)
    /\ LastOnes(ws, Len(es) - Len(ws), es)
    /\ FirstInPlace(sizes, buf, Len(es) - Len(ws), es)

LEMMA PackingBegins ==
    ASSUME NEW sizes, NEW b \in Nat, NEW k \in Nat, k <= Len(sizes), NEW end \in 0 .. b, NEW buf
    PROVE  Packing(sizes, b, k, << >>, end, << >>, buf)
BY DEF Packing, Covered, Apart, LastOnes, FirstInPlace

LEMMA PackedIsSent ==
    ASSUME NEW sizes, NEW b \in Nat, NEW k, NEW es, NEW end, NEW buf,
           Packing(sizes, b, k, es, end, << >>, buf)
    PROVE  Sent(sizes, b, k, es, buf)
<1>1. /\ es \in Seq(ItemOf(sizes, b)) /\ k \in Nat /\ k + Len(es) <= Len(sizes)
      /\ Covered(sizes, k, es, end) /\ FirstInPlace(sizes, buf, Len(es) - 0, es)
    BY DEF Packing
<1>2. Len(es) - 0 = Len(es)
    BY <1>1
<1>3. FirstInPlace(sizes, buf, Len(es), es)
    BY <1>1, <1>2, Zenon
<1> QED BY <1>1, <1>3, Zenon DEF Sent, Covered, FirstInPlace

LEMMA OneIsSent ==
    ASSUME NEW sizes, NEW b \in Nat \ {0}, NEW k \in Nat, k + 1 <= Len(sizes), NEW buf, NEW e,
           e = [name |-> k + 1, offset |-> 0, handle |-> TRUE], Len(sizes) \in Nat
    PROVE  Sent(sizes, b, k, << e >>, buf) /\ Len(<< e >>) = 1
<1>1. e \in ItemOf(sizes, b) /\ e.name = k + 1 /\ e.handle = TRUE
    BY DEF ItemOf
<1>2. << e >> \in Seq(ItemOf(sizes, b)) /\ Len(<< e >>) = 1 /\ << e >>[1] = e
    BY <1>1
<1>3. \A j \in 1 .. Len(<< e >>) : j = 1
    BY <1>2
<1> QED BY <1>1, <1>2, <1>3 DEF Sent

LEMMA ItemsAre ==
    ASSUME NEW sizes \in Lengths, NEW b, NEW k \in Nat, NEW es \in Seq(ItemOf(sizes, b)),
           k + Len(es) <= Len(sizes), NEW j \in 1 .. Len(es)
    PROVE  /\ es[j].offset \in Nat /\ k + j \in 1 .. Len(sizes)
           /\ sizes[k + j] \in Nat /\ sizes[k + j] > 0
<1>1. es[j] \in ItemOf(sizes, b)
    BY ElementOfSeq
<1>2. k + j \in 1 .. Len(sizes) /\ Len(es) \in Nat
    <2>1. Len(sizes) \in Nat /\ Len(es) \in Nat
        BY DEF Lengths
    <2> QED BY <2>1
<1>3. sizes[k + j] \in Nat \ {0}
    BY <1>2, ElementOfSeq DEF Lengths
<1> QED BY <1>1, <1>2, <1>3 DEF ItemOf

LEMMA PackingGoesOn ==
    ASSUME NEW sizes \in Lengths, NEW b \in Nat \ {0},
           NEW k, NEW es, NEW end, NEW ws, NEW buf, NEW w, NEW e,
           Packing(sizes, b, k, es, end, ws, buf),
           k + Len(es) + 1 <= Len(sizes), w = k + Len(es) + 1, end + sizes[w] <= b,
           e = [name |-> w, offset |-> end, handle |-> FALSE]
    PROVE  /\ Packing(sizes, b, k, Append(es, e), end + sizes[w], Append(ws, e), buf)
           /\ Len(Append(es, e)) = Len(es) + 1
<1> DEFINE es2 == Append(es, e)
           ws2 == Append(ws, e)
           l == Len(es)
           E == ItemOf(sizes, b)
           g == Len(es) - Len(ws)
<1>1. /\ k \in Nat /\ es \in Seq(E) /\ l \in Nat /\ end \in 0 .. b
      /\ ws \in Seq(E) /\ Len(ws) \in Nat /\ Len(ws) <= l /\ g \in Nat /\ g <= l
      /\ g + Len(ws) = l /\ k + l <= Len(sizes) /\ Len(sizes) \in Nat
    BY DEF Packing, Lengths
<1>2. w \in 1 .. Len(sizes) /\ sizes[w] \in Nat /\ sizes[w] > 0
    <2>1. w \in 1 .. Len(sizes)
        BY <1>1
    <2>2. sizes[w] \in Nat \ {0}
        BY <2>1, ElementOfSeq DEF Lengths
    <2> QED BY <2>1, <2>2
<1>3. e \in E /\ e.name = w /\ e.offset = end /\ e.handle = FALSE
    BY <1>1, <1>2 DEF ItemOf
<1> HIDE DEF E
<1>4. /\ es2 \in Seq(E) /\ Len(es2) = l + 1
      /\ \A j \in 1 .. l : es2[j] = es[j]
      /\ es2[l + 1] = e
    BY <1>1, <1>3, AppendProperties
<1>5. /\ ws2 \in Seq(E) /\ Len(ws2) = Len(ws) + 1
      /\ \A j \in 1 .. Len(ws) : ws2[j] = ws[j]
      /\ ws2[Len(ws) + 1] = e
    BY <1>1, <1>3, AppendProperties
<1> HIDE DEF es2, ws2
<1>6. Covered(sizes, k, es, end) /\ Apart(sizes, k, es)
    BY DEF Packing
<1>7. \A j \in 1 .. l : es[j].offset \in Nat /\ sizes[k + j] \in Nat
    BY <1>1, ItemsAre DEF E
<1>8. Covered(sizes, k, es2, end + sizes[w])
    <2> SUFFICES ASSUME NEW j \in 1 .. l + 1
                 PROVE  /\ es2[j].name = k + j /\ es2[j].handle = FALSE
                        /\ es2[j].offset + sizes[k + j] <= end + sizes[w]
        BY <1>4 DEF Covered
    <2>1. CASE j = l + 1
        <3>1. k + j = w /\ es2[j] = e
            BY <1>1, <1>4, <2>1
        <3>2. end + sizes[w] <= end + sizes[w]
            BY <1>1, <1>2
        <3> QED BY <1>3, <3>1, <3>2
    <2>2. CASE j # l + 1
        <3>1. j \in 1 .. l
            BY <1>1, <2>2
        <3>2. /\ es2[j] = es[j] /\ es[j].name = k + j /\ es[j].handle = FALSE
              /\ es[j].offset + sizes[k + j] <= end
            BY <1>4, <1>6, <3>1, Zenon DEF Covered
        <3>3. es[j].offset \in Nat /\ sizes[k + j] \in Nat
            BY <1>7, <3>1
        <3>4. \A x, y \in Nat : x + y <= end => x + y <= end + sizes[w]
            BY <1>1, <1>2
        <3> QED BY <3>2, <3>3, <3>4
    <2> QED BY <2>1, <2>2
<1>9. Apart(sizes, k, es2)
    <2> SUFFICES ASSUME NEW j \in 1 .. l + 1, NEW h \in 1 .. l + 1, j < h
                 PROVE  es2[j].offset + sizes[k + j] <= es2[h].offset
        BY <1>4 DEF Apart
    <2>1. j \in 1 .. l /\ es2[j] = es[j]
        BY <1>1, <1>4
    <2>2. CASE h = l + 1
        <3>1. es2[h].offset = end
            BY <1>3, <1>4, <2>2
        <3> QED BY <1>6, <2>1, <3>1 DEF Covered
    <2>3. CASE h # l + 1
        <3>1. h \in 1 .. l
            BY <1>1, <2>3
        <3>2. es2[h] = es[h]
            BY <1>4, <3>1
        <3> QED BY <1>6, <2>1, <3>1, <3>2, Zenon DEF Apart
    <2> QED BY <2>2, <2>3
<1>10. Len(es2) - Len(ws2) = g
    BY <1>1, <1>4, <1>5
<1>11. LastOnes(ws2, g, es2)
    <2>1. LastOnes(ws, g, es)
        BY DEF Packing
    <2> HIDE DEF g
    <2> SUFFICES ASSUME NEW j \in 1 .. Len(ws) + 1 PROVE ws2[j] = es2[g + j]
        BY <1>5 DEF LastOnes
    <2>2. CASE j = Len(ws) + 1
        <3>1. g + j = l + 1
            BY <1>1, <2>2
        <3> QED BY <1>4, <1>5, <2>2, <3>1
    <2>3. CASE j # Len(ws) + 1
        <3>1. j \in 1 .. Len(ws) /\ g + j \in 1 .. l
            BY <1>1, <2>3
        <3>2. ws2[j] = ws[j] /\ es2[g + j] = es[g + j]
            BY <1>4, <1>5, <3>1
        <3> QED BY <2>1, <3>1, <3>2 DEF LastOnes
    <2> QED BY <2>2, <2>3
<1>12. FirstInPlace(sizes, buf, g, es2)
    <2>1. FirstInPlace(sizes, buf, g, es)
        BY DEF Packing
    <2>2. ASSUME NEW j \in 1 .. g PROVE es2[j] = es[j]
        <3>1. j \in 1 .. l
            BY <1>1
        <3> QED BY <1>4, <3>1
    <2> HIDE DEF g
    <2> QED BY <2>1, <2>2 DEF FirstInPlace
<1>13. k + Len(es2) <= Len(sizes) /\ end + sizes[w] \in 0 .. b /\ Len(ws2) <= Len(es2)
    BY <1>1, <1>2, <1>4, <1>5
<1>14. Packing(sizes, b, k, es2, end + sizes[w], ws2, buf)
    BY <1>1, <1>4, <1>5, <1>8, <1>9, <1>10, <1>11, <1>12, <1>13 DEF Packing, E
<1> QED BY <1>4, <1>14 DEF es2, ws2

WholeWeight(sizes, w) == [i \in 1 .. sizes[w] |-> <<w, i - 1>>]

LEMMA CopyWeight ==
    ASSUME NEW sizes \in Lengths, NEW b \in Nat \ {0}, NEW buf \in BufferOf(sizes, b), NEW o \in Nat,
           NEW w \in 1 .. Len(sizes), o + sizes[w] <= b
    PROVE  LET after == Cut(sizes, b)!Written(buf, o, WholeWeight(sizes, w)) IN
           /\ after \in BufferOf(sizes, b)
           /\ \A p \in 0 .. sizes[w] - 1 : after[o + p] = <<w, p>>
           /\ \A q \in 0 .. b - 1 : q < o \/ q >= o + sizes[w] => after[q] = buf[q]
<1> DEFINE c == [name |-> w, from |-> 0, size |-> sizes[w]]
<1>1. sizes[w] \in Nat \ {0}
    BY ElementOfSeq DEF Lengths
<1>2. c.name = w /\ c.from = 0 /\ c.size = sizes[w] /\ sizes[w] \in 1 .. b
    BY <1>1
<1>3. IsChunk(sizes, b, c)
    <2>1. c \in ChunkOf(sizes, b)
        BY <1>2 DEF ChunkOf
    <2> QED BY <1>1, <1>2, <2>1 DEF IsChunk, EndsWeight
<1>4. DataOf(c) = WholeWeight(sizes, w)
    <2>1. \A i \in 1 .. sizes[w] : 0 + i - 1 = i - 1
        BY <1>1
    <2>2. DataOf(c) = [i \in 1 .. sizes[w] |-> <<w, 0 + i - 1>>]
        BY <1>2, Zenon DEF DataOf
    <2> QED BY <2>1, <2>2 DEF WholeWeight
<1> HIDE DEF c
<1>5. /\ Cut(sizes, b)!Written(buf, o, WholeWeight(sizes, w)) = Into(buf, o, c)
      /\ Into(buf, o, c) \in BufferOf(sizes, b)
      /\ Holds(Into(buf, o, c), [chunk |-> c, offset |-> o])
      /\ \A q \in 0 .. b - 1 : q < o \/ q >= o + c.size => Into(buf, o, c)[q] = buf[q]
    <2>1. o + c.size <= b
        BY <1>2
    <2> QED BY <1>3, <1>4, <2>1, CopyOne
<1>6. ASSUME NEW p \in 0 .. sizes[w] - 1 PROVE Into(buf, o, c)[o + p] = <<w, p>>
    <2>1. Into(buf, o, c)[o + p] = <<c.name, c.from + p>>
        BY <1>2, <1>5 DEF Holds
    <2> QED BY <1>2, <2>1
<1> QED BY <1>2, <1>5, <1>6

LEMMA CopyingGoesOn ==
    ASSUME NEW sizes \in Lengths, NEW b \in Nat \ {0},
           NEW k, NEW es, NEW end, NEW ws, NEW buf \in BufferOf(sizes, b),
           Packing(sizes, b, k, es, end, ws, buf), ws # << >>
    PROVE  LET after == Cut(sizes, b)!Written(buf, Head(ws).offset, WholeWeight(sizes, Head(ws).name)) IN
           /\ after \in BufferOf(sizes, b)
           /\ Packing(sizes, b, k, es, end, Tail(ws), after)
<1> DEFINE v == Head(ws)
           after == Cut(sizes, b)!Written(buf, v.offset, WholeWeight(sizes, v.name))
           l == Len(es)
           g == Len(es) - Len(ws)
<1>1. /\ k \in Nat /\ es \in Seq(ItemOf(sizes, b)) /\ l \in Nat /\ end \in 0 .. b
      /\ ws \in Seq(ItemOf(sizes, b)) /\ Len(ws) \in Nat \ {0} /\ Len(ws) <= l /\ g \in Nat
      /\ g + 1 <= l /\ Len(sizes) \in Nat /\ k + l <= Len(sizes)
    BY DEF Packing, Lengths
<1>2. /\ Tail(ws) \in Seq(ItemOf(sizes, b)) /\ Len(Tail(ws)) = Len(ws) - 1
      /\ \A j \in 1 .. Len(Tail(ws)) : Tail(ws)[j] = ws[j + 1]
      /\ v = ws[1]
    BY <1>1, HeadTailProperties
<1>3. PICK h \in 1 .. l : h = g + 1 /\ k + h \in 1 .. Len(sizes)
    <2>1. g + 1 \in 1 .. l /\ k + (g + 1) \in 1 .. Len(sizes)
        BY <1>1
    <2> HIDE DEF g, l
    <2> QED BY <2>1
<1>4. Covered(sizes, k, es, end) /\ Apart(sizes, k, es) /\ FirstInPlace(sizes, buf, g, es)
      /\ LastOnes(ws, g, es)
    BY DEF Packing
<1>5. v = es[h]
    <2>1. 1 \in 1 .. Len(ws)
        BY <1>1
    <2> QED BY <1>2, <1>3, <1>4, <2>1, Zenon DEF LastOnes
<1>6. \A j \in 1 .. l : es[j].offset \in Nat /\ sizes[k + j] \in Nat /\ es[j].name = k + j
    BY <1>1, <1>4, ItemsAre DEF Covered
<1>7. v.name = k + h /\ v.offset \in Nat /\ v.offset + sizes[v.name] <= b
    <2>1. v.name = k + h /\ v.offset \in Nat /\ v.offset + sizes[k + h] <= end /\ sizes[k + h] \in Nat
        BY <1>3, <1>4, <1>5, <1>6, Zenon DEF Covered
    <2>2. v.offset + sizes[k + h] <= b
        BY <1>1, <2>1
    <2> QED BY <2>1, <2>2, Zenon
<1> HIDE DEF v
<1>8. /\ after \in BufferOf(sizes, b)
      /\ \A p \in 0 .. sizes[v.name] - 1 : after[v.offset + p] = <<v.name, p>>
      /\ \A q \in 0 .. b - 1 : q < v.offset \/ q >= v.offset + sizes[v.name] => after[q] = buf[q]
    <2>1. v.name \in 1 .. Len(sizes)
        BY <1>3, <1>7, Zenon
    <2> QED BY <1>7, <2>1, CopyWeight
<1> HIDE DEF after
<1>9. FirstInPlace(sizes, after, g + 1, es)
    <2> SUFFICES ASSUME NEW j \in 1 .. g + 1 PROVE InPlace(sizes, after, es[j])
        BY DEF FirstInPlace
    <2>1. CASE j = g + 1
        <3>1. es[j] = v
            BY <1>3, <1>5, <2>1, Zenon
        <3> QED BY <1>8, <3>1, Zenon DEF InPlace
    <2>2. CASE j # g + 1
        <3>1. j \in 1 .. g /\ j \in 1 .. l /\ j < h
            BY <1>1, <1>3, <2>2
        <3>2. /\ InPlace(sizes, buf, es[j]) /\ es[j].offset + sizes[k + j] <= v.offset
              /\ es[j].offset + sizes[k + j] <= end /\ es[j].name = k + j
            BY <1>3, <1>4, <1>5, <3>1, Zenon DEF FirstInPlace, Apart, Covered
        <3>3. PICK x \in Nat, y \in Nat : x = es[j].offset /\ y = sizes[es[j].name] /\ x + y <= v.offset /\ x + y <= b
            <4>1. es[j].offset \in Nat /\ sizes[k + j] \in Nat
                BY <1>6, <3>1, Zenon
            <4>2. sizes[k + j] = sizes[es[j].name]
                BY <3>2, Zenon
            <4>3. end <= b /\ end \in Nat /\ b \in Nat /\ v.offset \in Nat
                BY <1>1, <1>7
            <4>4. es[j].offset + sizes[k + j] <= b
                BY <3>2, <4>1, <4>3
            <4> QED BY <3>2, <4>1, <4>2, <4>4
        <3>4. ASSUME NEW p \in 0 .. y - 1 PROVE after[x + p] = buf[x + p]
            <4>1. x + p \in 0 .. b - 1 /\ x + p < v.offset
                <5>1. x \in Nat /\ y \in Nat /\ x + y <= v.offset /\ x + y <= b /\ v.offset \in Nat
                    BY <1>7, <3>3
                <5> HIDE DEF g, l
                <5> QED BY <5>1
            <4> QED BY <1>8, <4>1, Zenon
        <3> QED BY <3>2, <3>3, <3>4, Zenon DEF InPlace
    <2> QED BY <2>1, <2>2
<1>10. Len(es) - Len(Tail(ws)) = g + 1
    BY <1>1, <1>2
<1>11. LastOnes(Tail(ws), g + 1, es)
    <2>2. \A j \in 1 .. Len(Tail(ws)) : /\ j + 1 \in 1 .. Len(ws) /\ Tail(ws)[j] = ws[j + 1]
                                        /\ (g + 1) + j = g + (j + 1)
        BY <1>1, <1>2
    <2> HIDE DEF g
    <2> QED BY <1>4, <2>2 DEF LastOnes
<1>12. Packing(sizes, b, k, es, end, Tail(ws), after)
    <2>1. Len(Tail(ws)) <= l
        BY <1>1, <1>2
    <2> HIDE DEF g
    <2> QED BY <1>1, <1>2, <1>4, <1>9, <1>10, <1>11, <2>1 DEF Packing
<1> QED BY <1>8, <1>12 DEF v, after

(* The next weight is loaded from the buffer, or by its handle.             *)
LEMMA LoadingGoesOn ==
    ASSUME NEW sizes \in Lengths, NEW b \in Nat \ {0}, NEW k, NEW es, NEW buf,
           Sent(sizes, b, k, es, buf), es # << >>
    PROVE  LET e == Head(es)
               value == IF e.handle THEN WholeWeight(sizes, e.name)
                        ELSE Cut(sizes, b)!Stretch(buf, e.offset, sizes[e.name]) IN
           /\ value = WholeWeight(sizes, k + 1)
           /\ Sent(sizes, b, k + 1, Tail(es), buf)
           /\ Len(Tail(es)) = Len(es) - 1 /\ k < Len(sizes)
<1> DEFINE e == Head(es)
<1>1. /\ k \in Nat /\ es \in Seq(ItemOf(sizes, b)) /\ Len(es) \in Nat \ {0}
      /\ k + Len(es) <= Len(sizes) /\ Len(sizes) \in Nat
    BY DEF Sent, Lengths
<1>2. /\ Tail(es) \in Seq(ItemOf(sizes, b)) /\ Len(Tail(es)) = Len(es) - 1
      /\ \A j \in 1 .. Len(Tail(es)) : Tail(es)[j] = es[j + 1]
      /\ e = es[1]
    BY <1>1, HeadTailProperties
<1>3. \A j \in 1 .. Len(es) : es[j].name = k + j /\ (~es[j].handle => InPlace(sizes, buf, es[j]))
    BY DEF Sent
<1> HIDE DEF e
<1>4. /\ e.name = k + 1 /\ (~e.handle => InPlace(sizes, buf, e))
      /\ e.offset \in Nat /\ sizes[k + 1] \in Nat
    <2>1. 1 \in 1 .. Len(es)
        BY <1>1
    <2>2. es[1].offset \in Nat /\ sizes[k + 1] \in Nat
        BY <1>1, <2>1, ItemsAre
    <2> QED BY <1>2, <1>3, <2>1, <2>2
<1>5. ASSUME ~e.handle
      PROVE  Cut(sizes, b)!Stretch(buf, e.offset, sizes[e.name]) = WholeWeight(sizes, k + 1)
    <2>1. Cut(sizes, b)!Stretch(buf, e.offset, sizes[e.name])
            = [i \in 1 .. sizes[k + 1] |-> buf[e.offset + i - 1]]
        BY <1>4, Zenon DEF Cut!Stretch
    <2>2. ASSUME NEW i \in 1 .. sizes[k + 1] PROVE buf[e.offset + i - 1] = <<k + 1, i - 1>>
        <3>1. PICK p \in 0 .. sizes[k + 1] - 1 : p = i - 1 /\ e.offset + p = e.offset + i - 1
            BY <1>4
        <3>2. \A q \in 0 .. sizes[k + 1] - 1 : buf[e.offset + q] = <<k + 1, q>>
            BY <1>4, <1>5, Zenon DEF InPlace
        <3> QED BY <3>1, <3>2, Zenon
    <2> QED BY <2>1, <2>2, Zenon DEF WholeWeight
<1>6. Sent(sizes, b, k + 1, Tail(es), buf)
    <2>1. k + 1 \in Nat /\ (k + 1) + Len(Tail(es)) <= Len(sizes)
        BY <1>1, <1>2
    <2>2. ASSUME NEW j \in 1 .. Len(Tail(es))
          PROVE  Tail(es)[j].name = (k + 1) + j /\ (~Tail(es)[j].handle => InPlace(sizes, buf, Tail(es)[j]))
        <3>1. PICK h \in 1 .. Len(es) : h = j + 1 /\ k + h = (k + 1) + j
            BY <1>1, <1>2
        <3>2. Tail(es)[j] = es[h]
            BY <1>2, <3>1, Zenon
        <3> QED BY <1>3, <3>1, <3>2, Zenon
    <2> QED BY <1>2, <2>1, <2>2 DEF Sent
<1>7. k < Len(sizes)
    BY <1>1
<1> QED BY <1>2, <1>4, <1>5, <1>6, <1>7, Zenon DEF e, WholeWeight
-----------------------------------------------------------------------------
(* To the inference process                                                 *)
InferenceOf(models, bucketSize) == INSTANCE BucketedTransfer WITH
    Models <- models, BucketSize <- bucketSize,
    sizes <- b_sizes, useShm <- b_useShm, pcs <- b_pcs, next <- b_next, meta <- b_meta,
    offset <- b_offset, writes <- b_writes, buffer <- b_buffer, request <- b_request,
    reply <- b_reply, pcr <- b_pcr, work <- b_work, loads <- b_loads, got <- b_got

LEMMA InferenceOperators ==
    ASSUME NEW models, NEW b
    PROVE  /\ \A f, o, d : InferenceOf(models, b)!Written(f, o, d) = Cut(b_sizes, b)!Written(f, o, d)
           /\ \A f, o, n : InferenceOf(models, b)!Stretch(f, o, n) = Cut(b_sizes, b)!Stretch(f, o, n)
           /\ \A w : InferenceOf(models, b)!Bytes(w) = WholeWeight(b_sizes, w)
<1>1. \A f, o, d : InferenceOf(models, b)!Written(f, o, d) = Cut(b_sizes, b)!Written(f, o, d)
    BY Zenon DEF InferenceOf!Written, Cut!Written
<1>2. \A f, o, n : InferenceOf(models, b)!Stretch(f, o, n) = Cut(b_sizes, b)!Stretch(f, o, n)
    BY Zenon DEF InferenceOf!Stretch, Cut!Stretch
<1>3. \A w : InferenceOf(models, b)!Bytes(w) = WholeWeight(b_sizes, w)
    BY Zenon DEF InferenceOf!Bytes, InferenceOf!BytesOfWeight, WholeWeight
<1> QED BY <1>1, <1>2, <1>3

(* The weights loaded so far are the first of the model; those after them   *)
(* are packed, in a message, being loaded, or still the generator's.        *)
b_Types(models, b) ==
    /\ b_sizes \in models /\ b_useShm \in BOOLEAN /\ b_buffer \in BufferOf(b_sizes, b)
    /\ Len(b_got) \in Nat /\ b_got = Wholes(b_sizes, Len(b_got))
    /\ b_next \in 1 .. Len(b_sizes) + 1 /\ b_offset \in 0 .. b
    /\ b_meta \in Seq(ItemOf(b_sizes, b)) /\ b_writes \in Seq(ItemOf(b_sizes, b))
    /\ b_loads \in Seq(ItemOf(b_sizes, b))

b_Opening ==
    /\ b_pcs = "setup" /\ b_next = 1 /\ b_meta = << >> /\ b_offset = 0 /\ b_writes = << >>
    /\ b_loads = << >> /\ Len(b_got) = 0
    /\ \/ b_pcr = "setup" /\ b_request # << >> /\ b_reply = FALSE
       \/ b_pcr = "wait" /\ b_request = << >> /\ b_reply = TRUE
b_Filling(b) ==
    /\ b_pcs \in {"fill", "failed"} /\ b_pcr = "wait"
    /\ b_request = << >> /\ b_reply = FALSE /\ b_loads = << >>
    /\ b_next = Len(b_got) + Len(b_meta) + 1
    /\ Packing(b_sizes, b, Len(b_got), b_meta, b_offset, b_writes, b_buffer)
b_Waits(last) ==
    /\ b_pcs = (IF last THEN "end" ELSE "ack") /\ b_writes = << >> /\ last \in BOOLEAN
    /\ IF last THEN b_next = Len(b_sizes) + 1 ELSE b_meta = << >>
b_Asked(b, last) ==
    /\ b_Waits(last) /\ b_pcr = "wait" /\ b_reply = FALSE /\ b_loads = << >>
    /\ \E es : /\ b_request = [meta |-> es, last |-> last]
               /\ Sent(b_sizes, b, Len(b_got), es, b_buffer) /\ b_next = Len(b_got) + Len(es) + 1
b_Loading(b, last) ==
    /\ b_Waits(last) /\ b_pcr = "load" /\ b_request = << >> /\ b_reply = FALSE
    /\ b_work.last = last
    /\ Sent(b_sizes, b, Len(b_got), b_loads, b_buffer) /\ b_next = Len(b_got) + Len(b_loads) + 1
b_Replied(last) ==
    /\ b_Waits(last) /\ b_pcr = (IF last THEN "done" ELSE "wait")
    /\ b_request = << >> /\ b_reply = TRUE /\ b_loads = << >> /\ b_next = Len(b_got) + 1
b_Ended ==
    /\ b_pcs = "done" /\ b_pcr = "done" /\ b_writes = << >>
    /\ b_request = << >> /\ b_reply = FALSE /\ b_loads = << >> /\ Len(b_got) = Len(b_sizes)

b_Inv(models, b) ==
    /\ b_Types(models, b)
    /\ \/ b_Opening \/ b_Filling(b) \/ b_Ended
       \/ \E last \in BOOLEAN : b_Asked(b, last) \/ b_Loading(b, last) \/ b_Replied(last)

b_Gives ==
    \/ b_got' = b_got
    \/ /\ Len(b_got) < Len(b_sizes)
       /\ b_got' = Append(b_got, WholeWeight(b_sizes, Len(b_got) + 1))

LEMMA b_InitInv ==
    ASSUME NEW models \in SUBSET Lengths, NEW b \in Nat \ {0}, InferenceOf(models, b)!Init
    PROVE  b_Inv(models, b)
<1> DEFINE empty == [i \in 0 .. b - 1 |-> NoByte]
<1>1. /\ b_sizes \in models /\ b_useShm \in BOOLEAN
      /\ b_pcs = "setup" /\ b_next = 1 /\ b_meta = << >> /\ b_offset = 0 /\ b_writes = << >>
      /\ b_buffer = empty /\ b_request = [setup |-> TRUE] /\ b_reply = FALSE
      /\ b_pcr = "setup" /\ b_loads = << >> /\ b_got = << >>
    BY Zenon DEF InferenceOf!Init, InferenceOf!EmptyBuffer
<1>2. empty \in BufferOf(b_sizes, b)
    BY DEF BufferOf
<1>3. Wholes(b_sizes, 0) = << >> /\ Len(b_got) = 0
    BY <1>1, WholesAppend
<1>4. b_request # << >>
    <2>1. DOMAIN b_request = {"setup"} /\ DOMAIN << >> = {}
        BY <1>1
    <2> QED BY <2>1
<1> HIDE DEF empty
<1>5. b_Types(models, b)
    <2>1. Len(b_sizes) \in Nat
        BY <1>1 DEF Lengths
    <2> QED BY <1>1, <1>2, <1>3, <2>1 DEF b_Types
<1>6. b_Opening
    BY <1>1, <1>3, <1>4 DEF b_Opening
<1> QED BY <1>5, <1>6 DEF b_Inv

LEMMA b_Numbers ==
    ASSUME NEW models \in SUBSET Lengths, NEW b \in Nat \ {0}, b_Types(models, b)
    PROVE  /\ b_sizes \in Lengths /\ Len(b_sizes) \in Nat /\ b_next \in Nat /\ Len(b_got) \in Nat
           /\ Len(b_meta) \in Nat /\ Len(b_loads) \in Nat /\ b_next <= Len(b_sizes) + 1
           /\ DOMAIN b_sizes = 1 .. Len(b_sizes)
<1>1. b_sizes \in Lengths /\ Len(b_sizes) \in Nat /\ DOMAIN b_sizes = 1 .. Len(b_sizes)
    BY DEF b_Types, Lengths
<1> QED BY <1>1 DEF b_Types

LEMMA b_Stutter ==
    ASSUME NEW models, NEW b, b_Inv(models, b), UNCHANGED infVars
    PROVE  b_Inv(models, b)' /\ b_Gives /\ b_sizes' = b_sizes
<1>1. /\ b_sizes' = b_sizes /\ b_useShm' = b_useShm /\ b_pcs' = b_pcs /\ b_next' = b_next
      /\ b_meta' = b_meta /\ b_offset' = b_offset /\ b_writes' = b_writes /\ b_buffer' = b_buffer
      /\ b_request' = b_request /\ b_reply' = b_reply /\ b_pcr' = b_pcr /\ b_work' = b_work
      /\ b_loads' = b_loads /\ b_got' = b_got
    BY Zenon DEF infVars
<1>2. b_Types(models, b)' <=> b_Types(models, b)
    BY <1>1, Zenon DEF b_Types
<1>3. /\ b_Opening' <=> b_Opening
      /\ b_Filling(b)' <=> b_Filling(b)
      /\ b_Ended' <=> b_Ended
    BY <1>1, Zenon DEF b_Opening, b_Filling, b_Ended
<1>4. ASSUME NEW last \in BOOLEAN
      PROVE  (b_Asked(b, last) \/ b_Loading(b, last) \/ b_Replied(last))'
                <=> b_Asked(b, last) \/ b_Loading(b, last) \/ b_Replied(last)
    BY <1>1, Zenon DEF b_Asked, b_Loading, b_Replied, b_Waits
<1> QED BY <1>1, <1>2, <1>3, <1>4, Zenon DEF b_Inv, b_Gives

LEMMA b_ModeOf ==
    ASSUME NEW models, NEW b, b_Inv(models, b)
    PROVE  /\ b_pcs = "fill" \/ b_writes # << >> => b_Filling(b)
           /\ b_reply = TRUE => b_Opening \/ \E last \in BOOLEAN : b_Replied(last)
           /\ b_pcr = "setup" => b_Opening
           /\ b_pcr = "wait" /\ b_request # << >> => b_Opening \/ \E last \in BOOLEAN : b_Asked(b, last)
           /\ b_pcr = "load" \/ b_loads # << >> => \E last \in BOOLEAN : b_Loading(b, last)
BY Zenon DEF b_Inv, b_Opening, b_Filling, b_Ended, b_Asked, b_Loading, b_Replied, b_Waits

LEMMA b_AnsweredStep ==
    ASSUME NEW models \in SUBSET Lengths, NEW b \in Nat \ {0}, b_Inv(models, b),
           InferenceOf(models, b)!Answered
    PROVE  b_Inv(models, b)' /\ b_got' = b_got /\ b_sizes' = b_sizes
<1>1. /\ b_reply = TRUE \/ b_reply
      /\ b_pcs \in {"setup", "ack", "end"} /\ b_reply' = FALSE
      /\ b_pcs' = IF b_pcs = "end" THEN "done" ELSE "fill"
      /\ UNCHANGED <<b_sizes, b_useShm, b_next, b_meta, b_offset, b_writes, b_buffer, b_request,
                     b_pcr, b_work, b_loads, b_got>>
    BY Zenon DEF InferenceOf!Answered, InferenceOf!receiver
<1>2. b_Types(models, b) /\ b_Types(models, b)'
    BY <1>1 DEF b_Inv, b_Types
<1>3. /\ Len(b_got) \in Nat /\ Len(b_sizes) \in Nat /\ Len(b_got) <= Len(b_sizes)
      /\ b_next = Len(b_got) + 1 /\ b_reply = TRUE
      /\ \/ b_Opening \/ \E last \in BOOLEAN : b_Replied(last)
    <2>1. b_reply = TRUE
        BY <1>1, Zenon DEF b_Inv, b_Opening, b_Filling, b_Ended, b_Asked, b_Loading, b_Replied
    <2>2. b_Opening \/ \E last \in BOOLEAN : b_Replied(last)
        BY <2>1, b_ModeOf
    <2>3. Len(b_got) \in Nat /\ Len(b_sizes) \in Nat /\ b_next <= Len(b_sizes) + 1
        BY <1>2, b_Numbers
    <2>4. b_next = Len(b_got) + 1
        BY <2>2 DEF b_Opening, b_Replied
    <2> QED BY <2>1, <2>2, <2>3, <2>4
<1>4. CASE b_pcs = "end"
    <2>1. b_Replied(TRUE)
        BY <1>3, <1>4 DEF b_Opening, b_Replied, b_Waits
    <2>2. b_next = Len(b_sizes) + 1 /\ b_writes = << >> /\ b_pcr = "done" /\ b_request = << >> /\ b_loads = << >>
        BY <2>1 DEF b_Replied, b_Waits
    <2>3. b_Ended'
        BY <1>1, <1>3, <1>4, <2>2 DEF b_Ended
    <2> QED BY <1>1, <1>2, <2>3 DEF b_Inv
<1>5. CASE b_pcs # "end"
    <2>1. b_meta = << >> /\ b_writes = << >> /\ b_pcr = "wait" /\ b_request = << >> /\ b_loads = << >>
        BY <1>3, <1>5 DEF b_Opening, b_Replied, b_Waits
    <2>2. Packing(b_sizes, b, Len(b_got), << >>, b_offset, << >>, b_buffer)
        BY <1>2, <1>3, PackingBegins DEF b_Types
    <2>3. b_Filling(b)'
        <3>1. Len(b_got) + Len(<< >>) + 1 = Len(b_got) + 1
            BY <1>3
        <3>2. Len(b_got') + Len(b_meta') + 1 = b_next'
            BY <1>1, <1>3, <2>1, <3>1, Zenon
        <3> QED BY <1>1, <1>5, <2>1, <2>2, <3>2 DEF b_Filling
    <2> QED BY <1>1, <1>2, <2>3 DEF b_Inv
<1> QED BY <1>4, <1>5

LEMMA b_PackStep ==
    ASSUME NEW models \in SUBSET Lengths, NEW b \in Nat \ {0}, b_Inv(models, b),
           InferenceOf(models, b)!Pack
    PROVE  b_Inv(models, b)' /\ b_got' = b_got /\ b_sizes' = b_sizes
<1> DEFINE e == [name |-> b_next, offset |-> b_offset, handle |-> FALSE]
<1>1. /\ b_pcs = "fill" /\ b_next \in DOMAIN b_sizes /\ b_offset + b_sizes[b_next] <= b
      /\ b_meta' = Append(b_meta, e) /\ b_writes' = Append(b_writes, e)
      /\ b_offset' = b_offset + b_sizes[b_next] /\ b_next' = b_next + 1
      /\ UNCHANGED <<b_sizes, b_useShm, b_pcs, b_buffer, b_request, b_reply, b_pcr, b_work, b_loads, b_got>>
    BY Zenon DEF InferenceOf!Pack, InferenceOf!Weights, InferenceOf!Fits, InferenceOf!Entry, InferenceOf!receiver
<1> HIDE DEF e
<1>2. b_Types(models, b) /\ b_Filling(b)
    BY <1>1, b_ModeOf DEF b_Inv
<1>3. /\ b_sizes \in Lengths /\ Len(b_sizes) \in Nat /\ b_next \in Nat /\ Len(b_got) \in Nat
      /\ Len(b_meta) \in Nat /\ b_next \in 1 .. Len(b_sizes)
      /\ b_next = Len(b_got) + Len(b_meta) + 1
      /\ Packing(b_sizes, b, Len(b_got), b_meta, b_offset, b_writes, b_buffer)
    BY <1>1, <1>2, b_Numbers DEF b_Filling
<1>4. /\ Packing(b_sizes, b, Len(b_got), b_meta', b_offset', b_writes', b_buffer)
      /\ Len(b_meta') = Len(b_meta) + 1
    <2>1. /\ Len(b_got) + Len(b_meta) + 1 <= Len(b_sizes)
          /\ b_next = Len(b_got) + Len(b_meta) + 1
        BY <1>3
    <2>2. /\ Packing(b_sizes, b, Len(b_got), Append(b_meta, e), b_offset + b_sizes[b_next],
                     Append(b_writes, e), b_buffer)
          /\ Len(Append(b_meta, e)) = Len(b_meta) + 1
        <3>1. e = [name |-> b_next, offset |-> b_offset, handle |-> FALSE]
            BY DEF e
        <3>2. b_offset + b_sizes[b_next] <= b /\ b \in Nat \ {0} /\ b_sizes \in Lengths
            BY <1>1, <1>3
        <3>3. Packing(b_sizes, b, Len(b_got), b_meta, b_offset, b_writes, b_buffer)
            BY <1>3
        <3> HIDE DEF e
        <3> QED BY <2>1, <3>1, <3>2, <3>3, PackingGoesOn
    <2> QED BY <1>1, <2>2, Zenon
<1>5. b_Filling(b)'
    <2>1. b_next' = Len(b_got) + Len(b_meta') + 1
        BY <1>1, <1>3, <1>4
    <2>2. /\ b_pcs' \in {"fill", "failed"} /\ b_pcr' = "wait" /\ b_request' = << >>
          /\ b_reply' = FALSE /\ b_loads' = << >>
        BY <1>1, <1>2 DEF b_Filling
    <2> QED BY <1>1, <1>4, <2>1, <2>2 DEF b_Filling
<1>6. b_Types(models, b)'
    <2>1. b_meta' \in Seq(ItemOf(b_sizes, b)) /\ b_writes' \in Seq(ItemOf(b_sizes, b)) /\ b_offset' \in 0 .. b
        BY <1>4 DEF Packing
    <2>2. b_next' \in 1 .. Len(b_sizes) + 1
        BY <1>1, <1>3
    <2> QED BY <1>1, <1>2, <2>1, <2>2 DEF b_Types
<1> QED BY <1>1, <1>5, <1>6 DEF b_Inv

LEMMA b_WriteStep ==
    ASSUME NEW models \in SUBSET Lengths, NEW b \in Nat \ {0}, b_Inv(models, b),
           InferenceOf(models, b)!WriteRuns
    PROVE  b_Inv(models, b)' /\ b_got' = b_got /\ b_sizes' = b_sizes
<1>1. /\ b_writes # << >> /\ b_writes' = Tail(b_writes)
      /\ b_buffer' = Cut(b_sizes, b)!Written(b_buffer, Head(b_writes).offset,
                                             WholeWeight(b_sizes, Head(b_writes).name))
      /\ UNCHANGED <<b_sizes, b_useShm, b_pcs, b_next, b_meta, b_offset, b_request, b_reply,
                     b_pcr, b_work, b_loads, b_got>>
    <2>1. /\ b_writes # << >> /\ b_writes' = Tail(b_writes)
          /\ b_buffer' = InferenceOf(models, b)!Written(b_buffer, Head(b_writes).offset,
                              InferenceOf(models, b)!Bytes(Head(b_writes).name))
          /\ UNCHANGED <<b_sizes, b_useShm, b_pcs, b_next, b_meta, b_offset, b_request, b_reply,
                         b_pcr, b_work, b_loads, b_got>>
        BY Zenon DEF InferenceOf!WriteRuns, InferenceOf!receiver
    <2>2. \A w : InferenceOf(models, b)!Bytes(w) = WholeWeight(b_sizes, w)
        BY InferenceOperators
    <2>3. \A f, o, d : InferenceOf(models, b)!Written(f, o, d) = Cut(b_sizes, b)!Written(f, o, d)
        BY InferenceOperators
    <2> QED BY <2>1, <2>2, <2>3
<1>2. b_Types(models, b) /\ b_Filling(b)
    BY <1>1, b_ModeOf DEF b_Inv
<1>3. /\ b_sizes \in Lengths /\ b_buffer \in BufferOf(b_sizes, b)
      /\ Packing(b_sizes, b, Len(b_got), b_meta, b_offset, b_writes, b_buffer)
    BY <1>2, b_Numbers DEF b_Filling, b_Types
<1>4. /\ b_buffer' \in BufferOf(b_sizes, b)
      /\ Packing(b_sizes, b, Len(b_got), b_meta, b_offset, b_writes', b_buffer')
    BY <1>1, <1>3, CopyingGoesOn
<1>5. b_Filling(b)'
    BY <1>1, <1>2, <1>4 DEF b_Filling
<1>6. b_Types(models, b)'
    <2>1. b_writes' \in Seq(ItemOf(b_sizes, b))
        BY <1>4 DEF Packing
    <2> QED BY <1>1, <1>2, <1>4, <2>1 DEF b_Types
<1> QED BY <1>1, <1>5, <1>6 DEF b_Inv

(* A message leaves with the weights es, and the sender waits.              *)
LEMMA b_MessageLeaves ==
    ASSUME NEW models, NEW b, NEW last \in BOOLEAN, NEW es,
           b_Types(models, b)', b_Waits(last)', b_Filling(b),
           b_request' = [meta |-> es, last |-> last],
           UNCHANGED <<b_sizes, b_buffer, b_reply, b_pcr, b_loads, b_got>>,
           Sent(b_sizes, b, Len(b_got), es, b_buffer), b_next' = Len(b_got) + Len(es) + 1
    PROVE  b_Inv(models, b)'
<1>1. b_pcr = "wait" /\ b_reply = FALSE /\ b_loads = << >>
    BY DEF b_Filling
<1>2. b_Asked(b, last)'
    BY <1>1 DEF b_Asked
<1> QED BY <1>2 DEF b_Inv

LEMMA b_SendFullStep ==
    ASSUME NEW models \in SUBSET Lengths, NEW b \in Nat \ {0}, b_Inv(models, b),
           InferenceOf(models, b)!SendFull
    PROVE  b_Inv(models, b)' /\ b_got' = b_got /\ b_sizes' = b_sizes
<1>1. /\ b_pcs = "fill" /\ b_writes = << >>
      /\ b_request' = [meta |-> b_meta, last |-> FALSE] /\ b_pcs' = "ack"
      /\ b_meta' = << >> /\ b_offset' = 0
      /\ UNCHANGED <<b_sizes, b_useShm, b_next, b_writes, b_buffer, b_reply, b_pcr, b_work, b_loads, b_got>>
    BY Zenon DEF InferenceOf!SendFull, InferenceOf!Request, InferenceOf!receiver
<1>2. b_Types(models, b) /\ b_Filling(b)
    BY <1>1, b_ModeOf DEF b_Inv
<1>3. Packing(b_sizes, b, Len(b_got), b_meta, b_offset, << >>, b_buffer)
      /\ b_next = Len(b_got) + Len(b_meta) + 1
    BY <1>1, <1>2 DEF b_Filling
<1>4. Sent(b_sizes, b, Len(b_got), b_meta, b_buffer)
    BY <1>3, PackedIsSent
<1>5. b_Waits(FALSE)'
    BY <1>1 DEF b_Waits
<1>6. b_Types(models, b)'
    <2>1. << >> \in Seq(ItemOf(b_sizes, b)) /\ 0 \in 0 .. b
        OBVIOUS
    <2> QED BY <1>1, <1>2, <2>1 DEF b_Types
<1>7. b_Inv(models, b)'
    BY <1>1, <1>2, <1>3, <1>4, <1>5, <1>6, b_MessageLeaves
<1> QED BY <1>1, <1>7

LEMMA b_SendLastStep ==
    ASSUME NEW models \in SUBSET Lengths, NEW b \in Nat \ {0}, b_Inv(models, b),
           InferenceOf(models, b)!SendLast
    PROVE  b_Inv(models, b)' /\ b_got' = b_got /\ b_sizes' = b_sizes
<1>1. /\ b_pcs = "fill" /\ b_writes = << >> /\ b_next \notin DOMAIN b_sizes
      /\ b_request' = [meta |-> b_meta, last |-> TRUE] /\ b_pcs' = "end"
      /\ UNCHANGED <<b_sizes, b_useShm, b_next, b_meta, b_offset, b_writes, b_buffer, b_reply,
                     b_pcr, b_work, b_loads, b_got>>
    BY Zenon DEF InferenceOf!SendLast, InferenceOf!Request, InferenceOf!Weights, InferenceOf!receiver
<1>2. b_Types(models, b) /\ b_Filling(b)
    BY <1>1, b_ModeOf DEF b_Inv
<1>3. Packing(b_sizes, b, Len(b_got), b_meta, b_offset, << >>, b_buffer)
      /\ b_next = Len(b_got) + Len(b_meta) + 1
    BY <1>1, <1>2 DEF b_Filling
<1>4. Sent(b_sizes, b, Len(b_got), b_meta, b_buffer)
    BY <1>3, PackedIsSent
<1>5. b_Waits(TRUE)'
    <2>1. b_next \in 1 .. Len(b_sizes) + 1 /\ Len(b_sizes) \in Nat /\ DOMAIN b_sizes = 1 .. Len(b_sizes)
        BY <1>2, b_Numbers DEF b_Types
    <2>2. b_next = Len(b_sizes) + 1
        BY <1>1, <2>1
    <2> QED BY <1>1, <2>2 DEF b_Waits
<1>6. b_Types(models, b)'
    BY <1>1, <1>2 DEF b_Types
<1>7. b_Inv(models, b)'
    BY <1>1, <1>2, <1>3, <1>4, <1>5, <1>6, b_MessageLeaves
<1> QED BY <1>1, <1>7

LEMMA b_SendLargeStep ==
    ASSUME NEW models \in SUBSET Lengths, NEW b \in Nat \ {0}, b_Inv(models, b),
           InferenceOf(models, b)!SendLarge
    PROVE  b_Inv(models, b)' /\ b_got' = b_got /\ b_sizes' = b_sizes
<1> DEFINE e == [name |-> b_next, offset |-> 0, handle |-> TRUE]
<1>1. /\ b_pcs = "fill" /\ b_next \in DOMAIN b_sizes /\ b_meta = << >>
      /\ \/ b_pcs' = "failed" /\ UNCHANGED <<b_next, b_request>>
         \/ b_pcs' = "ack" /\ b_request' = [meta |-> << e >>, last |-> FALSE] /\ b_next' = b_next + 1
      /\ UNCHANGED <<b_sizes, b_useShm, b_meta, b_offset, b_writes, b_buffer, b_reply, b_pcr,
                     b_work, b_loads, b_got>>
    BY Zenon DEF InferenceOf!SendLarge, InferenceOf!Request, InferenceOf!ByHandle, InferenceOf!Weights,
          InferenceOf!receiver
<1> HIDE DEF e
<1>2. b_Types(models, b) /\ b_Filling(b)
    BY <1>1, b_ModeOf DEF b_Inv
<1>3. /\ Packing(b_sizes, b, Len(b_got), b_meta, b_offset, b_writes, b_buffer)
      /\ b_next = Len(b_got) + 1 /\ Len(b_got) \in Nat /\ Len(b_sizes) \in Nat /\ b_sizes \in Lengths
      /\ b_next \in 1 .. Len(b_sizes) /\ b_writes \in Seq(ItemOf(b_sizes, b))
      /\ Len(b_writes) <= 0
    <2>1. Len(b_meta) = 0 /\ Len(b_got) \in Nat /\ Len(b_sizes) \in Nat /\ b_next \in 1 .. Len(b_sizes)
          /\ b_sizes \in Lengths
        BY <1>1, <1>2, b_Numbers
    <2>2. /\ Packing(b_sizes, b, Len(b_got), b_meta, b_offset, b_writes, b_buffer)
          /\ b_next = Len(b_got) + Len(b_meta) + 1
        BY <1>2 DEF b_Filling
    <2>3. b_writes \in Seq(ItemOf(b_sizes, b)) /\ Len(b_writes) <= Len(b_meta)
        BY <2>2 DEF Packing
    <2> QED BY <2>1, <2>2, <2>3
<1>4. b_writes = << >>
    BY <1>3, EmptySeq
<1>5. CASE b_pcs' = "failed" /\ UNCHANGED <<b_next, b_request>>
    <2>1. b_Types(models, b)'
        BY <1>1, <1>2, <1>5 DEF b_Types
    <2>2. b_Filling(b)'
        BY <1>1, <1>2, <1>5 DEF b_Filling
    <2> QED BY <1>1, <2>1, <2>2 DEF b_Inv
<1>6. CASE b_pcs' = "ack" /\ b_request' = [meta |-> << e >>, last |-> FALSE] /\ b_next' = b_next + 1
    <2>1. b_next' \in 1 .. Len(b_sizes) + 1
        BY <1>3, <1>6
    <2>2. b_Types(models, b)'
        BY <1>1, <1>2, <1>6, <2>1 DEF b_Types
    <2>3. Sent(b_sizes, b, Len(b_got), << e >>, b_buffer) /\ Len(<< e >>) = 1
        BY <1>3, OneIsSent DEF e
    <2>4. b_next' = Len(b_got) + Len(<< e >>) + 1
        BY <1>3, <1>6, <2>3
    <2>5. b_Waits(FALSE)'
        BY <1>1, <1>4, <1>6 DEF b_Waits
    <2>6. b_Inv(models, b)'
        BY <1>1, <1>2, <1>6, <2>2, <2>3, <2>4, <2>5, b_MessageLeaves
    <2> QED BY <1>1, <2>6
<1> QED BY <1>1, <1>5, <1>6

LEMMA b_OpenStep ==
    ASSUME NEW models \in SUBSET Lengths, NEW b \in Nat \ {0}, b_Inv(models, b),
           InferenceOf(models, b)!OpenBuffer
    PROVE  b_Inv(models, b)' /\ b_got' = b_got /\ b_sizes' = b_sizes
<1>1. /\ b_pcr = "setup" /\ b_request' = << >> /\ b_reply' = TRUE /\ b_pcr' = "wait"
      /\ UNCHANGED <<b_sizes, b_useShm, b_pcs, b_next, b_meta, b_offset, b_writes, b_buffer,
                     b_work, b_loads, b_got>>
    BY Zenon DEF InferenceOf!OpenBuffer, InferenceOf!sender
<1>2. b_Types(models, b) /\ b_Opening
    BY <1>1, b_ModeOf DEF b_Inv
<1>3. b_Opening'
    BY <1>1, <1>2 DEF b_Opening
<1>4. b_Types(models, b)'
    BY <1>1, <1>2 DEF b_Types
<1> QED BY <1>1, <1>3, <1>4 DEF b_Inv

LEMMA b_TakeStep ==
    ASSUME NEW models \in SUBSET Lengths, NEW b \in Nat \ {0}, b_Inv(models, b),
           InferenceOf(models, b)!TakeRequest
    PROVE  b_Inv(models, b)' /\ b_got' = b_got /\ b_sizes' = b_sizes
<1>1. /\ b_pcr = "wait" /\ b_request # << >>
      /\ b_work' = b_request /\ b_request' = << >> /\ b_loads' = b_request.meta /\ b_pcr' = "load"
      /\ UNCHANGED <<b_sizes, b_useShm, b_pcs, b_next, b_meta, b_offset, b_writes, b_buffer,
                     b_reply, b_got>>
    BY Zenon DEF InferenceOf!TakeRequest, InferenceOf!sender
<1>2. b_Types(models, b) /\ (b_Opening \/ \E last \in BOOLEAN : b_Asked(b, last))
    BY <1>1, b_ModeOf, Zenon DEF b_Inv
<1>3. PICK last \in BOOLEAN : b_Asked(b, last)
    BY <1>1, <1>2, Zenon DEF b_Opening
<1>4. PICK es : /\ b_request = [meta |-> es, last |-> last]
                /\ Sent(b_sizes, b, Len(b_got), es, b_buffer) /\ b_next = Len(b_got) + Len(es) + 1
    BY <1>3 DEF b_Asked
<1>5. b_request.meta = es /\ b_request.last = last
    BY <1>4, Zenon
<1>6. b_Loading(b, last)'
    <2>1. b_work'.last = last /\ b_loads' = es
        BY <1>1, <1>5
    <2>2. b_Waits(last)' /\ b_reply' = FALSE
        BY <1>1, <1>3 DEF b_Asked, b_Waits
    <2> QED BY <1>1, <1>4, <2>1, <2>2 DEF b_Loading
<1>7. b_Types(models, b)'
    <2>1. b_loads' \in Seq(ItemOf(b_sizes, b))
        BY <1>1, <1>4, <1>5 DEF Sent
    <2> QED BY <1>1, <1>2, <2>1 DEF b_Types
<1> QED BY <1>1, <1>6, <1>7, Zenon DEF b_Inv

LEMMA b_LoadStep ==
    ASSUME NEW models \in SUBSET Lengths, NEW b \in Nat \ {0}, b_Inv(models, b),
           InferenceOf(models, b)!LoadRuns
    PROVE  b_Inv(models, b)' /\ b_Gives /\ b_sizes' = b_sizes
<1> DEFINE e == Head(b_loads)
           value == IF e.handle THEN WholeWeight(b_sizes, e.name)
                    ELSE Cut(b_sizes, b)!Stretch(b_buffer, e.offset, b_sizes[e.name])
           k == Len(b_got)
<1>1. /\ b_loads # << >> /\ b_loads' = Tail(b_loads)
      /\ UNCHANGED <<b_sizes, b_useShm, b_pcs, b_next, b_meta, b_offset, b_writes, b_buffer,
                     b_request, b_reply, b_pcr, b_work>>
    BY Zenon DEF InferenceOf!LoadRuns, InferenceOf!sender
<1>2. b_got' = Append(b_got, value)
    <2>1. b_got' = Append(b_got, InferenceOf(models, b)!Value(e))
        BY Zenon DEF InferenceOf!LoadRuns
    <2>2. InferenceOf(models, b)!Value(e)
            = IF e.handle THEN InferenceOf(models, b)!Bytes(e.name)
              ELSE InferenceOf(models, b)!Stretch(b_buffer, e.offset, b_sizes[e.name])
        BY Zenon DEF InferenceOf!Value
    <2>3. InferenceOf(models, b)!Bytes(e.name) = WholeWeight(b_sizes, e.name)
        BY InferenceOperators
    <2>4. InferenceOf(models, b)!Stretch(b_buffer, e.offset, b_sizes[e.name])
            = Cut(b_sizes, b)!Stretch(b_buffer, e.offset, b_sizes[e.name])
        BY InferenceOperators
    <2> QED BY <2>1, <2>2, <2>3, <2>4, Zenon
<1>3. b_Types(models, b) /\ \E last \in BOOLEAN : b_Loading(b, last)
    BY <1>1, b_ModeOf, Zenon DEF b_Inv
<1>4. PICK last \in BOOLEAN : b_Loading(b, last)
    BY <1>3
<1>5. /\ b_sizes \in Lengths /\ Len(b_sizes) \in Nat /\ k \in Nat /\ Len(b_loads) \in Nat
      /\ b_got = Wholes(b_sizes, k)
    BY <1>3, b_Numbers DEF b_Types
<1>6. Sent(b_sizes, b, k, b_loads, b_buffer) /\ b_next = k + Len(b_loads) + 1
    BY <1>4 DEF b_Loading
<1>7. /\ value = WholeWeight(b_sizes, k + 1) /\ Sent(b_sizes, b, k + 1, b_loads', b_buffer)
      /\ Len(b_loads') = Len(b_loads) - 1 /\ k < Len(b_sizes)
    BY <1>1, <1>5, <1>6, LoadingGoesOn
<1> HIDE DEF value, e
<1>8. b_got' = Wholes(b_sizes, k + 1) /\ Len(b_got') = k + 1
    <2>1. /\ Append(Wholes(b_sizes, k), WholeWeight(b_sizes, k + 1)) = Wholes(b_sizes, k + 1)
          /\ Len(Wholes(b_sizes, k + 1)) = k + 1
        <3>1. k + 1 \in Nat
            BY <1>5
        <3> HIDE DEF k
        <3> QED BY <1>5, <3>1, WholesAppend, Zenon DEF WholeWeight
    <2> QED BY <1>2, <1>5, <1>7, <2>1, Zenon
<1>9. b_Loading(b, last)'
    <2>1. b_next' = Len(b_got') + Len(b_loads') + 1
        <3>1. b_next' = k + Len(b_loads) + 1 /\ Len(b_got') = k + 1 /\ Len(b_loads') = Len(b_loads) - 1
            BY <1>1, <1>6, <1>7, <1>8
        <3> HIDE DEF k
        <3> QED BY <1>5, <3>1
    <2>2. Sent(b_sizes', b, Len(b_got'), b_loads', b_buffer')
        BY <1>1, <1>7, <1>8, Zenon
    <2>3. /\ b_Waits(last)' /\ b_pcr' = "load" /\ b_request' = << >> /\ b_reply' = FALSE
          /\ b_work'.last = last
        BY <1>1, <1>4 DEF b_Loading, b_Waits
    <2> QED BY <2>1, <2>2, <2>3 DEF b_Loading
<1>10. b_Types(models, b)'
    <2>1. b_loads' \in Seq(ItemOf(b_sizes, b))
        BY <1>7 DEF Sent
    <2>2. Len(b_got') \in Nat /\ b_got' = Wholes(b_sizes', Len(b_got'))
        <3>1. k + 1 \in Nat
            BY <1>5
        <3> QED BY <1>1, <1>8, <3>1, Zenon
    <2> QED BY <1>1, <1>3, <2>1, <2>2 DEF b_Types
<1>11. b_Gives
    BY <1>2, <1>7 DEF b_Gives
<1> QED BY <1>1, <1>9, <1>10, <1>11, Zenon DEF b_Inv

LEMMA b_AnswerStep ==
    ASSUME NEW models \in SUBSET Lengths, NEW b \in Nat \ {0}, b_Inv(models, b),
           InferenceOf(models, b)!Answer
    PROVE  b_Inv(models, b)' /\ b_got' = b_got /\ b_sizes' = b_sizes
<1>1. /\ b_pcr = "load" /\ b_loads = << >> /\ b_reply' = TRUE
      /\ b_pcr' = IF b_work.last THEN "done" ELSE "wait"
      /\ UNCHANGED <<b_sizes, b_useShm, b_pcs, b_next, b_meta, b_offset, b_writes, b_buffer,
                     b_request, b_loads, b_got>>
    BY Zenon DEF InferenceOf!Answer, InferenceOf!sender
<1>2. b_Types(models, b) /\ \E last \in BOOLEAN : b_Loading(b, last)
    BY <1>1, b_ModeOf, Zenon DEF b_Inv
<1>3. PICK last \in BOOLEAN : b_Loading(b, last)
    BY <1>2
<1>4. b_Replied(last)'
    <2>1. b_next = Len(b_got) + 1
        <3>1. b_next = Len(b_got) + Len(b_loads) + 1 /\ Len(b_got) \in Nat /\ Len(b_loads) = 0
            BY <1>1, <1>2, <1>3 DEF b_Loading, b_Types
        <3> QED BY <3>1
    <2>2. b_pcr' = IF last THEN "done" ELSE "wait"
        BY <1>1, <1>3, Zenon DEF b_Loading
    <2>3. b_Waits(last)' /\ b_request' = << >>
        BY <1>1, <1>3 DEF b_Loading, b_Waits
    <2> QED BY <1>1, <2>1, <2>2, <2>3 DEF b_Replied
<1>5. b_Types(models, b)'
    BY <1>1, <1>2 DEF b_Types
<1> QED BY <1>1, <1>4, <1>5, Zenon DEF b_Inv

LEMMA b_Step ==
    ASSUME NEW models \in SUBSET Lengths, NEW b \in Nat \ {0}, b_Inv(models, b),
           InferenceOf(models, b)!Next
    PROVE  b_Inv(models, b)' /\ b_Gives /\ b_sizes' = b_sizes
<1>1. CASE InferenceOf(models, b)!Answered
    BY <1>1, b_AnsweredStep DEF b_Gives
<1>2. CASE InferenceOf(models, b)!Pack
    BY <1>2, b_PackStep DEF b_Gives
<1>3. CASE InferenceOf(models, b)!WriteRuns
    BY <1>3, b_WriteStep DEF b_Gives
<1>4. CASE InferenceOf(models, b)!SendFull
    BY <1>4, b_SendFullStep DEF b_Gives
<1>5. CASE InferenceOf(models, b)!SendLarge
    BY <1>5, b_SendLargeStep DEF b_Gives
<1>6. CASE InferenceOf(models, b)!SendLast
    BY <1>6, b_SendLastStep DEF b_Gives
<1>7. CASE InferenceOf(models, b)!OpenBuffer
    BY <1>7, b_OpenStep DEF b_Gives
<1>8. CASE InferenceOf(models, b)!TakeRequest
    BY <1>8, b_TakeStep DEF b_Gives
<1>9. CASE InferenceOf(models, b)!LoadRuns
    BY <1>9, b_LoadStep
<1>10. CASE InferenceOf(models, b)!Answer
    BY <1>10, b_AnswerStep DEF b_Gives
<1> QED BY <1>1, <1>2, <1>3, <1>4, <1>5, <1>6, <1>7, <1>8, <1>9, <1>10, Zenon
        DEF InferenceOf!Next, InferenceOf!Sender, InferenceOf!Receiver

LEMMA b_InvImplies ==
    ASSUME NEW models \in SUBSET Lengths, NEW b \in Nat \ {0}, b_Inv(models, b)
    PROVE  InferenceOf(models, b)!TypeOK /\ InferenceOf(models, b)!Alternates
<1>1. b_Types(models, b)
    BY DEF b_Inv
<1>2. InferenceOf(models, b)!EntryType = ItemOf(b_sizes, b)
    <2>1. DOMAIN b_sizes = 1 .. Len(b_sizes)
        BY <1>1, b_Numbers
    <2> QED BY <2>1, Zenon DEF InferenceOf!EntryType, InferenceOf!Weights, ItemOf
<1>3. DOMAIN b_buffer = 0 .. b - 1
    BY <1>1 DEF b_Types, BufferOf
<1>4. /\ b_pcs \in {"setup", "fill", "ack", "end", "done", "failed"} /\ b_reply \in BOOLEAN
      /\ b_pcr \in {"setup", "wait", "load", "done"}
    <2>1. CASE b_Opening \/ b_Filling(b) \/ b_Ended
        BY <2>1 DEF b_Opening, b_Filling, b_Ended
    <2>2. ASSUME NEW last \in BOOLEAN, b_Asked(b, last) \/ b_Loading(b, last) \/ b_Replied(last)
          PROVE  /\ b_pcs \in {"ack", "end"} /\ b_reply \in BOOLEAN
                 /\ b_pcr \in {"wait", "load", "done"}
        BY <2>2 DEF b_Asked, b_Loading, b_Replied, b_Waits
    <2>3. b_Opening \/ b_Filling(b) \/ b_Ended
          \/ \E last \in BOOLEAN : b_Asked(b, last) \/ b_Loading(b, last) \/ b_Replied(last)
        BY Zenon DEF b_Inv
    <2> QED BY <2>1, <2>2, <2>3
<1>5. InferenceOf(models, b)!TypeOK
    BY <1>1, <1>2, <1>3, <1>4, Zenon DEF b_Types, InferenceOf!TypeOK
<1>6. /\ b_request # << >> => b_reply = FALSE /\ b_pcs \in {"setup", "ack", "end"}
      /\ b_reply = TRUE => b_pcs \in {"setup", "ack", "end"} /\ b_loads = << >>
      /\ b_pcs = "fill" => b_pcr = "wait"
    <2>1. CASE b_Opening
        BY <2>1 DEF b_Opening
    <2>2. CASE b_Filling(b)
        BY <2>2 DEF b_Filling
    <2>3. CASE b_Ended
        BY <2>3 DEF b_Ended
    <2>4. ASSUME NEW last \in BOOLEAN, b_Asked(b, last) \/ b_Loading(b, last) \/ b_Replied(last)
          PROVE  /\ b_request # << >> => b_reply = FALSE
                 /\ b_reply = TRUE => b_loads = << >> /\ b_pcs \in {"ack", "end"}
        BY <2>4 DEF b_Asked, b_Loading, b_Replied, b_Waits
    <2> QED BY <2>1, <2>2, <2>3, <2>4, Zenon DEF b_Inv, b_Asked, b_Loading, b_Replied, b_Waits
<1>7. InferenceOf(models, b)!Alternates
    BY <1>4, <1>6, Zenon DEF InferenceOf!Alternates
<1> QED BY <1>5, <1>7
-----------------------------------------------------------------------------
(* What a step gives a receiver is what WeightChannel gives it.             *)
LEMMA ModelOf ==
    ASSUME NEW sizes \in Lengths, NEW w \in Nat, w < Len(sizes)
    PROVE  LET m == [v \in DOMAIN sizes |-> WholeWeight(sizes, v)] IN
           /\ Wholes(sizes, w + 1) = Append(Wholes(sizes, w), m[w + 1])
           /\ Len(Wholes(sizes, w)) = w /\ Len(m) = Len(sizes)
<1> DEFINE m == [v \in DOMAIN sizes |-> WholeWeight(sizes, v)]
<1>1. DOMAIN sizes = 1 .. Len(sizes) /\ Len(sizes) \in Nat /\ w + 1 \in 1 .. Len(sizes)
    BY DEF Lengths
<1>2. m[w + 1] = WholeWeight(sizes, w + 1) /\ Len(m) = Len(sizes)
    BY <1>1
<1>3. /\ Append(Wholes(sizes, w), WholeWeight(sizes, w + 1)) = Wholes(sizes, w + 1)
      /\ Len(Wholes(sizes, w)) = w
    BY WholesAppend, Zenon DEF WholeWeight
<1> QED BY <1>2, <1>3, Zenon

(* A weight more for one receiver is what the channel gives.                *)
LEMMA n_GivesOfChannel ==
    ASSUME NEW sizes \in Lengths, NEW b, NEW R, n_Gives(sizes, R),
           n_Types(sizes, b, R), n_Types(sizes, b, R)'
    PROVE  NcclOf(sizes, b, R)!Channel!Next
              \/ UNCHANGED [r \in R |-> n_merge[r].yielded]
<1>1. CASE \A r \in R : n_merge'[r].yielded = n_merge[r].yielded
    BY <1>1
<1>2. CASE \E r \in R : n_GivesOne(sizes, R, r)
    <2>1. PICK r \in R : n_GivesOne(sizes, R, r)
        BY <1>2
    <2>2. PICK w \in Nat : /\ w < Len(sizes) /\ n_merge[r].yielded = Wholes(sizes, w)
                           /\ n_merge'[r].yielded = Wholes(sizes, w + 1)
        BY <2>1 DEF n_GivesOne
    <2> DEFINE model2 == [v \in DOMAIN sizes |-> WholeWeight(sizes, v)]
               got == [s \in R |-> n_merge[s].yielded]
    <2>3. NcclOf(sizes, b, R)!Model = model2
        BY Zenon DEF NcclOf!Model, NcclOf!Weights, NcclOf!Bytes, NcclOf!BytesOfWeight, WholeWeight
    <2>4. /\ Wholes(sizes, w + 1) = Append(Wholes(sizes, w), model2[w + 1])
          /\ Len(Wholes(sizes, w)) = w /\ Len(model2) = Len(sizes)
        BY <2>2, ModelOf
    <2>5. got[r] = Wholes(sizes, w)
        BY <2>2
    <2>6. Len(got[r]) < Len(model2) /\ Len(got[r]) + 1 = w + 1
        BY <2>2, <2>4, <2>5
    <2>7. n_merge'[r].yielded = Append(got[r], model2[Len(got[r]) + 1])
        BY <2>2, <2>4, <2>5, <2>6, Zenon
    <2>8. \A s \in R \ {r} : n_merge'[s].yielded = n_merge[s].yielded
        BY <2>1 DEF n_GivesOne
    <2> HIDE DEF model2
    <2>9. [s \in R |-> n_merge'[s].yielded] = [got EXCEPT ![r] = Append(got[r], model2[Len(got[r]) + 1])]
        BY <2>7, <2>8
    <2>10. NcclOf(sizes, b, R)!Channel!Give(r)
        BY <2>3, <2>6, <2>9, Zenon DEF NcclOf!Channel!Give, NcclOf!Model, NcclOf!Weights, NcclOf!Bytes, NcclOf!BytesOfWeight
    <2> QED BY <2>10, Zenon DEF NcclOf!Channel!Next
<1> QED BY <1>1, <1>2 DEF n_Gives
(* A weight more for one node is what the channel gives.                *)
LEMMA x_GivesOfChannel ==
    ASSUME NEW sizes \in Lengths, NEW b, NEW L, x_Gives(sizes, L),
           x_Types(sizes, b, L), x_Types(sizes, b, L)'
    PROVE  NixlOf(sizes, b, L)!Channel!Next
              \/ UNCHANGED [r \in 1 .. L |-> x_merge[r].yielded]
<1>1. CASE \A r \in 1 .. L : x_merge'[r].yielded = x_merge[r].yielded
    BY <1>1
<1>2. CASE \E r \in 1 .. L : x_GivesOne(sizes, L, r)
    <2>1. PICK r \in 1 .. L : x_GivesOne(sizes, L, r)
        BY <1>2
    <2>2. PICK w \in Nat : /\ w < Len(sizes) /\ x_merge[r].yielded = Wholes(sizes, w)
                           /\ x_merge'[r].yielded = Wholes(sizes, w + 1)
        BY <2>1 DEF x_GivesOne
    <2> DEFINE model2 == [v \in DOMAIN sizes |-> WholeWeight(sizes, v)]
               got == [s \in 1 .. L |-> x_merge[s].yielded]
    <2>3. NixlOf(sizes, b, L)!Model = model2
        BY Zenon DEF NixlOf!Model, NixlOf!Weights, NixlOf!Bytes, NixlOf!BytesOfWeight, WholeWeight
    <2>4. /\ Wholes(sizes, w + 1) = Append(Wholes(sizes, w), model2[w + 1])
          /\ Len(Wholes(sizes, w)) = w /\ Len(model2) = Len(sizes)
        BY <2>2, ModelOf
    <2>5. got[r] = Wholes(sizes, w)
        BY <2>2
    <2>6. Len(got[r]) < Len(model2) /\ Len(got[r]) + 1 = w + 1
        BY <2>2, <2>4, <2>5
    <2>7. x_merge'[r].yielded = Append(got[r], model2[Len(got[r]) + 1])
        BY <2>2, <2>4, <2>5, <2>6, Zenon
    <2>8. \A s \in 1 .. L : s # r => x_merge'[s].yielded = x_merge[s].yielded
        BY <2>1 DEF x_GivesOne
    <2> HIDE DEF model2
    <2>9. [s \in 1 .. L |-> x_merge'[s].yielded] = [got EXCEPT ![r] = Append(got[r], model2[Len(got[r]) + 1])]
        BY <2>7, <2>8
    <2>10. NixlOf(sizes, b, L)!Channel!Give(r)
        BY <2>3, <2>6, <2>9, Zenon DEF NixlOf!Channel!Give, NixlOf!Receivers, NixlOf!Model, NixlOf!Weights, NixlOf!Bytes, NixlOf!BytesOfWeight
    <2> QED BY <2>10, Zenon DEF NixlOf!Channel!Next, NixlOf!Receivers
<1> QED BY <1>1, <1>2 DEF x_Gives
-----------------------------------------------------------------------------
(* The broadcast, whatever the weights, the bucket and the receivers        *)
LEMMA NcclInvariant ==
    ASSUME NEW sizes \in Lengths, Len(sizes) > 0, NEW b \in Nat \ {0}, NEW R
    PROVE  NcclOf(sizes, b, R)!Spec => []n_Inv(sizes, b, R)
<1>1. NcclOf(sizes, b, R)!Init => n_Inv(sizes, b, R)
    BY n_InitInv
<1>2. n_Inv(sizes, b, R) /\ [NcclOf(sizes, b, R)!Next]_(NcclOf(sizes, b, R)!vars) => n_Inv(sizes, b, R)'
    <2> SUFFICES ASSUME n_Inv(sizes, b, R), [NcclOf(sizes, b, R)!Next]_(NcclOf(sizes, b, R)!vars)
                 PROVE  n_Inv(sizes, b, R)'
        OBVIOUS
    <2>1. CASE NcclOf(sizes, b, R)!Next
        BY <2>1, n_Step
    <2>2. CASE UNCHANGED NcclOf(sizes, b, R)!vars
        BY <2>2, n_Stutter DEF NcclOf!vars, NcclOf!sender, NcclOf!receiver, ncclVars
    <2> QED BY <2>1, <2>2
<1> QED BY <1>1, <1>2, PTL DEF NcclOf!Spec

(* The types are right, no assertion of the sender and none of              *)
(* merge_weight_chunks fails at any receiver.                               *)
THEOREM BroadcastIsSound ==
    ASSUME NEW sizes \in Lengths, Len(sizes) > 0, NEW b \in Nat \ {0}, NEW R
    PROVE  NcclOf(sizes, b, R)!Spec =>
              [](NcclOf(sizes, b, R)!TypeOK /\ NcclOf(sizes, b, R)!AssertionsHold)
<1>1. n_Inv(sizes, b, R) => NcclOf(sizes, b, R)!TypeOK /\ NcclOf(sizes, b, R)!AssertionsHold
    BY n_InvImplies
<1> QED BY <1>1, NcclInvariant, PTL

(* No bucket is written while a broadcast or a consumer's queued copy still *)
(* reads it, however slow either end is.                                    *)
THEOREM BroadcastSparesBuckets ==
    ASSUME NEW sizes \in Lengths, Len(sizes) > 0, NEW b \in Nat \ {0}, NEW R
    PROVE  NcclOf(sizes, b, R)!Spec => NcclOf(sizes, b, R)!NoBucketInUseIsWritten
<1> DEFINE Spared == [ /\ n_reached # R => n_bufs'[n_op.buf] = n_bufs[n_op.buf]
                       /\ \A r \in R : \A i \in DOMAIN n_reads[r] :
                             LET c == n_reads[r][i].buf IN n_rbufs'[r][c] = n_rbufs[r][c]
                     ]_(NcclOf(sizes, b, R)!vars)
<1>1. ASSUME n_Inv(sizes, b, R), [NcclOf(sizes, b, R)!Next]_(NcclOf(sizes, b, R)!vars)
      PROVE  Spared
    BY <1>1, n_Step DEF n_Respects
<1>2. n_Inv(sizes, b, R) /\ [NcclOf(sizes, b, R)!Next]_(NcclOf(sizes, b, R)!vars) => Spared
    BY <1>1
<1> QED BY <1>2, NcclInvariant, PTL DEF NcclOf!Spec, NcclOf!NoBucketInUseIsWritten

LEMMA n_InitOfChannel ==
    ASSUME NEW sizes, NEW b, NEW R, NcclOf(sizes, b, R)!Init
    PROVE  NcclOf(sizes, b, R)!Channel!Init
<1> DEFINE none == [name |-> 0, bytes |-> << >>, yielded |-> << >>, failed |-> FALSE]
<1>1. n_merge = [r \in R |-> none] /\ none.yielded = << >>
    BY Zenon DEF NcclOf!Init, NcclOf!Each, NcclOf!NoMerge
<1> HIDE DEF none
<1>2. [r \in R |-> n_merge[r].yielded] = [r \in R |-> << >>]
    BY <1>1
<1> QED BY <1>2, Zenon DEF NcclOf!Channel!Init

(* Every receiver is given the weights, whole, in the generator's order and *)
(* each of them once.                                                       *)
THEOREM BroadcastGivesWhole ==
    ASSUME NEW sizes \in Lengths, Len(sizes) > 0, NEW b \in Nat \ {0}, NEW R
    PROVE  NcclOf(sizes, b, R)!Spec => NcclOf(sizes, b, R)!Channel!Safety
<1>1. NcclOf(sizes, b, R)!Init => NcclOf(sizes, b, R)!Channel!Init
    BY n_InitOfChannel
<1>2. ASSUME n_Inv(sizes, b, R), [NcclOf(sizes, b, R)!Next]_(NcclOf(sizes, b, R)!vars)
      PROVE  [NcclOf(sizes, b, R)!Channel!Next]_(NcclOf(sizes, b, R)!Channel!vars)
    <2>1. CASE NcclOf(sizes, b, R)!Next
        <3>1. n_Gives(sizes, R) /\ n_Types(sizes, b, R) /\ n_Types(sizes, b, R)'
            BY <1>2, <2>1, n_Step DEF n_Inv
        <3>2. NcclOf(sizes, b, R)!Channel!Next \/ UNCHANGED [r \in R |-> n_merge[r].yielded]
            BY <3>1, n_GivesOfChannel
        <3> QED BY <3>2, Zenon DEF NcclOf!Channel!vars, NcclOf!Model, NcclOf!Weights, NcclOf!Bytes,
                  NcclOf!BytesOfWeight
    <2>2. CASE UNCHANGED NcclOf(sizes, b, R)!vars
        <3>1. n_merge' = n_merge
            BY <2>2 DEF NcclOf!vars, NcclOf!receiver
        <3> QED BY <3>1, Zenon DEF NcclOf!Channel!vars, NcclOf!Model, NcclOf!Weights, NcclOf!Bytes,
                  NcclOf!BytesOfWeight
    <2> QED BY <1>2, <2>1, <2>2
<1>3. n_Inv(sizes, b, R) /\ [NcclOf(sizes, b, R)!Next]_(NcclOf(sizes, b, R)!vars)
        => [NcclOf(sizes, b, R)!Channel!Next]_(NcclOf(sizes, b, R)!Channel!vars)
    BY <1>2
<1> QED BY <1>1, <1>3, NcclInvariant, PTL DEF NcclOf!Spec, NcclOf!Channel!Safety
-----------------------------------------------------------------------------
(* The chain, whatever the weights, the bucket and its length               *)
LEMMA NixlInvariant ==
    ASSUME NEW sizes \in Lengths, Len(sizes) > 0, NEW b \in Nat \ {0}, NEW L \in Nat \ {0}
    PROVE  NixlOf(sizes, b, L)!Spec => []x_Inv(sizes, b, L)
<1>1. NixlOf(sizes, b, L)!Init => x_Inv(sizes, b, L)
    BY x_InitInv
<1>2. x_Inv(sizes, b, L) /\ [NixlOf(sizes, b, L)!Next]_(NixlOf(sizes, b, L)!vars) => x_Inv(sizes, b, L)'
    <2> SUFFICES ASSUME x_Inv(sizes, b, L), [NixlOf(sizes, b, L)!Next]_(NixlOf(sizes, b, L)!vars)
                 PROVE  x_Inv(sizes, b, L)'
        OBVIOUS
    <2>1. CASE NixlOf(sizes, b, L)!Next
        BY <2>1, x_Step
    <2>2. CASE UNCHANGED NixlOf(sizes, b, L)!vars
        BY <2>2, x_Stutter DEF NixlOf!vars, NixlOf!sender, NixlOf!offers, NixlOf!receiver, nixlVars
    <2> QED BY <2>1, <2>2
<1> QED BY <1>1, <1>2, PTL DEF NixlOf!Spec

(* The types are right, no assertion of merge_weight_chunks fails at any    *)
(* node, and an offer that was not notified yet is still wanted.            *)
THEOREM ChainIsSound ==
    ASSUME NEW sizes \in Lengths, Len(sizes) > 0, NEW b \in Nat \ {0}, NEW L \in Nat \ {0}
    PROVE  NixlOf(sizes, b, L)!Spec =>
              [](NixlOf(sizes, b, L)!TypeOK /\ NixlOf(sizes, b, L)!AssertionsHold)
<1>1. x_Inv(sizes, b, L) => NixlOf(sizes, b, L)!TypeOK /\ NixlOf(sizes, b, L)!AssertionsHold
    BY x_InvImplies
<1> QED BY <1>1, NixlInvariant, PTL

(* No bucket is written while the next node or a consumer's queued copy     *)
(* still reads it, however long the chain.                                  *)
THEOREM ChainSparesBuckets ==
    ASSUME NEW sizes \in Lengths, Len(sizes) > 0, NEW b \in Nat \ {0}, NEW L \in Nat \ {0}
    PROVE  NixlOf(sizes, b, L)!Spec => NixlOf(sizes, b, L)!NoBucketInUseIsWritten
<1> DEFINE Spared == [ /\ \A n \in 0 .. L - 1 :
                             /\ x_message[n] # << >> =>
                                   x_bufs'[n][x_message[n].buf] = x_bufs[n][x_message[n].buf]
                             /\ x_reading[n + 1] # << >> /\ ~x_copied[n + 1] =>
                                   x_bufs'[n][x_reading[n + 1].buf] = x_bufs[n][x_reading[n + 1].buf]
                       /\ \A r \in 1 .. L : \A i \in DOMAIN x_reads[r] :
                             LET c == x_reads[r][i].buf IN x_bufs'[r][c] = x_bufs[r][c]
                     ]_(NixlOf(sizes, b, L)!vars)
<1>1. ASSUME x_Inv(sizes, b, L), [NixlOf(sizes, b, L)!Next]_(NixlOf(sizes, b, L)!vars)
      PROVE  Spared
    BY <1>1, x_Step DEF x_Respects
<1>2. x_Inv(sizes, b, L) /\ [NixlOf(sizes, b, L)!Next]_(NixlOf(sizes, b, L)!vars) => Spared
    BY <1>1
<1> QED BY <1>2, NixlInvariant, PTL DEF NixlOf!Spec, NixlOf!NoBucketInUseIsWritten, NixlOf!Receivers

LEMMA x_InitOfChannel ==
    ASSUME NEW sizes, NEW b, NEW L, NixlOf(sizes, b, L)!Init
    PROVE  NixlOf(sizes, b, L)!Channel!Init
<1> DEFINE none == [name |-> 0, bytes |-> << >>, yielded |-> << >>, failed |-> FALSE]
<1>1. x_merge = [r \in 1 .. L |-> none] /\ none.yielded = << >>
    BY Zenon DEF NixlOf!Init, NixlOf!Each, NixlOf!NoMerge, NixlOf!Receivers
<1> HIDE DEF none
<1>2. [r \in 1 .. L |-> x_merge[r].yielded] = [r \in 1 .. L |-> << >>]
    BY <1>1
<1> QED BY <1>2, Zenon DEF NixlOf!Channel!Init, NixlOf!Receivers

(* Every node is given the weights, whole, in the generator's order and     *)
(* each of them once.                                                       *)
THEOREM ChainGivesWhole ==
    ASSUME NEW sizes \in Lengths, Len(sizes) > 0, NEW b \in Nat \ {0}, NEW L \in Nat \ {0}
    PROVE  NixlOf(sizes, b, L)!Spec => NixlOf(sizes, b, L)!Channel!Safety
<1>1. NixlOf(sizes, b, L)!Init => NixlOf(sizes, b, L)!Channel!Init
    BY x_InitOfChannel
<1>2. ASSUME x_Inv(sizes, b, L), [NixlOf(sizes, b, L)!Next]_(NixlOf(sizes, b, L)!vars)
      PROVE  [NixlOf(sizes, b, L)!Channel!Next]_(NixlOf(sizes, b, L)!Channel!vars)
    <2>1. CASE NixlOf(sizes, b, L)!Next
        <3>1. x_Gives(sizes, L) /\ x_Types(sizes, b, L) /\ x_Types(sizes, b, L)'
            BY <1>2, <2>1, x_Step DEF x_Inv
        <3>2. NixlOf(sizes, b, L)!Channel!Next \/ UNCHANGED [r \in 1 .. L |-> x_merge[r].yielded]
            BY <3>1, x_GivesOfChannel
        <3> QED BY <3>2, Zenon DEF NixlOf!Channel!vars, NixlOf!Receivers, NixlOf!Model, NixlOf!Weights, NixlOf!Bytes,
                  NixlOf!BytesOfWeight
    <2>2. CASE UNCHANGED NixlOf(sizes, b, L)!vars
        <3>1. x_merge' = x_merge
            BY <2>2 DEF NixlOf!vars, NixlOf!receiver
        <3> QED BY <3>1, Zenon DEF NixlOf!Channel!vars, NixlOf!Receivers, NixlOf!Model, NixlOf!Weights, NixlOf!Bytes,
                  NixlOf!BytesOfWeight
    <2> QED BY <1>2, <2>1, <2>2
<1>3. x_Inv(sizes, b, L) /\ [NixlOf(sizes, b, L)!Next]_(NixlOf(sizes, b, L)!vars)
        => [NixlOf(sizes, b, L)!Channel!Next]_(NixlOf(sizes, b, L)!Channel!vars)
    BY <1>2
<1> QED BY <1>1, <1>3, NixlInvariant, PTL DEF NixlOf!Spec, NixlOf!Channel!Safety
-----------------------------------------------------------------------------
(* To the inference process, whatever the models and the buffer             *)
LEMMA b_GivesOfChannel ==
    ASSUME NEW models \in SUBSET Lengths, NEW b \in Nat \ {0}, b_Types(models, b), b_Gives,
           b_sizes' = b_sizes
    PROVE  [InferenceOf(models, b)!Channel!Next]_(InferenceOf(models, b)!Channel!vars)
<1> DEFINE whole == [v \in DOMAIN b_sizes |-> WholeWeight(b_sizes, v)]
           given == [r \in {"worker"} |-> b_got]
           k == Len(b_got)
<1>1. InferenceOf(models, b)!Model = whole
    BY Zenon DEF InferenceOf!Model, InferenceOf!Weights, InferenceOf!Bytes, InferenceOf!BytesOfWeight, WholeWeight
<1>2. InferenceOf(models, b)!Model' = InferenceOf(models, b)!Model
    BY Zenon DEF InferenceOf!Model, InferenceOf!Weights, InferenceOf!Bytes, InferenceOf!BytesOfWeight
<1>3. CASE b_got' = b_got
    BY <1>2, <1>3, Zenon DEF InferenceOf!Channel!vars
<1>4. CASE k < Len(b_sizes) /\ b_got' = Append(b_got, WholeWeight(b_sizes, k + 1))
    <2>1. b_sizes \in Lengths /\ k \in Nat /\ DOMAIN b_sizes = 1 .. Len(b_sizes) /\ Len(b_sizes) \in Nat
        BY b_Numbers
    <2>2. Len(whole) = Len(b_sizes) /\ whole[k + 1] = WholeWeight(b_sizes, k + 1)
        BY <1>4, <2>1
    <2>3. given["worker"] = b_got
        OBVIOUS
    <2>4. [r \in {"worker"} |-> b_got'] = [given EXCEPT !["worker"] = Append(b_got, whole[k + 1])]
        BY <1>4, <2>2
    <2> HIDE DEF whole
    <2>5. InferenceOf(models, b)!Channel!Give("worker")
        BY <1>1, <1>2, <1>4, <2>2, <2>3, <2>4, Zenon DEF InferenceOf!Channel!Give
    <2> QED BY <2>5, Zenon DEF InferenceOf!Channel!Next
<1> QED BY <1>3, <1>4 DEF b_Gives

LEMMA InferenceInvariant ==
    ASSUME NEW models \in SUBSET Lengths, NEW b \in Nat \ {0}
    PROVE  InferenceOf(models, b)!Spec => []b_Inv(models, b)
<1>1. InferenceOf(models, b)!Init => b_Inv(models, b)
    BY b_InitInv
<1>2. b_Inv(models, b) /\ [InferenceOf(models, b)!Next]_(InferenceOf(models, b)!vars) => b_Inv(models, b)'
    <2> SUFFICES ASSUME b_Inv(models, b), [InferenceOf(models, b)!Next]_(InferenceOf(models, b)!vars)
                 PROVE  b_Inv(models, b)'
        OBVIOUS
    <2>1. CASE InferenceOf(models, b)!Next
        BY <2>1, b_Step
    <2>2. CASE UNCHANGED InferenceOf(models, b)!vars
        BY <2>2, b_Stutter DEF InferenceOf!vars, InferenceOf!sender, InferenceOf!receiver, infVars
    <2> QED BY <2>1, <2>2
<1> QED BY <1>1, <1>2, PTL DEF InferenceOf!Spec

(* The types are right, and requests and answers alternate.                 *)
THEOREM InferenceIsSound ==
    ASSUME NEW models \in SUBSET Lengths, NEW b \in Nat \ {0}
    PROVE  InferenceOf(models, b)!Spec =>
              [](InferenceOf(models, b)!TypeOK /\ InferenceOf(models, b)!Alternates)
<1>1. b_Inv(models, b) => InferenceOf(models, b)!TypeOK /\ InferenceOf(models, b)!Alternates
    BY b_InvImplies
<1> QED BY <1>1, InferenceInvariant, PTL

LEMMA b_InitOfChannel ==
    ASSUME NEW models, NEW b, InferenceOf(models, b)!Init
    PROVE  InferenceOf(models, b)!Channel!Init
BY Zenon DEF InferenceOf!Init, InferenceOf!Channel!Init

LEMMA b_StepOfChannel ==
    ASSUME NEW models \in SUBSET Lengths, NEW b \in Nat \ {0}, b_Inv(models, b),
           InferenceOf(models, b)!Next \/ UNCHANGED infVars
    PROVE  [InferenceOf(models, b)!Channel!Next]_(InferenceOf(models, b)!Channel!vars)
<1>1. b_Gives /\ b_sizes' = b_sizes
    BY b_Step, b_Stutter
<1>2. b_Types(models, b)
    BY DEF b_Inv
<1> QED BY <1>1, <1>2, b_GivesOfChannel

(* The inference process loads the weights, whole, in the generator's order *)
(* and each of them once, those beyond the buffer included.                 *)
THEOREM InferenceGivesWhole ==
    ASSUME NEW models \in SUBSET Lengths, NEW b \in Nat \ {0}
    PROVE  InferenceOf(models, b)!Spec => InferenceOf(models, b)!ImplementsChannel
<1>1. InferenceOf(models, b)!Init => InferenceOf(models, b)!Channel!Init
    BY b_InitOfChannel
<1>2. b_Inv(models, b) /\ [InferenceOf(models, b)!Next]_(InferenceOf(models, b)!vars)
        => [InferenceOf(models, b)!Channel!Next]_(InferenceOf(models, b)!Channel!vars)
    <2>1. UNCHANGED InferenceOf(models, b)!vars => UNCHANGED infVars
        BY DEF InferenceOf!vars, InferenceOf!sender, InferenceOf!receiver, infVars
    <2> QED BY <2>1, b_StepOfChannel
<1> QED BY <1>1, <1>2, InferenceInvariant, PTL
        DEF InferenceOf!Spec, InferenceOf!ImplementsChannel, InferenceOf!Channel!Safety
-----------------------------------------------------------------------------
(* The composition                                                          *)
TheModels == UNION {[1 .. n -> 1 .. 3] : n \in 1 .. 4}

LEMMA TheModelsAreLengths == TheModels \in SUBSET Lengths
<1>1. ASSUME NEW n \in 1 .. 4, NEW m \in [1 .. n -> 1 .. 3] PROVE m \in Lengths
    <2>1. n \in Nat /\ m \in [1 .. n -> Nat \ {0}]
        OBVIOUS
    <2> QED BY <2>1 DEF Lengths
<1> QED BY <1>1 DEF TheModels

LEMMA InferenceInit == Inference!Init <=> InferenceOf(TheModels, 2)!Init
BY Zenon DEF Inference!Init, Inference!EmptyBuffer, InferenceOf!Init, InferenceOf!EmptyBuffer, TheModels

LEMMA InferenceNext == Inference!Next <=> InferenceOf(TheModels, 2)!Next
<1> USE DEF Inference!sender, Inference!receiver, InferenceOf!sender, InferenceOf!receiver,
            Inference!Weights, InferenceOf!Weights
<1>1. Inference!Answered <=> InferenceOf(TheModels, 2)!Answered
    BY Zenon DEF Inference!Answered, InferenceOf!Answered
<1>2. Inference!Pack <=> InferenceOf(TheModels, 2)!Pack
    BY Zenon DEF Inference!Pack, Inference!Fits, Inference!Entry,
          InferenceOf!Pack, InferenceOf!Fits, InferenceOf!Entry
<1>3. Inference!WriteRuns <=> InferenceOf(TheModels, 2)!WriteRuns
    BY Zenon DEF Inference!WriteRuns, Inference!Written, Inference!Bytes, Inference!BytesOfWeight,
          InferenceOf!WriteRuns, InferenceOf!Written, InferenceOf!Bytes, InferenceOf!BytesOfWeight
<1>4. /\ Inference!SendFull <=> InferenceOf(TheModels, 2)!SendFull
      /\ Inference!SendLast <=> InferenceOf(TheModels, 2)!SendLast
    BY Zenon DEF Inference!SendFull, Inference!SendLast, Inference!Request, Inference!Fits,
          InferenceOf!SendFull, InferenceOf!SendLast, InferenceOf!Request, InferenceOf!Fits
<1>5. Inference!SendLarge <=> InferenceOf(TheModels, 2)!SendLarge
    BY Zenon DEF Inference!SendLarge, Inference!Request, Inference!TooLarge, Inference!ByHandle,
          InferenceOf!SendLarge, InferenceOf!Request, InferenceOf!TooLarge, InferenceOf!ByHandle
<1>6. /\ Inference!OpenBuffer <=> InferenceOf(TheModels, 2)!OpenBuffer
      /\ Inference!TakeRequest <=> InferenceOf(TheModels, 2)!TakeRequest
      /\ Inference!Answer <=> InferenceOf(TheModels, 2)!Answer
    BY Zenon DEF Inference!OpenBuffer, Inference!TakeRequest, Inference!Answer,
          InferenceOf!OpenBuffer, InferenceOf!TakeRequest, InferenceOf!Answer
<1>7. Inference!LoadRuns <=> InferenceOf(TheModels, 2)!LoadRuns
    BY Zenon DEF Inference!LoadRuns, Inference!Value, Inference!Stretch, Inference!Bytes, Inference!BytesOfWeight,
          InferenceOf!LoadRuns, InferenceOf!Value, InferenceOf!Stretch, InferenceOf!Bytes, InferenceOf!BytesOfWeight
<1> QED BY <1>1, <1>2, <1>3, <1>4, <1>5, <1>6, <1>7, Zenon
        DEF Inference!Next, Inference!Sender, Inference!Receiver,
            InferenceOf!Next, InferenceOf!Sender, InferenceOf!Receiver

LEMMA InferenceStates ==
    /\ InferenceOf(TheModels, 2)!TypeOK => Inference!TypeOK
    /\ InferenceOf(TheModels, 2)!Alternates => Inference!Alternates
BY Zenon DEF Inference!TypeOK, Inference!Alternates, Inference!EntryType, Inference!Weights,
      InferenceOf!TypeOK, InferenceOf!Alternates, InferenceOf!EntryType, InferenceOf!Weights, TheModels

LEMMA Channels ==
    /\ Nccl!Channel!Init <=> NcclOf(TheSizes, 2, Workers)!Channel!Init
    /\ Nccl!Channel!Next <=> NcclOf(TheSizes, 2, Workers)!Channel!Next
    /\ Nixl!Channel!Init <=> NixlOf(TheSizes, 2, 3)!Channel!Init
    /\ Nixl!Channel!Next <=> NixlOf(TheSizes, 2, 3)!Channel!Next
    /\ Inference!Channel!Init <=> InferenceOf(TheModels, 2)!Channel!Init
    /\ Inference!Channel!Next <=> InferenceOf(TheModels, 2)!Channel!Next
    /\ UNCHANGED Inference!Channel!vars <=> UNCHANGED InferenceOf(TheModels, 2)!Channel!vars
<1>1. /\ Nccl!Channel!Init <=> NcclOf(TheSizes, 2, Workers)!Channel!Init
      /\ Nccl!Channel!Next <=> NcclOf(TheSizes, 2, Workers)!Channel!Next
    BY Zenon DEF Nccl!Channel!Init, Nccl!Channel!Next, Nccl!Channel!Give,
          Nccl!Model, Nccl!Weights, Nccl!Bytes, Nccl!BytesOfWeight,
          NcclOf!Channel!Init, NcclOf!Channel!Next, NcclOf!Channel!Give,
          NcclOf!Model, NcclOf!Weights, NcclOf!Bytes, NcclOf!BytesOfWeight, TheSizes, Workers
<1>2. /\ Nixl!Channel!Init <=> NixlOf(TheSizes, 2, 3)!Channel!Init
      /\ Nixl!Channel!Next <=> NixlOf(TheSizes, 2, 3)!Channel!Next
    BY Zenon DEF Nixl!Channel!Init, Nixl!Channel!Next, Nixl!Channel!Give, Nixl!Receivers,
          Nixl!Model, Nixl!Weights, Nixl!Bytes, Nixl!BytesOfWeight,
          NixlOf!Channel!Init, NixlOf!Channel!Next, NixlOf!Channel!Give, NixlOf!Receivers,
          NixlOf!Model, NixlOf!Weights, NixlOf!Bytes, NixlOf!BytesOfWeight, TheSizes
<1>3. /\ Inference!Channel!Init <=> InferenceOf(TheModels, 2)!Channel!Init
      /\ Inference!Channel!Next <=> InferenceOf(TheModels, 2)!Channel!Next
      /\ UNCHANGED Inference!Channel!vars <=> UNCHANGED InferenceOf(TheModels, 2)!Channel!vars
    BY Zenon DEF Inference!Channel!Init, Inference!Channel!Next, Inference!Channel!Give, Inference!Channel!vars,
          Inference!Model, Inference!Weights, Inference!Bytes, Inference!BytesOfWeight,
          InferenceOf!Channel!Init, InferenceOf!Channel!Next, InferenceOf!Channel!Give, InferenceOf!Channel!vars,
          InferenceOf!Model, InferenceOf!Weights, InferenceOf!Bytes, InferenceOf!BytesOfWeight
<1> QED BY <1>1, <1>2, <1>3
-----------------------------------------------------------------------------
(* Validation on replicas that share the trainer's devices, for any numbers *)
(* of replicas, clients and parameter versions                              *)

(* The steps of the trainer during which the hybrid replicas are awake, in *)
(* the manager's list, and each group is paused.                           *)
HybridAwake == Steps \ {"train", "synced", "resumeStandalone3", "resumeHybrid3"}
HybridAlive == {"resumeStandalone", "resumeHybrid", "validate", "validating",
                "abortStandalone3", "abortHybrid3", "removeReplicas"}
StandalonePaused == {"abortHybrid", "addReplicas", "resumeStandalone",
                     "abortHybrid3", "removeReplicas", "sleepHybrid", "resumeStandalone3"}
HybridPaused == {"addReplicas", "resumeStandalone", "resumeHybrid",
                 "removeReplicas", "sleepHybrid", "resumeStandalone3", "resumeHybrid3"}

Staged ==
    /\ awake = IF step \in HybridAwake THEN Servers ELSE Standalone
    /\ alive = IF step \in HybridAlive THEN Hybrid ELSE {}
    /\ \A s \in Standalone : s \in paused <=> step \in StandalonePaused
    /\ \A s \in Hybrid : s \in paused <=> step \in HybridPaused

(* Whoever is awake has the current parameters.                            *)
FreshVersions == \A s \in awake : version[s] = current

Measuring == {"validating", "abortStandalone3", "abortHybrid3", "removeReplicas", "sleepHybrid"}
Measured ==
    step \in Measuring =>
        \A c \in Validating :
            /\ pc[c] = "done" => answeredBy[c] = current
            /\ step # "validating" => pc[c] = "done"

(* The inductive invariant *)
ValidationInv == TypeOK /\ Staged /\ FreshVersions /\ Measured
-----------------------------------------------------------------------------
USE DEF HybridAwake, HybridAlive, StandalonePaused, HybridPaused, Measuring, Steps, Servers, Clients

LEMMA InitValidationInv == Init => ValidationInv
BY ServersAssumption, ClientsAssumption, VersionAssumption
   DEF Init, ValidationInv, TypeOK, Staged, FreshVersions, Measured

(* Each action preserves each part of the invariant.                       *)
LEMMA UpdateWeightsStep == ASSUME ValidationInv, UpdateWeights PROVE ValidationInv'
<1> USE ServersAssumption DEF UpdateWeights, Goes, manager
<1>1. TypeOK'
    <2>1. current \in Nat /\ current' \in 0 .. MaxVersion /\ current <= current'
        BY VersionAssumption DEF ValidationInv, TypeOK
    <2>2. version' \in [Servers -> 0 .. current']
        <3>1. version' = [s \in Servers |-> IF s \in Standalone THEN current + 1 ELSE version[s]]
            OBVIOUS
        <3>2. ASSUME NEW s \in Servers PROVE version[s] \in 0 .. current' /\ current + 1 \in 0 .. current'
            BY <2>1 DEF ValidationInv, TypeOK
        <3> QED BY <3>1, <3>2
    <2>3. pc' \in [Clients -> {"idle", "acquired", "sent", "done", "crashed"}]
        BY DEF ValidationInv, TypeOK
    <2>4. answeredBy' \in [Clients -> (0 .. current') \cup {None}]
        BY <2>1 DEF ValidationInv, TypeOK
    <2> QED BY <2>1, <2>2, <2>3, <2>4 DEF ValidationInv, TypeOK, Staged
<1>2. Staged'
    BY DEF ValidationInv, TypeOK, Staged
<1>3. FreshVersions'
    BY DEF ValidationInv, TypeOK, Staged, FreshVersions
<1>4. Measured'
    BY DEF ValidationInv, TypeOK, Staged, FreshVersions, Measured
<1> QED BY <1>1, <1>2, <1>3, <1>4 DEF ValidationInv

LEMMA SkipValidationStep == ASSUME ValidationInv, SkipValidation PROVE ValidationInv'
<1> USE ServersAssumption DEF SkipValidation, Goes, manager, engines, clients
<1>1. TypeOK'
    BY DEF ValidationInv, TypeOK, Staged
<1>2. Staged'
    BY DEF ValidationInv, TypeOK, Staged
<1>3. FreshVersions'
    BY DEF ValidationInv, TypeOK, Staged, FreshVersions
<1>4. Measured'
    BY DEF ValidationInv, TypeOK, Staged, FreshVersions, Measured
<1> QED BY <1>1, <1>2, <1>3, <1>4 DEF ValidationInv

LEMMA WakeHybridStep == ASSUME ValidationInv, WakeHybrid PROVE ValidationInv'
<1> USE ServersAssumption DEF WakeHybrid, Goes, manager, clients
<1>1. TypeOK'
    <2>1. current \in Nat /\ current' \in 0 .. MaxVersion /\ current <= current'
        BY VersionAssumption DEF ValidationInv, TypeOK
    <2>2. version' \in [Servers -> 0 .. current']
        <3>1. version' = [s \in Servers |-> IF s \in Hybrid THEN current ELSE version[s]]
            BY DEF ValidationInv
        <3>2. ASSUME NEW s \in Servers PROVE version[s] \in 0 .. current' /\ current \in 0 .. current'
            BY <2>1 DEF ValidationInv, TypeOK
        <3> QED BY <3>1, <3>2
    <2>3. pc' \in [Clients -> {"idle", "acquired", "sent", "done", "crashed"}]
        BY DEF ValidationInv, TypeOK
    <2>4. answeredBy' \in [Clients -> (0 .. current') \cup {None}]
        BY <2>1 DEF ValidationInv, TypeOK
    <2> QED BY <2>1, <2>2, <2>3, <2>4 DEF ValidationInv, TypeOK, Staged
<1>2. Staged'
    BY DEF ValidationInv, TypeOK, Staged
<1>3. FreshVersions'
    BY DEF ValidationInv, TypeOK, Staged, FreshVersions
<1>4. Measured'
    BY DEF ValidationInv, TypeOK, Staged, FreshVersions, Measured
<1> QED BY <1>1, <1>2, <1>3, <1>4 DEF ValidationInv

LEMMA AbortStandaloneStep == ASSUME ValidationInv, AbortStandalone PROVE ValidationInv'
<1> USE ServersAssumption DEF AbortStandalone, Goes, Abort, manager
<1>1. TypeOK'
    BY DEF ValidationInv, TypeOK, Staged
<1>2. Staged'
    BY DEF ValidationInv, TypeOK, Staged
<1>3. FreshVersions'
    BY DEF ValidationInv, TypeOK, Staged, FreshVersions
<1>4. Measured'
    BY DEF ValidationInv, TypeOK, Staged, FreshVersions, Measured
<1> QED BY <1>1, <1>2, <1>3, <1>4 DEF ValidationInv

LEMMA AbortHybridStep == ASSUME ValidationInv, AbortHybrid PROVE ValidationInv'
<1> USE ServersAssumption DEF AbortHybrid, Goes, Abort, manager
<1>1. TypeOK'
    BY DEF ValidationInv, TypeOK, Staged
<1>2. Staged'
    BY DEF ValidationInv, TypeOK, Staged
<1>3. FreshVersions'
    BY DEF ValidationInv, TypeOK, Staged, FreshVersions
<1>4. Measured'
    BY DEF ValidationInv, TypeOK, Staged, FreshVersions, Measured
<1> QED BY <1>1, <1>2, <1>3, <1>4 DEF ValidationInv

LEMMA AddReplicasStep == ASSUME ValidationInv, AddReplicas PROVE ValidationInv'
<1> USE ServersAssumption DEF AddReplicas, Goes, engines, clients
<1>1. TypeOK'
    BY DEF ValidationInv, TypeOK, Staged
<1>2. Staged'
    BY DEF ValidationInv, TypeOK, Staged
<1>3. FreshVersions'
    BY DEF ValidationInv, TypeOK, Staged, FreshVersions
<1>4. Measured'
    BY DEF ValidationInv, TypeOK, Staged, FreshVersions, Measured
<1> QED BY <1>1, <1>2, <1>3, <1>4 DEF ValidationInv

LEMMA ResumeStandaloneStep == ASSUME ValidationInv, ResumeStandalone PROVE ValidationInv'
<1> USE ServersAssumption DEF ResumeStandalone, Goes, Resume, manager, clients
<1>1. TypeOK'
    BY DEF ValidationInv, TypeOK, Staged
<1>2. Staged'
    BY DEF ValidationInv, TypeOK, Staged
<1>3. FreshVersions'
    BY DEF ValidationInv, TypeOK, Staged, FreshVersions
<1>4. Measured'
    BY DEF ValidationInv, TypeOK, Staged, FreshVersions, Measured
<1> QED BY <1>1, <1>2, <1>3, <1>4 DEF ValidationInv

LEMMA ResumeHybridStep == ASSUME ValidationInv, ResumeHybrid PROVE ValidationInv'
<1> USE ServersAssumption DEF ResumeHybrid, Goes, Resume, manager, clients
<1>1. TypeOK'
    BY DEF ValidationInv, TypeOK, Staged
<1>2. Staged'
    BY DEF ValidationInv, TypeOK, Staged
<1>3. FreshVersions'
    BY DEF ValidationInv, TypeOK, Staged, FreshVersions
<1>4. Measured'
    BY DEF ValidationInv, TypeOK, Staged, FreshVersions, Measured
<1> QED BY <1>1, <1>2, <1>3, <1>4 DEF ValidationInv

LEMMA StartValidationStep == ASSUME ValidationInv, StartValidation PROVE ValidationInv'
<1> USE ServersAssumption DEF StartValidation, Goes, manager, engines
<1>1. TypeOK'
    BY DEF ValidationInv, TypeOK, Staged
<1>2. Staged'
    BY DEF ValidationInv, TypeOK, Staged
<1>3. FreshVersions'
    BY DEF ValidationInv, TypeOK, Staged, FreshVersions
<1>4. Measured'
    BY DEF ValidationInv, TypeOK, Staged, FreshVersions, Measured
<1> QED BY <1>1, <1>2, <1>3, <1>4 DEF ValidationInv

LEMMA EndValidationStep == ASSUME ValidationInv, EndValidation PROVE ValidationInv'
<1> USE ServersAssumption DEF EndValidation, Goes, ValidationDone, manager, engines, clients
<1>1. TypeOK'
    BY DEF ValidationInv, TypeOK, Staged
<1>2. Staged'
    BY DEF ValidationInv, TypeOK, Staged
<1>3. FreshVersions'
    BY DEF ValidationInv, TypeOK, Staged, FreshVersions
<1>4. Measured'
    BY DEF ValidationInv, TypeOK, Staged, FreshVersions, Measured
<1> QED BY <1>1, <1>2, <1>3, <1>4 DEF ValidationInv

LEMMA RemoveReplicasStep == ASSUME ValidationInv, RemoveReplicas PROVE ValidationInv'
<1> USE ServersAssumption DEF RemoveReplicas, Goes, engines, clients
<1>1. TypeOK'
    BY DEF ValidationInv, TypeOK, Staged
<1>2. Staged'
    BY DEF ValidationInv, TypeOK, Staged
<1>3. FreshVersions'
    BY DEF ValidationInv, TypeOK, Staged, FreshVersions
<1>4. Measured'
    BY DEF ValidationInv, TypeOK, Staged, FreshVersions, Measured
<1> QED BY <1>1, <1>2, <1>3, <1>4 DEF ValidationInv

LEMMA SleepHybridStep == ASSUME ValidationInv, SleepHybrid PROVE ValidationInv'
<1> USE ServersAssumption DEF SleepHybrid, Goes, manager, clients
<1>1. TypeOK'
    BY DEF ValidationInv, TypeOK, Staged
<1>2. Staged'
    BY DEF ValidationInv, TypeOK, Staged
<1>3. FreshVersions'
    BY DEF ValidationInv, TypeOK, Staged, FreshVersions
<1>4. Measured'
    BY DEF ValidationInv, TypeOK, Staged, FreshVersions, Measured
<1> QED BY <1>1, <1>2, <1>3, <1>4 DEF ValidationInv

LEMMA AcquireStep == ASSUME ValidationInv, NEW c \in Clients, Acquire(c) PROVE ValidationInv'
<1> USE ServersAssumption DEF Acquire, trainer, manager, engines
<1>1. TypeOK'
    BY DEF ValidationInv, TypeOK, Staged
<1>2. Staged'
    BY DEF ValidationInv, TypeOK, Staged
<1>3. FreshVersions'
    BY DEF ValidationInv, TypeOK, Staged, FreshVersions
<1>4. Measured'
    BY DEF ValidationInv, TypeOK, Staged, FreshVersions, Measured
<1> QED BY <1>1, <1>2, <1>3, <1>4 DEF ValidationInv

LEMMA SendStep == ASSUME ValidationInv, NEW c \in Clients, Send(c) PROVE ValidationInv'
<1> USE ServersAssumption DEF Send, trainer, manager, engines
<1>1. TypeOK'
    BY DEF ValidationInv, TypeOK, Staged
<1>2. Staged'
    BY DEF ValidationInv, TypeOK, Staged
<1>3. FreshVersions'
    BY DEF ValidationInv, TypeOK, Staged, FreshVersions
<1>4. Measured'
    BY DEF ValidationInv, TypeOK, Staged, FreshVersions, Measured
<1> QED BY <1>1, <1>2, <1>3, <1>4 DEF ValidationInv

LEMMA GenerateStep == ASSUME ValidationInv, NEW c \in Clients, Generate(c) PROVE ValidationInv'
<1> USE ServersAssumption DEF Generate, trainer, manager, engines
<1>1. TypeOK'
    BY DEF ValidationInv, TypeOK, Staged
<1>2. Staged'
    BY DEF ValidationInv, TypeOK, Staged
<1>3. FreshVersions'
    BY DEF ValidationInv, TypeOK, Staged, FreshVersions
<1>4. Measured'
    BY DEF ValidationInv, TypeOK, Staged, FreshVersions, Measured
<1> QED BY <1>1, <1>2, <1>3, <1>4 DEF ValidationInv

LEMMA GenerateAsleepStep == ASSUME ValidationInv, NEW c \in Clients, GenerateAsleep(c) PROVE ValidationInv'
<1> USE ServersAssumption DEF GenerateAsleep, trainer, manager, engines
<1>1. TypeOK'
    BY DEF ValidationInv, TypeOK, Staged
<1>2. Staged'
    BY DEF ValidationInv, TypeOK, Staged
<1>3. FreshVersions'
    BY DEF ValidationInv, TypeOK, Staged, FreshVersions
<1>4. Measured'
    BY DEF ValidationInv, TypeOK, Staged, FreshVersions, Measured
<1> QED BY <1>1, <1>2, <1>3, <1>4 DEF ValidationInv

LEMMA NextSampleStep == ASSUME ValidationInv, NEW c \in Clients, NextSample(c) PROVE ValidationInv'
<1> USE ServersAssumption DEF NextSample, trainer, manager, engines
<1>1. TypeOK'
    BY DEF ValidationInv, TypeOK, Staged
<1>2. Staged'
    BY DEF ValidationInv, TypeOK, Staged
<1>3. FreshVersions'
    BY DEF ValidationInv, TypeOK, Staged, FreshVersions
<1>4. Measured'
    BY ClientsAssumption DEF ValidationInv, TypeOK, Staged, FreshVersions, Measured
<1> QED BY <1>1, <1>2, <1>3, <1>4 DEF ValidationInv

LEMMA StutterValidationInv == ASSUME ValidationInv, UNCHANGED vars PROVE ValidationInv'
BY DEF ValidationInv, TypeOK, Staged, FreshVersions, Measured, vars, trainer, manager, engines, clients

LEMMA NextValidationInv == ValidationInv /\ [Next]_vars => ValidationInv'
<1> SUFFICES ASSUME ValidationInv, [Next]_vars PROVE ValidationInv'
    OBVIOUS
<1>1. CASE Trainer
    BY <1>1, UpdateWeightsStep, SkipValidationStep, WakeHybridStep, AbortStandaloneStep,
       AbortHybridStep, AddReplicasStep, ResumeStandaloneStep, ResumeHybridStep,
       StartValidationStep, EndValidationStep, RemoveReplicasStep, SleepHybridStep DEF Trainer
<1>2. ASSUME NEW c \in Clients, Client(c) \/ NextSample(c) PROVE ValidationInv'
    BY <1>2, AcquireStep, SendStep, GenerateStep, GenerateAsleepStep, NextSampleStep DEF Client
<1>3. CASE UNCHANGED vars
    BY <1>3, StutterValidationInv
<1> QED BY <1>1, <1>2, <1>3 DEF Next

LEMMA ValidationInvariant == Spec => []ValidationInv
<1>1. Init => ValidationInv
    BY InitValidationInv
<1>2. ValidationInv /\ [Next]_vars => ValidationInv'
    BY NextValidationInv
<1> QED BY <1>1, <1>2, PTL DEF Spec
-----------------------------------------------------------------------------
(* Type correctness; in particular the manager's lists agree with the      *)
(* balancer's pool between any two remote calls of the trainer.            *)
THEOREM ValidationTypeCorrect == Spec => []TypeOK
<1>1. ValidationInv => TypeOK
    BY DEF ValidationInv
<1> QED BY <1>1, ValidationInvariant, PTL

(* Whatever the clients do meanwhile, a replica in the balancer's pool is  *)
(* awake or paused; when the trainer computes, the hybrid replicas sleep,  *)
(* nobody is sent to them and no engine has been left paused; and a        *)
(* validation's answers are all of the current parameters.                 *)
LEMMA ValidationInvSafe == ValidationInv => ValidationIsSafe
<1>1. ValidationInv => PoolIsUsable
    BY DEF ValidationInv, TypeOK, Staged, PoolIsUsable
<1>2. ValidationInv => DevicesAreGivenBack
    BY DEF ValidationInv, TypeOK, Staged, DevicesAreGivenBack
<1>3. ValidationInv => ValidatesCurrentParameters
    BY DEF ValidationInv, Measured, ValidatesCurrentParameters
<1> QED BY <1>1, <1>2, <1>3 DEF ValidationIsSafe

(* A validation leaves the replicas and the shared devices as it found them *)
(* and measures the current parameters only, for any replicas, clients and  *)
(* number of updates.                                                       *)
THEOREM SafeValidation == Spec => []ValidationIsSafe
BY ValidationInvSafe, ValidationInvariant, PTL

(* Whoever has acquired a server has one.                                  *)
Addressed == \A c \in Clients : pc[c] \in {"acquired", "sent"} => at[c] \in Servers

LEMMA AddressedHolds == Spec => []Addressed
<1>1. Init => Addressed
    BY DEF Init, Addressed
<1>2. ValidationInv /\ Addressed /\ [Next]_vars => Addressed'
    <2> SUFFICES ASSUME ValidationInv, Addressed, [Next]_vars PROVE Addressed'
        OBVIOUS
    <2>0. /\ pc \in [Clients -> {"idle", "acquired", "sent", "done", "crashed"}]
          /\ at \in [Clients -> Servers \cup {None}] /\ pool \subseteq Servers
        BY DEF ValidationInv, TypeOK
    <2>1. CASE Trainer
        <3>1. at' = at
            BY <2>1 DEF Trainer, UpdateWeights, SkipValidation, WakeHybrid, AbortStandalone, AbortHybrid,
                   Abort, AddReplicas, ResumeStandalone, ResumeHybrid, StartValidation,
                   EndValidation, RemoveReplicas, SleepHybrid, clients
        <3>2. \A c \in Clients : pc'[c] \in {pc[c], "idle"}
            BY <2>0, <2>1 DEF Trainer, UpdateWeights, SkipValidation, WakeHybrid, AbortStandalone,
                   AbortHybrid, Abort, AddReplicas, ResumeStandalone, ResumeHybrid, StartValidation,
                   EndValidation, RemoveReplicas, SleepHybrid, clients
        <3> QED BY <3>1, <3>2 DEF Addressed
    <2>2. ASSUME NEW d \in Clients, Acquire(d) PROVE Addressed'
        BY <2>0, <2>2 DEF Acquire, Addressed
    <2>3. ASSUME NEW d \in Clients, Send(d) \/ Generate(d) \/ GenerateAsleep(d) \/ NextSample(d)
          PROVE  Addressed'
        BY <2>0, <2>3 DEF Send, Generate, GenerateAsleep, NextSample, Addressed
    <2>4. CASE UNCHANGED vars
        BY <2>4 DEF vars, clients, Addressed
    <2> QED BY <2>1, <2>2, <2>3, <2>4 DEF Next, Client
<1> QED BY <1>1, <1>2, ValidationInvariant, PTL DEF Spec

(* A request is lost in one way only: its client was given a hybrid replica*)
(* that left the pool before the request was run.  No abort and no         *)
(* validation loses one.  (That some are lost is what the run              *)
(* generation_asleep shows.)                                 *)
LostOnlyAfterRemoval ==
    [][\A c \in Clients : pc[c] # "crashed" /\ pc'[c] = "crashed" =>
          pc[c] = "sent" /\ at[c] \in Hybrid \ pool]_vars

THEOREM OnlyRemovalLoses == Spec => LostOnlyAfterRemoval
<1>1. ASSUME ValidationInv, Addressed, Next, NEW c \in Clients, pc[c] # "crashed", pc'[c] = "crashed"
      PROVE  pc[c] = "sent" /\ at[c] \in Hybrid \ pool
    <2>0. pc \in [Clients -> {"idle", "acquired", "sent", "done", "crashed"}]
        BY <1>1 DEF ValidationInv, TypeOK
    <2>1. ASSUME Trainer PROVE FALSE
        <3>1. pc'[c] \in {pc[c], "idle"}
            BY <2>0, <2>1 DEF Trainer, UpdateWeights, SkipValidation, WakeHybrid, AbortStandalone,
                   AbortHybrid, Abort, AddReplicas, ResumeStandalone, ResumeHybrid, StartValidation,
                   EndValidation, RemoveReplicas, SleepHybrid, clients
        <3> QED BY <1>1, <3>1
    <2>2. ASSUME NEW d \in Clients, Acquire(d) \/ Send(d) \/ Generate(d) \/ NextSample(d) PROVE FALSE
        BY <1>1, <2>0, <2>2 DEF Acquire, Send, Generate, NextSample
    <2>3. ASSUME NEW d \in Clients, GenerateAsleep(d)
          PROVE  pc[c] = "sent" /\ at[c] \notin awake \cup paused
        BY <1>1, <2>0, <2>3 DEF GenerateAsleep
    <2>4. pc[c] = "sent" /\ at[c] \notin awake \cup paused
        BY <1>1, <2>1, <2>2, <2>3 DEF Next, Client
    <2>5. at[c] \in Servers
        BY <1>1, <2>4 DEF Addressed
    <2>6. Standalone \subseteq awake /\ pool \subseteq awake \cup paused
        BY <1>1 DEF ValidationInv, TypeOK, Staged
    <2> QED BY <2>4, <2>5, <2>6
<1>2. ValidationInv /\ Addressed /\ [Next]_vars =>
        [\A c \in Clients : pc[c] # "crashed" /\ pc'[c] = "crashed" =>
              pc[c] = "sent" /\ at[c] \in Hybrid \ pool]_vars
    BY <1>1
<1> QED BY <1>2, ValidationInvariant, AddressedHolds, PTL DEF Spec, LostOnlyAfterRemoval
-----------------------------------------------------------------------------
(* All of it.  The models that do not run stay where they are, in their own *)
(* invariants.                                                              *)
AllInv ==
    /\ ValidationInv /\ n_Inv(TheSizes, 2, Workers) /\ x_Inv(TheSizes, 2, 3)
    /\ b_Inv(TheModels, 2)

(* A step of one model, or a stutter, and what it is to each of them.       *)
LEMMA OneSteps ==
    ASSUME [NextOfOne]_allVars
    PROVE  /\ [Next]_vars
           /\ Nccl!Next \/ UNCHANGED ncclVars
           /\ Nixl!Next \/ UNCHANGED nixlVars
           /\ Inference!Next \/ UNCHANGED infVars
           /\ model # "nccl" => UNCHANGED ncclVars
           /\ model # "nixl" => UNCHANGED nixlVars
<1>1. CASE UNCHANGED allVars
    BY <1>1, Zenon DEF allVars
<1>2. CASE NextOfOne
    <2>1. CASE model = "validation" /\ Next /\ UNCHANGED <<ncclVars, nixlVars, infVars>>
        BY <2>1, Zenon
    <2>2. CASE model = "nccl" /\ Nccl!Next /\ UNCHANGED <<vars, nixlVars, infVars>>
        <3>1. model # "nixl"
            BY <2>2
        <3> QED BY <2>2, Zenon
    <2>3. CASE model = "nixl" /\ Nixl!Next /\ UNCHANGED <<vars, ncclVars, infVars>>
        <3>1. model # "nccl"
            BY <2>3
        <3> QED BY <2>3, Zenon
    <2>4. CASE model = "inference" /\ Inference!Next /\ UNCHANGED <<vars, ncclVars, nixlVars>>
        BY <2>4, Zenon
    <2> QED BY <1>2, <2>1, <2>2, <2>3, <2>4, Zenon DEF NextOfOne
<1> QED BY <1>1, <1>2, Zenon

LEMMA AllInitInv == InitOfAll => AllInv
<1> SUFFICES ASSUME InitOfAll PROVE AllInv
    OBVIOUS
<1>1. Init /\ Nccl!Init /\ Nixl!Init /\ Inference!Init
    BY Zenon DEF InitOfAll
<1>2. ValidationInv
    BY <1>1, InitValidationInv, Zenon
<1>3. n_Inv(TheSizes, 2, Workers)
    <2>1. NcclOf(TheSizes, 2, Workers)!Init /\ 2 \in Nat \ {0}
        BY <1>1, NcclInit
    <2> QED BY <2>1, TheSizesAreLengths, n_InitInv, Zenon
<1>4. x_Inv(TheSizes, 2, 3)
    <2>1. NixlOf(TheSizes, 2, 3)!Init /\ 2 \in Nat \ {0} /\ 3 \in Nat \ {0}
        BY <1>1, NixlInit
    <2> QED BY <2>1, TheSizesAreLengths, x_InitInv, Zenon
<1>5. b_Inv(TheModels, 2)
    <2>1. InferenceOf(TheModels, 2)!Init /\ 2 \in Nat \ {0}
        BY <1>1, InferenceInit
    <2> QED BY <2>1, TheModelsAreLengths, b_InitInv, Zenon
<1> QED BY <1>2, <1>3, <1>4, <1>5 DEF AllInv

LEMMA AllSteps ==
    ASSUME AllInv, [NextOfOne]_allVars
    PROVE  /\ AllInv'
           /\ UNCHANGED ncclVars \/ (model = "nccl" /\ n_Respects(Workers) /\ n_Gives(TheSizes, Workers))
           /\ UNCHANGED nixlVars \/ (model = "nixl" /\ x_Respects(3) /\ x_Gives(TheSizes, 3))
<1>1. ValidationInv'
    BY OneSteps, NextValidationInv, Zenon DEF AllInv
<1>2. /\ n_Inv(TheSizes, 2, Workers)'
      /\ UNCHANGED ncclVars \/ (model = "nccl" /\ n_Respects(Workers) /\ n_Gives(TheSizes, Workers))
    <2>1. n_Inv(TheSizes, 2, Workers) /\ 2 \in Nat \ {0}
        BY DEF AllInv
    <2>2. CASE UNCHANGED ncclVars
        BY <2>1, <2>2, n_Stutter, Zenon
    <2>3. CASE model = "nccl" /\ Nccl!Next
        <3>1. NcclOf(TheSizes, 2, Workers)!Next
            BY <2>3, NcclNext
        <3> QED BY <2>1, <2>3, <3>1, n_Step, TheSizesAreLengths, Zenon
    <2> QED BY <2>2, <2>3, OneSteps, Zenon
<1>3. /\ x_Inv(TheSizes, 2, 3)'
      /\ UNCHANGED nixlVars \/ (model = "nixl" /\ x_Respects(3) /\ x_Gives(TheSizes, 3))
    <2>1. x_Inv(TheSizes, 2, 3) /\ 2 \in Nat \ {0} /\ 3 \in Nat \ {0}
        BY DEF AllInv
    <2>2. CASE UNCHANGED nixlVars
        BY <2>1, <2>2, x_Stutter, Zenon
    <2>3. CASE model = "nixl" /\ Nixl!Next
        <3>1. NixlOf(TheSizes, 2, 3)!Next
            BY <2>3, NixlNext
        <3> QED BY <2>1, <2>3, <3>1, x_Step, TheSizesAreLengths, Zenon
    <2> QED BY <2>2, <2>3, OneSteps, Zenon
<1>4. b_Inv(TheModels, 2)'
    <2>1. b_Inv(TheModels, 2) /\ 2 \in Nat \ {0}
        BY DEF AllInv
    <2>2. CASE UNCHANGED infVars
        BY <2>1, <2>2, b_Stutter, Zenon
    <2>3. CASE Inference!Next
        <3>1. InferenceOf(TheModels, 2)!Next
            BY <2>3, InferenceNext
        <3> QED BY <2>1, <3>1, b_Step, TheModelsAreLengths, Zenon
    <2> QED BY <2>2, <2>3, OneSteps, Zenon
<1> QED BY <1>1, <1>2, <1>3, <1>4, Zenon DEF AllInv

LEMMA AllInvariant == SpecOfAll => []AllInv
<1>1. AllInv /\ [NextOfOne]_allVars => AllInv'
    BY AllSteps
<1> QED BY <1>1, AllInitInv, PTL DEF SpecOfAll

(* Each model has its types, and the two ends of every transfer agree about *)
(* where it is: no assertion of a sender, a receiver or merge_weight_chunks *)
(* fails, and requests and answers alternate.                               *)
THEOREM EveryUpdateTypeCorrect == SpecOfAll => []TypesOK
<1>1. ASSUME AllInv PROVE TypesOK
    <2>1. ValidationInv /\ n_Inv(TheSizes, 2, Workers) /\ x_Inv(TheSizes, 2, 3) /\ b_Inv(TheModels, 2)
          /\ 2 \in Nat \ {0} /\ 3 \in Nat \ {0}
        BY <1>1 DEF AllInv
    <2>2. TypeOK
        BY <2>1 DEF ValidationInv
    <2>3. Nccl!TypeOK /\ Nccl!AssertionsHold
        BY <2>1, n_InvImplies, NcclStates, TheSizesAreLengths, Zenon
    <2>4. Nixl!TypeOK /\ Nixl!AssertionsHold
        BY <2>1, x_InvImplies, NixlStates, TheSizesAreLengths, Zenon
    <2>5. Inference!TypeOK /\ Inference!Alternates
        BY <2>1, b_InvImplies, InferenceStates, TheModelsAreLengths, Zenon
    <2> QED BY <2>2, <2>3, <2>4, <2>5, Zenon DEF TypesOK, AssertionsHold, Alternates
<1>2. AllInv => TypesOK
    BY <1>1
<1> QED BY <1>2, AllInvariant, PTL

(* No buffer is overwritten while a broadcast, the next node of the chain   *)
(* or a consumer's queued copy reads it.                                    *)
THEOREM NoBufferIsOverwritten == SpecOfAll => BuffersAreRespected
<1> DEFINE Broadcast == /\ n_reached # {r1, r2} => n_bufs'[n_op.buf] = n_bufs[n_op.buf]
                        /\ \A r \in {r1, r2} : \A i \in DOMAIN n_reads[r] :
                              LET c == n_reads[r][i].buf IN n_rbufs'[r][c] = n_rbufs[r][c]
           Relay == /\ \A n \in 0 .. 3 - 1 :
                          /\ x_message[n] # << >> =>
                                x_bufs'[n][x_message[n].buf] = x_bufs[n][x_message[n].buf]
                          /\ x_reading[n + 1] # << >> /\ ~x_copied[n + 1] =>
                                x_bufs'[n][x_reading[n + 1].buf] = x_bufs[n][x_reading[n + 1].buf]
                    /\ \A r \in 1 .. 3 : \A i \in DOMAIN x_reads[r] :
                          LET c == x_reads[r][i].buf IN x_bufs'[r][c] = x_bufs[r][c]
<1>1. ASSUME AllInv, [NextOfOne]_allVars PROVE [Broadcast]_(Nccl!vars) /\ [Relay]_(Nixl!vars)
    <2>1. UNCHANGED ncclVars => UNCHANGED Nccl!vars
        BY DEF ncclVars, Nccl!vars, Nccl!sender, Nccl!receiver
    <2>2. UNCHANGED nixlVars => UNCHANGED Nixl!vars
        BY DEF nixlVars, Nixl!vars, Nixl!sender, Nixl!offers, Nixl!receiver
    <2>3. n_Respects(Workers) => Broadcast
        BY Zenon DEF n_Respects, Workers
    <2>4. x_Respects(3) => Relay
        BY Zenon DEF x_Respects
    <2> QED BY <1>1, <2>1, <2>2, <2>3, <2>4, AllSteps, Zenon
<1>2. AllInv /\ [NextOfOne]_allVars => [Broadcast]_(Nccl!vars)
    BY <1>1
<1>3. AllInv /\ [NextOfOne]_allVars => [Relay]_(Nixl!vars)
    BY <1>1
<1>4. SpecOfAll => NoBroadcastBucketIsOverwritten
    BY <1>2, AllInvariant, PTL DEF SpecOfAll, NoBroadcastBucketIsOverwritten, Nccl!NoBucketInUseIsWritten
<1>5. SpecOfAll => NoRelayedBucketIsOverwritten
    BY <1>3, AllInvariant, PTL DEF SpecOfAll, NoRelayedBucketIsOverwritten, Nixl!NoBucketInUseIsWritten,
       Nixl!Receivers
<1> QED BY <1>4, <1>5 DEF BuffersAreRespected

(* Whichever way the weights travel, every receiver is given them whole, in *)
(* the generator's order and each of them once.                             *)
THEOREM EveryTransferGivesWhole == SpecOfAll => AllImplementChannel
<1>1. ASSUME InitOfAll PROVE Nccl!Channel!Init /\ Nixl!Channel!Init /\ Inference!Channel!Init
    <2>1. Nccl!Init /\ Nixl!Init /\ Inference!Init
        BY <1>1, Zenon DEF InitOfAll
    <2>2. NcclOf(TheSizes, 2, Workers)!Channel!Init
        BY <2>1, NcclInit, n_InitOfChannel
    <2>3. NixlOf(TheSizes, 2, 3)!Channel!Init
        BY <2>1, NixlInit, x_InitOfChannel
    <2>4. InferenceOf(TheModels, 2)!Channel!Init
        BY <2>1, InferenceInit, b_InitOfChannel
    <2> QED BY <2>2, <2>3, <2>4, Channels
<1>2. ASSUME AllInv, [NextOfOne]_allVars PROVE [model = "nccl" /\ Nccl!Channel!Next]_broadcasted
    <2>1. CASE UNCHANGED ncclVars
        <3>1. n_merge' = n_merge
            BY <2>1 DEF ncclVars
        <3> QED BY <3>1, Zenon DEF broadcasted
    <2>2. CASE model = "nccl" /\ n_Gives(TheSizes, Workers)
        <3>1. n_Types(TheSizes, 2, Workers) /\ n_Types(TheSizes, 2, Workers)'
            BY <1>2, AllSteps DEF AllInv, n_Inv
        <3>2. NcclOf(TheSizes, 2, Workers)!Channel!Next \/ UNCHANGED [r \in Workers |-> n_merge[r].yielded]
            BY <2>2, <3>1, n_GivesOfChannel, TheSizesAreLengths
        <3> QED BY <2>2, <3>2, Channels, Zenon DEF broadcasted, Workers
    <2> QED BY <1>2, <2>1, <2>2, AllSteps
<1>3. ASSUME AllInv, [NextOfOne]_allVars PROVE [model = "nixl" /\ Nixl!Channel!Next]_relayed
    <2>1. CASE UNCHANGED nixlVars
        <3>1. x_merge' = x_merge
            BY <2>1 DEF nixlVars
        <3> QED BY <3>1, Zenon DEF relayed
    <2>2. CASE model = "nixl" /\ x_Gives(TheSizes, 3)
        <3>1. x_Types(TheSizes, 2, 3) /\ x_Types(TheSizes, 2, 3)'
            BY <1>3, AllSteps DEF AllInv, x_Inv
        <3>2. NixlOf(TheSizes, 2, 3)!Channel!Next \/ UNCHANGED [r \in 1 .. 3 |-> x_merge[r].yielded]
            BY <2>2, <3>1, x_GivesOfChannel, TheSizesAreLengths
        <3> QED BY <2>2, <3>2, Channels, Zenon DEF relayed
    <2> QED BY <1>3, <2>1, <2>2, AllSteps
<1>4. ASSUME AllInv, [NextOfOne]_allVars PROVE [Inference!Channel!Next]_(Inference!Channel!vars)
    <2>1. InferenceOf(TheModels, 2)!Next \/ UNCHANGED infVars
        BY <1>4, OneSteps, InferenceNext
    <2>2. [InferenceOf(TheModels, 2)!Channel!Next]_(InferenceOf(TheModels, 2)!Channel!vars)
        BY <1>4, <2>1, TheModelsAreLengths, b_StepOfChannel DEF AllInv
    <2> QED BY <2>2, Channels
<1>5. /\ InitOfAll => Nccl!Channel!Init
      /\ InitOfAll => Nixl!Channel!Init
      /\ InitOfAll => Inference!Channel!Init
    BY <1>1
<1>6. AllInv /\ [NextOfOne]_allVars => [model = "nccl" /\ Nccl!Channel!Next]_broadcasted
    BY <1>2
<1>7. AllInv /\ [NextOfOne]_allVars => [model = "nixl" /\ Nixl!Channel!Next]_relayed
    BY <1>3
<1>8. AllInv /\ [NextOfOne]_allVars => [Inference!Channel!Next]_(Inference!Channel!vars)
    BY <1>4
<1>9. SpecOfAll => BroadcastImplementsChannel
    BY <1>5, <1>6, AllInvariant, PTL DEF SpecOfAll, BroadcastImplementsChannel
<1>10. SpecOfAll => ChainImplementsChannel
    BY <1>5, <1>7, AllInvariant, PTL DEF SpecOfAll, ChainImplementsChannel
<1>11. SpecOfAll => InferenceImplementsChannel
    BY <1>5, <1>8, AllInvariant, PTL DEF SpecOfAll, InferenceImplementsChannel,
       Inference!ImplementsChannel, Inference!Channel!Safety
<1> QED BY <1>9, <1>10, <1>11 DEF AllImplementChannel

(* Validation leaves the shared devices as it found them and measures the   *)
(* current parameters only.                                                 *)
THEOREM ValidationStaysSafe == SpecOfAll => []ValidationIsSafe
<1>1. AllInv => ValidationIsSafe
    BY ValidationInvSafe DEF AllInv
<1> QED BY <1>1, AllInvariant, PTL
=============================================================================
