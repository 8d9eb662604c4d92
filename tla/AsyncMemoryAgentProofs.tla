----------------------- MODULE AsyncMemoryAgentProofs -----------------------
(***************************************************************************)
(* Theorems about AsyncMemoryAgent for every batch, every length of the    *)
(* contexts, every width of the windows and every number of passes: which  *)
(* chunks are asked, in what order the turns of an item are recorded, what *)
(* its merges are shown, and that it follows ReadSelectMerge, whatever the *)
(* order of the replies and whichever of them are errors.                  *)
(***************************************************************************)
EXTENDS AsyncMemoryAgent, FiniteSetTheorems, SequenceTheorems, TLAPS

Assumptions == MaxChunksAssumption /\ ParallelismAssumption /\ MaxPassesAssumption

LEMMA ConstantTypes ==
    ASSUME Assumptions
    PROVE  /\ MaxChunks \in Nat /\ Parallelism \in Nat
           /\ MaxPasses \in Nat /\ MaxPasses >= 1
BY SMT DEF Assumptions, MaxChunksAssumption, ParallelismAssumption, MaxPassesAssumption

-----------------------------------------------------------------------------
(* The invariant, item by item                                             *)

Turns == [kind : {"chunk", "merge", "final"}, chunk : -1 .. MaxChunks - 1,
          seen : Memories, news : BOOLEAN, pass : 1 .. MaxPasses]
TypeInv == /\ TypeOK
           /\ DOMAIN replies = Samples
           /\ conversations \in [Samples -> Seq(Turns)]

Windowed(s) ==
    at[s] = "chunks" =>
        /\ pending[s] \cap DOMAIN replies[s] = {}
        /\ pending[s] \cup DOMAIN replies[s] =
              0 .. Least(window[s] + Width(s), nchunks[s]) - 1

(* Past its chunks an item has a reply to each of them, and none failed.    *)
(* Its memory has as many merges as its pass has predecessors, and what the *)
(* next request shows is that memory, with the news behind it for a merge.  *)
Staged(s) ==
    /\ at[s] # "chunks" => DOMAIN replies[s] = 0 .. nchunks[s] - 1 /\ ~Failed(s)
    /\ at[s] \in {"chunks", "merge"} => Len(global_memory[s]) + 1 = final_pass_used[s]
    /\ at[s] \in {"final", "returned"} =>
          \/ Len(global_memory[s]) + 1 = final_pass_used[s]
          \/ Len(global_memory[s]) = MaxPasses /\ final_pass_used[s] = MaxPasses
    /\ shown[s] = IF at[s] = "merge" THEN Append(global_memory[s], News(s))
                  ELSE global_memory[s]
    /\ at[s] = "merge" => News(s) # {}

(* The turns c of an item with n chunks are in the order the code promises. *)
InOrder(c, n) ==
    /\ \A i \in DOMAIN c : c[i].kind = "chunk" =>
          \/ c[i].chunk = 0 /\ (i = 1 \/ c[i - 1].kind = "merge")
          \/ i > 1 /\ c[i - 1].kind = "chunk" /\ c[i].chunk = c[i - 1].chunk + 1
    /\ \A i \in DOMAIN c : c[i].kind = "merge" =>
          i > 1 /\ c[i - 1].kind = "chunk" /\ c[i - 1].chunk = n - 1
    /\ \A i \in DOMAIN c : c[i].kind = "final" => i = Len(c)
Unanswered(c) == \A i \in DOMAIN c : c[i].kind # "final"

(* How the turns of an item end at each stage. *)
Ordered(s) ==
    LET c == conversations[s] IN
    /\ InOrder(c, nchunks[s])
    /\ at[s] = "chunks" => Len(c) = 0 \/ c[Len(c)].kind = "merge"
    /\ at[s] = "merge" => Len(c) > 0 /\ c[Len(c)].kind = "chunk" /\ c[Len(c)].chunk = nchunks[s] - 1
    /\ at[s] # "returned" => Unanswered(c)
    /\ at[s] = "returned" =>
          Len(c) > 0 /\ c[Len(c)].kind = "final" /\ c[Len(c)].seen = global_memory[s]

(* The chunk turns of pass p among the turns c, the chunks of it that had   *)
(* news, and a merge at i that is shown what its pass was read against and  *)
(* that news.                                                               *)
ReadOf(c, p) == {i \in DOMAIN c : c[i].kind = "chunk" /\ c[i].pass = p}
NewsOf(c, p) == {c[i].chunk : i \in {j \in ReadOf(c, p) : c[j].news}}
Fits(c, i) == /\ NewsOf(c, c[i].pass) # {}
              /\ \A j \in ReadOf(c, c[i].pass) :
                    c[i].seen = Append(c[j].seen, NewsOf(c, c[i].pass))

(* No turn is ahead of its item; the chunk turns of the pass it is in are   *)
(* the replies it has, read against its memory; each merge fits its pass.   *)
Evidenced(s) ==
    LET c == conversations[s]
        p == final_pass_used[s]
    IN  /\ \A i \in DOMAIN c : /\ c[i].pass <= p
                               /\ at[s] = "chunks" => c[i].pass < p
                               /\ at[s] = "merge" /\ c[i].kind = "merge" => c[i].pass < p
                               /\ c[i].kind = "merge" => Fits(c, i)
        /\ at[s] = "merge" => /\ NewsOf(c, p) = News(s)
                              /\ \A j \in ReadOf(c, p) : c[j].seen = global_memory[s]

(* The passes an item has read are those before the one it is in, and that  *)
(* one too when its chunks are done.  A context without chunks has none.    *)
Counted(s) ==
    LET c == conversations[s]
        p == final_pass_used[s]
    IN  IF nchunks[s] = 0
        THEN p = 1 /\ \A q \in 1 .. MaxPasses : ReadOf(c, q) = {}
        ELSE \A q \in 1 .. MaxPasses :
                ReadOf(c, q) # {} <=> q < p \/ (q = p /\ at[s] # "chunks")

ItemInv(s) == Windowed(s) /\ Staged(s) /\ Ordered(s) /\ Evidenced(s) /\ Counted(s)
GatherInv  == batch = "returned" => \A s \in Samples : at[s] = "returned"
IInv == TypeInv /\ (\A s \in Samples : ItemInv(s)) /\ GatherInv

-----------------------------------------------------------------------------
(* Turns appended to a conversation                                        *)

LEMMA JoinShape ==
    ASSUME NEW T, NEW c \in Seq(T), NEW a \in Seq(T), NEW d, d = c \o a
    PROVE  /\ d \in Seq(T)
           /\ Len(c) \in Nat /\ Len(a) \in Nat /\ Len(d) = Len(c) + Len(a)
           /\ DOMAIN c = 1 .. Len(c) /\ DOMAIN a = 1 .. Len(a) /\ DOMAIN d = 1 .. Len(d)
           /\ \A i \in 1 .. Len(c) : i \in 1 .. Len(d) /\ d[i] = c[i]
           /\ \A i \in 1 .. Len(d) : i > Len(c) =>
                 i - Len(c) \in 1 .. Len(a) /\ d[i] = a[i - Len(c)]
           /\ \A k \in 1 .. Len(a) : Len(c) + k \in 1 .. Len(d) /\ d[Len(c) + k] = a[k]
<1>1. /\ d \in Seq(T) /\ Len(d) = Len(c) + Len(a)
      /\ \A i \in 1 .. Len(c) + Len(a) : d[i] = IF i <= Len(c) THEN c[i] ELSE a[i - Len(c)]
    BY ConcatProperties
<1>2. /\ Len(c) \in Nat /\ Len(a) \in Nat /\ DOMAIN c = 1 .. Len(c)
      /\ DOMAIN a = 1 .. Len(a) /\ DOMAIN d = 1 .. Len(d)
    BY <1>1, LenProperties
<1>3. ASSUME NEW i \in 1 .. Len(c)
      PROVE  i \in 1 .. Len(d) /\ d[i] = c[i]
    BY <1>1, <1>2, SMT
<1>4. ASSUME NEW i \in 1 .. Len(d), i > Len(c)
      PROVE  i - Len(c) \in 1 .. Len(a) /\ d[i] = a[i - Len(c)]
    BY <1>1, <1>2, <1>4, SMT
<1>5. ASSUME NEW k \in 1 .. Len(a)
      PROVE  Len(c) + k \in 1 .. Len(d) /\ d[Len(c) + k] = a[k]
    <2>1. /\ Len(c) + k \in 1 .. Len(d) /\ Len(c) + k > Len(c)
          /\ (Len(c) + k) - Len(c) = k
        BY <1>1, <1>2, SMT
    <2> QED BY <1>4, <2>1
<1> QED BY <1>1, <1>2, <1>3, <1>4, <1>5

LEMMA OneTurn ==
    ASSUME NEW t \in Turns
    PROVE  <<t>> \in Seq(Turns) /\ Len(<<t>>) = 1 /\ <<t>>[1] = t
OBVIOUS

(* A pass of chunk turns goes behind a merge, or first. *)
LEMMA ChunksInOrder ==
    ASSUME NEW c \in Seq(Turns), NEW a \in Seq(Turns), NEW d, d = c \o a, NEW n \in Nat
    PROVE  /\ InOrder(c, n) /\ Unanswered(c) /\ (Len(c) = 0 \/ c[Len(c)].kind = "merge")
           /\ Len(a) = n /\ \A k \in 1 .. n : a[k].kind = "chunk" /\ a[k].chunk = k - 1
           => InOrder(d, n) /\ Unanswered(d)
<1>0. /\ Len(c) \in Nat /\ Len(a) \in Nat /\ Len(d) = Len(c) + Len(a)
      /\ DOMAIN c = 1 .. Len(c) /\ DOMAIN d = 1 .. Len(d)
      /\ \A i \in 1 .. Len(c) : i \in 1 .. Len(d) /\ d[i] = c[i]
      /\ \A i \in 1 .. Len(d) : i > Len(c) =>
            i - Len(c) \in 1 .. Len(a) /\ d[i] = a[i - Len(c)]
    BY JoinShape
<1>h. SUFFICES ASSUME InOrder(c, n), Unanswered(c), Len(c) = 0 \/ c[Len(c)].kind = "merge",
                    Len(a) = n, \A k \in 1 .. n : a[k].kind = "chunk" /\ a[k].chunk = k - 1
             PROVE  InOrder(d, n) /\ Unanswered(d)
    OBVIOUS
<1>1. /\ Len(c) \in Nat /\ Len(d) = Len(c) + n
      /\ DOMAIN c = 1 .. Len(c) /\ DOMAIN d = 1 .. Len(d)
      /\ \A i \in 1 .. Len(c) : i \in 1 .. Len(d) /\ d[i] = c[i]
      /\ \A i \in 1 .. Len(d) : i > Len(c) => i - Len(c) \in 1 .. n /\ d[i] = a[i - Len(c)]
    BY <1>0, <1>h, Zenon
<1>2. Unanswered(d)
    <2> SUFFICES ASSUME NEW i \in 1 .. Len(d) PROVE d[i].kind # "final"
        BY <1>1, Zenon DEF Unanswered
    <2>1. CASE i > Len(c)
        BY <1>1, <1>h, <2>1
    <2>2. CASE ~(i > Len(c))
        <3>1. i \in 1 .. Len(c)
            BY <1>1, <2>2, SMT
        <3> QED BY <1>1, <1>h, <3>1 DEF Unanswered
    <2> QED BY <2>1, <2>2
<1>3. ASSUME NEW i \in 1 .. Len(d), d[i].kind = "chunk"
      PROVE  \/ d[i].chunk = 0 /\ (i = 1 \/ d[i - 1].kind = "merge")
             \/ i > 1 /\ d[i - 1].kind = "chunk" /\ d[i].chunk = d[i - 1].chunk + 1
    <2>1. CASE i > Len(c) + 1
        <3>1. i - 1 \in 1 .. Len(d) /\ i - 1 > Len(c) /\ i > Len(c) /\ i > 1
            <4>1. Len(c) \in Nat /\ Len(d) = Len(c) + n
                BY <1>1
            <4> QED BY <2>1, <4>1, SMT
        <3>2. ASSUME NEW m \in 1 .. Len(d), m > Len(c)
              PROVE  d[m].kind = "chunk" /\ d[m].chunk = m - Len(c) - 1
            <4>1. m - Len(c) \in 1 .. n /\ d[m] = a[m - Len(c)]
                BY <1>1, <3>2
            <4> QED BY <1>h, <4>1
        <3>3. /\ d[i].chunk = i - Len(c) - 1 /\ d[i - 1].chunk = (i - 1) - Len(c) - 1
              /\ d[i - 1].kind = "chunk"
            BY <3>1, <3>2
        <3> QED BY <1>1, <3>1, <3>3, SMT
    <2>2. CASE i = Len(c) + 1
        <3>1. i > Len(c) /\ i - Len(c) = 1
            BY <1>1, <2>2, SMT
        <3>2. d[i].chunk = 1 - 1
            BY <1>1, <1>h, <3>1
        <3>3. CASE Len(c) = 0
            BY <2>2, <3>2, <3>3, SMT
        <3>4. CASE Len(c) # 0
            <4>1. Len(c) \in 1 .. Len(c) /\ i - 1 = Len(c)
                BY <1>1, <2>2, <3>4, SMT
            <4> QED BY <1>1, <1>h, <3>2, <3>4, <4>1
        <3> QED BY <3>3, <3>4
    <2>3. CASE i <= Len(c)
        <3>1. i \in 1 .. Len(c) /\ (i = 1 \/ i - 1 \in 1 .. Len(c))
            BY <1>1, <2>3, SMT
        <3>2. d[i] = c[i] /\ (i = 1 \/ d[i - 1] = c[i - 1])
            BY <1>1, <3>1
        <3>3. \/ c[i].chunk = 0 /\ (i = 1 \/ c[i - 1].kind = "merge")
              \/ i > 1 /\ c[i - 1].kind = "chunk" /\ c[i].chunk = c[i - 1].chunk + 1
            BY <1>1, <1>h, <1>3, <3>1, <3>2 DEF InOrder
        <3>4. CASE i = 1
            BY <3>2, <3>3, <3>4, SMT
        <3>5. CASE i # 1
            BY <3>2, <3>3, <3>5
        <3> QED BY <3>4, <3>5
    <2> QED BY <1>1, <2>1, <2>2, <2>3, SMT
<1>4. ASSUME NEW i \in 1 .. Len(d), d[i].kind = "merge"
      PROVE  i > 1 /\ d[i - 1].kind = "chunk" /\ d[i - 1].chunk = n - 1
    <2>1. i \in 1 .. Len(c)
        <3>1. ~(i > Len(c))
            BY <1>1, <1>h, <1>4
        <3> QED BY <1>1, <3>1, SMT
    <2>2. i > 1 /\ c[i - 1].kind = "chunk" /\ c[i - 1].chunk = n - 1
        BY <1>1, <1>h, <1>4, <2>1 DEF InOrder
    <2>3. i - 1 \in 1 .. Len(c)
        BY <1>1, <2>1, <2>2, SMT
    <2> QED BY <1>1, <2>2, <2>3
<1> QED BY <1>1, <1>2, <1>3, <1>4 DEF InOrder, Unanswered

(* A merge goes behind the last chunk of a pass, the answer behind all.     *)
LEMMA LastInOrder ==
    ASSUME NEW c \in Seq(Turns), NEW t \in Turns, NEW d, d = c \o <<t>>, NEW n \in Nat,
           InOrder(c, n), Unanswered(c), t.kind \in {"merge", "final"},
           t.kind = "merge" => Len(c) > 0 /\ c[Len(c)].kind = "chunk" /\ c[Len(c)].chunk = n - 1
    PROVE  /\ InOrder(d, n) /\ d[Len(d)] = t /\ Len(d) > 0
           /\ t.kind = "merge" => Unanswered(d)
<1>1. /\ Len(c) \in Nat /\ Len(d) = Len(c) + 1
      /\ DOMAIN c = 1 .. Len(c) /\ DOMAIN d = 1 .. Len(d)
      /\ \A i \in 1 .. Len(c) : i \in 1 .. Len(d) /\ d[i] = c[i]
      /\ d[Len(c) + 1] = t
    <2>1. <<t>> \in Seq(Turns) /\ Len(<<t>>) = 1 /\ <<t>>[1] = t /\ 1 \in 1 .. Len(<<t>>)
        BY OneTurn
    <2> QED BY <2>1, JoinShape
<1>2. ASSUME NEW i \in 1 .. Len(d)
      PROVE  \/ /\ i \in 1 .. Len(c) /\ d[i] = c[i]
                /\ i = 1 \/ (i - 1 \in 1 .. Len(c) /\ d[i - 1] = c[i - 1])
             \/ i = Len(c) + 1 /\ d[i] = t /\ i = Len(d)
    <2>1. \/ i \in 1 .. Len(c) /\ (i = 1 \/ i - 1 \in 1 .. Len(c))
          \/ i = Len(c) + 1 /\ i = Len(d)
        BY <1>1, SMT
    <2> QED BY <1>1, <2>1
<1>3. d[Len(d)] = t /\ Len(d) > 0
    BY <1>1, SMT
<1>4. t.kind = "merge" => Unanswered(d)
    BY <1>1, <1>2 DEF Unanswered
<1>5. ASSUME NEW i \in 1 .. Len(d), d[i].kind = "chunk"
      PROVE  \/ d[i].chunk = 0 /\ (i = 1 \/ d[i - 1].kind = "merge")
             \/ i > 1 /\ d[i - 1].kind = "chunk" /\ d[i].chunk = d[i - 1].chunk + 1
    <2>1. i \in 1 .. Len(c) /\ d[i] = c[i] /\ (i = 1 \/ d[i - 1] = c[i - 1])
        BY <1>2, <1>5
    <2>2. \/ c[i].chunk = 0 /\ (i = 1 \/ c[i - 1].kind = "merge")
          \/ i > 1 /\ c[i - 1].kind = "chunk" /\ c[i].chunk = c[i - 1].chunk + 1
        BY <1>1, <1>5, <2>1 DEF InOrder
    <2>3. CASE i = 1
        BY <2>1, <2>2, <2>3, SMT
    <2>4. CASE i # 1
        BY <2>1, <2>2, <2>4
    <2> QED BY <2>3, <2>4
<1>6. ASSUME NEW i \in 1 .. Len(d), d[i].kind = "merge"
      PROVE  i > 1 /\ d[i - 1].kind = "chunk" /\ d[i - 1].chunk = n - 1
    <2>1. CASE i = Len(c) + 1
        <3>1. t.kind = "merge" /\ Len(c) > 0
            BY <1>1, <1>6, <2>1
        <3>2. i > 1 /\ i - 1 = Len(c) /\ Len(c) \in 1 .. Len(c)
            BY <1>1, <2>1, <3>1, SMT
        <3> QED BY <1>1, <3>1, <3>2
    <2>2. CASE i # Len(c) + 1
        <3>1. /\ i \in 1 .. Len(c) /\ d[i] = c[i]
              /\ i = 1 \/ d[i - 1] = c[i - 1]
            BY <1>2, <2>2
        <3>2. i > 1 /\ c[i - 1].kind = "chunk" /\ c[i - 1].chunk = n - 1
            BY <1>1, <1>6, <3>1 DEF InOrder
        <3> QED BY <3>1, <3>2, SMT
    <2> QED BY <2>1, <2>2
<1>7. ASSUME NEW i \in 1 .. Len(d), d[i].kind = "final"
      PROVE  i = Len(d)
    BY <1>1, <1>2, <1>7 DEF Unanswered
<1> QED BY <1>1, <1>3, <1>4, <1>5, <1>6, <1>7 DEF InOrder

(* Where a pass has the same turns it has the same news. *)
LEMMA SameNews ==
    ASSUME NEW c, NEW d, NEW q, ReadOf(d, q) = ReadOf(c, q), \A j \in ReadOf(c, q) : d[j] = c[j]
    PROVE  NewsOf(d, q) = NewsOf(c, q)
BY DEF NewsOf

LEMMA SameFit ==
    ASSUME NEW c, NEW d, NEW i, d[i] = c[i], ReadOf(d, c[i].pass) = ReadOf(c, c[i].pass),
           \A j \in ReadOf(c, c[i].pass) : d[j] = c[j], Fits(c, i)
    PROVE  Fits(d, i)
<1>1. NewsOf(d, c[i].pass) = NewsOf(c, c[i].pass)
    BY SameNews
<1> QED BY <1>1 DEF Fits

(* The turns c, and d: they with the chunk turns a of a new pass p behind.  *)
NewPassRead(c, a, d, p) ==
    /\ \A q : q # p => ReadOf(d, q) = ReadOf(c, q) /\ \A j \in ReadOf(c, q) : d[j] = c[j]
    /\ ReadOf(d, p) = {i \in DOMAIN d : i \notin DOMAIN c}
    /\ \A j \in ReadOf(d, p) : \E k \in DOMAIN a : d[j] = a[k]
    /\ NewsOf(d, p) = {a[k].chunk : k \in {j \in DOMAIN a : a[j].news}}

LEMMA ChunksRead ==
    ASSUME NEW c \in Seq(Turns), NEW a \in Seq(Turns), NEW d, d = c \o a, NEW p,
           \A i \in DOMAIN c : c[i].pass # p,
           \A k \in DOMAIN a : a[k].kind = "chunk" /\ a[k].pass = p
    PROVE  NewPassRead(c, a, d, p)
<1>1. /\ Len(c) \in Nat /\ Len(a) \in Nat /\ Len(d) = Len(c) + Len(a)
      /\ DOMAIN c = 1 .. Len(c) /\ DOMAIN a = 1 .. Len(a) /\ DOMAIN d = 1 .. Len(d)
      /\ \A i \in 1 .. Len(c) : i \in 1 .. Len(d) /\ d[i] = c[i]
      /\ \A i \in 1 .. Len(d) : i > Len(c) => i - Len(c) \in 1 .. Len(a) /\ d[i] = a[i - Len(c)]
      /\ \A k \in 1 .. Len(a) : Len(c) + k \in 1 .. Len(d) /\ d[Len(c) + k] = a[k]
    BY JoinShape
<1>2. ASSUME NEW i \in DOMAIN d
      PROVE  \/ i \in DOMAIN c /\ d[i] = c[i] /\ d[i].pass # p
             \/ /\ i \notin DOMAIN c /\ d[i].kind = "chunk" /\ d[i].pass = p
                /\ \E k \in DOMAIN a : d[i] = a[k]
    <2>1. CASE i \in DOMAIN c
        BY <1>1, <2>1
    <2>2. CASE i \notin DOMAIN c
        <3>1. i > Len(c)
            BY <1>1, <2>2, SMT
        <3>2. i - Len(c) \in DOMAIN a /\ d[i] = a[i - Len(c)]
            BY <1>1, <3>1, Zenon
        <3> QED BY <2>2, <3>2, Zenon
    <2> QED BY <2>1, <2>2
<1>3. DOMAIN c \subseteq DOMAIN d /\ \A i \in DOMAIN c : d[i] = c[i]
    BY <1>1
<1>4. ASSUME NEW q, q # p
      PROVE  ReadOf(d, q) = ReadOf(c, q) /\ \A j \in ReadOf(c, q) : d[j] = c[j]
    BY <1>2, <1>3, <1>4 DEF ReadOf
<1>5. ReadOf(d, p) = {i \in DOMAIN d : i \notin DOMAIN c}
    BY <1>2, <1>3 DEF ReadOf
<1>6. \A j \in ReadOf(d, p) : \E k \in DOMAIN a : d[j] = a[k]
    BY <1>2, <1>5
<1>7. \A k \in DOMAIN a : \E j \in ReadOf(d, p) : d[j] = a[k]
    <2> SUFFICES ASSUME NEW k \in DOMAIN a PROVE \E j \in ReadOf(d, p) : d[j] = a[k]
        OBVIOUS
    <2>1. Len(c) + k \in DOMAIN d /\ d[Len(c) + k] = a[k]
        BY <1>1, Zenon
    <2>2. Len(c) + k \notin DOMAIN c
        BY <1>1, SMT
    <2> QED BY <1>5, <2>1, <2>2, Zenon
<1>8. NewsOf(d, p) = {a[k].chunk : k \in {j \in DOMAIN a : a[j].news}}
    <2> DEFINE news == {a[k].chunk : k \in {j \in DOMAIN a : a[j].news}}
    <2>1. ASSUME NEW m \in NewsOf(d, p) PROVE m \in news
        <3>1. PICK j \in ReadOf(d, p) : d[j].news /\ m = d[j].chunk
            BY <2>1 DEF NewsOf
        <3>2. PICK k \in DOMAIN a : d[j] = a[k]
            BY <1>6
        <3> QED BY <3>1, <3>2
    <2>2. ASSUME NEW m \in news PROVE m \in NewsOf(d, p)
        <3>1. PICK k \in DOMAIN a : a[k].news /\ m = a[k].chunk
            BY <2>2
        <3>2. PICK j \in ReadOf(d, p) : d[j] = a[k]
            BY <1>7
        <3> QED BY <3>1, <3>2 DEF NewsOf
    <2> QED BY <2>1, <2>2
<1> QED BY <1>4, <1>5, <1>6, <1>8 DEF NewPassRead

(* The turns c, and d: they with a merge or an answer t behind, which adds  *)
(* no chunk turn.                                                           *)
OneMore(c, t, d) ==
    /\ \A i \in DOMAIN d : (i \in DOMAIN c /\ d[i] = c[i]) \/ d[i] = t
    /\ \A q : ReadOf(d, q) = ReadOf(c, q) /\ \A j \in ReadOf(c, q) : d[j] = c[j]
    /\ \A q : NewsOf(d, q) = NewsOf(c, q)

LEMMA LastRead ==
    ASSUME NEW c \in Seq(Turns), NEW t \in Turns, NEW d, d = c \o <<t>>, t.kind # "chunk"
    PROVE  d \in Seq(Turns) /\ OneMore(c, t, d)
<1>1. /\ d \in Seq(Turns) /\ Len(c) \in Nat /\ Len(d) = Len(c) + 1
      /\ DOMAIN c = 1 .. Len(c) /\ DOMAIN d = 1 .. Len(d)
      /\ \A i \in 1 .. Len(c) : i \in 1 .. Len(d) /\ d[i] = c[i]
      /\ d[Len(c) + 1] = t
    <2>1. <<t>> \in Seq(Turns) /\ Len(<<t>>) = 1 /\ <<t>>[1] = t /\ 1 \in 1 .. Len(<<t>>)
        BY OneTurn
    <2> QED BY <2>1, JoinShape
<1>2. ASSUME NEW i \in DOMAIN d
      PROVE  i \in DOMAIN c \/ d[i] = t
    <2>1. i \in 1 .. Len(c) \/ i = Len(c) + 1
        BY <1>1, SMT
    <2> QED BY <1>1, <2>1
<1>3. \A q : ReadOf(d, q) = ReadOf(c, q) /\ \A j \in ReadOf(c, q) : d[j] = c[j]
    BY <1>1, <1>2 DEF ReadOf
<1>4. \A q : NewsOf(d, q) = NewsOf(c, q)
    BY <1>3, SameNews
<1>5. \A i \in DOMAIN d : (i \in DOMAIN c /\ d[i] = c[i]) \/ d[i] = t
    BY <1>1, <1>2
<1> QED BY <1>1, <1>3, <1>4, <1>5 DEF OneMore

-----------------------------------------------------------------------------
(* Types                                                                   *)

LEMMA ItemTypes ==
    ASSUME Assumptions, TypeInv, NEW s \in Samples
    PROVE  /\ nchunks[s] \in Nat /\ nchunks[s] <= MaxChunks
           /\ Width(s) \in Nat /\ Width(s) >= 1
           /\ window[s] \in Nat /\ window[s] <= MaxChunks
           /\ at[s] \in {"chunks", "merge", "final", "returned"}
           /\ final_pass_used[s] \in Nat /\ final_pass_used[s] >= 1
           /\ final_pass_used[s] <= MaxPasses
           /\ conversations[s] \in Seq(Turns)
           /\ shown[s] \in Memories /\ global_memory[s] \in Memories
           /\ Len(global_memory[s]) \in Nat
           /\ pending[s] \subseteq 0 .. MaxChunks - 1
           /\ DOMAIN replies[s] \subseteq 0 .. nchunks[s] - 1
           /\ \A k \in DOMAIN replies[s] : replies[s][k] \in Replies
<1>1. /\ nchunks[s] \in 0 .. MaxChunks /\ window[s] \in 0 .. MaxChunks
      /\ final_pass_used[s] \in 1 .. MaxPasses
      /\ at[s] \in {"chunks", "merge", "final", "returned"}
      /\ conversations[s] \in Seq(Turns)
      /\ shown[s] \in Memories /\ global_memory[s] \in Memories
      /\ pending[s] \subseteq 0 .. MaxChunks - 1
    BY DEF TypeInv, TypeOK
<1>2. Len(global_memory[s]) \in Nat
    BY <1>1, LenProperties DEF Memories
<1>3. /\ nchunks[s] \in Nat /\ nchunks[s] <= MaxChunks
      /\ window[s] \in Nat /\ window[s] <= MaxChunks
      /\ final_pass_used[s] \in Nat /\ final_pass_used[s] >= 1 /\ final_pass_used[s] <= MaxPasses
    BY <1>1, ConstantTypes, SMT
<1>4. Width(s) \in Nat /\ Width(s) >= 1
    BY <1>3, ConstantTypes, SMT DEF Width
<1>5. /\ DOMAIN replies[s] \subseteq 0 .. nchunks[s] - 1
      /\ \A k \in DOMAIN replies[s] : replies[s][k] \in Replies
    BY DEF TypeInv, TypeOK
<1> QED BY <1>1, <1>2, <1>3, <1>4, <1>5

LEMMA NewsType ==
    ASSUME Assumptions, TypeInv, NEW s \in Samples
    PROVE  /\ News(s) \in SUBSET (0 .. MaxChunks - 1)
           /\ Append(global_memory[s], News(s)) \in Memories
           /\ Len(Append(global_memory[s], News(s))) = Len(global_memory[s]) + 1
<1>1. News(s) \in SUBSET (0 .. MaxChunks - 1)
    <2>1. 0 .. nchunks[s] - 1 \subseteq 0 .. MaxChunks - 1
        BY ItemTypes, ConstantTypes, SMT
    <2> QED BY <2>1, ItemTypes DEF News
<1> QED BY <1>1, ItemTypes, AppendProperties DEF Memories

LEMMA WindowType ==
    ASSUME Assumptions, TypeInv, NEW s \in Samples, NEW start \in Nat
    PROVE  Window(s, start) \subseteq 0 .. MaxChunks - 1
BY ItemTypes, ConstantTypes, SMT DEF Window, Least

LEMMA LastTurnType ==
    ASSUME Assumptions, TypeInv, NEW s \in Samples, NEW kind \in {"merge", "final"}
    PROVE  /\ Turn(s, kind, -1, FALSE) \in Turns
           /\ Turn(s, kind, -1, FALSE).kind = kind
           /\ Turn(s, kind, -1, FALSE).seen = shown[s]
           /\ Turn(s, kind, -1, FALSE).pass = final_pass_used[s]
<1>1. -1 \in -1 .. MaxChunks - 1
    BY ConstantTypes, SMT
<1>2. final_pass_used[s] \in 1 .. MaxPasses /\ shown[s] \in Memories
    BY DEF TypeInv, TypeOK
<1> QED BY <1>1, <1>2 DEF Turn, Turns

LEMMA ChunkTurnsShape ==
    ASSUME Assumptions, TypeInv, NEW s \in Samples
    PROVE  /\ ChunkTurns(s) \in Seq(Turns) /\ Len(ChunkTurns(s)) = nchunks[s]
           /\ DOMAIN ChunkTurns(s) = 1 .. nchunks[s]
           /\ \A k \in 1 .. nchunks[s] :
                 /\ ChunkTurns(s)[k].kind = "chunk" /\ ChunkTurns(s)[k].chunk = k - 1
                 /\ ChunkTurns(s)[k].seen = shown[s]
                 /\ ChunkTurns(s)[k].news = (replies[s][k - 1] = "news")
                 /\ ChunkTurns(s)[k].pass = final_pass_used[s]
<1> DEFINE turn(k) == Turn(s, "chunk", k - 1, replies[s][k - 1] = "news")
<1>1. nchunks[s] \in Nat
    BY ItemTypes
<1>2. ASSUME NEW k \in 1 .. nchunks[s]
      PROVE  /\ turn(k) \in Turns /\ turn(k).kind = "chunk" /\ turn(k).chunk = k - 1
             /\ turn(k).seen = shown[s] /\ turn(k).news = (replies[s][k - 1] = "news")
             /\ turn(k).pass = final_pass_used[s]
    <2>1. k - 1 \in -1 .. MaxChunks - 1
        BY ItemTypes, ConstantTypes, SMT
    <2>2. final_pass_used[s] \in 1 .. MaxPasses /\ shown[s] \in Memories
        BY DEF TypeInv, TypeOK
    <2> QED BY <2>1, <2>2 DEF turn, Turn, Turns
<1> HIDE DEF turn
<1>3. ChunkTurns(s) = [k \in 1 .. nchunks[s] |-> turn(k)]
    BY DEF ChunkTurns, turn
<1>4. ChunkTurns(s) \in Seq(Turns) /\ Len(ChunkTurns(s)) = nchunks[s]
    BY <1>1, <1>2, <1>3, SMT
<1> QED BY <1>2, <1>3, <1>4

(* With a reply to every chunk, the turns with news are those replies. *)
LEMMA ChunkTurnsNews ==
    ASSUME Assumptions, TypeInv, NEW s \in Samples, DOMAIN replies[s] = 0 .. nchunks[s] - 1
    PROVE  {ChunkTurns(s)[k].chunk : k \in {j \in DOMAIN ChunkTurns(s) : ChunkTurns(s)[j].news}}
           = News(s)
<1> DEFINE told == {ChunkTurns(s)[k].chunk :
                       k \in {j \in DOMAIN ChunkTurns(s) : ChunkTurns(s)[j].news}}
<1>1. nchunks[s] \in Nat
    BY ItemTypes
<1>2. ASSUME NEW m \in told PROVE m \in News(s)
    <2>1. PICK k \in 1 .. nchunks[s] : ChunkTurns(s)[k].news /\ m = ChunkTurns(s)[k].chunk
        BY <1>2, ChunkTurnsShape
    <2>2. m = k - 1 /\ replies[s][k - 1] = "news"
        BY <2>1, ChunkTurnsShape
    <2>3. k - 1 \in 0 .. nchunks[s] - 1
        BY <1>1, SMT
    <2> QED BY <2>2, <2>3 DEF News
<1>3. ASSUME NEW m \in News(s) PROVE m \in told
    <2>1. m \in 0 .. nchunks[s] - 1 /\ replies[s][m] = "news"
        BY <1>3 DEF News
    <2>2. m + 1 \in 1 .. nchunks[s] /\ (m + 1) - 1 = m
        BY <1>1, <2>1, SMT
    <2>3. ChunkTurns(s)[m + 1].news /\ ChunkTurns(s)[m + 1].chunk = m
        BY <2>1, <2>2, ChunkTurnsShape
    <2> QED BY <2>2, <2>3, ChunkTurnsShape
<1> QED BY <1>2, <1>3

-----------------------------------------------------------------------------
(* Items that a step leaves alone                                          *)

LEMMA Untouched ==
    ASSUME NEW t \in Samples, ItemInv(t),
           nchunks'[t] = nchunks[t], at'[t] = at[t], final_pass_used'[t] = final_pass_used[t],
           window'[t] = window[t], pending'[t] = pending[t], replies'[t] = replies[t],
           shown'[t] = shown[t], global_memory'[t] = global_memory[t],
           conversations'[t] = conversations[t]
    PROVE  ItemInv(t)'
<1>1. Width(t)' = Width(t) /\ News(t)' = News(t) /\ Failed(t)' = Failed(t)
    BY DEF Width, News, Failed
<1>2. Windowed(t)'
    BY <1>1 DEF ItemInv, Windowed
<1>3. Staged(t)'
    BY <1>1 DEF ItemInv, Staged
<1>4. Ordered(t)'
    BY DEF ItemInv, Ordered
<1>5. Evidenced(t)'
    BY <1>1 DEF ItemInv, Evidenced
<1>6. Counted(t)'
    BY DEF ItemInv, Counted
<1> QED BY <1>2, <1>3, <1>4, <1>5, <1>6 DEF ItemInv

LEMMA OthersUntouched ==
    ASSUME TypeInv, NEW s \in Samples, NEW t \in Samples, t # s, ItemInv(t),
           nchunks' = nchunks,
           \/ ChunkReply(s) \/ NextWindow(s) \/ (PassDone(s) /\ ~Failed(s))
           \/ MergeReply(s) \/ FinalReply(s)
    PROVE  ItemInv(t)'
<1>1. /\ at'[t] = at[t] /\ final_pass_used'[t] = final_pass_used[t]
      /\ window'[t] = window[t] /\ pending'[t] = pending[t] /\ replies'[t] = replies[t]
      /\ shown'[t] = shown[t] /\ global_memory'[t] = global_memory[t]
      /\ conversations'[t] = conversations[t]
    <2>1. CASE ChunkReply(s)
        BY <2>1 DEF ChunkReply, TypeInv, TypeOK
    <2>2. CASE NextWindow(s)
        BY <2>2 DEF NextWindow, TypeInv, TypeOK
    <2>3. CASE PassDone(s) /\ ~Failed(s)
        BY <2>3 DEF PassDone, Examine, Proceed, Await, TypeInv, TypeOK
    <2>4. CASE MergeReply(s)
        BY <2>4 DEF MergeReply, Await, TypeInv, TypeOK
    <2>5. CASE FinalReply(s)
        BY <2>5 DEF FinalReply, Await, TypeInv, TypeOK
    <2> QED BY <2>1, <2>2, <2>3, <2>4, <2>5
<1> QED BY <1>1, Untouched

-----------------------------------------------------------------------------
(* The actions                                                             *)

LEMMA InitInv == ASSUME Assumptions PROVE Init => IInv
<1> SUFFICES ASSUME Init PROVE IInv
    OBVIOUS
<1>1. << >> \in Memories /\ << >> \in Seq(Turns) /\ Len(<< >>) = 0 /\ DOMAIN << >> = {}
    BY DEF Memories
<1>2. TypeInv
    <2>1. ASSUME NEW s \in Samples
          PROVE  Window(s, 0) \subseteq 0 .. MaxChunks - 1
        <3>1. nchunks[s] \in 0 .. MaxChunks
            BY DEF Init
        <3>2. Width(s) \in Nat
            BY <3>1, ConstantTypes, SMT DEF Width
        <3> QED BY <3>1, <3>2, ConstantTypes, SMT DEF Window, Least
    <2>2. 1 \in 1 .. MaxPasses /\ 0 \in 0 .. MaxChunks
        BY ConstantTypes, SMT
    <2>3. \A s \in Samples : /\ DOMAIN replies[s] \subseteq 0 .. nchunks[s] - 1
                             /\ \A k \in DOMAIN replies[s] : replies[s][k] \in Replies
        BY <1>1 DEF Init
    <2> QED BY <1>1, <2>1, <2>2, <2>3 DEF Init, TypeInv, TypeOK
<1>3. ASSUME NEW s \in Samples PROVE ItemInv(s)
    <2>1. /\ nchunks[s] \in Nat /\ at[s] = "chunks" /\ final_pass_used[s] = 1
          /\ window[s] = 0 /\ pending[s] = Window(s, 0) /\ replies[s] = << >>
          /\ shown[s] = << >> /\ global_memory[s] = << >> /\ conversations[s] = << >>
        BY <1>2, ItemTypes DEF Init
    <2>2. Windowed(s)
        <3>1. Window(s, 0) = 0 .. Least(0 + Width(s), nchunks[s]) - 1
            BY DEF Window
        <3> QED BY <1>1, <2>1, <3>1 DEF Windowed
    <2>3. Staged(s)
        BY <1>1, <2>1 DEF Staged
    <2>4. Ordered(s)
        BY <1>1, <2>1 DEF Ordered, InOrder, Unanswered
    <2>5. Evidenced(s)
        BY <1>1, <2>1 DEF Evidenced
    <2>6. Counted(s)
        <3>1. \A q : ReadOf(conversations[s], q) = {}
            BY <1>1, <2>1 DEF ReadOf
        <3>2. \A q \in 1 .. MaxPasses : ~(q < 1)
            BY ConstantTypes, SMT
        <3> QED BY <2>1, <3>1, <3>2 DEF Counted
    <2> QED BY <2>2, <2>3, <2>4, <2>5, <2>6 DEF ItemInv
<1>4. GatherInv
    BY DEF Init, GatherInv
<1> QED BY <1>2, <1>3, <1>4 DEF IInv

(* While its chunks are asked, an item's turns and memory do not depend on  *)
(* the replies.                                                             *)
LEMMA ReadingKeeps ==
    ASSUME NEW s \in Samples, ItemInv(s), Windowed(s)', at[s] = "chunks", at'[s] = "chunks",
           UNCHANGED <<nchunks, final_pass_used, shown, global_memory, conversations>>
    PROVE  ItemInv(s)'
<1>1. Staged(s)'
    BY DEF ItemInv, Staged
<1>2. Ordered(s)'
    BY DEF ItemInv, Ordered
<1>3. Evidenced(s)'
    BY DEF ItemInv, Evidenced
<1>4. Counted(s)'
    BY DEF ItemInv, Counted
<1> QED BY <1>1, <1>2, <1>3, <1>4 DEF ItemInv

LEMMA ChunkReplyItem ==
    ASSUME Assumptions, TypeInv, NEW s \in Samples, ItemInv(s), ChunkReply(s)
    PROVE  TypeInv' /\ ItemInv(s)'
<1>1. PICK k \in pending[s], r \in Replies :
        /\ pending' = [pending EXCEPT ![s] = @ \ {k}]
        /\ replies' = [replies EXCEPT ![s] =
              [j \in DOMAIN @ \cup {k} |-> IF j = k THEN r ELSE @[j]]]
    BY DEF ChunkReply
<1>2. /\ at[s] = "chunks" /\ batch' = batch
      /\ UNCHANGED <<nchunks, at, final_pass_used, window, shown, global_memory, conversations>>
    BY DEF ChunkReply
<1>3. /\ pending'[s] = pending[s] \ {k}
      /\ replies'[s] = [j \in DOMAIN replies[s] \cup {k} |-> IF j = k THEN r ELSE replies[s][j]]
      /\ \A t \in Samples : t # s => replies'[t] = replies[t]
      /\ DOMAIN replies' = Samples
    BY <1>1 DEF TypeInv, TypeOK
<1>4. /\ pending[s] \cap DOMAIN replies[s] = {}
      /\ pending[s] \cup DOMAIN replies[s] = 0 .. Least(window[s] + Width(s), nchunks[s]) - 1
    BY <1>2 DEF ItemInv, Windowed
<1>5. k \in 0 .. nchunks[s] - 1
    <2>1. 0 .. Least(window[s] + Width(s), nchunks[s]) - 1 \subseteq 0 .. nchunks[s] - 1
        BY ItemTypes, SMT DEF Least
    <2> QED BY <1>4, <2>1
<1>6. TypeInv'
    <2>1. ASSUME NEW t \in Samples
          PROVE  /\ DOMAIN replies'[t] \subseteq 0 .. nchunks[t] - 1
                 /\ \A j \in DOMAIN replies'[t] : replies'[t][j] \in Replies
        <3>1. CASE t = s
            BY <1>3, <1>5, <3>1, ItemTypes
        <3>2. CASE t # s
            BY <1>3, <3>2, ItemTypes
        <3> QED BY <3>1, <3>2
    <2>2. pending' \in [Samples -> SUBSET (0 .. MaxChunks - 1)]
        BY <1>1 DEF TypeInv, TypeOK
    <2> QED BY <1>2, <1>3, <2>1, <2>2 DEF TypeInv, TypeOK
<1>7. Windowed(s)'
    <2>1. Width(s)' = Width(s)
        BY <1>2 DEF Width
    <2>2. DOMAIN replies'[s] = DOMAIN replies[s] \cup {k}
        BY <1>3
    <2>3. /\ pending'[s] \cap DOMAIN replies'[s] = {}
          /\ pending'[s] \cup DOMAIN replies'[s] = 0 .. Least(window[s] + Width(s), nchunks[s]) - 1
        BY <1>3, <1>4, <2>2
    <2> QED BY <1>2, <2>1, <2>3 DEF Windowed
<1> QED BY <1>2, <1>6, <1>7, ReadingKeeps

LEMMA NextWindowItem ==
    ASSUME Assumptions, TypeInv, NEW s \in Samples, ItemInv(s), NextWindow(s)
    PROVE  TypeInv' /\ ItemInv(s)'
<1>1. PICK start : start = window[s] + Width(s)
    OBVIOUS
<1>2. /\ at[s] = "chunks" /\ pending[s] = {} /\ batch' = batch
      /\ window' = [window EXCEPT ![s] = start]
      /\ pending' = [pending EXCEPT ![s] = Window(s, start)]
      /\ UNCHANGED <<nchunks, at, final_pass_used, replies, shown, global_memory, conversations>>
    BY <1>1 DEF NextWindow, TypeInv, TypeOK
<1>3. start \in Nat /\ start < nchunks[s] /\ start \in 0 .. MaxChunks
    BY <1>1, ItemTypes, ConstantTypes, SMT DEF NextWindow, LastWindow
<1>4. window'[s] = start /\ pending'[s] = Window(s, start) /\ Width(s)' = Width(s)
    BY <1>2 DEF TypeInv, TypeOK, Width
<1>5. TypeInv'
    <2>1. pending' \in [Samples -> SUBSET (0 .. MaxChunks - 1)]
        BY <1>2, <1>3, WindowType DEF TypeInv, TypeOK
    <2>2. window' \in [Samples -> 0 .. MaxChunks]
        BY <1>2, <1>3 DEF TypeInv, TypeOK
    <2> QED BY <1>2, <2>1, <2>2 DEF TypeInv, TypeOK
<1>6. Windowed(s)'
    <2>1. DOMAIN replies[s] = 0 .. start - 1
        <3>1. {} \cup DOMAIN replies[s] = 0 .. Least(start, nchunks[s]) - 1
            BY <1>1, <1>2, Zenon DEF ItemInv, Windowed
        <3>2. Least(start, nchunks[s]) = start
            BY <1>3, ItemTypes, SMT DEF Least
        <3> QED BY <3>1, <3>2
    <2>2. PICK last : last = Least(start + Width(s), nchunks[s])
        OBVIOUS
    <2>3. last \in Nat /\ last >= start
        BY <1>3, <2>2, ItemTypes, SMT DEF Least
    <2>4. (start .. last - 1) \cap (0 .. start - 1) = {}
          /\ (start .. last - 1) \cup (0 .. start - 1) = 0 .. last - 1
        BY <1>3, <2>3, SMT
    <2>5. /\ pending'[s] \cap DOMAIN replies'[s] = {}
          /\ pending'[s] \cup DOMAIN replies'[s] =
                0 .. Least(window'[s] + Width(s)', nchunks'[s]) - 1
        BY <1>2, <1>4, <2>1, <2>2, <2>4, Zenon DEF Window
    <2> QED BY <2>5 DEF Windowed
<1> QED BY <1>2, <1>5, <1>6, ReadingKeeps

LEMMA TurnsAt ==
    ASSUME NEW c \in Seq(Turns), NEW i \in DOMAIN c
    PROVE  c[i] \in Turns /\ c[i].pass \in Nat
<1>1. c[i] \in Turns
    BY ElementOfSeq, LenProperties
<1> QED BY <1>1, ConstantTypes, SMT DEF Turns

(* When a pass is complete every chunk has its reply. *)
LEMMA CompletePass ==
    ASSUME Assumptions, TypeInv, NEW s \in Samples, ItemInv(s), PassDone(s)
    PROVE  DOMAIN replies[s] = 0 .. nchunks[s] - 1
<1>1. at[s] = "chunks" /\ pending[s] = {} /\ window[s] + Width(s) >= nchunks[s]
    BY DEF PassDone, LastWindow
<1>2. {} \cup DOMAIN replies[s] = 0 .. Least(window[s] + Width(s), nchunks[s]) - 1
    BY <1>1, Zenon DEF ItemInv, Windowed
<1>3. Least(window[s] + Width(s), nchunks[s]) = nchunks[s]
    BY <1>1, ItemTypes, SMT DEF Least
<1> QED BY <1>2, <1>3

(* The turns c of s, and d: they with the turns of the complete pass.       *)
PassAppended(s, c, d) ==
    LET n == nchunks[s]
        p == final_pass_used[s]
    IN  /\ d \in Seq(Turns)
        /\ InOrder(d, n) /\ Unanswered(d)
        /\ n > 0 => Len(d) > 0 /\ d[Len(d)].kind = "chunk" /\ d[Len(d)].chunk = n - 1
        /\ \A i \in DOMAIN d : \/ i \in DOMAIN c /\ d[i] = c[i] /\ c[i].pass < p
                               \/ i \notin DOMAIN c /\ d[i].kind = "chunk" /\ d[i].pass = p
        /\ \A q : q # p => ReadOf(d, q) = ReadOf(c, q) /\ \A j \in ReadOf(c, q) : d[j] = c[j]
        /\ NewsOf(d, p) = News(s)
        /\ \A j \in ReadOf(d, p) : d[j].seen = shown[s]
        /\ ReadOf(d, p) = {} <=> n = 0

LEMMA PassTurns ==
    ASSUME Assumptions, TypeInv, NEW s \in Samples, ItemInv(s), PassDone(s), ~Failed(s),
           NEW c, c = conversations[s], NEW d, d = c \o ChunkTurns(s)
    PROVE  PassAppended(s, c, d)
<1> DEFINE n == nchunks[s]
           p == final_pass_used[s]
           a == ChunkTurns(s)
<1>0. c \in Seq(Turns) /\ a \in Seq(Turns) /\ d = c \o a
    BY ChunkTurnsShape, ItemTypes
<1>1. /\ c \in Seq(Turns) /\ Len(a) = n /\ DOMAIN a = 1 .. n
      /\ \A k \in 1 .. n : a[k].kind = "chunk" /\ a[k].chunk = k - 1
      /\ \A k \in 1 .. n : a[k].seen = shown[s] /\ a[k].pass = p
      /\ n \in Nat /\ p \in Nat
    BY ChunkTurnsShape, ItemTypes
<1>2. at[s] = "chunks" /\ DOMAIN replies[s] = 0 .. n - 1
    BY CompletePass DEF PassDone
<1>3. {a[k].chunk : k \in {j \in DOMAIN a : a[j].news}} = News(s)
    BY <1>2, ChunkTurnsNews
<1>4. \A i \in DOMAIN c : c[i].pass < p /\ c[i].pass \in Nat
    BY <1>1, <1>2, TurnsAt DEF ItemInv, Evidenced
<1>5. InOrder(c, n) /\ Unanswered(c) /\ (Len(c) = 0 \/ c[Len(c)].kind = "merge")
    BY <1>2 DEF ItemInv, Ordered
<1> HIDE DEF a, n, p
<1>6. InOrder(d, n) /\ Unanswered(d)
    BY <1>0, <1>1, <1>5, ChunksInOrder
<1>7. \A i \in DOMAIN c : c[i].pass # p
    BY <1>1, <1>4, SMT
<1>8. \A k \in DOMAIN a : a[k].kind = "chunk" /\ a[k].pass = p
    BY <1>1
<1>9. /\ \A q : q # p => ReadOf(d, q) = ReadOf(c, q) /\ \A j \in ReadOf(c, q) : d[j] = c[j]
      /\ ReadOf(d, p) = {i \in DOMAIN d : i \notin DOMAIN c}
      /\ \A j \in ReadOf(d, p) : \E k \in DOMAIN a : d[j] = a[k]
      /\ NewsOf(d, p) = {a[k].chunk : k \in {j \in DOMAIN a : a[j].news}}
    <2>1. NewPassRead(c, a, d, p)
        BY <1>0, <1>7, <1>8, ChunksRead
    <2> QED BY <2>1 DEF NewPassRead
<1>10. /\ d \in Seq(Turns) /\ Len(c) \in Nat /\ Len(d) = Len(c) + n
       /\ DOMAIN c = 1 .. Len(c) /\ DOMAIN d = 1 .. Len(d)
       /\ \A i \in 1 .. Len(c) : i \in 1 .. Len(d) /\ d[i] = c[i]
       /\ \A k \in 1 .. n : Len(c) + k \in 1 .. Len(d) /\ d[Len(c) + k] = a[k]
    <2>1. /\ d \in Seq(Turns) /\ Len(c) \in Nat /\ Len(d) = Len(c) + Len(a)
          /\ DOMAIN c = 1 .. Len(c) /\ DOMAIN d = 1 .. Len(d)
          /\ \A i \in 1 .. Len(c) : i \in 1 .. Len(d) /\ d[i] = c[i]
          /\ \A k \in 1 .. Len(a) : Len(c) + k \in 1 .. Len(d) /\ d[Len(c) + k] = a[k]
        BY <1>0, JoinShape
    <2> QED BY <1>1, <2>1, Zenon
<1>11. n > 0 => Len(d) > 0 /\ d[Len(d)].kind = "chunk" /\ d[Len(d)].chunk = n - 1
    <2> SUFFICES ASSUME n > 0
                 PROVE  Len(d) > 0 /\ d[Len(d)].kind = "chunk" /\ d[Len(d)].chunk = n - 1
        OBVIOUS
    <2>1. n \in 1 .. n
        BY <1>1, SMT
    <2>2. d[Len(d)] = a[n]
        BY <1>10, <2>1, Zenon
    <2>3. Len(c) \in Nat /\ Len(d) = Len(c) + n
        BY <1>10
    <2>4. Len(d) > 0
        BY <1>1, <2>1, <2>3, SMT
    <2> QED BY <1>1, <2>1, <2>2, <2>4
<1>12. ASSUME NEW i \in DOMAIN d
       PROVE  \/ i \in DOMAIN c /\ d[i] = c[i] /\ c[i].pass < p
              \/ i \notin DOMAIN c /\ d[i].kind = "chunk" /\ d[i].pass = p
    <2>1. CASE i \in DOMAIN c
        BY <1>4, <1>10, <2>1
    <2>2. CASE i \notin DOMAIN c
        <3>1. PICK k \in DOMAIN a : d[i] = a[k]
            BY <1>9, <2>2
        <3> QED BY <1>8, <2>2, <3>1
    <2> QED BY <2>1, <2>2
<1>13. \A j \in ReadOf(d, p) : d[j].seen = shown[s]
    BY <1>1, <1>9
<1>14. ReadOf(d, p) = {} <=> n = 0
    <2>1. CASE n = 0
        <3>1. DOMAIN d = DOMAIN c
            BY <1>10, <2>1, SMT
        <3> QED BY <1>9, <2>1, <3>1
    <2>2. CASE n # 0
        <3>1. n \in 1 .. n
            BY <1>1, <2>2, SMT
        <3>2. Len(c) + n \in DOMAIN d /\ Len(c) + n \notin DOMAIN c
            <4>1. Len(c) \in Nat /\ DOMAIN c = 1 .. Len(c)
                BY <1>10
            <4>2. Len(c) + n \notin 1 .. Len(c)
                BY <3>1, <4>1, SMT
            <4> QED BY <1>10, <3>1, <4>1, <4>2, Zenon
        <3> QED BY <1>9, <2>2, <3>2
    <2> QED BY <2>1, <2>2
<1> QED BY <1>3, <1>6, <1>9, <1>10, <1>11, <1>12, <1>13, <1>14 DEF PassAppended, n, p

LEMMA PassDoneItem ==
    ASSUME Assumptions, TypeInv, NEW s \in Samples, ItemInv(s), PassDone(s), ~Failed(s)
    PROVE  TypeInv' /\ ItemInv(s)'
<1> DEFINE n == nchunks[s]
           p == final_pass_used[s]
<1>1. PICK c, d : c = conversations[s] /\ d = c \o ChunkTurns(s)
    OBVIOUS
<1>2. PICK stage, text :
        /\ \/ stage = "final" /\ text = global_memory[s] /\ News(s) = {}
           \/ stage = "merge" /\ text = Append(global_memory[s], News(s)) /\ News(s) # {}
        /\ Await(s, stage, text, ChunkTurns(s))
    <2>1. Proceed(s)
        BY DEF PassDone, Examine
    <2>2. CASE News(s) = {}
        BY <2>1, <2>2 DEF Proceed
    <2>3. CASE News(s) # {}
        BY <2>1, <2>3 DEF Proceed
    <2> QED BY <2>2, <2>3
<1>3. /\ at' = [at EXCEPT ![s] = stage] /\ shown' = [shown EXCEPT ![s] = text]
      /\ conversations' = [conversations EXCEPT ![s] = d]
      /\ UNCHANGED <<nchunks, final_pass_used, window, pending, replies, global_memory, batch>>
    <2>1. conversations' = [conversations EXCEPT ![s] = conversations[s] \o ChunkTurns(s)]
        BY <1>2 DEF Await, TypeInv
    <2>2. UNCHANGED <<nchunks, final_pass_used, window, pending, replies, global_memory, batch>>
        BY DEF PassDone, Examine, Proceed
    <2> QED BY <1>1, <1>2, <2>1, <2>2 DEF Await
<1>4. /\ d \in Seq(Turns)
      /\ InOrder(d, n) /\ Unanswered(d)
      /\ n > 0 => /\ Len(d) > 0 /\ d[Len(d)].kind = "chunk" /\ d[Len(d)].chunk = n - 1
      /\ \A i \in DOMAIN d : \/ i \in DOMAIN c /\ d[i] = c[i] /\ c[i].pass < p
                             \/ i \notin DOMAIN c /\ d[i].kind = "chunk" /\ d[i].pass = p
      /\ \A q : q # p => ReadOf(d, q) = ReadOf(c, q) /\ \A j \in ReadOf(c, q) : d[j] = c[j]
      /\ NewsOf(d, p) = News(s)
      /\ \A j \in ReadOf(d, p) : d[j].seen = shown[s]
      /\ ReadOf(d, p) = {} <=> n = 0
    <2>1. PassAppended(s, c, d)
        BY <1>1, PassTurns
    <2> QED BY <2>1 DEF PassAppended
<1>5. TypeInv'
    <2>1. text \in Memories
        BY <1>2, ItemTypes, NewsType
    <2>2. stage \in {"chunks", "merge", "final", "returned"}
        BY <1>2
    <2>3. /\ at' \in [Samples -> {"chunks", "merge", "final", "returned"}]
          /\ shown' \in [Samples -> Memories] /\ conversations' \in [Samples -> Seq(Turns)]
        BY <1>3, <1>4, <2>1, <2>2 DEF TypeInv, TypeOK
    <2> QED BY <1>3, <2>3 DEF TypeInv, TypeOK
<1>6. /\ at'[s] = stage /\ shown'[s] = text /\ conversations'[s] = d /\ conversations[s] = c
      /\ nchunks'[s] = n /\ final_pass_used'[s] = p /\ global_memory'[s] = global_memory[s]
      /\ replies'[s] = replies[s] /\ stage \in {"final", "merge"} /\ at[s] = "chunks"
      /\ News(s)' = News(s) /\ Failed(s)' = Failed(s)
    BY <1>1, <1>2, <1>3 DEF TypeInv, TypeOK, News, Failed, PassDone
<1>7. n \in Nat /\ p \in Nat /\ DOMAIN replies[s] = 0 .. n - 1
      /\ shown[s] = global_memory[s] /\ Len(global_memory[s]) + 1 = p
    BY <1>6, ItemTypes, CompletePass DEF ItemInv, Staged
<1> HIDE DEF n, p
<1>8. Windowed(s)'
    BY <1>6 DEF Windowed
<1>9. Staged(s)'
    BY <1>2, <1>6, <1>7 DEF Staged
<1>10. stage = "merge" => n > 0
    <2>1. n = 0 => News(s) = {}
        <3> SUFFICES ASSUME n = 0 PROVE News(s) = {}
            OBVIOUS
        <3>1. 0 .. n - 1 = {}
            BY SMT
        <3> QED BY <1>7, <3>1 DEF News
    <2> QED BY <1>2, <1>7, <2>1, SMT
<1>11. Ordered(s)'
    BY <1>4, <1>6, <1>10 DEF Ordered
<1>12. Evidenced(s)'
    <2>1. ASSUME NEW i \in DOMAIN d
          PROVE  /\ d[i].pass <= p
                 /\ d[i].kind = "merge" => d[i].pass < p /\ Fits(d, i)
        <3>1. CASE i \in DOMAIN c /\ d[i] = c[i] /\ c[i].pass < p
            <4>1. c[i].pass \in Nat
                BY <3>1, <1>1, TurnsAt, ItemTypes
            <4>2. c[i].pass <= p /\ c[i].pass # p
                BY <1>7, <3>1, <4>1, SMT
            <4>3. c[i].kind = "merge" => Fits(c, i)
                BY <1>6, <3>1 DEF ItemInv, Evidenced
            <4> QED BY <1>4, <3>1, <4>2, <4>3, SameFit
        <3>2. CASE d[i].kind = "chunk" /\ d[i].pass = p
            BY <1>7, <3>2, SMT
        <3> QED BY <1>4, <3>1, <3>2
    <2> QED BY <1>4, <1>6, <1>7, <2>1 DEF Evidenced
<1>13. Counted(s)'
    <2>1. CASE n = 0
        <3>1. p = 1 /\ \A q \in 1 .. MaxPasses : ReadOf(c, q) = {}
            BY <1>6, <2>1 DEF ItemInv, Counted, n, p
        <3>2. \A q \in 1 .. MaxPasses : ReadOf(d, q) = {}
            BY <1>4, <2>1, <3>1
        <3> QED BY <1>6, <2>1, <3>1, <3>2 DEF Counted
    <2>2. CASE n # 0
        <3>1. \A q \in 1 .. MaxPasses : ReadOf(c, q) # {} <=> q < p
            BY <1>6, <2>2 DEF ItemInv, Counted, n, p
        <3>2. \A q \in 1 .. MaxPasses : ReadOf(d, q) # {} <=> q < p \/ q = p
            BY <1>4, <2>2, <3>1
        <3> QED BY <1>6, <2>2, <3>2 DEF Counted
    <2> QED BY <2>1, <2>2
<1> QED BY <1>5, <1>8, <1>9, <1>11, <1>12, <1>13 DEF ItemInv

(* A merge t would fit behind the turns c. *)
FitsBehind(c, t) == /\ NewsOf(c, t.pass) # {}
                    /\ \A j \in ReadOf(c, t.pass) :
                          t.seen = Append(c[j].seen, NewsOf(c, t.pass))

LEMMA MergeFits ==
    ASSUME NEW c, NEW d, NEW t, NEW i, d[i] = t, OneMore(c, t, d), FitsBehind(c, t)
    PROVE  Fits(d, i)
<1>1. /\ ReadOf(d, t.pass) = ReadOf(c, t.pass) /\ NewsOf(d, t.pass) = NewsOf(c, t.pass)
      /\ \A j \in ReadOf(c, t.pass) : d[j] = c[j]
    BY DEF OneMore
<1> QED BY <1>1, Zenon DEF Fits, FitsBehind

(* The turns c of s, and d: they with its merge t, which fits its pass.     *)
MergeAppended(s, c, t, d) ==
    /\ d \in Seq(Turns) /\ OneMore(c, t, d)
    /\ InOrder(d, nchunks[s]) /\ Unanswered(d)
    /\ Len(d) > 0 /\ d[Len(d)].kind = "merge"
    /\ \A i \in DOMAIN d : /\ d[i].pass \in Nat /\ d[i].pass <= final_pass_used[s]
                           /\ d[i].kind = "merge" => Fits(d, i)

LEMMA MergeTurn ==
    ASSUME Assumptions, TypeInv, NEW s \in Samples, ItemInv(s), at[s] = "merge",
           NEW c, c = conversations[s], NEW t, t = Turn(s, "merge", -1, FALSE),
           NEW d, d = c \o <<t>>
    PROVE  MergeAppended(s, c, t, d)
<1>1. /\ c \in Seq(Turns) /\ t \in Turns /\ t.kind = "merge"
      /\ t.seen = shown[s] /\ t.pass = final_pass_used[s]
    BY ItemTypes, LastTurnType
<1>2. /\ InOrder(c, nchunks[s]) /\ Unanswered(c) /\ nchunks[s] \in Nat
      /\ Len(c) > 0 /\ c[Len(c)].kind = "chunk" /\ c[Len(c)].chunk = nchunks[s] - 1
    BY ItemTypes DEF ItemInv, Ordered
<1>3. d \in Seq(Turns) /\ OneMore(c, t, d)
    BY <1>1, LastRead
<1>4. /\ InOrder(d, nchunks[s]) /\ Unanswered(d) /\ Len(d) > 0 /\ d[Len(d)] = t
    BY <1>1, <1>2, LastInOrder
<1>5. ASSUME NEW i \in DOMAIN d
      PROVE  /\ d[i].pass \in Nat /\ d[i].pass <= final_pass_used[s]
             /\ d[i].kind = "merge" => Fits(d, i)
    <2>1. CASE i \in DOMAIN c /\ d[i] = c[i]
        <3>1. d[i].pass <= final_pass_used[s] /\ (c[i].kind = "merge" => Fits(c, i))
            BY <2>1 DEF ItemInv, Evidenced
        <3>2. c[i].kind = "merge" => Fits(d, i)
            <4>1. /\ ReadOf(d, c[i].pass) = ReadOf(c, c[i].pass)
                  /\ \A j \in ReadOf(c, c[i].pass) : d[j] = c[j]
                BY <1>3 DEF OneMore
            <4> QED BY <2>1, <3>1, <4>1, SameFit
        <3> QED BY <1>1, <2>1, <3>1, <3>2, TurnsAt
    <2>2. CASE d[i] = t
        <3>1. final_pass_used[s] \in Nat /\ final_pass_used[s] <= final_pass_used[s]
            BY ItemTypes, SMT
        <3>2. /\ NewsOf(c, t.pass) = News(s) /\ News(s) # {}
              /\ \A j \in ReadOf(c, t.pass) : c[j].seen = global_memory[s]
              /\ t.seen = Append(global_memory[s], News(s))
            BY <1>1 DEF ItemInv, Evidenced, Staged
        <3>3. Fits(d, i)
            <4>1. ASSUME NEW j \in ReadOf(c, t.pass)
                  PROVE  t.seen = Append(c[j].seen, NewsOf(c, t.pass))
                BY <3>2, Zenon
            <4>2. NewsOf(c, t.pass) # {}
                BY <3>2, Zenon
            <4>3. FitsBehind(c, t)
                BY <4>1, <4>2 DEF FitsBehind
            <4> QED BY <1>3, <2>2, <4>3, MergeFits
        <3> QED BY <1>1, <2>2, <3>1, <3>3
    <2> QED BY <1>3, <2>1, <2>2 DEF OneMore
<1> QED BY <1>1, <1>3, <1>4, <1>5 DEF MergeAppended

LEMMA MergeReplyItem ==
    ASSUME Assumptions, TypeInv, NEW s \in Samples, ItemInv(s), MergeReply(s)
    PROVE  TypeInv' /\ ItemInv(s)'
<1>1. PICK c, t, d, m, n, p :
        /\ c = conversations[s] /\ t = Turn(s, "merge", -1, FALSE) /\ d = c \o <<t>>
        /\ m = shown[s] /\ n = nchunks[s] /\ p = final_pass_used[s]
    OBVIOUS
<1>2. /\ at[s] = "merge" /\ UNCHANGED <<nchunks, batch>>
      /\ global_memory' = [global_memory EXCEPT ![s] = m]
      /\ shown' = [shown EXCEPT ![s] = m]
      /\ conversations' = [conversations EXCEPT ![s] = d]
      /\ \/ /\ p < MaxPasses /\ at' = [at EXCEPT ![s] = "chunks"]
            /\ final_pass_used' = [final_pass_used EXCEPT ![s] = p + 1]
            /\ window' = [window EXCEPT ![s] = 0]
            /\ pending' = [pending EXCEPT ![s] = Window(s, 0)]
            /\ replies' = [replies EXCEPT ![s] = << >>]
         \/ /\ ~(p < MaxPasses) /\ at' = [at EXCEPT ![s] = "final"]
            /\ UNCHANGED <<final_pass_used, window, pending, replies>>
    <2>1. /\ [conversations EXCEPT ![s] = @ \o <<t>>] = [conversations EXCEPT ![s] = d]
          /\ [final_pass_used EXCEPT ![s] = @ + 1] = [final_pass_used EXCEPT ![s] = p + 1]
        BY <1>1
    <2>2. CASE MorePasses(s)
        BY <1>1, <2>1, <2>2 DEF MergeReply, Await, MorePasses
    <2>3. CASE ~MorePasses(s)
        BY <1>1, <2>1, <2>3 DEF MergeReply, Await, MorePasses
    <2> QED BY <2>2, <2>3
<1>3. /\ d \in Seq(Turns) /\ OneMore(c, t, d) /\ InOrder(d, n) /\ Unanswered(d)
      /\ Len(d) > 0 /\ d[Len(d)].kind = "merge"
      /\ \A i \in DOMAIN d : /\ d[i].pass \in Nat /\ d[i].pass <= p
                             /\ d[i].kind = "merge" => Fits(d, i)
    <2>1. MergeAppended(s, c, t, d)
        BY <1>1, <1>2, MergeTurn
    <2> QED BY <1>1, <2>1 DEF MergeAppended
<1>4. /\ n \in Nat /\ p \in Nat /\ p >= 1 /\ p <= MaxPasses /\ MaxPasses \in Nat
      /\ m \in Memories /\ Len(m) = p /\ n # 0
    <2>1. /\ m = Append(global_memory[s], News(s)) /\ News(s) # {}
          /\ Len(global_memory[s]) + 1 = p /\ DOMAIN replies[s] = 0 .. n - 1
        BY <1>1, <1>2 DEF ItemInv, Staged
    <2>2. m \in Memories /\ Len(m) = p
        BY <2>1, NewsType
    <2>3. n # 0
        <3>1. n = 0 => 0 .. n - 1 = {}
            BY SMT
        <3> QED BY <2>1, <3>1 DEF News
    <2> QED BY <1>1, <2>2, <2>3, ItemTypes, ConstantTypes
<1>5. TypeInv'
    <2>1. shown' \in [Samples -> Memories] /\ global_memory' \in [Samples -> Memories]
          /\ conversations' \in [Samples -> Seq(Turns)]
        BY <1>2, <1>3, <1>4 DEF TypeInv, TypeOK
    <2>2. at' \in [Samples -> {"chunks", "merge", "final", "returned"}]
        BY <1>2 DEF TypeInv, TypeOK
    <2>3. /\ final_pass_used' \in [Samples -> 1 .. MaxPasses]
          /\ window' \in [Samples -> 0 .. MaxChunks]
          /\ pending' \in [Samples -> SUBSET (0 .. MaxChunks - 1)]
          /\ DOMAIN replies' = Samples
        <3>1. p < MaxPasses => p + 1 \in 1 .. MaxPasses
            BY <1>4, SMT
        <3>2. 0 \in 0 .. MaxChunks /\ 0 \in Nat
            BY ConstantTypes, SMT
        <3>3. Window(s, 0) \subseteq 0 .. MaxChunks - 1
            BY <3>2, WindowType
        <3>4. final_pass_used' \in [Samples -> 1 .. MaxPasses]
            <4>1. \/ p < MaxPasses /\ final_pass_used' = [final_pass_used EXCEPT ![s] = p + 1]
                  \/ final_pass_used' = final_pass_used
                BY <1>2
            <4> QED BY <3>1, <4>1 DEF TypeInv, TypeOK
        <3>5. window' \in [Samples -> 0 .. MaxChunks]
            <4>1. \/ window' = [window EXCEPT ![s] = 0]
                  \/ window' = window
                BY <1>2
            <4> QED BY <3>2, <4>1 DEF TypeInv, TypeOK
        <3>6. pending' \in [Samples -> SUBSET (0 .. MaxChunks - 1)]
            <4>1. \/ pending' = [pending EXCEPT ![s] = Window(s, 0)]
                  \/ pending' = pending
                BY <1>2
            <4> QED BY <3>3, <4>1 DEF TypeInv, TypeOK
        <3>7. DOMAIN replies' = Samples
            BY <1>2 DEF TypeInv
        <3> QED BY <3>4, <3>5, <3>6, <3>7
    <2>4. ASSUME NEW r \in Samples
          PROVE  /\ DOMAIN replies'[r] \subseteq 0 .. nchunks'[r] - 1
                 /\ \A k \in DOMAIN replies'[r] : replies'[r][k] \in Replies
        <3>1. replies'[r] = replies[r] \/ replies'[r] = << >>
            BY <1>2 DEF TypeInv
        <3>2. DOMAIN << >> = {}
            OBVIOUS
        <3> QED BY <1>2, <3>1, <3>2, ItemTypes
    <2> QED BY <1>2, <2>1, <2>2, <2>3, <2>4 DEF TypeInv, TypeOK
<1>6. /\ global_memory'[s] = m /\ shown'[s] = m /\ conversations'[s] = d
      /\ conversations[s] = c /\ nchunks'[s] = n /\ nchunks[s] = n /\ final_pass_used[s] = p
      /\ \/ /\ p < MaxPasses /\ at'[s] = "chunks" /\ final_pass_used'[s] = p + 1
            /\ window'[s] = 0 /\ pending'[s] = Window(s, 0) /\ replies'[s] = << >>
         \/ /\ p = MaxPasses /\ at'[s] = "final" /\ final_pass_used'[s] = p
            /\ replies'[s] = replies[s]
    <2>1. ~(p < MaxPasses) => p = MaxPasses
        BY <1>4, SMT
    <2> QED BY <1>1, <1>2, <2>1 DEF TypeInv, TypeOK
<1>7. Windowed(s)'
    <2>1. CASE at'[s] = "chunks"
        <3>1. Width(s)' = Width(s)
            BY <1>2 DEF Width
        <3>2. DOMAIN replies'[s] = {} /\ pending'[s] = Window(s, 0) /\ window'[s] = 0
            BY <1>6, <2>1
        <3> QED BY <1>2, <3>1, <3>2 DEF Windowed, Window
    <2>2. CASE at'[s] # "chunks"
        BY <2>2 DEF Windowed
    <2> QED BY <2>1, <2>2
<1>8. Staged(s)'
    <2>1. at'[s] = "final" => Failed(s)' = Failed(s)
        BY <1>6 DEF Failed
    <2>2. ~Failed(s) /\ DOMAIN replies[s] = 0 .. n - 1
        BY <1>2, <1>6 DEF ItemInv, Staged
    <2> QED BY <1>4, <1>6, <2>1, <2>2 DEF Staged
<1>9. Ordered(s)'
    BY <1>3, <1>6 DEF Ordered
<1>10. Evidenced(s)'
    <2>1. \A i \in DOMAIN d : d[i].pass <= final_pass_used'[s]
                              /\ (at'[s] = "chunks" => d[i].pass < final_pass_used'[s])
        <3>1. \A x \in Nat : x <= p => x <= p + 1 /\ x < p + 1
            BY <1>4, SMT
        <3> QED BY <1>3, <1>6, <3>1
    <2> QED BY <1>3, <1>6, <2>1 DEF Evidenced
<1>11. Counted(s)'
    <2>1. \A q \in 1 .. MaxPasses : ReadOf(c, q) # {} <=> q < p \/ q = p
        BY <1>2, <1>4, <1>6 DEF ItemInv, Counted
    <2>2. \A q \in 1 .. MaxPasses : ReadOf(d, q) # {} <=> q < p \/ q = p
        BY <1>3, <2>1 DEF OneMore
    <2>3. \A q \in 1 .. MaxPasses : q < p \/ q = p <=> q < p + 1
        BY <1>4, SMT
    <2> QED BY <1>4, <1>6, <2>2, <2>3 DEF Counted
<1> QED BY <1>5, <1>7, <1>8, <1>9, <1>10, <1>11 DEF ItemInv

LEMMA FinalReplyItem ==
    ASSUME Assumptions, TypeInv, NEW s \in Samples, ItemInv(s), FinalReply(s)
    PROVE  TypeInv' /\ ItemInv(s)'
<1>1. PICK c, t, d, n, p :
        /\ c = conversations[s] /\ t = Turn(s, "final", -1, FALSE) /\ d = c \o <<t>>
        /\ n = nchunks[s] /\ p = final_pass_used[s]
    OBVIOUS
<1>2. /\ at[s] = "final"
      /\ at' = [at EXCEPT ![s] = "returned"] /\ shown' = [shown EXCEPT ![s] = shown[s]]
      /\ conversations' = [conversations EXCEPT ![s] = d]
      /\ UNCHANGED <<nchunks, final_pass_used, window, pending, replies, global_memory, batch>>
    <2>1. [conversations EXCEPT ![s] = @ \o <<t>>] = [conversations EXCEPT ![s] = d]
        BY <1>1
    <2> QED BY <1>1, <2>1 DEF FinalReply, Await
<1>3. /\ c \in Seq(Turns) /\ t \in Turns /\ t.kind = "final" /\ t.seen = shown[s] /\ t.pass = p
      /\ n \in Nat /\ p \in Nat
    BY <1>1, ItemTypes, LastTurnType
<1>4. InOrder(c, n) /\ Unanswered(c)
    BY <1>1, <1>2 DEF ItemInv, Ordered
<1>5. d \in Seq(Turns) /\ OneMore(c, t, d)
    BY <1>1, <1>3, LastRead
<1>6. InOrder(d, n) /\ d[Len(d)] = t /\ Len(d) > 0
    <2>1. d = c \o <<t>>
        BY <1>1
    <2>2. t.kind \in {"merge", "final"}
          /\ (t.kind = "merge" => Len(c) > 0 /\ c[Len(c)].kind = "chunk" /\ c[Len(c)].chunk = n - 1)
        BY <1>3
    <2>3. c \in Seq(Turns) /\ t \in Turns /\ n \in Nat
        BY <1>3
    <2> QED BY <1>4, <2>1, <2>2, <2>3, LastInOrder
<1>7. TypeInv'
    <2>1. /\ at' \in [Samples -> {"chunks", "merge", "final", "returned"}]
          /\ shown' \in [Samples -> Memories] /\ conversations' \in [Samples -> Seq(Turns)]
        BY <1>2, <1>5 DEF TypeInv, TypeOK
    <2> QED BY <1>2, <2>1 DEF TypeInv, TypeOK
<1>8. /\ at'[s] = "returned" /\ shown'[s] = shown[s] /\ conversations'[s] = d
      /\ conversations[s] = c /\ nchunks[s] = n /\ nchunks'[s] = n
      /\ final_pass_used[s] = p /\ final_pass_used'[s] = p
      /\ global_memory'[s] = global_memory[s] /\ shown[s] = global_memory[s]
      /\ replies'[s] = replies[s] /\ Failed(s)' = Failed(s)
    BY <1>1, <1>2 DEF TypeInv, TypeOK, Failed, ItemInv, Staged
<1>9. Windowed(s)'
    BY <1>8 DEF Windowed
<1>10. Staged(s)'
    BY <1>2, <1>8 DEF ItemInv, Staged
<1>11. Ordered(s)'
    BY <1>3, <1>6, <1>8 DEF Ordered
<1>12. Evidenced(s)'
    <2>1. ASSUME NEW i \in DOMAIN d
          PROVE  d[i].pass <= p /\ (d[i].kind = "merge" => Fits(d, i))
        <3>1. CASE i \in DOMAIN c /\ d[i] = c[i]
            <4>1. c[i].pass <= p /\ (c[i].kind = "merge" => Fits(c, i))
                BY <1>8, <3>1 DEF ItemInv, Evidenced
            <4> QED BY <1>5, <3>1, <4>1, SameFit DEF OneMore
        <3>2. CASE d[i] = t
            BY <1>3, <3>2, SMT
        <3> QED BY <1>5, <3>1, <3>2 DEF OneMore
    <2> QED BY <1>8, <2>1 DEF Evidenced
<1>13. Counted(s)'
    BY <1>2, <1>5, <1>8 DEF ItemInv, Counted, OneMore
<1> QED BY <1>7, <1>9, <1>10, <1>11, <1>12, <1>13 DEF ItemInv

-----------------------------------------------------------------------------
(* The invariant holds, and what follows from it                           *)

(* A step of the batch is a step of one item, or ends it.                   *)
LEMMA InvStep == ASSUME Assumptions, IInv, [Next]_vars PROVE IInv'
<1>1. TypeInv /\ GatherInv /\ \A s \in Samples : ItemInv(s)
    BY DEF IInv
<1>2. CASE UNCHANGED <<nchunks, at, final_pass_used, window, pending, replies, shown,
                       global_memory, conversations>>
           /\ batch' \in {"running", "returned", "raised"}
           /\ (batch' = "returned" => \A s \in Samples : at[s] = "returned")
    <2>1. TypeInv'
        BY <1>1, <1>2 DEF TypeInv, TypeOK
    <2>2. \A s \in Samples : ItemInv(s)'
        BY <1>1, <1>2, Untouched
    <2>3. GatherInv'
        BY <1>2 DEF GatherInv
    <2> QED BY <2>1, <2>2, <2>3 DEF IInv
<1>3. ASSUME NEW s \in Samples, batch = "running", nchunks' = nchunks, batch' = batch,
             \/ ChunkReply(s) \/ NextWindow(s) \/ (PassDone(s) /\ ~Failed(s))
             \/ MergeReply(s) \/ FinalReply(s)
      PROVE  IInv'
    <2>1. TypeInv' /\ ItemInv(s)'
        BY <1>1, <1>3, ChunkReplyItem, NextWindowItem, PassDoneItem, MergeReplyItem,
           FinalReplyItem
    <2>2. \A t \in Samples : ItemInv(t)'
        BY <1>1, <1>3, <2>1, OthersUntouched
    <2>3. GatherInv'
        BY <1>3 DEF GatherInv
    <2> QED BY <2>1, <2>2, <2>3 DEF IInv
<1>4. CASE Gather
    BY <1>2, <1>4 DEF Gather
<1>5. ASSUME NEW s \in Samples, Coroutine(s) PROVE IInv'
    <2>1. CASE Raise
        BY <1>2, <2>1 DEF Raise
    <2>2. CASE ChunkReply(s)
        BY <1>3, <2>2 DEF ChunkReply
    <2>3. CASE NextWindow(s)
        BY <1>3, <2>3 DEF NextWindow
    <2>4. CASE PassDone(s)
        <3>1. CASE Failed(s)
            BY <2>1, <2>4, <3>1 DEF PassDone, Examine
        <3>2. CASE ~Failed(s)
            BY <1>3, <2>4, <3>2 DEF PassDone, Examine, Proceed
        <3> QED BY <3>1, <3>2
    <2>5. CASE MergeReply(s)
        BY <1>3, <2>5 DEF MergeReply
    <2>6. CASE FinalReply(s)
        BY <1>3, <2>6 DEF FinalReply
    <2>7. CASE LateError(s)
        BY <2>1, <2>7 DEF LateError
    <2> QED BY <1>5, <2>2, <2>3, <2>4, <2>5, <2>6, <2>7 DEF Coroutine
<1>6. CASE UNCHANGED vars
    BY <1>1, <1>2, <1>6 DEF vars, TypeInv, TypeOK, GatherInv
<1> QED BY <1>4, <1>5, <1>6 DEF Next

LEMMA InvHolds == ASSUME Assumptions PROVE Spec => []IInv
<1>1. Init => IInv
    BY InitInv
<1>2. IInv /\ [Next]_vars => IInv'
    BY InvStep
<1> QED BY <1>1, <1>2, PTL DEF Spec

(* The locals of every coroutine keep their types. *)
THEOREM TypeCorrect == ASSUME Assumptions PROVE Spec => []TypeOK
<1>1. IInv => TypeOK
    BY DEF IInv, TypeInv
<1> QED BY <1>1, InvHolds, PTL

(* No window of a pass skips a chunk, and none asks a chunk twice, whatever *)
(* the width of the windows and the length of the context.                  *)
THEOREM EveryChunkIsAskedOnce == ASSUME Assumptions PROVE Spec => []WindowsPartitionThePass
<1>1. IInv => WindowsPartitionThePass
    BY DEF IInv, ItemInv, Windowed, WindowsPartitionThePass
<1> QED BY <1>1, InvHolds, PTL

(* The turns of an item are recorded pass by pass, in the order of the      *)
(* chunks, whatever the order of the replies.                               *)
THEOREM TurnsAreInOrder == ASSUME Assumptions PROVE Spec => []ConversationsAreInOrder
<1>1. IInv => ConversationsAreInOrder
    BY DEF IInv, ItemInv, Ordered, InOrder, ConversationsAreInOrder
<1> QED BY <1>1, InvHolds, PTL

LEMMA EvidenceIsMerged == ASSUME IInv PROVE MergeCarriesTheEvidence
<1> SUFFICES ASSUME NEW s \in Samples, NEW i \in TurnsOf(s, "merge")
             PROVE  LET conv == conversations[s]
                        read == {conv[j] : j \in {k \in TurnsOf(s, "chunk") :
                                                     conv[k].pass = conv[i].pass}}
                        news == {t.chunk : t \in {r \in read : r.news}}
                    IN  news # {} /\ \A t \in read : conv[i].seen = Append(t.seen, news)
    BY Zenon DEF MergeCarriesTheEvidence
<1>1. PICK c, p : c = conversations[s] /\ p = c[i].pass
    OBVIOUS
<1> DEFINE read == {c[j] : j \in {k \in TurnsOf(s, "chunk") : c[k].pass = p}}
           news == {t.chunk : t \in {r \in read : r.news}}
<1>2. i \in DOMAIN c /\ c[i].kind = "merge"
    BY <1>1 DEF TurnsOf
<1>3. Fits(c, i)
    BY <1>1, <1>2 DEF IInv, ItemInv, Evidenced
<1>4. {k \in TurnsOf(s, "chunk") : c[k].pass = p} = ReadOf(c, p)
    BY <1>1 DEF TurnsOf, ReadOf
<1>5. read = {c[j] : j \in ReadOf(c, p)}
    BY <1>4
<1>6. news = NewsOf(c, p)
    BY <1>5 DEF NewsOf
<1>7. NewsOf(c, p) # {} /\ \A j \in ReadOf(c, p) : c[i].seen = Append(c[j].seen, NewsOf(c, p))
    BY <1>1, <1>3 DEF Fits
<1>8. news # {} /\ \A t \in read : c[i].seen = Append(t.seen, news)
    BY <1>5, <1>6, <1>7
<1> QED BY <1>1, <1>8

(* A merge is shown the memory its pass was read against, and exactly the   *)
(* news of the chunks of that pass, though they came in several windows.    *)
THEOREM MergesCarryTheEvidence == ASSUME Assumptions PROVE Spec => []MergeCarriesTheEvidence
<1>1. IInv => MergeCarriesTheEvidence
    BY EvidenceIsMerged
<1> QED BY <1>1, InvHolds, PTL

LEMMA BatchIsComplete == ASSUME Assumptions, IInv PROVE ReturnedBatchIsComplete
<1> SUFFICES ASSUME batch = "returned", NEW s \in Samples
             PROVE  LET conv == conversations[s]
                        passes == {conv[i].pass : i \in TurnsOf(s, "chunk")}
                    IN  /\ ~Failed(s)
                        /\ TurnsOf(s, "final") = {Len(conv)}
                        /\ final_pass_used[s] =
                              IF passes = {} THEN 1 ELSE Cardinality(passes)
                        /\ conv[Len(conv)].seen = global_memory[s]
    BY Zenon DEF ReturnedBatchIsComplete
<1>1. PICK c, p, n : c = conversations[s] /\ p = final_pass_used[s] /\ n = nchunks[s]
    OBVIOUS
<1> DEFINE passes == {c[i].pass : i \in TurnsOf(s, "chunk")}
<1>2. TypeInv /\ ItemInv(s) /\ at[s] = "returned"
    BY DEF IInv, GatherInv
<1>3. /\ c \in Seq(Turns) /\ DOMAIN c = 1 .. Len(c) /\ Len(c) \in Nat
      /\ n \in Nat /\ p \in Nat /\ p >= 1 /\ p <= MaxPasses
    BY <1>1, <1>2, ItemTypes, LenProperties
<1>4. ~Failed(s)
    BY <1>2 DEF ItemInv, Staged
<1>5. /\ InOrder(c, n) /\ Len(c) > 0 /\ c[Len(c)].kind = "final"
      /\ c[Len(c)].seen = global_memory[s]
    BY <1>1, <1>2 DEF ItemInv, Ordered
<1>6. TurnsOf(s, "final") = {Len(c)}
    <2>1. Len(c) \in DOMAIN c
        BY <1>3, <1>5, SMT
    <2> QED BY <1>1, <1>5, <2>1 DEF TurnsOf, InOrder
<1>7. \A q \in 1 .. MaxPasses : q \in passes <=> ReadOf(c, q) # {}
    BY <1>1 DEF TurnsOf, ReadOf
<1>8. \A q \in passes : q \in 1 .. MaxPasses
    <2> SUFFICES ASSUME NEW q \in passes PROVE q \in 1 .. MaxPasses
        OBVIOUS
    <2>1. PICK i \in DOMAIN c : q = c[i].pass
        BY <1>1 DEF TurnsOf
    <2>2. c[i] \in Turns
        BY <1>3, ElementOfSeq
    <2> QED BY <2>1, <2>2 DEF Turns
<1>9. p = IF passes = {} THEN 1 ELSE Cardinality(passes)
    <2>1. CASE n = 0
        <3>1. p = 1 /\ \A q \in 1 .. MaxPasses : ReadOf(c, q) = {}
            BY <1>1, <1>2, <2>1 DEF ItemInv, Counted
        <3>2. passes = {}
            BY <1>7, <1>8, <3>1
        <3> QED BY <3>1, <3>2
    <2>2. CASE n # 0
        <3>1. \A q \in 1 .. MaxPasses : ReadOf(c, q) # {} <=> q < p \/ q = p
            BY <1>1, <1>2, <2>2 DEF ItemInv, Counted
        <3>2. \A q : q \in 1 .. p <=> q \in 1 .. MaxPasses /\ (q < p \/ q = p)
            BY <1>3, ConstantTypes, SMT
        <3>3. passes = 1 .. p
            BY <1>7, <1>8, <3>1, <3>2
        <3>4. Cardinality(1 .. p) = p /\ 1 .. p # {}
            <4>1. 1 \in 1 .. p
                BY <1>3, SMT
            <4>2. Cardinality(1 .. p) = IF 1 > p THEN 0 ELSE p - 1 + 1
                BY <1>3, FS_Interval
            <4>3. \A m : m = (IF 1 > p THEN 0 ELSE p - 1 + 1) => m = p
                BY <1>3, SMT
            <4> QED BY <4>1, <4>2, <4>3
        <3> QED BY <3>3, <3>4, Zenon
    <2> QED BY <2>1, <2>2
<1> QED BY <1>1, <1>4, <1>5, <1>6, <1>9

(* A batch that returns hides no failed request; each item of it has one    *)
(* answer, behind all its turns and from its last memory, and is charged    *)
(* the passes it read.                                                      *)
THEOREM ReturnedBatchesAreComplete ==
    ASSUME Assumptions PROVE Spec => []ReturnedBatchIsComplete
<1>1. IInv => ReturnedBatchIsComplete
    BY BatchIsComplete
<1> QED BY <1>1, InvHolds, PTL

-----------------------------------------------------------------------------
(* The workflow                                                            *)

StageOf(s) == CASE at[s] = "returned" -> "answered"
                [] at[s] = "final"    -> "answering"
                [] OTHER              -> "reading"
UsedBy(s)  == IF at[s] \in {"final", "returned"} THEN final_pass_used[s] ELSE -1

LEMMA StageFacts ==
    ASSUME NEW s \in Samples
    PROVE  /\ at[s] = "returned" => StageOf(s) = "answered" /\ UsedBy(s) = final_pass_used[s]
           /\ at[s] = "final" => StageOf(s) = "answering" /\ UsedBy(s) = final_pass_used[s]
           /\ at[s] \in {"chunks", "merge"} => StageOf(s) = "reading" /\ UsedBy(s) = -1
BY DEF StageOf, UsedBy

LEMMA StageFactsNext ==
    ASSUME NEW s \in Samples
    PROVE  /\ at'[s] = "returned" => StageOf(s)' = "answered" /\ UsedBy(s)' = final_pass_used'[s]
           /\ at'[s] = "final" => StageOf(s)' = "answering" /\ UsedBy(s)' = final_pass_used'[s]
           /\ at'[s] \in {"chunks", "merge"} => StageOf(s)' = "reading" /\ UsedBy(s)' = -1
BY DEF StageOf, UsedBy

LEMMA WorkflowInit == Init => Workflow!Init
<1> SUFFICES ASSUME Init PROVE Workflow!Init
    OBVIOUS
<1>1. \A s \in Samples : at[s] = "chunks"
    BY DEF Init
<1>2. /\ [s \in Samples |-> StageOf(s)] = [s \in Samples |-> "reading"]
      /\ [s \in Samples |-> UsedBy(s)] = [s \in Samples |-> -1]
    BY <1>1, StageFacts
<1> QED BY <1>2 DEF Init, Workflow!Init, StageOf, UsedBy

LEMMA WorkflowStays ==
    ASSUME NEW s \in Samples, global_memory'[s] = global_memory[s],
           UsedBy(s)' = UsedBy(s), StageOf(s)' = StageOf(s)
    PROVE  Workflow!Stay(s)
BY DEF Workflow!Stay, StageOf, UsedBy

LEMMA WorkflowConverges ==
    ASSUME NEW s \in Samples, StageOf(s) = "reading", StageOf(s)' = "answering",
           Len(global_memory[s]) < MaxPasses, global_memory'[s] = global_memory[s],
           UsedBy(s)' = Len(global_memory[s]) + 1
    PROVE  Workflow!Converge(s)
BY DEF Workflow!Converge, StageOf, UsedBy

LEMMA WorkflowAnswers ==
    ASSUME NEW s \in Samples, StageOf(s) = "answering", StageOf(s)' = "answered",
           global_memory'[s] = global_memory[s], UsedBy(s)' = UsedBy(s)
    PROVE  Workflow!Answer(s)
BY DEF Workflow!Answer, StageOf, UsedBy

LEMMA WorkflowAbsorbs ==
    ASSUME NEW s \in Samples, StageOf(s) = "reading", Len(global_memory[s]) < MaxPasses,
           NEW evidence \in (SUBSET (0 .. MaxChunks - 1)) \ {{}},
           global_memory'[s] = Append(global_memory[s], evidence),
           \/ /\ Len(global_memory'[s]) < MaxPasses
              /\ StageOf(s)' = "reading" /\ UsedBy(s)' = -1
           \/ /\ Len(global_memory'[s]) = MaxPasses
              /\ StageOf(s)' = "answering" /\ UsedBy(s)' = MaxPasses
    PROVE  Workflow!Absorb(s)
BY DEF Workflow!Absorb, StageOf, UsedBy

(* A reply to a chunk, a further window, a failure and the end of the batch *)
(* are no steps of the workflow; a pass without news converges, a merge     *)
(* absorbs, the answer answers.                                             *)
LEMMA ItemStep ==
    ASSUME Assumptions, TypeInv, NEW s \in Samples, ItemInv(s), Coroutine(s)
    PROVE  \/ Workflow!Absorb(s) \/ Workflow!Converge(s)
           \/ Workflow!Answer(s) \/ Workflow!Stay(s)
<1>1. ASSUME UNCHANGED <<at, global_memory, final_pass_used>>
      PROVE  Workflow!Stay(s)
    <2>1. StageOf(s)' = StageOf(s) /\ UsedBy(s)' = UsedBy(s)
        BY <1>1 DEF StageOf, UsedBy
    <2> QED BY <1>1, <2>1, WorkflowStays
<1>2. CASE ChunkReply(s) \/ NextWindow(s) \/ Raise
    BY <1>1, <1>2 DEF ChunkReply, NextWindow, Raise
<1>3. CASE LateError(s)
    BY <1>2, <1>3 DEF LateError
<1>4. CASE PassDone(s)
    <2>1. CASE Failed(s)
        BY <1>2, <1>4, <2>1 DEF PassDone, Examine
    <2>2. CASE ~Failed(s)
        <3>1. /\ Proceed(s) /\ at[s] = "chunks" /\ final_pass_used[s] = Len(global_memory[s]) + 1
              /\ global_memory'[s] = global_memory[s] /\ final_pass_used'[s] = final_pass_used[s]
              /\ at'[s] \in {"final", "merge"}
            <4>1. Proceed(s) /\ at[s] = "chunks"
                BY <1>4, <2>2 DEF PassDone, Examine
            <4>2. final_pass_used[s] = Len(global_memory[s]) + 1
                BY <4>1 DEF ItemInv, Staged
            <4>3. /\ at'[s] \in {"final", "merge"}
                  /\ global_memory'[s] = global_memory[s]
                  /\ final_pass_used'[s] = final_pass_used[s]
                BY <4>1 DEF Proceed, Await, TypeInv, TypeOK
            <4> QED BY <4>1, <4>2, <4>3
        <3>2. CASE at'[s] = "final"
            <4>1. Len(global_memory[s]) < MaxPasses
                BY <3>1, ItemTypes, ConstantTypes, SMT
            <4> QED BY <3>1, <3>2, <4>1, StageFacts, StageFactsNext, WorkflowConverges
        <3>3. CASE at'[s] = "merge"
            BY <3>1, <3>3, StageFacts, StageFactsNext, WorkflowStays
        <3> QED BY <3>1, <3>2, <3>3
    <2> QED BY <2>1, <2>2
<1>5. CASE MergeReply(s)
    <2>1. PICK p, g : p = final_pass_used[s] /\ g = global_memory[s]
        OBVIOUS
    <2>2. /\ at[s] = "merge" /\ shown[s] = Append(g, News(s)) /\ News(s) # {}
          /\ Len(g) + 1 = p /\ Len(g) \in Nat /\ p <= MaxPasses /\ p \in Nat
        BY <1>5, <2>1, ItemTypes DEF MergeReply, ItemInv, Staged
    <2>3. /\ global_memory'[s] = Append(g, News(s)) /\ Len(global_memory'[s]) = p
          /\ News(s) \in (SUBSET (0 .. MaxChunks - 1)) \ {{}}
        <3>1. global_memory'[s] = shown[s]
            BY <1>5 DEF MergeReply, TypeInv, TypeOK
        <3> QED BY <2>1, <2>2, <3>1, NewsType
    <2>4. Len(g) < MaxPasses
        BY <2>2, ConstantTypes, SMT
    <2>5. CASE MorePasses(s)
        <3>1. p < MaxPasses /\ at'[s] = "chunks"
            BY <1>5, <2>1, <2>5 DEF MorePasses, MergeReply, Await, TypeInv, TypeOK
        <3> QED
            BY <2>1, <2>2, <2>3, <2>4, <3>1, StageFacts, StageFactsNext, WorkflowAbsorbs
    <2>6. CASE ~MorePasses(s)
        <3>1. /\ ~(p < MaxPasses) /\ at'[s] = "final" /\ final_pass_used'[s] = p
            BY <1>5, <2>1, <2>6 DEF MorePasses, MergeReply, Await, TypeInv, TypeOK
        <3>2. p = MaxPasses
            BY <2>2, <3>1, ConstantTypes, SMT
        <3> QED
            BY <2>1, <2>2, <2>3, <2>4, <3>1, <3>2, StageFacts, StageFactsNext, WorkflowAbsorbs
    <2> QED BY <2>5, <2>6
<1>6. CASE FinalReply(s)
    <2>1. /\ at[s] = "final" /\ at'[s] = "returned" /\ global_memory'[s] = global_memory[s]
          /\ final_pass_used'[s] = final_pass_used[s]
        BY <1>6 DEF FinalReply, Await, TypeInv, TypeOK
    <2> QED BY <2>1, StageFacts, StageFactsNext, WorkflowAnswers
<1> QED BY <1>2, <1>3, <1>4, <1>5, <1>6 DEF Coroutine

LEMMA OthersStay ==
    ASSUME TypeInv, NEW s \in Samples, NEW t \in Samples, t # s, Coroutine(s)
    PROVE  Workflow!Stay(t)
<1>1. /\ at'[t] = at[t] /\ global_memory'[t] = global_memory[t]
      /\ final_pass_used'[t] = final_pass_used[t]
    <2>1. CASE ChunkReply(s) \/ NextWindow(s) \/ Raise \/ LateError(s)
        BY <2>1 DEF ChunkReply, NextWindow, Raise, LateError
    <2>2. CASE PassDone(s)
        BY <2>2 DEF PassDone, Examine, Proceed, Raise, Await, TypeInv, TypeOK
    <2>3. CASE MergeReply(s)
        BY <2>3 DEF MergeReply, Await, TypeInv, TypeOK
    <2>4. CASE FinalReply(s)
        BY <2>4 DEF FinalReply, Await, TypeInv, TypeOK
    <2> QED BY <2>1, <2>2, <2>3, <2>4 DEF Coroutine
<1>2. StageOf(t)' = StageOf(t) /\ UsedBy(t)' = UsedBy(t)
    BY <1>1 DEF StageOf, UsedBy
<1> QED BY <1>1, <1>2, WorkflowStays

(* Every step is one of the workflow: the return of the batch leaves every  *)
(* item where it is.                                                        *)
LEMMA WorkflowStep ==
    ASSUME Assumptions, IInv, IInv', Next
    PROVE  Workflow!Next
<1>1. global_memory' \in [Samples -> Workflow!Memories]
    BY DEF IInv, TypeInv, TypeOK, Memories, Workflow!Memories
<1>2. [r \in Samples |-> StageOf(r)'] \in [Samples -> Workflow!Stages]
    BY DEF StageOf, Workflow!Stages
<1>3. [r \in Samples |-> UsedBy(r)'] \in [Samples -> Int]
    <2>1. \A r \in Samples : final_pass_used'[r] \in Int
        BY ConstantTypes, SMT DEF IInv, TypeInv, TypeOK
    <2> QED BY <2>1 DEF UsedBy
<1>4. \A t \in Samples : \/ Workflow!Absorb(t) \/ Workflow!Converge(t)
                         \/ Workflow!Answer(t) \/ Workflow!Stay(t)
    <2>1. ASSUME Gather, NEW t \in Samples PROVE Workflow!Stay(t)
        <3>1. UNCHANGED <<at, final_pass_used, global_memory>>
            BY <2>1 DEF Gather
        <3>2. StageOf(t)' = StageOf(t) /\ UsedBy(t)' = UsedBy(t)
            BY <3>1 DEF StageOf, UsedBy
        <3> QED BY <3>1, <3>2, WorkflowStays
    <2>2. ASSUME NEW s \in Samples, Coroutine(s), NEW t \in Samples
          PROVE  Workflow!Absorb(t) \/ Workflow!Converge(t) \/ Workflow!Answer(t) \/ Workflow!Stay(t)
        BY <2>2, ItemStep, OthersStay DEF IInv
    <2> QED BY <2>1, <2>2 DEF Next
<1> QED BY <1>1, <1>2, <1>3, <1>4 DEF Workflow!Next, StageOf, UsedBy

(* The asynchronous agent implements the workflow: whatever the order of    *)
(* the replies, every item is read in passes that absorb their evidence or  *)
(* end the reading, and is answered once, unless the whole batch fails.     *)
THEOREM ItemsFollowTheWorkflow == ASSUME Assumptions PROVE Spec => ImplementsWorkflow
<1>1. ASSUME IInv, IInv', [Next]_vars
      PROVE  [Workflow!Next]_(Workflow!vars)
    <2>1. CASE Next
        BY <1>1, <2>1, WorkflowStep
    <2>2. CASE UNCHANGED vars
        BY <2>2 DEF vars, Workflow!vars
    <2> QED BY <1>1, <2>1, <2>2
<1> QED BY <1>1, WorkflowInit, InvHolds, PTL DEF Spec, ImplementsWorkflow, Workflow!Spec
=============================================================================
