------------------------ MODULE TrajectoriesProofs ------------------------
(***************************************************************************)
(* Theorems about what a trajectory meets on its way.  The balancer: for   *)
(* any servers, requests, numbers of turns and cache sizes, and any order  *)
(* in which the releases arrive, the counts follow the load and            *)
(* conversations keep their server.  The loop with tools and the rate      *)
(* limiter: in any configuration, what the trainer is given fits together, *)
(* and neither rates nor slots drift.  The models of MCTrajectories        *)
(* together: the invariants its run checks.                                *)
(***************************************************************************)
EXTENDS MCTrajectories, FiniteSetTheorems, SequenceTheorems, FunctionTheorems,
        WellFoundedInduction, TLAPS

(* The part of the types that the counts depend on                         *)
Counters ==
    /\ Standalone \subseteq Pool /\ Pool \subseteq Servers
    /\ \A s \in Pool : inflight[s] \in Nat
    /\ held \in [Requests -> Servers \cup {None}]
    /\ releasing \in [Servers -> Nat]

(* The inductive invariant                                                 *)
IInv == Counters /\ StandaloneCountIsExact /\ CountNeverExceedsLoad

Holders(s) == {r \in Requests : held[r] = s}
-----------------------------------------------------------------------------
(* What the actions do to the real load of each server                     *)
LEMMA HoldersFinite ==
    \A s : IsFiniteSet(Holders(s)) /\ Cardinality(Holders(s)) \in Nat
<1> TAKE s
<1>1. IsFiniteSet(Holders(s))
    BY RequestsAssumption, FS_Subset DEF Holders
<1> QED BY <1>1, FS_CardinalityType

LEMMA LoadType == ASSUME Counters, NEW s \in Servers PROVE Load(s) \in Nat /\ Load(s) >= releasing[s]
<1>1. Load(s) = Cardinality(Holders(s)) + releasing[s]
    BY DEF Load, Holders
<1>2. releasing[s] \in Nat
    BY DEF Counters
<1> QED BY <1>1, <1>2, HoldersFinite

LEMMA HandLoad ==
    ASSUME Counters, NEW r \in Requests, NEW s \in Servers, held[r] = None,
           held' = [held EXCEPT ![r] = s], UNCHANGED releasing,
           NEW t \in Servers
    PROVE  Load(t)' = IF t = s THEN Load(t) + 1 ELSE Load(t)
<1>1. None \notin Servers
    BY ServersAssumption
<1>2. CASE t = s
    <2>1. Holders(t)' = Holders(t) \cup {r} /\ r \notin Holders(t)
        BY <1>1, <1>2 DEF Holders, Counters
    <2>2. Cardinality(Holders(t)') = Cardinality(Holders(t)) + 1
        BY <2>1, HoldersFinite, FS_AddElement
    <2>3. Load(t)' = Cardinality(Holders(t)') + releasing[t] /\ Load(t) = Cardinality(Holders(t)) + releasing[t]
        BY DEF Load, Holders
    <2>4. Cardinality(Holders(t)) \in Nat /\ releasing[t] \in Nat
        BY HoldersFinite DEF Counters
    <2> QED BY <1>2, <2>2, <2>3, <2>4
<1>3. CASE t # s
    <2>1. Holders(t)' = Holders(t)
        BY <1>1, <1>3 DEF Holders, Counters
    <2> QED BY <1>3, <2>1 DEF Load, Holders
<1> QED BY <1>2, <1>3

LEMMA FinishLoad ==
    ASSUME Counters, NEW r \in Requests, Finish(r), NEW t \in Servers
    PROVE  Load(t)' = Load(t)
<1>1. held[r] \in Servers /\ None \notin Servers
    BY ServersAssumption DEF Finish, Counters
<1>2. CASE t = held[r]
    <2>1. Holders(t)' = Holders(t) \ {r} /\ r \in Holders(t)
        BY <1>1, <1>2 DEF Holders, Counters, Finish
    <2>2. Cardinality(Holders(t)') = Cardinality(Holders(t)) - 1
        BY <2>1, HoldersFinite, FS_RemoveElement
    <2>3. releasing[t]' = releasing[t] + 1
        BY <1>2 DEF Finish, Counters
    <2>4. Load(t)' = Cardinality(Holders(t)') + releasing[t]' /\ Load(t) = Cardinality(Holders(t)) + releasing[t]
        BY DEF Load, Holders
    <2>5. Cardinality(Holders(t)) \in Nat /\ releasing[t] \in Nat
        BY HoldersFinite DEF Counters
    <2> QED BY <2>2, <2>3, <2>4, <2>5
<1>3. CASE t # held[r]
    <2>1. Holders(t)' = Holders(t) /\ releasing[t]' = releasing[t]
        BY <1>1, <1>3 DEF Holders, Counters, Finish
    <2> QED BY <2>1 DEF Load, Holders
<1> QED BY <1>2, <1>3

LEMMA ReleaseLoad ==
    ASSUME Counters, NEW s \in Servers, Release(s), NEW t \in Servers
    PROVE  Load(t)' = IF t = s THEN Load(t) - 1 ELSE Load(t)
<1>1. Holders(t)' = Holders(t) /\ releasing[t]' = IF t = s THEN releasing[t] - 1 ELSE releasing[t]
    BY DEF Release, Holders, Counters
<1>2. Load(t)' = Cardinality(Holders(t)') + releasing[t]' /\ Load(t) = Cardinality(Holders(t)) + releasing[t]
    BY DEF Load, Holders
<1>3. Cardinality(Holders(t)) \in Nat /\ releasing[t] \in Nat
    BY HoldersFinite DEF Counters
<1> QED BY <1>1, <1>2, <1>3
-----------------------------------------------------------------------------
LEMMA InitIInv == Init => IInv
<1> SUFFICES ASSUME Init PROVE IInv
    OBVIOUS
<1>1. Counters /\ Pool = Standalone
    BY DEF Init, Counters, Pool, Servers
<1>2. ASSUME NEW s \in Standalone PROVE Load(s) = 0
    <2>1. s \in Servers /\ Holders(s) = {}
        BY ServersAssumption DEF Servers, Holders, Init
    <2>2. Load(s) = Cardinality(Holders(s)) + releasing[s] /\ releasing[s] = 0
        BY <2>1 DEF Load, Holders, Init
    <2> QED BY <2>1, <2>2, FS_EmptySet
<1> QED BY <1>1, <1>2 DEF IInv, StandaloneCountIsExact, CountNeverExceedsLoad, Init

LEMMA HandIInv ==
    ASSUME IInv, NEW r \in Requests, NEW s \in Pool, NEW cache, held[r] = None, Hand(r, s, cache)
    PROVE  IInv'
<1>1. s \in Servers /\ Pool \subseteq Servers /\ Standalone \subseteq Pool
    BY DEF IInv, Counters
<1>2. inflight' = [t \in Pool |-> IF t = s THEN inflight[t] + 1 ELSE inflight[t]] /\ Pool' = Pool
    BY DEF Hand, Pool
<1>3. Counters'
    BY <1>1, <1>2 DEF IInv, Counters, Hand
<1>4. \A t \in Servers : Load(t)' = IF t = s THEN Load(t) + 1 ELSE Load(t)
    BY <1>1, HandLoad DEF IInv, Hand
<1>5. \A t \in Servers : Load(t) \in Nat
    BY LoadType DEF IInv
<1>6. \A t \in Pool : inflight[t] \in Nat
    BY DEF IInv, Counters
<1>7. StandaloneCountIsExact'
    BY <1>1, <1>2, <1>4, <1>5, <1>6 DEF IInv, StandaloneCountIsExact
<1>8. CountNeverExceedsLoad'
    BY <1>1, <1>2, <1>4, <1>5, <1>6 DEF IInv, CountNeverExceedsLoad
<1> QED BY <1>3, <1>7, <1>8 DEF IInv

LEMMA FinishIInv == ASSUME IInv, NEW r \in Requests, Finish(r) PROVE IInv'
<1>1. Counters'
    BY DEF IInv, Counters, Finish, Pool
<1>2. Pool' = Pool /\ inflight' = inflight /\ \A t \in Servers : Load(t)' = Load(t)
    BY FinishLoad DEF IInv, Finish, Pool
<1> QED BY <1>1, <1>2 DEF IInv, Counters, StandaloneCountIsExact, CountNeverExceedsLoad

LEMMA ReleaseIInv == ASSUME IInv, NEW s \in Servers, Release(s) PROVE IInv'
<1>1. \A t \in Servers : Load(t)' = IF t = s THEN Load(t) - 1 ELSE Load(t)
    BY ReleaseLoad DEF IInv
<1>2. \A t \in Servers : Load(t) \in Nat
    BY LoadType DEF IInv
<1>3. Load(s) >= 1
    BY LoadType DEF IInv, Counters, Release
<1>4. Pool' = Pool /\ \A t \in Pool : inflight[t]' = IF t = s /\ inflight[t] > 0 THEN inflight[t] - 1 ELSE inflight[t]
    BY DEF Release, Decremented, Pool
<1>5. /\ Standalone \subseteq Pool /\ Pool \subseteq Servers
      /\ \A t \in Pool : inflight[t] \in Nat
    BY DEF IInv, Counters
<1>6. Counters'
    <2>1. held' = held /\ releasing' \in [Servers -> Nat]
        BY DEF IInv, Counters, Release
    <2>2. \A t \in Pool' : inflight'[t] \in Nat
        BY <1>4, <1>5
    <2> QED BY <1>4, <1>5, <2>1, <2>2 DEF IInv, Counters
<1>7. StandaloneCountIsExact'
    BY <1>1, <1>2, <1>3, <1>4, <1>5 DEF IInv, StandaloneCountIsExact
<1>8. CountNeverExceedsLoad'
    BY <1>1, <1>2, <1>3, <1>4, <1>5 DEF IInv, CountNeverExceedsLoad
<1> QED BY <1>6, <1>7, <1>8 DEF IInv

LEMMA AddIInv == ASSUME IInv, AddServers PROVE IInv'
<1>1. PICK S \in SUBSET (Hybrid \ Pool) : inflight' = [s \in Pool \cup S |-> IF s \in S THEN 0 ELSE inflight[s]]
    BY DEF AddServers
<1>2. Pool' = Pool \cup S /\ Pool \cap S = {} /\ S \subseteq Servers
    BY <1>1 DEF Pool, Servers
<1>3. Counters'
    BY <1>1, <1>2 DEF IInv, Counters, AddServers
<1>4. \A t \in Servers : Load(t)' = Load(t) /\ Load(t) \in Nat
    BY LoadType DEF IInv, AddServers, Load
<1> QED BY <1>1, <1>2, <1>3, <1>4 DEF IInv, Counters, StandaloneCountIsExact, CountNeverExceedsLoad

LEMMA RemoveIInv == ASSUME IInv, RemoveServers PROVE IInv'
<1>1. PICK S \in SUBSET (Hybrid \cap Pool) : inflight' = [s \in Pool \ S |-> inflight[s]]
    BY DEF RemoveServers
<1>2. Pool' = Pool \ S /\ Standalone \cap S = {}
    BY <1>1, ServersAssumption DEF Pool
<1>3. Counters'
    BY <1>1, <1>2 DEF IInv, Counters, RemoveServers
<1>4. \A t \in Servers : Load(t)' = Load(t)
    BY DEF RemoveServers, Load
<1> QED BY <1>1, <1>2, <1>3, <1>4 DEF IInv, Counters, StandaloneCountIsExact, CountNeverExceedsLoad

LEMMA NextIInv == IInv /\ [Next]_vars => IInv'
<1> SUFFICES ASSUME IInv, [Next]_vars PROVE IInv'
    OBVIOUS
<1>1. ASSUME NEW r \in Requests, AcquireSticky(r) PROVE IInv'
    BY <1>1, HandIInv DEF AcquireSticky, IsHit
<1>2. ASSUME NEW r \in Requests, AcquireFresh(r) PROVE IInv'
    BY <1>2, HandIInv DEF AcquireFresh, LeastLoaded
<1>3. CASE UNCHANGED vars
    BY <1>3 DEF IInv, Counters, StandaloneCountIsExact, CountNeverExceedsLoad, Load, Pool, vars
<1> QED BY <1>1, <1>2, <1>3, FinishIInv, ReleaseIInv, AddIInv, RemoveIInv DEF Next

LEMMA InvariantHolds == Spec => []IInv
<1>1. Init => IInv
    BY InitIInv
<1>2. IInv /\ [Next]_vars => IInv'
    BY NextIInv
<1> QED BY <1>1, <1>2, PTL DEF Spec
-----------------------------------------------------------------------------
(* The count of a server that is never removed is the number of requests   *)
(* that run on it and of releases that are on their way to it.             *)
THEOREM StandaloneCounts == Spec => []StandaloneCountIsExact
<1>1. IInv => StandaloneCountIsExact
    BY DEF IInv
<1> QED BY <1>1, InvariantHolds, PTL

(* However often servers are removed and added again, and whenever releases*)
(* of their earlier lives arrive, no count exceeds the real load.          *)
THEOREM CountsAreBounded == Spec => []CountNeverExceedsLoad
<1>1. IInv => CountNeverExceedsLoad
    BY DEF IInv
<1> QED BY <1>1, InvariantHolds, PTL

(* A step that hands out a server takes it from the pool.                  *)
LEMMA PoolStep ==
    IInv /\ [Next]_vars =>
        [\A r \in Requests : held[r] = None /\ held'[r] # None => held'[r] \in Pool]_vars
<1> SUFFICES ASSUME IInv, Next, NEW r \in Requests, held[r] = None, held'[r] # None
             PROVE  held'[r] \in Pool
    OBVIOUS
<1>1. ASSUME NEW q \in Requests, NEW s \in Pool, NEW cache, Hand(q, s, cache) PROVE held'[r] \in Pool
    BY <1>1 DEF Hand, IInv, Counters
<1>2. ASSUME NEW q \in Requests, AcquireSticky(q) \/ AcquireFresh(q) PROVE held'[r] \in Pool
    BY <1>1, <1>2 DEF AcquireSticky, AcquireFresh, IsHit, LeastLoaded
<1>3. ASSUME NEW q \in Requests, Finish(q) PROVE FALSE
    BY <1>3 DEF Finish, IInv, Counters
<1>4. CASE (\E s \in Servers : Release(s)) \/ AddServers \/ RemoveServers
    BY <1>4 DEF Release, AddServers, RemoveServers
<1> QED BY <1>2, <1>3, <1>4 DEF Next

(* Nobody is sent to a server outside the pool.                            *)
THEOREM AcquiresFromThePool == Spec => AcquiredServerIsInThePool
<1> QED BY PoolStep, InvariantHolds, PTL DEF Spec, AcquiredServerIsInThePool

(* Both together, for any servers, requests and order of messages.         *)
THEOREM CountsAreRight == Spec => []CountsFollowTheLoad
<1> QED BY StandaloneCounts, CountsAreBounded, PTL DEF CountsFollowTheLoad

-----------------------------------------------------------------------------
(* The routing cache                                                       *)

(* An entry names the server of the request's latest turn; what lies       *)
(* behind it in the order of use was served since; and a request that was  *)
(* served is forgotten only after CacheSize others.                        *)
CacheType ==
    /\ sticky \in Seq(Requests \X Servers) /\ Len(sticky) <= CacheSize
    /\ last \in [Requests -> Servers \cup {None}]
    /\ since \in [Requests -> SUBSET Requests]
EntriesInv ==
    /\ \A i \in DOMAIN sticky : sticky[i][2] = last[sticky[i][1]]
    /\ \A i, j \in DOMAIN sticky : i < j =>
          /\ sticky[i][1] # sticky[j][1]
          /\ sticky[j][1] \in since[sticky[i][1]]
MemoryInv ==
    \A r \in Requests :
        last[r] # None /\ Cardinality(since[r]) < CacheSize => Entries(r) # {}

RouteInv == CacheType /\ EntriesInv /\ MemoryInv

LEMMA StickyDomain ==
    ASSUME CacheType
    PROVE  /\ DOMAIN sticky = 1 .. Len(sticky) /\ Len(sticky) \in Nat /\ CacheSize \in Nat
           /\ CacheSize >= 1
           /\ \A i \in DOMAIN sticky : sticky[i] \in Requests \X Servers
<1>1. DOMAIN sticky = 1 .. Len(sticky) /\ Len(sticky) \in Nat
    BY LenProperties DEF CacheType
<1>2. \A i \in DOMAIN sticky : sticky[i] \in Requests \X Servers
    BY <1>1, ElementOfSeq DEF CacheType
<1> QED BY <1>1, <1>2, CacheSizeAssumption, SMT

(* c has entries of sticky only, in their order, and none of r.            *)
Thinned(c, r, g) ==
    /\ g \in [DOMAIN c -> DOMAIN sticky]
    /\ \A i \in DOMAIN c : c[i] = sticky[g[i]] /\ c[i][1] # r
    /\ \A i, j \in DOMAIN c : i < j => g[i] < g[j]

(* Deleting an entry keeps all others in order.                            *)
LEMMA WithoutShape ==
    ASSUME CacheType, EntriesInv, NEW r \in Requests, NEW w, w = Without(r)
    PROVE  /\ w \in Seq(Requests \X Servers) /\ Len(w) <= Len(sticky)
           /\ Entries(r) # {} => Len(w) = Len(sticky) - 1
           /\ \E g : /\ Thinned(w, r, g)
                     /\ \A j \in DOMAIN sticky \ Entries(r) : \E i \in DOMAIN w : g[i] = j
<1>1. CASE Entries(r) = {}
    <2>1. w = sticky
        BY <1>1 DEF Without
    <2> DEFINE g == [i \in DOMAIN sticky |-> i]
    <2>2. Thinned(w, r, g)
        BY <1>1, <2>1, SMT DEF Thinned, Entries
    <2>3. \A j \in DOMAIN sticky : g[j] = j
        OBVIOUS
    <2> HIDE DEF g
    <2>4. \A j \in DOMAIN sticky \ Entries(r) : \E i \in DOMAIN w : g[i] = j
        BY <2>1, <2>3
    <2>5. w \in Seq(Requests \X Servers) /\ Len(w) <= Len(sticky)
        BY <2>1, StickyDomain, SMT DEF CacheType
    <2> QED BY <1>1, <2>2, <2>4, <2>5
<1>2. CASE Entries(r) # {}
    <2>1. PICK k : k = Place(r)
        OBVIOUS
    <2>2. k \in Entries(r) /\ k \in DOMAIN sticky /\ sticky[k][1] = r
        BY <1>2, <2>1 DEF Place, Entries
    <2>3. \A i \in DOMAIN sticky : sticky[i][1] = r => i = k
        <3>1. ASSUME NEW i \in DOMAIN sticky, sticky[i][1] = r, i # k PROVE FALSE
            <4>1. i < k \/ k < i
                BY <3>1, <2>2, StickyDomain, SMT
            <4> QED BY <4>1, <3>1, <2>2 DEF EntriesInv
        <3> QED BY <3>1
    <2> DEFINE u == SubSeq(sticky, 1, k - 1)
               v == SubSeq(sticky, k + 1, Len(sticky))
               n == Len(sticky)
    <2>4. k \in 1 .. n /\ n \in Nat
        BY <2>2, StickyDomain
    <2>5. /\ u \in Seq(Requests \X Servers) /\ Len(u) = k - 1
          /\ \A i \in 1 .. k - 1 : u[i] = sticky[i]
        <3>1. \A i \in 1 .. k - 1 : i \in 1 .. n
            BY <2>4, SMT
        <3>2. /\ u \in Seq(Requests \X Servers)
              /\ Len(u) = IF 1 <= k - 1 THEN k - 1 - 1 + 1 ELSE 0
              /\ \A i \in 1 .. k - 1 - 1 + 1 : u[i] = sticky[1 + i - 1]
            BY <3>1, SubSeqProperties, <2>4 DEF CacheType
        <3>3. Len(u) = k - 1 /\ k - 1 - 1 + 1 = k - 1
            BY <3>2, <2>4, SMT
        <3>4. \A i \in 1 .. k - 1 : 1 + i - 1 = i
            BY <2>4, SMT
        <3> QED BY <3>2, <3>3, <3>4
    <2>6. /\ v \in Seq(Requests \X Servers) /\ Len(v) = n - k
          /\ \A i \in 1 .. n - k : v[i] = sticky[k + i]
        <3>1. \A i \in k + 1 .. n : i \in 1 .. n
            BY <2>4, SMT
        <3>2. /\ v \in Seq(Requests \X Servers)
              /\ Len(v) = IF k + 1 <= n THEN n - (k + 1) + 1 ELSE 0
              /\ \A i \in 1 .. n - (k + 1) + 1 : v[i] = sticky[k + 1 + i - 1]
            BY <3>1, SubSeqProperties, <2>4 DEF CacheType
        <3>3. Len(v) = n - k /\ n - (k + 1) + 1 = n - k
            BY <3>2, <2>4, SMT
        <3>4. \A i \in 1 .. n - k : k + 1 + i - 1 = k + i
            BY <2>4, SMT
        <3> QED BY <3>2, <3>3, <3>4
    <2>7. w = u \o v
        BY <1>2, <2>1 DEF Without
    <2> HIDE DEF u, v
    <2>8. /\ w \in Seq(Requests \X Servers) /\ Len(w) = Len(u) + Len(v)
          /\ \A i \in 1 .. Len(u) + Len(v) :
                w[i] = IF i <= Len(u) THEN u[i] ELSE v[i - Len(u)]
        BY <2>5, <2>6, <2>7, ConcatProperties
    <2>9. Len(w) = n - 1 /\ DOMAIN w = 1 .. n - 1
        BY <2>4, <2>5, <2>6, <2>8, LenProperties, SMT
    <2>10. \A i \in DOMAIN w : IF i < k THEN w[i] = sticky[i] /\ i \in DOMAIN sticky
                                        ELSE w[i] = sticky[i + 1] /\ i + 1 \in DOMAIN sticky
        <3> TAKE i \in DOMAIN w
        <3>1. i \in 1 .. n - 1 /\ i \in 1 .. Len(u) + Len(v)
            BY <2>4, <2>5, <2>6, <2>9, SMT
        <3>2. CASE i < k
            <4>1. i <= Len(u) /\ i \in 1 .. k - 1
                BY <3>1, <3>2, <2>4, <2>5, SMT
            <4>2. i \in DOMAIN sticky
                BY <3>1, <2>4, StickyDomain, SMT
            <4> QED BY <3>1, <3>2, <4>1, <4>2, <2>5, <2>8
        <3>3. CASE ~(i < k)
            <4>1. ~(i <= Len(u)) /\ i - Len(u) \in 1 .. n - k /\ k + (i - Len(u)) = i + 1
                BY <3>1, <3>3, <2>4, <2>5, SMT
            <4>2. i + 1 \in DOMAIN sticky
                BY <3>1, <2>4, StickyDomain, SMT
            <4> QED BY <3>1, <3>3, <4>1, <4>2, <2>6, <2>8
        <3> QED BY <3>2, <3>3
    <2> DEFINE g == [i \in DOMAIN w |-> IF i < k THEN i ELSE i + 1]
    <2>11. g \in [DOMAIN w -> DOMAIN sticky]
        BY <2>10
    <2>12. \A i \in DOMAIN w : w[i] = sticky[g[i]] /\ g[i] # k
        <3>1. \A i \in DOMAIN w : i < k => i # k
            BY <2>4, <2>9, SMT
        <3>2. \A i \in DOMAIN w : ~(i < k) => i + 1 # k
            BY <2>4, <2>9, SMT
        <3> QED BY <2>10, <3>1, <3>2
    <2>13. \A i \in DOMAIN w : w[i][1] # r
        BY <2>3, <2>11, <2>12
    <2>14. \A i, j \in DOMAIN w : i < j => g[i] < g[j]
        BY <2>4, <2>9, SMT
    <2>15. ASSUME NEW j \in DOMAIN sticky \ Entries(r) PROVE \E i \in DOMAIN w : g[i] = j
        <3>1. j # k /\ j \in 1 .. n
            BY <2>2, <2>15, StickyDomain
        <3>2. CASE j < k
            <4>1. j \in DOMAIN w
                BY <3>1, <3>2, <2>4, <2>9, SMT
            <4> QED BY <4>1, <3>2
        <3>3. CASE k < j
            <4>1. j - 1 \in DOMAIN w /\ ~(j - 1 < k) /\ (j - 1) + 1 = j
                BY <3>1, <3>3, <2>4, <2>9, SMT
            <4> QED BY <4>1
        <3> QED BY <3>1, <3>2, <3>3, <2>4, SMT
    <2>16. Thinned(w, r, g)
        BY <2>11, <2>12, <2>13, <2>14 DEF Thinned
    <2> HIDE DEF g
    <2>17. \E h : Thinned(w, r, h)
               /\ \A j \in DOMAIN sticky \ Entries(r) : \E i \in DOMAIN w : h[i] = j
        BY <2>15, <2>16
    <2> QED BY <2>4, <2>8, <2>9, <2>17, <1>2, SMT
<1> QED BY <1>1, <1>2

(* What a hit or a store puts the new entry behind: the other entries, or  *)
(* all but the oldest of a cache that is full of them.                     *)
Kept(c, r) ==
    /\ c \in Seq(Requests \X Servers) /\ Len(c) <= CacheSize - 1
    /\ \E g : /\ Thinned(c, r, g)
              /\ \A j \in DOMAIN sticky \ Entries(r) :
                    \/ \E i \in DOMAIN c : g[i] = j
                    \/ Len(c) = CacheSize - 1 /\ \A i \in DOMAIN c : j < g[i]

LEMMA TouchedKeeps ==
    ASSUME CacheType, EntriesInv, NEW r \in Requests, NEW s, Entries(r) # {}
    PROVE  \E c : Kept(c, r) /\ Touched(r, s) = Append(c, <<r, s>>)
<1>1. PICK w : w = Without(r)
    OBVIOUS
<1>2. /\ w \in Seq(Requests \X Servers) /\ Len(w) = Len(sticky) - 1
      /\ \E g : /\ Thinned(w, r, g)
                /\ \A j \in DOMAIN sticky \ Entries(r) : \E i \in DOMAIN w : g[i] = j
    BY <1>1, WithoutShape
<1>3. Len(w) <= CacheSize - 1
    BY <1>2, StickyDomain, SMT DEF CacheType
<1>4. Kept(w, r)
    BY <1>2, <1>3 DEF Kept
<1> QED BY <1>1, <1>4 DEF Touched

LEMMA StoredKeeps ==
    ASSUME CacheType, EntriesInv, NEW r \in Requests, NEW s
    PROVE  \E c : Kept(c, r) /\ Stored(r, s) = Append(c, <<r, s>>)
<1>1. PICK w : w = Without(r)
    OBVIOUS
<1>2. /\ w \in Seq(Requests \X Servers) /\ Len(w) <= Len(sticky)
      /\ \E g : /\ Thinned(w, r, g)
                /\ \A j \in DOMAIN sticky \ Entries(r) : \E i \in DOMAIN w : g[i] = j
    BY <1>1, WithoutShape
<1>3. Len(w) \in Nat /\ DOMAIN w = 1 .. Len(w) /\ Len(w) <= CacheSize /\ CacheSize \in Nat
      /\ CacheSize >= 1
    BY <1>2, LenProperties, StickyDomain, SMT DEF CacheType
<1>4. CASE Len(w) < CacheSize
    <2>1. Len(w) <= CacheSize - 1
        BY <1>3, <1>4, SMT
    <2>2. Kept(w, r)
        BY <1>2, <2>1 DEF Kept
    <2> QED BY <1>1, <1>4, <2>2 DEF Stored
<1>5. CASE ~(Len(w) < CacheSize)
    <2>1. Len(w) = CacheSize /\ w # << >>
        <3>1. \A a, b \in Nat : a <= b /\ ~(a < b) /\ b >= 1 => a = b /\ a # 0
            BY SMT
        <3>2. Len(w) = CacheSize /\ Len(w) # 0
            BY <1>3, <1>5, <3>1
        <3> QED BY <3>2, EmptySeq
    <2>2. PICK c : c = Tail(w)
        OBVIOUS
    <2>3. /\ c \in Seq(Requests \X Servers) /\ Len(c) = Len(w) - 1
          /\ \A i \in 1 .. Len(c) : c[i] = w[i + 1]
        BY <1>2, <2>1, <2>2, HeadTailProperties
    <2>4. DOMAIN c = 1 .. Len(c) /\ Len(c) = CacheSize - 1
        BY <2>1, <2>3, LenProperties
    <2>5. PICK g : /\ Thinned(w, r, g)
                   /\ \A j \in DOMAIN sticky \ Entries(r) : \E i \in DOMAIN w : g[i] = j
        BY <1>2
    <2>6. \A i \in DOMAIN c : i + 1 \in DOMAIN w /\ 1 \in DOMAIN w /\ 1 < i + 1
        BY <1>3, <2>1, <2>4, SMT
    <2> DEFINE h == [i \in DOMAIN c |-> g[i + 1]]
    <2>7. Thinned(c, r, h)
        <3>1. h \in [DOMAIN c -> DOMAIN sticky]
            BY <2>5, <2>6 DEF Thinned
        <3>2. \A i \in DOMAIN c : c[i] = sticky[h[i]] /\ c[i][1] # r
            BY <2>3, <2>4, <2>5, <2>6 DEF Thinned
        <3>3. \A i, j \in DOMAIN c : i < j => h[i] < h[j]
            <4>1. \A i, j \in DOMAIN c : i < j => i + 1 < j + 1
                BY <2>4, SMT
            <4> QED BY <4>1, <2>5, <2>6 DEF Thinned
        <3> QED BY <3>1, <3>2, <3>3 DEF Thinned
    <2>8. ASSUME NEW j \in DOMAIN sticky \ Entries(r)
          PROVE  \/ \E i \in DOMAIN c : h[i] = j
                 \/ \A i \in DOMAIN c : j < h[i]
        <3>1. PICK i \in DOMAIN w : g[i] = j
            BY <2>5
        <3>2. CASE i = 1
            BY <3>1, <3>2, <2>5, <2>6 DEF Thinned
        <3>3. CASE i # 1
            <4>1. i - 1 \in DOMAIN c /\ (i - 1) + 1 = i
                BY <3>3, <1>3, <2>1, <2>4, SMT
            <4> QED BY <3>1, <4>1
        <3> QED BY <3>2, <3>3
    <2> HIDE DEF h
    <2>9. Kept(c, r)
        <3>1. Len(c) <= CacheSize - 1
            BY <2>4, <1>3, SMT
        <3> QED BY <2>3, <2>4, <2>7, <2>8, <3>1 DEF Kept
    <2> QED BY <1>1, <1>5, <2>2, <2>9 DEF Stored
<1> QED BY <1>4, <1>5

(* The new entry is the last and names the server handed out; an entry     *)
(* that is lost had CacheSize - 1 others behind it, and r comes on top.    *)
LEMMA HandRoutes ==
    ASSUME RouteInv, NEW r \in Requests, NEW s \in Servers, NEW c, Kept(c, r),
           Hand(r, s, Append(c, <<r, s>>))
    PROVE  RouteInv'
<1>1. /\ sticky' = Append(c, <<r, s>>)
      /\ last' = [last EXCEPT ![r] = s]
      /\ since' = [q \in Requests |-> IF q = r THEN {} ELSE since[q] \cup {r}]
    BY DEF Hand
<1>2. c \in Seq(Requests \X Servers) /\ Len(c) <= CacheSize - 1
    BY DEF Kept
<1>3. /\ DOMAIN c = 1 .. Len(c) /\ Len(c) \in Nat /\ CacheSize \in Nat
      /\ \A i \in DOMAIN c : c[i] \in Requests \X Servers
    BY <1>2, LenProperties, ElementOfSeq, StickyDomain DEF RouteInv
<1> DEFINE n == Len(c) + 1
<1>4. /\ sticky' \in Seq(Requests \X Servers) /\ Len(sticky') = n
      /\ \A i \in 1 .. Len(c) : sticky'[i] = c[i]
      /\ sticky'[n] = <<r, s>>
    BY <1>1, <1>2, AppendProperties
<1>5. DOMAIN sticky' = 1 .. n /\ n \in DOMAIN sticky' /\ n <= CacheSize /\ n \in Nat
    BY <1>2, <1>3, <1>4, LenProperties, SMT
<1>6. \A i \in DOMAIN sticky' : i = n \/ i \in DOMAIN c
    BY <1>3, <1>5, SMT
<1>7. \A i \in DOMAIN c : i \in DOMAIN sticky' /\ sticky'[i] = c[i] /\ i < n
    BY <1>3, <1>4, <1>5, SMT
<1>8. CacheType'
    <2>1. last' \in [Requests -> Servers \cup {None}]
        BY <1>1 DEF RouteInv, CacheType
    <2>2. since' \in [Requests -> SUBSET Requests]
        BY <1>1 DEF RouteInv, CacheType
    <2> QED BY <1>4, <1>5, <2>1, <2>2 DEF CacheType
<1>9. PICK g : /\ Thinned(c, r, g)
               /\ \A j \in DOMAIN sticky \ Entries(r) :
                     \/ \E i \in DOMAIN c : g[i] = j
                     \/ Len(c) = CacheSize - 1 /\ \A i \in DOMAIN c : j < g[i]
    BY DEF Kept
<1>10. \A i \in DOMAIN c : /\ g[i] \in DOMAIN sticky /\ c[i] = sticky[g[i]]
                           /\ c[i][1] \in Requests /\ c[i][1] # r
    BY <1>3, <1>9 DEF Thinned
<1>11. \A q \in Requests : /\ q = r => last'[q] = s
                           /\ q # r => last'[q] = last[q] /\ since'[q] = since[q] \cup {r}
    BY <1>1 DEF RouteInv, CacheType
<1>12. EntriesInv'
    <2>1. ASSUME NEW i \in DOMAIN sticky' PROVE sticky'[i][2] = last'[sticky'[i][1]]
        <3>1. CASE i = n
            BY <3>1, <1>4, <1>11
        <3>2. CASE i \in DOMAIN c
            BY <3>2, <1>7, <1>10, <1>11 DEF RouteInv, EntriesInv
        <3> QED BY <3>1, <3>2, <1>6
    <2>2. ASSUME NEW i \in DOMAIN sticky', NEW j \in DOMAIN sticky', i < j
          PROVE  /\ sticky'[i][1] # sticky'[j][1]
                 /\ sticky'[j][1] \in since'[sticky'[i][1]]
        <3>1. i \in DOMAIN c
            BY <2>2, <1>5, <1>6, SMT
        <3>2. CASE j = n
            BY <3>1, <3>2, <1>4, <1>7, <1>10, <1>11
        <3>3. CASE j \in DOMAIN c
            <4>1. g[i] < g[j]
                BY <2>2, <3>1, <3>3, <1>9 DEF Thinned
            <4>2. c[i][1] # c[j][1] /\ c[j][1] \in since[c[i][1]]
                BY <3>1, <3>3, <4>1, <1>10 DEF RouteInv, EntriesInv
            <4> QED BY <3>1, <3>3, <4>2, <1>7, <1>10, <1>11
        <3> QED BY <3>2, <3>3, <1>6
    <2> QED BY <2>1, <2>2 DEF EntriesInv
<1>13. MemoryInv'
    <2> SUFFICES ASSUME NEW q \in Requests, last'[q] # None, Cardinality(since'[q]) < CacheSize
                 PROVE  \E i \in DOMAIN sticky' : sticky'[i][1] = q
        BY DEF MemoryInv, Entries
    <2>1. CASE q = r
        BY <2>1, <1>4, <1>5
    <2>2. CASE q # r
        <3>1. last[q] # None /\ since'[q] = since[q] \cup {r}
            BY <2>2, <1>11
        <3>2. since'[q] \subseteq Requests
            BY <1>8 DEF CacheType
        <3>3. IsFiniteSet(since'[q]) /\ Cardinality(since'[q]) \in Nat
            BY <3>2, RequestsAssumption, FS_Subset, FS_CardinalityType
        <3>4. since[q] \subseteq since'[q]
            BY <3>1
        <3>5. Cardinality(since[q]) <= Cardinality(since'[q]) /\ Cardinality(since[q]) \in Nat
            BY <3>3, <3>4, FS_Subset, FS_CardinalityType
        <3>6. Cardinality(since[q]) < CacheSize
            BY <3>3, <3>5, <1>3, SMT
        <3>7. PICK j \in DOMAIN sticky : sticky[j][1] = q
            BY <3>1, <3>6 DEF RouteInv, MemoryInv, Entries
        <3>8. j \in DOMAIN sticky \ Entries(r)
            BY <2>2, <3>7 DEF Entries
        <3>9. CASE \E i \in DOMAIN c : g[i] = j
            BY <3>9, <3>7, <1>7, <1>10
        <3>10. CASE Len(c) = CacheSize - 1 /\ \A i \in DOMAIN c : j < g[i]
            <4>1. n = CacheSize
                BY <3>10, <1>3, SMT
            <4>2. \A i \in DOMAIN sticky' : sticky'[i][1] \in since'[q]
                <5>1. sticky'[n][1] \in since'[q]
                    BY <3>1, <1>4
                <5>2. \A i \in DOMAIN c : c[i][1] \in since[q]
                    BY <3>7, <3>10, <1>10 DEF RouteInv, EntriesInv
                <5> QED BY <5>1, <5>2, <3>1, <1>6, <1>7
            <4> DEFINE f == [i \in 1 .. n |-> sticky'[i][1]]
            <4>3. f \in [1 .. n -> since'[q]]
                BY <4>2, <1>5
            <4>4. \A i, k \in 1 .. n : f[i] = f[k] => i = k
                <5>1. \A i, k \in 1 .. n : i = k \/ i < k \/ k < i
                    BY <1>5, SMT
                <5>2. \A i, k \in 1 .. n : i < k => f[i] # f[k]
                    BY <1>5, <1>12 DEF EntriesInv
                <5> QED BY <5>1, <5>2
            <4>5. f \in Injection(1 .. n, since'[q])
                BY <4>3, <4>4, Fun_IsInj
            <4>6. Cardinality(1 .. n) <= Cardinality(since'[q])
                BY <4>5, <3>3, FS_Injection
            <4>7. Cardinality(1 .. n) = n
                BY <1>5, FS_Interval, SMT
            <4> QED BY <4>1, <4>6, <4>7, <3>3, <1>3, SMT
        <3> QED BY <3>8, <3>9, <3>10, <1>9
    <2> QED BY <2>1, <2>2
<1> QED BY <1>8, <1>12, <1>13 DEF RouteInv

LEMMA RouteInvInit == Init => RouteInv
<1> SUFFICES ASSUME Init PROVE RouteInv
    OBVIOUS
<1>1. sticky = << >> /\ << >> \in Seq(Requests \X Servers) /\ Len(<< >>) = 0
      /\ DOMAIN sticky = {}
    BY EmptySeq, SMT DEF Init
<1>2. CacheType
    <2>1. Len(sticky) <= CacheSize
        BY <1>1, CacheSizeAssumption, SMT
    <2> QED BY <1>1, <2>1 DEF Init, CacheType
<1>3. EntriesInv
    BY <1>1 DEF EntriesInv
<1>4. MemoryInv
    BY DEF Init, MemoryInv
<1> QED BY <1>2, <1>3, <1>4 DEF RouteInv

LEMMA RouteInvNext == IInv /\ RouteInv /\ [Next]_vars => RouteInv'
<1> SUFFICES ASSUME IInv, RouteInv, [Next]_vars PROVE RouteInv'
    OBVIOUS
<1>1. CacheType /\ EntriesInv /\ Pool \subseteq Servers
    BY DEF RouteInv, IInv, Counters
<1>2. ASSUME NEW r \in Requests, AcquireSticky(r) PROVE RouteInv'
    <2>1. PICK s : s = CachedServer(r)
        OBVIOUS
    <2>2. s \in Servers /\ Entries(r) # {} /\ Hand(r, s, Touched(r, s))
        BY <1>1, <1>2, <2>1 DEF AcquireSticky, IsHit
    <2>3. PICK c : Kept(c, r) /\ Touched(r, s) = Append(c, <<r, s>>)
        BY <1>1, <2>2, TouchedKeeps
    <2> QED BY <2>2, <2>3, HandRoutes
<1>3. ASSUME NEW r \in Requests, AcquireFresh(r) PROVE RouteInv'
    <2>1. PICK s \in Servers : Hand(r, s, Stored(r, s))
        BY <1>1, <1>3 DEF AcquireFresh, LeastLoaded
    <2>2. PICK c : Kept(c, r) /\ Stored(r, s) = Append(c, <<r, s>>)
        BY <1>1, StoredKeeps
    <2> QED BY <2>1, <2>2, HandRoutes
<1>4. CASE UNCHANGED <<sticky, last, since>>
    BY <1>4 DEF RouteInv, CacheType, EntriesInv, MemoryInv, Entries
<1>5. \/ \E r \in Requests : AcquireSticky(r) \/ AcquireFresh(r)
      \/ UNCHANGED <<sticky, last, since>>
    BY DEF Next, Finish, Release, AddServers, RemoveServers, vars
<1> QED BY <1>2, <1>3, <1>4, <1>5

LEMMA RouteInvHolds == Spec => [](IInv /\ RouteInv)
<1> QED BY InitIInv, NextIInv, RouteInvInit, RouteInvNext, PTL DEF Spec

(* What the cache remembers decides the step of a conversation.            *)
LEMMA StickyStep ==
    IInv /\ RouteInv /\ [Next]_vars =>
        [\A r \in Requests :
            /\ held[r] = None /\ held'[r] # None
            /\ last[r] \in Pool /\ Cardinality(since[r]) < CacheSize
            => held'[r] = last[r]]_vars
<1> SUFFICES ASSUME IInv, RouteInv, Next, NEW r \in Requests,
                    held[r] = None, held'[r] # None,
                    last[r] \in Pool, Cardinality(since[r]) < CacheSize
             PROVE  held'[r] = last[r]
    OBVIOUS
<1>1. last[r] # None /\ held \in [Requests -> Servers \cup {None}]
    BY ServersAssumption DEF IInv, Counters
<1>2. Entries(r) # {}
    BY <1>1 DEF RouteInv, MemoryInv
<1>3. CachedServer(r) = last[r]
    <2>1. Place(r) \in Entries(r)
        BY <1>2 DEF Place
    <2>2. Place(r) \in DOMAIN sticky /\ sticky[Place(r)][1] = r
        BY <2>1 DEF Entries
    <2> QED BY <2>2 DEF CachedServer, RouteInv, EntriesInv
<1>4. ASSUME NEW q \in Requests, AcquireSticky(q) PROVE held'[r] = last[r]
    BY <1>1, <1>3, <1>4 DEF AcquireSticky, Hand
<1>5. ASSUME NEW q \in Requests, AcquireFresh(q) PROVE held'[r] = last[r]
    <2>1. q # r
        BY <1>2, <1>3, <1>5 DEF AcquireFresh, IsHit
    <2> QED BY <1>1, <1>5, <2>1 DEF AcquireFresh, Hand
<1>6. ASSUME NEW q \in Requests, Finish(q) PROVE FALSE
    BY <1>1, <1>6 DEF Finish
<1>7. CASE (\E s \in Servers : Release(s)) \/ AddServers \/ RemoveServers
    BY <1>7 DEF Release, AddServers, RemoveServers
<1> QED BY <1>4, <1>5, <1>6, <1>7 DEF Next

(* A conversation that goes on is sent where its last turn was, as long as *)
(* that server is in the pool and the cache cannot have forgotten it.      *)
THEOREM SessionsStick == Spec => StickySession
<1> QED BY StickyStep, RouteInvHolds, PTL DEF Spec, StickySession

(* Both promises of the routing, for any servers, requests, cache sizes,   *)
(* removals and additions.                                                 *)
THEOREM RoutesAreGood == Spec => RoutesStayGood
<1> QED BY SessionsStick, AcquiresFromThePool DEF RoutesStayGood
-----------------------------------------------------------------------------
LEMMA LeastNumber ==
    ASSUME NEW S \in SUBSET Nat, S # {}
    PROVE  \E x \in S : \A y \in S : x <= y
<1> DEFINE R == OpToRel(<, Nat)
<1>1. IsWellFoundedOn(R, Nat)
    BY NatLessThanWellFounded
<1>2. \A x, y \in Nat : x < y => <<x, y>> \in R
    BY DEF OpToRel
<1> HIDE DEF R
<1>3. PICK x \in S : \A y \in S : ~(<<y, x>> \in R)
    BY <1>1, WFMin
<1>4. \A y \in S : x <= y
    <2> SUFFICES ASSUME NEW y \in S PROVE x <= y
        OBVIOUS
    <2>1. x \in Nat /\ y \in Nat /\ ~(y < x)
        BY <1>2, <1>3
    <2> QED BY <2>1
<1> QED BY <1>4

(* Induction over the size of a finite set's subsets.                      *)
LEMMA SubsetInduction ==
    ASSUME NEW S, IsFiniteSet(S), NEW G \in SUBSET SUBSET S, {} \in G,
           \A T \in SUBSET S, x \in S : T \in G /\ x \notin T => T \cup {x} \in G
    PROVE  S \in G
<1> DEFINE bad == {n \in Nat : \E T \in SUBSET S : T \notin G /\ Cardinality(T) = n}
<1> SUFFICES ASSUME S \notin G PROVE FALSE
    OBVIOUS
<1>1. \A T \in SUBSET S : IsFiniteSet(T) /\ Cardinality(T) \in Nat
    <2> TAKE T \in SUBSET S
    <2>1. IsFiniteSet(T)
        BY FS_Subset
    <2> QED BY <2>1, FS_CardinalityType
<1>2. bad # {} /\ bad \in SUBSET Nat
    BY <1>1
<1>3. PICK n \in bad : \A m \in bad : n <= m
    BY <1>2, LeastNumber
<1>4. PICK T \in SUBSET S : T \notin G /\ Cardinality(T) = n
    BY <1>3
<1>5. PICK x \in T : TRUE
    BY <1>4
<1>6. IsFiniteSet(T) /\ T \ {x} \in SUBSET S /\ T = (T \ {x}) \cup {x} /\ n \in Nat
    BY <1>1, <1>3
<1>7. Cardinality(T \ {x}) = n - 1
    BY <1>4, <1>5, <1>6, FS_RemoveElement
<1>8. T \ {x} \in G
    <2>1. Cardinality(T \ {x}) \in Nat
        BY <1>1, <1>6
    <2>2. ~(n <= n - 1)
        BY <1>6
    <2> QED BY <2>1, <2>2, <1>3, <1>6, <1>7
<1> QED BY <1>4, <1>5, <1>6, <1>8

(* Sums over the subsets of S                                              *)
Adds(sum, S, f) ==
    /\ sum \in [SUBSET S -> Nat] /\ sum[{}] = 0
    /\ \A T \in SUBSET S, x \in S : x \notin T => sum[T \cup {x}] = sum[T] + f[x]

LEMMA SumExists ==
    ASSUME NEW S, IsFiniteSet(S), NEW f \in [S -> Nat]
    PROVE  \E sum : Adds(sum, S, f)
<1> DEFINE G == {T \in SUBSET S : \E sum : Adds(sum, T, f)}
<1>1. {} \in G
    <2> DEFINE s == [T \in SUBSET {} |-> 0]
    <2>1. Adds(s, {}, f)
        BY DEF Adds
    <2> QED BY <2>1
<1>2. ASSUME NEW T \in SUBSET S, NEW x \in S, T \in G, x \notin T PROVE T \cup {x} \in G
    <2>1. PICK s : Adds(s, T, f)
        BY <1>2
    <2> DEFINE U == T \cup {x}
               z == [V \in SUBSET U |-> IF x \in V THEN s[V \ {x}] + f[x] ELSE s[V]]
    <2>2. \A V \in SUBSET U : V \ {x} \in SUBSET T /\ (x \notin V => V \in SUBSET T)
        OBVIOUS
    <2>3. \A V \in SUBSET T : s[V] \in Nat
        BY <2>1 DEF Adds
    <2>4. f[x] \in Nat
        OBVIOUS
    <2>5. z \in [SUBSET U -> Nat]
        BY <2>2, <2>3, <2>4
    <2>6. z[{}] = 0
        BY <2>1 DEF Adds
    <2>7. ASSUME NEW V \in SUBSET U, NEW y \in U, y \notin V PROVE z[V \cup {y}] = z[V] + f[y]
        <3>1. V \cup {y} \in SUBSET U
            BY <2>7
        <3>2. CASE y = x
            <4>1. (V \cup {y}) \ {x} = V /\ x \notin V
                BY <2>7, <3>2
            <4>2. z[V \cup {y}] = s[V] + f[x] /\ z[V] = s[V]
                BY <4>1, <3>1, <3>2
            <4> QED BY <4>2, <3>2
        <3>3. CASE y # x /\ x \in V
            <4>1. (V \cup {y}) \ {x} = (V \ {x}) \cup {y} /\ y \in T /\ V \ {x} \in SUBSET T /\ y \notin V \ {x}
                BY <2>7, <3>3
            <4>2. z[V \cup {y}] = s[(V \ {x}) \cup {y}] + f[x] /\ z[V] = s[V \ {x}] + f[x]
                BY <4>1, <3>1, <3>3
            <4>3. s[(V \ {x}) \cup {y}] = s[V \ {x}] + f[y]
                BY <2>1, <4>1 DEF Adds
            <4>4. s[V \ {x}] \in Nat /\ f[x] \in Nat /\ f[y] \in Nat
                BY <2>3, <4>1, <2>4
            <4> QED BY <4>2, <4>3, <4>4
        <3>4. CASE y # x /\ x \notin V
            <4>1. x \notin V \cup {y} /\ y \in T /\ V \in SUBSET T
                BY <2>7, <3>4
            <4>2. z[V \cup {y}] = s[V \cup {y}] /\ z[V] = s[V]
                BY <4>1, <3>1, <3>4
            <4>3. s[V \cup {y}] = s[V] + f[y]
                BY <2>1, <2>7, <4>1 DEF Adds
            <4> QED BY <4>2, <4>3
        <3> QED BY <3>2, <3>3, <3>4
    <2> HIDE DEF z
    <2>8. Adds(z, U, f)
        BY <2>5, <2>6, <2>7 DEF Adds
    <2> QED BY <2>8
<1>3. S \in G
    <2>1. G \in SUBSET SUBSET S
        OBVIOUS
    <2> HIDE DEF G
    <2> QED BY <1>1, <1>2, <2>1, SubsetInduction
<1> QED BY <1>3

(* A finite set of numbers has a greatest element.                         *)
LEMMA GreatestExists ==
    ASSUME NEW S, IsFiniteSet(S), S # {}, NEW f, \A x \in S : f[x] \in Int
    PROVE  \E x \in S : \A y \in S : f[y] <= f[x]
<1> DEFINE G == {T \in SUBSET S : T # {} => \E x \in T : \A y \in T : f[y] <= f[x]}
<1>1. {} \in G
    OBVIOUS
<1>2. ASSUME NEW T \in SUBSET S, NEW z \in S, T \in G, z \notin T PROVE T \cup {z} \in G
    <2>1. CASE T = {}
        <3>1. \A y \in T \cup {z} : f[y] <= f[z]
            BY <2>1
        <3> QED BY <3>1
    <2>2. CASE T # {}
        <3>1. PICK x \in T : \A y \in T : f[y] <= f[x]
            BY <1>2, <2>2
        <3>2. CASE f[z] <= f[x]
            BY <3>1, <3>2
        <3>3. CASE ~(f[z] <= f[x])
            <4>1. \A y \in T \cup {z} : f[y] <= f[z]
                <5> TAKE y \in T \cup {z}
                <5>1. f[y] \in Int /\ f[x] \in Int /\ f[z] \in Int
                    OBVIOUS
                <5>2. y = z \/ f[y] <= f[x]
                    BY <3>1
                <5> QED BY <5>1, <5>2, <3>3
            <4> QED BY <4>1
        <3> QED BY <3>2, <3>3
    <2> QED BY <2>1, <2>2
<1>3. S \in G
    <2>1. G \in SUBSET SUBSET S
        OBVIOUS
    <2> HIDE DEF G
    <2> QED BY <1>1, <1>2, <2>1, SubsetInduction
<1> QED BY <1>3
-----------------------------------------------------------------------------
(* The debts of one bucket.  P are the requests that have taken their       *)
(* tokens and sleep until these have arrived, each with a timer and all of  *)
(* them in the order of their timers; level is the bucket's.                *)
Later(P, timer, p) == {q \in P : timer[q] > timer[p]}

Debt(P, timer, level, credit, sum, rate, over) ==
    /\ \A p, q \in P : timer[p] = timer[q] => p = q
    /\ \A p \in P : level + timer[p] * rate + sum[Later(P, timer, p)] <= rate - 1
    /\ \A p \in P, T \in SUBSET P :
          Later(P, timer, p) \subseteq T =>
             level + (IF timer[p] > 0 THEN timer[p] ELSE 0) * rate + sum[T] >= 0
    /\ level + sum[P] >= 0
    /\ credit >= level + sum[P] - over

LEMMA Times ==
    ASSUME NEW a \in Int, NEW b \in Int, NEW r \in Nat \ {0}
    PROVE  /\ a * r \in Int /\ (a - 1) * r = a * r - r /\ (a + 1) * r = a * r + r
           /\ a * r > b * r => a > b
           /\ a >= b => a * r >= b * r
OBVIOUS

LEMMA TicksCover ==
    ASSUME NEW n \in Nat, NEW r \in Nat \ {0}, NEW t, t = (n + r - 1) \div r
    PROVE  t \in Nat /\ t * r >= n /\ t * r <= n + r - 1 /\ (n > 0 => t > 0)
<1>1. t \in Int /\ r * t <= n + r - 1 /\ n + r - 1 < r * t + r
    BY SMT
<1>2. t * r = r * t
    BY <1>1
<1>3. t >= 0
    BY <1>1
<1>4. n > 0 => t > 0
    BY <1>1
<1> QED BY <1>1, <1>2, <1>3, <1>4

(* The facts each of the following lemmas needs.                            *)
DebtTypes(P, S, timer, level, credit, sum, f, rate, over) ==
    /\ IsFiniteSet(S) /\ P \in SUBSET S /\ Adds(sum, S, f) /\ f \in [S -> Nat]
    /\ \A p \in P : timer[p] \in Int
    /\ level \in Int /\ credit \in Int /\ rate \in Nat \ {0} /\ over \in Nat

LEMMA DebtStays ==
    ASSUME NEW P, NEW timer, NEW level, NEW credit, NEW sum, NEW rate, NEW over,
           Debt(P, timer, level, credit, sum, rate, over),
           NEW timer2, \A p \in P : timer2[p] = timer[p]
    PROVE  Debt(P, timer2, level, credit, sum, rate, over)
<1>1. \A p \in P : Later(P, timer2, p) = Later(P, timer, p)
    BY DEF Later
<1> QED BY <1>1 DEF Debt

(* Tokens are taken and let through at once.                                *)
LEMMA DebtGrant ==
    ASSUME NEW P, NEW S, NEW timer, NEW level, NEW credit, NEW sum, NEW f, NEW rate, NEW over,
           DebtTypes(P, S, timer, level, credit, sum, f, rate, over),
           Debt(P, timer, level, credit, sum, rate, over),
           NEW x \in Nat, level - x >= 0,
           NEW timer2, \A p \in P : timer2[p] = timer[p]
    PROVE  Debt(P, timer2, level - x, credit - x, sum, rate, over)
<1>1. \A p \in P : Later(P, timer2, p) = Later(P, timer, p)
    BY DEF Later
<1>2. \A T \in SUBSET P : sum[T] \in Nat
    BY DEF DebtTypes, Adds
<1>3. \A p \in P : Later(P, timer, p) \in SUBSET P /\ timer[p] \in Int /\ timer2[p] = timer[p]
    BY DEF Later, DebtTypes
<1>4. level \in Int /\ credit \in Int /\ rate \in Nat \ {0} /\ over \in Nat /\ P \in SUBSET P
    BY DEF DebtTypes
<1>5. \A p, q \in P : timer2[p] = timer2[q] => p = q
    BY DEF Debt
<1>6. ASSUME NEW p \in P PROVE level - x + timer2[p] * rate + sum[Later(P, timer2, p)] <= rate - 1
    <2>1. level + timer[p] * rate + sum[Later(P, timer, p)] <= rate - 1
        BY DEF Debt
    <2>2. timer[p] * rate \in Int /\ sum[Later(P, timer, p)] \in Nat
        BY <1>2, <1>3, <1>4, Times
    <2> QED BY <2>1, <2>2, <1>1, <1>3, <1>4
<1>7. ASSUME NEW p \in P, NEW T \in SUBSET P
      PROVE  level - x + (IF timer2[p] > 0 THEN timer2[p] ELSE 0) * rate + sum[T] >= 0
    <2> DEFINE m == IF timer2[p] > 0 THEN timer2[p] ELSE 0
    <2>1. m \in Nat
        BY <1>3
    <2> HIDE DEF m
    <2>2. m * rate \in Nat /\ sum[T] \in Nat
        BY <2>1, <1>2, <1>4
    <2>3. level - x + m * rate + sum[T] >= 0
        BY <2>2, <1>4
    <2> QED BY <2>3 DEF m
<1>8. level - x + sum[P] >= 0 /\ credit - x >= level - x + sum[P] - over
    <2>1. credit >= level + sum[P] - over /\ sum[P] \in Nat
        BY <1>2 DEF Debt
    <2> QED BY <2>1, <1>4
<1> QED BY <1>5, <1>6, <1>7, <1>8 DEF Debt

(* A large request takes its tokens and sleeps.                             *)
LEMMA DebtGrows ==
    ASSUME NEW P, NEW S, NEW timer, NEW level, NEW credit, NEW sum, NEW f, NEW rate, NEW over,
           DebtTypes(P, S, timer, level, credit, sum, f, rate, over),
           Debt(P, timer, level, credit, sum, rate, over),
           NEW q \in S, q \notin P, f[q] >= rate, level - f[q] < 0,
           NEW timer2, \A p \in P : timer2[p] = timer[p],
           timer2[q] = (-(level - f[q]) + rate - 1) \div rate
    PROVE  Debt(P \cup {q}, timer2, level - f[q], credit, sum, rate, over)
<1> DEFINE U == P \cup {q}
           low == level - f[q]
<1>1. \A T \in SUBSET U : sum[T] \in Nat
    BY DEF DebtTypes, Adds
<1>2. \A T \in SUBSET P : sum[T \cup {q}] = sum[T] + f[q] /\ sum[T] \in Nat
    <2> TAKE T \in SUBSET P
    <2>1. T \in SUBSET S /\ q \notin T
        BY DEF DebtTypes
    <2> QED BY <2>1, <1>1 DEF DebtTypes, Adds
<1>3. /\ level \in Int /\ credit \in Int /\ rate \in Nat \ {0} /\ over \in Nat /\ f[q] \in Nat
      /\ low \in Int /\ -low \in Nat /\ \A p \in P : timer[p] \in Int
    BY DEF DebtTypes
<1>4. timer2[q] \in Nat /\ timer2[q] * rate >= -low /\ timer2[q] * rate <= -low + rate - 1 /\ timer2[q] > 0
    <2>1. -low \in Nat /\ -low > 0 /\ rate \in Nat \ {0} /\ timer2[q] = (-low + rate - 1) \div rate
        BY <1>3
    <2> HIDE DEF low
    <2> QED BY <2>1, TicksCover
<1>5. ASSUME NEW p \in P PROVE timer2[q] > timer2[p]
    <2>1. level + timer[p] * rate + sum[Later(P, timer, p)] <= rate - 1
        BY DEF Debt
    <2>2. sum[Later(P, timer, p)] \in Nat /\ timer[p] \in Int /\ timer2[p] = timer[p]
        BY <1>2, <1>3 DEF Later
    <2>3. timer[p] * rate \in Int /\ timer2[q] * rate \in Int
        BY <2>2, <1>3, <1>4, Times
    <2>4. timer[p] * rate <= rate - 1 - level
        BY <2>1, <2>2, <2>3, <1>3
    <2>5. timer2[q] * rate > timer[p] * rate
        BY <2>3, <2>4, <1>3, <1>4
    <2> QED BY <2>2, <2>5, <1>3, <1>4, Times
<1>6. \A p \in P : Later(U, timer2, p) = Later(P, timer, p) \cup {q}
    BY <1>5 DEF Later
<1>7. Later(U, timer2, q) = {}
    <2>1. \A p \in P : ~(timer2[p] > timer2[q])
        BY <1>3, <1>4, <1>5
    <2>2. ~(timer2[q] > timer2[q])
        BY <1>4
    <2> QED BY <2>1, <2>2 DEF Later
<1>8. \A p, r \in U : timer2[p] = timer2[r] => p = r
    <2>1. \A p \in P : timer2[p] # timer2[q]
        BY <1>3, <1>4, <1>5
    <2>2. \A p, r \in P : timer[p] = timer[r] => p = r
        BY DEF Debt
    <2> QED BY <2>1, <2>2
<1>9. ASSUME NEW p \in U PROVE low + timer2[p] * rate + sum[Later(U, timer2, p)] <= rate - 1
    <2>1. CASE p = q
        <3>1. sum[{}] = 0
            BY DEF DebtTypes, Adds
        <3>2. timer2[q] * rate \in Int
            BY <1>3, <1>4, Times
        <3>3. low + timer2[q] * rate + 0 <= rate - 1
            BY <3>2, <1>3, <1>4
        <3>4. sum[Later(U, timer2, p)] = 0
            BY <2>1, <3>1, <1>7
        <3> QED BY <2>1, <3>3, <3>4
    <2>2. CASE p \in P
        <3>1. level + timer[p] * rate + sum[Later(P, timer, p)] <= rate - 1
            BY <2>2 DEF Debt
        <3>2. Later(P, timer, p) \in SUBSET P
            BY DEF Later
        <3>3. sum[Later(U, timer2, p)] = sum[Later(P, timer, p)] + f[q] /\ sum[Later(P, timer, p)] \in Nat
            BY <2>2, <3>2, <1>2, <1>6
        <3>4. timer[p] * rate \in Int /\ timer2[p] = timer[p]
            BY <2>2, <1>3, Times
        <3> QED BY <3>1, <3>3, <3>4, <1>3
    <2> QED BY <2>1, <2>2
<1>10. ASSUME NEW p \in U, NEW T \in SUBSET U, Later(U, timer2, p) \subseteq T
       PROVE  low + (IF timer2[p] > 0 THEN timer2[p] ELSE 0) * rate + sum[T] >= 0
    <2>1. CASE p = q
        <3>1. sum[T] \in Nat
            BY <1>1
        <3>2. timer2[q] * rate \in Int
            BY <1>3, <1>4, Times
        <3>3. low + timer2[q] * rate + sum[T] >= 0
            BY <3>1, <3>2, <1>3, <1>4
        <3> QED BY <2>1, <3>3, <1>4
    <2>2. CASE p \in P
        <3> DEFINE m == IF timer[p] > 0 THEN timer[p] ELSE 0
        <3>1. m \in Nat /\ m = (IF timer2[p] > 0 THEN timer2[p] ELSE 0)
            BY <2>2, <1>3
        <3>2. T \ {q} \in SUBSET P /\ Later(P, timer, p) \subseteq T \ {q} /\ T = (T \ {q}) \cup {q}
            BY <2>2, <1>6, <1>10 DEF Later
        <3>3. level + m * rate + sum[T \ {q}] >= 0
            BY <2>2, <3>2 DEF Debt
        <3>4. sum[T] = sum[T \ {q}] + f[q] /\ sum[T \ {q}] \in Nat
            BY <3>2, <1>2
        <3> HIDE DEF m
        <3>5. m * rate \in Int
            BY <3>1, <1>3, Times
        <3>6. low + m * rate + sum[T] >= 0
            BY <3>3, <3>4, <3>5, <1>3
        <3> QED BY <3>1, <3>6
    <2> QED BY <2>1, <2>2
<1>11. low + sum[U] >= 0 /\ credit >= low + sum[U] - over
    <2>1. sum[U] = sum[P] + f[q] /\ sum[P] \in Nat
        BY <1>2
    <2>2. level + sum[P] >= 0 /\ credit >= level + sum[P] - over
        BY DEF Debt
    <2> QED BY <2>1, <2>2, <1>3
<1> QED BY <1>8, <1>9, <1>10, <1>11 DEF Debt

(* A large request whose debt is paid is let through.                       *)
LEMMA DebtIsPaid ==
    ASSUME NEW P, NEW S, NEW timer, NEW level, NEW credit, NEW sum, NEW f, NEW rate, NEW over,
           DebtTypes(P, S, timer, level, credit, sum, f, rate, over),
           Debt(P, timer, level, credit, sum, rate, over),
           NEW p \in P, timer[p] <= 0,
           NEW timer2, \A q \in P \ {p} : timer2[q] = timer[q]
    PROVE  Debt(P \ {p}, timer2, level, credit - f[p], sum, rate, over)
<1> DEFINE U == P \ {p}
<1>1. \A T \in SUBSET P : p \notin T => sum[T \cup {p}] = sum[T] + f[p] /\ sum[T] \in Nat
    BY DEF DebtTypes, Adds
<1>2. \A T \in SUBSET P : sum[T] \in Nat
    BY DEF DebtTypes, Adds
<1>3. /\ level \in Int /\ credit \in Int /\ rate \in Nat \ {0} /\ over \in Nat /\ f[p] \in Nat
      /\ \A q \in P : timer[q] \in Int
    BY DEF DebtTypes
<1>4. \A q \in U : Later(U, timer2, q) = Later(P, timer, q) \ {p}
    BY DEF Later
<1>5. \A q, r \in U : timer2[q] = timer2[r] => q = r
    BY DEF Debt
<1>6. ASSUME NEW q \in U PROVE level + timer2[q] * rate + sum[Later(U, timer2, q)] <= rate - 1
    <2>1. level + timer[q] * rate + sum[Later(P, timer, q)] <= rate - 1
        BY DEF Debt
    <2> DEFINE L == Later(P, timer, q)
    <2>2. L \ {p} \in SUBSET P /\ p \notin L \ {p} /\ L \in SUBSET P
        BY DEF Later
    <2>3. sum[L \ {p}] <= sum[L] /\ sum[L] \in Nat /\ sum[L \ {p}] \in Nat
        <3> HIDE DEF L
        <3>1. CASE p \in L
            <4>1. (L \ {p}) \cup {p} = L
                BY <3>1
            <4>2. sum[(L \ {p}) \cup {p}] = sum[L \ {p}] + f[p]
                BY <1>1, <2>2
            <4>3. sum[L \ {p}] \in Nat /\ sum[L] \in Nat
                BY <1>2, <2>2
            <4>4. sum[L] = sum[L \ {p}] + f[p]
                BY <4>1, <4>2
            <4> QED BY <4>3, <4>4, <1>3
        <3>2. CASE p \notin L
            <4>1. L \ {p} = L
                BY <3>2
            <4>2. sum[L] \in Nat
                BY <1>2, <2>2
            <4> QED BY <4>1, <4>2
        <3> QED BY <3>1, <3>2
    <2>4. timer[q] * rate \in Int /\ timer2[q] = timer[q]
        BY <1>3, Times
    <2>5. sum[Later(U, timer2, q)] = sum[L \ {p}]
        BY <1>4
    <2> HIDE DEF L
    <2>6. level + timer[q] * rate + sum[L] <= rate - 1
        BY <2>1 DEF L
    <2> QED BY <2>3, <2>4, <2>5, <2>6, <1>3
<1>7. ASSUME NEW q \in U, NEW T \in SUBSET U, Later(U, timer2, q) \subseteq T
      PROVE  level + (IF timer2[q] > 0 THEN timer2[q] ELSE 0) * rate + sum[T] >= 0
    <2> DEFINE m == IF timer[q] > 0 THEN timer[q] ELSE 0
    <2>1. m \in Nat /\ m = (IF timer2[q] > 0 THEN timer2[q] ELSE 0) /\ T \in SUBSET P /\ q \in P
        BY <1>3
    <2>2. CASE p \notin Later(P, timer, q)
        <3>1. Later(P, timer, q) \subseteq T
            BY <1>4, <1>7, <2>2
        <3>2. level + m * rate + sum[T] >= 0
            BY <2>1, <3>1 DEF Debt
        <3> QED BY <2>1, <3>2
    <2>3. CASE p \in Later(P, timer, q)
        <3>1. timer[p] > timer[q]
            BY <2>3 DEF Later
        <3>2. Later(P, timer, p) \subseteq Later(P, timer, q) \ {p}
            BY <3>1, <1>3 DEF Later
        <3>3. Later(P, timer, p) \subseteq T
            BY <3>2, <1>4, <1>7
        <3>4. level + (IF timer[p] > 0 THEN timer[p] ELSE 0) * rate + sum[T] >= 0
            BY <2>1, <3>3 DEF Debt
        <3>5. (IF timer[p] > 0 THEN timer[p] ELSE 0) = 0
            BY <1>3
        <3>6. level + sum[T] >= 0 /\ sum[T] \in Nat
            BY <3>4, <3>5, <1>2, <1>3, <2>1
        <3> HIDE DEF m
        <3>7. m * rate \in Nat
            BY <2>1, <1>3
        <3>8. level + m * rate + sum[T] >= 0
            BY <3>6, <3>7, <1>3
        <3> QED BY <2>1, <3>8
    <2> QED BY <2>2, <2>3
<1>8. level + sum[U] >= 0
    <2>1. Later(P, timer, p) \subseteq U /\ U \in SUBSET P
        BY <1>3 DEF Later
    <2>2. level + (IF timer[p] > 0 THEN timer[p] ELSE 0) * rate + sum[U] >= 0
        <3> HIDE DEF U
        <3> QED BY <2>1 DEF Debt
    <2>3. (IF timer[p] > 0 THEN timer[p] ELSE 0) = 0
        BY <1>3
    <2>4. sum[U] \in Nat
        BY <1>2
    <2> HIDE DEF U
    <2> QED BY <2>2, <2>3, <2>4, <1>3
<1>9. credit - f[p] >= level + sum[U] - over
    <2>1. U \cup {p} = P /\ p \notin U /\ U \in SUBSET P
        OBVIOUS
    <2>2. sum[P] = sum[U] + f[p] /\ sum[U] \in Nat
        BY <1>1, <2>1
    <2>3. credit >= level + sum[P] - over
        BY DEF Debt
    <2> HIDE DEF U
    <2> QED BY <2>2, <2>3, <1>3
<1> QED BY <1>5, <1>6, <1>7, <1>8, <1>9 DEF Debt

(* One tick passes: the debts are paid at the rate.                         *)
LEMMA DebtTicks ==
    ASSUME NEW P, NEW S, NEW timer, NEW level, NEW credit, NEW sum, NEW f, NEW rate, NEW over,
           DebtTypes(P, S, timer, level, credit, sum, f, rate, over),
           Debt(P, timer, level, credit, sum, rate, over),
           NEW timer2, \A p \in P : timer2[p] = timer[p] - 1,
           NEW cap \in Nat, NEW late \in Nat, \A p \in P : timer[p] > -late,
           level <= cap, credit <= cap,
           \A p \in P : f[p] - cap + rate * late + rate - 1 <= over,
           NEW level2, level2 = IF cap < level + rate THEN cap ELSE level + rate,
           NEW credit2, credit2 = IF cap < credit + rate THEN cap ELSE credit + rate
    PROVE  Debt(P, timer2, level2, credit2, sum, rate, over)
<1>1. \A T \in SUBSET P : sum[T] \in Nat
    BY DEF DebtTypes, Adds
<1>2. /\ level \in Int /\ credit \in Int /\ rate \in Nat \ {0} /\ over \in Nat
      /\ \A q \in P : timer[q] \in Int /\ f[q] \in Nat
    BY DEF DebtTypes
<1>3. level2 \in Int /\ level2 <= level + rate /\ level2 <= cap /\ level2 >= level
    BY <1>2
<1>4. \A p \in P : timer2[p] * rate = timer[p] * rate - rate /\ timer[p] * rate \in Int
    <2> TAKE p \in P
    <2>1. timer[p] \in Int /\ timer2[p] = timer[p] - 1
        BY <1>2
    <2> QED BY <2>1, <1>2, Times
<1>5. \A p \in P : Later(P, timer2, p) = Later(P, timer, p)
    BY <1>2 DEF Later
<1>6. ASSUME NEW p \in P, NEW q \in P, timer2[p] = timer2[q] PROVE p = q
    <2>1. timer2[p] = timer[p] - 1 /\ timer2[q] = timer[q] - 1 /\ timer[p] \in Int /\ timer[q] \in Int
        BY <1>2
    <2>2. timer[p] = timer[q]
        <3>1. timer[p] - 1 = timer[q] - 1
            BY <1>6, <2>1
        <3> QED BY <2>1, <3>1, SMT
    <2> QED BY <2>2 DEF Debt
<1>7. ASSUME NEW p \in P PROVE level2 + timer2[p] * rate + sum[Later(P, timer2, p)] <= rate - 1
    <2>1. level + timer[p] * rate + sum[Later(P, timer, p)] <= rate - 1
        BY DEF Debt
    <2>2. sum[Later(P, timer, p)] \in Nat
        BY <1>1 DEF Later
    <2>3. timer2[p] * rate = timer[p] * rate - rate /\ timer[p] * rate \in Int
        BY <1>4
    <2>4. sum[Later(P, timer2, p)] = sum[Later(P, timer, p)]
        BY <1>5
    <2> QED BY <2>1, <2>2, <2>3, <2>4, <1>2, <1>3
<1>8. ASSUME NEW p \in P, NEW T \in SUBSET P, Later(P, timer2, p) \subseteq T
      PROVE  level2 + (IF timer2[p] > 0 THEN timer2[p] ELSE 0) * rate + sum[T] >= 0
    <2> DEFINE m == IF timer[p] > 0 THEN timer[p] ELSE 0
               n == IF timer2[p] > 0 THEN timer2[p] ELSE 0
    <2>1. level + m * rate + sum[T] >= 0 /\ sum[T] \in Nat
        BY <1>1, <1>5, <1>8 DEF Debt
    <2>2. m \in Nat /\ n \in Nat /\ (n = m \/ n = m - 1)
        <3>1. timer2[p] = timer[p] - 1 /\ timer[p] \in Int
            BY <1>2
        <3> QED BY <3>1
    <2>3. n \in Nat /\ n * rate \in Nat
        BY <2>2, <1>2
    <2>4. CASE n = m
        <3> HIDE DEF m, n
        <3>1. level2 + n * rate + sum[T] >= 0
            BY <2>1, <2>2, <2>3, <2>4, <1>2, <1>3
        <3> QED BY <3>1 DEF n
    <2>5. CASE n = m - 1 /\ level2 = level + rate
        <3> HIDE DEF m, n
        <3>1. n * rate = m * rate - rate /\ m * rate \in Int
            BY <2>2, <2>5, <1>2, Times
        <3>2. level2 + n * rate + sum[T] >= 0
            BY <2>1, <2>5, <3>1, <1>2, <2>3
        <3> QED BY <3>2 DEF n
    <2>6. CASE level2 = cap
        <3> HIDE DEF n
        <3>1. level2 + n * rate + sum[T] >= 0
            BY <2>1, <2>3, <2>6
        <3> QED BY <3>1 DEF n
    <2> QED BY <2>2, <2>4, <2>5, <2>6, <1>2
<1>9. level2 + sum[P] >= 0
    <2>1. level + sum[P] >= 0 /\ sum[P] \in Nat
        BY <1>1 DEF Debt
    <2> QED BY <2>1, <1>2, <1>3
<1>10. credit2 >= level2 + sum[P] - over
    <2>1. credit >= level + sum[P] - over /\ sum[P] \in Nat
        BY <1>1 DEF Debt
    <2>2. CASE credit2 = credit + rate
        BY <2>1, <2>2, <1>2, <1>3
    <2>3. CASE credit2 = cap /\ P = {}
        <3>1. sum[P] = 0
            BY <2>3 DEF DebtTypes, Adds
        <3> QED BY <2>3, <3>1, <1>2, <1>3
    <2>4. CASE credit2 = cap /\ P # {}
        <3> DEFINE due == {n \in Nat : \E p \in P : n = timer[p] + late}
        <3>1. due \in SUBSET Nat /\ due # {}
            <4>1. PICK p \in P : TRUE
                BY <2>4
            <4>2. timer[p] \in Int /\ timer[p] > -late
                BY <1>2
            <4>3. timer[p] + late \in Nat
                BY <4>2
            <4> QED BY <4>3
        <3>2. PICK n \in due : \A m \in due : n <= m
            BY <3>1, LeastNumber
        <3>3. PICK p \in P : n = timer[p] + late
            BY <3>2
        <3>4. ASSUME NEW q \in P, q # p PROVE timer[q] > timer[p]
            <4>1. timer[q] + late \in due
                BY <1>2
            <4>2. n <= timer[q] + late
                BY <4>1, <3>2
            <4>3. timer[q] # timer[p]
                BY <3>4 DEF Debt
            <4> QED BY <3>3, <4>2, <4>3, <1>2
        <3>5. Later(P, timer, p) = P \ {p}
            BY <3>4, <1>2 DEF Later
        <3>6. sum[P] = sum[P \ {p}] + f[p] /\ sum[P \ {p}] \in Nat
            <4>1. (P \ {p}) \cup {p} = P /\ P \ {p} \in SUBSET S /\ p \in S /\ p \notin P \ {p}
                BY DEF DebtTypes
            <4>2. sum[(P \ {p}) \cup {p}] = sum[P \ {p}] + f[p] /\ sum[P \ {p}] \in Nat
                BY <4>1 DEF DebtTypes, Adds
            <4> QED BY <4>1, <4>2
        <3>7. level2 + timer2[p] * rate + sum[P \ {p}] <= rate - 1
            BY <1>5, <1>7, <3>5
        <3>8. timer2[p] \in Int /\ timer2[p] >= -late /\ (-late) * rate = -(rate * late) /\ -late \in Int
              /\ rate * late \in Int
            BY <1>2
        <3>9. timer2[p] * rate >= (-late) * rate /\ timer2[p] * rate \in Int
            BY <3>8, <1>2, Times
        <3>10. f[p] - cap + rate * late + rate - 1 <= over /\ f[p] \in Nat
            BY <1>2
        <3> QED BY <2>4, <3>6, <3>7, <3>8, <3>9, <3>10, <1>2, <1>3
    <2> QED BY <2>2, <2>3, <2>4, <1>2
<1> QED BY <1>6, <1>7, <1>8, <1>9, <1>10 DEF Debt
-----------------------------------------------------------------------------
(* The limiter in any configuration                                         *)
l_Ids(c) == 1 .. Len(c.layers)
l_Cap(c, k) == c.rate[k] * c.second
l_Level(c, w, k) == LimiterOf(c)!Refilled(w, k)

l_Types(c) ==
    /\ l_tokens \in [c.workers -> [l_Ids(c) -> Int]]
    /\ l_since \in [c.workers -> [l_Ids(c) -> Nat]]
    /\ l_credit \in [c.workers -> [l_Ids(c) -> Int]]
    /\ l_cost \in [c.requests -> [l_Ids(c) -> Nat \ {0}]]
    /\ l_pc \in [c.requests -> {"new", "ask", "paid", "queue", "call", "done"}]
    /\ l_stage \in [c.requests -> 1 .. Len(c.layers) + 1]
    /\ l_timer \in [c.requests -> Int]
    /\ l_result \in [c.requests -> {"none", "score", "timeout", "error"}]
    /\ l_free \in [c.workers -> Nat] /\ l_threads \in [c.workers -> Nat]

(* What a sleeper has paid for is more than its bucket can hold.            *)
l_Bounds(c) ==
    /\ \A r \in c.requests :
          /\ l_timer[r] >= -c.late
          /\ l_pc[r] = "paid" => l_stage[r] \in l_Ids(c) /\ l_cost[r][l_stage[r]] > l_Cap(c, l_stage[r])
    /\ \A w \in c.workers, k \in l_Ids(c) :
          /\ l_tokens[w][k] <= l_Cap(c, k) /\ l_credit[w][k] <= l_Cap(c, k)
          /\ l_tokens[w][k] < 0 => \E r \in c.requests : l_cost[r][k] > l_Cap(c, k)

l_Slots(c) ==
    \A w \in c.workers : l_free[w] + Cardinality(LimiterOf(c)!InCall(w)) = c.slots

l_Paid(c, w, k) == {r \in c.requests : c.home[r] = w /\ l_pc[r] = "paid" /\ l_stage[r] = k}
l_Costs(c, k)   == [r \in c.requests |-> l_cost[r][k]]
l_DebtOf(c, w, k) ==
    \A sum : Adds(sum, c.requests, l_Costs(c, k)) =>
        Debt(l_Paid(c, w, k), l_timer, l_Level(c, w, k), l_credit[w][k], sum, c.rate[k],
             LimiterOf(c)!Overdraft(k))

l_Inv(c) ==
    /\ l_Types(c) /\ l_Bounds(c) /\ l_Slots(c)
    /\ \A w \in c.workers, k \in l_Ids(c) : l_DebtOf(c, w, k)

LEMMA l_Constants ==
    ASSUME NEW c, LimiterAssumption(c)
    PROVE  /\ IsFiniteSet(c.workers) /\ IsFiniteSet(c.requests)
           /\ c.home \in [c.requests -> c.workers] /\ Len(c.layers) \in Nat
           /\ c.rate \in [l_Ids(c) -> Nat \ {0}] /\ c.second \in Nat \ {0}
           /\ c.timeout \in Nat \ {0} /\ c.late \in Nat /\ c.slots \in Nat \ {0}
           /\ c.costs \in [l_Ids(c) -> SUBSET (Nat \ {0})]
<1>1. IsFiniteSet(c.workers) /\ IsFiniteSet(c.requests)
    BY DEF LimiterAssumption, LimiterOf!SetsAssumption, LimiterOf!IsFiniteSet, IsFiniteSet
<1>2. c.home \in [c.requests -> c.workers]
    BY Zenon DEF LimiterAssumption, LimiterOf!HomeAssumption
<1>3. Len(c.layers) \in Nat /\ c.rate \in [l_Ids(c) -> Nat \ {0}]
    BY Zenon DEF LimiterAssumption, LimiterOf!RateAssumption, l_Ids
<1>4. c.second \in Nat \ {0} /\ c.timeout \in Nat \ {0} /\ c.late \in Nat
    BY Zenon DEF LimiterAssumption, LimiterOf!TimeAssumption
<1>5. c.costs \in [l_Ids(c) -> SUBSET (Nat \ {0})]
    BY Zenon DEF LimiterAssumption, LimiterOf!CostAssumption, l_Ids
<1>6. c.slots \in Nat \ {0}
    BY Zenon DEF LimiterAssumption, LimiterOf!SlotsAssumption
<1> QED BY <1>1, <1>2, <1>3, <1>4, <1>5, <1>6

LEMMA l_Capacity ==
    ASSUME NEW c, LimiterAssumption(c), NEW k \in l_Ids(c)
    PROVE  /\ LimiterOf(c)!Capacity(k) = l_Cap(c, k) /\ l_Cap(c, k) \in Nat
           /\ c.rate[k] \in Nat \ {0} /\ c.rate[k] <= l_Cap(c, k)
<1>1. c.rate[k] \in Nat \ {0} /\ c.second \in Nat \ {0}
    BY l_Constants
<1>2. \A a, b \in Nat \ {0} : a * b \in Nat /\ a <= a * b
    OBVIOUS
<1>3. LimiterOf(c)!Capacity(k) = c.rate[k] * c.second
    BY DEF LimiterOf!Capacity
<1> QED BY <1>1, <1>2, <1>3 DEF l_Cap

LEMMA l_LevelIs ==
    ASSUME NEW c, LimiterAssumption(c), l_Types(c), l_Bounds(c), NEW w \in c.workers, NEW k \in l_Ids(c)
    PROVE  /\ l_Level(c, w, k) \in Int /\ l_Level(c, w, k) <= l_Cap(c, k)
           /\ l_Level(c, w, k) = IF l_Cap(c, k) < l_tokens[w][k] + l_since[w][k] * c.rate[k]
                                 THEN l_Cap(c, k) ELSE l_tokens[w][k] + l_since[w][k] * c.rate[k]
           /\ l_tokens[w][k] + l_since[w][k] * c.rate[k] \in Int /\ l_tokens[w][k] <= l_Level(c, w, k)
<1>1. l_Level(c, w, k) = IF l_Cap(c, k) < l_tokens[w][k] + l_since[w][k] * c.rate[k]
                         THEN l_Cap(c, k) ELSE l_tokens[w][k] + l_since[w][k] * c.rate[k]
    <2>1. LimiterOf(c)!Capacity(k) = l_Cap(c, k)
        BY l_Capacity
    <2> QED BY <2>1, Zenon DEF l_Level, LimiterOf!Refilled, LimiterOf!SmallerOf
<1>2. l_tokens[w][k] \in Int /\ l_since[w][k] \in Nat /\ c.rate[k] \in Nat \ {0} /\ l_Cap(c, k) \in Nat
      /\ l_tokens[w][k] <= l_Cap(c, k)
    BY l_Capacity DEF l_Types, l_Bounds
<1>3. \A a \in Nat, b \in Nat : a * b \in Nat
    OBVIOUS
<1>4. l_since[w][k] * c.rate[k] \in Nat
    BY <1>2, <1>3
<1> QED BY <1>1, <1>2, <1>4

LEMMA l_OverdraftCovers ==
    ASSUME NEW c, LimiterAssumption(c), l_Types(c), NEW k \in l_Ids(c)
    PROVE  /\ LimiterOf(c)!Overdraft(k) \in Nat
           /\ \A r \in c.requests : l_cost[r][k] > l_Cap(c, k) =>
                 l_cost[r][k] - l_Cap(c, k) + c.rate[k] * c.late + c.rate[k] - 1 <= LimiterOf(c)!Overdraft(k)
<1> DEFINE large == {r \in c.requests : l_cost[r][k] > l_Cap(c, k)}
           f == [r \in c.requests |-> l_cost[r][k] - l_Cap(c, k)]
           e == CHOOSE x \in {l_cost[r][k] - l_Cap(c, k) : r \in large} :
                    \A r \in large : l_cost[r][k] - l_Cap(c, k) <= x
           base == c.rate[k] * c.late + c.rate[k] - 1
<1>1. LimiterOf(c)!Overdraft(k) = IF large = {} THEN 0 ELSE base + e
    BY Zenon DEF LimiterOf!Overdraft, LimiterOf!Capacity, l_Cap
<1>2. /\ l_Cap(c, k) \in Nat /\ \A r \in c.requests : l_cost[r][k] \in Nat
      /\ c.rate[k] \in Nat \ {0} /\ c.late \in Nat
    BY l_Capacity, l_Constants DEF l_Types
<1>3. base \in Nat
    <2>1. \A a \in Nat \ {0}, b \in Nat : a * b + a - 1 \in Nat
        OBVIOUS
    <2> QED BY <1>2, <2>1
<1>4. CASE large = {}
    <2> QED BY <1>1, <1>4
<1>5. CASE large # {}
    <2>1. IsFiniteSet(large) /\ \A r \in large : f[r] \in Int
        <3>1. IsFiniteSet(c.requests) /\ large \subseteq c.requests
            BY l_Constants
        <3> QED BY <3>1, <1>2, FS_Subset
    <2>2. PICK r \in large : \A q \in large : f[q] <= f[r]
        <3> HIDE DEF large, f
        <3> QED BY <1>5, <2>1, GreatestExists
    <2>3. \E x \in {l_cost[q][k] - l_Cap(c, k) : q \in large} :
             \A q \in large : l_cost[q][k] - l_Cap(c, k) <= x
        BY <2>2
    <2>4. /\ e \in {l_cost[q][k] - l_Cap(c, k) : q \in large}
          /\ \A q \in large : l_cost[q][k] - l_Cap(c, k) <= e
        BY <2>3
    <2>5. e \in Nat
        BY <1>2, <2>4
    <2> HIDE DEF e, base
    <2>6. LimiterOf(c)!Overdraft(k) = base + e
        BY <1>1, <1>5
    <2>7. ASSUME NEW q \in c.requests, l_cost[q][k] > l_Cap(c, k)
          PROVE  l_cost[q][k] - l_Cap(c, k) + base <= LimiterOf(c)!Overdraft(k)
        <3>1. l_cost[q][k] - l_Cap(c, k) <= e /\ l_cost[q][k] \in Nat
            BY <2>4, <2>7, <1>2
        <3> QED BY <3>1, <2>5, <2>6, <1>2, <1>3
    <2>8. ASSUME NEW q \in c.requests, l_cost[q][k] > l_Cap(c, k)
          PROVE  l_cost[q][k] - l_Cap(c, k) + c.rate[k] * c.late + c.rate[k] - 1 <= LimiterOf(c)!Overdraft(k)
        <3>1. l_cost[q][k] \in Nat /\ c.rate[k] * c.late \in Nat
            <4>1. \A a \in Nat \ {0}, b \in Nat : a * b \in Nat
                OBVIOUS
            <4> QED BY <1>2, <4>1
        <3>2. l_cost[q][k] - l_Cap(c, k) + base <= LimiterOf(c)!Overdraft(k)
            BY <2>7, <2>8
        <3> QED BY <3>1, <3>2, <1>2, <2>5, <2>6 DEF base
    <2> QED BY <1>3, <2>5, <2>6, <2>8
<1> QED BY <1>4, <1>5

LEMMA l_DebtFacts ==
    ASSUME NEW c, LimiterAssumption(c), l_Types(c), l_Bounds(c), NEW w \in c.workers, NEW k \in l_Ids(c),
           NEW sum, Adds(sum, c.requests, l_Costs(c, k))
    PROVE  DebtTypes(l_Paid(c, w, k), c.requests, l_timer, l_Level(c, w, k), l_credit[w][k], sum,
                     l_Costs(c, k), c.rate[k], LimiterOf(c)!Overdraft(k))
<1>1. IsFiniteSet(c.requests) /\ l_Paid(c, w, k) \in SUBSET c.requests
    BY l_Constants DEF l_Paid
<1>2. l_Costs(c, k) \in [c.requests -> Nat]
    BY DEF l_Costs, l_Types
<1>3. \A p \in l_Paid(c, w, k) : l_timer[p] \in Int
    BY DEF l_Paid, l_Types
<1>4. l_Level(c, w, k) \in Int /\ l_credit[w][k] \in Int /\ c.rate[k] \in Nat \ {0}
    <2>1. l_Level(c, w, k) \in Int
        BY l_LevelIs
    <2>2. c.rate[k] \in Nat \ {0}
        BY l_Capacity
    <2> QED BY <2>1, <2>2 DEF l_Types
<1>5. LimiterOf(c)!Overdraft(k) \in Nat
    BY l_OverdraftCovers
<1> QED BY <1>1, <1>2, <1>3, <1>4, <1>5 DEF DebtTypes

l_TicksFor(n, rate) == (n + rate - 1) \div rate

l_Takes(q, f, rate, level, low, timer) ==
    f[q] >= rate /\ low = level - f[q] /\ low < 0 /\ timer[q] = l_TicksFor(-low, rate)

LEMMA l_DebtTaken ==
    ASSUME NEW P, NEW S, NEW timer, NEW level, NEW credit, NEW sum, NEW f, NEW rate, NEW over,
           DebtTypes(P, S, timer, level, credit, sum, f, rate, over),
           Debt(P, timer, level, credit, sum, rate, over),
           NEW q \in S, q \notin P, NEW timer2, \A p \in P : timer2[p] = timer[p],
           NEW low, l_Takes(q, f, rate, level, low, timer2)
    PROVE  Debt(P \cup {q}, timer2, low, credit, sum, rate, over)
<1>1. f[q] >= rate /\ level - f[q] < 0 /\ timer2[q] = (-(level - f[q]) + rate - 1) \div rate
    BY DEF l_TicksFor, l_Takes
<1>2. low = level - f[q]
    BY DEF l_Takes
<1>3. Debt(P \cup {q}, timer2, level - f[q], credit, sum, rate, over)
    BY <1>1, DebtGrows
<1> QED BY <1>2, <1>3

l_Pays(p, f, timer, credit, rest) == timer[p] <= 0 /\ rest = credit - f[p]

LEMMA l_DebtPaid ==
    ASSUME NEW P, NEW S, NEW timer, NEW level, NEW credit, NEW sum, NEW f, NEW rate, NEW over,
           DebtTypes(P, S, timer, level, credit, sum, f, rate, over),
           Debt(P, timer, level, credit, sum, rate, over), NEW p \in P,
           NEW timer2, \A q \in P \ {p} : timer2[q] = timer[q], NEW rest, l_Pays(p, f, timer, credit, rest)
    PROVE  Debt(P \ {p}, timer2, level, rest, sum, rate, over)
<1>1. timer[p] <= 0
    BY DEF l_Pays
<1>2. rest = credit - f[p]
    BY DEF l_Pays
<1>3. Debt(P \ {p}, timer2, level, credit - f[p], sum, rate, over)
    BY <1>1, DebtIsPaid
<1> QED BY <1>2, <1>3
-----------------------------------------------------------------------------
(* What a step leaves alone, or does to one bucket                          *)
l_Full(level, time, c, k) ==
    IF l_Cap(c, k) < level + time * c.rate[k] THEN l_Cap(c, k) ELSE level + time * c.rate[k]

LEMMA l_Levels ==
    ASSUME NEW c, LimiterAssumption(c), NEW w \in c.workers, NEW k \in l_Ids(c)
    PROVE  /\ l_Level(c, w, k) = l_Full(l_tokens[w][k], l_since[w][k], c, k)
           /\ l_Level(c, w, k)' = l_Full(l_tokens'[w][k], l_since'[w][k], c, k)
<1>1. LimiterOf(c)!Capacity(k) = l_Cap(c, k)
    BY l_Capacity
<1> QED BY <1>1, Zenon DEF l_Level, l_Full, LimiterOf!Refilled, LimiterOf!SmallerOf, LimiterOf!Capacity, l_Cap

l_OverOf(cost, c, k) ==
    LET large == {r \in c.requests : cost[r][k] > c.rate[k] * c.second} IN
    IF large = {} THEN 0
    ELSE c.rate[k] * c.late + c.rate[k] - 1
         + CHOOSE e \in {cost[r][k] - c.rate[k] * c.second : r \in large} :
             \A r \in large : cost[r][k] - c.rate[k] * c.second <= e

LEMMA l_OverStays ==
    ASSUME NEW c, NEW k, l_cost' = l_cost
    PROVE  LimiterOf(c)!Overdraft(k)' = LimiterOf(c)!Overdraft(k)
<1>1. LimiterOf(c)!Overdraft(k) = l_OverOf(l_cost, c, k)
    BY Zenon DEF LimiterOf!Overdraft, LimiterOf!Capacity, l_OverOf
<1>2. LimiterOf(c)!Overdraft(k)' = l_OverOf(l_cost', c, k)
    BY Zenon DEF LimiterOf!Overdraft, LimiterOf!Capacity, l_OverOf
<1> HIDE DEF l_OverOf
<1> QED BY <1>1, <1>2

(* The debt of a bucket after a step, from the values after the step.       *)
LEMMA l_DebtNext ==
    ASSUME NEW c, l_cost' = l_cost, NEW w, NEW k,
           \A sum : Adds(sum, c.requests, l_Costs(c, k)) =>
              Debt(l_Paid(c, w, k)', l_timer', l_Level(c, w, k)', l_credit'[w][k], sum, c.rate[k],
                   LimiterOf(c)!Overdraft(k))
    PROVE  l_DebtOf(c, w, k)'
<1>1. l_Costs(c, k)' = l_Costs(c, k)
    BY DEF l_Costs
<1>2. LimiterOf(c)!Overdraft(k)' = LimiterOf(c)!Overdraft(k)
    BY l_OverStays
<1> QED BY <1>1, <1>2, Zenon DEF l_DebtOf

(* A bucket whose level and credit stay, and whose debtors go on sleeping.  *)
LEMMA l_DebtUnmoved ==
    ASSUME NEW c, LimiterAssumption(c), l_cost' = l_cost, NEW w \in c.workers, NEW k \in l_Ids(c),
           l_DebtOf(c, w, k), l_Paid(c, w, k)' = l_Paid(c, w, k),
           \A p \in l_Paid(c, w, k) : l_timer'[p] = l_timer[p],
           l_Level(c, w, k)' = l_Level(c, w, k), l_credit'[w][k] = l_credit[w][k]
    PROVE  l_DebtOf(c, w, k)'
<1>1. ASSUME NEW sum, Adds(sum, c.requests, l_Costs(c, k))
      PROVE  Debt(l_Paid(c, w, k)', l_timer', l_Level(c, w, k)', l_credit'[w][k], sum, c.rate[k],
                  LimiterOf(c)!Overdraft(k))
    <2>1. Debt(l_Paid(c, w, k), l_timer, l_Level(c, w, k), l_credit[w][k], sum, c.rate[k],
               LimiterOf(c)!Overdraft(k))
        BY <1>1 DEF l_DebtOf
    <2>2. Debt(l_Paid(c, w, k), l_timer', l_Level(c, w, k), l_credit[w][k], sum, c.rate[k],
               LimiterOf(c)!Overdraft(k))
        BY <2>1, DebtStays
    <2> QED BY <2>2
<1> QED BY <1>1, l_DebtNext

(* Only the request r goes on.                                              *)
l_Alone(c, r) ==
    /\ l_cost' = l_cost
    /\ \A q \in c.requests \ {r} :
          l_pc'[q] = l_pc[q] /\ l_stage'[q] = l_stage[q] /\ l_timer'[q] = l_timer[q]

LEMMA l_OtherDebtors ==
    ASSUME NEW c, NEW r \in c.requests, l_Alone(c, r), NEW w, NEW k,
           r \notin l_Paid(c, w, k), r \notin l_Paid(c, w, k)'
    PROVE  l_Paid(c, w, k)' = l_Paid(c, w, k) /\ \A p \in l_Paid(c, w, k) : l_timer'[p] = l_timer[p]
BY DEF l_Alone, l_Paid

LEMMA l_OtherBucket ==
    ASSUME NEW c, LimiterAssumption(c), NEW r \in c.requests, l_Alone(c, r),
           NEW w \in c.workers, NEW k \in l_Ids(c),
           r \notin l_Paid(c, w, k), r \notin l_Paid(c, w, k)', l_DebtOf(c, w, k),
           l_tokens'[w][k] = l_tokens[w][k], l_since'[w][k] = l_since[w][k],
           l_credit'[w][k] = l_credit[w][k]
    PROVE  l_DebtOf(c, w, k)'
<1>1. l_Level(c, w, k)' = l_Level(c, w, k)
    BY l_Levels
<1>2. l_Paid(c, w, k)' = l_Paid(c, w, k) /\ \A p \in l_Paid(c, w, k) : l_timer'[p] = l_timer[p]
    BY l_OtherDebtors
<1> QED BY <1>1, <1>2, l_DebtUnmoved DEF l_Alone

(* The number of calls under way.                                           *)
LEMMA l_CallsAreFinite ==
    ASSUME NEW c, LimiterAssumption(c), NEW w
    PROVE  IsFiniteSet(LimiterOf(c)!InCall(w)) /\ Cardinality(LimiterOf(c)!InCall(w)) \in Nat
<1>1. LimiterOf(c)!InCall(w) \subseteq c.requests /\ IsFiniteSet(c.requests)
    BY l_Constants DEF LimiterOf!InCall
<1>2. IsFiniteSet(LimiterOf(c)!InCall(w))
    BY <1>1, FS_Subset
<1> QED BY <1>2, FS_CardinalityType

LEMMA l_SlotsStay ==
    ASSUME NEW c, l_Slots(c), l_free' = l_free,
           \A q \in c.requests : (l_pc'[q] = "call") <=> (l_pc[q] = "call")
    PROVE  l_Slots(c)'
<1>1. \A w \in c.workers : LimiterOf(c)!InCall(w)' = LimiterOf(c)!InCall(w)
    BY DEF LimiterOf!InCall
<1> QED BY <1>1 DEF l_Slots
-----------------------------------------------------------------------------
(* What acquire does: n is left in the bucket, x is let through.            *)
l_Asks(c, r, n, x, state, stage, timer) ==
    /\ l_tokens' = [l_tokens EXCEPT ![c.home[r]][l_stage[r]] = n]
    /\ l_since' = [l_since EXCEPT ![c.home[r]][l_stage[r]] = 0]
    /\ l_credit' = [l_credit EXCEPT ![c.home[r]][l_stage[r]] = l_credit[c.home[r]][l_stage[r]] - x]
    /\ l_pc' = [l_pc EXCEPT ![r] = state]
    /\ l_stage' = [l_stage EXCEPT ![r] = stage]
    /\ l_timer' = [l_timer EXCEPT ![r] = timer]
    /\ l_cost' = l_cost /\ l_free' = l_free /\ l_threads' = l_threads /\ l_result' = l_result

LEMMA l_AcquireCases ==
    ASSUME NEW c, LimiterAssumption(c), l_Types(c), l_Bounds(c), NEW r \in c.requests,
           LimiterOf(c)!Acquire(r), NEW w, w = c.home[r], NEW k, k = l_stage[r],
           NEW left, left = l_Level(c, w, k) - l_cost[r][k]
    PROVE  /\ w \in c.workers /\ k \in l_Ids(c) /\ l_pc[r] = "ask" /\ left \in Int
           /\ \/ /\ l_cost[r][k] > l_Cap(c, k) /\ left < 0
                 /\ l_Asks(c, r, left, 0, "paid", k, l_TicksFor(-left, c.rate[k]))
              \/ /\ left >= 0
                 /\ l_Asks(c, r, left, l_cost[r][k], "ask", k + 1, 0)
              \/ /\ left < 0
                 /\ l_Asks(c, r, l_Level(c, w, k), 0, "ask", k, l_TicksFor(-left, c.rate[k]))
<1>1. k \in l_Ids(c) /\ l_pc[r] = "ask" /\ l_cost' = l_cost /\ l_free' = l_free /\ l_threads' = l_threads
      /\ l_result' = l_result
    BY DEF LimiterOf!Acquire, LimiterOf!BucketIds, LimiterOf!slots, l_Ids
<1>2. w \in c.workers
    BY l_Constants
<1>3. l_Level(c, w, k) \in Int /\ l_Level(c, w, k) <= l_Cap(c, k) /\ l_Cap(c, k) \in Nat
    BY <1>1, <1>2, l_LevelIs, l_Capacity
<1>4. l_cost[r][k] \in Nat /\ left \in Int
    BY <1>1, <1>3 DEF l_Types
<1>5. LimiterOf(c)!Capacity(k) = l_Cap(c, k)
    BY <1>1, l_Capacity
<1>6. l_credit[w][k] \in Int /\ l_credit = [l_credit EXCEPT ![w][k] = l_credit[w][k] - 0]
      /\ l_stage = [l_stage EXCEPT ![r] = k]
    <2>1. l_credit \in [c.workers -> [l_Ids(c) -> Int]] /\ l_stage \in [c.requests -> 1 .. Len(c.layers) + 1]
        BY DEF l_Types
    <2>2. l_credit[w][k] \in Int
        BY <1>1, <1>2, <2>1
    <2>3. l_credit[w][k] - 0 = l_credit[w][k]
        BY <2>2
    <2> QED BY <1>1, <1>2, <2>1, <2>2, <2>3
<1>7. CASE l_cost[r][k] > l_Cap(c, k)
    <2>1. left < 0
        BY <1>3, <1>4, <1>7
    <2>2. LimiterOf(c)!AcquireLarge(r)
        BY <1>5, <1>7, Zenon DEF LimiterOf!Acquire
    <2>3. /\ LimiterOf(c)!SetBucket(w, k, left)
          /\ LimiterOf(c)!Sleep(r, "paid", l_TicksFor(-left, c.rate[k]))
        BY <2>1, <2>2, Zenon DEF LimiterOf!AcquireLarge, LimiterOf!Ticks, l_TicksFor, l_Level
    <2>4. l_Asks(c, r, left, 0, "paid", k, l_TicksFor(-left, c.rate[k]))
        BY <2>3, <1>1, <1>6, Zenon DEF LimiterOf!SetBucket, LimiterOf!Sleep, l_Asks
    <2> QED BY <1>1, <1>2, <1>4, <1>7, <2>1, <2>4
<1>8. CASE ~(l_cost[r][k] > l_Cap(c, k))
    <2>1. LimiterOf(c)!AcquireStandard(r)
        BY <1>5, <1>8, Zenon DEF LimiterOf!Acquire
    <2>2. CASE left >= 0
        <3>1. LimiterOf(c)!SetBucket(w, k, left) /\ LimiterOf(c)!Grant(r)
            BY <2>1, <2>2, Zenon DEF LimiterOf!AcquireStandard, l_Level
        <3>2. l_Asks(c, r, left, l_cost[r][k], "ask", k + 1, 0)
            BY <3>1, <1>1, Zenon DEF LimiterOf!SetBucket, LimiterOf!Grant, l_Asks
        <3> QED BY <1>1, <1>2, <1>4, <2>2, <3>2
    <2>3. CASE ~(left >= 0)
        <3>1. /\ LimiterOf(c)!SetBucket(w, k, l_Level(c, w, k))
              /\ LimiterOf(c)!Sleep(r, "ask", l_TicksFor(-left, c.rate[k]))
            BY <2>1, <2>3, Zenon DEF LimiterOf!AcquireStandard, LimiterOf!Ticks, l_TicksFor, l_Level
        <3>2. l_Asks(c, r, l_Level(c, w, k), 0, "ask", k, l_TicksFor(-left, c.rate[k]))
            BY <3>1, <1>1, <1>6, Zenon DEF LimiterOf!SetBucket, LimiterOf!Sleep, l_Asks
        <3>3. left < 0
            BY <1>4, <2>3
        <3> QED BY <1>1, <1>2, <1>4, <3>2, <3>3
    <2> QED BY <2>2, <2>3
<1> QED BY <1>7, <1>8

(* What any of its outcomes does to the buckets.                            *)
LEMMA l_AsksMoves ==
    ASSUME NEW c, LimiterAssumption(c), l_Types(c), NEW r \in c.requests, l_pc[r] = "ask",
           NEW w \in c.workers, w = c.home[r], NEW k \in l_Ids(c), k = l_stage[r],
           NEW n \in Int, NEW x \in Nat, NEW state \in {"ask", "paid"}, NEW stage \in {k, k + 1},
           NEW timer \in Int, l_Asks(c, r, n, x, state, stage, timer)
    PROVE  /\ l_Types(c)' /\ l_Alone(c, r)
           /\ l_tokens'[w][k] = n /\ l_since'[w][k] = 0 /\ l_credit'[w][k] = l_credit[w][k] - x
           /\ \A v \in c.workers, j \in l_Ids(c) : v # w \/ j # k =>
                 /\ l_tokens'[v][j] = l_tokens[v][j] /\ l_since'[v][j] = l_since[v][j]
                 /\ l_credit'[v][j] = l_credit[v][j]
           /\ l_pc'[r] = state /\ l_stage'[r] = stage /\ l_timer'[r] = timer
           /\ l_free' = l_free
<1>1. /\ l_tokens \in [c.workers -> [l_Ids(c) -> Int]] /\ l_since \in [c.workers -> [l_Ids(c) -> Nat]]
      /\ l_credit \in [c.workers -> [l_Ids(c) -> Int]]
    BY DEF l_Types
<1>2. /\ l_pc \in [c.requests -> {"new", "ask", "paid", "queue", "call", "done"}]
      /\ l_stage \in [c.requests -> 1 .. Len(c.layers) + 1] /\ l_timer \in [c.requests -> Int]
    BY DEF l_Types
<1>3. stage \in 1 .. Len(c.layers) + 1
    <2>1. Len(c.layers) \in Nat
        BY l_Constants
    <2> QED BY <2>1 DEF l_Ids
<1>4. /\ l_tokens' = [l_tokens EXCEPT ![w][k] = n] /\ l_since' = [l_since EXCEPT ![w][k] = 0]
      /\ l_credit' = [l_credit EXCEPT ![w][k] = l_credit[w][k] - x]
      /\ l_pc' = [l_pc EXCEPT ![r] = state] /\ l_stage' = [l_stage EXCEPT ![r] = stage]
      /\ l_timer' = [l_timer EXCEPT ![r] = timer]
      /\ l_cost' = l_cost /\ l_free' = l_free /\ l_threads' = l_threads /\ l_result' = l_result
    BY DEF l_Asks
<1>5. l_credit[w][k] - x \in Int
    BY <1>1
<1>6. /\ l_tokens' \in [c.workers -> [l_Ids(c) -> Int]] /\ l_since' \in [c.workers -> [l_Ids(c) -> Nat]]
      /\ l_credit' \in [c.workers -> [l_Ids(c) -> Int]]
    BY <1>1, <1>4, <1>5
<1>7. /\ l_pc' \in [c.requests -> {"new", "ask", "paid", "queue", "call", "done"}]
      /\ l_stage' \in [c.requests -> 1 .. Len(c.layers) + 1] /\ l_timer' \in [c.requests -> Int]
    BY <1>2, <1>3, <1>4
<1>8. l_Types(c)'
    BY <1>4, <1>6, <1>7 DEF l_Types
<1>9. l_Alone(c, r) /\ l_pc'[r] = state /\ l_stage'[r] = stage /\ l_timer'[r] = timer
    BY <1>2, <1>4 DEF l_Alone
<1>10. /\ l_tokens'[w][k] = n /\ l_since'[w][k] = 0 /\ l_credit'[w][k] = l_credit[w][k] - x
    BY <1>1, <1>4
<1>11. ASSUME NEW v \in c.workers, NEW j \in l_Ids(c), v # w \/ j # k
       PROVE  /\ l_tokens'[v][j] = l_tokens[v][j] /\ l_since'[v][j] = l_since[v][j]
              /\ l_credit'[v][j] = l_credit[v][j]
    BY <1>1, <1>4, <1>11
<1> QED BY <1>4, <1>8, <1>9, <1>10, <1>11

(* A bucket that was just updated to a level it can hold has that level.    *)
LEMMA l_Updated ==
    ASSUME NEW c, LimiterAssumption(c), NEW w \in c.workers, NEW k \in l_Ids(c), NEW n \in Int, n <= l_Cap(c, k),
           l_tokens'[w][k] = n, l_since'[w][k] = 0
    PROVE  l_Level(c, w, k)' = n
<1>1. l_Level(c, w, k)' = l_Full(n, 0, c, k)
    BY l_Levels
<1>2. l_Cap(c, k) \in Nat /\ c.rate[k] \in Nat
    BY l_Capacity
<1>3. 0 * c.rate[k] = 0 /\ n + 0 = n
    BY <1>2
<1> QED BY <1>1, <1>2, <1>3 DEF l_Full
-----------------------------------------------------------------------------
(* acquire keeps the books                                                  *)
LEMMA l_AcquireBounds ==
    ASSUME NEW c, LimiterAssumption(c), l_Types(c), l_Bounds(c), NEW r \in c.requests, l_pc[r] = "ask",
           NEW w \in c.workers, w = c.home[r], NEW k \in l_Ids(c), k = l_stage[r],
           NEW n \in Int, n <= l_Cap(c, k), n < 0 => l_cost[r][k] > l_Cap(c, k),
           NEW x \in Nat, NEW state \in {"ask", "paid"}, NEW stage \in {k, k + 1},
           state = "paid" => stage = k /\ l_cost[r][k] > l_Cap(c, k),
           NEW timer \in Nat, l_Asks(c, r, n, x, state, stage, timer)
    PROVE  l_Bounds(c)'
<1>1. /\ l_Types(c)' /\ l_Alone(c, r)
      /\ l_tokens'[w][k] = n /\ l_since'[w][k] = 0 /\ l_credit'[w][k] = l_credit[w][k] - x
      /\ \A v \in c.workers, j \in l_Ids(c) : v # w \/ j # k =>
            /\ l_tokens'[v][j] = l_tokens[v][j] /\ l_since'[v][j] = l_since[v][j]
            /\ l_credit'[v][j] = l_credit[v][j]
      /\ l_pc'[r] = state /\ l_stage'[r] = stage /\ l_timer'[r] = timer
    BY l_AsksMoves
<1>2. l_cost' = l_cost
    BY <1>1 DEF l_Alone
<1>3. ASSUME NEW q \in c.requests
      PROVE  /\ l_timer'[q] >= -c.late
             /\ l_pc'[q] = "paid" => l_stage'[q] \in l_Ids(c) /\ l_cost'[q][l_stage'[q]] > l_Cap(c, l_stage'[q])
    <2>1. CASE q = r
        <3>1. c.late \in Nat
            BY l_Constants
        <3>2. timer >= -c.late
            BY <3>1
        <3> QED BY <1>1, <1>2, <2>1, <3>2
    <2>2. CASE q # r
        <3>1. l_pc'[q] = l_pc[q] /\ l_stage'[q] = l_stage[q] /\ l_timer'[q] = l_timer[q]
            BY <1>1, <2>2 DEF l_Alone
        <3> QED BY <1>2, <3>1 DEF l_Bounds
    <2> QED BY <2>1, <2>2
<1>4. ASSUME NEW v \in c.workers, NEW j \in l_Ids(c)
      PROVE  /\ l_tokens'[v][j] <= l_Cap(c, j) /\ l_credit'[v][j] <= l_Cap(c, j)
             /\ l_tokens'[v][j] < 0 => \E q \in c.requests : l_cost'[q][j] > l_Cap(c, j)
    <2>1. CASE v = w /\ j = k
        <3>1. l_credit[w][k] <= l_Cap(c, k) /\ l_credit[w][k] \in Int /\ l_Cap(c, k) \in Nat
            <4>1. l_Cap(c, k) \in Nat
                BY l_Capacity
            <4>2. l_credit[w][k] <= l_Cap(c, k)
                BY DEF l_Bounds
            <4>3. l_credit \in [c.workers -> [l_Ids(c) -> Int]]
                BY l_Types(c) DEF l_Types
            <4> QED BY <4>1, <4>2, <4>3
        <3>2. l_credit[w][k] - x <= l_Cap(c, k)
            BY <3>1
        <3> QED BY <1>1, <1>2, <2>1, <3>2
    <2>2. CASE v # w \/ j # k
        BY <1>1, <1>2, <2>2 DEF l_Bounds
    <2> QED BY <2>1, <2>2
<1> QED BY <1>3, <1>4 DEF l_Bounds, l_Cap

LEMMA l_AcquireSlots ==
    ASSUME NEW c, l_Types(c), l_Slots(c), NEW r \in c.requests, l_pc[r] = "ask", l_Alone(c, r),
           l_pc'[r] # "call", l_free' = l_free
    PROVE  l_Slots(c)'
<1>1. \A q \in c.requests : (l_pc'[q] = "call") <=> (l_pc[q] = "call")
    BY DEF l_Alone
<1> QED BY <1>1, l_SlotsStay

LEMMA l_AcquireOthers ==
    ASSUME NEW c, LimiterAssumption(c), l_Types(c), NEW r \in c.requests, l_pc[r] = "ask",
           NEW w \in c.workers, w = c.home[r], NEW k \in l_Ids(c), k = l_stage[r],
           NEW n \in Int, NEW x \in Nat, NEW state \in {"ask", "paid"}, NEW stage \in {k, k + 1},
           state = "paid" => stage = k, NEW timer \in Int, l_Asks(c, r, n, x, state, stage, timer),
           NEW v \in c.workers, NEW j \in l_Ids(c), v # w \/ j # k, l_DebtOf(c, v, j)
    PROVE  l_DebtOf(c, v, j)'
<1>1. /\ l_Alone(c, r)
      /\ l_tokens'[v][j] = l_tokens[v][j] /\ l_since'[v][j] = l_since[v][j]
      /\ l_credit'[v][j] = l_credit[v][j]
      /\ l_pc'[r] = state /\ l_stage'[r] = stage
    BY l_AsksMoves
<1>2. r \notin l_Paid(c, v, j)
    BY DEF l_Paid
<1>3. r \notin l_Paid(c, v, j)'
    BY <1>1 DEF l_Paid
<1> QED BY <1>1, <1>2, <1>3, l_OtherBucket

LEMMA l_AcquireDebts ==
    ASSUME NEW c, LimiterAssumption(c), l_Inv(c), NEW r \in c.requests,
           NEW w \in c.workers, w = c.home[r], NEW k \in l_Ids(c), k = l_stage[r], l_pc[r] = "ask",
           NEW left \in Int, left = l_Level(c, w, k) - l_cost[r][k],
           \/ /\ l_cost[r][k] > l_Cap(c, k) /\ left < 0
              /\ l_Asks(c, r, left, 0, "paid", k, l_TicksFor(-left, c.rate[k]))
           \/ /\ left >= 0
              /\ l_Asks(c, r, left, l_cost[r][k], "ask", k + 1, 0)
           \/ /\ left < 0
              /\ l_Asks(c, r, l_Level(c, w, k), 0, "ask", k, l_TicksFor(-left, c.rate[k]))
    PROVE  l_Inv(c)'
<1>1. l_Types(c) /\ l_Bounds(c) /\ l_Slots(c) /\ \A v \in c.workers, j \in l_Ids(c) : l_DebtOf(c, v, j)
    BY DEF l_Inv
<1>2. /\ l_Level(c, w, k) \in Int /\ l_Level(c, w, k) <= l_Cap(c, k) /\ l_Cap(c, k) \in Nat
      /\ c.rate[k] \in Nat \ {0} /\ c.rate[k] <= l_Cap(c, k)
    BY <1>1, l_LevelIs, l_Capacity
<1>3. l_cost[r][k] \in Nat /\ l_credit[w][k] \in Int
    BY <1>1 DEF l_Types
<1>4. left <= l_Level(c, w, k) /\ left <= l_Cap(c, k)
    BY <1>2, <1>3
<1>5. left < 0 => l_TicksFor(-left, c.rate[k]) \in Nat
    <2>1. ASSUME left < 0 PROVE l_TicksFor(-left, c.rate[k]) \in Nat
        <3>1. -left \in Nat
            BY <2>1
        <3>2. l_TicksFor(-left, c.rate[k]) = (-left + c.rate[k] - 1) \div c.rate[k]
            BY DEF l_TicksFor
        <3>3. c.rate[k] \in Nat \ {0}
            BY <1>2
        <3> HIDE DEF l_TicksFor
        <3> QED BY <3>1, <3>2, <3>3, TicksCover
    <2> QED BY <2>1
<1>6. r \notin l_Paid(c, w, k)
    BY DEF l_Paid
<1>7. CASE /\ l_cost[r][k] > l_Cap(c, k) /\ left < 0
           /\ l_Asks(c, r, left, 0, "paid", k, l_TicksFor(-left, c.rate[k]))
    <2>1. /\ l_Types(c)' /\ l_Alone(c, r) /\ l_free' = l_free
          /\ l_tokens'[w][k] = left /\ l_since'[w][k] = 0 /\ l_credit'[w][k] = l_credit[w][k] - 0
          /\ l_pc'[r] = "paid" /\ l_stage'[r] = k /\ l_timer'[r] = l_TicksFor(-left, c.rate[k])
        BY <1>1, <1>5, <1>7, l_AsksMoves
    <2>2. l_Bounds(c)'
        BY <1>1, <1>4, <1>5, <1>7, l_AcquireBounds
    <2>3. l_Slots(c)'
        BY <1>1, <2>1, l_AcquireSlots
    <2>4. \A v \in c.workers, j \in l_Ids(c) : v # w \/ j # k => l_DebtOf(c, v, j)'
        BY <1>1, <1>5, <1>7, l_AcquireOthers
    <2>5. ASSUME NEW sum, Adds(sum, c.requests, l_Costs(c, k))
          PROVE  Debt(l_Paid(c, w, k)', l_timer', l_Level(c, w, k)', l_credit'[w][k], sum, c.rate[k],
                      LimiterOf(c)!Overdraft(k))
        <3> DEFINE P == l_Paid(c, w, k)
                   f == l_Costs(c, k)
                   level == l_Level(c, w, k)
                   over == LimiterOf(c)!Overdraft(k)
        <3>1. Debt(P, l_timer, level, l_credit[w][k], sum, c.rate[k], over)
            BY <1>1, <2>5 DEF l_DebtOf
        <3>2. DebtTypes(P, c.requests, l_timer, level, l_credit[w][k], sum, f, c.rate[k], over)
            BY <1>1, <2>5, l_DebtFacts
        <3>3. f[r] = l_cost[r][k]
            BY DEF l_Costs
        <3>4. f[r] >= c.rate[k] /\ left = level - f[r]
            BY <3>3, <1>2, <1>3, <1>7
        <3>5. \A p \in P : l_timer'[p] = l_timer[p]
            BY <1>6, <2>1 DEF l_Alone, l_Paid
        <3>6. l_timer'[r] = l_TicksFor(-left, c.rate[k])
            BY <2>1
        <3>7. P' = P \cup {r}
            BY <2>1 DEF l_Alone, l_Paid
        <3>8. l_Level(c, w, k)' = left
            BY <1>4, <2>1, <3>3, l_Updated
        <3>9. l_credit'[w][k] = l_credit[w][k]
            BY <1>3, <2>1
        <3>10. r \notin P
            BY <1>6
        <3> HIDE DEF P, f, level, over
        <3>11. l_Takes(r, f, c.rate[k], level, left, l_timer')
            BY <3>4, <3>6, <1>7 DEF l_Takes
        <3>12. Debt(P \cup {r}, l_timer', left, l_credit[w][k], sum, c.rate[k], over)
            BY <3>1, <3>2, <3>5, <3>10, <3>11, l_DebtTaken
        <3> QED BY <3>7, <3>8, <3>9, <3>12 DEF P, over
    <2>6. l_DebtOf(c, w, k)'
        BY <2>1, <2>5, l_DebtNext DEF l_Alone
    <2> QED BY <2>1, <2>2, <2>3, <2>4, <2>6 DEF l_Inv, l_Ids
<1>8. CASE /\ left >= 0
           /\ l_Asks(c, r, left, l_cost[r][k], "ask", k + 1, 0)
    <2>1. /\ l_Types(c)' /\ l_Alone(c, r) /\ l_free' = l_free
          /\ l_tokens'[w][k] = left /\ l_since'[w][k] = 0 /\ l_credit'[w][k] = l_credit[w][k] - l_cost[r][k]
          /\ l_pc'[r] = "ask"
        BY <1>1, <1>3, <1>8, l_AsksMoves
    <2>2. l_Bounds(c)'
        BY <1>1, <1>3, <1>4, <1>8, l_AcquireBounds
    <2>3. l_Slots(c)'
        BY <1>1, <2>1, l_AcquireSlots
    <2>4. \A v \in c.workers, j \in l_Ids(c) : v # w \/ j # k => l_DebtOf(c, v, j)'
        BY <1>1, <1>3, <1>8, l_AcquireOthers
    <2>5. ASSUME NEW sum, Adds(sum, c.requests, l_Costs(c, k))
          PROVE  Debt(l_Paid(c, w, k)', l_timer', l_Level(c, w, k)', l_credit'[w][k], sum, c.rate[k],
                      LimiterOf(c)!Overdraft(k))
        <3> DEFINE P == l_Paid(c, w, k)
                   f == l_Costs(c, k)
                   level == l_Level(c, w, k)
                   over == LimiterOf(c)!Overdraft(k)
                   x == l_cost[r][k]
        <3>1. Debt(P, l_timer, level, l_credit[w][k], sum, c.rate[k], over)
            BY <1>1, <2>5 DEF l_DebtOf
        <3>2. DebtTypes(P, c.requests, l_timer, level, l_credit[w][k], sum, f, c.rate[k], over)
            BY <1>1, <2>5, l_DebtFacts
        <3>3. r \notin P'
            BY <2>1 DEF l_Paid
        <3>4. P' = P /\ \A p \in P : l_timer'[p] = l_timer[p]
            BY <1>6, <2>1, <3>3, l_OtherDebtors
        <3>5. l_Level(c, w, k)' = level - x /\ level - x >= 0 /\ x \in Nat
            BY <1>3, <1>4, <1>8, <2>1, l_Updated
        <3> HIDE DEF P, f, level, over, x
        <3>6. Debt(P, l_timer', level - x, l_credit[w][k] - x, sum, c.rate[k], over)
            BY <3>1, <3>2, <3>4, <3>5, DebtGrant
        <3>7. l_credit'[w][k] = l_credit[w][k] - x
            BY <2>1 DEF x
        <3> QED BY <3>4, <3>5, <3>6, <3>7 DEF P, over
    <2>6. l_DebtOf(c, w, k)'
        BY <2>1, <2>5, l_DebtNext DEF l_Alone
    <2> QED BY <2>1, <2>2, <2>3, <2>4, <2>6 DEF l_Inv, l_Ids
<1>9. CASE /\ left < 0
           /\ l_Asks(c, r, l_Level(c, w, k), 0, "ask", k, l_TicksFor(-left, c.rate[k]))
    <2>1. /\ l_Types(c)' /\ l_Alone(c, r) /\ l_free' = l_free
          /\ l_tokens'[w][k] = l_Level(c, w, k) /\ l_since'[w][k] = 0 /\ l_credit'[w][k] = l_credit[w][k] - 0
          /\ l_pc'[r] = "ask"
        BY <1>1, <1>2, <1>5, <1>9, l_AsksMoves
    <2>2. l_Level(c, w, k) < 0 => l_cost[r][k] > l_Cap(c, k) \/ l_tokens[w][k] < 0
        <3>1. l_tokens[w][k] <= l_Level(c, w, k)
            BY <1>1, l_LevelIs
        <3>2. l_tokens[w][k] \in Int
            BY <1>1 DEF l_Types
        <3> QED BY <3>1, <3>2, <1>2
    <2>3. l_Bounds(c)'
        <3>1. l_cost' = l_cost
            BY <2>1 DEF l_Alone
        <3>2. ASSUME NEW q \in c.requests
              PROVE  /\ l_timer'[q] >= -c.late
                     /\ l_pc'[q] = "paid" => l_stage'[q] \in l_Ids(c) /\ l_cost'[q][l_stage'[q]] > l_Cap(c, l_stage'[q])
            <4>1. CASE q = r
                <5>1. c.late \in Nat /\ l_timer'[r] \in Nat
                    <6>1. l_TicksFor(-left, c.rate[k]) \in Int
                        BY <1>5, <1>9
                    <6>2. l_timer'[r] = l_TicksFor(-left, c.rate[k])
                        <7> HIDE DEF l_TicksFor, l_Asks
                        <7> QED BY <1>1, <1>2, <1>9, <6>1, l_AsksMoves
                    <6>3. c.late \in Nat
                        BY l_Constants
                    <6> QED BY <6>2, <6>3, <1>5, <1>9
                <5>2. l_timer'[r] >= -c.late
                    BY <5>1
                <5> QED BY <2>1, <4>1, <5>2
            <4>2. CASE q # r
                <5>1. l_pc'[q] = l_pc[q] /\ l_stage'[q] = l_stage[q] /\ l_timer'[q] = l_timer[q]
                    BY <2>1, <4>2 DEF l_Alone
                <5> QED BY <1>1, <3>1, <5>1 DEF l_Bounds
            <4> QED BY <4>1, <4>2
        <3>3. ASSUME NEW v \in c.workers, NEW j \in l_Ids(c)
              PROVE  /\ l_tokens'[v][j] <= l_Cap(c, j) /\ l_credit'[v][j] <= l_Cap(c, j)
                     /\ l_tokens'[v][j] < 0 => \E q \in c.requests : l_cost'[q][j] > l_Cap(c, j)
            <4>1. CASE v = w /\ j = k
                <5>1. l_credit'[w][k] <= l_Cap(c, k)
                    BY <1>1, <1>3, <2>1 DEF l_Bounds
                <5>2. l_tokens[w][k] < 0 => \E q \in c.requests : l_cost[q][k] > l_Cap(c, k)
                    BY <1>1 DEF l_Bounds
                <5> QED BY <1>2, <2>1, <2>2, <3>1, <4>1, <5>1, <5>2
            <4>2. CASE v # w \/ j # k
                <5>1. /\ l_tokens'[v][j] = l_tokens[v][j] /\ l_credit'[v][j] = l_credit[v][j]
                    BY <1>1, <1>2, <1>5, <1>9, <4>2, l_AsksMoves
                <5> QED BY <1>1, <3>1, <5>1 DEF l_Bounds
            <4> QED BY <4>1, <4>2
        <3> QED BY <3>2, <3>3 DEF l_Bounds, l_Cap
    <2>4. l_Slots(c)'
        BY <1>1, <2>1, l_AcquireSlots
    <2>5. \A v \in c.workers, j \in l_Ids(c) : v # w \/ j # k => l_DebtOf(c, v, j)'
        BY <1>1, <1>2, <1>5, <1>9, l_AcquireOthers
    <2>6. l_DebtOf(c, w, k)'
        <3>1. l_Level(c, w, k)' = l_Level(c, w, k)
            BY <1>2, <2>1, l_Updated
        <3>2. r \notin l_Paid(c, w, k)'
            BY <2>1 DEF l_Paid
        <3>3. l_Paid(c, w, k)' = l_Paid(c, w, k) /\ \A p \in l_Paid(c, w, k) : l_timer'[p] = l_timer[p]
            BY <1>6, <2>1, <3>2, l_OtherDebtors
        <3>4. l_credit'[w][k] = l_credit[w][k]
            BY <1>3, <2>1
        <3>5. l_DebtOf(c, w, k) /\ l_cost' = l_cost
            BY <1>1, <2>1 DEF l_Alone
        <3> QED BY <3>1, <3>3, <3>4, <3>5, l_DebtUnmoved
    <2> QED BY <2>1, <2>3, <2>4, <2>5, <2>6 DEF l_Inv, l_Ids
<1> QED BY <1>7, <1>8, <1>9
-----------------------------------------------------------------------------
(* The other actions                                                        *)
LEMMA l_Quiet ==
    ASSUME NEW c, LimiterAssumption(c), l_Inv(c), NEW r \in c.requests, l_Alone(c, r),
           l_tokens' = l_tokens, l_since' = l_since, l_credit' = l_credit,
           l_pc[r] # "paid", l_pc'[r] # "paid", l_timer'[r] >= -c.late, l_Types(c)', l_Slots(c)'
    PROVE  l_Inv(c)'
<1>1. l_Bounds(c) /\ \A w \in c.workers, k \in l_Ids(c) : l_DebtOf(c, w, k)
    BY DEF l_Inv
<1>2. \A q \in c.requests \ {r} : l_pc'[q] = l_pc[q] /\ l_stage'[q] = l_stage[q] /\ l_timer'[q] = l_timer[q]
    BY DEF l_Alone
<1>3. l_cost' = l_cost
    BY DEF l_Alone
<1>4. l_Bounds(c)'
    <2>1. ASSUME NEW q \in c.requests
          PROVE  /\ l_timer'[q] >= -c.late
                 /\ l_pc'[q] = "paid" => l_stage'[q] \in l_Ids(c) /\ l_cost'[q][l_stage'[q]] > l_Cap(c, l_stage'[q])
        <3>1. CASE q = r
            BY <3>1
        <3>2. CASE q # r
            BY <1>1, <1>2, <1>3, <3>2 DEF l_Bounds
        <3> QED BY <3>1, <3>2
    <2>2. \A w \in c.workers, k \in l_Ids(c) :
             /\ l_tokens'[w][k] <= l_Cap(c, k) /\ l_credit'[w][k] <= l_Cap(c, k)
             /\ l_tokens'[w][k] < 0 => \E q \in c.requests : l_cost'[q][k] > l_Cap(c, k)
        BY <1>1, <1>3 DEF l_Bounds
    <2> QED BY <2>1, <2>2 DEF l_Bounds, l_Cap
<1>5. ASSUME NEW w \in c.workers, NEW k \in l_Ids(c) PROVE l_DebtOf(c, w, k)'
    <2>1. r \notin l_Paid(c, w, k) /\ r \notin l_Paid(c, w, k)'
        BY DEF l_Paid
    <2> QED BY <1>1, <2>1, l_OtherBucket
<1> QED BY <1>4, <1>5 DEF l_Inv, l_Ids

(* Changes of a request's state, timer and result that keep their types.    *)
LEMMA l_TypesOfOne ==
    ASSUME NEW c, l_Types(c), NEW r \in c.requests,
           l_tokens' = l_tokens, l_since' = l_since, l_credit' = l_credit, l_cost' = l_cost, l_stage' = l_stage,
           NEW state \in {"ask", "queue", "call", "done"}, l_pc' = [l_pc EXCEPT ![r] = state],
           NEW timer \in Int, l_timer' = [l_timer EXCEPT ![r] = timer] \/ l_timer' = l_timer,
           NEW value \in {"score", "timeout", "error"},
           l_result' = [l_result EXCEPT ![r] = value] \/ l_result' = l_result,
           l_free' \in [c.workers -> Nat], l_threads' \in [c.workers -> Nat]
    PROVE  l_Types(c)' /\ l_Alone(c, r) /\ l_pc'[r] = state
<1>1. /\ l_pc \in [c.requests -> {"new", "ask", "paid", "queue", "call", "done"}]
      /\ l_timer \in [c.requests -> Int]
      /\ l_result \in [c.requests -> {"none", "score", "timeout", "error"}]
    BY DEF l_Types
<1>2. /\ l_pc' \in [c.requests -> {"new", "ask", "paid", "queue", "call", "done"}]
      /\ l_timer' \in [c.requests -> Int]
      /\ l_result' \in [c.requests -> {"none", "score", "timeout", "error"}]
    BY <1>1
<1>3. l_Types(c)'
    BY <1>2 DEF l_Types
<1>4. l_Alone(c, r) /\ l_pc'[r] = state
    BY <1>1 DEF l_Alone
<1> QED BY <1>3, <1>4

LEMMA l_Starts ==
    ASSUME NEW c, LimiterAssumption(c), l_Inv(c), NEW r \in c.requests,
           LimiterOf(c)!Begin(r) \/ LimiterOf(c)!EnterQueue(r)
    PROVE  l_Inv(c)'
<1>1. /\ l_pc[r] \in {"new", "ask"} /\ l_tokens' = l_tokens /\ l_since' = l_since /\ l_credit' = l_credit
      /\ l_cost' = l_cost /\ l_stage' = l_stage /\ l_timer' = l_timer /\ l_result' = l_result
      /\ l_free' = l_free /\ l_threads' = l_threads
      /\ \E state \in {"ask", "queue"} : l_pc' = [l_pc EXCEPT ![r] = state]
    BY DEF LimiterOf!Begin, LimiterOf!EnterQueue, LimiterOf!buckets, LimiterOf!slots
<1>2. PICK state \in {"ask", "queue"} : l_pc' = [l_pc EXCEPT ![r] = state]
    BY <1>1
<1>3. l_Types(c) /\ l_Bounds(c) /\ l_Slots(c)
    BY DEF l_Inv
<1>4. l_free' \in [c.workers -> Nat] /\ l_threads' \in [c.workers -> Nat]
    BY <1>1, <1>3 DEF l_Types
<1>5. l_Types(c)' /\ l_Alone(c, r) /\ l_pc'[r] = state
    <2>1. 0 \in Int /\ "score" \in {"score", "timeout", "error"}
        OBVIOUS
    <2> QED BY <1>1, <1>2, <1>3, <1>4, <2>1, l_TypesOfOne
<1>6. l_timer'[r] >= -c.late
    BY <1>1, <1>3 DEF l_Bounds
<1>7. l_Slots(c)'
    <2>1. \A q \in c.requests : (l_pc'[q] = "call") <=> (l_pc[q] = "call")
        BY <1>1, <1>5 DEF l_Alone
    <2> QED BY <1>1, <1>3, <2>1, l_SlotsStay
<1> QED BY <1>1, <1>5, <1>6, <1>7, l_Quiet

LEMMA l_Calls ==
    ASSUME NEW c, LimiterAssumption(c), l_Inv(c), NEW r \in c.requests, LimiterOf(c)!StartCall(r)
    PROVE  l_Inv(c)'
<1> DEFINE w == c.home[r]
<1>1. /\ l_pc[r] = "queue" /\ l_tokens' = l_tokens /\ l_since' = l_since /\ l_credit' = l_credit
      /\ l_cost' = l_cost /\ l_stage' = l_stage /\ l_result' = l_result /\ l_threads' = l_threads
      /\ l_pc' = [l_pc EXCEPT ![r] = "call"] /\ l_timer' = [l_timer EXCEPT ![r] = c.timeout]
      /\ l_free[w] > 0 /\ l_free' = [l_free EXCEPT ![w] = l_free[w] - 1]
    BY DEF LimiterOf!StartCall, LimiterOf!buckets
<1>2. l_Types(c) /\ l_Bounds(c) /\ l_Slots(c)
    BY DEF l_Inv
<1>3. w \in c.workers /\ c.timeout \in Nat /\ c.late \in Nat
    BY l_Constants
<1>4. l_free \in [c.workers -> Nat] /\ l_threads \in [c.workers -> Nat] /\ l_timer \in [c.requests -> Int]
    BY <1>2 DEF l_Types
<1> HIDE DEF w
<1>5. l_free[w] - 1 \in Nat
    BY <1>1, <1>3, <1>4
<1>6. l_free' \in [c.workers -> Nat] /\ l_threads' \in [c.workers -> Nat]
    BY <1>1, <1>4, <1>5
<1>7. l_Types(c)' /\ l_Alone(c, r) /\ l_pc'[r] = "call"
    <2>1. c.timeout \in Int /\ "score" \in {"score", "timeout", "error"}
        BY <1>3
    <2> QED BY <1>1, <1>2, <1>6, <2>1, l_TypesOfOne
<1>8. l_timer'[r] >= -c.late
    BY <1>1, <1>3, <1>4
<1>9. l_Slots(c)'
    <2>1. LimiterOf(c)!InCall(w)' = LimiterOf(c)!InCall(w) \cup {r} /\ r \notin LimiterOf(c)!InCall(w)
        BY <1>1, <1>7 DEF LimiterOf!InCall, l_Alone, w
    <2>2. \A v \in c.workers \ {w} : LimiterOf(c)!InCall(v)' = LimiterOf(c)!InCall(v)
        BY <1>1, <1>7 DEF LimiterOf!InCall, l_Alone, w
    <2>3. Cardinality(LimiterOf(c)!InCall(w)') = Cardinality(LimiterOf(c)!InCall(w)) + 1
        BY <2>1, l_CallsAreFinite, FS_AddElement
    <2>4. l_free'[w] = l_free[w] - 1 /\ \A v \in c.workers \ {w} : l_free'[v] = l_free[v]
        BY <1>1, <1>3, <1>4
    <2>5. l_free[w] + Cardinality(LimiterOf(c)!InCall(w)) = c.slots
          /\ Cardinality(LimiterOf(c)!InCall(w)) \in Nat /\ l_free[w] \in Nat
        BY <1>2, <1>3, <1>4, l_CallsAreFinite DEF l_Slots
    <2>6. l_free'[w] + Cardinality(LimiterOf(c)!InCall(w)') = c.slots
        BY <2>3, <2>4, <2>5
    <2> QED BY <1>2, <2>2, <2>4, <2>6 DEF l_Slots
<1> QED BY <1>1, <1>7, <1>8, <1>9, l_Quiet

LEMMA l_Leaves ==
    ASSUME NEW c, LimiterAssumption(c), l_Inv(c), NEW r \in c.requests,
           LimiterOf(c)!CallEnds(r) \/ LimiterOf(c)!CallTimesOut(r)
    PROVE  l_Inv(c)'
<1> DEFINE w == c.home[r]
<1>1. /\ l_pc[r] = "call" /\ l_tokens' = l_tokens /\ l_since' = l_since /\ l_credit' = l_credit
      /\ l_cost' = l_cost /\ l_stage' = l_stage /\ l_timer' = l_timer
      /\ l_pc' = [l_pc EXCEPT ![r] = "done"]
      /\ l_free' = [l_free EXCEPT ![w] = l_free[w] + 1]
      /\ l_threads' = l_threads \/ l_threads' = [l_threads EXCEPT ![w] = l_threads[w] + 1]
      /\ \E value \in {"score", "timeout", "error"} : l_result' = [l_result EXCEPT ![r] = value]
    BY DEF LimiterOf!CallEnds, LimiterOf!CallTimesOut, LimiterOf!LeaveCall, LimiterOf!buckets
<1>2. l_Types(c) /\ l_Bounds(c) /\ l_Slots(c)
    BY DEF l_Inv
<1>3. w \in c.workers
    BY l_Constants
<1>4. l_free \in [c.workers -> Nat] /\ l_threads \in [c.workers -> Nat]
    BY <1>2 DEF l_Types
<1> HIDE DEF w
<1>5. l_free[w] + 1 \in Nat /\ l_threads[w] + 1 \in Nat
    BY <1>3, <1>4
<1>6. l_free' \in [c.workers -> Nat] /\ l_threads' \in [c.workers -> Nat]
    BY <1>1, <1>4, <1>5
<1>7. PICK value \in {"score", "timeout", "error"} : l_result' = [l_result EXCEPT ![r] = value]
    BY <1>1
<1>8. l_Types(c)' /\ l_Alone(c, r) /\ l_pc'[r] = "done"
    <2>1. 0 \in Int
        OBVIOUS
    <2> QED BY <1>1, <1>2, <1>6, <1>7, <2>1, l_TypesOfOne
<1>9. l_timer'[r] >= -c.late
    BY <1>1, <1>2 DEF l_Bounds
<1>10. l_Slots(c)'
    <2>1. LimiterOf(c)!InCall(w)' = LimiterOf(c)!InCall(w) \ {r} /\ r \in LimiterOf(c)!InCall(w)
        BY <1>1, <1>8 DEF LimiterOf!InCall, l_Alone, w
    <2>2. \A v \in c.workers \ {w} : LimiterOf(c)!InCall(v)' = LimiterOf(c)!InCall(v)
        BY <1>1, <1>8 DEF LimiterOf!InCall, l_Alone, w
    <2>3. Cardinality(LimiterOf(c)!InCall(w)') = Cardinality(LimiterOf(c)!InCall(w)) - 1
        BY <2>1, l_CallsAreFinite, FS_RemoveElement
    <2>4. l_free'[w] = l_free[w] + 1 /\ \A v \in c.workers \ {w} : l_free'[v] = l_free[v]
        BY <1>1, <1>3, <1>4
    <2>5. l_free[w] + Cardinality(LimiterOf(c)!InCall(w)) = c.slots
          /\ Cardinality(LimiterOf(c)!InCall(w)) \in Nat /\ l_free[w] \in Nat
        BY <1>2, <1>3, <1>4, l_CallsAreFinite DEF l_Slots
    <2>6. l_free'[w] + Cardinality(LimiterOf(c)!InCall(w)') = c.slots
        BY <2>3, <2>4, <2>5
    <2> QED BY <1>2, <2>2, <2>4, <2>6 DEF l_Slots
<1> QED BY <1>1, <1>8, <1>9, <1>10, l_Quiet

LEMMA l_ThreadEnds ==
    ASSUME NEW c, LimiterAssumption(c), l_Inv(c), NEW w \in c.workers, LimiterOf(c)!ThreadEnds(w)
    PROVE  l_Inv(c)'
<1>1. /\ l_tokens' = l_tokens /\ l_since' = l_since /\ l_credit' = l_credit /\ l_pc' = l_pc
      /\ l_cost' = l_cost /\ l_stage' = l_stage /\ l_timer' = l_timer /\ l_free' = l_free
      /\ l_result' = l_result /\ l_threads[w] > 0 /\ l_threads' = [l_threads EXCEPT ![w] = l_threads[w] - 1]
    BY DEF LimiterOf!ThreadEnds, LimiterOf!buckets
<1>2. l_Types(c) /\ l_Bounds(c) /\ l_Slots(c) /\ \A v \in c.workers, k \in l_Ids(c) : l_DebtOf(c, v, k)
    BY DEF l_Inv
<1>3. l_threads \in [c.workers -> Nat]
    BY <1>2 DEF l_Types
<1>4. l_threads' \in [c.workers -> Nat]
    <2>1. l_threads[w] - 1 \in Nat
        BY <1>1, <1>3
    <2> QED BY <1>1, <1>3, <2>1
<1>5. l_Types(c)'
    BY <1>1, <1>2, <1>4 DEF l_Types
<1>6. l_Bounds(c)'
    BY <1>1, <1>2 DEF l_Bounds, l_Cap
<1>7. l_Slots(c)'
    BY <1>1, <1>2, l_SlotsStay
<1>8. ASSUME NEW v \in c.workers, NEW k \in l_Ids(c) PROVE l_DebtOf(c, v, k)'
    <2>1. l_Paid(c, v, k)' = l_Paid(c, v, k)
        BY <1>1 DEF l_Paid
    <2>2. l_Level(c, v, k)' = l_Level(c, v, k)
        BY <1>1, l_Levels
    <2>3. l_DebtOf(c, v, k) /\ \A p \in l_Paid(c, v, k) : l_timer'[p] = l_timer[p]
        BY <1>1, <1>2
    <2> QED BY <1>1, <2>1, <2>2, <2>3, l_DebtUnmoved
<1> QED BY <1>5, <1>6, <1>7, <1>8 DEF l_Inv, l_Ids
-----------------------------------------------------------------------------
LEMMA l_PaidFor ==
    ASSUME NEW c, LimiterAssumption(c), l_Inv(c), NEW r \in c.requests, LimiterOf(c)!PaidFor(r),
           NEW w, w = c.home[r], NEW k, k = l_stage[r]
    PROVE  l_Inv(c)'
<1>1. /\ l_pc[r] = "paid" /\ l_timer[r] <= 0 /\ l_tokens' = l_tokens /\ l_since' = l_since
      /\ l_cost' = l_cost /\ l_free' = l_free /\ l_threads' = l_threads /\ l_result' = l_result
      /\ l_pc' = [l_pc EXCEPT ![r] = "ask"] /\ l_stage' = [l_stage EXCEPT ![r] = k + 1]
      /\ l_timer' = [l_timer EXCEPT ![r] = 0]
      /\ l_credit' = [l_credit EXCEPT ![w][k] = l_credit[w][k] - l_cost[r][k]]
    BY DEF LimiterOf!PaidFor, LimiterOf!Grant, LimiterOf!slots
<1>2. l_Types(c) /\ l_Bounds(c) /\ l_Slots(c) /\ \A v \in c.workers, j \in l_Ids(c) : l_DebtOf(c, v, j)
    BY DEF l_Inv
<1>3. k \in l_Ids(c)
    BY <1>1, <1>2 DEF l_Bounds
<1>4. w \in c.workers /\ Len(c.layers) \in Nat /\ c.late \in Nat
    BY l_Constants
<1>5. /\ l_pc \in [c.requests -> {"new", "ask", "paid", "queue", "call", "done"}]
      /\ l_stage \in [c.requests -> 1 .. Len(c.layers) + 1] /\ l_timer \in [c.requests -> Int]
      /\ l_credit \in [c.workers -> [l_Ids(c) -> Int]] /\ l_cost \in [c.requests -> [l_Ids(c) -> Nat \ {0}]]
    BY <1>2 DEF l_Types
<1>6. l_Alone(c, r) /\ l_pc'[r] = "ask" /\ l_timer'[r] = 0
    BY <1>1, <1>5 DEF l_Alone
<1>7. k + 1 \in 1 .. Len(c.layers) + 1
    BY <1>3, <1>4 DEF l_Ids
<1>8. l_cost[r][k] \in Nat /\ l_credit[w][k] \in Int
    BY <1>3, <1>4, <1>5
<1>9. l_credit[w][k] - l_cost[r][k] \in Int
    BY <1>8
<1>10. l_Types(c)'
    <2>1. l_credit' \in [c.workers -> [l_Ids(c) -> Int]]
        BY <1>1, <1>3, <1>4, <1>5, <1>9
    <2>2. /\ l_pc' \in [c.requests -> {"new", "ask", "paid", "queue", "call", "done"}]
          /\ l_stage' \in [c.requests -> 1 .. Len(c.layers) + 1] /\ l_timer' \in [c.requests -> Int]
        BY <1>1, <1>5, <1>7
    <2> QED BY <1>1, <1>2, <2>1, <2>2 DEF l_Types
<1>11. l_credit'[w][k] = l_credit[w][k] - l_cost[r][k]
    BY <1>1, <1>3, <1>4, <1>5
<1>12. \A v \in c.workers, j \in l_Ids(c) : v # w \/ j # k => l_credit'[v][j] = l_credit[v][j]
    BY <1>1, <1>3, <1>4, <1>5
<1>13. l_Bounds(c)'
    <2>1. ASSUME NEW q \in c.requests
          PROVE  /\ l_timer'[q] >= -c.late
                 /\ l_pc'[q] = "paid" => l_stage'[q] \in l_Ids(c) /\ l_cost'[q][l_stage'[q]] > l_Cap(c, l_stage'[q])
        <3>1. CASE q = r
            <4>1. 0 >= -c.late
                BY <1>4
            <4> QED BY <1>6, <3>1, <4>1
        <3>2. CASE q # r
            <4>1. l_pc'[q] = l_pc[q] /\ l_stage'[q] = l_stage[q] /\ l_timer'[q] = l_timer[q]
                BY <1>6, <3>2 DEF l_Alone
            <4> QED BY <1>1, <1>2, <4>1 DEF l_Bounds
        <3> QED BY <3>1, <3>2
    <2>2. ASSUME NEW v \in c.workers, NEW j \in l_Ids(c)
          PROVE  /\ l_tokens'[v][j] <= l_Cap(c, j) /\ l_credit'[v][j] <= l_Cap(c, j)
                 /\ l_tokens'[v][j] < 0 => \E q \in c.requests : l_cost'[q][j] > l_Cap(c, j)
        <3>1. /\ l_tokens[v][j] <= l_Cap(c, j) /\ l_credit[v][j] <= l_Cap(c, j)
              /\ l_tokens[v][j] < 0 => \E q \in c.requests : l_cost[q][j] > l_Cap(c, j)
            BY <1>2 DEF l_Bounds
        <3>2. l_credit'[v][j] <= l_Cap(c, j)
            <4>1. l_Cap(c, j) \in Nat
                BY l_Capacity
            <4>2. CASE v = w /\ j = k
                <5>1. l_credit[w][k] <= l_Cap(c, j)
                    BY <3>1, <4>2
                <5>2. l_credit'[v][j] = l_credit[w][k] - l_cost[r][k]
                    BY <1>11, <4>2
                <5> QED BY <4>1, <5>1, <5>2, <1>8
            <4>3. CASE v # w \/ j # k
                BY <3>1, <4>3, <1>12
            <4> QED BY <4>2, <4>3
        <3> QED BY <1>1, <3>1, <3>2
    <2> QED BY <2>1, <2>2 DEF l_Bounds, l_Cap
<1>14. l_Slots(c)'
    <2>1. \A q \in c.requests : (l_pc'[q] = "call") <=> (l_pc[q] = "call")
        BY <1>1, <1>6 DEF l_Alone
    <2> QED BY <1>1, <1>2, <2>1, l_SlotsStay
<1>15. ASSUME NEW v \in c.workers, NEW j \in l_Ids(c), v # w \/ j # k PROVE l_DebtOf(c, v, j)'
    <2>1. r \notin l_Paid(c, v, j)
        BY <1>15 DEF l_Paid
    <2>2. r \notin l_Paid(c, v, j)'
        BY <1>6 DEF l_Paid
    <2>3. l_credit'[v][j] = l_credit[v][j]
        BY <1>12, <1>15
    <2> QED BY <1>1, <1>2, <1>6, <2>1, <2>2, <2>3, l_OtherBucket
<1>16. ASSUME NEW sum, Adds(sum, c.requests, l_Costs(c, k))
      PROVE  Debt(l_Paid(c, w, k)', l_timer', l_Level(c, w, k)', l_credit'[w][k], sum, c.rate[k],
                  LimiterOf(c)!Overdraft(k))
    <2> DEFINE P == l_Paid(c, w, k)
               f == l_Costs(c, k)
               level == l_Level(c, w, k)
               over == LimiterOf(c)!Overdraft(k)
    <2>1. Debt(P, l_timer, level, l_credit[w][k], sum, c.rate[k], over)
        BY <1>2, <1>3, <1>4, <1>16 DEF l_DebtOf
    <2>2. DebtTypes(P, c.requests, l_timer, level, l_credit[w][k], sum, f, c.rate[k], over)
        BY <1>2, <1>3, <1>4, <1>16, l_DebtFacts
    <2>3. f[r] = l_cost[r][k]
        BY DEF l_Costs
    <2>4. r \in P
        BY <1>1 DEF l_Paid
    <2>5. \A q \in P \ {r} : l_timer'[q] = l_timer[q]
        BY <1>6 DEF l_Alone, l_Paid
    <2>6. \A q \in c.requests : q \in l_Paid(c, w, k)' <=> q \in P \ {r}
        BY <1>6 DEF l_Alone, l_Paid
    <2>7. l_Paid(c, w, k)' = P \ {r}
        <3>1. l_Paid(c, w, k)' \subseteq c.requests /\ P \subseteq c.requests
            BY DEF l_Paid
        <3> QED BY <2>6, <3>1
    <2>8. l_Level(c, w, k)' = level
        BY <1>1, <1>3, <1>4, l_Levels
    <2>9. l_Pays(r, f, l_timer, l_credit[w][k], l_credit'[w][k])
        BY <2>3, <1>1, <1>11 DEF l_Pays
    <2> HIDE DEF P, f, level, over
    <2>10. Debt(P \ {r}, l_timer', level, l_credit'[w][k], sum, c.rate[k], over)
        BY <2>1, <2>2, <2>4, <2>5, <2>9, l_DebtPaid
    <2> QED BY <2>7, <2>8, <2>10 DEF over
<1>17. l_DebtOf(c, w, k)'
    BY <1>1, <1>16, l_DebtNext
<1> QED BY <1>10, <1>13, <1>14, <1>15, <1>17 DEF l_Inv, l_Ids

(* Time passes: a level rises by the rate until the bucket is full.         *)
LEMMA l_LevelRises ==
    ASSUME NEW c, LimiterAssumption(c), l_Types(c), l_Bounds(c), NEW w \in c.workers, NEW k \in l_Ids(c),
           l_tokens'[w][k] = l_tokens[w][k],
           l_since'[w][k] = IF l_Level(c, w, k) < l_Cap(c, k) THEN l_since[w][k] + 1 ELSE l_since[w][k]
    PROVE  l_Level(c, w, k)' = IF l_Cap(c, k) < l_Level(c, w, k) + c.rate[k]
                               THEN l_Cap(c, k) ELSE l_Level(c, w, k) + c.rate[k]
<1> DEFINE t == l_tokens[w][k]
           s == l_since[w][k]
           rate == c.rate[k]
           cap == l_Cap(c, k)
           level == l_Level(c, w, k)
<1>1. t \in Int /\ s \in Nat
    BY DEF l_Types
<1>2. rate \in Nat \ {0} /\ cap \in Nat
    BY l_Capacity
<1>3. level = (IF cap < t + s * rate THEN cap ELSE t + s * rate) /\ level <= cap /\ level \in Int
    BY l_LevelIs
<1>4. l_Level(c, w, k)' = l_Full(t, l_since'[w][k], c, k)
    BY l_Levels
<1>5. (s + 1) * rate = s * rate + rate /\ s * rate \in Int
    <2> HIDE DEF s, rate
    <2> QED BY <1>1, <1>2, Times
<1>6. CASE level < cap
    <2>1. l_Level(c, w, k)' = IF cap < t + (s + 1) * rate THEN cap ELSE t + (s + 1) * rate
        BY <1>4, <1>6 DEF l_Full
    <2> HIDE DEF t, s, rate, cap, level
    <2>2. level = t + s * rate
        BY <1>1, <1>2, <1>3, <1>5, <1>6
    <2>3. l_Level(c, w, k)' = IF cap < level + rate THEN cap ELSE level + rate
        BY <1>1, <1>2, <1>5, <2>1, <2>2
    <2> QED BY <2>3 DEF rate, cap, level
<1>7. CASE ~(level < cap)
    <2>1. l_Level(c, w, k)' = level
        BY <1>4, <1>7, l_Levels
    <2> HIDE DEF t, s, rate, cap, level
    <2>2. level = cap /\ cap < level + rate
        BY <1>2, <1>3, <1>7
    <2> QED BY <2>1, <2>2 DEF rate, cap, level
<1> QED BY <1>6, <1>7
-----------------------------------------------------------------------------
l_Elapses(P, f, timer, timer2, level, level2, credit, credit2, cap, rate, late, over) ==
    /\ cap \in Nat /\ late \in Nat
    /\ \A p \in P : timer2[p] = timer[p] - 1 /\ timer[p] > -late
    /\ level <= cap /\ credit <= cap
    /\ \A p \in P : f[p] - cap + rate * late + rate - 1 <= over
    /\ level2 = IF cap < level + rate THEN cap ELSE level + rate
    /\ credit2 = IF cap < credit + rate THEN cap ELSE credit + rate

LEMMA l_DebtElapses ==
    ASSUME NEW P, NEW S, NEW timer, NEW level, NEW credit, NEW sum, NEW f, NEW rate, NEW over,
           DebtTypes(P, S, timer, level, credit, sum, f, rate, over),
           Debt(P, timer, level, credit, sum, rate, over),
           NEW timer2, NEW level2, NEW credit2, NEW cap, NEW late,
           l_Elapses(P, f, timer, timer2, level, level2, credit, credit2, cap, rate, late, over)
    PROVE  Debt(P, timer2, level2, credit2, sum, rate, over)
<1>1. /\ cap \in Nat /\ late \in Nat
      /\ \A p \in P : timer2[p] = timer[p] - 1
      /\ \A p \in P : timer[p] > -late
      /\ level <= cap /\ credit <= cap
      /\ \A p \in P : f[p] - cap + rate * late + rate - 1 <= over
      /\ level2 = IF cap < level + rate THEN cap ELSE level + rate
      /\ credit2 = IF cap < credit + rate THEN cap ELSE credit + rate
    BY DEF l_Elapses
<1> QED BY <1>1, DebtTicks

LEMMA l_Ticks ==
    ASSUME NEW c, LimiterAssumption(c), l_Inv(c), LimiterOf(c)!Tick
    PROVE  l_Inv(c)'
<1>1. l_Types(c) /\ l_Bounds(c) /\ l_Slots(c) /\ \A v \in c.workers, j \in l_Ids(c) : l_DebtOf(c, v, j)
    BY DEF l_Inv
<1>2. l_tokens' = l_tokens /\ l_cost' = l_cost /\ l_pc' = l_pc /\ l_stage' = l_stage /\ l_free' = l_free
      /\ l_threads' = l_threads /\ l_result' = l_result
    BY DEF LimiterOf!Tick
<1>3. l_timer' = [q \in c.requests |-> IF l_pc[q] \in {"ask", "paid", "call"} THEN l_timer[q] - 1 ELSE l_timer[q]]
    BY DEF LimiterOf!Tick
<1>4. /\ l_since' = [w \in c.workers |-> [k \in l_Ids(c) |->
                       IF l_Level(c, w, k) < LimiterOf(c)!Capacity(k) THEN l_since[w][k] + 1 ELSE l_since[w][k]]]
      /\ l_credit' = [w \in c.workers |-> [k \in l_Ids(c) |->
                       LimiterOf(c)!SmallerOf(LimiterOf(c)!Capacity(k), l_credit[w][k] + c.rate[k])]]
    BY Zenon DEF LimiterOf!Tick, LimiterOf!BucketIds, l_Ids, l_Level
<1>5. \A q \in c.requests : l_pc[q] \in {"ask", "paid", "call"} => ~(l_timer[q] <= -c.late)
    BY DEF LimiterOf!Tick, LimiterOf!Due
<1>6. /\ l_since \in [c.workers -> [l_Ids(c) -> Nat]]
      /\ l_credit \in [c.workers -> [l_Ids(c) -> Int]] /\ l_timer \in [c.requests -> Int]
    BY <1>1 DEF l_Types
<1>7. c.late \in Nat
    BY l_Constants
<1>8. \A k \in l_Ids(c) : /\ LimiterOf(c)!Capacity(k) = l_Cap(c, k) /\ l_Cap(c, k) \in Nat
                          /\ c.rate[k] \in Nat \ {0}
    BY l_Capacity
<1>9. ASSUME NEW w \in c.workers, NEW k \in l_Ids(c)
      PROVE  /\ l_since'[w][k] = IF l_Level(c, w, k) < l_Cap(c, k) THEN l_since[w][k] + 1 ELSE l_since[w][k]
             /\ l_since'[w][k] \in Nat
    <2>1. l_since'[w][k] = IF l_Level(c, w, k) < l_Cap(c, k) THEN l_since[w][k] + 1 ELSE l_since[w][k]
        BY <1>4, <1>8
    <2>2. l_since[w][k] \in Nat
        BY <1>6
    <2> QED BY <2>1, <2>2
<1>10. ASSUME NEW w \in c.workers, NEW k \in l_Ids(c)
       PROVE  /\ l_credit'[w][k] = IF l_Cap(c, k) < l_credit[w][k] + c.rate[k]
                                   THEN l_Cap(c, k) ELSE l_credit[w][k] + c.rate[k]
              /\ l_credit'[w][k] \in Int /\ l_credit'[w][k] <= l_Cap(c, k)
    <2>1. l_credit'[w][k] = IF l_Cap(c, k) < l_credit[w][k] + c.rate[k]
                            THEN l_Cap(c, k) ELSE l_credit[w][k] + c.rate[k]
        BY <1>4, <1>8 DEF LimiterOf!SmallerOf
    <2>2. l_credit[w][k] \in Int /\ c.rate[k] \in Nat /\ l_Cap(c, k) \in Nat
        BY <1>6, <1>8
    <2> QED BY <2>1, <2>2
<1>11. l_Types(c)'
    <2>1. l_since' \in [c.workers -> [l_Ids(c) -> Nat]]
        BY <1>4, <1>9
    <2>2. l_credit' \in [c.workers -> [l_Ids(c) -> Int]]
        BY <1>4, <1>10
    <2>3. l_timer' \in [c.requests -> Int]
        BY <1>3, <1>6
    <2> QED BY <1>1, <1>2, <2>1, <2>2, <2>3 DEF l_Types
<1>12. l_Bounds(c)'
    <2>1. ASSUME NEW q \in c.requests
          PROVE  /\ l_timer'[q] >= -c.late
                 /\ l_pc'[q] = "paid" => l_stage'[q] \in l_Ids(c) /\ l_cost'[q][l_stage'[q]] > l_Cap(c, l_stage'[q])
        <3>1. l_timer[q] \in Int /\ l_timer[q] >= -c.late
            BY <1>1, <1>6 DEF l_Bounds
        <3>2. l_timer'[q] >= -c.late
            BY <1>3, <1>5, <1>7, <3>1
        <3> QED BY <1>1, <1>2, <3>2 DEF l_Bounds
    <2>2. \A w \in c.workers, k \in l_Ids(c) :
             /\ l_tokens'[w][k] <= l_Cap(c, k) /\ l_credit'[w][k] <= l_Cap(c, k)
             /\ l_tokens'[w][k] < 0 => \E q \in c.requests : l_cost'[q][k] > l_Cap(c, k)
        BY <1>1, <1>2, <1>10 DEF l_Bounds
    <2> QED BY <2>1, <2>2 DEF l_Bounds, l_Cap
<1>13. l_Slots(c)'
    BY <1>1, <1>2, l_SlotsStay
<1>14. ASSUME NEW w \in c.workers, NEW k \in l_Ids(c) PROVE l_DebtOf(c, w, k)'
    <2>1. l_Paid(c, w, k)' = l_Paid(c, w, k)
        BY <1>2 DEF l_Paid
    <2>2. l_Level(c, w, k)' = IF l_Cap(c, k) < l_Level(c, w, k) + c.rate[k]
                              THEN l_Cap(c, k) ELSE l_Level(c, w, k) + c.rate[k]
        BY <1>1, <1>2, <1>9, l_LevelRises
    <2>3. ASSUME NEW sum, Adds(sum, c.requests, l_Costs(c, k))
          PROVE  Debt(l_Paid(c, w, k)', l_timer', l_Level(c, w, k)', l_credit'[w][k], sum, c.rate[k],
                      LimiterOf(c)!Overdraft(k))
        <3> DEFINE P == l_Paid(c, w, k)
                   f == l_Costs(c, k)
                   level == l_Level(c, w, k)
                   next == l_Level(c, w, k)'
                   over == LimiterOf(c)!Overdraft(k)
        <3>1. Debt(P, l_timer, level, l_credit[w][k], sum, c.rate[k], over)
            BY <1>1, <2>3 DEF l_DebtOf
        <3>2. DebtTypes(P, c.requests, l_timer, level, l_credit[w][k], sum, f, c.rate[k], over)
            BY <1>1, <2>3, l_DebtFacts
        <3>3. \A p \in P : l_timer'[p] = l_timer[p] - 1 /\ l_timer[p] > -c.late
            <4> TAKE p \in P
            <4>1. p \in c.requests /\ l_pc[p] = "paid" /\ l_timer[p] \in Int
                BY <1>6 DEF l_Paid
            <4> QED BY <1>3, <1>5, <1>7, <4>1
        <3>4. level <= l_Cap(c, k) /\ l_credit[w][k] <= l_Cap(c, k) /\ l_Cap(c, k) \in Nat
            <4>1. level <= l_Cap(c, k)
                BY <1>1, l_LevelIs
            <4> QED BY <1>1, <1>8, <4>1 DEF l_Bounds
        <3>5. \A p \in P : f[p] - l_Cap(c, k) + c.rate[k] * c.late + c.rate[k] - 1 <= over
            <4> TAKE p \in P
            <4>1. p \in c.requests /\ l_cost[p][k] > l_Cap(c, k) /\ f[p] = l_cost[p][k]
                BY <1>1 DEF l_Paid, l_Bounds, l_Costs
            <4> QED BY <1>1, <4>1, l_OverdraftCovers
        <3>6. l_Elapses(P, f, l_timer, l_timer', level, next, l_credit[w][k], l_credit'[w][k], l_Cap(c, k),
                        c.rate[k], c.late, over)
            BY <1>7, <1>10, <2>2, <3>3, <3>4, <3>5 DEF l_Elapses
        <3> HIDE DEF P, f, level, next, over
        <3>7. Debt(P, l_timer', next, l_credit'[w][k], sum, c.rate[k], over)
            BY <3>1, <3>2, <3>6, l_DebtElapses
        <3> QED BY <2>1, <3>7 DEF P, next, over
    <2> QED BY <1>2, <2>3, l_DebtNext
<1> QED BY <1>11, <1>12, <1>13, <1>14 DEF l_Inv, l_Ids

LEMMA l_Inits ==
    ASSUME NEW c, LimiterAssumption(c), LimiterOf(c)!Init
    PROVE  l_Inv(c)
<1>1. /\ l_tokens = [w \in c.workers |-> [k \in l_Ids(c) |-> LimiterOf(c)!Capacity(k)]]
      /\ l_since = [w \in c.workers |-> [k \in l_Ids(c) |-> 0]]
      /\ l_cost \in [c.requests -> {x \in [l_Ids(c) -> UNION {c.costs[k] : k \in l_Ids(c)}] :
                                       \A k \in l_Ids(c) : x[k] \in c.costs[k]}]
      /\ l_pc = [r \in c.requests |-> "new"] /\ l_stage = [r \in c.requests |-> 1]
      /\ l_timer = [r \in c.requests |-> 0]
      /\ l_free = [w \in c.workers |-> c.slots] /\ l_threads = [w \in c.workers |-> 0]
      /\ l_result = [r \in c.requests |-> "none"] /\ l_credit = l_tokens
    BY Zenon DEF LimiterOf!Init, LimiterOf!BucketIds, l_Ids
<1>2. \A k \in l_Ids(c) : /\ LimiterOf(c)!Capacity(k) = l_Cap(c, k) /\ l_Cap(c, k) \in Nat
                          /\ c.rate[k] \in Nat \ {0}
    BY l_Capacity
<1>3. Len(c.layers) \in Nat /\ c.late \in Nat /\ c.slots \in Nat /\ c.costs \in [l_Ids(c) -> SUBSET (Nat \ {0})]
    BY l_Constants
<1>4. \A r \in c.requests : l_cost[r] \in [l_Ids(c) -> Nat \ {0}]
    <2> TAKE r \in c.requests
    <2>1. /\ l_cost[r] \in [l_Ids(c) -> UNION {c.costs[k] : k \in l_Ids(c)}]
          /\ \A k \in l_Ids(c) : l_cost[r][k] \in c.costs[k]
        BY <1>1
    <2>2. \A k \in l_Ids(c) : l_cost[r][k] \in Nat \ {0}
        BY <1>3, <2>1
    <2> QED BY <2>1, <2>2
<1>5. l_cost \in [c.requests -> [l_Ids(c) -> Nat \ {0}]]
    BY <1>1, <1>4
<1>6. l_Types(c)
    <2>1. l_tokens \in [c.workers -> [l_Ids(c) -> Int]] /\ l_since \in [c.workers -> [l_Ids(c) -> Nat]]
        BY <1>1, <1>2
    <2>2. l_stage \in [c.requests -> 1 .. Len(c.layers) + 1]
        BY <1>1, <1>3
    <2> QED BY <1>1, <1>3, <1>5, <2>1, <2>2 DEF l_Types
<1>7. \A w \in c.workers, k \in l_Ids(c) : l_tokens[w][k] = l_Cap(c, k) /\ l_credit[w][k] = l_Cap(c, k)
                                           /\ l_since[w][k] = 0
    BY <1>1, <1>2
<1>8. l_Bounds(c)
    <2>1. 0 >= -c.late
        BY <1>3
    <2> QED BY <1>1, <1>2, <1>7, <2>1 DEF l_Bounds
<1>9. l_Slots(c)
    <2> SUFFICES ASSUME NEW w \in c.workers PROVE l_free[w] + Cardinality(LimiterOf(c)!InCall(w)) = c.slots
        BY DEF l_Slots
    <2>1. LimiterOf(c)!InCall(w) = {}
        BY <1>1 DEF LimiterOf!InCall
    <2> QED BY <1>1, <1>3, <2>1, FS_EmptySet
<1>10. ASSUME NEW w \in c.workers, NEW k \in l_Ids(c) PROVE l_DebtOf(c, w, k)
    <2> SUFFICES ASSUME NEW sum, Adds(sum, c.requests, l_Costs(c, k))
                 PROVE  Debt(l_Paid(c, w, k), l_timer, l_Level(c, w, k), l_credit[w][k], sum, c.rate[k],
                             LimiterOf(c)!Overdraft(k))
        BY DEF l_DebtOf
    <2>1. l_Paid(c, w, k) = {}
        BY <1>1 DEF l_Paid
    <2>2. sum[{}] = 0
        BY DEF Adds
    <2>3. l_Level(c, w, k) = l_Cap(c, k)
        <3>1. l_Level(c, w, k) = l_Full(l_Cap(c, k), 0, c, k)
            BY <1>7, l_Levels
        <3>2. 0 * c.rate[k] = 0
            BY <1>2
        <3> QED BY <1>2, <3>1, <3>2 DEF l_Full
    <2>4. LimiterOf(c)!Overdraft(k) \in Nat
        BY <1>6, l_OverdraftCovers
    <2>5. l_Level(c, w, k) + sum[{}] >= 0
          /\ l_credit[w][k] >= l_Level(c, w, k) + sum[{}] - LimiterOf(c)!Overdraft(k)
        BY <1>2, <1>7, <2>2, <2>3, <2>4
    <2> QED BY <2>1, <2>5 DEF Debt
<1> QED BY <1>6, <1>8, <1>9, <1>10 DEF l_Inv

LEMMA l_Stays ==
    ASSUME NEW c, l_Inv(c), UNCHANGED limitVars
    PROVE  l_Inv(c)'
<1>1. /\ l_tokens' = l_tokens /\ l_since' = l_since /\ l_credit' = l_credit /\ l_cost' = l_cost /\ l_pc' = l_pc
      /\ l_stage' = l_stage /\ l_timer' = l_timer /\ l_free' = l_free /\ l_threads' = l_threads
      /\ l_result' = l_result
    BY DEF limitVars
<1>2. l_Types(c)' /\ l_Bounds(c)' /\ l_Slots(c)'
    <2>1. l_Types(c)' /\ l_Bounds(c)'
        BY <1>1 DEF l_Inv, l_Types, l_Bounds, l_Cap
    <2>2. l_Slots(c)'
        BY <1>1, l_SlotsStay DEF l_Inv
    <2> QED BY <2>1, <2>2
<1>3. ASSUME NEW w \in c.workers, NEW k \in l_Ids(c) PROVE l_DebtOf(c, w, k)'
    <2>1. l_Paid(c, w, k)' = l_Paid(c, w, k) /\ l_Level(c, w, k)' = l_Level(c, w, k)
        BY <1>1, Zenon DEF l_Paid, l_Level, LimiterOf!Refilled, LimiterOf!SmallerOf, LimiterOf!Capacity
    <2>2. l_DebtOf(c, w, k) /\ l_Costs(c, k)' = l_Costs(c, k)
        BY <1>1 DEF l_Inv, l_Costs
    <2>3. LimiterOf(c)!Overdraft(k)' = LimiterOf(c)!Overdraft(k)
        BY <1>1, l_OverStays
    <2> QED BY <1>1, <2>1, <2>2, <2>3, Zenon DEF l_DebtOf
<1> QED BY <1>2, <1>3 DEF l_Inv, l_Ids

LEMMA l_Steps ==
    ASSUME NEW c, LimiterAssumption(c), l_Inv(c), LimiterOf(c)!Next
    PROVE  l_Inv(c)'
<1>1. ASSUME NEW r \in c.requests, LimiterOf(c)!Acquire(r) PROVE l_Inv(c)'
    <2>1. PICK w : w = c.home[r]
        OBVIOUS
    <2>2. PICK k : k = l_stage[r]
        OBVIOUS
    <2>3. PICK left : left = l_Level(c, w, k) - l_cost[r][k]
        OBVIOUS
    <2>4. l_Types(c) /\ l_Bounds(c)
        BY DEF l_Inv
    <2>5. /\ w \in c.workers /\ k \in l_Ids(c) /\ l_pc[r] = "ask" /\ left \in Int
          /\ \/ /\ l_cost[r][k] > l_Cap(c, k) /\ left < 0
                /\ l_Asks(c, r, left, 0, "paid", k, l_TicksFor(-left, c.rate[k]))
             \/ /\ left >= 0
                /\ l_Asks(c, r, left, l_cost[r][k], "ask", k + 1, 0)
             \/ /\ left < 0
                /\ l_Asks(c, r, l_Level(c, w, k), 0, "ask", k, l_TicksFor(-left, c.rate[k]))
        BY <1>1, <2>1, <2>2, <2>3, <2>4, l_AcquireCases
    <2> QED BY <2>1, <2>2, <2>3, <2>5, l_AcquireDebts
<1>2. ASSUME NEW r \in c.requests, LimiterOf(c)!PaidFor(r) PROVE l_Inv(c)'
    BY <1>2, l_PaidFor
<1>3. ASSUME NEW r \in c.requests, LimiterOf(c)!Begin(r) \/ LimiterOf(c)!EnterQueue(r) PROVE l_Inv(c)'
    BY <1>3, l_Starts
<1>4. ASSUME NEW r \in c.requests, LimiterOf(c)!StartCall(r) PROVE l_Inv(c)'
    BY <1>4, l_Calls
<1>5. ASSUME NEW r \in c.requests, LimiterOf(c)!CallEnds(r) \/ LimiterOf(c)!CallTimesOut(r) PROVE l_Inv(c)'
    BY <1>5, l_Leaves
<1>6. ASSUME NEW w \in c.workers, LimiterOf(c)!ThreadEnds(w) PROVE l_Inv(c)'
    BY <1>6, l_ThreadEnds
<1>7. ASSUME LimiterOf(c)!Tick PROVE l_Inv(c)'
    BY <1>7, l_Ticks
<1> QED BY <1>1, <1>2, <1>3, <1>4, <1>5, <1>6, <1>7, Zenon DEF LimiterOf!Next, LimiterOf!GoOn

(* What the invariant says to the user of the limiter.                      *)
LEMMA l_InvTells ==
    ASSUME NEW c, LimiterAssumption(c), l_Inv(c)
    PROVE  LimiterOf(c)!TypeOK /\ LimiterOf(c)!GrantsFollowTheRate /\ LimiterOf(c)!SlotsAreGivenBack
<1>1. l_Types(c) /\ l_Bounds(c) /\ l_Slots(c) /\ \A v \in c.workers, j \in l_Ids(c) : l_DebtOf(c, v, j)
    BY DEF l_Inv
<1>2. LimiterOf(c)!SlotsAreGivenBack
    BY <1>1 DEF l_Slots, LimiterOf!SlotsAreGivenBack, LimiterOf!Cardinality, Cardinality
<1>3. LimiterOf(c)!GrantsFollowTheRate
    <2>1. ASSUME NEW w \in c.workers, NEW k \in l_Ids(c) PROVE l_credit[w][k] >= -LimiterOf(c)!Overdraft(k)
        <3>1. IsFiniteSet(c.requests)
            BY l_Constants
        <3>2. l_Costs(c, k) \in [c.requests -> Nat]
            BY <1>1 DEF l_Types, l_Costs
        <3>3. PICK sum : Adds(sum, c.requests, l_Costs(c, k))
            BY <3>1, <3>2, SumExists
        <3>4. Debt(l_Paid(c, w, k), l_timer, l_Level(c, w, k), l_credit[w][k], sum, c.rate[k],
                   LimiterOf(c)!Overdraft(k))
            BY <1>1, <3>3 DEF l_DebtOf
        <3>5. /\ l_Level(c, w, k) + sum[l_Paid(c, w, k)] >= 0
              /\ l_credit[w][k] >= l_Level(c, w, k) + sum[l_Paid(c, w, k)] - LimiterOf(c)!Overdraft(k)
            BY <3>4 DEF Debt
        <3>6. l_Level(c, w, k) \in Int /\ LimiterOf(c)!Overdraft(k) \in Nat
            BY <1>1, l_LevelIs, l_OverdraftCovers
        <3>7. sum[l_Paid(c, w, k)] \in Nat /\ l_credit[w][k] \in Int
            BY <1>1, <3>3 DEF Adds, l_Paid, l_Types
        <3> QED BY <3>5, <3>6, <3>7
    <2> QED BY <2>1 DEF LimiterOf!GrantsFollowTheRate, LimiterOf!BucketIds, l_Ids
<1>4. LimiterOf(c)!TypeOK
    <2>1. ASSUME NEW w \in c.workers, NEW k \in l_Ids(c)
          PROVE  /\ l_tokens[w][k] \in Int /\ l_since[w][k] \in Nat
                 /\ l_tokens[w][k] <= LimiterOf(c)!Capacity(k)
                 /\ l_tokens[w][k] < 0 => \E r \in c.requests : l_cost[r][k] > LimiterOf(c)!Capacity(k)
        <3>1. LimiterOf(c)!Capacity(k) = l_Cap(c, k)
            BY l_Capacity
        <3> QED BY <1>1, <3>1 DEF l_Types, l_Bounds
    <2>2. \A r \in c.requests :
             /\ l_pc[r] \in {"new", "ask", "paid", "queue", "call", "done"}
             /\ l_stage[r] \in 1 .. Len(c.layers) + 1
             /\ l_timer[r] >= -c.late
             /\ l_result[r] \in {"none", "score", "timeout", "error"}
        BY <1>1 DEF l_Types, l_Bounds
    <2>3. ASSUME NEW w \in c.workers PROVE l_free[w] \in 0 .. c.slots /\ l_threads[w] \in Nat
        <3>1. Cardinality(LimiterOf(c)!InCall(w)) \in Nat
            BY l_CallsAreFinite
        <3>2. l_free[w] + Cardinality(LimiterOf(c)!InCall(w)) = c.slots
            BY <1>1 DEF l_Slots
        <3>3. l_free[w] \in Nat /\ l_threads[w] \in Nat /\ c.slots \in Nat
            BY <1>1, l_Constants DEF l_Types
        <3> QED BY <3>1, <3>2, <3>3
    <2> QED BY <2>1, <2>2, <2>3, Zenon DEF LimiterOf!TypeOK, LimiterOf!BucketIds, l_Ids
<1> QED BY <1>2, <1>3, <1>4
-----------------------------------------------------------------------------
(* Sequences of tokens that grow                                            *)
Grows(s, n, t) ==
    /\ Len(s \o t) = Len(s) + n /\ Len(s) \in Nat
    /\ DOMAIN s = 1 .. Len(s) /\ DOMAIN (s \o t) = 1 .. Len(s) + n
    /\ \A i \in 1 .. Len(s) : (s \o t)[i] = s[i]
    /\ \A i \in 1 .. n : (s \o t)[Len(s) + i] = t[i]
    /\ \A i \in 1 .. Len(s) + n : i \in 1 .. Len(s) \/ \E j \in 1 .. n : i = Len(s) + j

LEMMA Grown ==
    ASSUME NEW U, NEW s \in Seq(U), NEW n \in Nat, NEW t \in [1 .. n -> U]
    PROVE  s \o t \in Seq(U) /\ Grows(s, n, t)
<1>1. t \in Seq(U)
    BY SeqDef
<1>2. Len(t) = n
    <2>1. Len(t) \in Nat /\ DOMAIN t = 1 .. Len(t) /\ DOMAIN t = 1 .. n
        BY <1>1
    <2> QED BY <2>1
<1>3. /\ s \o t \in Seq(U) /\ Len(s \o t) = Len(s) + n /\ Len(s) \in Nat
      /\ \A i \in 1 .. Len(s) + n : (s \o t)[i] = IF i <= Len(s) THEN s[i] ELSE t[i - Len(s)]
    BY <1>1, <1>2, ConcatProperties, LenProperties
<1>4. DOMAIN s = 1 .. Len(s) /\ DOMAIN (s \o t) = 1 .. Len(s) + n
    BY <1>3
<1>5. \A i \in 1 .. Len(s) : (s \o t)[i] = s[i]
    BY <1>3
<1>6. \A i \in 1 .. n : (s \o t)[Len(s) + i] = t[i]
    <2> TAKE i \in 1 .. n
    <2>1. Len(s) + i \in 1 .. Len(s) + n /\ ~(Len(s) + i <= Len(s)) /\ (Len(s) + i) - Len(s) = i
        BY <1>3
    <2> QED BY <1>3, <2>1
<1>7. \A i \in 1 .. Len(s) + n : i \in 1 .. Len(s) \/ \E j \in 1 .. n : i = Len(s) + j
    <2> TAKE i \in 1 .. Len(s) + n
    <2>1. CASE i <= Len(s)
        BY <1>3, <2>1
    <2>2. CASE ~(i <= Len(s))
        <3>1. i - Len(s) \in 1 .. n /\ i = Len(s) + (i - Len(s))
            BY <1>3, <2>2
        <3> QED BY <3>1
    <2> QED BY <2>1, <2>2
<1> QED BY <1>3, <1>4, <1>5, <1>6, <1>7 DEF Grows

(* The prompt of p tokens, then tokens the mask tells apart.                *)
u_Fit(p, ids, mask) ==
    /\ Len(ids) = p + Len(mask)
    /\ \A i \in 1 .. p : ids[i] = [by |-> "prompt"]
    /\ \A i \in 1 .. Len(mask) : ids[p + i].by = IF mask[i] = 1 THEN "model" ELSE "tool"

LEMMA u_FitGrows ==
    ASSUME NEW U, NEW ids \in Seq(U), NEW mask \in Seq({0, 1}), NEW p \in Nat, u_Fit(p, ids, mask),
           NEW n \in Nat, NEW t \in [1 .. n -> U], NEW bit \in {0, 1}, NEW m, m = [i \in 1 .. n |-> bit],
           \A i \in 1 .. n : t[i].by = IF bit = 1 THEN "model" ELSE "tool"
    PROVE  u_Fit(p, ids \o t, mask \o m)
<1>1. m \in [1 .. n -> {0, 1}]
    OBVIOUS
<1>0. Grows(ids, n, t) /\ Grows(mask, n, m)
    BY <1>1, Grown
<1>2. /\ Len(ids \o t) = Len(ids) + n /\ Len(ids) \in Nat
      /\ \A i \in 1 .. Len(ids) : (ids \o t)[i] = ids[i]
      /\ \A i \in 1 .. n : (ids \o t)[Len(ids) + i] = t[i]
    BY <1>0 DEF Grows
<1>3. /\ Len(mask \o m) = Len(mask) + n /\ Len(mask) \in Nat
      /\ \A i \in 1 .. Len(mask) : (mask \o m)[i] = mask[i]
      /\ \A i \in 1 .. n : (mask \o m)[Len(mask) + i] = m[i]
      /\ \A i \in 1 .. Len(mask) + n : i \in 1 .. Len(mask) \/ \E j \in 1 .. n : i = Len(mask) + j
    BY <1>0 DEF Grows
<1>4. Len(ids) = p + Len(mask)
    BY DEF u_Fit
<1>5. Len(ids \o t) = p + Len(mask \o m)
    BY <1>2, <1>3, <1>4
<1>6. \A i \in 1 .. p : (ids \o t)[i] = [by |-> "prompt"]
    <2> TAKE i \in 1 .. p
    <2>1. i \in 1 .. Len(ids)
        BY <1>3, <1>4
    <2> QED BY <1>2, <2>1 DEF u_Fit
<1>7. ASSUME NEW i \in 1 .. Len(mask \o m)
      PROVE  (ids \o t)[p + i].by = IF (mask \o m)[i] = 1 THEN "model" ELSE "tool"
    <2>1. CASE i \in 1 .. Len(mask)
        <3>1. p + i \in 1 .. Len(ids)
            BY <1>3, <1>4, <2>1
        <3>2. (ids \o t)[p + i] = ids[p + i] /\ (mask \o m)[i] = mask[i]
            BY <1>2, <1>3, <2>1, <3>1
        <3> QED BY <2>1, <3>2 DEF u_Fit
    <2>2. CASE \E j \in 1 .. n : i = Len(mask) + j
        <3>1. PICK j \in 1 .. n : i = Len(mask) + j
            BY <2>2
        <3>2. p + i = Len(ids) + j
            BY <1>3, <1>4, <3>1
        <3>3. (ids \o t)[p + i] = t[j] /\ (mask \o m)[i] = bit
            BY <1>2, <1>3, <3>1, <3>2
        <3> QED BY <3>3
    <2> QED BY <1>3, <2>1, <2>2
<1> QED BY <1>5, <1>6, <1>7 DEF u_Fit

(* One log probability for each token of the response.                      *)
u_Scored(mask, logprobs) ==
    /\ Len(logprobs) = Len(mask)
    /\ \A i \in 1 .. Len(mask) : (mask[i] = 1) <=> (logprobs[i] = "logprob")

LEMMA u_ScoredGrows ==
    ASSUME NEW mask \in Seq({0, 1}), NEW logprobs \in Seq({"logprob", "0.0"}), u_Scored(mask, logprobs),
           NEW n \in Nat, NEW bit \in {0, 1}, NEW m, m = [i \in 1 .. n |-> bit],
           NEW value, value = (IF bit = 1 THEN "logprob" ELSE "0.0"), NEW l, l = [i \in 1 .. n |-> value]
    PROVE  u_Scored(mask \o m, logprobs \o l) /\ logprobs \o l \in Seq({"logprob", "0.0"})
<1>1. m \in [1 .. n -> {0, 1}] /\ l \in [1 .. n -> {"logprob", "0.0"}]
    OBVIOUS
<1>0. Grows(mask, n, m) /\ Grows(logprobs, n, l) /\ logprobs \o l \in Seq({"logprob", "0.0"})
    BY <1>1, Grown
<1>2. /\ Len(mask \o m) = Len(mask) + n /\ Len(mask) \in Nat
      /\ \A i \in 1 .. Len(mask) : (mask \o m)[i] = mask[i]
      /\ \A i \in 1 .. n : (mask \o m)[Len(mask) + i] = m[i]
      /\ \A i \in 1 .. Len(mask) + n : i \in 1 .. Len(mask) \/ \E j \in 1 .. n : i = Len(mask) + j
    BY <1>0 DEF Grows
<1>3. /\ logprobs \o l \in Seq({"logprob", "0.0"}) /\ Len(logprobs \o l) = Len(logprobs) + n
      /\ \A i \in 1 .. Len(logprobs) : (logprobs \o l)[i] = logprobs[i]
      /\ \A i \in 1 .. n : (logprobs \o l)[Len(logprobs) + i] = l[i]
    BY <1>0 DEF Grows
<1>4. Len(logprobs) = Len(mask)
    BY DEF u_Scored
<1>5. ASSUME NEW i \in 1 .. Len(mask \o m)
      PROVE  ((mask \o m)[i] = 1) <=> ((logprobs \o l)[i] = "logprob")
    <2>1. CASE i \in 1 .. Len(mask)
        BY <1>2, <1>3, <1>4, <2>1 DEF u_Scored
    <2>2. CASE \E j \in 1 .. n : i = Len(mask) + j
        <3>1. PICK j \in 1 .. n : i = Len(mask) + j
            BY <2>2
        <3>2. (mask \o m)[i] = bit /\ (logprobs \o l)[i] = value
            BY <1>2, <1>3, <1>4, <3>1
        <3> QED BY <3>2
    <2> QED BY <1>2, <2>1, <2>2
<1> QED BY <1>2, <1>3, <1>4, <1>5 DEF u_Scored

-----------------------------------------------------------------------------
(* The answers among the tokens                                             *)
u_Tools(ids)     == {i \in DOMAIN ids : ids[i].by = "tool"}
u_Upto(ids, i)   == {j \in u_Tools(ids) : j <= i}
u_Places(ids)    == {i \in u_Tools(ids) : ids[i].placeholders = 1}
u_Told(ids, rewards, turn) ==
    /\ Cardinality(u_Tools(ids)) <= Len(rewards)
    /\ \A i \in u_Tools(ids) :
          /\ ids[i].call = rewards[Cardinality(u_Upto(ids, i))]
          /\ ids[i].call[1] \in Nat /\ ids[i].call[1] < turn
    /\ \A i, j \in u_Tools(ids) :
          i < j => \/ ids[i].call[1] < ids[j].call[1]
                   \/ ids[i].call[1] = ids[j].call[1] /\ ids[i].call[2] < ids[j].call[2]
    /\ \A n \in Cardinality(u_Tools(ids)) + 1 .. Len(rewards) : rewards[n][1] = turn

LEMMA u_ToolsAreFinite ==
    ASSUME NEW U, NEW ids \in Seq(U)
    PROVE  /\ IsFiniteSet(u_Tools(ids)) /\ Cardinality(u_Tools(ids)) \in Nat
           /\ IsFiniteSet(u_Places(ids)) /\ Cardinality(u_Places(ids)) \in Nat
           /\ u_Tools(ids) \subseteq 1 .. Len(ids)
           /\ \A i \in u_Tools(ids) : Cardinality(u_Upto(ids, i)) \in 1 .. Cardinality(u_Tools(ids))
<1>1. DOMAIN ids = 1 .. Len(ids) /\ Len(ids) \in Nat
    OBVIOUS
<1>2. IsFiniteSet(1 .. Len(ids))
    BY <1>1, FS_Interval
<1>3. u_Tools(ids) \subseteq 1 .. Len(ids) /\ u_Places(ids) \subseteq 1 .. Len(ids)
    BY <1>1 DEF u_Tools, u_Places
<1>4. IsFiniteSet(u_Tools(ids)) /\ IsFiniteSet(u_Places(ids))
    BY <1>2, <1>3, FS_Subset
<1>5. Cardinality(u_Tools(ids)) \in Nat /\ Cardinality(u_Places(ids)) \in Nat
    BY <1>4, FS_CardinalityType
<1>6. ASSUME NEW i \in u_Tools(ids)
      PROVE  Cardinality(u_Upto(ids, i)) \in 1 .. Cardinality(u_Tools(ids))
    <2>1. u_Upto(ids, i) \subseteq u_Tools(ids) /\ i \in u_Upto(ids, i)
        <3>1. i \in Nat
            BY <1>3
        <3> QED BY <3>1 DEF u_Upto
    <2>2. IsFiniteSet(u_Upto(ids, i)) /\ Cardinality(u_Upto(ids, i)) <= Cardinality(u_Tools(ids))
        BY <1>4, <2>1, FS_Subset
    <2>3. Cardinality(u_Upto(ids, i)) \in Nat /\ Cardinality(u_Upto(ids, i)) # 0
        BY <2>1, <2>2, FS_CardinalityType, FS_EmptySet
    <2> QED BY <2>2, <2>3, <1>5
<1> QED BY <1>3, <1>4, <1>5, <1>6

(* Tokens of the model change nothing about the answers.                    *)
LEMMA u_ToolsStay ==
    ASSUME NEW U, NEW ids \in Seq(U), NEW n \in Nat, NEW t \in [1 .. n -> U],
           \A i \in 1 .. n : t[i].by # "tool"
    PROVE  /\ u_Tools(ids \o t) = u_Tools(ids) /\ u_Places(ids \o t) = u_Places(ids)
           /\ \A i \in u_Tools(ids) : (ids \o t)[i] = ids[i] /\ u_Upto(ids \o t, i) = u_Upto(ids, i)
<1>0. Grows(ids, n, t)
    BY Grown
<1>1. /\ DOMAIN ids = 1 .. Len(ids) /\ DOMAIN (ids \o t) = 1 .. Len(ids) + n /\ Len(ids) \in Nat
      /\ \A i \in 1 .. Len(ids) : (ids \o t)[i] = ids[i]
      /\ \A i \in 1 .. n : (ids \o t)[Len(ids) + i] = t[i]
      /\ \A i \in 1 .. Len(ids) + n : i \in 1 .. Len(ids) \/ \E j \in 1 .. n : i = Len(ids) + j
    BY <1>0 DEF Grows
<1>2. ASSUME NEW i PROVE i \in u_Tools(ids \o t) <=> i \in u_Tools(ids)
    <2>1. ASSUME i \in u_Tools(ids \o t) PROVE i \in u_Tools(ids)
        <3>1. i \in 1 .. Len(ids) + n /\ (ids \o t)[i].by = "tool"
            BY <1>1, <2>1 DEF u_Tools
        <3>2. i \in 1 .. Len(ids)
            BY <1>1, <3>1
        <3> QED BY <1>1, <3>1, <3>2 DEF u_Tools
    <2>2. ASSUME i \in u_Tools(ids) PROVE i \in u_Tools(ids \o t)
        <3>1. i \in 1 .. Len(ids) /\ ids[i].by = "tool"
            BY <1>1, <2>2 DEF u_Tools
        <3>2. i \in 1 .. Len(ids) + n
            BY <1>1, <3>1
        <3> QED BY <1>1, <3>1, <3>2 DEF u_Tools
    <2> QED BY <2>1, <2>2
<1>3. u_Tools(ids \o t) = u_Tools(ids)
    BY <1>2
<1>4. \A i \in u_Tools(ids) : (ids \o t)[i] = ids[i]
    BY <1>1 DEF u_Tools
<1> QED BY <1>3, <1>4 DEF u_Places, u_Upto

LEMMA u_ToldStays ==
    ASSUME NEW U, NEW ids \in Seq(U), NEW n \in Nat, NEW t \in [1 .. n -> U],
           \A i \in 1 .. n : t[i].by # "tool", NEW rewards, NEW turn, u_Told(ids, rewards, turn)
    PROVE  u_Told(ids \o t, rewards, turn)
<1>1. /\ u_Tools(ids \o t) = u_Tools(ids)
      /\ \A i \in u_Tools(ids) : (ids \o t)[i] = ids[i] /\ u_Upto(ids \o t, i) = u_Upto(ids, i)
    BY u_ToolsStay
<1>2. /\ Cardinality(u_Tools(ids \o t)) = Cardinality(u_Tools(ids))
      /\ \A i \in u_Tools(ids) : Cardinality(u_Upto(ids \o t, i)) = Cardinality(u_Upto(ids, i))
    BY <1>1
<1>3. \A i \in u_Tools(ids) :
         /\ ids[i].call = rewards[Cardinality(u_Upto(ids, i))]
         /\ ids[i].call[1] \in Nat /\ ids[i].call[1] < turn
    BY DEF u_Told
<1>4. \A i, j \in u_Tools(ids) :
         i < j => \/ ids[i].call[1] < ids[j].call[1]
                  \/ ids[i].call[1] = ids[j].call[1] /\ ids[i].call[2] < ids[j].call[2]
    BY DEF u_Told
<1>5. Cardinality(u_Tools(ids)) <= Len(rewards)
      /\ \A k \in Cardinality(u_Tools(ids)) + 1 .. Len(rewards) : rewards[k][1] = turn
    BY DEF u_Told
<1>6. \A i \in u_Tools(ids \o t) :
         /\ (ids \o t)[i].call = rewards[Cardinality(u_Upto(ids \o t, i))]
         /\ (ids \o t)[i].call[1] \in Nat /\ (ids \o t)[i].call[1] < turn
    BY <1>1, <1>2, <1>3
<1>7. \A i, j \in u_Tools(ids \o t) :
         i < j => \/ (ids \o t)[i].call[1] < (ids \o t)[j].call[1]
                  \/ (ids \o t)[i].call[1] = (ids \o t)[j].call[1] /\ (ids \o t)[i].call[2] < (ids \o t)[j].call[2]
    <2> TAKE i, j \in u_Tools(ids \o t)
    <2>1. (ids \o t)[i] = ids[i] /\ (ids \o t)[j] = ids[j] /\ i \in u_Tools(ids) /\ j \in u_Tools(ids)
        BY <1>1
    <2> QED BY <1>4, <2>1, Zenon
<1> QED BY <1>2, <1>5, <1>6, <1>7 DEF u_Told

(* The answers to the n calls of a turn follow.                             *)
u_Messages(t, n, turn) ==
    \A m \in 1 .. n : t[m].by = "tool" /\ t[m].call = <<turn, m>>

u_Follow(ids, n, t) ==
    /\ u_Tools(ids \o t) = u_Tools(ids) \cup (Len(ids) + 1 .. Len(ids) + n)
    /\ \A i \in u_Tools(ids) : (ids \o t)[i] = ids[i] /\ u_Upto(ids \o t, i) = u_Upto(ids, i)
    /\ \A m \in 1 .. n :
          /\ u_Upto(ids \o t, Len(ids) + m) = u_Tools(ids) \cup (Len(ids) + 1 .. Len(ids) + m)
          /\ (ids \o t)[Len(ids) + m] = t[m]
    /\ \A m \in 0 .. n : Cardinality(u_Tools(ids) \cup (Len(ids) + 1 .. Len(ids) + m))
                            = Cardinality(u_Tools(ids)) + m

LEMMA u_ToolsGrow ==
    ASSUME NEW U, NEW ids \in Seq(U), NEW n \in Nat, NEW t \in [1 .. n -> U],
           \A m \in 1 .. n : t[m].by = "tool"
    PROVE  u_Follow(ids, n, t)
<1>0. Grows(ids, n, t)
    BY Grown
<1>1. /\ DOMAIN ids = 1 .. Len(ids) /\ DOMAIN (ids \o t) = 1 .. Len(ids) + n /\ Len(ids) \in Nat
      /\ \A i \in 1 .. Len(ids) : (ids \o t)[i] = ids[i]
      /\ \A i \in 1 .. n : (ids \o t)[Len(ids) + i] = t[i]
      /\ \A i \in 1 .. Len(ids) + n : i \in 1 .. Len(ids) \/ \E j \in 1 .. n : i = Len(ids) + j
    BY <1>0 DEF Grows
<1> DEFINE L == Len(ids)
<1>2. u_Tools(ids) \subseteq 1 .. L
    BY <1>1 DEF u_Tools
<1>3. ASSUME NEW i PROVE i \in u_Tools(ids \o t) <=> i \in u_Tools(ids) \cup (L + 1 .. L + n)
    <2>1. ASSUME i \in u_Tools(ids \o t) PROVE i \in u_Tools(ids) \cup (L + 1 .. L + n)
        <3>1. i \in 1 .. L + n /\ (ids \o t)[i].by = "tool"
            BY <1>1, <2>1 DEF u_Tools
        <3>2. CASE i \in 1 .. L
            BY <1>1, <3>1, <3>2 DEF u_Tools
        <3>3. CASE ~(i \in 1 .. L)
            BY <1>1, <3>1, <3>3
        <3> QED BY <3>2, <3>3
    <2>2. ASSUME i \in u_Tools(ids) PROVE i \in u_Tools(ids \o t)
        <3>1. i \in 1 .. L /\ ids[i].by = "tool"
            BY <1>1, <2>2 DEF u_Tools
        <3>2. i \in 1 .. L + n
            BY <1>1, <3>1
        <3> QED BY <1>1, <3>1, <3>2 DEF u_Tools
    <2>3. ASSUME i \in L + 1 .. L + n PROVE i \in u_Tools(ids \o t)
        <3>1. i \in 1 .. L + n /\ ~(i \in 1 .. L)
            BY <1>1, <2>3
        <3>2. PICK m \in 1 .. n : i = L + m
            BY <1>1, <3>1
        <3>3. (ids \o t)[i] = t[m]
            BY <1>1, <3>2
        <3> QED BY <1>1, <3>1, <3>3 DEF u_Tools
    <2> QED BY <2>1, <2>2, <2>3
<1>4. u_Tools(ids \o t) = u_Tools(ids) \cup (L + 1 .. L + n)
    BY <1>3
<1>5. ASSUME NEW i \in u_Tools(ids) PROVE (ids \o t)[i] = ids[i] /\ u_Upto(ids \o t, i) = u_Upto(ids, i)
    <2>1. i \in 1 .. L
        BY <1>2
    <2>2. \A j \in L + 1 .. L + n : ~(j <= i)
        BY <1>1, <2>1
    <2>3. u_Upto(ids \o t, i) = u_Upto(ids, i)
        BY <1>4, <2>2 DEF u_Upto
    <2> QED BY <1>1, <2>1, <2>3
<1>6. ASSUME NEW m \in 1 .. n
      PROVE  /\ u_Upto(ids \o t, L + m) = u_Tools(ids) \cup (L + 1 .. L + m)
             /\ (ids \o t)[L + m] = t[m]
    <2>1. \A j \in u_Tools(ids) : j <= L + m
        <3> TAKE j \in u_Tools(ids)
        <3>1. j \in 1 .. L
            BY <1>2
        <3> QED BY <1>1, <3>1
    <2>2. \A j \in L + 1 .. L + n : j <= L + m <=> j \in L + 1 .. L + m
        BY <1>1
    <2>3. L + 1 .. L + m \subseteq L + 1 .. L + n
        BY <1>1
    <2>4. u_Upto(ids \o t, L + m) = u_Tools(ids) \cup (L + 1 .. L + m)
        <3> HIDE DEF L
        <3> QED BY <1>4, <2>1, <2>2, <2>3 DEF u_Upto
    <2> QED BY <1>1, <2>4
<1>7. ASSUME NEW m \in 0 .. n
      PROVE  Cardinality(u_Tools(ids) \cup (L + 1 .. L + m)) = Cardinality(u_Tools(ids)) + m
    <2>1. IsFiniteSet(u_Tools(ids)) /\ Cardinality(u_Tools(ids)) \in Nat
        BY u_ToolsAreFinite
    <2>2. IsFiniteSet(L + 1 .. L + m) /\ Cardinality(L + 1 .. L + m) = m
        <3>1. L + 1 \in Int /\ L + m \in Int
            BY <1>1
        <3> HIDE DEF L
        <3>2. /\ IsFiniteSet(L + 1 .. L + m)
              /\ Cardinality(L + 1 .. L + m) = IF L + 1 > L + m THEN 0 ELSE (L + m) - (L + 1) + 1
            BY <3>1, FS_Interval
        <3>3. L \in Nat
            BY <1>1 DEF L
        <3> QED BY <3>2, <3>3
    <2>3. u_Tools(ids) \cap (L + 1 .. L + m) = {}
        <3>1. \A j \in 1 .. L : j \notin L + 1 .. L + m
            BY <1>1
        <3> HIDE DEF L
        <3> QED BY <1>2, <3>1
    <2>4. Cardinality(u_Tools(ids) \cap (L + 1 .. L + m)) = 0
        BY <2>3, FS_EmptySet
    <2> HIDE DEF L
    <2>5. Cardinality(u_Tools(ids) \cup (L + 1 .. L + m))
             = Cardinality(u_Tools(ids)) + Cardinality(L + 1 .. L + m)
               - Cardinality(u_Tools(ids) \cap (L + 1 .. L + m))
        BY <2>1, <2>2, FS_Union
    <2> QED BY <2>1, <2>2, <2>4, <2>5
<1> QED BY <1>4, <1>5, <1>6, <1>7 DEF u_Follow

u_Join(U, ids, n, t, turn, V, rewards, x) ==
    /\ ids \in Seq(U) /\ n \in Nat /\ t \in [1 .. n -> U] /\ turn \in Nat /\ u_Messages(t, n, turn)
    /\ rewards \in Seq(V) /\ x \in [1 .. n -> V] /\ \A m \in 1 .. n : x[m] = <<turn, m>>
    /\ u_Told(ids, rewards, turn) /\ Cardinality(u_Tools(ids)) = Len(rewards)

LEMMA u_ToldGrows ==
    ASSUME NEW U, NEW ids, NEW n, NEW t, NEW turn, NEW V, NEW rewards, NEW x,
           u_Join(U, ids, n, t, turn, V, rewards, x)
    PROVE  /\ u_Told(ids \o t, rewards \o x, turn + 1)
           /\ Cardinality(u_Tools(ids \o t)) = Len(rewards \o x)
<1>0. /\ ids \in Seq(U) /\ n \in Nat /\ t \in [1 .. n -> U] /\ turn \in Nat /\ u_Messages(t, n, turn)
      /\ rewards \in Seq(V) /\ x \in [1 .. n -> V] /\ \A m \in 1 .. n : x[m] = <<turn, m>>
      /\ u_Told(ids, rewards, turn) /\ Cardinality(u_Tools(ids)) = Len(rewards)
    BY Zenon DEF u_Join
<1> USE <1>0
<1> DEFINE L == Len(ids)
           k == Cardinality(u_Tools(ids))
           ids2 == ids \o t
           rewards2 == rewards \o x
           old == u_Tools(ids)
           new == L + 1 .. L + n
<1>1. /\ u_Tools(ids2) = old \cup new
      /\ \A i \in old : ids2[i] = ids[i] /\ u_Upto(ids2, i) = u_Upto(ids, i)
      /\ \A m \in 1 .. n :
            /\ u_Upto(ids2, L + m) = old \cup (L + 1 .. L + m)
            /\ ids2[L + m] = t[m]
      /\ \A m \in 0 .. n : Cardinality(old \cup (L + 1 .. L + m)) = k + m
    <2>1. \A m \in 1 .. n : t[m].by = "tool"
        BY DEF u_Messages
    <2>2. u_Follow(ids, n, t)
        BY <2>1, u_ToolsGrow
    <2> QED BY <2>2, Zenon DEF u_Follow
<1>2. /\ k \in Nat /\ old \subseteq 1 .. L /\ L \in Nat
      /\ \A i \in old : Cardinality(u_Upto(ids, i)) \in 1 .. k
    BY u_ToolsAreFinite
<1>3. Grows(rewards, n, x) /\ Len(rewards) = k
    BY Grown
<1>4. /\ Len(rewards2) = k + n
      /\ \A i \in 1 .. k : rewards2[i] = rewards[i]
      /\ \A i \in 1 .. n : rewards2[k + i] = <<turn, i>>
    BY <1>3 DEF Grows
<1>5. \A i \in old : /\ ids[i].call = rewards[Cardinality(u_Upto(ids, i))]
                     /\ ids[i].call[1] \in Nat /\ ids[i].call[1] < turn
    BY DEF u_Told
<1>6. \A i, j \in old : i < j => \/ ids[i].call[1] < ids[j].call[1]
                                 \/ ids[i].call[1] = ids[j].call[1] /\ ids[i].call[2] < ids[j].call[2]
    BY DEF u_Told
<1>7. \A i \in new : \E m \in 1 .. n : i = L + m
    <2> TAKE i \in new
    <2>1. i - L \in 1 .. n /\ i = L + (i - L)
        BY <1>2
    <2> QED BY <2>1
<1>8. \A m \in 1 .. n : t[m].call = <<turn, m>>
    BY DEF u_Messages
<1> HIDE DEF L, k, ids2, rewards2, old, new
<1>9. ASSUME NEW i \in old PROVE ids2[i].call = rewards2[Cardinality(u_Upto(ids2, i))]
    BY <1>1, <1>2, <1>4, <1>5
<1>10. ASSUME NEW m \in 1 .. n
       PROVE  /\ ids2[L + m].call = <<turn, m>>
              /\ Cardinality(u_Upto(ids2, L + m)) = k + m
    BY <1>1, <1>8
<1>11. ASSUME NEW i \in u_Tools(ids2)
       PROVE  /\ ids2[i].call = rewards2[Cardinality(u_Upto(ids2, i))]
              /\ ids2[i].call[1] \in Nat /\ ids2[i].call[1] < turn + 1
    <2>1. CASE i \in old
        <3>1. ids2[i] = ids[i] /\ ids[i].call[1] \in Nat /\ ids[i].call[1] < turn
            BY <1>1, <1>5, <2>1
        <3> QED BY <1>9, <2>1, <3>1
    <2>2. CASE i \in new
        <3>1. PICK m \in 1 .. n : i = L + m
            BY <1>7, <2>2
        <3>2. ids2[i].call = <<turn, m>> /\ rewards2[Cardinality(u_Upto(ids2, i))] = <<turn, m>>
            BY <1>4, <1>10, <3>1
        <3>3. ids2[i].call[1] = turn
            BY <3>2
        <3> QED BY <3>2, <3>3
    <2> QED BY <1>1, <2>1, <2>2
<1>12. ASSUME NEW i \in u_Tools(ids2), NEW j \in u_Tools(ids2), i < j
       PROVE  \/ ids2[i].call[1] < ids2[j].call[1]
              \/ ids2[i].call[1] = ids2[j].call[1] /\ ids2[i].call[2] < ids2[j].call[2]
    <2>1. CASE i \in old /\ j \in old
        <3>1. ids2[i] = ids[i] /\ ids2[j] = ids[j]
            BY <1>1, <2>1
        <3>2. \/ ids[i].call[1] < ids[j].call[1]
              \/ ids[i].call[1] = ids[j].call[1] /\ ids[i].call[2] < ids[j].call[2]
            BY <1>6, <1>12, <2>1
        <3> QED BY <3>1, <3>2, Zenon
    <2>2. CASE i \in old /\ j \in new
        <3>1. PICK m \in 1 .. n : j = L + m
            BY <1>7, <2>2
        <3>2. ids2[j].call[1] = turn
            BY <1>10, <3>1
        <3>3. ids2[i] = ids[i] /\ ids[i].call[1] < turn
            BY <1>1, <1>5, <2>2
        <3> QED BY <3>2, <3>3
    <2>3. CASE i \in new /\ j \in new
        <3>1. PICK m \in 1 .. n : i = L + m
            BY <1>7, <2>3
        <3>2. PICK o \in 1 .. n : j = L + o
            BY <1>7, <2>3
        <3>3. m < o
            BY <1>2, <1>12, <3>1, <3>2
        <3>4. ids2[i].call = <<turn, m>> /\ ids2[j].call = <<turn, o>>
            BY <1>10, <3>1, <3>2
        <3>5. ids2[i].call[1] = turn /\ ids2[j].call[1] = turn /\ ids2[i].call[2] = m /\ ids2[j].call[2] = o
            BY <3>4
        <3> QED BY <3>3, <3>5
    <2>4. CASE i \in new /\ j \in old
        <3>1. i \in L + 1 .. L + n /\ j \in 1 .. L
            BY <1>2, <2>4 DEF new
        <3> QED BY <1>2, <1>12, <3>1
    <2> QED BY <1>1, <2>1, <2>2, <2>3, <2>4
<1>13. Cardinality(u_Tools(ids2)) = Len(rewards2)
    <2>1. n \in 0 .. n
        OBVIOUS
    <2> QED BY <1>1, <1>4, <2>1 DEF new
<1>14. \A i \in Cardinality(u_Tools(ids2)) + 1 .. Len(rewards2) : rewards2[i][1] = turn + 1
    <2>1. Cardinality(u_Tools(ids2)) = k + n /\ Len(rewards2) = k + n /\ k + n \in Nat
        BY <1>2, <1>4, <1>13
    <2> QED BY <2>1
<1>15. Cardinality(u_Tools(ids2)) <= Len(rewards2)
    <2>1. Len(rewards2) \in Nat
        BY <1>2, <1>4
    <2> QED BY <1>13, <2>1
<1>16. u_Told(ids2, rewards2, turn + 1)
    BY <1>11, <1>12, <1>14, <1>15 DEF u_Told
<1> QED BY <1>13, <1>16 DEF ids2, rewards2

(* The answers of the last turn are dropped, their rewards are not.         *)
LEMMA u_ToldDrops ==
    ASSUME NEW U, NEW ids \in Seq(U), NEW n \in Nat, NEW turn \in Nat,
           NEW V, NEW rewards \in Seq(V), NEW x \in [1 .. n -> V], \A m \in 1 .. n : x[m] = <<turn, m>>,
           u_Told(ids, rewards, turn), Cardinality(u_Tools(ids)) = Len(rewards)
    PROVE  u_Told(ids, rewards \o x, turn)
<1> DEFINE k == Cardinality(u_Tools(ids))
           rewards2 == rewards \o x
<1>1. Grows(rewards, n, x) /\ Len(rewards) = k
    BY Grown
<1>2. /\ Len(rewards2) = k + n /\ k \in Nat
      /\ \A i \in 1 .. k : rewards2[i] = rewards[i]
      /\ \A i \in 1 .. n : rewards2[k + i] = <<turn, i>>
    BY <1>1 DEF Grows
<1>3. \A i \in u_Tools(ids) : Cardinality(u_Upto(ids, i)) \in 1 .. k
    BY u_ToolsAreFinite
<1>4. \A i \in u_Tools(ids) : /\ ids[i].call = rewards[Cardinality(u_Upto(ids, i))]
                              /\ ids[i].call[1] \in Nat /\ ids[i].call[1] < turn
    BY DEF u_Told
<1>5. \A i \in u_Tools(ids) : /\ ids[i].call = rewards2[Cardinality(u_Upto(ids, i))]
                              /\ ids[i].call[1] \in Nat /\ ids[i].call[1] < turn
    BY <1>2, <1>3, <1>4
<1>6. \A i \in k + 1 .. k + n : rewards2[i][1] = turn
    <2> TAKE i \in k + 1 .. k + n
    <2>1. i - k \in 1 .. n /\ i = k + (i - k)
        BY <1>2
    <2>2. rewards2[i] = <<turn, i - k>>
        BY <1>2, <2>1
    <2> QED BY <2>2
<1>7. k <= Len(rewards2)
    BY <1>2
<1> HIDE DEF rewards2
<1> QED BY <1>2, <1>5, <1>6, <1>7 DEF u_Told, rewards2

LEMMA Shifted ==
    ASSUME NEW L \in Nat, NEW n \in Nat, NEW S \in SUBSET (1 .. n)
    PROVE  /\ IsFiniteSet({L + m : m \in S}) /\ Cardinality({L + m : m \in S}) = Cardinality(S)
           /\ IsFiniteSet(S) /\ Cardinality(S) \in Nat
<1> DEFINE T == {L + m : m \in S}
           f == [m \in S |-> L + m]
<1>1. IsFiniteSet(S)
    <2>1. IsFiniteSet(1 .. n)
        BY FS_Interval
    <2> QED BY <2>1, FS_Subset
<1>2. f \in Bijection(S, T)
    <2>1. f \in [S -> T]
        OBVIOUS
    <2>2. \A a, b \in S : f[a] = f[b] => a = b
        <3> TAKE a, b \in S
        <3>1. a \in Nat /\ b \in Nat
            OBVIOUS
        <3> QED BY <3>1
    <2>3. \A y \in T : \E x \in S : f[x] = y
        OBVIOUS
    <2>4. DOMAIN f = S
        OBVIOUS
    <2> HIDE DEF f, T
    <2>5. f \in Injection(S, T)
        BY <2>1, <2>2, <2>4 DEF Injection, IsInjective
    <2> QED BY <2>1, <2>3, <2>5 DEF Bijection, Surjection
<1>3. ExistsBijection(S, T)
    BY <1>2 DEF ExistsBijection
<1>4. IsFiniteSet(T) /\ Cardinality(T) = Cardinality(S)
    BY <1>1, <1>3, FS_Bijection
<1> QED BY <1>1, <1>4, FS_CardinalityType

LEMMA u_PlacesGrow ==
    ASSUME NEW U, NEW ids \in Seq(U), NEW n \in Nat, NEW t \in [1 .. n -> U],
           \A m \in 1 .. n : t[m].by = "tool"
    PROVE  Cardinality(u_Places(ids \o t))
              = Cardinality(u_Places(ids)) + Cardinality({m \in 1 .. n : t[m].placeholders = 1})
<1> DEFINE L == Len(ids)
           S == {m \in 1 .. n : t[m].placeholders = 1}
           T == {L + m : m \in S}
<1>1. u_Follow(ids, n, t)
    BY u_ToolsGrow
<1>2. /\ u_Tools(ids \o t) = u_Tools(ids) \cup (L + 1 .. L + n)
      /\ \A i \in u_Tools(ids) : (ids \o t)[i] = ids[i]
      /\ \A m \in 1 .. n : (ids \o t)[L + m] = t[m]
    BY <1>1, Zenon DEF u_Follow
<1>3. L \in Nat /\ u_Tools(ids) \subseteq 1 .. L /\ IsFiniteSet(u_Places(ids)) /\ Cardinality(u_Places(ids)) \in Nat
    BY u_ToolsAreFinite
<1> HIDE DEF L
<1>4. \A i \in L + 1 .. L + n : \E m \in 1 .. n : i = L + m
    <2> TAKE i \in L + 1 .. L + n
    <2>1. i - L \in 1 .. n /\ i = L + (i - L)
        BY <1>3
    <2> QED BY <2>1
<1>5. \A m \in 1 .. n : L + m \in L + 1 .. L + n
    BY <1>3
<1>6. ASSUME NEW i PROVE i \in u_Places(ids \o t) <=> i \in u_Places(ids) \cup T
    <2>1. ASSUME i \in u_Tools(ids) PROVE i \in u_Places(ids \o t) <=> i \in u_Places(ids)
        BY <1>2, <2>1 DEF u_Places
    <2>2. ASSUME i \in L + 1 .. L + n PROVE i \in u_Places(ids \o t) <=> i \in T
        <3>1. PICK m \in 1 .. n : i = L + m
            BY <1>4, <2>2
        <3>2. i \in u_Places(ids \o t) <=> t[m].placeholders = 1
            BY <1>2, <2>2, <3>1 DEF u_Places
        <3>3. i \in T <=> m \in S
            <4>1. \A o \in S : L + o = L + m => o = m
                BY <1>3
            <4> QED BY <3>1, <4>1
        <3> QED BY <3>2, <3>3
    <2>3. i \in u_Places(ids \o t) => i \in u_Tools(ids) \/ i \in L + 1 .. L + n
        BY <1>2 DEF u_Places
    <2>4. i \in T => i \in L + 1 .. L + n
        BY <1>5
    <2>5. i \in u_Places(ids) => i \in u_Tools(ids)
        BY DEF u_Places
    <2>6. ~(i \in u_Tools(ids) /\ i \in L + 1 .. L + n)
        BY <1>3
    <2> QED BY <2>1, <2>2, <2>3, <2>4, <2>5, <2>6
<1>7. u_Places(ids \o t) = u_Places(ids) \cup T
    BY <1>6
<1>8. u_Places(ids) \cap T = {}
    <2>1. \A i \in u_Places(ids) : i \in 1 .. L
        BY <1>3 DEF u_Places
    <2>2. \A i \in T : i \in L + 1 .. L + n
        BY <1>5
    <2>3. \A i \in 1 .. L : ~(i \in L + 1 .. L + n)
        BY <1>3
    <2> HIDE DEF T
    <2> QED BY <2>1, <2>2, <2>3
<1>9. IsFiniteSet(T) /\ Cardinality(T) = Cardinality(S) /\ Cardinality(S) \in Nat
    BY <1>3, Shifted
<1> HIDE DEF T, S
<1>10. Cardinality(u_Places(ids) \cup T)
          = Cardinality(u_Places(ids)) + Cardinality(T) - Cardinality(u_Places(ids) \cap T)
    BY <1>3, <1>9, FS_Union
<1>11. Cardinality(u_Places(ids) \cap T) = 0
    BY <1>8, FS_EmptySet
<1>12. Cardinality(u_Places(ids \o t)) = Cardinality(u_Places(ids)) + Cardinality(S)
    BY <1>3, <1>7, <1>9, <1>10, <1>11
<1> QED BY <1>12 DEF S
-----------------------------------------------------------------------------
(* The agent with tools in any configuration                                *)
u_Tokens(c) ==
    {[by |-> "prompt"]} \cup [by : {"model"}, version : 0 .. c.versions]
        \cup [by : {"tool"}, call : Nat \X Nat, placeholders : {0, 1}]
u_Calls(c) ==
    [kind : {"refused", "function", "tool"}, at : {"called", "created", "executed", "done", "release failed"},
     answer : c.answers \cup {"text", None}]

u_Types(c) ==
    /\ t_state \in {"PENDING", "GENERATING", "PROCESSING_TOOLS", "TERMINATED", "returned", "raised"}
    /\ t_prompt_ids \in Seq(u_Tokens(c))
    /\ t_response_mask \in Seq({0, 1}) /\ t_response_logprobs \in Seq({"logprob", "0.0"})
    /\ t_tool_rewards \in Seq(Nat \X Nat)
    /\ t_assistant_turns \in Nat /\ t_user_turns \in Nat /\ t_image_data \in Nat
    /\ t_version \in 0 .. c.versions

u_CallsOK(c) ==
    /\ \E k \in 0 .. c.parallel : t_calls \in [1 .. k -> u_Calls(c)]
    /\ \A i \in DOMAIN t_calls :
          t_calls[i].at \in {"executed", "done"} => t_calls[i].answer \in c.answers \cup {"text"}

u_TurnsOK ==
    /\ t_user_turns <= t_assistant_turns
    /\ t_state = "PROCESSING_TOOLS" => t_user_turns < t_assistant_turns

(* The tokens of the response, and where the state allows it to end.        *)
u_Whole(c) ==
    /\ \E p \in 0 .. c.prompt : u_Fit(p, t_prompt_ids, t_response_mask) /\ (t_state \notin {"PENDING", "raised"} => p >= 1)
    /\ IF c.logprobs THEN u_Scored(t_response_mask, t_response_logprobs) ELSE t_response_logprobs = << >>
    /\ t_state \in {"GENERATING", "PROCESSING_TOOLS"} => Len(t_response_mask) < c.response
    /\ t_state = "PROCESSING_TOOLS" =>
          Len(t_response_mask) >= 1 /\ t_response_mask[Len(t_response_mask)] = 1
    /\ t_state = "TERMINATED" =>
          \A n \in Nat : (n = c.response /\ n <= Len(t_response_mask)) => t_response_mask[n] = 1
    /\ t_state = "TERMINATED" /\ ~c.aborts =>
          /\ Len(t_response_mask) >= 1
          /\ \A n \in Nat : (n = Len(t_response_mask) /\ n < c.response) => t_response_mask[n] = 1

u_Answers(c) ==
    /\ u_Told(t_prompt_ids, t_tool_rewards, t_user_turns)
    /\ t_state \in {"PENDING", "GENERATING", "PROCESSING_TOOLS"} =>
          Cardinality(u_Tools(t_prompt_ids)) = Len(t_tool_rewards)
    /\ "images" \notin c.answers => t_image_data = Cardinality(u_Places(t_prompt_ids))
    /\ t_state = "PENDING" =>
          /\ t_response_mask = << >> /\ t_response_logprobs = << >> /\ t_tool_rewards = << >>
          /\ t_image_data = 0

u_Spanned(c, fields, ids, version) ==
    \/ fields = None /\ \A i \in DOMAIN ids : ids[i].by # "model"
    \/ \E a, b \in 0 .. c.versions :
          /\ fields = [min |-> a, max |-> b] /\ a <= version /\ b <= version
          /\ \A i \in DOMAIN ids : ids[i].by = "model" =>
                ids[i].version \in Nat /\ a <= ids[i].version /\ ids[i].version <= b

u_Good(c, o) ==
    /\ Len(o.response_mask) = Len(o.response_ids)
    /\ \A i \in DOMAIN o.response_ids :
          o.response_ids[i].by = IF o.response_mask[i] = 1 THEN "model" ELSE "tool"
    /\ \A i \in DOMAIN o.prompt_ids : o.prompt_ids[i] = [by |-> "prompt"]
    /\ o.response_logprobs # << >> =>
          /\ Len(o.response_logprobs) = Len(o.response_mask)
          /\ \A i \in DOMAIN o.response_mask :
                (o.response_mask[i] = 1) <=> (o.response_logprobs[i] = "logprob")
    /\ (c.aborts /\ Len(o.response_mask) < c.response) \/ o.response_mask[Len(o.response_mask)] = 1

(* What is returned when nothing was generated.                             *)
u_Nothing(c, o) == c.aborts /\ o.response_mask = << >> /\ o.response_logprobs = << >>

u_Kept(c, o) == o = None \/ u_Good(c, o) \/ u_Nothing(c, o)

u_Inv(c) ==
    /\ u_Types(c) /\ u_CallsOK(c) /\ u_TurnsOK /\ u_Whole(c) /\ u_Answers(c)
    /\ u_Spanned(c, t_extra_fields, t_prompt_ids, t_version)
    /\ u_Kept(c, t_output)

LEMMA u_Constants ==
    ASSUME NEW c, ToolsAssumption(c)
    PROVE  /\ c.prompt \in Nat \ {0} /\ c.response \in Nat \ {0} /\ c.parallel \in Nat \ {0} /\ c.parsed \in Nat
           /\ c.assistant \in Nat /\ c.user \in Nat /\ c.answers \subseteq {"text", "image", "images", "video"}
           /\ c.logprobs \in BOOLEAN /\ c.aborts \in BOOLEAN /\ c.versions \in Nat
           /\ \A a, b \in 0 .. c.versions : None # [min |-> a, max |-> b]
<1>1. c.prompt \in Nat \ {0} /\ c.response \in Nat \ {0} /\ c.parallel \in Nat \ {0} /\ c.parsed \in Nat
    BY Zenon DEF ToolsAssumption, ToolsOf!LengthsAssumption
<1>2. c.assistant \in Nat /\ c.user \in Nat
    BY Zenon DEF ToolsAssumption, ToolsOf!TurnsAssumption
<1>3. /\ c.answers \subseteq {"text", "image", "images", "video"}
      /\ c.logprobs \in BOOLEAN /\ c.aborts \in BOOLEAN /\ c.versions \in Nat
      /\ \A a, b \in 0 .. c.versions : None # [min |-> a, max |-> b]
    BY Zenon DEF ToolsAssumption, ToolsOf!ChoicesAssumption
<1> QED BY <1>1, <1>2, <1>3

LEMMA u_TokensAre ==
    ASSUME NEW c
    PROVE  /\ [by |-> "prompt"] \in u_Tokens(c)
           /\ \A v \in 0 .. c.versions : [by |-> "model", version |-> v] \in u_Tokens(c)
           /\ \A x \in Nat \X Nat, p \in {0, 1} : [by |-> "tool", call |-> x, placeholders |-> p] \in u_Tokens(c)
    BY DEF u_Tokens

LEMMA u_NoCalls == ASSUME NEW X PROVE << >> \in [1 .. 0 -> X] /\ DOMAIN << >> = {}
<1>1. << >> \in Seq(X) /\ Len(<< >>) = 0
    BY EmptySeq
<1>2. << >> \in [1 .. Len(<< >>) -> X]
    BY <1>1, LenProperties
<1>3. 1 .. 0 = {}
    OBVIOUS
<1> QED BY <1>1, <1>2, <1>3

LEMMA u_LenIs ==
    ASSUME NEW X, NEW k \in Nat, NEW s \in [1 .. k -> X]
    PROVE  s \in Seq(X) /\ Len(s) = k /\ DOMAIN s = 1 .. k
<1>1. s \in Seq(X)
    BY SeqDef
<1>2. Len(s) \in Nat /\ DOMAIN s = 1 .. Len(s) /\ DOMAIN s = 1 .. k
    BY <1>1
<1> QED BY <1>1, <1>2

LEMMA u_Inits ==
    ASSUME NEW c, ToolsAssumption(c), ToolsOf(c)!Init
    PROVE  u_Inv(c)
<1>1. /\ t_state = "PENDING" /\ t_prompt_ids = << >> /\ t_response_mask = << >> /\ t_response_logprobs = << >>
      /\ t_assistant_turns = 0 /\ t_user_turns = 0 /\ t_image_data = 0 /\ t_tool_rewards = << >>
      /\ t_extra_fields = None /\ t_calls = << >> /\ t_version = 0 /\ t_output = None
    BY Zenon DEF ToolsOf!Init
<1>2. /\ c.prompt \in Nat /\ c.parallel \in Nat /\ c.versions \in Nat /\ c.logprobs \in BOOLEAN
    BY u_Constants
<1>3. \A X : << >> \in Seq(X) /\ Len(<< >>) = 0
    BY EmptySeq
<1>4. DOMAIN << >> = {} /\ << >> \in [1 .. 0 -> u_Calls(c)]
    BY u_NoCalls
<1>5. u_Types(c)
    BY <1>1, <1>2, <1>3 DEF u_Types
<1>6. u_CallsOK(c)
    <2>1. 0 \in 0 .. c.parallel
        BY <1>2
    <2> QED BY <1>1, <1>4, <2>1 DEF u_CallsOK
<1>7. u_TurnsOK
    BY <1>1 DEF u_TurnsOK
<1>8. u_Whole(c)
    <2>1. u_Fit(0, << >>, << >>) /\ u_Scored(<< >>, << >>)
        BY <1>3 DEF u_Fit, u_Scored
    <2>2. 0 \in 0 .. c.prompt
        BY <1>2
    <2> QED BY <1>1, <2>1, <2>2 DEF u_Whole
<1>9. u_Answers(c)
    <2>1. u_Tools(<< >>) = {} /\ u_Places(<< >>) = {}
        BY <1>4 DEF u_Tools, u_Places
    <2>2. Cardinality({}) = 0
        BY FS_EmptySet
    <2>3. u_Told(<< >>, << >>, 0)
        <3>1. Cardinality(u_Tools(<< >>)) = 0 /\ Len(<< >>) = 0 /\ 0 + 1 .. 0 = {}
            BY <1>3, <2>1, <2>2
        <3> QED BY <2>1, <3>1 DEF u_Told
    <2> QED BY <1>1, <1>3, <2>1, <2>2, <2>3 DEF u_Answers
<1>10. u_Spanned(c, t_extra_fields, t_prompt_ids, t_version)
    BY <1>1, <1>4 DEF u_Spanned
<1> QED BY <1>1, <1>5, <1>6, <1>7, <1>8, <1>9, <1>10 DEF u_Inv, u_Kept
-----------------------------------------------------------------------------
(* Its actions                                                              *)
LEMMA u_Pending ==
    ASSUME NEW c, ToolsAssumption(c), u_Inv(c), ToolsOf(c)!HandlePending
    PROVE  u_Inv(c)'
<1>1. PICK n \in 1 .. c.prompt : t_prompt_ids' = [i \in 1 .. n |-> [by |-> "prompt"]]
    BY Zenon DEF ToolsOf!HandlePending, ToolsOf!Prompt
<1>2. /\ t_state = "PENDING" /\ t_state' = "GENERATING"
      /\ t_response_mask' = t_response_mask /\ t_response_logprobs' = t_response_logprobs
      /\ t_assistant_turns' = t_assistant_turns /\ t_user_turns' = t_user_turns
      /\ t_image_data' = t_image_data /\ t_tool_rewards' = t_tool_rewards
      /\ t_extra_fields' = t_extra_fields /\ t_calls' = t_calls /\ t_version' = t_version /\ t_output' = t_output
    BY Zenon DEF ToolsOf!HandlePending
<1>3. u_Types(c) /\ u_CallsOK(c) /\ u_TurnsOK /\ u_Whole(c) /\ u_Answers(c)
      /\ u_Spanned(c, t_extra_fields, t_prompt_ids, t_version)
    BY DEF u_Inv
<1>4. /\ t_response_mask = << >> /\ t_response_logprobs = << >> /\ t_tool_rewards = << >> /\ t_image_data = 0
    BY <1>2, <1>3 DEF u_Answers
<1>5. c.prompt \in Nat /\ c.response \in Nat \ {0} /\ c.versions \in Nat
    BY u_Constants
<1>6. Len(<< >>) = 0
    BY EmptySeq
<1>7. /\ t_prompt_ids' \in Seq(u_Tokens(c)) /\ Len(t_prompt_ids') = n /\ DOMAIN t_prompt_ids' = 1 .. n
      /\ \A i \in 1 .. n : t_prompt_ids'[i] = [by |-> "prompt"] /\ t_prompt_ids'[i].by = "prompt"
    <2>1. t_prompt_ids' \in [1 .. n -> u_Tokens(c)]
        BY <1>1, u_TokensAre
    <2>2. n \in Nat
        BY <1>5
    <2> QED BY <1>1, <2>1, <2>2, u_LenIs
<1>8. u_Types(c)'
    BY <1>2, <1>3, <1>7 DEF u_Types, u_Tokens
<1>9. u_CallsOK(c)'
    BY <1>2, <1>3 DEF u_CallsOK, u_Calls
<1>10. u_TurnsOK'
    BY <1>2, <1>3 DEF u_TurnsOK
<1>11. u_Whole(c)'
    <2>1. u_Fit(n, t_prompt_ids', << >>)
        BY <1>5, <1>6, <1>7 DEF u_Fit
    <2>2. n \in 0 .. c.prompt /\ n >= 1
        BY <1>5
    <2>3. IF c.logprobs THEN u_Scored(t_response_mask, t_response_logprobs) ELSE t_response_logprobs = << >>
        BY <1>3 DEF u_Whole
    <2> QED BY <1>2, <1>4, <1>5, <1>6, <2>1, <2>2, <2>3 DEF u_Whole
<1>12. u_Tools(t_prompt_ids') = {}
    BY <1>7 DEF u_Tools
<1>13. u_Answers(c)'
    <2>1. u_Places(t_prompt_ids') = {} /\ Cardinality({}) = 0
        BY <1>12, FS_EmptySet DEF u_Places
    <2>2. Cardinality(u_Tools(t_prompt_ids')) = 0 /\ 0 + 1 .. 0 = {}
        BY <1>12, <2>1
    <2>3. u_Told(t_prompt_ids', << >>, t_user_turns)
        BY <1>6, <1>12, <2>2 DEF u_Told
    <2> QED BY <1>2, <1>4, <1>6, <2>1, <2>2, <2>3 DEF u_Answers
<1>14. u_Spanned(c, t_extra_fields', t_prompt_ids', t_version')
    <2>1. \A i \in DOMAIN t_prompt_ids' : t_prompt_ids'[i].by # "model"
        BY <1>7
    <2> QED BY <1>2, <1>3, <2>1 DEF u_Spanned
<1>15. u_Kept(c, t_output')
    BY <1>2 DEF u_Inv, u_Kept, u_Good, u_Nothing
<1> QED BY <1>8, <1>9, <1>10, <1>11, <1>13, <1>14, <1>15 DEF u_Inv, u_Spanned, u_Kept, u_Good, u_Nothing

(* The trajectory and the output stay, the state at most fails.             *)
LEMMA u_Unmoved ==
    ASSUME NEW c, u_Inv(c), u_CallsOK(c)', t_state' \in {t_state, "raised"},
           UNCHANGED ToolsOf(c)!trajectory, t_version' = t_version, t_output' = t_output
    PROVE  u_Inv(c)'
<1>1. /\ t_prompt_ids' = t_prompt_ids
      /\ t_response_mask' = t_response_mask /\ t_response_logprobs' = t_response_logprobs
      /\ t_assistant_turns' = t_assistant_turns /\ t_user_turns' = t_user_turns
      /\ t_image_data' = t_image_data /\ t_tool_rewards' = t_tool_rewards
      /\ t_extra_fields' = t_extra_fields /\ t_version' = t_version /\ t_output' = t_output
    BY DEF ToolsOf!trajectory
<1>2. u_Types(c)'
    BY <1>1 DEF u_Inv, u_Types, u_Tokens
<1>3. u_TurnsOK'
    BY <1>1 DEF u_Inv, u_TurnsOK
<1>4. u_Whole(c)'
    <2>1. u_Whole(c) /\ u_Types(c)
        BY DEF u_Inv
    <2>2. \E p \in 0 .. c.prompt : u_Fit(p, t_prompt_ids', t_response_mask') /\ (t_state' \notin {"PENDING", "raised"} => p >= 1)
        <3>1. PICK p \in 0 .. c.prompt : u_Fit(p, t_prompt_ids, t_response_mask) /\ (t_state \notin {"PENDING", "raised"} => p >= 1)
            BY <2>1 DEF u_Whole
        <3> QED BY <1>1, <3>1
    <2> QED BY <1>1, <2>1, <2>2 DEF u_Whole
<1> QED BY <1>1, <1>2, <1>3, <1>4 DEF u_Inv, u_Answers, u_Spanned, u_Good

LEMMA u_Set ==
    ASSUME NEW c, u_CallsOK(c), NEW i \in DOMAIN t_calls,
           NEW at \in {"called", "created", "executed", "done", "release failed"},
           NEW answer \in c.answers \cup {"text", None},
           at \in {"executed", "done"} => answer \in c.answers \cup {"text"},
           ToolsOf(c)!Set(i, at, answer)
    PROVE  u_CallsOK(c)'
<1>1. t_calls' = [t_calls EXCEPT ![i].at = at, ![i].answer = answer]
    BY Zenon DEF ToolsOf!Set
<1>2. PICK k \in 0 .. c.parallel : t_calls \in [1 .. k -> u_Calls(c)]
    BY DEF u_CallsOK
<1>3. /\ t_calls' \in [1 .. k -> u_Calls(c)]
      /\ t_calls'[i].at = at /\ t_calls'[i].answer = answer
      /\ \A j \in 1 .. k : j # i => t_calls'[j] = t_calls[j]
    BY <1>1, <1>2 DEF u_Calls
<1>4. DOMAIN t_calls = 1 .. k /\ DOMAIN t_calls' = 1 .. k
    BY <1>2, <1>3
<1>5. ASSUME NEW j \in DOMAIN t_calls', t_calls'[j].at \in {"executed", "done"}
      PROVE  t_calls'[j].answer \in c.answers \cup {"text"}
    <2>1. CASE j = i
        BY <1>3, <1>5, <2>1
    <2>2. CASE j # i
        BY <1>3, <1>4, <1>5, <2>2 DEF u_CallsOK
    <2> QED BY <2>1, <2>2
<1> QED BY <1>3, <1>5 DEF u_CallsOK, u_Calls

LEMMA u_Called ==
    ASSUME NEW c, ToolsAssumption(c), u_Inv(c), NEW i \in DOMAIN t_calls, ToolsOf(c)!CallTool(i)
    PROVE  u_Inv(c)'
<1>1. u_CallsOK(c)
    BY DEF u_Inv
<1>2. /\ u_CallsOK(c)' /\ t_state' \in {t_state, "raised"}
      /\ UNCHANGED ToolsOf(c)!trajectory /\ t_version' = t_version /\ t_output' = t_output
    <2>1. CASE ToolsOf(c)!Refuse(i)
        <3>1. ToolsOf(c)!Set(i, "done", "text") /\ t_state' = t_state
              /\ UNCHANGED ToolsOf(c)!trajectory /\ t_version' = t_version /\ t_output' = t_output
            BY <2>1, Zenon DEF ToolsOf!Refuse
        <3>2. u_CallsOK(c)'
            BY <1>1, <3>1, u_Set
        <3> QED BY <3>1, <3>2
    <2>2. CASE ToolsOf(c)!CallFunction(i)
        <3>1. t_state' = t_state
              /\ UNCHANGED ToolsOf(c)!trajectory /\ t_version' = t_version /\ t_output' = t_output
            BY <2>2, Zenon DEF ToolsOf!CallFunction
        <3>2. PICK answer \in c.answers \cup {"text"} : ToolsOf(c)!Set(i, "done", answer)
            BY <2>2, Zenon DEF ToolsOf!CallFunction
        <3>3. u_CallsOK(c)'
            <4>1. answer \in c.answers \cup {"text", None}
                OBVIOUS
            <4> QED BY <1>1, <3>2, <4>1, u_Set
        <3> QED BY <3>1, <3>3
    <2>3. CASE ToolsOf(c)!Create(i)
        <3>1. t_state' = t_state
              /\ UNCHANGED ToolsOf(c)!trajectory /\ t_version' = t_version /\ t_output' = t_output
            BY <2>3, Zenon DEF ToolsOf!Create
        <3>2. ToolsOf(c)!Set(i, "created", None) \/ ToolsOf(c)!Set(i, "done", "text")
            BY <2>3, Zenon DEF ToolsOf!Create
        <3>3. u_CallsOK(c)'
            BY <1>1, <3>2, u_Set
        <3> QED BY <3>1, <3>3
    <2>4. CASE ToolsOf(c)!Execute(i)
        <3>1. t_state' = t_state
              /\ UNCHANGED ToolsOf(c)!trajectory /\ t_version' = t_version /\ t_output' = t_output
            BY <2>4, Zenon DEF ToolsOf!Execute
        <3>2. PICK answer \in c.answers \cup {"text"} : ToolsOf(c)!Set(i, "executed", answer)
            BY <2>4, Zenon DEF ToolsOf!Execute
        <3>3. u_CallsOK(c)'
            <4>1. answer \in c.answers \cup {"text", None}
                OBVIOUS
            <4> QED BY <1>1, <3>2, <4>1, u_Set
        <3> QED BY <3>1, <3>3
    <2>5. CASE ToolsOf(c)!Release(i)
        <3>1. /\ t_calls[i].at = "executed" /\ t_state' \in {t_state, "raised"}
              /\ UNCHANGED ToolsOf(c)!trajectory /\ t_version' = t_version /\ t_output' = t_output
            BY <2>5, Zenon DEF ToolsOf!Release
        <3>2. ToolsOf(c)!Set(i, "done", t_calls[i].answer) \/ ToolsOf(c)!Set(i, "release failed", None)
            BY <2>5, Zenon DEF ToolsOf!Release
        <3>3. t_calls[i].answer \in c.answers \cup {"text"}
            BY <1>1, <3>1 DEF u_CallsOK
        <3>4. u_CallsOK(c)'
            <4>1. ASSUME NEW answer, answer = t_calls[i].answer, ToolsOf(c)!Set(i, "done", answer)
                  PROVE  u_CallsOK(c)'
                <5>1. answer \in c.answers \cup {"text", None} /\ answer \in c.answers \cup {"text"}
                    BY <3>3, <4>1
                <5> QED BY <1>1, <4>1, <5>1, u_Set
            <4>2. CASE ToolsOf(c)!Set(i, "release failed", None)
                BY <1>1, <4>2, u_Set
            <4> QED BY <3>2, <4>1, <4>2
        <3> QED BY <3>1, <3>4
    <2> QED BY <2>1, <2>2, <2>3, <2>4, <2>5, Zenon DEF ToolsOf!CallTool
<1> QED BY <1>2, u_Unmoved

LEMMA u_Video ==
    ASSUME NEW c, ToolsAssumption(c), u_Inv(c), ToolsOf(c)!VideoAnswered
    PROVE  u_Inv(c)'
<1>1. /\ t_state' = "raised" /\ t_calls' = t_calls
      /\ UNCHANGED ToolsOf(c)!trajectory /\ t_version' = t_version /\ t_output' = t_output
    BY Zenon DEF ToolsOf!VideoAnswered
<1>2. u_CallsOK(c)'
    BY <1>1 DEF u_Inv, u_CallsOK, u_Calls
<1> QED BY <1>1, <1>2, u_Unmoved

(* The versions reported bracket the tokens that are added.                 *)
LEMMA u_SpanKeeps ==
    ASSUME NEW c, NEW U, NEW ids \in Seq(U), NEW n \in Nat, NEW t \in [1 .. n -> U],
           \A i \in 1 .. n : t[i].by # "model", NEW fields, NEW v, u_Spanned(c, fields, ids, v)
    PROVE  u_Spanned(c, fields, ids \o t, v)
<1>0. Grows(ids, n, t)
    BY Grown
<1>1. /\ DOMAIN ids = 1 .. Len(ids) /\ DOMAIN (ids \o t) = 1 .. Len(ids) + n /\ Len(ids) \in Nat
      /\ \A i \in 1 .. Len(ids) : (ids \o t)[i] = ids[i]
      /\ \A i \in 1 .. n : (ids \o t)[Len(ids) + i] = t[i]
      /\ \A i \in 1 .. Len(ids) + n : i \in 1 .. Len(ids) \/ \E j \in 1 .. n : i = Len(ids) + j
    BY <1>0 DEF Grows
<1>2. ASSUME NEW i \in DOMAIN (ids \o t), (ids \o t)[i].by = "model"
      PROVE  i \in DOMAIN ids /\ (ids \o t)[i] = ids[i]
    <2>1. i \in 1 .. Len(ids) + n
        BY <1>1
    <2>2. ~ \E j \in 1 .. n : i = Len(ids) + j
        BY <1>1, <1>2
    <2> QED BY <1>1, <2>1, <2>2
<1>3. CASE fields = None /\ \A i \in DOMAIN ids : ids[i].by # "model"
    <2>1. \A i \in DOMAIN (ids \o t) : (ids \o t)[i].by # "model"
        <3> TAKE i \in DOMAIN (ids \o t)
        <3>1. SUFFICES ASSUME (ids \o t)[i].by = "model" PROVE FALSE
            OBVIOUS
        <3> QED BY <1>2, <1>3, <3>1
    <2> QED BY <1>3, <2>1 DEF u_Spanned
<1>4. CASE \E a, b \in 0 .. c.versions :
              /\ fields = [min |-> a, max |-> b] /\ a <= v /\ b <= v
              /\ \A i \in DOMAIN ids : ids[i].by = "model" =>
                    ids[i].version \in Nat /\ a <= ids[i].version /\ ids[i].version <= b
    <2>1. PICK a \in 0 .. c.versions, b \in 0 .. c.versions :
              /\ fields = [min |-> a, max |-> b] /\ a <= v /\ b <= v
              /\ \A i \in DOMAIN ids : ids[i].by = "model" =>
                    ids[i].version \in Nat /\ a <= ids[i].version /\ ids[i].version <= b
        BY <1>4
    <2>2. \A i \in DOMAIN (ids \o t) : (ids \o t)[i].by = "model" =>
             (ids \o t)[i].version \in Nat /\ a <= (ids \o t)[i].version /\ (ids \o t)[i].version <= b
        <3> TAKE i \in DOMAIN (ids \o t)
        <3>1. SUFFICES ASSUME (ids \o t)[i].by = "model"
                       PROVE  (ids \o t)[i].version \in Nat /\ a <= (ids \o t)[i].version /\ (ids \o t)[i].version <= b
            OBVIOUS
        <3>2. i \in DOMAIN ids /\ (ids \o t)[i] = ids[i]
            BY <1>2, <3>1
        <3> QED BY <2>1, <3>1, <3>2, Zenon
    <2> QED BY <2>1, <2>2 DEF u_Spanned
<1> QED BY <1>3, <1>4, Zenon DEF u_Spanned

LEMMA u_SpanGrows ==
    ASSUME NEW c, ToolsAssumption(c), NEW U, NEW ids \in Seq(U), NEW n \in Nat, NEW t \in [1 .. n -> U],
           NEW v \in 0 .. c.versions, NEW low \in v .. c.versions, NEW high \in low .. c.versions,
           \A i \in 1 .. n : t[i].by = "model" /\ t[i].version = high,
           u_Spanned(c, t_extra_fields, ids, v)
    PROVE  u_Spanned(c, ToolsOf(c)!MergedFields(low, high), ids \o t, high)
<1>0. Grows(ids, n, t)
    BY Grown
<1>1. /\ DOMAIN ids = 1 .. Len(ids) /\ DOMAIN (ids \o t) = 1 .. Len(ids) + n /\ Len(ids) \in Nat
      /\ \A i \in 1 .. Len(ids) : (ids \o t)[i] = ids[i]
      /\ \A i \in 1 .. n : (ids \o t)[Len(ids) + i] = t[i]
      /\ \A i \in 1 .. Len(ids) + n : i \in 1 .. Len(ids) \/ \E j \in 1 .. n : i = Len(ids) + j
    BY <1>0 DEF Grows
<1>2. \A a, b \in 0 .. c.versions : None # [min |-> a, max |-> b]
    BY u_Constants
<1>3. c.versions \in Nat /\ low \in 0 .. c.versions /\ high \in 0 .. c.versions /\ v <= low /\ low <= high
    BY u_Constants
<1>4. ASSUME NEW a \in 0 .. c.versions, a <= high,
             \A i \in DOMAIN ids : ids[i].by = "model" =>
                ids[i].version \in Nat /\ a <= ids[i].version /\ ids[i].version <= high
      PROVE  u_Spanned(c, [min |-> a, max |-> high], ids \o t, high)
    <2>1. ASSUME NEW i \in DOMAIN (ids \o t), (ids \o t)[i].by = "model"
          PROVE  (ids \o t)[i].version \in Nat /\ a <= (ids \o t)[i].version /\ (ids \o t)[i].version <= high
        <3>1. CASE i \in 1 .. Len(ids)
            BY <1>1, <1>4, <2>1, <3>1
        <3>2. CASE ~(i \in 1 .. Len(ids))
            <4>1. PICK j \in 1 .. n : i = Len(ids) + j
                BY <1>1, <3>2
            <4>2. (ids \o t)[i].version = high
                BY <1>1, <4>1
            <4> QED BY <1>3, <1>4, <4>2
        <3> QED BY <3>1, <3>2
    <2>2. high <= high
        BY <1>3
    <2> QED BY <1>3, <1>4, <2>1, <2>2 DEF u_Spanned
<1>5. CASE t_extra_fields = None /\ \A i \in DOMAIN ids : ids[i].by # "model"
    <2>1. ToolsOf(c)!MergedFields(low, high) = [min |-> low, max |-> high]
        BY <1>5, Zenon DEF ToolsOf!MergedFields
    <2> QED BY <1>3, <1>4, <1>5, <2>1
<1>6. CASE \E a, b \in 0 .. c.versions :
              /\ t_extra_fields = [min |-> a, max |-> b] /\ a <= v /\ b <= v
              /\ \A i \in DOMAIN ids : ids[i].by = "model" =>
                    ids[i].version \in Nat /\ a <= ids[i].version /\ ids[i].version <= b
    <2>1. PICK a \in 0 .. c.versions, b \in 0 .. c.versions :
              /\ t_extra_fields = [min |-> a, max |-> b] /\ a <= v /\ b <= v
              /\ \A i \in DOMAIN ids : ids[i].by = "model" =>
                    ids[i].version \in Nat /\ a <= ids[i].version /\ ids[i].version <= b
        BY <1>6
    <2>2. t_extra_fields # None
        BY <1>2, <2>1
    <2>3. ToolsOf(c)!MergedFields(low, high)
             = IF high # 0 THEN [t_extra_fields EXCEPT !.max = high] ELSE t_extra_fields
        BY <2>2, Zenon DEF ToolsOf!MergedFields
    <2>4. ToolsOf(c)!MergedFields(low, high) = [min |-> a, max |-> high]
        <3>1. CASE high # 0
            BY <2>1, <2>3, <3>1
        <3>2. CASE high = 0
            <4>1. b = 0
                BY <1>3, <2>1, <3>2
            <4> QED BY <2>1, <2>3, <3>2, <4>1
        <3> QED BY <3>1, <3>2
    <2>5. \A i \in DOMAIN ids : ids[i].by = "model" =>
             ids[i].version \in Nat /\ a <= ids[i].version /\ ids[i].version <= high
        <3> TAKE i \in DOMAIN ids
        <3>1. SUFFICES ASSUME ids[i].by = "model"
                       PROVE  ids[i].version \in Nat /\ a <= ids[i].version /\ ids[i].version <= high
            OBVIOUS
        <3>2. ids[i].version \in Nat /\ a <= ids[i].version /\ ids[i].version <= b /\ b <= v
            BY <2>1, <3>1, Zenon
        <3> QED BY <1>3, <3>2
    <2>6. a <= high
        BY <1>3, <2>1
    <2> QED BY <1>4, <2>4, <2>5, <2>6
<1> QED BY <1>5, <1>6, Zenon DEF u_Spanned

(* The turns, calls and versions when the answers are taken, in or out of   *)
(* the trajectory.                                                          *)
u_Messaged(c, k, t, x) ==
    /\ t_calls \in [1 .. k -> u_Calls(c)] /\ Len(t_calls) = k
    /\ t \in [1 .. k -> u_Tokens(c)] /\ u_Messages(t, k, t_user_turns)
    /\ x \in [1 .. k -> Nat \X Nat] /\ \A m \in 1 .. k : x[m] = <<t_user_turns, m>>
    /\ \A m \in 1 .. k : t[m].placeholders = 1 <=> t_calls[m].answer \in {"image", "images"}
    /\ \A m \in 1 .. k : t_calls[m].answer \in c.answers \cup {"text"}

LEMMA u_MessagesAre ==
    ASSUME NEW c, ToolsAssumption(c), u_Inv(c), ToolsOf(c)!AllAnswered,
           NEW t, t = ToolsOf(c)!AddMessages, NEW x, x = [i \in DOMAIN t_calls |-> <<t_user_turns, i>>]
    PROVE  \E k \in 0 .. c.parallel : u_Messaged(c, k, t, x)
<1>1. PICK k \in 0 .. c.parallel : t_calls \in [1 .. k -> u_Calls(c)]
    BY DEF u_Inv, u_CallsOK
<1>2. c.parallel \in Nat /\ k \in Nat
    BY u_Constants
<1>3. Len(t_calls) = k /\ DOMAIN t_calls = 1 .. k
    BY <1>1, <1>2, u_LenIs
<1>4. \A i \in 1 .. k : t_calls[i].at = "done" /\ t_calls[i].answer \in c.answers \cup {"text"}
    <2>1. \A i \in DOMAIN t_calls : t_calls[i].at = "done"
        BY Zenon DEF ToolsOf!AllAnswered
    <2> QED BY <1>3, <2>1 DEF u_Inv, u_CallsOK
<1>5. t_user_turns \in Nat
    BY DEF u_Inv, u_Types
<1>6. t = [i \in 1 .. k |-> [by |-> "tool", call |-> <<t_user_turns, i>>,
                             placeholders |-> IF t_calls[i].answer \in {"image", "images"} THEN 1 ELSE 0]]
    BY <1>3, Zenon DEF ToolsOf!AddMessages, ToolsOf!Tool, ToolsOf!Placeholders
<1>7. ASSUME NEW m \in 1 .. k
      PROVE  /\ t[m] \in u_Tokens(c) /\ t[m].by = "tool" /\ t[m].call = <<t_user_turns, m>>
             /\ t[m].placeholders = 1 <=> t_calls[m].answer \in {"image", "images"}
             /\ x[m] = <<t_user_turns, m>> /\ x[m] \in Nat \X Nat
    <2>1. m \in Nat
        BY <1>2
    <2> QED BY <1>3, <1>5, <1>6, <2>1 DEF u_Tokens
<1>8. t \in [1 .. k -> u_Tokens(c)]
    <2>1. DOMAIN t = 1 .. k /\ t = [i \in DOMAIN t |-> t[i]]
        BY <1>6
    <2> QED BY <1>7, <2>1
<1>9. x \in [1 .. k -> Nat \X Nat]
    <2>1. DOMAIN x = 1 .. k /\ x = [i \in DOMAIN x |-> x[i]]
        BY <1>3
    <2> QED BY <1>7, <2>1
<1> QED BY <1>1, <1>3, <1>4, <1>7, <1>8, <1>9 DEF u_Messaged, u_Messages

LEMMA u_ImagesAre ==
    ASSUME NEW c, ToolsAssumption(c), NEW k \in Nat, NEW t, NEW x, u_Messaged(c, k, t, x),
           "images" \notin c.answers
    PROVE  /\ ToolsOf(c)!NewImages = Cardinality({m \in 1 .. k : t[m].placeholders = 1})
           /\ ToolsOf(c)!NewImages \in Nat
<1>1. DOMAIN t_calls = 1 .. k
    BY DEF u_Messaged
<1>2. /\ \A m \in 1 .. k : t[m].placeholders = 1 <=> t_calls[m].answer \in {"image", "images"}
      /\ \A m \in 1 .. k : t_calls[m].answer \in c.answers \cup {"text"}
    BY DEF u_Messaged
<1>3. ToolsOf(c)!NewImages
         = Cardinality({i \in DOMAIN t_calls : t_calls[i].answer = "image"})
              + 2 * Cardinality({i \in DOMAIN t_calls : t_calls[i].answer = "images"})
    BY Zenon DEF ToolsOf!NewImages, ToolsOf!Cardinality, Cardinality
<1>4. {i \in DOMAIN t_calls : t_calls[i].answer = "images"} = {}
    BY <1>1, <1>2
<1>5. {i \in DOMAIN t_calls : t_calls[i].answer = "image"} = {m \in 1 .. k : t[m].placeholders = 1}
    BY <1>1, <1>2
<1>6. Cardinality({}) = 0
    BY FS_EmptySet
<1>7. Cardinality({m \in 1 .. k : t[m].placeholders = 1}) \in Nat
    <2>1. IsFiniteSet(1 .. k)
        BY FS_Interval
    <2>2. {m \in 1 .. k : t[m].placeholders = 1} \subseteq 1 .. k
        OBVIOUS
    <2>3. IsFiniteSet({m \in 1 .. k : t[m].placeholders = 1})
        BY <2>1, <2>2, FS_Subset
    <2> QED BY <2>3, FS_CardinalityType
<1>8. \A a \in Nat : a + 2 * 0 = a
    OBVIOUS
<1>9. Cardinality({i \in DOMAIN t_calls : t_calls[i].answer = "images"}) = 0
    BY <1>4, <1>6
<1> QED BY <1>3, <1>5, <1>7, <1>8, <1>9, Zenon

LEMMA u_ImagesType ==
    ASSUME NEW c, NEW k \in Nat, t_calls \in [1 .. k -> u_Calls(c)]
    PROVE  ToolsOf(c)!NewImages \in Nat
<1>1. DOMAIN t_calls = 1 .. k
    OBVIOUS
<1>2. ToolsOf(c)!NewImages
         = Cardinality({i \in DOMAIN t_calls : t_calls[i].answer = "image"})
              + 2 * Cardinality({i \in DOMAIN t_calls : t_calls[i].answer = "images"})
    BY Zenon DEF ToolsOf!NewImages, ToolsOf!Cardinality, Cardinality
<1>3. ASSUME NEW S \in SUBSET (1 .. k) PROVE Cardinality(S) \in Nat
    <2>1. IsFiniteSet(1 .. k)
        BY FS_Interval
    <2>2. IsFiniteSet(S)
        BY <2>1, FS_Subset
    <2> QED BY <2>2, FS_CardinalityType
<1>4. /\ {i \in DOMAIN t_calls : t_calls[i].answer = "image"} \in SUBSET (1 .. k)
      /\ {i \in DOMAIN t_calls : t_calls[i].answer = "images"} \in SUBSET (1 .. k)
    BY <1>1
<1>5. /\ Cardinality({i \in DOMAIN t_calls : t_calls[i].answer = "image"}) \in Nat
      /\ Cardinality({i \in DOMAIN t_calls : t_calls[i].answer = "images"}) \in Nat
    BY <1>3, <1>4
<1> QED BY <1>2, <1>5

(* The answers fit: they become part of the trajectory.                     *)
LEMMA u_Processed ==
    ASSUME NEW c, ToolsAssumption(c), u_Inv(c), ToolsOf(c)!ProcessAnswers, ToolsOf(c)!Fits
    PROVE  u_Inv(c)'
<1> DEFINE t == ToolsOf(c)!AddMessages
           x == [i \in DOMAIN t_calls |-> <<t_user_turns, i>>]
           k == Len(t_calls)
<1>1. /\ ToolsOf(c)!AllAnswered /\ t_state = "PROCESSING_TOOLS"
      /\ t_tool_rewards' = t_tool_rewards \o x
      /\ t_prompt_ids' = t_prompt_ids \o t
      /\ t_response_mask' = t_response_mask \o [i \in 1 .. k |-> 0]
      /\ t_response_logprobs' = (IF t_response_logprobs = << >> THEN << >>
                                 ELSE t_response_logprobs \o [i \in 1 .. k |-> "0.0"])
      /\ t_image_data' = t_image_data + ToolsOf(c)!NewImages
      /\ t_user_turns' = t_user_turns + 1 /\ t_state' = "GENERATING"
      /\ t_calls' = << >>
      /\ t_assistant_turns' = t_assistant_turns /\ t_extra_fields' = t_extra_fields
      /\ t_version' = t_version /\ t_output' = t_output
    BY Zenon DEF ToolsOf!ProcessAnswers, ToolsOf!AllAnswered, ToolsOf!Repeat
<1>2. \E j \in 0 .. c.parallel : u_Messaged(c, j, t, x)
    BY <1>1, u_MessagesAre
<1>3. k \in 0 .. c.parallel /\ u_Messaged(c, k, t, x) /\ k \in Nat /\ c.parallel \in Nat
    <2>1. c.parallel \in Nat
        BY u_Constants
    <2> HIDE DEF t, x
    <2> QED BY <1>2, <2>1 DEF u_Messaged
<1>4. Len(t_response_mask) + k < c.response
    BY Zenon DEF ToolsOf!Fits
<1> HIDE DEF t, x, k
<1>5. /\ t \in [1 .. k -> u_Tokens(c)] /\ u_Messages(t, k, t_user_turns)
      /\ x \in [1 .. k -> Nat \X Nat] /\ \A m \in 1 .. k : x[m] = <<t_user_turns, m>>
      /\ t_calls \in [1 .. k -> u_Calls(c)]
    BY <1>3 DEF u_Messaged
<1>6. u_Types(c) /\ u_TurnsOK /\ u_Whole(c) /\ u_Answers(c)
      /\ u_Spanned(c, t_extra_fields, t_prompt_ids, t_version)
    BY DEF u_Inv
<1>7. /\ t_prompt_ids \in Seq(u_Tokens(c)) /\ t_response_mask \in Seq({0, 1})
      /\ t_response_logprobs \in Seq({"logprob", "0.0"}) /\ t_tool_rewards \in Seq(Nat \X Nat)
      /\ t_assistant_turns \in Nat /\ t_user_turns \in Nat /\ t_image_data \in Nat
    BY <1>6 DEF u_Types
<1>8. c.prompt \in Nat /\ c.response \in Nat /\ c.logprobs \in BOOLEAN
    BY u_Constants
<1>9. \A m \in 1 .. k : t[m].by = "tool"
    BY <1>5 DEF u_Messages
<1>10. [i \in 1 .. k |-> 0] \in [1 .. k -> {0, 1}]
    OBVIOUS
<1>11. /\ t_prompt_ids' \in Seq(u_Tokens(c)) /\ t_tool_rewards' \in Seq(Nat \X Nat)
       /\ t_response_mask' \in Seq({0, 1}) /\ Grows(t_response_mask, k, [i \in 1 .. k |-> 0])
    BY <1>1, <1>3, <1>5, <1>7, <1>10, Grown
<1>12. Len(t_response_mask') = Len(t_response_mask) + k /\ Len(t_response_mask) \in Nat
    BY <1>1, <1>11 DEF Grows
<1>13. PICK p \in 0 .. c.prompt : u_Fit(p, t_prompt_ids, t_response_mask) /\ p >= 1
    BY <1>1, <1>6 DEF u_Whole
<1>14. u_Fit(p, t_prompt_ids', t_response_mask')
    <2>1. p \in Nat
        BY <1>8
    <2>2. \A i \in 1 .. k : t[i].by = IF 0 = 1 THEN "model" ELSE "tool"
        BY <1>9
    <2> QED BY <1>1, <1>3, <1>5, <1>7, <1>13, <2>1, <2>2, u_FitGrows
<1>15. /\ t_response_logprobs' \in Seq({"logprob", "0.0"})
       /\ IF c.logprobs THEN u_Scored(t_response_mask', t_response_logprobs') ELSE t_response_logprobs' = << >>
    <2>1. CASE c.logprobs
        <3>1. u_Scored(t_response_mask, t_response_logprobs)
            BY <1>6, <2>1 DEF u_Whole
        <3>2. t_response_logprobs # << >>
            <4>1. Len(t_response_logprobs) >= 1
                BY <1>1, <1>6, <3>1 DEF u_Whole, u_Scored
            <4>2. Len(<< >>) = 0
                BY EmptySeq
            <4> QED BY <4>1, <4>2
        <3>3. t_response_logprobs' = t_response_logprobs \o [i \in 1 .. k |-> "0.0"]
            BY <1>1, <3>2
        <3>4. "0.0" = (IF 0 = 1 THEN "logprob" ELSE "0.0")
            OBVIOUS
        <3>5. /\ u_Scored(t_response_mask \o [i \in 1 .. k |-> 0], t_response_logprobs \o [i \in 1 .. k |-> "0.0"])
              /\ t_response_logprobs \o [i \in 1 .. k |-> "0.0"] \in Seq({"logprob", "0.0"})
            BY <1>3, <1>7, <3>1, <3>4, u_ScoredGrows
        <3> QED BY <1>1, <2>1, <3>3, <3>5
    <2>2. CASE ~c.logprobs
        <3>1. t_response_logprobs = << >>
            BY <1>6, <2>2 DEF u_Whole
        <3> QED BY <1>1, <1>7, <2>2, <3>1
    <2> QED BY <2>1, <2>2
<1>16. ToolsOf(c)!NewImages \in Nat
    BY <1>3, <1>5, u_ImagesType
<1>17. u_Types(c)'
    <2>1. t_image_data' \in Nat /\ t_user_turns' \in Nat
        BY <1>1, <1>7, <1>16
    <2> QED BY <1>1, <1>6, <1>11, <1>15, <2>1 DEF u_Types, u_Tokens
<1>18. u_CallsOK(c)'
    <2>1. 0 \in 0 .. c.parallel
        BY <1>3
    <2> QED BY <1>1, <2>1, u_NoCalls DEF u_CallsOK, u_Calls
<1>19. u_TurnsOK'
    <2>1. t_user_turns + 1 <= t_assistant_turns
        BY <1>1, <1>6, <1>7 DEF u_TurnsOK
    <2> QED BY <1>1, <2>1 DEF u_TurnsOK
<1>20. u_Whole(c)'
    <2>1. Len(t_response_mask') < c.response
        BY <1>4, <1>12 DEF k
    <2> QED BY <1>1, <1>13, <1>14, <1>15, <2>1 DEF u_Whole
<1>21. /\ u_Told(t_prompt_ids', t_tool_rewards', t_user_turns')
       /\ Cardinality(u_Tools(t_prompt_ids')) = Len(t_tool_rewards')
    <2>1. u_Told(t_prompt_ids, t_tool_rewards, t_user_turns)
          /\ Cardinality(u_Tools(t_prompt_ids)) = Len(t_tool_rewards)
        BY <1>1, <1>6 DEF u_Answers
    <2>2. /\ u_Told(t_prompt_ids \o t, t_tool_rewards \o x, t_user_turns + 1)
          /\ Cardinality(u_Tools(t_prompt_ids \o t)) = Len(t_tool_rewards \o x)
        <3>1. t_prompt_ids \in Seq(u_Tokens(c)) /\ t_tool_rewards \in Seq(Nat \X Nat) /\ t_user_turns \in Nat
            BY <1>7
        <3>2. k \in Nat
            BY <1>3
        <3>3. u_Join(u_Tokens(c), t_prompt_ids, k, t, t_user_turns, Nat \X Nat, t_tool_rewards, x)
            BY <1>5, <2>1, <3>1, <3>2, Zenon DEF u_Join
        <3> HIDE DEF u_Join
        <3>4. u_Told(t_prompt_ids \o t, t_tool_rewards \o x, t_user_turns + 1)
            BY <3>3, u_ToldGrows
        <3>5. Cardinality(u_Tools(t_prompt_ids \o t)) = Len(t_tool_rewards \o x)
            BY <3>3, u_ToldGrows
        <3> QED BY <3>4, <3>5
    <2> QED BY <1>1, <2>2
<1>22. ASSUME "images" \notin c.answers PROVE t_image_data' = Cardinality(u_Places(t_prompt_ids'))
    <2>1. t_image_data = Cardinality(u_Places(t_prompt_ids))
        BY <1>6, <1>22 DEF u_Answers
    <2>2. ToolsOf(c)!NewImages = Cardinality({m \in 1 .. k : t[m].placeholders = 1})
        BY <1>3, <1>22, u_ImagesAre
    <2>3. Cardinality(u_Places(t_prompt_ids \o t))
              = Cardinality(u_Places(t_prompt_ids)) + Cardinality({m \in 1 .. k : t[m].placeholders = 1})
        <3>1. t_prompt_ids \in Seq(u_Tokens(c)) /\ k \in Nat /\ t \in [1 .. k -> u_Tokens(c)]
            BY <1>3, <1>5, <1>7
        <3> QED BY <1>9, <3>1, u_PlacesGrow
    <2> QED BY <1>1, <2>1, <2>2, <2>3
<1>23. u_Answers(c)'
    BY <1>1, <1>21, <1>22 DEF u_Answers
<1>24. u_Spanned(c, t_extra_fields', t_prompt_ids', t_version')
    <2>1. \A i \in 1 .. k : t[i].by # "model"
        BY <1>9
    <2>2. u_Spanned(c, t_extra_fields, t_prompt_ids \o t, t_version)
        BY <1>3, <1>5, <1>6, <1>7, <2>1, u_SpanKeeps
    <2> QED BY <1>1, <2>2
<1>25. u_Kept(c, t_output')
    BY <1>1 DEF u_Inv
<1> QED BY <1>17, <1>18, <1>19, <1>20, <1>23, <1>24, <1>25 DEF u_Inv, u_Spanned, u_Kept, u_Good, u_Nothing

(* They do not fit: the trajectory ends without them.                       *)
LEMMA u_Dropped ==
    ASSUME NEW c, ToolsAssumption(c), u_Inv(c), ToolsOf(c)!ProcessAnswers, ~ToolsOf(c)!Fits
    PROVE  u_Inv(c)'
<1> DEFINE t == ToolsOf(c)!AddMessages
           x == [i \in DOMAIN t_calls |-> <<t_user_turns, i>>]
<1>1. /\ ToolsOf(c)!AllAnswered /\ t_state = "PROCESSING_TOOLS"
      /\ t_tool_rewards' = t_tool_rewards \o x
      /\ t_prompt_ids' = t_prompt_ids /\ t_response_mask' = t_response_mask
      /\ t_response_logprobs' = t_response_logprobs
      /\ t_image_data' = t_image_data /\ t_user_turns' = t_user_turns /\ t_state' = "TERMINATED"
      /\ t_calls' = << >>
      /\ t_assistant_turns' = t_assistant_turns /\ t_extra_fields' = t_extra_fields
      /\ t_version' = t_version /\ t_output' = t_output
    BY Zenon DEF ToolsOf!ProcessAnswers, ToolsOf!AllAnswered
<1>2. PICK k \in 0 .. c.parallel : u_Messaged(c, k, t, x)
    BY <1>1, u_MessagesAre
<1> HIDE DEF t, x
<1>3. k \in Nat /\ c.parallel \in Nat /\ c.response \in Nat
    <2>1. c.parallel \in Nat /\ c.response \in Nat
        BY u_Constants
    <2> QED BY <2>1
<1>4. x \in [1 .. k -> Nat \X Nat] /\ \A m \in 1 .. k : x[m] = <<t_user_turns, m>>
    BY <1>2 DEF u_Messaged
<1>5. u_Types(c) /\ u_TurnsOK /\ u_Whole(c) /\ u_Answers(c)
      /\ u_Spanned(c, t_extra_fields, t_prompt_ids, t_version)
    BY DEF u_Inv
<1>6. /\ t_prompt_ids \in Seq(u_Tokens(c)) /\ t_response_mask \in Seq({0, 1})
      /\ t_tool_rewards \in Seq(Nat \X Nat) /\ t_user_turns \in Nat
    BY <1>5 DEF u_Types
<1>7. t_tool_rewards' \in Seq(Nat \X Nat)
    BY <1>1, <1>3, <1>4, <1>6, Grown
<1>8. u_Types(c)'
    BY <1>1, <1>5, <1>7 DEF u_Types, u_Tokens
<1>9. u_CallsOK(c)'
    <2>1. 0 \in 0 .. c.parallel
        BY <1>3
    <2> QED BY <1>1, <2>1, u_NoCalls DEF u_CallsOK, u_Calls
<1>10. u_TurnsOK'
    BY <1>1, <1>5 DEF u_TurnsOK
<1>11. u_Whole(c)'
    <2>1. /\ Len(t_response_mask) < c.response /\ Len(t_response_mask) >= 1
          /\ t_response_mask[Len(t_response_mask)] = 1 /\ Len(t_response_mask) \in Nat
        BY <1>1, <1>5, <1>6 DEF u_Whole
    <2>2. \A n \in Nat : ((n = c.response /\ n <= Len(t_response_mask))
                          \/ (n = Len(t_response_mask) /\ n < c.response)) => t_response_mask[n] = 1
        <3> TAKE n \in Nat
        <3>1. ~(n = c.response /\ n <= Len(t_response_mask))
            BY <1>3, <2>1
        <3> QED BY <2>1, <3>1
    <2>3. \E p \in 0 .. c.prompt : u_Fit(p, t_prompt_ids, t_response_mask) /\ p >= 1
        BY <1>1, <1>5 DEF u_Whole
    <2>4. IF c.logprobs THEN u_Scored(t_response_mask, t_response_logprobs) ELSE t_response_logprobs = << >>
        BY <1>5 DEF u_Whole
    <2> QED BY <1>1, <2>1, <2>2, <2>3, <2>4 DEF u_Whole
<1>12. u_Told(t_prompt_ids', t_tool_rewards', t_user_turns')
    <2>1. u_Told(t_prompt_ids, t_tool_rewards, t_user_turns)
          /\ Cardinality(u_Tools(t_prompt_ids)) = Len(t_tool_rewards)
        BY <1>1, <1>5 DEF u_Answers
    <2>2. u_Told(t_prompt_ids, t_tool_rewards \o x, t_user_turns)
        BY <1>3, <1>4, <1>6, <2>1, u_ToldDrops
    <2> QED BY <1>1, <2>2
<1>13. u_Answers(c)'
    BY <1>1, <1>5, <1>12 DEF u_Answers
<1>14. u_Spanned(c, t_extra_fields', t_prompt_ids', t_version')
    BY <1>1, <1>5
<1>15. u_Kept(c, t_output')
    BY <1>1 DEF u_Inv
<1> QED BY <1>8, <1>9, <1>10, <1>11, <1>13, <1>14, <1>15 DEF u_Inv, u_Spanned, u_Kept, u_Good, u_Nothing

(* n tokens of the model are added.                                         *)
u_Adds(c, n, low, high) ==
    /\ n \in Nat /\ (~c.aborts => n >= 1)
    /\ low \in t_version .. c.versions /\ high \in low .. c.versions
    /\ t_state = "GENERATING" /\ t_version' = high
    /\ t_extra_fields' = ToolsOf(c)!MergedFields(low, high)
    /\ t_prompt_ids' = t_prompt_ids \o [i \in 1 .. n |-> [by |-> "model", version |-> high]]
    /\ t_response_mask' = t_response_mask \o [i \in 1 .. n |-> 1]
    /\ t_response_logprobs' = (IF c.logprobs THEN t_response_logprobs \o [i \in 1 .. n |-> "logprob"]
                               ELSE t_response_logprobs)
    /\ t_assistant_turns' = t_assistant_turns + 1 /\ t_user_turns' = t_user_turns
    /\ t_image_data' = t_image_data /\ t_tool_rewards' = t_tool_rewards /\ t_output' = t_output

u_Turned(c, n) ==
    \/ t_state' = "TERMINATED" /\ t_calls' = << >>
    \/ /\ t_state' = "PROCESSING_TOOLS" /\ n >= 1
       /\ Len(t_response_mask') < c.response
       /\ \E k \in 0 .. c.parallel : t_calls' \in [1 .. k -> u_Calls(c)]
       /\ \A i \in DOMAIN t_calls' : t_calls'[i].at = "called"

LEMMA u_Generates ==
    ASSUME NEW c, ToolsAssumption(c), u_Inv(c), ToolsOf(c)!HandleGenerating
    PROVE  \E n, low, high : u_Adds(c, n, low, high) /\ u_Turned(c, n)
<1>1. PICK n \in (IF c.aborts THEN 0 ELSE 1) .. ToolsOf(c)!Room, low \in t_version .. c.versions :
         \E high \in low .. c.versions :
            /\ t_version' = high
            /\ t_extra_fields' = ToolsOf(c)!MergedFields(low, high)
            /\ t_prompt_ids' = t_prompt_ids \o ToolsOf(c)!Repeat(ToolsOf(c)!Model(high), n)
            /\ t_response_mask' = t_response_mask \o ToolsOf(c)!Repeat(1, n)
            /\ t_response_logprobs' = IF c.logprobs THEN t_response_logprobs \o ToolsOf(c)!Repeat("logprob", n)
                                      ELSE t_response_logprobs
            /\ t_assistant_turns' = t_assistant_turns + 1
            /\ IF ToolsOf(c)!Exhausted THEN t_state' = "TERMINATED" /\ t_calls' = << >>
               ELSE \E m \in 0 .. IF n = 0 THEN 0 ELSE c.parsed :
                    IF m = 0 THEN t_state' = "TERMINATED" /\ t_calls' = << >>
                    ELSE /\ t_state' = "PROCESSING_TOOLS"
                         /\ \E kinds \in [1 .. ToolsOf(c)!Taken(m) -> {"refused", "function", "tool"}] :
                               t_calls' = [i \in DOMAIN kinds |-> ToolsOf(c)!Call(kinds[i])]
    BY Zenon DEF ToolsOf!HandleGenerating
<1>2. PICK high \in low .. c.versions :
            /\ t_version' = high
            /\ t_extra_fields' = ToolsOf(c)!MergedFields(low, high)
            /\ t_prompt_ids' = t_prompt_ids \o ToolsOf(c)!Repeat(ToolsOf(c)!Model(high), n)
            /\ t_response_mask' = t_response_mask \o ToolsOf(c)!Repeat(1, n)
            /\ t_response_logprobs' = IF c.logprobs THEN t_response_logprobs \o ToolsOf(c)!Repeat("logprob", n)
                                      ELSE t_response_logprobs
            /\ t_assistant_turns' = t_assistant_turns + 1
            /\ IF ToolsOf(c)!Exhausted THEN t_state' = "TERMINATED" /\ t_calls' = << >>
               ELSE \E m \in 0 .. IF n = 0 THEN 0 ELSE c.parsed :
                    IF m = 0 THEN t_state' = "TERMINATED" /\ t_calls' = << >>
                    ELSE /\ t_state' = "PROCESSING_TOOLS"
                         /\ \E kinds \in [1 .. ToolsOf(c)!Taken(m) -> {"refused", "function", "tool"}] :
                               t_calls' = [i \in DOMAIN kinds |-> ToolsOf(c)!Call(kinds[i])]
    BY <1>1, Zenon
<1>3. /\ t_state = "GENERATING" /\ t_user_turns' = t_user_turns
      /\ t_image_data' = t_image_data /\ t_tool_rewards' = t_tool_rewards /\ t_output' = t_output
    BY Zenon DEF ToolsOf!HandleGenerating
<1>4. /\ c.aborts \in BOOLEAN /\ c.parsed \in Nat /\ c.parallel \in Nat /\ c.response \in Nat /\ c.prompt \in Nat
    BY u_Constants
<1>5. n \in Nat /\ (~c.aborts => n >= 1)
    <2>1. CASE c.aborts
        BY <2>1
    <2>2. CASE ~c.aborts
        BY <2>2
    <2> QED BY <2>1, <2>2
<1>6. t_prompt_ids' = t_prompt_ids \o [i \in 1 .. n |-> [by |-> "model", version |-> high]]
    BY <1>2, Zenon DEF ToolsOf!Repeat, ToolsOf!Model
<1>7. t_response_mask' = t_response_mask \o [i \in 1 .. n |-> 1]
    BY <1>2, Zenon DEF ToolsOf!Repeat
<1>8. t_response_logprobs' = (IF c.logprobs THEN t_response_logprobs \o [i \in 1 .. n |-> "logprob"]
                              ELSE t_response_logprobs)
    BY <1>2, Zenon DEF ToolsOf!Repeat
<1>9. u_Adds(c, n, low, high)
    BY <1>2, <1>3, <1>5, <1>6, <1>7, <1>8, Zenon DEF u_Adds
<1>10. u_Turned(c, n)
    <2>1. CASE ToolsOf(c)!Exhausted
        BY <1>2, <2>1, Zenon DEF u_Turned
    <2>2. CASE ~ToolsOf(c)!Exhausted
        <3>1. PICK m \in 0 .. IF n = 0 THEN 0 ELSE c.parsed :
                 IF m = 0 THEN t_state' = "TERMINATED" /\ t_calls' = << >>
                 ELSE /\ t_state' = "PROCESSING_TOOLS"
                      /\ \E kinds \in [1 .. ToolsOf(c)!Taken(m) -> {"refused", "function", "tool"}] :
                            t_calls' = [i \in DOMAIN kinds |-> ToolsOf(c)!Call(kinds[i])]
            BY <1>2, <2>2, Zenon
        <3>2. CASE m = 0
            BY <3>1, <3>2, Zenon DEF u_Turned
        <3>3. CASE m # 0
            <4>1. n >= 1 /\ m \in Nat
                <5>1. n # 0
                    BY <3>3
                <5> QED BY <1>4, <1>5, <5>1
            <4>2. PICK kinds \in [1 .. ToolsOf(c)!Taken(m) -> {"refused", "function", "tool"}] :
                            t_calls' = [i \in DOMAIN kinds |-> ToolsOf(c)!Call(kinds[i])]
                BY <3>1, <3>3, Zenon
            <4>3. ToolsOf(c)!Taken(m) \in 0 .. c.parallel
                <5>1. ToolsOf(c)!Taken(m) = IF m <= c.parallel THEN m ELSE c.parallel
                    BY Zenon DEF ToolsOf!Taken, ToolsOf!Least
                <5> QED BY <1>4, <4>1, <5>1
            <4>4. t_calls' = [i \in DOMAIN kinds |-> [kind |-> kinds[i], at |-> "called", answer |-> None]]
                BY <4>2, Zenon DEF ToolsOf!Call
            <4>5. PICK k \in 0 .. c.parallel : k = ToolsOf(c)!Taken(m)
                BY <4>3
            <4>6. kinds \in [1 .. k -> {"refused", "function", "tool"}]
                BY <4>2, <4>5
            <4>7. /\ t_calls' \in [1 .. k -> u_Calls(c)]
                  /\ \A i \in DOMAIN t_calls' : t_calls'[i].at = "called"
                BY <4>4, <4>6 DEF u_Calls
            <4>8. ~(Len(t_response_mask') >= c.response)
                BY <2>2, Zenon DEF ToolsOf!Exhausted
            <4>9. Len(t_response_mask') \in Nat
                <5>1. t_response_mask \in Seq({0, 1})
                    BY DEF u_Inv, u_Types
                <5>2. [i \in 1 .. n |-> 1] \in [1 .. n -> {0, 1}]
                    OBVIOUS
                <5>3. t_response_mask' \in Seq({0, 1})
                    BY <1>5, <1>7, <5>1, <5>2, Grown
                <5> QED BY <5>3
            <4>10. Len(t_response_mask') < c.response
                BY <1>4, <4>8, <4>9
            <4> QED BY <3>1, <3>3, <4>1, <4>7, <4>10 DEF u_Turned
        <3> QED BY <3>2, <3>3
    <2> QED BY <2>1, <2>2
<1> QED BY <1>9, <1>10

LEMMA u_Generated ==
    ASSUME NEW c, ToolsAssumption(c), u_Inv(c), ToolsOf(c)!HandleGenerating
    PROVE  u_Inv(c)'
<1>1. PICK n, low, high : u_Adds(c, n, low, high) /\ u_Turned(c, n)
    BY u_Generates
<1> DEFINE t == [i \in 1 .. n |-> [by |-> "model", version |-> high]]
           ones == [i \in 1 .. n |-> 1]
           R == Len(t_response_mask)
<1>2. /\ n \in Nat /\ (~c.aborts => n >= 1)
      /\ low \in t_version .. c.versions /\ high \in low .. c.versions
      /\ t_state = "GENERATING" /\ t_version' = high
      /\ t_extra_fields' = ToolsOf(c)!MergedFields(low, high)
      /\ t_prompt_ids' = t_prompt_ids \o t /\ t_response_mask' = t_response_mask \o ones
      /\ t_response_logprobs' = (IF c.logprobs THEN t_response_logprobs \o [i \in 1 .. n |-> "logprob"]
                                 ELSE t_response_logprobs)
      /\ t_assistant_turns' = t_assistant_turns + 1 /\ t_user_turns' = t_user_turns
      /\ t_image_data' = t_image_data /\ t_tool_rewards' = t_tool_rewards /\ t_output' = t_output
    BY <1>1, Zenon DEF u_Adds
<1>3. \/ t_state' = "TERMINATED" /\ t_calls' = << >>
      \/ /\ t_state' = "PROCESSING_TOOLS" /\ n >= 1
         /\ Len(t_response_mask') < c.response
         /\ \E k \in 0 .. c.parallel : t_calls' \in [1 .. k -> u_Calls(c)]
         /\ \A i \in DOMAIN t_calls' : t_calls'[i].at = "called"
    BY <1>1, Zenon DEF u_Turned
<1>4. u_Types(c) /\ u_TurnsOK /\ u_Whole(c) /\ u_Answers(c)
      /\ u_Spanned(c, t_extra_fields, t_prompt_ids, t_version)
    BY DEF u_Inv
<1>5. /\ t_prompt_ids \in Seq(u_Tokens(c)) /\ t_response_mask \in Seq({0, 1})
      /\ t_response_logprobs \in Seq({"logprob", "0.0"}) /\ t_tool_rewards \in Seq(Nat \X Nat)
      /\ t_assistant_turns \in Nat /\ t_user_turns \in Nat /\ t_image_data \in Nat
      /\ t_version \in 0 .. c.versions
    BY <1>4 DEF u_Types
<1>6. /\ c.prompt \in Nat /\ c.response \in Nat \ {0} /\ c.parallel \in Nat /\ c.versions \in Nat
      /\ c.logprobs \in BOOLEAN
    BY u_Constants
<1>7. high \in 0 .. c.versions
    BY <1>2, <1>5, <1>6
<1>8. t \in [1 .. n -> u_Tokens(c)] /\ \A i \in 1 .. n : t[i].by = "model" /\ t[i].version = high
    BY <1>7, u_TokensAre
<1>9. ones \in [1 .. n -> {0, 1}] /\ \A i \in 1 .. n : ones[i] = 1
    OBVIOUS
<1> HIDE DEF t
<1>10. /\ t_prompt_ids' \in Seq(u_Tokens(c)) /\ t_response_mask' \in Seq({0, 1})
       /\ Grows(t_response_mask, n, ones)
    BY <1>2, <1>5, <1>8, <1>9, Grown
<1>11. /\ Len(t_response_mask') = R + n /\ R \in Nat
       /\ \A i \in 1 .. n : t_response_mask'[R + i] = 1
    BY <1>2, <1>9, <1>10 DEF Grows
<1>12. PICK p \in 0 .. c.prompt : u_Fit(p, t_prompt_ids, t_response_mask) /\ p >= 1
    BY <1>2, <1>4 DEF u_Whole
<1>13. u_Fit(p, t_prompt_ids', t_response_mask')
    <2>1. p \in Nat
        BY <1>6
    <2>2. \A i \in 1 .. n : t[i].by = IF 1 = 1 THEN "model" ELSE "tool"
        BY <1>8
    <2> QED BY <1>2, <1>5, <1>8, <1>12, <2>1, <2>2, u_FitGrows
<1>14. /\ t_response_logprobs' \in Seq({"logprob", "0.0"})
       /\ IF c.logprobs THEN u_Scored(t_response_mask', t_response_logprobs') ELSE t_response_logprobs' = << >>
    <2>1. CASE c.logprobs
        <3>1. u_Scored(t_response_mask, t_response_logprobs)
            BY <1>4, <2>1 DEF u_Whole
        <3>2. t_response_logprobs' = t_response_logprobs \o [i \in 1 .. n |-> "logprob"]
            BY <1>2, <2>1
        <3>3. "logprob" = (IF 1 = 1 THEN "logprob" ELSE "0.0")
            OBVIOUS
        <3>4. /\ u_Scored(t_response_mask \o ones, t_response_logprobs \o [i \in 1 .. n |-> "logprob"])
              /\ t_response_logprobs \o [i \in 1 .. n |-> "logprob"] \in Seq({"logprob", "0.0"})
            BY <1>2, <1>5, <3>1, <3>3, u_ScoredGrows
        <3> QED BY <1>2, <2>1, <3>2, <3>4
    <2>2. CASE ~c.logprobs
        BY <1>2, <1>4, <1>5, <2>2 DEF u_Whole
    <2> QED BY <2>1, <2>2
<1> HIDE DEF ones, R
<1>15. u_Types(c)'
    <2>1. t_assistant_turns' \in Nat
        BY <1>2, <1>5
    <2> QED BY <1>2, <1>3, <1>5, <1>7, <1>10, <1>14, <2>1 DEF u_Types, u_Tokens
<1>16. u_CallsOK(c)'
    <2>1. CASE t_calls' = << >>
        <3>1. 0 \in 0 .. c.parallel
            BY <1>6
        <3> QED BY <2>1, <3>1, u_NoCalls DEF u_CallsOK, u_Calls
    <2>2. CASE /\ \E k \in 0 .. c.parallel : t_calls' \in [1 .. k -> u_Calls(c)]
               /\ \A i \in DOMAIN t_calls' : t_calls'[i].at = "called"
        BY <2>2 DEF u_CallsOK, u_Calls
    <2> QED BY <1>3, <2>1, <2>2
<1>17. u_TurnsOK'
    <2>1. t_user_turns <= t_assistant_turns + 1 /\ t_user_turns < t_assistant_turns + 1
        BY <1>4, <1>5 DEF u_TurnsOK
    <2> QED BY <1>2, <2>1 DEF u_TurnsOK
<1>18. u_Whole(c)'
    <2>1. R < c.response
        BY <1>2, <1>4 DEF u_Whole, R
    <2>2. ASSUME n >= 1, NEW q \in Nat, q > R, q <= R + n PROVE t_response_mask'[q] = 1
        <3>1. q - R \in 1 .. n /\ R + (q - R) = q
            BY <1>2, <1>11, <2>2
        <3> QED BY <1>11, <3>1
    <2>3. ASSUME n >= 1 PROVE Len(t_response_mask') >= 1 /\ t_response_mask'[Len(t_response_mask')] = 1
        <3>1. R + n \in Nat /\ R + n > R /\ R + n <= R + n /\ R + n >= 1
            BY <1>2, <1>11, <2>3
        <3> QED BY <1>11, <2>2, <2>3, <3>1
    <2>4. ASSUME n >= 1
          PROVE  \A q \in Nat : ((q = c.response /\ q <= Len(t_response_mask'))
                                 \/ (q = Len(t_response_mask') /\ q < c.response)) => t_response_mask'[q] = 1
        <3> TAKE q \in Nat
        <3>1. CASE q = c.response /\ q <= Len(t_response_mask')
            <4>1. q > R /\ q <= R + n
                BY <1>6, <1>11, <2>1, <3>1
            <4> QED BY <2>2, <2>4, <4>1
        <3>2. CASE q = Len(t_response_mask') /\ q < c.response
            BY <2>3, <2>4, <3>2
        <3> QED BY <3>1, <3>2
    <2>5. \E o \in 0 .. c.prompt : u_Fit(o, t_prompt_ids', t_response_mask') /\ (t_state' \notin {"PENDING", "raised"} => o >= 1)
        BY <1>12, <1>13
    <2>6. t_state' \in {"GENERATING", "PROCESSING_TOOLS"} => Len(t_response_mask') < c.response
        BY <1>3
    <2>7. t_state' = "PROCESSING_TOOLS" =>
             Len(t_response_mask') >= 1 /\ t_response_mask'[Len(t_response_mask')] = 1
        BY <1>3, <2>3
    <2>8. t_state' = "TERMINATED" /\ ~c.aborts =>
              /\ Len(t_response_mask') >= 1
              /\ \A q \in Nat : (q = Len(t_response_mask') /\ q < c.response) => t_response_mask'[q] = 1
        BY <1>2, <2>3, <2>4
    <2>9. \A q \in Nat : (q = c.response /\ q <= Len(t_response_mask')) => t_response_mask'[q] = 1
        <3> TAKE q \in Nat
        <3>1. ASSUME q = c.response, q <= Len(t_response_mask') PROVE n >= 1
            BY <1>2, <1>6, <1>11, <2>1, <3>1
        <3> QED BY <2>4, <3>1
    <2> QED BY <1>14, <2>5, <2>6, <2>7, <2>8, <2>9, Zenon DEF u_Whole
<1>19. u_Answers(c)'
    <2>1. \A i \in 1 .. n : t[i].by # "tool"
        BY <1>8
    <2>2. /\ u_Tools(t_prompt_ids \o t) = u_Tools(t_prompt_ids)
          /\ u_Places(t_prompt_ids \o t) = u_Places(t_prompt_ids)
        <3>1. t_prompt_ids \in Seq(u_Tokens(c)) /\ n \in Nat /\ t \in [1 .. n -> u_Tokens(c)]
            BY <1>2, <1>5, <1>8
        <3>2. u_Tools(t_prompt_ids \o t) = u_Tools(t_prompt_ids)
            BY <2>1, <3>1, u_ToolsStay
        <3>3. u_Places(t_prompt_ids \o t) = u_Places(t_prompt_ids)
            BY <2>1, <3>1, u_ToolsStay
        <3> QED BY <3>2, <3>3
    <2>3. u_Told(t_prompt_ids \o t, t_tool_rewards, t_user_turns)
        <3>1. u_Told(t_prompt_ids, t_tool_rewards, t_user_turns)
            BY <1>4 DEF u_Answers
        <3> QED BY <1>2, <1>5, <1>8, <2>1, <3>1, u_ToldStays
    <2>4. Cardinality(u_Tools(t_prompt_ids)) = Len(t_tool_rewards)
        BY <1>2, <1>4 DEF u_Answers
    <2>5. "images" \notin c.answers => t_image_data = Cardinality(u_Places(t_prompt_ids))
        BY <1>4 DEF u_Answers
    <2>6. u_Told(t_prompt_ids', t_tool_rewards', t_user_turns')
        BY <1>2, <2>3
    <2>7. /\ Cardinality(u_Tools(t_prompt_ids')) = Len(t_tool_rewards')
          /\ "images" \notin c.answers => t_image_data' = Cardinality(u_Places(t_prompt_ids'))
        BY <1>2, <2>2, <2>4, <2>5
    <2>8. t_state' # "PENDING"
        BY <1>3
    <2> QED BY <2>6, <2>7, <2>8, Zenon DEF u_Answers
<1>20. u_Spanned(c, t_extra_fields', t_prompt_ids', t_version')
    <2>1. u_Spanned(c, ToolsOf(c)!MergedFields(low, high), t_prompt_ids \o t, high)
        BY <1>2, <1>4, <1>5, <1>8, u_SpanGrows
    <2> QED BY <1>2, <2>1
<1>21. u_Kept(c, t_output')
    BY <1>2 DEF u_Inv
<1> QED BY <1>15, <1>16, <1>17, <1>18, <1>19, <1>20, <1>21 DEF u_Inv, u_Spanned, u_Kept, u_Good, u_Nothing

LEMMA u_Cut ==
    ASSUME NEW U, NEW s \in Seq(U), NEW a \in Nat \ {0}, NEW b \in 0 .. Len(s), a <= b + 1
    PROVE  /\ SubSeq(s, a, b) \in Seq(U) /\ Len(SubSeq(s, a, b)) = b - a + 1
           /\ DOMAIN SubSeq(s, a, b) = 1 .. b - a + 1
           /\ \A i \in 1 .. b - a + 1 : SubSeq(s, a, b)[i] = s[a + i - 1]
<1>1. Len(s) \in Nat /\ DOMAIN s = 1 .. Len(s) /\ \A i \in 1 .. Len(s) : s[i] \in U
    BY LenProperties
<1>0. a \in Int /\ b \in Int
    BY <1>1
<1>2. \A i \in a .. b : s[i] \in U
    <2> TAKE i \in a .. b
    <2>1. i \in 1 .. Len(s)
        BY <1>1
    <2> QED BY <1>1, <2>1
<1>3. /\ SubSeq(s, a, b) \in Seq(U)
      /\ Len(SubSeq(s, a, b)) = IF a <= b THEN b - a + 1 ELSE 0
      /\ \A i \in 1 .. b - a + 1 : SubSeq(s, a, b)[i] = s[a + i - 1]
    BY <1>0, <1>2, SubSeqProperties
<1>4. Len(SubSeq(s, a, b)) = b - a + 1
    BY <1>0, <1>3
<1>5. DOMAIN SubSeq(s, a, b) = 1 .. Len(SubSeq(s, a, b))
    BY <1>3, LenProperties
<1> QED BY <1>3, <1>4, <1>5

(* What is returned if no token was generated.                              *)
LEMMA u_ReturnedNothing ==
    ASSUME NEW c, ToolsAssumption(c), u_Inv(c), ToolsOf(c)!Finish, Len(t_response_mask) = 0
    PROVE  u_Nothing(c, t_output')
<1>1. u_Types(c) /\ u_Whole(c) /\ t_state = "TERMINATED"
    BY Zenon DEF u_Inv, ToolsOf!Finish
<1>2. t_response_mask \in Seq({0, 1}) /\ t_response_logprobs \in Seq({"logprob", "0.0"})
    BY <1>1 DEF u_Types
<1>3. c.response \in Nat \ {0} /\ c.logprobs \in BOOLEAN /\ c.aborts \in BOOLEAN
    BY u_Constants
<1>4. c.aborts
    <2>1. ~c.aborts => Len(t_response_mask) >= 1
        BY <1>1 DEF u_Whole
    <2> QED BY <1>3, <2>1
<1>5. t_response_mask = << >> /\ t_response_logprobs = << >>
    <2>1. Len(t_response_logprobs) = 0 \/ t_response_logprobs = << >>
        BY <1>1, <1>3 DEF u_Whole, u_Scored
    <2> QED BY <1>2, <2>1, EmptySeq
<1>6. ToolsOf(c)!FirstOf(<< >>, c.response) = << >>
    <2>1. ToolsOf(c)!FirstOf(<< >>, c.response)
             = SubSeq(<< >>, 1, IF c.response <= Len(<< >>) THEN c.response ELSE Len(<< >>))
        BY Zenon DEF ToolsOf!FirstOf, ToolsOf!Least
    <2>2. Len(<< >>) = 0 /\ ~(c.response <= 0)
        BY <1>3, EmptySeq
    <2>3. SubSeq(<< >>, 1, 0) = << >>
        BY SubSeqEmpty
    <2> QED BY <2>1, <2>2, <2>3
<1>7. /\ t_output'.response_mask = ToolsOf(c)!FirstOf(t_response_mask, c.response)
      /\ t_output'.response_logprobs = ToolsOf(c)!FirstOf(t_response_logprobs, c.response)
    BY DEF ToolsOf!Finish
<1> QED BY <1>4, <1>5, <1>6, <1>7 DEF u_Nothing

(* What is returned of a trajectory with tokens.                            *)
LEMMA u_ReturnedTokens ==
    ASSUME NEW c, ToolsAssumption(c), u_Inv(c), ToolsOf(c)!Finish, Len(t_response_mask) # 0
    PROVE  u_Good(c, t_output')
<1> DEFINE R == Len(t_response_mask)
           m == IF c.response <= R THEN c.response ELSE R
           tail == SubSeq(t_prompt_ids, Len(t_prompt_ids) - R + 1, Len(t_prompt_ids))
           ids == SubSeq(tail, 1, m)
           mask == SubSeq(t_response_mask, 1, m)
           scores == ToolsOf(c)!FirstOf(t_response_logprobs, c.response)
           head == ToolsOf(c)!FirstOf(t_prompt_ids, Len(t_prompt_ids) - R)
<1>1. u_Types(c) /\ u_Whole(c) /\ t_state = "TERMINATED"
    BY Zenon DEF u_Inv, ToolsOf!Finish
<1>2. /\ t_prompt_ids \in Seq(u_Tokens(c)) /\ t_response_mask \in Seq({0, 1})
      /\ t_response_logprobs \in Seq({"logprob", "0.0"})
    BY <1>1 DEF u_Types
<1>3. c.prompt \in Nat /\ c.response \in Nat \ {0} /\ c.logprobs \in BOOLEAN /\ c.aborts \in BOOLEAN
    BY u_Constants
<1>4. R \in Nat /\ Len(t_prompt_ids) \in Nat /\ Len(t_response_logprobs) \in Nat
    BY <1>2
<1>5. /\ R >= 1
      /\ \A q \in Nat : (q = c.response /\ q <= R) => t_response_mask[q] = 1
      /\ ~c.aborts => \A q \in Nat : (q = R /\ q < c.response) => t_response_mask[q] = 1
    BY <1>1, <1>4 DEF u_Whole
<1>6. PICK p \in 0 .. c.prompt : u_Fit(p, t_prompt_ids, t_response_mask) /\ p >= 1
    BY <1>1 DEF u_Whole
<1>7. /\ p \in Nat /\ Len(t_prompt_ids) = p + R
      /\ \A i \in 1 .. p : t_prompt_ids[i] = [by |-> "prompt"]
      /\ \A i \in 1 .. R : t_prompt_ids[p + i].by = IF t_response_mask[i] = 1 THEN "model" ELSE "tool"
    BY <1>3, <1>6 DEF u_Fit
<1>8. m \in 1 .. R /\ m \in Nat /\ ((c.aborts /\ m < c.response) \/ t_response_mask[m] = 1)
    <2>1. CASE c.response <= R
        <3>1. m = c.response /\ c.response \in Nat /\ c.response >= 1
            BY <1>3, <2>1
        <3> HIDE DEF m, R
        <3>2. t_response_mask[c.response] = 1
            BY <1>5, <2>1, <3>1
        <3> QED BY <1>4, <2>1, <3>1, <3>2
    <2>2. CASE ~(c.response <= R)
        <3>1. R < c.response /\ m = R
            BY <1>3, <1>4, <2>2
        <3> HIDE DEF m, R
        <3> QED BY <1>3, <1>4, <1>5, <3>1
    <2> QED BY <2>1, <2>2
<1>9. /\ tail \in Seq(u_Tokens(c)) /\ Len(tail) = R
      /\ \A i \in 1 .. R : tail[i] = t_prompt_ids[p + i]
    <2>1. /\ Len(t_prompt_ids) - R + 1 = p + 1 /\ p + 1 \in Nat \ {0}
          /\ Len(t_prompt_ids) \in 0 .. Len(t_prompt_ids) /\ p + 1 <= Len(t_prompt_ids) + 1
          /\ Len(t_prompt_ids) - (p + 1) + 1 = R
          /\ \A i \in 1 .. R : p + 1 + i - 1 = p + i
        BY <1>4, <1>7
    <2>2. /\ SubSeq(t_prompt_ids, p + 1, Len(t_prompt_ids)) \in Seq(u_Tokens(c))
          /\ Len(SubSeq(t_prompt_ids, p + 1, Len(t_prompt_ids))) = R
          /\ \A i \in 1 .. R : SubSeq(t_prompt_ids, p + 1, Len(t_prompt_ids))[i] = t_prompt_ids[p + 1 + i - 1]
        <3> HIDE DEF R
        <3> QED BY <1>2, <2>1, u_Cut
    <2> HIDE DEF R
    <2> QED BY <2>1, <2>2
<1>10. t_output' = [prompt_ids |-> head, response_ids |-> ids, response_mask |-> mask, response_logprobs |-> scores]
    <2>1. t_output' = [
              prompt_ids |-> ToolsOf(c)!FirstOf(t_prompt_ids, Len(t_prompt_ids) - R),
              response_ids |-> ToolsOf(c)!FirstOf(ToolsOf(c)!LastOf(t_prompt_ids, R), c.response),
              response_mask |-> ToolsOf(c)!FirstOf(t_response_mask, c.response),
              response_logprobs |-> ToolsOf(c)!FirstOf(t_response_logprobs, c.response)]
        BY Zenon DEF ToolsOf!Finish
    <2>2. ToolsOf(c)!LastOf(t_prompt_ids, R) = tail
        <3>1. R # 0
            BY <1>4, <1>5
        <3>2. ToolsOf(c)!LastOf(t_prompt_ids, R) = IF R = 0 THEN t_prompt_ids ELSE tail
            BY Zenon DEF ToolsOf!LastOf
        <3> HIDE DEF R, tail
        <3> QED BY <3>1, <3>2
    <2>3. ToolsOf(c)!FirstOf(tail, c.response) = ids
        <3>1. ToolsOf(c)!FirstOf(tail, c.response)
                 = SubSeq(tail, 1, IF c.response <= Len(tail) THEN c.response ELSE Len(tail))
            BY Zenon DEF ToolsOf!FirstOf, ToolsOf!Least
        <3> HIDE DEF R, tail
        <3> QED BY <1>9, <3>1
    <2>4. ToolsOf(c)!FirstOf(t_response_mask, c.response) = mask
        BY Zenon DEF ToolsOf!FirstOf, ToolsOf!Least
    <2> HIDE DEF R, tail, ids, mask, scores
    <2> QED BY <2>1, <2>2, <2>3, <2>4 DEF scores, head
<1>11. /\ Len(ids) = m /\ DOMAIN ids = 1 .. m
       /\ \A i \in 1 .. m : ids[i] = t_prompt_ids[p + i]
    <2>1. /\ 1 \in Nat \ {0} /\ m \in 0 .. Len(tail) /\ 1 <= m + 1 /\ m - 1 + 1 = m
          /\ \A i \in 1 .. m : 1 + i - 1 = i /\ i \in 1 .. R
        <3> HIDE DEF m, R, tail
        <3> QED BY <1>4, <1>8, <1>9
    <2> HIDE DEF m, R, tail
    <2>2. /\ Len(SubSeq(tail, 1, m)) = m - 1 + 1 /\ DOMAIN SubSeq(tail, 1, m) = 1 .. m - 1 + 1
          /\ \A i \in 1 .. m - 1 + 1 : SubSeq(tail, 1, m)[i] = tail[1 + i - 1]
        BY <1>9, <2>1, u_Cut
    <2> QED BY <1>9, <2>1, <2>2
<1>12. /\ mask \in Seq({0, 1}) /\ Len(mask) = m /\ DOMAIN mask = 1 .. m
       /\ \A i \in 1 .. m : mask[i] = t_response_mask[i]
    <2>1. /\ 1 \in Nat \ {0} /\ m \in 0 .. Len(t_response_mask) /\ 1 <= m + 1 /\ m - 1 + 1 = m
          /\ \A i \in 1 .. m : 1 + i - 1 = i
        <3> HIDE DEF m
        <3> QED BY <1>4, <1>8
    <2> HIDE DEF m
    <2>2. /\ SubSeq(t_response_mask, 1, m) \in Seq({0, 1})
          /\ Len(SubSeq(t_response_mask, 1, m)) = m - 1 + 1 /\ DOMAIN SubSeq(t_response_mask, 1, m) = 1 .. m - 1 + 1
          /\ \A i \in 1 .. m - 1 + 1 : SubSeq(t_response_mask, 1, m)[i] = t_response_mask[1 + i - 1]
        BY <1>2, <2>1, u_Cut
    <2> QED BY <2>1, <2>2
<1>13. \A i \in DOMAIN head : head[i] = [by |-> "prompt"]
    <2>1. head = SubSeq(t_prompt_ids, 1, IF Len(t_prompt_ids) - R <= Len(t_prompt_ids)
                                         THEN Len(t_prompt_ids) - R ELSE Len(t_prompt_ids))
        BY Zenon DEF ToolsOf!FirstOf, ToolsOf!Least
    <2> HIDE DEF R, head
    <2>2. /\ Len(t_prompt_ids) - R = p /\ p <= Len(t_prompt_ids) /\ p \in 0 .. Len(t_prompt_ids)
          /\ 1 \in Nat \ {0} /\ 1 <= p + 1 /\ p - 1 + 1 = p /\ \A i \in 1 .. p : 1 + i - 1 = i
        BY <1>4, <1>7
    <2>3. head = SubSeq(t_prompt_ids, 1, p)
        BY <2>1, <2>2
    <2>4. /\ DOMAIN SubSeq(t_prompt_ids, 1, p) = 1 .. p - 1 + 1
          /\ \A i \in 1 .. p - 1 + 1 : SubSeq(t_prompt_ids, 1, p)[i] = t_prompt_ids[1 + i - 1]
        BY <1>2, <2>2, u_Cut
    <2> QED BY <1>7, <2>2, <2>3, <2>4
<1>14. scores # << >> =>
          Len(scores) = Len(mask) /\ \A i \in DOMAIN mask : (mask[i] = 1) <=> (scores[i] = "logprob")
    <2>1. scores = SubSeq(t_response_logprobs, 1, IF c.response <= Len(t_response_logprobs)
                                                  THEN c.response ELSE Len(t_response_logprobs))
        BY Zenon DEF ToolsOf!FirstOf, ToolsOf!Least
    <2>2. CASE c.logprobs
        <3>1. u_Scored(t_response_mask, t_response_logprobs)
            BY <1>1, <2>2 DEF u_Whole
        <3>2. /\ Len(t_response_logprobs) = R
              /\ \A i \in 1 .. R : (t_response_mask[i] = 1) <=> (t_response_logprobs[i] = "logprob")
            BY <3>1 DEF u_Scored
        <3>3. scores = SubSeq(t_response_logprobs, 1, m)
            <4> HIDE DEF R, scores
            <4> QED BY <2>1, <3>2
        <3> HIDE DEF R, m, scores, mask
        <3>4. /\ 1 \in Nat \ {0} /\ m \in 0 .. Len(t_response_logprobs) /\ 1 <= m + 1 /\ m - 1 + 1 = m
              /\ \A i \in 1 .. m : 1 + i - 1 = i /\ i \in 1 .. R
            BY <1>4, <1>8, <3>2
        <3>5. /\ Len(SubSeq(t_response_logprobs, 1, m)) = m - 1 + 1
              /\ \A i \in 1 .. m - 1 + 1 : SubSeq(t_response_logprobs, 1, m)[i] = t_response_logprobs[1 + i - 1]
            BY <1>2, <3>4, u_Cut
        <3>6. Len(scores) = m /\ \A i \in 1 .. m : scores[i] = t_response_logprobs[i]
            BY <3>3, <3>4, <3>5
        <3> QED BY <1>12, <3>2, <3>4, <3>6
    <2>3. CASE ~c.logprobs
        <3>1. t_response_logprobs = << >>
            BY <1>1, <2>3 DEF u_Whole
        <3>2. Len(<< >>) = 0 /\ ~(c.response <= 0)
            BY <1>3, EmptySeq
        <3> HIDE DEF scores
        <3>3. scores = SubSeq(<< >>, 1, 0)
            BY <2>1, <3>1, <3>2
        <3>4. SubSeq(<< >>, 1, 0) = << >>
            BY SubSeqEmpty
        <3> QED BY <3>3, <3>4
    <2> QED BY <1>3, <2>2, <2>3
<1>15. \A i \in DOMAIN ids : ids[i].by = IF mask[i] = 1 THEN "model" ELSE "tool"
    <2> HIDE DEF R, m, ids, mask
    <2> TAKE i \in DOMAIN ids
    <2>1. i \in 1 .. m /\ i \in 1 .. R
        BY <1>4, <1>8, <1>11
    <2> QED BY <1>7, <1>11, <1>12, <2>1
<1>16. (c.aborts /\ Len(mask) < c.response) \/ mask[Len(mask)] = 1
    <2> HIDE DEF R, m, mask
    <2>1. m \in 1 .. m
        BY <1>4, <1>8
    <2> QED BY <1>8, <1>12, <2>1
<1> HIDE DEF R, m, tail, ids, mask, scores, head
<1> DEFINE o == [prompt_ids |-> head, response_ids |-> ids, response_mask |-> mask, response_logprobs |-> scores]
<1>17. o.prompt_ids = head /\ o.response_ids = ids /\ o.response_mask = mask /\ o.response_logprobs = scores
    OBVIOUS
<1>18. t_output' = o
    BY <1>10
<1> HIDE DEF o
<1>19. u_Good(c, o)
    BY <1>11, <1>12, <1>13, <1>14, <1>15, <1>16, <1>17 DEF u_Good
<1> QED BY <1>18, <1>19

LEMMA u_Returned ==
    ASSUME NEW c, ToolsAssumption(c), u_Inv(c), ToolsOf(c)!Finish
    PROVE  u_Kept(c, t_output')
BY u_ReturnedNothing, u_ReturnedTokens DEF u_Kept

LEMMA u_Finished ==
    ASSUME NEW c, ToolsAssumption(c), u_Inv(c), ToolsOf(c)!Finish
    PROVE  u_Inv(c)'
<1>1. /\ t_state = "TERMINATED" /\ t_state' = "returned" /\ t_calls' = t_calls /\ t_version' = t_version
      /\ UNCHANGED ToolsOf(c)!trajectory
    BY Zenon DEF ToolsOf!Finish
<1>2. /\ t_prompt_ids' = t_prompt_ids
      /\ t_response_mask' = t_response_mask /\ t_response_logprobs' = t_response_logprobs
      /\ t_assistant_turns' = t_assistant_turns /\ t_user_turns' = t_user_turns
      /\ t_image_data' = t_image_data /\ t_tool_rewards' = t_tool_rewards
      /\ t_extra_fields' = t_extra_fields
    BY <1>1 DEF ToolsOf!trajectory
<1>3. u_Types(c)'
    BY <1>1, <1>2 DEF u_Inv, u_Types, u_Tokens
<1>4. u_CallsOK(c)'
    BY <1>1 DEF u_Inv, u_CallsOK, u_Calls
<1>5. u_TurnsOK'
    BY <1>1, <1>2 DEF u_Inv, u_TurnsOK
<1>6. u_Whole(c)'
    <2>1. u_Whole(c)
        BY DEF u_Inv
    <2>2. \E p \in 0 .. c.prompt : u_Fit(p, t_prompt_ids', t_response_mask') /\ p >= 1
        BY <1>1, <1>2, <2>1 DEF u_Whole
    <2>3. IF c.logprobs THEN u_Scored(t_response_mask, t_response_logprobs) ELSE t_response_logprobs = << >>
        BY <2>1 DEF u_Whole
    <2> QED BY <1>1, <1>2, <2>2, <2>3 DEF u_Whole
<1>7. u_Answers(c)'
    BY <1>1, <1>2 DEF u_Inv, u_Answers
<1>8. u_Spanned(c, t_extra_fields', t_prompt_ids', t_version')
    BY <1>1, <1>2 DEF u_Inv
<1>9. u_Kept(c, t_output')
    BY u_Returned
<1> QED BY <1>3, <1>4, <1>5, <1>6, <1>7, <1>8, <1>9 DEF u_Inv, u_Spanned, u_Kept, u_Good, u_Nothing

LEMMA u_Steps ==
    ASSUME NEW c, ToolsAssumption(c), u_Inv(c), ToolsOf(c)!Next
    PROVE  u_Inv(c)'
<1>1. CASE ToolsOf(c)!HandlePending
    BY <1>1, u_Pending
<1>2. CASE ToolsOf(c)!HandleGenerating
    BY <1>2, u_Generated
<1>3. CASE ToolsOf(c)!VideoAnswered
    BY <1>3, u_Video
<1>4. CASE ToolsOf(c)!ProcessAnswers
    BY <1>4, u_Processed, u_Dropped
<1>5. CASE ToolsOf(c)!Finish
    BY <1>5, u_Finished
<1>6. CASE \E i \in DOMAIN t_calls : ToolsOf(c)!CallTool(i)
    BY <1>6, u_Called
<1> QED BY <1>1, <1>2, <1>3, <1>4, <1>5, <1>6, Zenon DEF ToolsOf!Next

LEMMA u_Stays ==
    ASSUME NEW c, u_Inv(c), UNCHANGED toolVars
    PROVE  u_Inv(c)'
<1>1. /\ t_state' = t_state /\ t_version' = t_version /\ t_output' = t_output /\ t_calls' = t_calls
      /\ UNCHANGED ToolsOf(c)!trajectory
    BY DEF toolVars, ToolsOf!trajectory
<1>2. u_CallsOK(c)'
    BY <1>1 DEF u_Inv, u_CallsOK, u_Calls
<1> QED BY <1>1, <1>2, u_Unmoved

(* What the invariant says of the trajectory and of what is returned.       *)
LEMMA u_TypesTold ==
    ASSUME NEW c, ToolsAssumption(c), u_Inv(c)
    PROVE  ToolsOf(c)!TypeOK
<1>1. u_Types(c) /\ u_CallsOK(c) /\ u_TurnsOK /\ u_Whole(c)
    BY DEF u_Inv
<1>2. /\ t_state \in {"PENDING", "GENERATING", "PROCESSING_TOOLS", "TERMINATED", "returned", "raised"}
      /\ t_prompt_ids \in Seq(u_Tokens(c)) /\ t_response_mask \in Seq({0, 1})
      /\ t_assistant_turns \in Nat /\ t_user_turns \in Nat /\ t_image_data \in Nat
    BY <1>1 DEF u_Types
<1>3. c.prompt \in Nat /\ c.parallel \in Nat
    BY u_Constants
<1>4. Len(t_response_mask) <= Len(t_prompt_ids)
    <2>1. PICK p \in 0 .. c.prompt : u_Fit(p, t_prompt_ids, t_response_mask)
        BY <1>1 DEF u_Whole
    <2>2. p \in Nat /\ Len(t_prompt_ids) = p + Len(t_response_mask)
        BY <1>3, <2>1 DEF u_Fit
    <2>3. Len(t_response_mask) \in Nat
        BY <1>2
    <2> QED BY <2>2, <2>3
<1>5. t_user_turns \in 0 .. t_assistant_turns
    BY <1>1, <1>2 DEF u_TurnsOK
<1>6. Len(t_calls) <= c.parallel
    <2>1. PICK k \in 0 .. c.parallel : t_calls \in [1 .. k -> u_Calls(c)]
        BY <1>1 DEF u_CallsOK
    <2>2. k \in Nat /\ k <= c.parallel
        BY <1>3
    <2>3. Len(t_calls) = k
        BY <2>1, <2>2, u_LenIs
    <2> QED BY <2>2, <2>3
<1> QED BY <1>2, <1>4, <1>5, <1>6 DEF ToolsOf!TypeOK

LEMMA u_AnswersTold ==
    ASSUME NEW c, NEW d, u_Inv(c)
    PROVE  /\ ToolsOf(d)!AnswersAreInCallOrder
           /\ "images" \notin c.answers => ToolsOf(d)!ImagesHavePlaceholders
<1>1. u_Answers(c)
    BY DEF u_Inv
<1>2. u_Told(t_prompt_ids, t_tool_rewards, t_user_turns)
    BY <1>1 DEF u_Answers
<1>3. ToolsOf(d)!Answered = u_Tools(t_prompt_ids)
    BY Zenon DEF ToolsOf!Answered, u_Tools
<1>4. \A i : ToolsOf(d)!Number(i) = Cardinality(u_Upto(t_prompt_ids, i))
    BY <1>3, Zenon DEF ToolsOf!Number, u_Upto, ToolsOf!Cardinality, Cardinality
<1>5. ToolsOf(d)!Cardinality(ToolsOf(d)!Answered) = Cardinality(u_Tools(t_prompt_ids))
    BY <1>3, Zenon DEF ToolsOf!Cardinality, Cardinality
<1>6. /\ Cardinality(u_Tools(t_prompt_ids)) <= Len(t_tool_rewards)
      /\ \A i \in u_Tools(t_prompt_ids) :
            t_prompt_ids[i].call = t_tool_rewards[Cardinality(u_Upto(t_prompt_ids, i))]
      /\ \A n \in Cardinality(u_Tools(t_prompt_ids)) + 1 .. Len(t_tool_rewards) :
            t_tool_rewards[n][1] = t_user_turns
      /\ \A i, j \in u_Tools(t_prompt_ids) :
            i < j => \/ t_prompt_ids[i].call[1] < t_prompt_ids[j].call[1]
                     \/ /\ t_prompt_ids[i].call[1] = t_prompt_ids[j].call[1]
                        /\ t_prompt_ids[i].call[2] < t_prompt_ids[j].call[2]
    BY <1>2, Zenon DEF u_Told
<1>7. ToolsOf(d)!AnswersAreInCallOrder
    <2>1. /\ ToolsOf(d)!Cardinality(ToolsOf(d)!Answered) <= Len(t_tool_rewards)
          /\ \A n \in ToolsOf(d)!Cardinality(ToolsOf(d)!Answered) + 1 .. Len(t_tool_rewards) :
                t_tool_rewards[n][1] = t_user_turns
        BY <1>5, <1>6, Zenon
    <2>2. \A i \in ToolsOf(d)!Answered : t_prompt_ids[i].call = t_tool_rewards[ToolsOf(d)!Number(i)]
        BY <1>3, <1>4, <1>6, Zenon
    <2>3. \A i, j \in ToolsOf(d)!Answered :
             i < j => \/ t_prompt_ids[i].call[1] < t_prompt_ids[j].call[1]
                      \/ /\ t_prompt_ids[i].call[1] = t_prompt_ids[j].call[1]
                         /\ t_prompt_ids[i].call[2] < t_prompt_ids[j].call[2]
        BY <1>3, <1>6, Zenon
    <2> QED BY <2>1, <2>2, <2>3, Zenon DEF ToolsOf!AnswersAreInCallOrder
<1>8. ASSUME "images" \notin c.answers PROVE ToolsOf(d)!ImagesHavePlaceholders
    <2>1. t_image_data = Cardinality(u_Places(t_prompt_ids))
        BY <1>1, <1>8 DEF u_Answers
    <2>2. {i \in ToolsOf(d)!Answered : t_prompt_ids[i].placeholders = 1} = u_Places(t_prompt_ids)
        BY <1>3, Zenon DEF u_Places
    <2>3. t_image_data = ToolsOf(d)!Cardinality({i \in ToolsOf(d)!Answered : t_prompt_ids[i].placeholders = 1})
        BY <2>1, <2>2, Zenon DEF ToolsOf!Cardinality, Cardinality
    <2> QED BY <2>3, Zenon DEF ToolsOf!ImagesHavePlaceholders
<1> QED BY <1>7, <1>8

LEMMA u_VersionsTold ==
    ASSUME NEW c, NEW d, u_Inv(c)
    PROVE  ToolsOf(d)!VersionsBracketTheTrajectory
<1>1. u_Spanned(c, t_extra_fields, t_prompt_ids, t_version)
    BY DEF u_Inv
<1>2. ASSUME NEW i \in DOMAIN t_prompt_ids, t_prompt_ids[i].by = "model"
      PROVE  /\ t_extra_fields.min <= t_prompt_ids[i].version
             /\ t_prompt_ids[i].version <= t_extra_fields.max
    <2>1. PICK a, b \in 0 .. c.versions :
              /\ t_extra_fields = [min |-> a, max |-> b] /\ a <= t_version /\ b <= t_version
              /\ \A j \in DOMAIN t_prompt_ids : t_prompt_ids[j].by = "model" =>
                    t_prompt_ids[j].version \in Nat /\ a <= t_prompt_ids[j].version
                    /\ t_prompt_ids[j].version <= b
        BY <1>1, <1>2, Zenon DEF u_Spanned
    <2>2. t_extra_fields.min = a /\ t_extra_fields.max = b
        BY <2>1
    <2>3. a <= t_prompt_ids[i].version /\ t_prompt_ids[i].version <= b
        BY <1>2, <2>1, Zenon
    <2> QED BY <2>2, <2>3, Zenon
<1> QED BY <1>2, Zenon DEF ToolsOf!VersionsBracketTheTrajectory

LEMMA u_OutputTold ==
    ASSUME NEW c, ToolsAssumption(c), u_Inv(c)
    PROVE  /\ ToolsOf(c)!MaskTellsTheModel /\ ToolsOf(c)!LogprobsAreAligned
           /\ ToolsOf(c)!EndsWithTheModel
<1>1. u_Kept(c, t_output)
    BY DEF u_Inv
<1>2. ToolsOf(c)!MaskTellsTheModel
    <2>1. CASE u_Nothing(c, t_output) /\ t_output # None
        BY <2>1, Zenon DEF u_Nothing, ToolsOf!MaskTellsTheModel, ToolsOf!NothingGenerated
    <2>2. CASE u_Good(c, t_output)
        BY <2>2, Zenon DEF u_Good, ToolsOf!MaskTellsTheModel, ToolsOf!Prompt
    <2>3. CASE t_output = None
        BY <2>3, Zenon DEF ToolsOf!MaskTellsTheModel
    <2> QED BY <1>1, <2>1, <2>2, <2>3, Zenon DEF u_Kept
<1>3. ToolsOf(c)!LogprobsAreAligned
    BY <1>1, Zenon DEF u_Kept, u_Good, u_Nothing, ToolsOf!LogprobsAreAligned
<1>4. ASSUME t_state = "GENERATING"
      PROVE  ToolsOf(c)!Room >= 1 /\ Len(t_response_mask) < c.response
    <2>1. u_Types(c) /\ u_Whole(c)
        BY DEF u_Inv
    <2>2. Len(t_response_mask) < c.response
        BY <1>4, <2>1 DEF u_Whole
    <2>3. PICK p \in 0 .. c.prompt : u_Fit(p, t_prompt_ids, t_response_mask)
        BY <2>1 DEF u_Whole
    <2>4. /\ c.prompt \in Nat /\ c.response \in Nat \ {0} /\ Len(t_response_mask) \in Nat
          /\ Len(t_prompt_ids) = p + Len(t_response_mask) /\ p \in Nat /\ p <= c.prompt
        <3>1. c.prompt \in Nat /\ c.response \in Nat \ {0}
            BY u_Constants
        <3>2. Len(t_response_mask) \in Nat
            BY <2>1 DEF u_Types
        <3> QED BY <2>3, <3>1, <3>2 DEF u_Fit
    <2>5. ToolsOf(c)!Room
             = IF c.response <= c.prompt + c.response - Len(t_prompt_ids)
               THEN c.response ELSE c.prompt + c.response - Len(t_prompt_ids)
        BY Zenon DEF ToolsOf!Room, ToolsOf!Least
    <2>6. c.prompt + c.response - Len(t_prompt_ids) >= 1 /\ c.response >= 1
        BY <2>2, <2>4
    <2> QED BY <2>2, <2>5, <2>6
<1>5. ToolsOf(c)!EndsWithTheModel
    <2>1. CASE u_Nothing(c, t_output)
        <3>1. Len(t_output.response_mask) = 0 /\ c.response \in Nat \ {0} /\ c.aborts
            BY <2>1, u_Constants, EmptySeq DEF u_Nothing
        <3>2. Len(t_output.response_mask) < c.response
            BY <3>1
        <3> QED BY <1>4, <3>1, <3>2, Zenon DEF ToolsOf!EndsWithTheModel
    <2>2. CASE u_Good(c, t_output) \/ t_output = None
        BY <1>4, <2>2, Zenon DEF u_Good, ToolsOf!EndsWithTheModel
    <2> QED BY <1>1, <2>1, <2>2, Zenon DEF u_Kept
<1> QED BY <1>2, <1>3, <1>5

(* What a configuration promises of the trajectories.                       *)
ToolsHold(c) ==
    /\ ToolsOf(c)!TypeOK
    /\ ToolsOf(c)!AnswersAreInCallOrder /\ ToolsOf(c)!VersionsBracketTheTrajectory
    /\ OutputIsWhole(c)
    /\ "images" \notin c.answers => ToolsOf(c)!ImagesHavePlaceholders

LEMMA u_Holds == ASSUME NEW c, ToolsAssumption(c), u_Inv(c) PROVE ToolsHold(c)
<1>1. ToolsOf(c)!TypeOK
    BY u_TypesTold
<1>2. /\ ToolsOf(c)!AnswersAreInCallOrder
      /\ "images" \notin c.answers => ToolsOf(c)!ImagesHavePlaceholders
    BY u_AnswersTold
<1>3. ToolsOf(c)!VersionsBracketTheTrajectory
    BY u_VersionsTold
<1>4. OutputIsWhole(c)
    BY u_OutputTold, Zenon DEF OutputIsWhole
<1> QED BY <1>1, <1>2, <1>3, <1>4, Zenon DEF ToolsHold

(* Whatever the lengths, the limits of turns and calls, the answers of the  *)
(* tools, the updates of the weights and the aborts: answers stand in the   *)
(* order of their calls, the versions bracket every token, and what the     *)
(* trainer is given fits together and ends with the model, but for what a   *)
(* request aborted before its first token leaves out (see OutputIsWhole);   *)
(* unless a tool answers with several images, each image has its place.     *)
THEOREM EveryToolAgentIsSound ==
    ASSUME NEW c, ToolsAssumption(c)
    PROVE  ToolsOf(c)!Spec => []ToolsHold(c)
<1>1. ToolsOf(c)!Init => u_Inv(c)
    BY u_Inits
<1>2. u_Inv(c) /\ [ToolsOf(c)!Next]_(ToolsOf(c)!vars) => u_Inv(c)'
    <2> SUFFICES ASSUME u_Inv(c), [ToolsOf(c)!Next]_(ToolsOf(c)!vars) PROVE u_Inv(c)'
        OBVIOUS
    <2>1. CASE ToolsOf(c)!Next
        BY <2>1, u_Steps
    <2>2. CASE UNCHANGED ToolsOf(c)!vars
        <3>1. UNCHANGED toolVars
            BY <2>2 DEF ToolsOf!vars, ToolsOf!trajectory, toolVars
        <3> QED BY <3>1, u_Stays
    <2> QED BY <2>1, <2>2
<1>3. u_Inv(c) => ToolsHold(c)
    BY u_Holds
<1> QED BY <1>1, <1>2, <1>3, PTL DEF ToolsOf!Spec
-----------------------------------------------------------------------------
(* Types of the balancer                                                    *)
TurnsType == turns \in [Requests -> 0 .. MaxTurns]

LEMMA TurnsTypeHolds == TurnsType /\ [Next]_vars => TurnsType'
<1> SUFFICES ASSUME TurnsType, [Next]_vars PROVE TurnsType'
    OBVIOUS
<1>1. ASSUME NEW r \in Requests, AcquireSticky(r) \/ AcquireFresh(r) PROVE TurnsType'
    <2>1. turns' = [turns EXCEPT ![r] = @ + 1] /\ turns[r] < MaxTurns
        BY <1>1 DEF AcquireSticky, AcquireFresh, Hand
    <2>2. turns[r] + 1 \in 0 .. MaxTurns
        BY <2>1, MaxTurnsAssumption DEF TurnsType
    <2> QED BY <2>1, <2>2 DEF TurnsType
<1>2. CASE turns' = turns
    BY <1>2 DEF TurnsType
<1>3. \/ \E r \in Requests : AcquireSticky(r) \/ AcquireFresh(r)
      \/ turns' = turns
    BY DEF Next, Finish, Release, AddServers, RemoveServers, vars
<1> QED BY <1>1, <1>2, <1>3

LEMMA BalancerTypes == ASSUME IInv, RouteInv, TurnsType PROVE TypeOK
<1>1. CacheType /\ EntriesInv
    BY DEF RouteInv
<1>2. ASSUME NEW r \in Requests PROVE Cardinality(Entries(r)) <= 1
    <2>1. \A i, j \in Entries(r) : i = j
        <3> TAKE i, j \in Entries(r)
        <3>1. i \in DOMAIN sticky /\ j \in DOMAIN sticky /\ sticky[i][1] = sticky[j][1]
            BY DEF Entries
        <3>2. i < j \/ j < i \/ i = j
            BY <1>1, <3>1, StickyDomain
        <3> QED BY <1>1, <3>1, <3>2 DEF EntriesInv
    <2>2. CASE Entries(r) = {}
        BY <2>2, FS_EmptySet
    <2>3. CASE Entries(r) # {}
        <3>1. PICK i : Entries(r) = {i}
            BY <2>1, <2>3
        <3>2. Cardinality({i}) = 1
            BY FS_Singleton
        <3> QED BY <3>1, <3>2
    <2> QED BY <2>2, <2>3
<1>3. \A i \in DOMAIN sticky : sticky[i] \in Requests \X Servers
    BY <1>1, StickyDomain
<1> QED BY <1>1, <1>2, <1>3 DEF TypeOK, CacheType, IInv, Counters, TurnsType
-----------------------------------------------------------------------------
(* Types of the balancer whose cache holds one conversation                 *)
d_Requests == {"r1", "r2"}
d_Servers  == {"a", "b", "h"}
d_Cache(c) == c = << >> \/ \E x \in d_Requests \X d_Servers : c = <<x>>
d_Inv ==
    /\ {"a", "b"} \subseteq DOMAIN d_inflight /\ DOMAIN d_inflight \subseteq d_Servers
    /\ \A s \in DOMAIN d_inflight : d_inflight[s] \in Nat
    /\ d_Cache(d_sticky)
    /\ d_held \in [d_Requests -> d_Servers \cup {None}]
    /\ d_releasing \in [d_Servers -> Nat]
    /\ d_turns \in [d_Requests -> 0 .. 2]
    /\ d_last \in [d_Requests -> d_Servers \cup {None}]
    /\ d_since \in [d_Requests -> SUBSET d_Requests]

LEMMA d_OfOne ==
    ASSUME NEW x \in d_Requests \X d_Servers
    PROVE  <<x>> \in Seq(d_Requests \X d_Servers) /\ Len(<<x>>) = 1 /\ DOMAIN <<x>> = {1} /\ <<x>>[1] = x
<1>1. 1 .. 1 = {1}
    OBVIOUS
<1> QED BY <1>1

LEMMA d_CacheIs ==
    ASSUME NEW c, d_Cache(c)
    PROVE  /\ c \in Seq(d_Requests \X d_Servers) /\ Len(c) <= 1 /\ DOMAIN c \subseteq {1}
           /\ \A i \in DOMAIN c : c[i] \in d_Requests \X d_Servers
           /\ 1 \in DOMAIN c => Len(c) = 1
<1>1. CASE c = << >>
    BY <1>1, EmptySeq, u_NoCalls
<1>2. ASSUME NEW x \in d_Requests \X d_Servers, c = <<x>>
      PROVE  /\ c \in Seq(d_Requests \X d_Servers) /\ Len(c) <= 1 /\ DOMAIN c \subseteq {1}
             /\ \A i \in DOMAIN c : c[i] \in d_Requests \X d_Servers
             /\ 1 \in DOMAIN c => Len(c) = 1
    BY <1>2, d_OfOne
<1> QED BY <1>1, <1>2 DEF d_Cache

(* Nothing but the new entry is left.                                       *)
LEMMA d_Without ==
    ASSUME d_Inv, NEW r \in d_Requests
    PROVE  /\ Drained!Entries(r) # {} => Drained!Without(r) = << >>
           /\ Drained!Entries(r) = {} => Drained!Without(r) = d_sticky
<1>1. CASE Drained!Entries(r) = {}
    BY <1>1, Zenon DEF Drained!Without
<1>2. CASE Drained!Entries(r) # {}
    <2>1. Drained!Entries(r) \subseteq DOMAIN d_sticky
        BY Zenon DEF Drained!Entries
    <2>2. d_Cache(d_sticky)
        BY DEF d_Inv
    <2>3. DOMAIN d_sticky \subseteq {1} /\ (1 \in DOMAIN d_sticky => Len(d_sticky) = 1)
        BY <2>2, d_CacheIs
    <2>4. Drained!Entries(r) = {1} /\ Len(d_sticky) = 1
        BY <1>2, <2>1, <2>3
    <2>5. Drained!Place(r) \in Drained!Entries(r)
        BY <1>2, Zenon DEF Drained!Place
    <2>6. Drained!Place(r) = 1
        BY <2>4, <2>5
    <2>7. Drained!Without(r) = SubSeq(d_sticky, 1, Drained!Place(r) - 1)
                                  \o SubSeq(d_sticky, Drained!Place(r) + 1, Len(d_sticky))
        BY <1>2, Zenon DEF Drained!Without
    <2>8. SubSeq(d_sticky, 1, 0) = << >> /\ SubSeq(d_sticky, 2, 1) = << >>
        BY SubSeqEmpty
    <2>9. Drained!Without(r) = << >> \o << >>
        <3>1. 1 - 1 = 0 /\ 1 + 1 = 2
            OBVIOUS
        <3> QED BY <2>4, <2>6, <2>7, <2>8, <3>1
    <2>10. << >> \o << >> = << >>
        <3>1. << >> \in Seq({}) /\ Len(<< >>) = 0
            BY EmptySeq
        <3>2. << >> \o << >> \in Seq({}) /\ Len(<< >> \o << >>) = 0
            BY <3>1, ConcatProperties
        <3> QED BY <3>2, EmptySeq
    <2> QED BY <1>2, <2>9, <2>10
<1> QED BY <1>1, <1>2

LEMMA d_Remembers ==
    ASSUME d_Inv, NEW r \in d_Requests, NEW s \in d_Servers
    PROVE  /\ Drained!Entries(r) # {} => d_Cache(Drained!Touched(r, s))
           /\ d_Cache(Drained!Stored(r, s))
<1>1. Append(<< >>, <<r, s>>) = << <<r, s>> >>
    OBVIOUS
<1>2. d_Cache(<< <<r, s>> >>)
    BY DEF d_Cache
<1>3. CASE Drained!Entries(r) # {}
    <2>1. Drained!Without(r) = << >> /\ Len(<< >>) < 1
        BY <1>3, d_Without, EmptySeq
    <2>2. Drained!Touched(r, s) = Append(<< >>, <<r, s>>)
        BY <2>1, Zenon DEF Drained!Touched
    <2>3. Drained!Stored(r, s) = Append(<< >>, <<r, s>>)
        BY <2>1, Zenon DEF Drained!Stored
    <2> QED BY <1>1, <1>2, <2>2, <2>3
<1>4. CASE Drained!Entries(r) = {}
    <2>1. Drained!Without(r) = d_sticky
        BY <1>4, d_Without
    <2>2. Drained!Stored(r, s) = Append(IF Len(d_sticky) < 1 THEN d_sticky ELSE Tail(d_sticky), <<r, s>>)
        BY <2>1, Zenon DEF Drained!Stored
    <2>3. (IF Len(d_sticky) < 1 THEN d_sticky ELSE Tail(d_sticky)) = << >>
        <3>1. CASE d_sticky = << >>
            BY <3>1, EmptySeq
        <3>2. CASE d_sticky # << >>
            <4>1. PICK x \in d_Requests \X d_Servers : d_sticky = <<x>>
                BY <3>2 DEF d_Inv, d_Cache
            <4>2. d_sticky \in Seq(d_Requests \X d_Servers) /\ Len(d_sticky) = 1
                BY <4>1, d_OfOne
            <4>3. Tail(d_sticky) \in Seq(d_Requests \X d_Servers) /\ Len(Tail(d_sticky)) = 0
                BY <3>2, <4>2, HeadTailProperties
            <4>4. Tail(d_sticky) = << >>
                BY <4>3, EmptySeq
            <4> QED BY <4>2, <4>4
        <3> QED BY <3>1, <3>2
    <2>4. d_Cache(Drained!Stored(r, s))
        BY <1>1, <1>2, <2>2, <2>3
    <2> QED BY <1>4, <2>4
<1> QED BY <1>3, <1>4

LEMMA d_Inits == ASSUME Drained!Init PROVE d_Inv
<1>1. /\ d_inflight = [s \in {"a", "b"} |-> 0] /\ d_sticky = << >>
      /\ d_held = [r \in d_Requests |-> None] /\ d_releasing = [s \in {"a", "b"} \cup {"h"} |-> 0]
      /\ d_turns = [r \in d_Requests |-> 0] /\ d_last = [r \in d_Requests |-> None]
      /\ d_since = [r \in d_Requests |-> {}]
    BY Zenon DEF Drained!Init, d_Requests, Drained!Servers
<1>2. {"a", "b"} \cup {"h"} = d_Servers
    BY DEF d_Servers
<1>3. d_Cache(d_sticky)
    BY <1>1 DEF d_Cache
<1>4. {"a", "b"} \subseteq DOMAIN d_inflight /\ DOMAIN d_inflight \subseteq d_Servers
      /\ \A s \in DOMAIN d_inflight : d_inflight[s] \in Nat
    BY <1>1, <1>2
<1> QED BY <1>1, <1>2, <1>3, <1>4 DEF d_Inv

LEMMA d_Hands ==
    ASSUME d_Inv, NEW r \in d_Requests, NEW s \in d_Servers, NEW cache, d_Cache(cache), d_turns[r] < 2,
           Drained!Hand(r, s, cache)
    PROVE  d_Inv'
<1>1. /\ d_sticky' = cache
      /\ d_inflight' = [t \in DOMAIN d_inflight \cup {s} |->
            IF t = s THEN (IF s \in DOMAIN d_inflight THEN d_inflight[s] ELSE 0) + 1 ELSE d_inflight[t]]
      /\ d_held' = [d_held EXCEPT ![r] = s]
      /\ d_turns' = [d_turns EXCEPT ![r] = @ + 1]
      /\ d_last' = [d_last EXCEPT ![r] = s]
      /\ d_since' = [q \in d_Requests |-> IF q = r THEN {} ELSE d_since[q] \cup {r}]
      /\ d_releasing' = d_releasing
    BY Zenon DEF Drained!Hand, Drained!Pool, d_Requests
<1>2. /\ {"a", "b"} \subseteq DOMAIN d_inflight' /\ DOMAIN d_inflight' \subseteq d_Servers
      /\ \A t \in DOMAIN d_inflight' : d_inflight'[t] \in Nat
    BY <1>1 DEF d_Inv
<1>3. d_turns' \in [d_Requests -> 0 .. 2]
    <2>1. d_turns[r] + 1 \in 0 .. 2
        BY DEF d_Inv
    <2> QED BY <1>1, <2>1 DEF d_Inv
<1>4. d_since' \in [d_Requests -> SUBSET d_Requests]
    BY <1>1 DEF d_Inv
<1>5. /\ d_held' \in [d_Requests -> d_Servers \cup {None}]
      /\ d_last' \in [d_Requests -> d_Servers \cup {None}]
    BY <1>1 DEF d_Inv
<1> QED BY <1>1, <1>2, <1>3, <1>4, <1>5 DEF d_Inv, d_Cache

LEMMA d_Steps == ASSUME d_Inv, Drained!Next PROVE d_Inv'
<1>0. Drained!Servers = d_Servers
    BY DEF Drained!Servers, d_Servers
<1>1. ASSUME NEW r \in d_Requests, Drained!AcquireSticky(r) PROVE d_Inv'
    <2>1. /\ d_turns[r] < 2 /\ Drained!Entries(r) # {} /\ Drained!CachedServer(r) \in DOMAIN d_inflight
          /\ Drained!Hand(r, Drained!CachedServer(r), Drained!Touched(r, Drained!CachedServer(r)))
        BY <1>1, Zenon DEF Drained!AcquireSticky, Drained!IsHit, Drained!Pool
    <2>2. PICK s \in d_Servers : s = Drained!CachedServer(r)
        BY <2>1 DEF d_Inv
    <2>3. Drained!Hand(r, s, Drained!Touched(r, s)) /\ d_Cache(Drained!Touched(r, s))
        BY <2>1, <2>2, d_Remembers
    <2> QED BY <2>1, <2>3, d_Hands
<1>2. ASSUME NEW r \in d_Requests, Drained!AcquireFresh(r) PROVE d_Inv'
    <2>1. d_turns[r] < 2 /\ \E s \in DOMAIN d_inflight : Drained!Hand(r, s, Drained!Stored(r, s))
        BY <1>2, Zenon DEF Drained!AcquireFresh, Drained!LeastLoaded, Drained!Pool
    <2>2. PICK s \in d_Servers : Drained!Hand(r, s, Drained!Stored(r, s))
        BY <2>1 DEF d_Inv
    <2>3. d_Cache(Drained!Stored(r, s))
        BY d_Remembers
    <2> QED BY <2>1, <2>2, <2>3, d_Hands
<1>3. ASSUME NEW r \in d_Requests, Drained!Finish(r) PROVE d_Inv'
    <2>1. /\ d_held[r] # None /\ d_held' = [d_held EXCEPT ![r] = None]
          /\ d_releasing' = [d_releasing EXCEPT ![d_held[r]] = @ + 1]
          /\ d_inflight' = d_inflight /\ d_sticky' = d_sticky /\ d_turns' = d_turns
          /\ d_last' = d_last /\ d_since' = d_since
        BY <1>3 DEF Drained!Finish
    <2>2. d_held[r] \in d_Servers
        BY <2>1 DEF d_Inv
    <2> QED BY <2>1, <2>2 DEF d_Inv, d_Cache
<1>4. ASSUME NEW s \in d_Servers, Drained!Release(s) PROVE d_Inv'
    <2>1. /\ d_releasing[s] > 0 /\ d_releasing' = [d_releasing EXCEPT ![s] = @ - 1]
          /\ d_inflight' = (IF s \in DOMAIN d_inflight /\ d_inflight[s] > 0
                            THEN [d_inflight EXCEPT ![s] = @ - 1] ELSE d_inflight)
          /\ d_held' = d_held /\ d_sticky' = d_sticky /\ d_turns' = d_turns
          /\ d_last' = d_last /\ d_since' = d_since
        BY <1>4 DEF Drained!Release, Drained!Decremented, Drained!Pool
    <2>2. d_releasing' \in [d_Servers -> Nat]
        <3>1. d_releasing[s] - 1 \in Nat
            BY <2>1 DEF d_Inv
        <3> QED BY <2>1, <3>1 DEF d_Inv
    <2>3. /\ DOMAIN d_inflight' = DOMAIN d_inflight
          /\ \A t \in DOMAIN d_inflight' : d_inflight'[t] \in Nat
        <3>1. CASE s \in DOMAIN d_inflight /\ d_inflight[s] > 0
            <4>1. d_inflight[s] - 1 \in Nat
                BY <3>1 DEF d_Inv
            <4> QED BY <2>1, <3>1, <4>1 DEF d_Inv
        <3>2. CASE ~(s \in DOMAIN d_inflight /\ d_inflight[s] > 0)
            BY <2>1, <3>2 DEF d_Inv
        <3> QED BY <3>1, <3>2
    <2> QED BY <2>1, <2>2, <2>3 DEF d_Inv, d_Cache
<1>5. ASSUME Drained!AddServers \/ Drained!RemoveServers PROVE d_Inv'
    <2>1. /\ d_held' = d_held /\ d_sticky' = d_sticky /\ d_turns' = d_turns
          /\ d_last' = d_last /\ d_since' = d_since /\ d_releasing' = d_releasing
        BY <1>5 DEF Drained!AddServers, Drained!RemoveServers
    <2>2. CASE Drained!AddServers
        <3>1. PICK S \in SUBSET {"h"} :
                 d_inflight' = [s \in DOMAIN d_inflight \cup S |-> IF s \in S THEN 0 ELSE d_inflight[s]]
            BY <2>2 DEF Drained!AddServers, Drained!Pool
        <3> QED BY <2>1, <3>1 DEF d_Inv, d_Cache, d_Servers
    <2>3. CASE Drained!RemoveServers
        <3>1. PICK S \in SUBSET {"h"} : d_inflight' = [s \in DOMAIN d_inflight \ S |-> d_inflight[s]]
            BY <2>3 DEF Drained!RemoveServers, Drained!Pool
        <3> QED BY <2>1, <3>1 DEF d_Inv, d_Cache, d_Servers
    <2> QED BY <1>5, <2>2, <2>3
<1>6. \/ \E r \in d_Requests : Drained!AcquireSticky(r) \/ Drained!AcquireFresh(r) \/ Drained!Finish(r)
      \/ \E s \in d_Servers : Drained!Release(s)
      \/ Drained!AddServers \/ Drained!RemoveServers
    BY <1>0, Zenon DEF Drained!Next, d_Requests
<1> QED BY <1>1, <1>2, <1>3, <1>4, <1>5, <1>6

LEMMA d_Stays == ASSUME d_Inv, UNCHANGED drainVars PROVE d_Inv'
BY DEF d_Inv, d_Cache, drainVars

LEMMA d_Types == ASSUME d_Inv PROVE Drained!TypeOK
<1>1. Drained!Servers = d_Servers /\ Drained!Pool = DOMAIN d_inflight
    BY DEF Drained!Servers, Drained!Pool, d_Servers
<1>2. /\ \A i \in DOMAIN d_sticky : d_sticky[i] \in d_Requests \X d_Servers
      /\ Len(d_sticky) <= 1 /\ DOMAIN d_sticky \subseteq {1}
    <2>1. d_Cache(d_sticky)
        BY DEF d_Inv
    <2> QED BY <2>1, d_CacheIs
<1>3. ASSUME NEW r \in d_Requests PROVE Drained!Cardinality(Drained!Entries(r)) <= 1
    <2>1. Drained!Entries(r) \subseteq {1}
        BY <1>2 DEF Drained!Entries
    <2>2. Cardinality({}) = 0 /\ Cardinality({1}) = 1
        BY FS_EmptySet, FS_Singleton
    <2>3. Cardinality(Drained!Entries(r)) <= 1
        <3>1. Drained!Entries(r) = {} \/ Drained!Entries(r) = {1}
            BY <2>1
        <3> QED BY <2>2, <3>1
    <2> QED BY <2>3, Zenon DEF Drained!Cardinality, Cardinality
<1>4. {"a", "b"} \subseteq d_Servers
    BY DEF d_Servers
<1> QED BY <1>1, <1>2, <1>3, <1>4 DEF Drained!TypeOK, d_Inv, d_Requests

-----------------------------------------------------------------------------
(* Limiters, whatever their layers                                         *)

(* For any workers, requests, buckets, rates, costs, slots and timeouts, and*)
(* any order of refills, calls and late answers, in threads or not: over any*)
(* stretch of time a bucket lets through what it holds and what the rate    *)
(* adds, but for one request larger than the bucket, and every slot is given*)
(* back.                                                                    *)
THEOREM EveryLimiterIsKept ==
    ASSUME NEW c, LimiterAssumption(c)
    PROVE  LimiterOf(c)!Spec => [](/\ LimiterOf(c)!TypeOK /\ LimiterOf(c)!GrantsFollowTheRate
                                   /\ LimiterOf(c)!SlotsAreGivenBack)
<1>1. LimiterOf(c)!Init => l_Inv(c)
    BY l_Inits
<1>2. l_Inv(c) /\ [LimiterOf(c)!Next]_(LimiterOf(c)!vars) => l_Inv(c)'
    <2> SUFFICES ASSUME l_Inv(c), [LimiterOf(c)!Next]_(LimiterOf(c)!vars) PROVE l_Inv(c)'
        OBVIOUS
    <2>1. CASE LimiterOf(c)!Next
        BY <2>1, l_Steps
    <2>2. CASE UNCHANGED LimiterOf(c)!vars
        <3>1. UNCHANGED limitVars
            BY <2>2 DEF LimiterOf!vars, LimiterOf!buckets, LimiterOf!slots, limitVars
        <3> QED BY <3>1, l_Stays
    <2> QED BY <2>1, <2>2
<1>3. l_Inv(c) => /\ LimiterOf(c)!TypeOK /\ LimiterOf(c)!GrantsFollowTheRate
                  /\ LimiterOf(c)!SlotsAreGivenBack
    BY l_InvTells
<1> QED BY <1>1, <1>2, <1>3, PTL DEF LimiterOf!Spec
-----------------------------------------------------------------------------
(* The models together                                                     *)

(* One of them runs, the others keep one of their initial states.          *)
ToolsInv   == IF model = "turns" THEN u_Inv(limited) ELSE u_Inv(endless)
LimiterInv == IF model = "paced" THEN l_Inv(paced) ELSE l_Inv(layered)
AllInv     == IInv /\ RouteInv /\ TurnsType /\ d_Inv /\ ToolsInv /\ LimiterInv

LEMMA AssumedOfAll ==
    /\ ToolsAssumption(endless) /\ ToolsAssumption(limited)
    /\ LimiterAssumption(layered) /\ LimiterAssumption(paced)
BY InstancesAssumption, Zenon

LEMMA InitOfAllInv == InitOfAll => AllInv
<1> SUFFICES ASSUME InitOfAll PROVE AllInv
    OBVIOUS
<1>1. /\ Init /\ Drained!Init /\ ToolsOf(endless)!Init
      /\ IF model = "paced" THEN LimiterOf(paced)!Init ELSE LimiterOf(layered)!Init
    BY Zenon DEF InitOfAll
<1>2. IInv /\ RouteInv
    BY <1>1, InitIInv, RouteInvInit
<1>3. TurnsType
    <2>1. 0 \in 0 .. MaxTurns
        BY MaxTurnsAssumption
    <2> QED BY <1>1, <2>1 DEF Init, TurnsType
<1>4. d_Inv
    BY <1>1, d_Inits
<1>5. ToolsInv
    <2>1. ToolsOf(limited)!Init
        BY <1>1, Zenon DEF ToolsOf!Init
    <2>2. u_Inv(limited)
        BY <2>1, AssumedOfAll, u_Inits
    <2>3. u_Inv(endless)
        BY <1>1, AssumedOfAll, u_Inits
    <2> QED BY <2>2, <2>3, Zenon DEF ToolsInv
<1>6. LimiterInv
    <2>1. CASE model = "paced"
        <3>1. l_Inv(paced)
            BY <1>1, <2>1, AssumedOfAll, l_Inits
        <3> QED BY <2>1, <3>1, Zenon DEF LimiterInv
    <2>2. CASE model # "paced"
        <3>1. l_Inv(layered)
            BY <1>1, <2>2, AssumedOfAll, l_Inits
        <3> QED BY <2>2, <3>1, Zenon DEF LimiterInv
    <2> QED BY <2>1, <2>2
<1> QED BY <1>2, <1>3, <1>4, <1>5, <1>6, Zenon DEF AllInv

LEMMA BalancerGoes ==
    ASSUME AllInv, [Next]_vars
    PROVE  IInv' /\ RouteInv' /\ TurnsType'
<1>1. IInv /\ RouteInv /\ TurnsType
    BY Zenon DEF AllInv
<1> QED BY <1>1, NextIInv, RouteInvNext, TurnsTypeHolds

LEMMA DrainedGoes ==
    ASSUME AllInv, Drained!Next \/ UNCHANGED drainVars
    PROVE  d_Inv'
<1>1. d_Inv
    BY Zenon DEF AllInv
<1>2. CASE Drained!Next
    BY <1>1, <1>2, d_Steps
<1>3. CASE UNCHANGED drainVars
    BY <1>1, <1>3, d_Stays
<1> QED BY <1>2, <1>3

LEMMA ToolsGo ==
    ASSUME AllInv, model' = model,
           \/ model = "tools" /\ ToolsOf(endless)!Next
           \/ model = "turns" /\ ToolsOf(limited)!Next
           \/ UNCHANGED toolVars
    PROVE  ToolsInv'
<1>1. ToolsInv
    BY Zenon DEF AllInv
<1>2. CASE model = "turns"
    <2>1. u_Inv(limited)
        BY <1>1, <1>2, Zenon DEF ToolsInv
    <2>2. ToolsOf(limited)!Next \/ UNCHANGED toolVars
        BY <1>2
    <2>3. ToolsOf(limited)!Next => u_Inv(limited)'
        BY <2>1, AssumedOfAll, u_Steps
    <2>4. UNCHANGED toolVars => u_Inv(limited)'
        BY <2>1, u_Stays
    <2>5. u_Inv(limited)'
        BY <2>2, <2>3, <2>4
    <2>6. model' = "turns"
        BY <1>2
    <2> QED BY <2>5, <2>6, Zenon DEF ToolsInv
<1>3. CASE model # "turns"
    <2>1. u_Inv(endless)
        BY <1>1, <1>3, Zenon DEF ToolsInv
    <2>2. ToolsOf(endless)!Next \/ UNCHANGED toolVars
        BY <1>3
    <2>3. ToolsOf(endless)!Next => u_Inv(endless)'
        BY <2>1, AssumedOfAll, u_Steps
    <2>4. UNCHANGED toolVars => u_Inv(endless)'
        BY <2>1, u_Stays
    <2>5. u_Inv(endless)'
        BY <2>2, <2>3, <2>4
    <2>6. model' # "turns"
        BY <1>3
    <2> QED BY <2>5, <2>6, Zenon DEF ToolsInv
<1> QED BY <1>2, <1>3

LEMMA LimitersGo ==
    ASSUME AllInv, model' = model,
           \/ model = "limiter" /\ LimiterOf(layered)!Next
           \/ model = "paced" /\ LimiterOf(paced)!Next
           \/ UNCHANGED limitVars
    PROVE  LimiterInv'
<1>1. LimiterInv
    BY Zenon DEF AllInv
<1>2. CASE model = "paced"
    <2>1. l_Inv(paced)
        BY <1>1, <1>2, Zenon DEF LimiterInv
    <2>2. LimiterOf(paced)!Next \/ UNCHANGED limitVars
        BY <1>2
    <2>3. LimiterOf(paced)!Next => l_Inv(paced)'
        BY <2>1, AssumedOfAll, l_Steps
    <2>4. UNCHANGED limitVars => l_Inv(paced)'
        BY <2>1, l_Stays
    <2>5. l_Inv(paced)'
        BY <2>2, <2>3, <2>4
    <2>6. model' = "paced"
        BY <1>2
    <2> QED BY <2>5, <2>6, Zenon DEF LimiterInv
<1>3. CASE model # "paced"
    <2>1. l_Inv(layered)
        BY <1>1, <1>3, Zenon DEF LimiterInv
    <2>2. LimiterOf(layered)!Next \/ UNCHANGED limitVars
        BY <1>3
    <2>3. LimiterOf(layered)!Next => l_Inv(layered)'
        BY <2>1, AssumedOfAll, l_Steps
    <2>4. UNCHANGED limitVars => l_Inv(layered)'
        BY <2>1, l_Stays
    <2>5. l_Inv(layered)'
        BY <2>2, <2>3, <2>4
    <2>6. model' # "paced"
        BY <1>3
    <2> QED BY <2>5, <2>6, Zenon DEF LimiterInv
<1> QED BY <1>2, <1>3

(* What a step of the composition is to each of its parts.                 *)
LEMMA PartsOfAll ==
    ASSUME [NextOfOne]_allVars
    PROVE  /\ model' = model /\ [Next]_vars
           /\ Drained!Next \/ UNCHANGED drainVars
           /\ \/ model = "tools" /\ ToolsOf(endless)!Next
              \/ model = "turns" /\ ToolsOf(limited)!Next
              \/ UNCHANGED toolVars
           /\ \/ model = "limiter" /\ LimiterOf(layered)!Next
              \/ model = "paced" /\ LimiterOf(paced)!Next
              \/ UNCHANGED limitVars
<1>1. CASE UNCHANGED allVars
    <2>1. model' = model /\ UNCHANGED vars /\ UNCHANGED drainVars /\ UNCHANGED toolVars /\ UNCHANGED limitVars
        BY <1>1 DEF allVars
    <2> QED BY <2>1, Zenon
<1>2. CASE NextOfOne
    <2>1. model' = model
        BY <1>2 DEF NextOfOne
    <2>2. \/ Next /\ UNCHANGED <<drainVars, toolVars, limitVars>>
          \/ Drained!Next /\ UNCHANGED <<vars, toolVars, limitVars>>
          \/ (\/ model = "tools" /\ ToolsOf(endless)!Next
              \/ model = "turns" /\ ToolsOf(limited)!Next) /\ UNCHANGED <<vars, drainVars, limitVars>>
          \/ (\/ model = "limiter" /\ LimiterOf(layered)!Next
              \/ model = "paced" /\ LimiterOf(paced)!Next) /\ UNCHANGED <<vars, drainVars, toolVars>>
        BY <1>2, Zenon DEF NextOfOne
    <2>3. CASE Next /\ UNCHANGED <<drainVars, toolVars, limitVars>>
        <3>1. UNCHANGED drainVars /\ UNCHANGED toolVars /\ UNCHANGED limitVars
            BY <2>3
        <3> QED BY <2>1, <2>3, <3>1, Zenon
    <2>4. CASE Drained!Next /\ UNCHANGED <<vars, toolVars, limitVars>>
        <3>1. UNCHANGED vars /\ UNCHANGED toolVars /\ UNCHANGED limitVars
            BY <2>4
        <3> QED BY <2>1, <2>4, <3>1, Zenon
    <2>5. CASE (\/ model = "tools" /\ ToolsOf(endless)!Next
                \/ model = "turns" /\ ToolsOf(limited)!Next) /\ UNCHANGED <<vars, drainVars, limitVars>>
        <3>1. UNCHANGED vars /\ UNCHANGED drainVars /\ UNCHANGED limitVars
            BY <2>5
        <3> QED BY <2>1, <2>5, <3>1, Zenon
    <2>6. CASE (\/ model = "limiter" /\ LimiterOf(layered)!Next
                \/ model = "paced" /\ LimiterOf(paced)!Next) /\ UNCHANGED <<vars, drainVars, toolVars>>
        <3>1. UNCHANGED vars /\ UNCHANGED drainVars /\ UNCHANGED toolVars
            BY <2>6
        <3> QED BY <2>1, <2>6, <3>1, Zenon
    <2> QED BY <2>2, <2>3, <2>4, <2>5, <2>6
<1> QED BY <1>1, <1>2

LEMMA NextOfAllInv == AllInv /\ [NextOfOne]_allVars => AllInv'
<1> SUFFICES ASSUME AllInv, [NextOfOne]_allVars PROVE AllInv'
    OBVIOUS
<1>1. IInv' /\ RouteInv' /\ TurnsType'
    BY PartsOfAll, BalancerGoes
<1>2. d_Inv'
    BY PartsOfAll, DrainedGoes
<1>3. ToolsInv'
    BY PartsOfAll, ToolsGo
<1>4. LimiterInv'
    BY PartsOfAll, LimitersGo
<1> QED BY <1>1, <1>2, <1>3, <1>4, Zenon DEF AllInv

LEMMA AllInvHolds == SpecOfAll => []AllInv
<1> QED BY InitOfAllInv, NextOfAllInv, PTL DEF SpecOfAll

(* In every state the composition reaches, each of the models is of its     *)
(* types; only a request larger than a bucket leaves the bucket in debt.    *)
THEOREM TypesOfAll == SpecOfAll => []TypesOK
<1>1. AllInv => TypesOK
    <2> SUFFICES ASSUME AllInv PROVE TypesOK
        OBVIOUS
    <2>1. IInv /\ RouteInv /\ TurnsType /\ d_Inv /\ ToolsInv /\ LimiterInv
        BY Zenon DEF AllInv
    <2>2. TypeOK
        BY <2>1, BalancerTypes
    <2>3. Drained!TypeOK
        BY <2>1, d_Types
    <2>4. IF model = "turns" THEN ToolsOf(limited)!TypeOK ELSE ToolsOf(endless)!TypeOK
        <3>1. u_Inv(limited) => ToolsOf(limited)!TypeOK
            BY AssumedOfAll, u_TypesTold
        <3>2. u_Inv(endless) => ToolsOf(endless)!TypeOK
            BY AssumedOfAll, u_TypesTold
        <3> QED BY <2>1, <3>1, <3>2, Zenon DEF ToolsInv
    <2>5. IF model = "paced" THEN LimiterOf(paced)!TypeOK ELSE LimiterOf(layered)!TypeOK
        <3>1. l_Inv(paced) => LimiterOf(paced)!TypeOK
            BY AssumedOfAll, l_InvTells
        <3>2. l_Inv(layered) => LimiterOf(layered)!TypeOK
            BY AssumedOfAll, l_InvTells
        <3> QED BY <2>1, <3>1, <3>2, Zenon DEF LimiterInv
    <2> QED BY <2>2, <2>3, <2>4, <2>5, Zenon DEF TypesOK
<1> QED BY <1>1, AllInvHolds, PTL

(* After any turns, cuts of the context, concurrent tools and updates of    *)
(* the weights, what the trainer is given of a trajectory fits together.    *)
THEOREM TrajectoriesOfAll == SpecOfAll => []TrajectoriesAreWhole
<1>1. AllInv => TrajectoriesAreWhole
    <2> SUFFICES ASSUME AllInv PROVE TrajectoriesAreWhole
        OBVIOUS
    <2>1. ToolsInv
        BY Zenon DEF AllInv
    <2>2. u_Inv(limited) \/ u_Inv(endless)
        BY <2>1, Zenon DEF ToolsInv
    <2>3. "images" \notin endless.answers /\ "images" \notin limited.answers
        BY DEF endless, limited
    <2>4. AnswersAreInCallOrder
        <3>1. ToolsOf(endless)!AnswersAreInCallOrder
            BY <2>2, u_AnswersTold
        <3> QED BY <3>1, Zenon DEF AnswersAreInCallOrder
    <2>5. ImagesHavePlaceholders
        <3>1. ToolsOf(endless)!ImagesHavePlaceholders
            BY <2>2, <2>3, u_AnswersTold
        <3> QED BY <3>1, Zenon DEF ImagesHavePlaceholders
    <2>6. VersionsBracketTheTrajectory
        <3>1. ToolsOf(endless)!VersionsBracketTheTrajectory
            BY <2>2, u_VersionsTold
        <3> QED BY <3>1, Zenon DEF VersionsBracketTheTrajectory
    <2>7. IF model = "turns" THEN OutputIsWhole(limited) ELSE OutputIsWhole(endless)
        <3>1. u_Inv(limited) => OutputIsWhole(limited)
            BY AssumedOfAll, u_OutputTold, Zenon DEF OutputIsWhole
        <3>2. u_Inv(endless) => OutputIsWhole(endless)
            BY AssumedOfAll, u_OutputTold, Zenon DEF OutputIsWhole
        <3> QED BY <2>1, <3>1, <3>2, Zenon DEF ToolsInv
    <2> QED BY <2>4, <2>5, <2>6, <2>7, Zenon DEF TrajectoriesAreWhole
<1> QED BY <1>1, AllInvHolds, PTL

(* The rates hold over any stretch of time and every slot comes back.       *)
THEOREM LimitsOfAll == SpecOfAll => []LimitsAreKept
<1>1. AllInv => LimitsAreKept
    <2> SUFFICES ASSUME AllInv PROVE LimitsAreKept
        OBVIOUS
    <2>1. LimiterInv
        BY Zenon DEF AllInv
    <2>2. l_Inv(paced) => LimiterOf(paced)!GrantsFollowTheRate /\ LimiterOf(paced)!SlotsAreGivenBack
        BY AssumedOfAll, l_InvTells
    <2>3. l_Inv(layered) => LimiterOf(layered)!GrantsFollowTheRate /\ LimiterOf(layered)!SlotsAreGivenBack
        BY AssumedOfAll, l_InvTells
    <2>4. GrantsFollowTheRate
        BY <2>1, <2>2, <2>3, Zenon DEF LimiterInv, GrantsFollowTheRate
    <2>5. SlotsAreGivenBack
        BY <2>1, <2>2, <2>3, Zenon DEF LimiterInv, SlotsAreGivenBack
    <2> QED BY <2>4, <2>5, Zenon DEF LimitsAreKept
<1> QED BY <1>1, AllInvHolds, PTL

(* The balancer of the composition counts the load and routes as it does    *)
(* alone.                                                                   *)
THEOREM BalancerOfAll == SpecOfAll => []CountsFollowTheLoad /\ RoutesStayGood
<1>1. AllInv => IInv /\ RouteInv
    BY Zenon DEF AllInv
<1>2. [NextOfOne]_allVars => [Next]_vars
    BY PartsOfAll
<1>3. IInv => CountsFollowTheLoad
    BY DEF IInv, CountsFollowTheLoad
<1>4. SpecOfAll => []CountsFollowTheLoad
    BY <1>1, <1>3, AllInvHolds, PTL
<1>5. SpecOfAll => RoutesStayGood
    BY <1>1, <1>2, AllInvHolds, PoolStep, StickyStep, PTL
       DEF SpecOfAll, RoutesStayGood, StickySession, AcquiredServerIsInThePool
<1> QED BY <1>4, <1>5
=============================================================================
