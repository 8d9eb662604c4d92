---------------------------- MODULE LoadBalancer ----------------------------
(***************************************************************************)
(* GlobalRequestLoadBalancer (verl/workers/rollout/llm_server.py) and the  *)
(* clients that call it.  The balancer is one actor: its methods run one   *)
(* at a time.  A client acquires a server for a request id, generates, and *)
(* sends the release without waiting for it, so a release may arrive late, *)
(* after the server was removed or even removed and added again.           *)
(* Operators introduced by "Slip:" are mistakes the properties notice.     *)
(***************************************************************************)
EXTENDS Integers, Sequences, FiniteSets

CONSTANTS
    Standalone,  \* servers registered for the whole run
    Hybrid,      \* servers added and removed at run time
    Requests,    \* request ids: one multi-turn conversation each
    MaxTurns,    \* bound: turns of a conversation
    CacheSize,   \* max_cache_size of the routing cache
    None         \* no server

Servers == Standalone \cup Hybrid

ASSUME ServersAssumption   == /\ IsFiniteSet(Servers) /\ Standalone # {}
                              /\ Standalone \cap Hybrid = {} /\ None \notin Servers
ASSUME RequestsAssumption  == IsFiniteSet(Requests)
ASSUME MaxTurnsAssumption  == MaxTurns \in Nat
ASSUME CacheSizeAssumption == CacheSize \in Nat \ {0}

VARIABLES
    inflight,   \* _inflight_requests; its domain is the pool
    sticky,     \* _request_id_to_server, least recently used entry first
    held,       \* server each request is generating on, or None
    releasing,  \* release calls on their way, per server
    turns,      \* turns each request has started
    last,       \* history: server of the request's latest turn
    since       \* history: other requests served since that turn

vars == <<inflight, sticky, held, releasing, turns, last, since>>

Pool == DOMAIN inflight
Entries(r) == {i \in DOMAIN sticky : sticky[i][1] = r}
Place(r) == CHOOSE i \in Entries(r) : TRUE
Without(r) ==
    IF Entries(r) = {} THEN sticky
    ELSE SubSeq(sticky, 1, Place(r) - 1) \o SubSeq(sticky, Place(r) + 1, Len(sticky))

(* LRUCache: a hit or a store makes r the most recent entry; a store into a *)
(* full cache evicts the least recent one.                                  *)
(* Slip: a hit does not refresh the entry. *)
TouchedNot(r, s) == sticky
Touched(r, s) == Append(Without(r), <<r, s>>)
Stored(r, s) ==
    Append(IF Len(Without(r)) < CacheSize THEN Without(r) ELSE Tail(Without(r)),
           <<r, s>>)

LeastLoaded == {s \in Pool : \A t \in Pool : inflight[s] <= inflight[t]}
CachedServer(r) == sticky[Place(r)][2]
(* Slip: the cached server is used without looking whether it is still in   *)
(* the pool.                                                                *)
IsHitUnchecked(r) == Entries(r) # {}
IsHit(r) == Entries(r) # {} /\ CachedServer(r) \in Pool

Init ==
    /\ inflight = [s \in Standalone |-> 0]
    /\ sticky = << >>
    /\ held = [r \in Requests |-> None]
    /\ releasing = [s \in Servers |-> 0]
    /\ turns = [r \in Requests |-> 0]
    /\ last = [r \in Requests |-> None]
    /\ since = [r \in Requests |-> {}]

(* acquire_server hands s to r, in one call of the actor. *)
Hand(r, s, cache) ==
    /\ sticky' = cache
    /\ inflight' = [t \in Pool \cup {s} |->
          IF t = s THEN (IF s \in Pool THEN inflight[s] ELSE 0) + 1 ELSE inflight[t]]
    /\ held' = [held EXCEPT ![r] = s]
    /\ turns' = [turns EXCEPT ![r] = @ + 1]
    /\ last' = [last EXCEPT ![r] = s]
    /\ since' = [q \in Requests |-> IF q = r THEN {} ELSE since[q] \cup {r}]
    /\ UNCHANGED releasing

AcquireSticky(r) ==
    /\ held[r] = None /\ turns[r] < MaxTurns
    /\ IsHit(r)
    /\ Hand(r, CachedServer(r), Touched(r, CachedServer(r)))

(* No entry, or an entry of a removed server: least loaded, any of the ties.*)
AcquireFresh(r) ==
    /\ held[r] = None /\ turns[r] < MaxTurns
    /\ ~IsHit(r)
    /\ \E s \in LeastLoaded : Hand(r, s, Stored(r, s))

(* generate returns or fails; the finally clause sends the release.         *)
Finish(r) ==
    /\ held[r] # None
    /\ held' = [held EXCEPT ![r] = None]
    /\ releasing' = [releasing EXCEPT ![held[r]] = @ + 1]
    /\ UNCHANGED <<inflight, sticky, turns, last, since>>

(* Slip: a server the pool does not know gets an entry. *)
DecrementedBlindly(s) ==
    [t \in Pool \cup {s} |->
        IF t = s THEN (IF s \in Pool THEN inflight[s] - 1 ELSE 0) ELSE inflight[t]]
(* Slip: the release is dropped. *)
DecrementedNever(s) == inflight
Decremented(s) ==
    IF s \in Pool /\ inflight[s] > 0
    THEN [inflight EXCEPT ![s] = @ - 1] ELSE inflight

(* release_server arrives, whatever became of the server meanwhile.         *)
Release(s) ==
    /\ releasing[s] > 0
    /\ releasing' = [releasing EXCEPT ![s] = @ - 1]
    /\ inflight' = Decremented(s)
    /\ UNCHANGED <<sticky, held, turns, last, since>>

(* add_servers / remove_servers, called by the server manager for replicas  *)
(* that are not yet / still alive.                                          *)
AddServers ==
    /\ \E S \in (SUBSET (Hybrid \ Pool)) \ {{}} :
          inflight' = [s \in Pool \cup S |-> IF s \in S THEN 0 ELSE inflight[s]]
    /\ UNCHANGED <<sticky, held, releasing, turns, last, since>>

RemoveServers ==
    /\ \E S \in (SUBSET (Hybrid \cap Pool)) \ {{}} :
          inflight' = [s \in Pool \ S |-> inflight[s]]
    /\ UNCHANGED <<sticky, held, releasing, turns, last, since>>

Next == \/ \E r \in Requests : AcquireSticky(r) \/ AcquireFresh(r) \/ Finish(r)
        \/ \E s \in Servers : Release(s)
        \/ AddServers \/ RemoveServers

(* Generations end and the actor processes the releases sent to it.         *)
Fairness == /\ \A r \in Requests : WF_vars(Finish(r))
            /\ \A s \in Servers : WF_vars(Release(s))
Spec == Init /\ [][Next]_vars /\ Fairness

-----------------------------------------------------------------------------
(* Type correctness of the balancer and its clients. *)
TypeOK ==
    /\ Standalone \subseteq Pool /\ Pool \subseteq Servers
    /\ \A s \in Pool : inflight[s] \in Nat
    /\ \A i \in DOMAIN sticky : sticky[i] \in Requests \X Servers
    /\ Len(sticky) <= CacheSize
    /\ \A r \in Requests : Cardinality(Entries(r)) <= 1
    /\ held \in [Requests -> Servers \cup {None}]
    /\ releasing \in [Servers -> Nat]
    /\ turns \in [Requests -> 0 .. MaxTurns]
    /\ last \in [Requests -> Servers \cup {None}]
    /\ since \in [Requests -> SUBSET Requests]

(* What a server really owes: requests running on it and releases under way.*)
Load(s) == Cardinality({r \in Requests : held[r] = s}) + releasing[s]

(* The count the balancer compares is the real load of every server that    *)
(* was never removed: lost, repeated or misrouted releases would show here. *)
StandaloneCountIsExact == \A s \in Standalone : inflight[s] = Load(s)

(* A removed server starts from 0 again, so releases of its earlier life    *)
(* may lower the count too far, but no count ever exceeds the real load:    *)
(* an idle server is never avoided as if it were busy.                      *)
CountNeverExceedsLoad == \A s \in Pool : inflight[s] <= Load(s)

(* The turns of a conversation stay on one server as long as that server is *)
(* in the pool and fewer than CacheSize other conversations were served in  *)
(* between, the removals and additions of other servers notwithstanding.    *)
StickySession ==
    [][\A r \in Requests :
          /\ held[r] = None /\ held'[r] # None
          /\ last[r] \in Pool /\ Cardinality(since[r]) < CacheSize
          => held'[r] = last[r]]_vars

(* Nobody is sent to a server that has left the pool, sticky or not.        *)
AcquiredServerIsInThePool ==
    [][\A r \in Requests :
          held[r] = None /\ held'[r] # None => held'[r] \in Pool]_vars

(* Once the conversations are over every count returns to 0 and stays.      *)
CountsDrain ==
    (\A r \in Requests : turns[r] = MaxTurns) ~> (\A s \in Pool : inflight[s] = 0)
(* Whatever the order of removals, additions and late releases: counts are  *)
(* exact for servers that stay, and never above the load of any.            *)
CountsFollowTheLoad == StandaloneCountIsExact /\ CountNeverExceedsLoad

(* A conversation keeps its server while it can, and no request is sent to  *)
(* a server that has left.                                                  *)
RoutesStayGood == StickySession /\ AcquiredServerIsInThePool
=============================================================================
