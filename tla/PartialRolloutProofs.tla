------------------------ MODULE PartialRolloutProofs ------------------------
(***************************************************************************)
(* Theorems about PartialRollout for any requests, servers, lengths and    *)
(* limits, and any number of synchronisations at any moment.               *)
(***************************************************************************)
EXTENDS PartialRollout, SequenceTheorems, TLAPS

(* The version that every engine has which is not paused                   *)
Current == IF phase = "abort" THEN target - 1 ELSE target

(* Weights are replaced only when every engine is paused.                  *)
Synchronised ==
    /\ phase = "train" => paused = {}
    /\ phase \in {"train", "resume"} => \A s \in Servers : version[s] = target
    /\ phase = "abort" => target >= 1 /\ \A s \in Servers : version[s] = target - 1
    /\ phase = "transfer" => paused = Servers

(* The call of r: its budget is what MaxTokens says, its tokens are of the *)
(* version its server has, and a paused server's call has none.            *)
CallOf(r) ==
    /\ pc[r] # "called" => fresh[r] = << >>
    /\ pc[r] = "called" =>
          /\ at[r] \in Servers /\ budget[r] = MaxTokens(r) /\ Len(fresh[r]) <= budget[r]
          /\ at[r] \in paused => fresh[r] = << >>
          /\ \A i \in 1 .. Len(fresh[r]) : fresh[r][i] = version[at[r]]
    /\ pc[r] # "done" => MaxTokens(r) >= 1

(* What r has got so far                                                   *)
DataOf(r) ==
    /\ limit[r] # None => Len(out[r]) <= limit[r]
    /\ logs[r] = Len(out[r])
    /\ routed[r] = IF out[r] = << >> THEN 0 ELSE prompt[r] + Len(out[r])

VersionsOf(r) ==
    /\ minv[r] # None => minv[r] <= Current
    /\ \A i \in 1 .. Len(out[r]) : minv[r] # None /\ minv[r] <= out[r][i] /\ out[r][i] <= Current
    /\ Partial /\ pc[r] = "done" =>
          /\ minv[r] # None /\ maxv[r] # None /\ minv[r] <= maxv[r] /\ stop[r] # "aborted"
          /\ \A i \in 1 .. Len(out[r]) : out[r][i] <= maxv[r]

(* The inductive invariant                                                 *)
IInv ==
    /\ TypeOK /\ Synchronised
    /\ \A r \in Requests : CallOf(r) /\ DataOf(r) /\ VersionsOf(r)
-----------------------------------------------------------------------------
LEMMA ConstantTypes ==
    /\ PromptLength \in Nat /\ PromptLength >= 1 /\ ResponseLength \in Nat /\ ResponseLength >= 1
    /\ MaxVersion \in Nat /\ Limits \subseteq Nat \ {0} /\ None \notin Nat
BY LengthsAssumption, VersionAssumption, LimitsAssumption

LEMMA MaxTokensType ==
    ASSUME TypeOK, NEW r \in Requests
    PROVE  /\ limit[r] # None => MaxTokens(r) = limit[r] - Len(out[r]) /\ limit[r] \in Nat
           /\ limit[r] = None =>
                 /\ MaxTokens(r) <= ResponseLength
                 /\ MaxTokens(r) <= PromptLength + ResponseLength - prompt[r] - Len(out[r])
                 /\ MaxTokens(r) \in {ResponseLength, PromptLength + ResponseLength - prompt[r] - Len(out[r])}
           /\ MaxTokens(r) \in Int /\ Len(out[r]) \in Nat /\ prompt[r] \in Nat
<1>1. out[r] \in Seq(Versions) /\ Len(out[r]) \in Nat /\ prompt[r] \in Nat /\ limit[r] \in Limits \cup {None}
    BY ConstantTypes DEF TypeOK
<1>2. CASE limit[r] # None
    <2>1. limit[r] \in Nat /\ MaxTokens(r) = limit[r] - Len(out[r])
        BY <1>1, <1>2, ConstantTypes DEF MaxTokens
    <2> QED BY <1>1, <1>2, <2>1
<1>3. CASE limit[r] = None
    <2> DEFINE rest == PromptLength + ResponseLength - prompt[r] - Len(out[r])
    <2>1. MaxTokens(r) = IF ResponseLength < rest THEN ResponseLength ELSE rest
        BY <1>3 DEF MaxTokens, SmallerOf
    <2>2. rest \in Int /\ ResponseLength \in Int
        BY <1>1, ConstantTypes
    <2> QED BY <1>1, <1>3, <2>1, <2>2
<1> QED BY <1>2, <1>3

(* What the type invariant says of one request, and of the weights         *)
LEMMA VersionsAreInt == Versions \subseteq Int /\ Versions \subseteq Nat
BY ConstantTypes DEF Versions

LEMMA DataTypes ==
    ASSUME TypeOK, NEW r \in Requests
    PROVE  /\ out[r] \in Seq(Versions) /\ fresh[r] \in Seq(Versions)
           /\ Len(out[r]) \in Nat /\ Len(fresh[r]) \in Nat
           /\ minv[r] \in Versions \cup {None} /\ maxv[r] \in Versions \cup {None}
           /\ minv[r] # None => minv[r] \in Int
           /\ maxv[r] # None => maxv[r] \in Int
           /\ \A i \in 1 .. Len(out[r]) : out[r][i] \in Versions /\ out[r][i] \in Int
           /\ \A i \in 1 .. Len(fresh[r]) : fresh[r][i] \in Versions /\ fresh[r][i] \in Int
           /\ logs[r] \in Nat /\ routed[r] \in Nat /\ prompt[r] \in Nat /\ budget[r] \in Int
<1>1. /\ out[r] \in Seq(Versions) /\ fresh[r] \in Seq(Versions)
      /\ minv[r] \in Versions \cup {None} /\ maxv[r] \in Versions \cup {None}
      /\ logs[r] \in Nat /\ routed[r] \in Nat /\ budget[r] \in Int
      /\ prompt[r] \in 1 .. PromptLength + ResponseLength - 1
    BY DEF TypeOK
<1>2. Len(out[r]) \in Nat /\ Len(fresh[r]) \in Nat
    BY <1>1
<1>3. /\ \A i \in 1 .. Len(out[r]) : out[r][i] \in Versions
      /\ \A i \in 1 .. Len(fresh[r]) : fresh[r][i] \in Versions
    BY <1>1
<1>4. prompt[r] \in Nat
    BY <1>1, ConstantTypes
<1>5. /\ minv[r] # None => minv[r] \in Versions
      /\ maxv[r] # None => maxv[r] \in Versions
    BY <1>1
<1> QED BY <1>1, <1>2, <1>3, <1>4, <1>5, VersionsAreInt

LEMMA InitIInv == Init => IInv
<1> SUFFICES ASSUME Init PROVE IInv
    OBVIOUS
<1>1. TypeOK
    BY ConstantTypes, EmptySeq DEF Init, TypeOK, Versions
<1>2. Synchronised
    BY DEF Init, Synchronised
<1>3. ASSUME NEW r \in Requests PROVE CallOf(r) /\ DataOf(r) /\ VersionsOf(r)
    <2>1. /\ pc[r] = "ready" /\ out[r] = << >> /\ fresh[r] = << >> /\ logs[r] = 0 /\ routed[r] = 0
          /\ minv[r] = None /\ prompt[r] \in 1 .. PromptLength + ResponseLength - 1
          /\ Len(out[r]) = 0 /\ limit[r] \in Limits \cup {None}
        BY DEF Init
    <2>2. MaxTokens(r) >= 1
        <3>1. CASE limit[r] # None
            <4>1. limit[r] \in Nat \ {0} /\ MaxTokens(r) = limit[r] - Len(out[r])
                BY <2>1, <3>1, ConstantTypes DEF MaxTokens
            <4> QED BY <2>1, <4>1
        <3>2. CASE limit[r] = None
            <4>1. PICK p \in 1 .. PromptLength + ResponseLength - 1 : p = prompt[r]
                BY <2>1
            <4>2. MaxTokens(r) = SmallerOf(ResponseLength, PromptLength + ResponseLength - p - 0)
                BY <2>1, <3>2, <4>1 DEF MaxTokens
            <4> QED BY <4>2, ConstantTypes DEF SmallerOf
        <3> QED BY <3>1, <3>2
    <2>3. CallOf(r)
        BY <2>1, <2>2 DEF CallOf
    <2>4. DataOf(r)
        <3>1. limit[r] # None => limit[r] \in Nat
            BY <2>1, ConstantTypes
        <3> QED BY <2>1, <3>1 DEF DataOf
    <2>5. VersionsOf(r)
        BY <2>1 DEF VersionsOf
    <2> QED BY <2>3, <2>4, <2>5
<1> QED BY <1>1, <1>2, <1>3 DEF IInv
-----------------------------------------------------------------------------
(* What an answer does to the requests it is for, and to the others        *)
LEMMA AnsweredOne ==
    ASSUME NEW R \in SUBSET Requests, NEW v, NEW aborted \in BOOLEAN, Answered(R, v, aborted),
           NEW r \in R
    PROVE  /\ out'[r] = out[r] \o fresh[r] /\ logs'[r] = logs[r] + Len(fresh[r])
           /\ routed'[r] = Routed(r) /\ minv'[r] = Lowest(r, v[r]) /\ maxv'[r] = v[r]
           /\ pc'[r] = (IF Again(r, aborted) THEN "ready" ELSE "done") /\ fresh'[r] = << >>
           /\ stop'[r] = (IF limit[r] # None /\ Len(out[r]) + Len(fresh[r]) >= limit[r]
                          THEN "length" ELSE IF aborted THEN "aborted" ELSE "completed")
BY DEF Answered

LEMMA AnsweredOthers ==
    ASSUME NEW R \in SUBSET Requests, NEW v, NEW aborted \in BOOLEAN, Answered(R, v, aborted),
           NEW r \in Requests \ R
    PROVE  /\ out'[r] = out[r] /\ logs'[r] = logs[r]
           /\ routed'[r] = routed[r] /\ minv'[r] = minv[r] /\ maxv'[r] = maxv[r]
           /\ pc'[r] = pc[r] /\ fresh'[r] = fresh[r] /\ stop'[r] = stop[r]
BY DEF Answered

(* The shape of the variables after an answer                              *)
LEMMA AnsweredShape ==
    ASSUME NEW R \in SUBSET Requests, NEW v, NEW aborted \in BOOLEAN, Answered(R, v, aborted)
    PROVE  /\ DOMAIN out' = Requests /\ out' = [r \in Requests |-> out'[r]]
           /\ logs' = [r \in Requests |-> logs'[r]] /\ routed' = [r \in Requests |-> routed'[r]]
           /\ minv' = [r \in Requests |-> minv'[r]] /\ maxv' = [r \in Requests |-> maxv'[r]]
           /\ stop' = [r \in Requests |-> stop'[r]] /\ pc' = [r \in Requests |-> pc'[r]]
           /\ fresh' = [r \in Requests |-> fresh'[r]]
           /\ UNCHANGED <<prompt, limit, at, budget>>
BY DEF Answered

(* A request none of whose own variables changes keeps its invariant when  *)
(* its engine is not paused or given other weights over its tokens.        *)
LEMMA Frame ==
    ASSUME IInv, NEW r \in Requests, UNCHANGED <<prompt, limit>>,
           out'[r] = out[r], logs'[r] = logs[r], routed'[r] = routed[r], minv'[r] = minv[r],
           maxv'[r] = maxv[r], stop'[r] = stop[r], pc'[r] = pc[r], fresh'[r] = fresh[r],
           at'[r] = at[r], budget'[r] = budget[r],
           pc[r] = "called" =>
              /\ at[r] \in paused' => fresh[r] = << >>
              /\ fresh[r] = << >> \/ version'[at[r]] = version[at[r]],
           Current' >= Current, Current \in Int, Current' \in Int
    PROVE  CallOf(r)' /\ DataOf(r)' /\ VersionsOf(r)'
<1>1. CallOf(r) /\ DataOf(r) /\ VersionsOf(r)
    BY DEF IInv
<1>2. MaxTokens(r)' = MaxTokens(r)
    BY DEF MaxTokens
<1>3. CallOf(r)'
    <2>1. CASE fresh[r] = << >>
        BY <1>1, <1>2, <2>1 DEF CallOf
    <2>2. CASE fresh[r] # << >>
        BY <1>1, <1>2, <2>2 DEF CallOf
    <2> QED BY <2>1, <2>2
<1>4. DataOf(r)'
    BY <1>1 DEF DataOf
<1>5. VersionsOf(r)'
    <2>1. /\ minv[r] # None => minv[r] \in Int
          /\ \A i \in 1 .. Len(out[r]) : out[r][i] \in Int
        BY DataTypes DEF IInv
    <2> QED BY <1>1, <2>1 DEF VersionsOf
<1> QED BY <1>3, <1>4, <1>5

(* An engine that is not paused has the current version.                   *)
LEMMA CurrentTypes ==
    ASSUME IInv
    PROVE  /\ Current \in Versions /\ Current \in Int /\ target \in Versions /\ target \in Nat
           /\ \A s \in Servers : s \notin paused => version[s] = Current
<1>1. /\ target \in Versions /\ phase \in {"train", "abort", "transfer", "resume"} /\ Synchronised
    BY DEF IInv, TypeOK
<1>2. target \in Nat /\ target <= MaxVersion
    BY <1>1, ConstantTypes DEF Versions
<1>3. Current \in Versions
    <2>1. CASE phase = "abort"
        <3>1. Current = target - 1 /\ target >= 1
            BY <1>1, <2>1 DEF Current, Synchronised
        <3> QED BY <1>2, <3>1, ConstantTypes DEF Versions
    <2>2. CASE phase # "abort"
        BY <1>1, <2>2 DEF Current
    <2> QED BY <2>1, <2>2
<1>4. ASSUME NEW s \in Servers, s \notin paused PROVE version[s] = Current
    <2>1. phase # "transfer"
        BY <1>1, <1>4 DEF Synchronised
    <2> QED BY <1>1, <1>4, <2>1 DEF Synchronised, Current
<1> QED BY <1>1, <1>2, <1>3, <1>4, VersionsAreInt

(* Length and elements of a concatenation                                  *)
LEMMA Concatenation ==
    ASSUME NEW S, NEW o \in Seq(S), NEW f \in Seq(S), NEW q, q = o \o f
    PROVE  /\ q \in Seq(S) /\ Len(q) = Len(o) + Len(f) /\ Len(q) \in Nat
           /\ q = << >> <=> o = << >> /\ f = << >>
<1>1. /\ q \in Seq(S) /\ Len(q) = Len(o) + Len(f)
      /\ \A i \in 1 .. Len(o) + Len(f) : q[i] = IF i <= Len(o) THEN o[i] ELSE f[i - Len(o)]
    BY ConcatProperties
<1>2. Len(o) \in Nat /\ Len(f) \in Nat
    OBVIOUS
<1>3. q = << >> <=> o = << >> /\ f = << >>
    <2>1. q = << >> <=> Len(q) = 0
        BY <1>1, EmptySeq
    <2>2. (o = << >> <=> Len(o) = 0) /\ (f = << >> <=> Len(f) = 0)
        BY EmptySeq
    <2> QED BY <1>1, <1>2, <2>1, <2>2
<1> QED BY <1>1, <1>2, <1>3

LEMMA ConcatenationElements ==
    ASSUME NEW S, NEW o \in Seq(S), NEW f \in Seq(S), NEW q, q = o \o f, NEW i \in 1 .. Len(q)
    PROVE  \/ i \in 1 .. Len(o) /\ q[i] = o[i]
           \/ \E j \in 1 .. Len(f) : q[i] = f[j]
<1>1. /\ Len(q) = Len(o) + Len(f)
      /\ \A k \in 1 .. Len(o) + Len(f) : q[k] = IF k <= Len(o) THEN o[k] ELSE f[k - Len(o)]
    BY ConcatProperties
<1>2. Len(o) \in Nat /\ Len(f) \in Nat
    OBVIOUS
<1>3. CASE i <= Len(o)
    BY <1>1, <1>2, <1>3
<1>4. CASE ~(i <= Len(o))
    <2>1. i - Len(o) \in 1 .. Len(f)
        BY <1>1, <1>2, <1>4
    <2>2. q[i] = f[i - Len(o)]
        BY <1>1, <1>4
    <2> QED BY <2>1, <2>2
<1> QED BY <1>3, <1>4

(* What an answer leaves of a request it is for                            *)
LEMMA Answer ==
    ASSUME IInv, NEW R \in SUBSET Requests, NEW v, NEW aborted \in BOOLEAN, Answered(R, v, aborted),
           NEW r \in R, pc[r] = "called", at[r] \notin paused, v[r] \in {Current, None},
           fresh[r] # << >> => v[r] # None,
           aborted => Len(fresh[r]) < budget[r], ~aborted => fresh[r] # << >>,
           Current' >= Current, Current' \in Int
    PROVE  /\ CallOf(r)' /\ DataOf(r)' /\ VersionsOf(r)'
           /\ out'[r] \in Seq(Versions) /\ logs'[r] \in Nat /\ routed'[r] \in Nat
           /\ minv'[r] \in Versions \cup {None} /\ maxv'[r] \in Versions \cup {None}
           /\ stop'[r] \in {None, "length", "aborted", "completed"}
           /\ pc'[r] \in {"ready", "called", "done"} /\ fresh'[r] \in Seq(Versions)
<1>0. r \in Requests /\ TypeOK
    BY DEF IInv
<1>1. /\ out'[r] = out[r] \o fresh[r] /\ logs'[r] = logs[r] + Len(fresh[r])
      /\ routed'[r] = Routed(r) /\ minv'[r] = Lowest(r, v[r]) /\ maxv'[r] = v[r]
      /\ pc'[r] = (IF Again(r, aborted) THEN "ready" ELSE "done") /\ fresh'[r] = << >>
      /\ stop'[r] = (IF limit[r] # None /\ Len(out[r]) + Len(fresh[r]) >= limit[r]
                     THEN "length" ELSE IF aborted THEN "aborted" ELSE "completed")
    BY DEF Answered
<1>2. prompt' = prompt /\ limit' = limit
    BY AnsweredShape
<1>3. CallOf(r) /\ DataOf(r) /\ VersionsOf(r)
    BY <1>0 DEF IInv
<1>4. /\ out[r] \in Seq(Versions) /\ fresh[r] \in Seq(Versions)
      /\ Len(out[r]) \in Nat /\ Len(fresh[r]) \in Nat
      /\ logs[r] \in Nat /\ routed[r] \in Nat /\ prompt[r] \in Nat /\ budget[r] \in Int
    BY <1>0, DataTypes
<1>5. /\ out'[r] \in Seq(Versions) /\ Len(out'[r]) = Len(out[r]) + Len(fresh[r])
      /\ Len(out'[r]) \in Nat
      /\ out'[r] = << >> <=> out[r] = << >> /\ fresh[r] = << >>
      /\ \A i \in 1 .. Len(out'[r]) : \/ i \in 1 .. Len(out[r]) /\ out'[r][i] = out[r][i]
                                      \/ \E j \in 1 .. Len(fresh[r]) : out'[r][i] = fresh[r][j]
    <2>1. PICK o \in Seq(Versions), f \in Seq(Versions), q \in Seq(Versions) :
              o = out[r] /\ f = fresh[r] /\ q = o \o f
        <3>1. out[r] \o fresh[r] \in Seq(Versions)
            BY <1>4, ConcatProperties
        <3> QED BY <1>4, <3>1
    <2>2. /\ q \in Seq(Versions) /\ Len(q) = Len(o) + Len(f) /\ Len(q) \in Nat
          /\ q = << >> <=> o = << >> /\ f = << >>
          /\ \A i \in 1 .. Len(q) : \/ i \in 1 .. Len(o) /\ q[i] = o[i]
                                    \/ \E j \in 1 .. Len(f) : q[i] = f[j]
        <3>1. q = o \o f
            BY <2>1
        <3>2. /\ q \in Seq(Versions) /\ Len(q) = Len(o) + Len(f) /\ Len(q) \in Nat
              /\ q = << >> <=> o = << >> /\ f = << >>
            BY <3>1, Concatenation
        <3>3. ASSUME NEW i \in 1 .. Len(q)
              PROVE  \/ i \in 1 .. Len(o) /\ q[i] = o[i]
                     \/ \E j \in 1 .. Len(f) : q[i] = f[j]
            BY <3>1, ConcatenationElements
        <3> QED BY <3>2, <3>3
    <2>3. out'[r] = q
        BY <1>1, <2>1
    <2> QED BY <2>1, <2>2, <2>3
<1>20. PICK m \in Nat, n \in Nat : m = Len(out[r]) /\ n = Len(fresh[r]) /\ Len(out'[r]) = m + n
    BY <1>4, <1>5
<1>6. at[r] \in Servers /\ version[at[r]] = Current /\ Current \in Versions /\ Current \in Int
    BY <1>0, <1>3, CurrentTypes DEF CallOf
<1>7. \A i \in 1 .. Len(fresh[r]) : fresh[r][i] = Current
    BY <1>3, <1>6 DEF CallOf
<1>8. /\ limit[r] # None => MaxTokens(r) = limit[r] - Len(out[r]) /\ limit[r] \in Nat
      /\ limit[r] = None =>
            /\ MaxTokens(r) <= ResponseLength
            /\ MaxTokens(r) <= PromptLength + ResponseLength - prompt[r] - Len(out[r])
      /\ MaxTokens(r) \in Int /\ budget[r] = MaxTokens(r) /\ Len(fresh[r]) <= budget[r]
    BY <1>0, <1>3, MaxTokensType DEF CallOf
<1>21. PICK t \in Int, p \in Nat : t = MaxTokens(r) /\ p = prompt[r]
    BY <1>4, <1>8
<1>19. /\ n <= t /\ (aborted => n < t)
       /\ limit[r] # None => limit[r] \in Nat /\ t = limit[r] - m
       /\ limit[r] = None => t <= PromptLength + ResponseLength - p - m
    BY <1>20, <1>21, <1>8
<1>9. limit[r] # None => Len(out'[r]) <= limit[r]
    <2>1. limit[r] # None => m + n <= limit[r]
        BY <1>19
    <2> QED BY <1>20, <2>1
<1>10. aborted /\ limit[r] # None => m + n < limit[r] /\ limit[r] - (m + n) >= 1
    BY <1>19
<1>11. m = 0 <=> out[r] = << >>
    BY <1>20, <1>21, <1>4, EmptySeq
<1>12. DataOf(r)'
    <2>1. logs'[r] = Len(out'[r])
        BY <1>20, <1>21, <1>1, <1>3, <1>4, <1>5 DEF DataOf
    <2>2. routed'[r] = IF out'[r] = << >> THEN 0 ELSE prompt[r] + Len(out'[r])
        <3>1. CASE fresh[r] = << >>
            <4>1. out'[r] = out[r]
                BY <1>20, <1>21, <1>1, <1>4, <3>1, ConcatEmptySeq
            <4> QED BY <1>20, <1>21, <1>1, <1>3, <3>1, <4>1 DEF Routed, DataOf
        <3>2. CASE fresh[r] # << >> /\ out[r] = << >>
            <4>1. routed[r] = 0
                BY <1>20, <1>21, <1>3, <3>2 DEF DataOf
            <4>2. out'[r] # << >>
                BY <1>20, <1>21, <1>5, <3>2
            <4>3. routed'[r] = prompt[r] + Len(out[r]) + Len(fresh[r])
                BY <1>20, <1>21, <1>1, <3>2, <4>1 DEF Routed
            <4>4. p + m + n = p + (m + n)
                OBVIOUS
            <4> QED BY <1>20, <1>21, <4>2, <4>3, <4>4
        <3>3. CASE fresh[r] # << >> /\ out[r] # << >>
            <4>1. routed[r] = prompt[r] + Len(out[r]) /\ Len(out[r]) > 0
                BY <1>20, <1>21, <1>3, <1>11, <3>3 DEF DataOf
            <4>2. routed[r] # 0
                BY <1>20, <1>21, <1>4, <4>1
            <4>3. routed'[r] = routed[r] + Len(fresh[r])
                BY <1>20, <1>21, <1>1, <3>3, <4>2 DEF Routed
            <4>4. routed'[r] = p + m + n
                BY <1>20, <1>21, <4>1, <4>3
            <4>5. p + m + n = p + (m + n)
                OBVIOUS
            <4> QED BY <1>20, <1>21, <1>5, <3>3, <4>4, <4>5
        <3> QED BY <3>1, <3>2, <3>3
    <2> QED BY <1>20, <1>21, <1>2, <1>9, <2>1, <2>2 DEF DataOf
<1>13. CallOf(r)'
    <2>1. pc'[r] # "done" => MaxTokens(r)' >= 1
        <3> SUFFICES ASSUME Again(r, aborted) PROVE MaxTokens(r)' >= 1
            BY <1>20, <1>21, <1>1
        <3>1. CASE limit[r] # None
            <4>1. MaxTokens(r)' = limit[r] - Len(out'[r])
                BY <1>20, <1>21, <1>2, <3>1 DEF MaxTokens
            <4>2. aborted
                BY DEF Again
            <4> QED BY <1>20, <1>21, <1>10, <3>1, <4>1, <4>2
        <3>2. CASE limit[r] = None
            <4>1. MaxTokens(r)' = SmallerOf(ResponseLength, PromptLength + ResponseLength - p - (m + n))
                BY <1>20, <1>21, <1>2, <3>2 DEF MaxTokens
            <4>2. n < t
                BY <1>20, <1>21, <1>19 DEF Again
            <4>3. PromptLength + ResponseLength - p - (m + n) >= 1
                <5>1. t <= PromptLength + ResponseLength - p - m
                    BY <1>19, <3>2
                <5> QED BY <4>2, <5>1, ConstantTypes
            <4> QED BY <4>1, <4>3, ConstantTypes DEF SmallerOf
        <3> QED BY <3>1, <3>2
    <2> QED BY <1>20, <1>21, <1>1, <2>1 DEF CallOf
<1>14. VersionsOf(r)'
    <2>1. /\ minv[r] # None => minv[r] \in Int /\ minv[r] <= Current
          /\ \A i \in 1 .. Len(out[r]) : out[r][i] \in Int /\ minv[r] # None
                                         /\ minv[r] <= out[r][i] /\ out[r][i] <= Current
        BY <1>20, <1>21, <1>0, <1>3, DataTypes DEF VersionsOf
    <2>2. minv'[r] # None => minv'[r] \in Int /\ minv'[r] <= Current
        BY <1>20, <1>21, <1>1, <1>6, <2>1 DEF Lowest
    <2>3. ASSUME NEW i \in 1 .. Len(out'[r])
          PROVE  /\ minv'[r] # None /\ minv'[r] <= out'[r][i] /\ out'[r][i] <= Current
                 /\ out'[r][i] \in Int
        <3>1. CASE i \in 1 .. Len(out[r]) /\ out'[r][i] = out[r][i]
            <4>1. minv'[r] = minv[r]
                BY <1>20, <1>21, <1>1, <2>1, <3>1 DEF Lowest
            <4> QED BY <2>1, <3>1, <4>1
        <3>2. ASSUME NEW j \in 1 .. Len(fresh[r]), out'[r][i] = fresh[r][j]
              PROVE  /\ minv'[r] # None /\ minv'[r] <= out'[r][i] /\ out'[r][i] <= Current
                     /\ out'[r][i] \in Int
            <4>1. out'[r][i] = Current
                BY <1>20, <1>21, <1>7, <3>2
            <4>2. fresh[r] # << >>
                BY <1>20, <1>21, <1>4, EmptySeq
            <4>3. v[r] # None /\ v[r] = Current
                BY <4>2
            <4>4. minv'[r] # None
                BY <1>20, <1>21, <1>1, <4>3 DEF Lowest
            <4> QED BY <1>20, <1>21, <1>6, <2>2, <4>1, <4>4
        <3> QED BY <1>20, <1>21, <1>5, <2>3, <3>1, <3>2
    <2>4. ASSUME Partial, pc'[r] = "done"
          PROVE  /\ minv'[r] # None /\ maxv'[r] # None /\ minv'[r] <= maxv'[r]
                 /\ stop'[r] # "aborted" /\ \A i \in 1 .. Len(out'[r]) : out'[r][i] <= maxv'[r]
        <3>1. ~aborted
            <4>1. ~Again(r, aborted)
                BY <1>20, <1>21, <1>1, <2>4
            <4>2. aborted => ~(limit[r] = None \/ Len(out[r]) + Len(fresh[r]) < limit[r])
                BY <2>4, <4>1 DEF Again
            <4> QED BY <1>20, <1>21, <1>5, <1>10, <4>2
        <3>2. v[r] = Current /\ v[r] # None /\ stop'[r] # "aborted"
            BY <1>20, <1>21, <1>1, <3>1
        <3>3. minv'[r] # None /\ maxv'[r] = Current /\ maxv'[r] # None
            BY <1>20, <1>21, <1>1, <3>2 DEF Lowest
        <3> QED BY <2>2, <2>3, <3>2, <3>3
    <2>5. Current' \in Int /\ Current' >= Current
        OBVIOUS
    <2>6. minv'[r] # None => minv'[r] <= Current'
        BY <1>20, <1>21, <1>6, <2>2, <2>5
    <2>7. \A i \in 1 .. Len(out'[r]) : minv'[r] # None /\ minv'[r] <= out'[r][i]
                                       /\ out'[r][i] <= Current'
        <3> SUFFICES ASSUME NEW i \in 1 .. Len(out'[r])
                     PROVE  minv'[r] # None /\ minv'[r] <= out'[r][i] /\ out'[r][i] <= Current'
            OBVIOUS
        <3>1. /\ minv'[r] # None /\ minv'[r] <= out'[r][i] /\ out'[r][i] <= Current
              /\ out'[r][i] \in Int
            BY <2>3
        <3> QED BY <1>20, <1>21, <1>6, <2>5, <3>1
    <2> QED BY <2>4, <2>6, <2>7 DEF VersionsOf
<1>15. /\ out'[r] \in Seq(Versions) /\ fresh'[r] \in Seq(Versions)
    BY <1>20, <1>21, <1>1, <1>5, EmptySeq
<1>16. logs'[r] \in Nat /\ routed'[r] \in Nat
    <2>1. /\ logs[r] + n \in Nat /\ routed[r] + n \in Nat /\ p + m + n \in Nat
        BY <1>4
    <2>3. logs'[r] = logs[r] + n
        BY <1>20, <1>1
    <2>2. routed'[r] \in {routed[r], routed[r] + n, p + m + n}
        BY <1>20, <1>21, <1>1 DEF Routed
    <2> QED BY <1>4, <2>1, <2>2, <2>3
<1>17. minv'[r] \in Versions \cup {None} /\ maxv'[r] \in Versions \cup {None}
    <2>1. minv[r] \in Versions \cup {None} /\ v[r] \in Versions \cup {None}
        BY <1>20, <1>21, <1>0, <1>6, DataTypes
    <2> QED BY <1>20, <1>21, <1>1, <2>1 DEF Lowest
<1>18. stop'[r] \in {None, "length", "aborted", "completed"} /\ pc'[r] \in {"ready", "called", "done"}
    BY <1>20, <1>21, <1>1
<1> QED BY <1>12, <1>13, <1>14, <1>15, <1>16, <1>17, <1>18

(* An answer keeps the invariant of every request.                         *)
LEMMA AnswerKeeps ==
    ASSUME IInv, NEW R \in SUBSET Requests, NEW v, NEW aborted \in BOOLEAN, Answered(R, v, aborted),
           \A r \in R : /\ pc[r] = "called" /\ at[r] \notin paused /\ v[r] \in {Current, None}
                        /\ fresh[r] # << >> => v[r] # None
                        /\ aborted => Len(fresh[r]) < budget[r]
                        /\ ~aborted => fresh[r] # << >>,
           \A r \in Requests \ R : pc[r] = "called" /\ at[r] \in paused' => fresh[r] = << >>,
           version' = version, Current' >= Current, Current' \in Int
    PROVE  /\ \A r \in Requests : CallOf(r)' /\ DataOf(r)' /\ VersionsOf(r)'
           /\ prompt' = prompt /\ limit' = limit /\ at' = at /\ budget' = budget
           /\ pc' \in [Requests -> {"ready", "called", "done"}]
           /\ out' \in [Requests -> Seq(Versions)] /\ fresh' \in [Requests -> Seq(Versions)]
           /\ logs' \in [Requests -> Nat] /\ routed' \in [Requests -> Nat]
           /\ minv' \in [Requests -> Versions \cup {None}]
           /\ maxv' \in [Requests -> Versions \cup {None}]
           /\ stop' \in [Requests -> {None, "length", "aborted", "completed"}]
<1>1. prompt' = prompt /\ limit' = limit /\ at' = at /\ budget' = budget
    BY AnsweredShape
<1>2. ASSUME NEW r \in Requests
      PROVE  /\ CallOf(r)' /\ DataOf(r)' /\ VersionsOf(r)'
             /\ out'[r] \in Seq(Versions) /\ logs'[r] \in Nat /\ routed'[r] \in Nat
             /\ minv'[r] \in Versions \cup {None} /\ maxv'[r] \in Versions \cup {None}
             /\ stop'[r] \in {None, "length", "aborted", "completed"}
             /\ pc'[r] \in {"ready", "called", "done"} /\ fresh'[r] \in Seq(Versions)
    <2>1. CASE r \in R
        BY <2>1, Answer
    <2>2. CASE r \notin R
        <3>1. /\ out'[r] = out[r] /\ logs'[r] = logs[r] /\ routed'[r] = routed[r]
              /\ minv'[r] = minv[r] /\ maxv'[r] = maxv[r] /\ pc'[r] = pc[r]
              /\ fresh'[r] = fresh[r] /\ stop'[r] = stop[r]
            BY <2>2, AnsweredOthers
        <3>2. CallOf(r)' /\ DataOf(r)' /\ VersionsOf(r)'
            <4>1. Current \in Int
                BY CurrentTypes
            <4>2. pc[r] = "called" => /\ at[r] \in paused' => fresh[r] = << >>
                                      /\ fresh[r] = << >> \/ version'[at[r]] = version[at[r]]
                BY <2>2
            <4> QED BY <1>1, <3>1, <4>1, <4>2, Frame
        <3>3. /\ out[r] \in Seq(Versions) /\ logs[r] \in Nat /\ routed[r] \in Nat
              /\ minv[r] \in Versions \cup {None} /\ maxv[r] \in Versions \cup {None}
              /\ stop[r] \in {None, "length", "aborted", "completed"}
              /\ pc[r] \in {"ready", "called", "done"} /\ fresh[r] \in Seq(Versions)
            BY DEF IInv, TypeOK
        <3> QED BY <3>1, <3>2, <3>3
    <2> QED BY <2>1, <2>2
<1>3. /\ pc' \in [Requests -> {"ready", "called", "done"}]
      /\ stop' \in [Requests -> {None, "length", "aborted", "completed"}]
    BY <1>2, AnsweredShape
<1>4. /\ out' \in [Requests -> Seq(Versions)] /\ fresh' \in [Requests -> Seq(Versions)]
    BY <1>2, AnsweredShape
<1>5. logs' \in [Requests -> Nat] /\ routed' \in [Requests -> Nat]
    BY <1>2, AnsweredShape
<1>6. /\ minv' \in [Requests -> Versions \cup {None}]
      /\ maxv' \in [Requests -> Versions \cup {None}]
    BY <1>2, AnsweredShape
<1> QED BY <1>1, <1>2, <1>3, <1>4, <1>5, <1>6

LEMMA CompleteStep == ASSUME IInv, NEW r \in Requests, Complete(r) PROVE IInv'
<1>1. /\ Answered({r}, [q \in {r} |-> version[at[q]]], FALSE) /\ UNCHANGED sync
      /\ pc[r] = "called" /\ at[r] \notin paused /\ fresh[r] # << >>
    BY DEF Complete
<1>2. paused' = paused /\ version' = version /\ phase' = phase /\ target' = target
    BY <1>1 DEF sync
<1>3. Current' = Current /\ Current \in Int
    BY <1>2, CurrentTypes DEF Current
<1>4. version[at[r]] = Current /\ Current # None
    <2>1. at[r] \in Servers
        BY <1>1 DEF IInv, CallOf
    <2> QED BY <1>1, <2>1, CurrentTypes, ConstantTypes, VersionsAreInt
<1>5. PICK v : v = [q \in {r} |-> version[at[q]]] /\ Answered({r}, v, FALSE)
    BY <1>1, Zenon
<1>6. v[r] = Current
    BY <1>4, <1>5
<1>7. \A q \in {r} : /\ pc[q] = "called" /\ at[q] \notin paused /\ v[q] \in {Current, None}
                     /\ fresh[q] # << >> => v[q] # None
                     /\ FALSE => Len(fresh[q]) < budget[q]
                     /\ ~FALSE => fresh[q] # << >>
    BY <1>1, <1>4, <1>6
<1>8. \A q \in Requests \ {r} : pc[q] = "called" /\ at[q] \in paused' => fresh[q] = << >>
    BY <1>2 DEF IInv, CallOf
<1>9. Current' >= Current /\ Current' \in Int /\ {r} \in SUBSET Requests
    BY <1>3
<1>10. /\ \A q \in Requests : CallOf(q)' /\ DataOf(q)' /\ VersionsOf(q)'
       /\ prompt' = prompt /\ limit' = limit /\ at' = at /\ budget' = budget
       /\ pc' \in [Requests -> {"ready", "called", "done"}]
       /\ out' \in [Requests -> Seq(Versions)] /\ fresh' \in [Requests -> Seq(Versions)]
       /\ logs' \in [Requests -> Nat] /\ routed' \in [Requests -> Nat]
       /\ minv' \in [Requests -> Versions \cup {None}]
       /\ maxv' \in [Requests -> Versions \cup {None}]
       /\ stop' \in [Requests -> {None, "length", "aborted", "completed"}]
    BY <1>2, <1>5, <1>7, <1>8, <1>9, AnswerKeeps
<1>11. TypeOK'
    BY <1>2, <1>10 DEF IInv, TypeOK
<1>12. Synchronised'
    BY <1>2 DEF IInv, Synchronised
<1> QED BY <1>10, <1>11, <1>12 DEF IInv

LEMMA AbortServerStep == ASSUME IInv, NEW s \in Servers, AbortServer(s) PROVE IInv'
<1>1. PICK v \in [OnServer(s) -> {version[s], None}] :
         /\ \A r \in OnServer(s) : fresh[r] # << >> => v[r] # None
         /\ Answered(OnServer(s), v, TRUE)
    BY DEF AbortServer
<1>2. /\ phase = "abort" /\ s \notin paused
      /\ \A r \in OnServer(s) : Len(fresh[r]) < budget[r]
      /\ paused' = paused \cup {s} /\ version' = version /\ target' = target
      /\ phase' = IF paused' = Servers THEN "transfer" ELSE "abort"
    BY DEF AbortServer
<1>3. /\ Synchronised /\ version[s] = Current /\ Current \in Int /\ target \in Nat
      /\ paused \subseteq Servers
    BY <1>2, CurrentTypes DEF IInv, TypeOK
<1>4. Current' >= Current /\ Current' \in Int
    BY <1>2, <1>3 DEF Current
<1>5. OnServer(s) \in SUBSET Requests
    BY DEF OnServer
<1>6. \A r \in OnServer(s) :
         /\ pc[r] = "called" /\ at[r] \notin paused /\ v[r] \in {Current, None}
         /\ fresh[r] # << >> => v[r] # None
         /\ TRUE => Len(fresh[r]) < budget[r]
         /\ ~TRUE => fresh[r] # << >>
    BY <1>1, <1>2, <1>3 DEF OnServer
<1>7. \A q \in Requests \ OnServer(s) : pc[q] = "called" /\ at[q] \in paused' => fresh[q] = << >>
    BY <1>2 DEF IInv, CallOf, OnServer
<1>8. /\ \A q \in Requests : CallOf(q)' /\ DataOf(q)' /\ VersionsOf(q)'
      /\ prompt' = prompt /\ limit' = limit /\ at' = at /\ budget' = budget
      /\ pc' \in [Requests -> {"ready", "called", "done"}]
      /\ out' \in [Requests -> Seq(Versions)] /\ fresh' \in [Requests -> Seq(Versions)]
      /\ logs' \in [Requests -> Nat] /\ routed' \in [Requests -> Nat]
      /\ minv' \in [Requests -> Versions \cup {None}]
      /\ maxv' \in [Requests -> Versions \cup {None}]
      /\ stop' \in [Requests -> {None, "length", "aborted", "completed"}]
    BY <1>1, <1>2, <1>4, <1>5, <1>6, <1>7, AnswerKeeps
<1>9. TypeOK'
    <2>1. /\ paused' \subseteq Servers /\ version' \in [Servers -> Versions] /\ target' \in Versions
          /\ phase' \in {"train", "abort", "transfer", "resume"}
        BY <1>2, <1>3 DEF IInv, TypeOK
    <2> QED BY <1>8, <2>1 DEF IInv, TypeOK
<1>10. Synchronised'
    BY <1>2, <1>3 DEF Synchronised
<1> QED BY <1>8, <1>9, <1>10 DEF IInv

LEMMA CallStep == ASSUME IInv, NEW r \in Requests, NEW s \in Servers, Call(r, s) PROVE IInv'
<1>1. /\ pc[r] = "ready" /\ pc' = [pc EXCEPT ![r] = "called"] /\ at' = [at EXCEPT ![r] = s]
      /\ budget' = [budget EXCEPT ![r] = MaxTokens(r)] /\ fresh' = [fresh EXCEPT ![r] = << >>]
      /\ UNCHANGED <<prompt, limit, out, logs, routed, minv, maxv, stop>>
      /\ UNCHANGED <<paused, version, phase, target>>
    BY DEF Call, sync
<1>2. TypeOK /\ Synchronised /\ MaxTokens(r) \in Int
    BY MaxTokensType DEF IInv
<1>3. TypeOK'
    BY <1>1, <1>2, EmptySeq DEF TypeOK
<1>4. Synchronised'
    BY <1>1, <1>2 DEF Synchronised
<1>5. Current' = Current /\ Current \in Int
    BY <1>1, CurrentTypes DEF Current
<1>6. ASSUME NEW q \in Requests PROVE CallOf(q)' /\ DataOf(q)' /\ VersionsOf(q)'
    <2>1. CallOf(q) /\ DataOf(q) /\ VersionsOf(q)
        BY DEF IInv
    <2>2. MaxTokens(q)' = MaxTokens(q) /\ MaxTokens(q) \in Int
        BY <1>1, <1>2, MaxTokensType DEF MaxTokens
    <2>3. CASE q = r
        <3>1. /\ pc'[r] = "called" /\ at'[r] = s /\ budget'[r] = MaxTokens(r) /\ fresh'[r] = << >>
            BY <1>1, <1>2 DEF TypeOK
        <3>2. MaxTokens(r) >= 1 /\ Len(<< >>) = 0
            BY <1>1, <2>1, <2>3, EmptySeq DEF CallOf
        <3>3. Len(fresh'[r]) = 0
            BY <3>1, <3>2
        <3>4. Len(fresh'[r]) <= budget'[r]
            BY <2>2, <2>3, <3>1, <3>2, <3>3
        <3>5. \A i \in 1 .. Len(fresh'[r]) : FALSE
            BY <3>3
        <3>6. CallOf(q)'
            BY <2>2, <2>3, <3>1, <3>2, <3>4, <3>5 DEF CallOf
        <3>7. DataOf(q)'
            BY <1>1, <2>1 DEF DataOf
        <3>8. VersionsOf(q)'
            BY <1>1, <1>5, <2>1, <2>3, <3>1 DEF VersionsOf
        <3> QED BY <3>6, <3>7, <3>8
    <2>4. CASE q # r
        <3>1. pc'[q] = pc[q] /\ at'[q] = at[q] /\ budget'[q] = budget[q] /\ fresh'[q] = fresh[q]
            BY <1>1, <1>2, <2>4 DEF TypeOK
        <3>2. pc[q] = "called" => /\ at[q] \in paused' => fresh[q] = << >>
                                  /\ fresh[q] = << >> \/ version'[at[q]] = version[at[q]]
            BY <1>1, <2>1 DEF CallOf
        <3>3. Current' >= Current
            BY <1>5
        <3> QED BY <1>1, <1>5, <3>1, <3>2, <3>3, Frame
    <2> QED BY <2>3, <2>4
<1> QED BY <1>3, <1>4, <1>6 DEF IInv

LEMMA TokenStep == ASSUME IInv, NEW r \in Requests, Token(r) PROVE IInv'
<1>1. /\ pc[r] = "called" /\ at[r] \notin paused /\ Len(fresh[r]) < budget[r]
      /\ fresh' = [fresh EXCEPT ![r] = Append(fresh[r], version[at[r]])]
      /\ UNCHANGED <<prompt, limit, pc, out, logs, routed, minv, maxv, stop, at, budget>>
      /\ UNCHANGED <<paused, version, phase, target>>
    BY DEF Token, sync, client
<1>2. TypeOK /\ Synchronised /\ CallOf(r)
    BY DEF IInv
<1>3. /\ at[r] \in Servers /\ version[at[r]] \in Versions /\ fresh[r] \in Seq(Versions)
    BY <1>1, <1>2 DEF CallOf, TypeOK
<1>4. fresh'[r] = Append(fresh[r], version[at[r]])
    BY <1>1, <1>2 DEF TypeOK
<1>5. PICK f \in Seq(Versions), e \in Versions : f = fresh[r] /\ e = version[at[r]]
    BY <1>3
<1>6. /\ Append(f, e) \in Seq(Versions) /\ Len(Append(f, e)) = Len(f) + 1 /\ Len(f) \in Nat
      /\ \A i \in 1 .. Len(f) + 1 : Append(f, e)[i] = IF i = Len(f) + 1 THEN e ELSE f[i]
    BY AppendProperties
<1>7. TypeOK'
    <2>1. fresh' \in [Requests -> Seq(Versions)]
        BY <1>1, <1>2, <1>4, <1>5, <1>6 DEF TypeOK
    <2> QED BY <1>1, <1>2, <2>1 DEF TypeOK
<1>8. Synchronised'
    BY <1>1, <1>2 DEF Synchronised
<1>9. Current' = Current /\ Current \in Int
    BY <1>1, CurrentTypes DEF Current
<1>10. ASSUME NEW q \in Requests PROVE CallOf(q)' /\ DataOf(q)' /\ VersionsOf(q)'
    <2>1. CallOf(q) /\ DataOf(q) /\ VersionsOf(q)
        BY DEF IInv
    <2>2. MaxTokens(q)' = MaxTokens(q)
        BY <1>1 DEF MaxTokens
    <2>3. CASE q = r
        <3>1. Len(f) < budget[r] /\ budget[r] \in Int
            BY <1>1, <1>2, <1>5 DEF TypeOK
        <3>2. Len(Append(f, e)) <= budget[r]
            BY <1>6, <3>1
        <3>3. \A i \in 1 .. Len(f) : f[i] = e
            BY <1>1, <1>2, <1>5 DEF CallOf
        <3>4. \A i \in 1 .. Len(Append(f, e)) : Append(f, e)[i] = e
            BY <1>6, <3>3
        <3>5. fresh'[r] = Append(f, e)
            BY <1>4, <1>5
        <3>6. CallOf(q)'
            BY <1>1, <1>5, <2>1, <2>2, <2>3, <3>2, <3>4, <3>5 DEF CallOf
        <3>7. DataOf(q)'
            BY <1>1, <2>1 DEF DataOf
        <3>8. VersionsOf(q)'
            BY <1>1, <1>9, <2>1 DEF VersionsOf
        <3> QED BY <3>6, <3>7, <3>8
    <2>4. CASE q # r
        <3>1. fresh'[q] = fresh[q]
            BY <1>1, <1>2, <2>4 DEF TypeOK
        <3>2. pc[q] = "called" => /\ at[q] \in paused' => fresh[q] = << >>
                                  /\ fresh[q] = << >> \/ version'[at[q]] = version[at[q]]
            BY <1>1, <2>1 DEF CallOf
        <3>3. Current' >= Current
            BY <1>9
        <3> QED BY <1>1, <1>9, <3>1, <3>2, <3>3, Frame
    <2> QED BY <2>3, <2>4
<1> QED BY <1>7, <1>8, <1>10 DEF IInv

(* A step of the synchronisation keeps every request's invariant.          *)
LEMMA SyncKeeps ==
    ASSUME IInv, UNCHANGED <<client, call>>, Current' >= Current, Current' \in Int,
           \A r \in Requests : pc[r] = "called" =>
              /\ at[r] \in paused' => fresh[r] = << >>
              /\ fresh[r] = << >> \/ version'[at[r]] = version[at[r]],
           Synchronised', paused' \subseteq Servers, version' \in [Servers -> Versions],
           phase' \in {"train", "abort", "transfer", "resume"}, target' \in Versions
    PROVE  IInv'
<1>1. UNCHANGED <<prompt, limit, pc, out, logs, routed, minv, maxv, stop, at, budget, fresh>>
    BY DEF client, call
<1>2. TypeOK'
    BY <1>1 DEF IInv, TypeOK
<1>3. ASSUME NEW r \in Requests PROVE CallOf(r)' /\ DataOf(r)' /\ VersionsOf(r)'
    <2>1. Current \in Int
        BY CurrentTypes
    <2> QED BY <1>1, <2>1, Frame
<1> QED BY <1>2, <1>3 DEF IInv

LEMMA StartSyncStep == ASSUME IInv, StartSync PROVE IInv'
<1>1. /\ phase = "train" /\ target < MaxVersion /\ phase' = "abort" /\ target' = target + 1
      /\ UNCHANGED <<client, call>> /\ paused' = paused /\ version' = version
    BY DEF StartSync
<1>2. Synchronised /\ target \in Nat /\ paused \subseteq Servers /\ version \in [Servers -> Versions]
    BY CurrentTypes DEF IInv, TypeOK
<1>3. target' \in Versions /\ target' >= 1 /\ target' - 1 = target
    BY <1>1, <1>2, ConstantTypes DEF Versions
<1>4. Synchronised'
    <2>1. \A s \in Servers : version'[s] = target' - 1
        BY <1>1, <1>2, <1>3 DEF Synchronised
    <2> QED BY <1>1, <1>3, <2>1 DEF Synchronised
<1>5. Current' >= Current /\ Current' \in Int
    BY <1>1, <1>2, <1>3 DEF Current
<1>6. \A r \in Requests : pc[r] = "called" =>
         /\ at[r] \in paused' => fresh[r] = << >>
         /\ fresh[r] = << >> \/ version'[at[r]] = version[at[r]]
    BY <1>1 DEF IInv, CallOf
<1> QED BY <1>1, <1>2, <1>3, <1>4, <1>5, <1>6, SyncKeeps

LEMMA TransferToStep == ASSUME IInv, NEW s \in Servers, TransferTo(s) PROVE IInv'
<1>1. /\ phase = "transfer" /\ version' = [version EXCEPT ![s] = target]
      /\ phase' = IF \A t \in Servers : version'[t] = target THEN "resume" ELSE phase
      /\ UNCHANGED <<client, call>> /\ paused' = paused /\ target' = target
    BY DEF TransferTo
<1>2. /\ Synchronised /\ target \in Versions /\ target \in Nat
      /\ paused \subseteq Servers /\ version \in [Servers -> Versions]
    BY CurrentTypes DEF IInv, TypeOK
<1>3. version' \in [Servers -> Versions] /\ phase' \in {"train", "abort", "transfer", "resume"}
    BY <1>1, <1>2
<1>4. paused = Servers
    BY <1>1, <1>2 DEF Synchronised
<1>5. Synchronised'
    BY <1>1, <1>4 DEF Synchronised
<1>6. Current' >= Current /\ Current' \in Int
    BY <1>1, <1>2 DEF Current
<1>7. \A r \in Requests : pc[r] = "called" =>
         /\ at[r] \in paused' => fresh[r] = << >>
         /\ fresh[r] = << >> \/ version'[at[r]] = version[at[r]]
    BY <1>4 DEF IInv, CallOf
<1> QED BY <1>1, <1>2, <1>3, <1>5, <1>6, <1>7, SyncKeeps

LEMMA ResumeServerStep == ASSUME IInv, NEW s \in Servers, ResumeServer(s) PROVE IInv'
<1>1. /\ phase = "resume" /\ paused' = paused \ {s}
      /\ phase' = IF paused' = {} THEN "train" ELSE phase
      /\ UNCHANGED <<client, call>> /\ version' = version /\ target' = target
    BY DEF ResumeServer
<1>2. /\ Synchronised /\ target \in Versions /\ target \in Nat
      /\ paused \subseteq Servers /\ version \in [Servers -> Versions]
    BY CurrentTypes DEF IInv, TypeOK
<1>3. Synchronised'
    BY <1>1, <1>2 DEF Synchronised
<1>4. Current' >= Current /\ Current' \in Int
    BY <1>1, <1>2 DEF Current
<1>5. \A r \in Requests : pc[r] = "called" =>
         /\ at[r] \in paused' => fresh[r] = << >>
         /\ fresh[r] = << >> \/ version'[at[r]] = version[at[r]]
    BY <1>1 DEF IInv, CallOf
<1>6. paused' \subseteq Servers /\ phase' \in {"train", "abort", "transfer", "resume"}
    BY <1>1, <1>2
<1> QED BY <1>1, <1>2, <1>3, <1>4, <1>5, <1>6, SyncKeeps

LEMMA NextIInv == IInv /\ [Next]_vars => IInv'
<1> SUFFICES ASSUME IInv, [Next]_vars PROVE IInv'
    OBVIOUS
<1>1. CASE UNCHANGED vars
    <2>1. /\ UNCHANGED <<client, call>> /\ paused' = paused /\ version' = version
          /\ phase' = phase /\ target' = target
        BY <1>1 DEF vars, sync
    <2>2. Current' = Current /\ Current \in Int
        BY <2>1, CurrentTypes DEF Current
    <2>3. Current' >= Current /\ Current' \in Int
        BY <2>2
    <2>4. \A r \in Requests : pc[r] = "called" =>
             /\ at[r] \in paused' => fresh[r] = << >>
             /\ fresh[r] = << >> \/ version'[at[r]] = version[at[r]]
        BY <2>1 DEF IInv, CallOf
    <2>5. /\ Synchronised' /\ paused' \subseteq Servers /\ version' \in [Servers -> Versions]
          /\ phase' \in {"train", "abort", "transfer", "resume"} /\ target' \in Versions
        BY <2>1 DEF IInv, TypeOK, Synchronised
    <2> QED BY <2>1, <2>3, <2>4, <2>5, SyncKeeps
<1>2. CASE \E r \in Requests : (\E s \in Servers : Call(r, s)) \/ Token(r) \/ Complete(r)
    BY <1>2, CallStep, TokenStep, CompleteStep
<1>3. CASE StartSync
    BY <1>3, StartSyncStep
<1>4. CASE \E s \in Servers : AbortServer(s) \/ TransferTo(s) \/ ResumeServer(s)
    BY <1>4, AbortServerStep, TransferToStep, ResumeServerStep
<1> QED BY <1>1, <1>2, <1>3, <1>4 DEF Next

LEMMA Invariance == Spec => []IInv
<1>1. Spec => Init /\ [][Next]_vars
    BY DEF Spec
<1> QED BY <1>1, InitIInv, NextIInv, PTL
-----------------------------------------------------------------------------
(* Clients, calls, servers and trainer keep their types: in particular no  *)
(* synchronisation leads the servers out of the known versions.            *)
THEOREM TypeCorrect == Spec => []TypeOK
<1>1. IInv => TypeOK
    BY DEF IInv
<1> QED BY <1>1, Invariance, PTL

(* generate lowers max_tokens by what it got, so the limit of a caller     *)
(* holds over any number of interruptions.                                 *)
THEOREM LimitIsKept == Spec => []LimitKept
<1>1. IInv => LimitKept
    <2> SUFFICES ASSUME IInv, NEW r \in Requests, limit[r] # None
                 PROVE  Len(out[r]) + Len(fresh[r]) <= limit[r]
        BY DEF LimitKept
    <2>1. CallOf(r) /\ DataOf(r) /\ TypeOK
        BY DEF IInv
    <2>2. PICK m \in Nat, n \in Nat : m = Len(out[r]) /\ n = Len(fresh[r])
        BY <2>1, DataTypes
    <2>3. PICK l \in Nat : l = limit[r] /\ MaxTokens(r) = l - m
        BY <2>1, <2>2, MaxTokensType
    <2>4. m <= l
        BY <2>1, <2>2, <2>3 DEF DataOf
    <2>5. CASE pc[r] = "called"
        <3>1. n <= l - m
            BY <2>1, <2>2, <2>3, <2>5 DEF CallOf
        <3>2. m + n <= l
            BY <3>1
        <3> QED BY <2>2, <2>3, <3>2
    <2>6. CASE pc[r] # "called"
        <3>1. n = 0
            BY <2>1, <2>2, <2>6, EmptySeq DEF CallOf
        <3>2. m + n <= l
            BY <2>4, <3>1
        <3> QED BY <2>2, <2>3, <3>2
    <2> QED BY <2>5, <2>6
<1> QED BY <1>1, Invariance, PTL

(* The engine is never asked for no token at all.                          *)
THEOREM AlwaysRoomToResume == Spec => []RoomToResume
<1>1. IInv => RoomToResume
    BY DEF IInv, CallOf, RoomToResume
<1> QED BY <1>1, Invariance, PTL

(* No weights are replaced below a call, although every server is aborted, *)
(* reloaded and resumed on its own.                                        *)
THEOREM CallsKeepTheirVersion == Spec => []OneVersionPerCall
<1>1. IInv => OneVersionPerCall
    <2> SUFFICES ASSUME IInv, NEW r \in Requests, NEW i \in DOMAIN fresh[r]
                 PROVE  fresh[r][i] = version[at[r]]
        BY DEF OneVersionPerCall
    <2>1. fresh[r] \in Seq(Versions) /\ CallOf(r)
        BY DataTypes DEF IInv
    <2>2. DOMAIN fresh[r] = 1 .. Len(fresh[r]) /\ fresh[r] # << >>
        BY <2>1, EmptySeq
    <2> QED BY <2>1, <2>2 DEF CallOf
<1> QED BY <1>1, Invariance, PTL

(* Log-probabilities and routing stay aligned with the tokens.             *)
THEOREM AlignedArrays == Spec => []ArraysStayAligned
<1>1. IInv => ArraysStayAligned
    BY DEF IInv, DataOf, ArraysStayAligned
<1> QED BY <1>1, Invariance, PTL

(* With partial rollout the two versions of a returned sample bracket      *)
(* those of all its tokens, and no sample is cut short.                    *)
THEOREM BracketedAndWhole == Spec => [](VersionsBracketTokens /\ NoneIsCutShort)
<1>1. IInv => VersionsBracketTokens
    <2> SUFFICES ASSUME IInv, Partial, NEW r \in Requests, pc[r] = "done"
                 PROVE  /\ minv[r] # None /\ maxv[r] # None /\ minv[r] <= maxv[r]
                        /\ \A i \in DOMAIN out[r] : minv[r] <= out[r][i] /\ out[r][i] <= maxv[r]
        BY DEF VersionsBracketTokens
    <2>1. out[r] \in Seq(Versions) /\ VersionsOf(r)
        BY DataTypes DEF IInv
    <2>2. DOMAIN out[r] = 1 .. Len(out[r])
        BY <2>1
    <2> QED BY <2>1, <2>2 DEF VersionsOf
<1>2. IInv => NoneIsCutShort
    BY DEF IInv, VersionsOf, NoneIsCutShort
<1> QED BY <1>1, <1>2, Invariance, PTL
(* A limit given by the caller is the budget of all calls together.        *)
THEOREM BudgetIsKept == Spec => []BudgetKept
<1> QED BY LimitIsKept, AlwaysRoomToResume, PTL DEF BudgetKept

(* What is returned is whole, however often and wherever it was interrupted. *)
THEOREM WholeResponses == Spec => []ResponsesAreWhole
<1> QED BY TypeCorrect, CallsKeepTheirVersion, AlignedArrays, BracketedAndWhole, PTL
        DEF ResponsesAreWhole
=============================================================================
