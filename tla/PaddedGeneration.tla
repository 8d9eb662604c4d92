-------------------------- MODULE PaddedGeneration --------------------------
(***************************************************************************)
(* generate_with_graceful_padding (recurrent/generation_manager.py): a     *)
(* batch that the worker group cannot divide evenly is padded, dispatched  *)
(* in equal chunks, and the outputs of the dummies are removed again.      *)
(***************************************************************************)
EXTENDS GracefulPadding, Sequences

CONSTANTS MaxRows, MaxGroups     \* bounds: rows of a batch, workers

BoundsAssumption == MaxRows \in Nat \ {0} /\ MaxGroups \in Nat \ {0}

VARIABLES
    bsz, groups,  \* rows of the batch, size of the worker group
    stage,        \* "split", "generate", "gathered"
    share,        \* per worker, the rows it was sent
    answered,     \* workers that have generated
    output        \* rows that the manager got back

vars == <<bsz, groups, stage, share, answered, output>>

Dummy == 0
RowsOf(worker) == SubSeq(share, (worker - 1) * (Len(share) \div groups) + 1,
                                worker * (Len(share) \div groups))

Init ==
    /\ bsz \in 1 .. MaxRows /\ groups \in 1 .. MaxGroups
    /\ stage = "split" /\ share = << >> /\ answered = {} /\ output = << >>

(* The indexed batch, cut into equal chunks by the dispatch.               *)
Split ==
    /\ stage = "split" /\ stage' = "generate"
    /\ share' = IF bsz % groups = 0 THEN [i \in 1 .. bsz |-> i]
                ELSE PaddingIndex(bsz, groups)
    /\ UNCHANGED <<bsz, groups, answered, output>>

Generate(worker) ==
    /\ stage = "generate" /\ worker \notin answered
    /\ answered' = answered \cup {worker}
    /\ UNCHANGED <<bsz, groups, stage, share, output>>

Gather ==
    /\ stage = "generate" /\ answered = 1 .. groups
    /\ stage' = "gathered"
    /\ output' = IF bsz % groups = 0 THEN share
                 ELSE LET mask == NoPaddingMask(bsz, groups)
                          kept == SelectSeq([i \in DOMAIN mask |-> i], LAMBDA i : mask[i]) IN
                      [k \in DOMAIN kept |-> share[kept[k]]]
    /\ UNCHANGED <<bsz, groups, share, answered>>

Next == Split \/ (\E worker \in 1 .. groups : Generate(worker)) \/ Gather

Spec == Init /\ [][Next]_vars
-----------------------------------------------------------------------------
Dummies(worker) == {i \in DOMAIN RowsOf(worker) : RowsOf(worker)[i] = Dummy}

(* Every worker is sent the same number of rows, at most one of them a     *)
(* dummy: no worker sits on dummies while another does the work.           *)
SharesAreEven ==
    stage # "split" =>
        /\ Len(share) % groups = 0
        /\ \A worker \in 1 .. groups : Cardinality(Dummies(worker)) <= 1

(* What comes back is the batch: every row once, in its order, no dummy.   *)
OutputIsTheBatch ==
    stage = "gathered" => output = [i \in 1 .. bsz |-> i]
=============================================================================
