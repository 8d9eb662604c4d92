-------------------------- MODULE ReadSelectMerge --------------------------
(***************************************************************************)
(* What the PI-Mem workflow promises to every question of a batch, whoever *)
(* runs it: the synchronous batch agent (MemoryAgent) or the asynchronous  *)
(* per-sample agent (AsyncMemoryAgent).  A question is read in passes.  A  *)
(* pass either absorbs the evidence its chunks produced into the memory,   *)
(* in one merge, or finds none and ends the reading; the reading also ends *)
(* after MaxPasses merges; then the question is answered once.             *)
(*                                                                         *)
(* The text of a memory is abstracted to its lineage: the sequence, merge  *)
(* by merge, of the sets of chunks whose extracted notes went into it.     *)
(***************************************************************************)
EXTENDS Integers, Sequences

CONSTANTS
    Samples,    \* the questions of one batch
    Chunks,     \* positions a context may be cut into
    MaxPasses   \* config.max_passes

VARIABLES
    memory,     \* memory[s]: lineage of the global memory of s
    stage,      \* stage[s]: "reading", "answering" or "answered"
    used        \* used[s]: passes charged to s by the reward; -1 while unknown

vars == <<memory, stage, used>>

Memories == Seq(SUBSET Chunks)
Stages   == {"reading", "answering", "answered"}

Init ==
    /\ memory = [s \in Samples |-> << >>]
    /\ stage  = [s \in Samples |-> "reading"]
    /\ used   = [s \in Samples |-> -1]

(* A pass of s found evidence: one merge absorbs all of it.  The pass limit *)
(* ends the reading.                                                        *)
Absorb(s) ==
    /\ stage[s] = "reading"
    /\ Len(memory[s]) < MaxPasses
    /\ \E evidence \in (SUBSET Chunks) \ {{}} :
          memory'[s] = Append(memory[s], evidence)
    /\ \/ /\ Len(memory'[s]) < MaxPasses
          /\ stage'[s] = "reading"
          /\ used'[s] = -1
       \/ /\ Len(memory'[s]) = MaxPasses
          /\ stage'[s] = "answering"
          /\ used'[s] = MaxPasses

(* A pass of s found nothing: the memory is final and this pass is charged. *)
Converge(s) ==
    /\ stage[s] = "reading"
    /\ Len(memory[s]) < MaxPasses
    /\ memory'[s] = memory[s]
    /\ stage'[s] = "answering"
    /\ used'[s] = Len(memory[s]) + 1

(* s is answered from its final memory. *)
Answer(s) ==
    /\ stage[s] = "answering"
    /\ stage'[s] = "answered"
    /\ memory'[s] = memory[s]
    /\ used'[s] = used[s]

Stay(s) ==
    /\ memory'[s] = memory[s]
    /\ stage'[s] = stage[s]
    /\ used'[s] = used[s]

(* A batch agent may advance several questions in one step. *)
Next ==
    /\ memory' \in [Samples -> Memories]
    /\ stage' \in [Samples -> Stages]
    /\ used' \in [Samples -> Int]
    /\ \A s \in Samples : Absorb(s) \/ Converge(s) \/ Answer(s) \/ Stay(s)

Spec == Init /\ [][Next]_vars
=============================================================================
