---------------------------- MODULE WeightChannel ---------------------------
(***************************************************************************)
(* What every way of handing weights to the rollout promises               *)
(* (CheckpointEngine.send_weights / receive_weights and the bucketed       *)
(* transfer to the inference worker): each receiver is given the weights   *)
(* of the generator, whole, in its order, each of them once.               *)
(***************************************************************************)
EXTENDS Naturals, Sequences

CONSTANT Receivers

VARIABLES
    model,    \* the weights, in the order of the generator
    got       \* what each receiver has been given

vars == <<model, got>>

Init == got = [r \in Receivers |-> << >>]

Give(r) == /\ Len(got[r]) < Len(model)
           /\ got' = [got EXCEPT ![r] = Append(@, model[Len(@) + 1])]
           /\ UNCHANGED model

Next == \E r \in Receivers : Give(r)

Safety == Init /\ [][Next]_vars
Spec == Safety /\ \A r \in Receivers : WF_vars(Give(r))
=============================================================================
