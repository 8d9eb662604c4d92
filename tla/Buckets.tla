------------------------------ MODULE Buckets -------------------------------
(***************************************************************************)
(* The buffers weights are moved in.  The i-th byte of weight w is <<w, i>>*)
(* since nobody on the way looks at the value; a buffer is a function from *)
(* places to bytes.                                                        *)
(***************************************************************************)
EXTENDS Integers, Sequences

CONSTANTS
    BucketSize,
    NoByte       \* what an unwritten place holds

BucketAssumption == BucketSize \in Nat \ {0}

BytesOfWeight(w, size) == [i \in 1 .. size |-> <<w, i - 1>>]

EmptyBuffer == [i \in 0 .. BucketSize - 1 |-> NoByte]

(* The n bytes at offset o, and the buffer after data was written there.    *)
Stretch(buffer, o, n) == [i \in 1 .. n |-> buffer[o + i - 1]]
Written(buffer, o, data) ==
    [i \in DOMAIN buffer |-> IF i \in o .. o + Len(data) - 1
                             THEN data[i - o + 1] ELSE buffer[i]]
=============================================================================
