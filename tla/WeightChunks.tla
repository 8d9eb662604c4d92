---------------------------- MODULE WeightChunks ----------------------------
(***************************************************************************)
(* How weights are cut to fit the buckets of a checkpoint engine and put   *)
(* together again: split_weight_chunks and merge_weight_chunks of          *)
(* verl/checkpoint_engine/base.py.  A weight is its position in the order  *)
(* of the generator.                                                       *)
(* Operators introduced by "Slip:" are mistakes the properties of the      *)
(* engines notice.                                                         *)
(***************************************************************************)
EXTENDS Buckets

CONSTANT Sizes   \* nbytes of each weight, in the order of the generator

SizesAssumption == Sizes \in Seq(Nat \ {0}) /\ Sizes # << >>

Weights  == DOMAIN Sizes
Bytes(w) == BytesOfWeight(w, Sizes[w])
Model    == [w \in Weights |-> Bytes(w)]
AllBytes == UNION {{<<w, i>> : i \in 0 .. Sizes[w] - 1} : w \in Weights}

Lesser(a, b) == IF a < b THEN a ELSE b

(* TensorMeta: a stretch of a weight.  The offset of it in its bucket is    *)
(* added by the sender.                                                     *)
Chunk == [name : Weights, from : Nat, size : Nat]

(* Slip: a rest shorter than a bucket is dropped. *)
ChunksOfDropped(w) ==
    [k \in 1 .. Sizes[w] \div BucketSize |->
        [name |-> w, from |-> (k - 1) * BucketSize, size |-> BucketSize]]
ChunksOf(w) ==
    [k \in 1 .. (Sizes[w] + BucketSize - 1) \div BucketSize |->
        [name |-> w, from |-> (k - 1) * BucketSize,
         size |-> Lesser(BucketSize, Sizes[w] - (k - 1) * BucketSize)]]
(* split_weight_chunks: the chunks of one weight after another.             *)
Chunks == LET upTo[w \in 0 .. Len(Sizes)] ==
                  IF w = 0 THEN << >> ELSE upTo[w - 1] \o ChunksOf(w)
          IN upTo[Len(Sizes)]
BytesOf(c) == SubSeq(Bytes(c.name), c.from + 1, c.from + c.size)

(* merge_weight_chunks: the weight under construction, the weights yielded  *)
(* so far, and whether an assertion failed.                                 *)
NoMerge == [name |-> 0, bytes |-> << >>, yielded |-> << >>, failed |-> FALSE]

(* Slip: what is left of the last weight is not reset. *)
MergedKeeping(m, c, data) ==
    IF Sizes[c.name] <= BucketSize
    THEN [m EXCEPT !.yielded = Append(@, data), !.failed = @ \/ m.name # 0]
    ELSE [m EXCEPT !.name = c.name, !.bytes = @ \o data,
                   !.yielded = IF c.from + c.size = Sizes[c.name]
                               THEN Append(@, m.bytes \o data) ELSE @,
                   !.failed = @ \/ m.name \notin {0, c.name} \/ Len(m.bytes) # c.from]
Merged(m, c, data) ==
    IF Sizes[c.name] <= BucketSize
    THEN [m EXCEPT !.yielded = Append(@, data), !.failed = @ \/ m.name # 0]
    ELSE LET fits == /\ m.name \in {0, c.name}
                     /\ Len(m.bytes) = c.from
             whole == m.bytes \o data
         IN IF c.from + c.size = Sizes[c.name]
            THEN [NoMerge EXCEPT !.yielded = Append(m.yielded, whole),
                                 !.failed = m.failed \/ ~fits]
            ELSE [m EXCEPT !.name = c.name, !.bytes = whole,
                           !.failed = @ \/ ~fits]
=============================================================================
