--------------------------- MODULE GracefulPadding ---------------------------
(***************************************************************************)
(* graceful_padding (recurrent/utils.py): a batch of n rows that does not  *)
(* divide into k groups gets dummy rows, at most one per group.            *)
(* Positions count from 1; index 0 stands for the code's -1.               *)
(* Operators introduced by "Slip:" are mistakes the properties notice.     *)
(***************************************************************************)
EXTENDS Integers, FiniteSets

GroupSize(n, k) == IF n % k = 0 THEN n \div k ELSE n \div k + 1

(* The first groups are full, as many as the remainder; each of the others *)
(* begins with a dummy.                                                    *)
(* Slip: the dummies go to the end of the batch. *)
NoPaddingMaskAtEnd(n, k) ==
    [i \in 1 .. k * GroupSize(n, k) |-> i <= n]

(* Slip: one full group too many. *)
NoPaddingMaskOffByOne(n, k) ==
    LET size == GroupSize(n, k)  r == n % k IN
    [i \in 1 .. k * size |->
        r = 0 \/ (i - 1) \div size <= r \/ (i - 1) % size # 0]

NoPaddingMask(n, k) ==
    LET size == GroupSize(n, k)  r == n % k IN
    [i \in 1 .. k * size |->
        r = 0 \/ (i - 1) \div size < r \/ (i - 1) % size # 0]

(* Real rows keep their order: cumsum of the mask.                         *)
PaddingIndex(n, k) ==
    LET mask == NoPaddingMask(n, k) IN
    [i \in DOMAIN mask |->
        IF mask[i] THEN Cardinality({j \in 1 .. i : mask[j]}) ELSE 0]
=============================================================================
