---------------------------- MODULE MCIdempotency ----------------------------
(* Instances of Idempotency for TLC: two duplicates, with or without a third  *)
(* request that reuses the key for something else.                            *)
EXTENDS Idempotency, TLC

CONSTANTS r1, r2, r3

ThreeDuplicates == [r \in {r1, r2, r3} |-> 1]
DuplicatesAndOther == r1 :> 1 @@ r2 :> 1 @@ r3 :> 2

Interchangeable == Permutations({r1, r2})
=============================================================================
