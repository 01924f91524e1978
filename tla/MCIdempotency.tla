--------------------------- MODULE MCIdempotency ----------------------------
(***************************************************************************)
(* Idempotency for TLC: goroutines, keys and hashes are interchangeable.   *)
(***************************************************************************)
EXTENDS Idempotency, TLC

Symmetry == Permutations(Requests) \cup Permutations(Key) \cup Permutations(Hash)
=============================================================================
