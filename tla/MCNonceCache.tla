---------------------------- MODULE MCNonceCache ----------------------------
(***************************************************************************)
(* NonceCache for TLC: goroutines and nonces are interchangeable.          *)
(***************************************************************************)
EXTENDS NonceCache

Symmetry == Permutations(Requests) \cup Permutations(Nonces)
=============================================================================
