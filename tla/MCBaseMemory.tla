---------------------------- MODULE MCBaseMemory ----------------------------
(* BaseMemory on a small buffer.  No action and no property tells one handle *)
(* from another, so states that differ by a permutation of them are one.     *)
EXTENDS BaseMemory

HandleSymmetry == Permutations(Handles)
=============================================================================
