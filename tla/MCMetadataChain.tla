-------------------------- MODULE MCMetadataChain --------------------------
(* Two nodes, the first one with two calls at a time. *)
EXTENDS MetadataChain, TLC

CONSTANTS n1, n2, c1, c2, c3

HomeOf(c) == IF c = c3 THEN n2 ELSE n1

Symmetry == Permutations({c1, c2})
=============================================================================
