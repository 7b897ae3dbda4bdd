---------------------------- MODULE MCVirtualLog ----------------------------
(* VirtualLog with interchangeable replicas, appends and clients for TLC. *)
EXTENDS VirtualLog, TLC

Symmetry == Permutations(Replicas) \union Permutations(Appends)
              \union Permutations(Clients)
=============================================================================
