--------------------------- MODULE MCPaxosRegister ---------------------------
EXTENDS PaxosRegister, TLC

CONSTANTS p1, p2, v1, v2

(* Caller p1 runs on the node of acceptor 1, p2 on the node of acceptor 2. *)
NoneRemote  == {}
OtherNodes  == {<<p1, 2>>, <<p2, 1>>}

ValueSymmetry == Permutations({v1, v2})
Symmetry == ValueSymmetry \union Permutations({p1, p2})
=============================================================================
