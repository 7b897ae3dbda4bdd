---------------------------- MODULE MCCounterApp ----------------------------
(* Clients ask for a batch that changes a key twice, and for an empty one. *)
EXTENDS CounterApp

CONSTANTS ctr, hkey

Op(k, cmd, v) == [key |-> k, cmd |-> cmd, val |-> v]

TwoBatches == {<<Op(ctr, "INCR", 3), Op(ctr, "DECR", 1)>>, << >>}
=============================================================================
