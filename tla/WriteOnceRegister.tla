-------------------------- MODULE WriteOnceRegister --------------------------
(***************************************************************************)
(* What a write once register promises its users (the interface            *)
(* wor/include/WriteOnceRegister.h, as wor/tests/WriteOnceRegisterTests.cc *)
(* exercises it): it is written at most once, and every read that finds a  *)
(* value finds that one.                                                   *)
(***************************************************************************)
CONSTANTS Users,    \* calls that use the register
          Values,   \* payloads
          NoValue   \* ReadError::NOT_WRITTEN

VARIABLES register, \* the payload written, NoValue before
          reads     \* per user: what its last successful read returned

vars == <<register, reads>>

Init == register = NoValue /\ reads = [u \in Users |-> NoValue]

Write(v) ==
  /\ register = NoValue
  /\ register' = v
  /\ UNCHANGED reads

Read(u) ==
  /\ register # NoValue
  /\ reads' = [reads EXCEPT ![u] = register]
  /\ UNCHANGED register

(* A user starts a new call and forgets what it read. *)
Renew(u) ==
  /\ reads' = [reads EXCEPT ![u] = NoValue]
  /\ UNCHANGED register

Next ==
  \/ \E v \in Values : Write(v)
  \/ \E u \in Users : Read(u) \/ Renew(u)

Spec == Init /\ [][Next]_vars
=============================================================================
