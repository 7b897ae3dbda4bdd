--------------------------- MODULE AnyNSuccessful ---------------------------
(***************************************************************************)
(* anyNSuccessful (log/utils/FutureUtils.h): a promise fulfilled when Need *)
(* of the futures have succeeded, and failed when all are done and fewer   *)
(* did.  SequencerImpl::append and VirtualLogImpl::reconfigure wait for    *)
(* their quorums with it.                                                  *)
(*                                                                         *)
(* The callback of a future runs on the thread that resolves it, so        *)
(* callbacks of different futures may interleave.                          *)
(***************************************************************************)
EXTENDS Integers, FiniteSets

CONSTANTS Futures,
          Need,        \* n
          Concurrent   \* may callbacks run at the same time?

ASSUME AnyNConstants ==
  /\ IsFiniteSet(Futures)
  /\ Need \in 1 .. Cardinality(Futures)
  /\ Concurrent \in BOOLEAN

VARIABLES
  pc,         \* per future: where its callback is
  succeeded,  \* futures that resolved with a value
  successes,  \* *successCounter
  failures,   \* *failureCounter
  promise     \* "open", "value" or "exception"

vars == <<pc, succeeded, successes, failures, promise>>

Init ==
  /\ pc = [f \in Futures |-> "pending"]
  /\ succeeded = {}
  /\ successes = 0
  /\ failures = 0
  /\ promise = "open"

(* Another callback has begun and not ended. *)
Busy == \E f \in Futures : pc[f] \in {"counted", "compared"}

MayBegin(f) == pc[f] = "pending" /\ (Concurrent \/ ~Busy)

CountSuccess(f) ==
  /\ MayBegin(f)
  /\ succeeded' = succeeded \union {f}
  /\ successes' = successes + 1
  /\ pc' = [pc EXCEPT ![f] = "counted"]
  /\ UNCHANGED <<failures, promise>>

CountFailure(f) ==
  /\ MayBegin(f)
  /\ failures' = failures + 1
  /\ pc' = [pc EXCEPT ![f] = "counted"]
  /\ UNCHANGED <<succeeded, successes, promise>>

(* Setting a promise twice throws, and the callback's own future, which
   nobody holds, swallows it. *)
Settle(outcome) == promise' = IF promise = "open" THEN outcome ELSE promise

(* Faulty variants: one success too few; only failures are counted. *)
EnoughTooEarly == successes = Need - 1
AllCountedFailuresOnly == failures = Cardinality(Futures)

Enough == successes = Need
AllCounted == successes + failures = Cardinality(Futures)

SetValue(f) ==
  /\ pc[f] = "counted"
  /\ Enough
  /\ Settle("value")
  /\ pc' = [pc EXCEPT ![f] = "done"]
  /\ UNCHANGED <<succeeded, successes, failures>>

NotEnough(f) ==
  /\ pc[f] = "counted"
  /\ ~Enough
  /\ pc' = [pc EXCEPT ![f] = "compared"]
  /\ UNCHANGED <<succeeded, successes, failures, promise>>

(* The counters are read again for the second test. *)
SetException(f) ==
  /\ pc[f] = "compared"
  /\ AllCounted
  /\ Settle("exception")
  /\ pc' = [pc EXCEPT ![f] = "done"]
  /\ UNCHANGED <<succeeded, successes, failures>>

NotAll(f) ==
  /\ pc[f] = "compared"
  /\ ~AllCounted
  /\ pc' = [pc EXCEPT ![f] = "done"]
  /\ UNCHANGED <<succeeded, successes, failures, promise>>

Next ==
  \E f \in Futures : \/ CountSuccess(f) \/ CountFailure(f)
                     \/ SetValue(f) \/ NotEnough(f)
                     \/ SetException(f) \/ NotAll(f)

Spec == Init /\ [][Next]_vars
-----------------------------------------------------------------------------
(* Properties *)

(* Each future is counted once, and the promise holds at most one answer. *)
TypeOK ==
  /\ pc \in [Futures -> {"pending", "counted", "compared", "done"}]
  /\ succeeded \subseteq Futures
  /\ successes \in 0 .. Cardinality(Futures)
  /\ failures \in 0 .. Cardinality(Futures)
  /\ promise \in {"open", "value", "exception"}

(* A quorum is reported only when there is one, whatever interleaves, and
   the counters never exceed the futures. *)
ValueMeansQuorum ==
  TypeOK /\ (promise = "value" => Cardinality(succeeded) >= Need)

(* Nobody waits for ever: once every callback has run the promise is set. *)
NoAnswerLost == (\A f \in Futures : pc[f] = "done") => promise # "open"
=============================================================================
