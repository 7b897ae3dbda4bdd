------------------------ MODULE AnyNSuccessful_proofs ------------------------
(***************************************************************************)
(* Proofs about anyNSuccessful for any number of futures and any quorum,   *)
(* with callbacks that run one at a time or interleave.                    *)
(***************************************************************************)
EXTENDS AnyNSuccessful, FiniteSetTheorems, TLAPS

(* The futures whose callback has counted its result. *)
Begun == {f \in Futures : pc[f] # "pending"}

(* The two counters are cardinalities. *)
CountersExact ==
  /\ succeeded \subseteq Begun
  /\ successes = Cardinality(succeeded)
  /\ successes + failures = Cardinality(Begun)

(***************************************************************************)
(* NoAnswerLost alone is not inductive.  While the promise is open after   *)
(* the last result was counted, some callback has yet to make its tests;   *)
(* it cannot miss both of them, since the counters do not change any more. *)
(***************************************************************************)
SomeoneSettles ==
  promise = "open" /\ AllCounted => \E f \in Futures : pc[f] \in {"counted", "compared"}

IndInv ==
  /\ TypeOK
  /\ CountersExact
  /\ SomeoneSettles
  /\ promise = "value" => successes >= Need

(* What a callback that counts its result does to the futures that have
   counted theirs. *)
LEMMA BegunGrows ==
  ASSUME IndInv, NEW f \in Futures, MayBegin(f),
         pc' = [pc EXCEPT ![f] = "counted"]
  PROVE  /\ Begun' = Begun \union {f}
         /\ f \notin Begun
         /\ Cardinality(Begun') = Cardinality(Begun) + 1
         /\ Cardinality(Begun') <= Cardinality(Futures)
         /\ Cardinality(Begun') \in Nat
         /\ Cardinality(Futures) \in Nat
<1>1. Begun' = Begun \union {f} /\ f \notin Begun
  BY DEF IndInv, TypeOK, Begun, MayBegin
<1>2. IsFiniteSet(Begun) /\ Begun' \in SUBSET Futures /\ Cardinality(Begun) \in Nat
  BY <1>1, AnyNConstants, FS_Subset, FS_CardinalityType DEF Begun
<1>3. Cardinality(Begun') = Cardinality(Begun) + 1
  BY <1>1, <1>2, FS_AddElement
<1>4. Cardinality(Begun') <= Cardinality(Futures) /\ Cardinality(Futures) \in Nat
  BY <1>2, AnyNConstants, FS_Subset, FS_CardinalityType
<1> QED
  BY <1>1, <1>2, <1>3, <1>4

(* A step that counts nothing leaves the counted futures as they are. *)
LEMMA BegunStays ==
  ASSUME IndInv, NEW f \in Futures, pc[f] # "pending",
         NEW next \in {"compared", "done"}, pc' = [pc EXCEPT ![f] = next]
  PROVE  Begun' = Begun
BY DEF IndInv, TypeOK, Begun

LEMMA InitInv == Init => IndInv
<1> SUFFICES ASSUME Init PROVE IndInv
  OBVIOUS
<1>1. Cardinality(Futures) \in Nat /\ Need \in Nat \ {0}
  BY AnyNConstants, FS_CardinalityType
<1>2. Begun = {} /\ succeeded = {}
  BY DEF Init, Begun
<1>3. CountersExact
  BY <1>2, FS_EmptySet DEF CountersExact, Init
<1>4. SomeoneSettles
  <2>1. Cardinality(Futures) # 0
    BY <1>1, AnyNConstants
  <2> QED
    BY <2>1 DEF SomeoneSettles, AllCounted, Init
<1> QED
  BY <1>1, <1>3, <1>4 DEF IndInv, TypeOK, Init

LEMMA StepInv == IndInv /\ [Next]_vars => IndInv'
<1> SUFFICES ASSUME IndInv, [Next]_vars PROVE IndInv'
  OBVIOUS
<1> DEFINE N == Cardinality(Futures)
<1>0. N \in Nat /\ Need \in 1 .. N /\ successes \in 0 .. N /\ failures \in 0 .. N
  BY AnyNConstants, FS_CardinalityType DEF IndInv, TypeOK
<1>1. ASSUME NEW f \in Futures, CountSuccess(f) PROVE IndInv'
  <2>1. /\ Begun' = Begun \union {f} /\ f \notin Begun
        /\ Cardinality(Begun') = Cardinality(Begun) + 1
        /\ Cardinality(Begun') <= N
    BY <1>1, BegunGrows DEF CountSuccess
  <2>2. IsFiniteSet(succeeded) /\ f \notin succeeded
    BY <2>1, AnyNConstants, FS_Subset DEF IndInv, TypeOK, CountersExact
  <2>3. Cardinality(succeeded') = Cardinality(succeeded) + 1
    BY <1>1, <2>2, FS_AddElement DEF CountSuccess
  <2>4. CountersExact'
    BY <1>0, <1>1, <2>1, <2>3 DEF CountersExact, CountSuccess, IndInv
  <2>5. successes' \in 0 .. N /\ failures' \in 0 .. N
    BY <1>0, <1>1, <2>1 DEF IndInv, CountersExact, CountSuccess
  <2>6. TypeOK'
    BY <1>1, <2>5 DEF TypeOK, IndInv, CountSuccess
  <2>7. SomeoneSettles'
    BY <1>1 DEF SomeoneSettles, CountSuccess, IndInv, TypeOK
  <2>8. promise' = "value" => successes' >= Need
    BY <1>0, <1>1 DEF IndInv, CountSuccess
  <2> QED
    BY <2>4, <2>6, <2>7, <2>8 DEF IndInv
<1>2. ASSUME NEW f \in Futures, CountFailure(f) PROVE IndInv'
  <2>1. /\ Begun' = Begun \union {f} /\ f \notin Begun
        /\ Cardinality(Begun') = Cardinality(Begun) + 1
        /\ Cardinality(Begun') <= N
    BY <1>2, BegunGrows DEF CountFailure
  <2>2. CountersExact'
    BY <1>0, <1>2, <2>1 DEF CountersExact, CountFailure, IndInv
  <2>3. failures' \in 0 .. N /\ successes' \in 0 .. N
    BY <1>0, <1>2, <2>1 DEF IndInv, CountersExact, CountFailure
  <2>4. TypeOK'
    BY <1>2, <2>3 DEF TypeOK, IndInv, CountFailure
  <2>5. SomeoneSettles'
    BY <1>2 DEF SomeoneSettles, CountFailure, IndInv, TypeOK
  <2> QED
    BY <1>2, <2>2, <2>4, <2>5 DEF IndInv, CountFailure
<1>3. ASSUME NEW f \in Futures, SetValue(f) PROVE IndInv'
  <2>1. Begun' = Begun
    BY <1>3, BegunStays DEF SetValue
  <2>2. promise' \in {"value", "exception"} /\ successes = Need
    BY <1>3 DEF IndInv, TypeOK, SetValue, Settle, Enough
  <2>3. TypeOK' /\ SomeoneSettles'
    BY <1>3, <2>2 DEF IndInv, TypeOK, SomeoneSettles, SetValue
  <2>4. CountersExact' /\ successes' >= Need
    BY <1>0, <1>3, <2>1, <2>2 DEF IndInv, CountersExact, SetValue
  <2> QED
    BY <2>3, <2>4 DEF IndInv
<1>4. ASSUME NEW f \in Futures, NotEnough(f) PROVE IndInv'
  <2>1. Begun' = Begun
    BY <1>4, BegunStays DEF NotEnough
  <2> QED
    BY <1>4, <2>1 DEF IndInv, TypeOK, CountersExact, SomeoneSettles, NotEnough, AllCounted
<1>5. ASSUME NEW f \in Futures, SetException(f) PROVE IndInv'
  <2>1. Begun' = Begun
    BY <1>5, BegunStays DEF SetException
  <2> QED
    BY <1>5, <2>1 DEF IndInv, TypeOK, CountersExact, SomeoneSettles, SetException, Settle
<1>6. ASSUME NEW f \in Futures, NotAll(f) PROVE IndInv'
  <2>1. Begun' = Begun
    BY <1>6, BegunStays DEF NotAll
  <2> QED
    BY <1>6, <2>1 DEF IndInv, TypeOK, CountersExact, SomeoneSettles, NotAll, AllCounted
<1>7. CASE UNCHANGED vars
  BY <1>7 DEF vars, IndInv, TypeOK, CountersExact, SomeoneSettles, AllCounted, Begun
<1> QED
  BY <1>1, <1>2, <1>3, <1>4, <1>5, <1>6, <1>7 DEF Next

LEMMA IndInvHolds == Spec => []IndInv
BY InitInv, StepInv, PTL DEF Spec

(* anyNSuccessful reports a quorum only when Need futures have succeeded,
   however its callbacks interleave, for every number of futures. *)
THEOREM QuorumReportedIsReal == Spec => []ValueMeansQuorum
<1>1. IndInv => ValueMeansQuorum
  BY DEF IndInv, ValueMeansQuorum, CountersExact
<1> QED
  BY <1>1, IndInvHolds, PTL

(* When every callback has run, the future anyNSuccessful returned is
   fulfilled: SequencerImpl::append and reconfigure never wait for ever. *)
THEOREM AnswerAlwaysGiven == Spec => []NoAnswerLost
<1>1. IndInv => NoAnswerLost
  <2> SUFFICES ASSUME IndInv, \A f \in Futures : pc[f] = "done" PROVE promise # "open"
    BY DEF NoAnswerLost
  <2>1. Begun = Futures
    BY DEF Begun
  <2>2. AllCounted
    BY <2>1 DEF IndInv, CountersExact, AllCounted
  <2> QED
    BY <2>2 DEF IndInv, SomeoneSettles
<1> QED
  BY <1>1, IndInvHolds, PTL
=============================================================================
