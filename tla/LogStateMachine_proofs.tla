----------------------- MODULE LogStateMachine_proofs -----------------------
(***************************************************************************)
(* Proofs about the log state machine for any number of appends, syncs,    *)
(* appends of other nodes and failed reads, for a log that starts at log   *)
(* id 0 or 1, and with or without a mutex around the node's calls.         *)
(***************************************************************************)
EXTENDS LogStateMachine, FiniteSetTheorems, SequenceTheorems, TLAPS

Writers == Appends \union Foreign

(* The calls that were given a log id. *)
Placed == {c \in Writers : call[c].pc # "new"}

(* Log ids are handed out one after the other, one to each call, and an entry
   that is not free belongs to a log id that was handed out. *)
IdsHandedOut ==
  /\ next = FirstLogId + Cardinality(Placed)
  /\ \A c \in Writers : IF call[c].pc = "new" THEN call[c].id = 0
                                              ELSE call[c].id \in FirstLogId .. (next - 1)
  /\ \A c \in Syncs : call[c].pc # "new" => call[c].id < next
  /\ \A c \in Syncs : call[c].pc # "sent"

(***************************************************************************)
(* The pipeline: what the producer may fetch was asked for, list_ holds    *)
(* consecutive log ids up to the last one fetched, the tasks of the single *)
(* thread are the ones after the last applied, and the two join as long as *)
(* the consumer loop runs.                                                 *)
(***************************************************************************)
PipelineInOrder ==
  /\ target < next
  /\ to = 0 \/ to <= target
  /\ fetched <= to
  /\ \A i \in 1 .. Len(list) : list[i].id = fetched - Len(list) + i
  /\ \A i \in 1 .. Len(queue) : queue[i] = applied + i
  /\ applied + Len(queue) <= fetched - Len(list)
  /\ consuming => applied + Len(queue) = fetched - Len(list)

(* Nothing unreadable gets past the read. *)
OnlyStoredPasses ==
  /\ \A i \in 1 .. Len(list) : list[i].st = "value" => entry[list[i].id] = "stored"
  /\ \A i \in 1 .. Len(queue) : entry[queue[i]] = "stored"

(* A promise belongs to a call that waits for its log id. *)
PromisesOwned ==
  \A p \in promises : call[p[2]].pc = "waiting" /\ call[p[2]].id = p[1]

LoopInv ==
  /\ TypeOK
  /\ IdsHandedOut
  /\ PipelineInOrder
  /\ OnlyStoredPasses
  /\ PromisesOwned
  /\ AnswerAfterApply

-----------------------------------------------------------------------------
(* What the log hands out *)

LEMMA LogIdsBound ==
  /\ Cardinality(Writers) \in Nat
  /\ FirstLogId \in {0, 1}
  /\ LogIds = FirstLogId .. (FirstLogId + Cardinality(Writers) - 1)
  /\ Cardinality(LogIds) = Cardinality(Writers)
<1>1. IsFiniteSet(Writers)
  BY LogStateMachineConstants, FS_Union DEF Writers
<1>2. Cardinality(Writers) \in Nat
  BY <1>1, FS_CardinalityType
<1>3. LogIds = FirstLogId .. (FirstLogId + Cardinality(Writers) - 1)
  BY DEF LogIds, Writers
<1>4. FirstLogId \in {0, 1} /\ FirstLogId \in Int
      /\ FirstLogId + Cardinality(Writers) - 1 \in Int
  BY <1>2, LogStateMachineConstants
<1>5. \A a, b \in Int : Cardinality(a .. b) = IF a > b THEN 0 ELSE b - a + 1
  BY FS_Interval
<1> QED
  BY <1>2, <1>3, <1>4, <1>5

(* A call that takes a log id leaves room for one in LogIds. *)
LEMMA RoomForNew ==
  ASSUME LoopInv, NEW c \in Writers, call[c].pc = "new"
  PROVE  next \in LogIds
<1>1. IsFiniteSet(Writers) /\ Placed \in SUBSET Writers /\ c \notin Placed
  BY LogStateMachineConstants, FS_Union DEF Writers, Placed
<1>2. IsFiniteSet(Placed) /\ Cardinality(Placed) \in Nat
  BY <1>1, FS_Subset, FS_CardinalityType
<1>3. Placed \union {c} \in SUBSET Writers
      /\ Cardinality(Placed \union {c}) = Cardinality(Placed) + 1
  BY <1>1, <1>2, FS_AddElement
<1>4. Cardinality(Placed) + 1 <= Cardinality(Writers)
  BY <1>1, <1>3, FS_Subset
<1> QED
  BY <1>2, <1>4, LogIdsBound DEF LoopInv, IdsHandedOut

(* Taking a log id places one more call; no other step places any. *)
LEMMA PlacedGrows ==
  ASSUME LoopInv, NEW c \in Writers, TakeLogId(c)
  PROVE  Cardinality(Placed') = Cardinality(Placed) + 1 /\ Cardinality(Placed) \in Nat
<1>1. Placed' = Placed \union {c} /\ c \notin Placed
  BY DEF LoopInv, TypeOK, TakeLogId, Placed, Writers, Calls
<1>2. IsFiniteSet(Writers) /\ Placed \in SUBSET Writers
  BY LogStateMachineConstants, FS_Union DEF Writers, Placed
<1>3. IsFiniteSet(Placed) /\ Cardinality(Placed) \in Nat
  BY <1>2, FS_Subset, FS_CardinalityType
<1> QED
  BY <1>1, <1>3, FS_AddElement

LEMMA PlacedStays ==
  ASSUME LoopInv, \A c \in Writers : (call'[c].pc = "new") <=> (call[c].pc = "new")
  PROVE  Placed' = Placed
BY DEF Placed

(* What list_ and the tasks of the single thread are made of. *)
Slot == [id : LogIds, st : {"running", "value", "broken"}]

LEMMA PipelineTypes ==
  ASSUME LoopInv
  PROVE  /\ list \in Seq(Slot) /\ Len(list) \in Nat /\ DOMAIN list = 1 .. Len(list)
         /\ \A i \in 1 .. Len(list) : list[i] \in Slot /\ list[i].id \in LogIds
         /\ queue \in Seq(LogIds) /\ Len(queue) \in Nat
         /\ \A i \in 1 .. Len(queue) : queue[i] \in LogIds
         /\ fetched \in Nat /\ applied \in Nat /\ to \in Nat
<1>1. list \in Seq(Slot) /\ queue \in Seq(LogIds)
  BY DEF LoopInv, TypeOK, Slot
<1>2. \A i \in 1 .. Len(list) : list[i] \in Slot
  BY <1>1, ElementOfSeq
<1>3. \A i \in 1 .. Len(queue) : queue[i] \in LogIds
  BY <1>1, ElementOfSeq
<1>4. Len(list) \in Nat /\ Len(queue) \in Nat /\ DOMAIN list = 1 .. Len(list)
  BY <1>1, LenProperties
<1>5. fetched \in Nat /\ applied \in Nat /\ to \in Nat
  BY LogIdsBound DEF LoopInv, TypeOK
<1> QED
  BY <1>1, <1>2, <1>3, <1>4, <1>5 DEF Slot

-----------------------------------------------------------------------------
(* The loops keep the entries in order *)

LEMMA InitLoop == Init => LoopInv
<1> SUFFICES ASSUME Init PROVE LoopInv
  OBVIOUS
<1>1. Placed = {}
  BY DEF Init, Placed, Writers, Calls
<1>2. next = FirstLogId + Cardinality(Placed)
  BY <1>1, FS_EmptySet, LogIdsBound DEF Init
<1>3. IdsHandedOut
  BY <1>2 DEF IdsHandedOut, Init, Writers, Calls
<1>4. TypeOK
  BY LogIdsBound, LogStateMachineConstants DEF TypeOK, Init, Calls
<1>5. /\ Len(list) = 0 /\ Len(queue) = 0 /\ fetched = 0 /\ applied = 0
      /\ target = -1 /\ next \in {0, 1} /\ to = 0
  BY LogIdsBound DEF Init
<1>6. PipelineInOrder
  BY <1>5 DEF PipelineInOrder
<1>7. OnlyStoredPasses
  BY <1>5 DEF OnlyStoredPasses
<1>8. PromisesOwned /\ AnswerAfterApply
  BY DEF Init, PromisesOwned, AnswerAfterApply, Calls
<1> QED
  BY <1>3, <1>4, <1>6, <1>7, <1>8 DEF LoopInv

(* A call takes the next log id; what passes the loops lies below it. *)
LEMMA TakeStep ==
  ASSUME LoopInv, NEW c \in Writers, TakeLogId(c)
  PROVE  LoopInv'
<1>1. next \in LogIds /\ next' = next + 1 /\ next' \in FirstLogId .. (FirstLogId + Cardinality(LogIds))
  BY RoomForNew, LogIdsBound DEF TakeLogId
<1>2. IdsHandedOut'
  <2>1. next \in Nat
    BY <1>1, LogIdsBound
  <2>2. next' = FirstLogId + Cardinality(Placed')
    BY <1>1, PlacedGrows, LogIdsBound DEF IdsHandedOut, LoopInv
  <2>3. \A x \in Calls \union Foreign :
          call'[x] = IF x = c THEN [pc |-> "sent", id |-> next] ELSE call[x]
    BY DEF TakeLogId, LoopInv, TypeOK
  <2>4. Writers \subseteq Calls \union Foreign /\ c \notin Syncs
    BY LogStateMachineConstants DEF Writers, Calls
  <2>5. \A x \in Writers : IF call'[x].pc = "new" THEN call'[x].id = 0
                                                  ELSE call'[x].id \in FirstLogId .. (next' - 1)
    <3> TAKE x \in Writers
    <3>1. CASE x = c
      BY <1>1, <2>3, <2>4, <3>1, LogIdsBound
    <3>2. CASE x # c
      <4>1. call'[x] = call[x]
        BY <2>3, <2>4, <3>2
      <4>2. IF call[x].pc = "new" THEN call[x].id = 0 ELSE call[x].id \in FirstLogId .. (next - 1)
        BY DEF LoopInv, IdsHandedOut
      <4> QED
        BY <1>1, <2>1, <4>1, <4>2
    <3> QED
      BY <3>1, <3>2
  <2>6. \A x \in Syncs : call'[x] = call[x] /\ call[x].id \in Int
    <3> TAKE x \in Syncs
    <3>1. x \in Calls \union Foreign /\ x # c
      BY <2>4 DEF Calls
    <3>2. call'[x] = call[x]
      BY <2>3, <3>1
    <3>3. call[x].id \in LogIds \union {-2, -1, 0}
      BY <3>1 DEF LoopInv, TypeOK
    <3> QED
      BY <3>2, <3>3, LogIdsBound
  <2> QED
    BY <1>1, <2>1, <2>2, <2>5, <2>6 DEF LoopInv, IdsHandedOut
<1>3. TypeOK'
  BY <1>1 DEF TypeOK, LoopInv, TakeLogId, loopVars, Writers, Calls
<1>4. PipelineInOrder'
  BY <1>1, LogIdsBound DEF PipelineInOrder, LoopInv, TypeOK, TakeLogId, loopVars
<1>5. /\ fetched \in Nat /\ applied \in Nat /\ to \in Nat /\ next \in Int /\ target \in Int
      /\ Len(list) \in Nat /\ Len(queue) \in Nat
      /\ target < next /\ (to = 0 \/ to <= target) /\ fetched <= to
      /\ applied + Len(queue) <= fetched - Len(list)
  BY PipelineTypes, LogIdsBound DEF LoopInv, TypeOK, PipelineInOrder
<1>6. \A i \in 1 .. Len(list) : list[i].id # next
  BY <1>5 DEF LoopInv, PipelineInOrder
<1>7. \A i \in 1 .. Len(queue) : queue[i] # next
  BY <1>5 DEF LoopInv, PipelineInOrder
<1>8. OnlyStoredPasses'
  BY <1>6, <1>7 DEF LoopInv, OnlyStoredPasses, TypeOK, TakeLogId, loopVars
<1>9. PromisesOwned' /\ AnswerAfterApply'
  BY DEF LoopInv, PromisesOwned, AnswerAfterApply, TypeOK, TakeLogId, Writers, Calls
<1> QED
  BY <1>2, <1>3, <1>4, <1>8, <1>9 DEF LoopInv

(* A step that leaves the log ids of the calls alone. *)
LEMMA IdsKept ==
  ASSUME LoopInv, next' = next,
         \A c \in Calls \union Foreign :
           /\ (call'[c].pc = "new") <=> (call[c].pc = "new")
           /\ call'[c].id = call[c].id
           /\ call'[c].pc = "sent" => call[c].pc = "sent"
  PROVE  IdsHandedOut'
<1>1. Writers \subseteq Calls \union Foreign /\ Syncs \subseteq Calls \union Foreign
  BY DEF Writers, Calls
<1>2. Placed' = Placed
  BY <1>1, PlacedStays
<1> QED
  BY <1>1, <1>2 DEF LoopInv, IdsHandedOut

LEMMA ReturnStep ==
  ASSUME LoopInv, NEW c \in Writers, ReturnLogId(c) \/ FailAppend(c)
  PROVE  LoopInv'
<1>0. c \in Calls \union Foreign
  BY DEF Writers, Calls
<1>1. PICK s \in {"done", "returned", "failed"} :
        /\ call' = [call EXCEPT ![c].pc = s]
        /\ s = "done" => c \in Foreign
  BY DEF ReturnLogId, FailAppend
<1>2. call[c].pc = "sent" /\ UNCHANGED <<logVars, target, loopVars, applied, promises>>
  BY DEF ReturnLogId, FailAppend
<1>3. TypeOK'
  BY <1>0, <1>1, <1>2 DEF LoopInv, TypeOK, logVars, loopVars
<1>4. IdsHandedOut'
  BY <1>0, <1>1, <1>2, IdsKept DEF LoopInv, TypeOK, logVars
<1>5. PipelineInOrder' /\ OnlyStoredPasses'
  BY <1>2 DEF LoopInv, PipelineInOrder, OnlyStoredPasses, logVars, loopVars
<1>6. PromisesOwned'
  BY <1>0, <1>1, <1>2 DEF LoopInv, PromisesOwned, TypeOK
<1>7. AnswerAfterApply'
  BY <1>0, <1>1, <1>2, LogStateMachineConstants DEF LoopInv, AnswerAfterApply, TypeOK, Calls
<1> QED
  BY <1>3, <1>4, <1>5, <1>6, <1>7 DEF LoopInv

(* append and sync register a promise for a log id that was handed out. *)
LEMMA WaitStep ==
  ASSUME LoopInv, NEW c \in Calls, AppendWait(c) \/ SyncWait(c)
  PROVE  LoopInv'
<1>1. /\ AwaitApplied(c) /\ call[c].pc = "returned"
      /\ UNCHANGED <<logVars, loopVars, applied>>
  BY DEF AppendWait, SyncWait
<1>2. call[c].id \in LogIds /\ call[c].id < next
  <2>1. CASE AppendWait(c)
    <3>1. c \in Writers /\ call[c].pc # "new"
      BY <2>1 DEF AppendWait, Writers
    <3>2. call[c].id \in FirstLogId .. (next - 1)
      BY <3>1 DEF LoopInv, IdsHandedOut
    <3> QED
      BY <3>2, LogIdsBound DEF LoopInv, TypeOK
  <2>2. CASE SyncWait(c)
    <3>1. c \in Syncs /\ call[c].id > applied /\ call[c].pc = "returned"
      BY <2>2 DEF SyncWait
    <3>2. call[c].id < next /\ call[c].id \in LogIds \union {-2, -1, 0} /\ applied \in Nat
      BY <3>1, PipelineTypes DEF LoopInv, IdsHandedOut, TypeOK
    <3> QED
      BY <3>1, <3>2, LogIdsBound
  <2> QED
    BY <2>1, <2>2
<1>3. TypeOK'
  BY <1>1, <1>2 DEF LoopInv, TypeOK, AwaitApplied, logVars, loopVars
<1>4. IdsHandedOut'
  BY <1>1, IdsKept DEF LoopInv, TypeOK, logVars, AwaitApplied
<1>5. target <= target' /\ target' < next' /\ target \in Int /\ target' \in Int
  BY <1>1, <1>2, LogIdsBound DEF LoopInv, PipelineInOrder, AwaitApplied, TypeOK, logVars
<1>6. PipelineInOrder'
  BY <1>1, <1>5, LogIdsBound DEF LoopInv, PipelineInOrder, TypeOK, loopVars
<1>7. OnlyStoredPasses'
  BY <1>1 DEF LoopInv, OnlyStoredPasses, logVars, loopVars
<1>8. PromisesOwned' /\ AnswerAfterApply'
  BY <1>1 DEF LoopInv, PromisesOwned, AnswerAfterApply, TypeOK, AwaitApplied, Calls
<1> QED
  BY <1>3, <1>4, <1>6, <1>7, <1>8 DEF LoopInv

LEMMA SyncStep ==
  ASSUME LoopInv, NEW c \in Syncs, Sync(c) \/ SyncDone(c)
  PROVE  LoopInv'
<1>1. PICK s \in {"returned", "done"}, n \in Int :
        /\ call' = [call EXCEPT ![c] = [pc |-> s, id |-> n]]
        /\ n < next /\ n \in LogIds \union {-2, -1, 0}
        /\ s = "done" => n <= applied
        /\ c \in Syncs
  <2>1. CASE Sync(c)
    <3>1. next - 2 \in Int /\ next - 2 < next /\ next - 2 \in LogIds \union {-2, -1, 0}
      BY LogIdsBound DEF LoopInv, TypeOK
    <3>2. LatestAppendPosition - 1 = next - 2
      BY LogIdsBound DEF LatestAppendPosition, LoopInv, TypeOK
    <3>3. call' = [call EXCEPT ![c] = [pc |-> "returned", id |-> next - 2]] /\ c \in Syncs
      BY <2>1, <3>2 DEF Sync
    <3> QED
      BY <3>1, <3>3
  <2>2. CASE SyncDone(c)
    <3>0. [call[c] EXCEPT !.pc = "done"] = [pc |-> "done", id |-> call[c].id]
      <4>1. call[c] \in [pc : {"new", "sent", "returned", "waiting", "done", "failed"},
                         id : LogIds \union {-2, -1, 0}]
        BY DEF LoopInv, TypeOK, Calls
      <4> QED
        BY <4>1
    <3>1. call' = [call EXCEPT ![c] = [pc |-> "done", id |-> call[c].id]] /\ c \in Syncs
      BY <2>2, <3>0 DEF SyncDone
    <3>2. call[c].id < next /\ call[c].id \in LogIds \union {-2, -1, 0} /\ call[c].id <= applied
      BY <2>2 DEF SyncDone, LoopInv, TypeOK, IdsHandedOut, Calls
    <3>3. call[c].id \in Int
      BY <3>2, LogIdsBound
    <3> QED
      BY <3>1, <3>2, <3>3
  <2> QED
    BY <2>1, <2>2
<1>2. UNCHANGED <<logVars, target, loopVars, applied, promises>>
  BY DEF Sync, SyncDone
<1>3. c \notin Writers /\ c \in Calls /\ Writers \subseteq Calls \union Foreign
  BY LogStateMachineConstants DEF Writers, Calls
<1>4. TypeOK'
  BY <1>1, <1>2, <1>3 DEF LoopInv, TypeOK, logVars, loopVars
<1>5. IdsHandedOut'
  <2>1. \A x \in Writers : call'[x] = call[x]
    BY <1>1, <1>3 DEF LoopInv, TypeOK
  <2>2. Placed' = Placed
    BY <2>1, PlacedStays
  <2> QED
    BY <1>1, <1>2, <2>1, <2>2 DEF LoopInv, IdsHandedOut, TypeOK, logVars, Calls
<1>6. PipelineInOrder' /\ OnlyStoredPasses'
  BY <1>2 DEF LoopInv, PipelineInOrder, OnlyStoredPasses, logVars, loopVars
<1>7. PromisesOwned'
  <2>1. call[c].pc # "waiting"
    BY DEF Sync, SyncDone
  <2> QED
    BY <1>1, <1>2, <1>3, <2>1 DEF LoopInv, PromisesOwned, TypeOK
<1>8. AnswerAfterApply'
  BY <1>1, <1>2, <1>3 DEF LoopInv, AnswerAfterApply, TypeOK, Calls
<1> QED
  BY <1>4, <1>5, <1>6, <1>7, <1>8 DEF LoopInv

(* The log stores an entry, or the producer learns how far it may go. *)
LEMMA StoreStep ==
  ASSUME LoopInv, NEW n \in LogIds, StoreEntry(n)
  PROVE  LoopInv'
<1>1. TypeOK'
  BY DEF StoreEntry, LoopInv, TypeOK, loopVars
<1>2. \A m \in LogIds : entry[m] = "stored" => entry'[m] = "stored"
  BY DEF StoreEntry, LoopInv, TypeOK
<1>3. OnlyStoredPasses'
  <2>1. \A i \in 1 .. Len(list) : list[i].id \in LogIds
    BY PipelineTypes
  <2>2. \A i \in 1 .. Len(queue) : queue[i] \in LogIds
    BY PipelineTypes
  <2> QED
    BY <1>2, <2>1, <2>2 DEF StoreEntry, LoopInv, OnlyStoredPasses, loopVars
<1>4. IdsHandedOut'
  BY IdsKept DEF StoreEntry
<1>5. PipelineInOrder'
  BY DEF StoreEntry, LoopInv, PipelineInOrder, loopVars
<1>6. PromisesOwned' /\ AnswerAfterApply'
  BY DEF StoreEntry, LoopInv, PromisesOwned, AnswerAfterApply
<1> QED
  BY <1>1, <1>3, <1>4, <1>5, <1>6 DEF LoopInv

LEMMA WakeStep ==
  ASSUME LoopInv, ProducerWake
  PROVE  LoopInv'
<1>1. to' \in LogIds
  BY LogIdsBound DEF ProducerWake, LoopInv, TypeOK
<1>2. TypeOK'
  BY <1>1 DEF ProducerWake, LoopInv, TypeOK, logVars
<1>3. PipelineInOrder'
  BY <1>1, LogIdsBound DEF ProducerWake, LoopInv, TypeOK, PipelineInOrder, logVars
<1>4. IdsHandedOut'
  BY IdsKept DEF ProducerWake, logVars
<1>5. OnlyStoredPasses' /\ PromisesOwned' /\ AnswerAfterApply'
  BY DEF ProducerWake, LoopInv, OnlyStoredPasses, PromisesOwned, AnswerAfterApply, logVars
<1> QED
  BY <1>2, <1>3, <1>4, <1>5 DEF LoopInv

(* add appends the log id after the last one fetched. *)
LEMMA AddStep ==
  ASSUME LoopInv, ProducerAdd
  PROVE  LoopInv'
<1>1. fetched' = fetched + 1 /\ fetched' \in LogIds /\ fetched' <= to
  BY LogIdsBound DEF ProducerAdd, LoopInv, TypeOK
<1>2. /\ list' \in Seq([id : LogIds, st : {"running", "value", "broken"}])
      /\ Len(list') = Len(list) + 1
      /\ \A i \in 1 .. Len(list) : list'[i] = list[i]
      /\ list'[Len(list) + 1] = [id |-> fetched + 1, st |-> "running"]
  <2>1. [id |-> fetched + 1, st |-> "running"]
          \in [id : LogIds, st : {"running", "value", "broken"}]
    BY <1>1
  <2> QED
    BY <2>1 DEF ProducerAdd, LoopInv, TypeOK
<1>3. TypeOK'
  BY <1>1, <1>2 DEF ProducerAdd, LoopInv, TypeOK, logVars
<1>4. PipelineInOrder'
  <2>0. Len(list) \in Nat /\ fetched \in Int /\ Len(queue) \in Nat /\ applied \in Int
    BY PipelineTypes
  <2>1. \A i \in 1 .. Len(list') : list'[i].id = fetched' - Len(list') + i
    <3> SUFFICES ASSUME NEW i \in 1 .. Len(list')
                 PROVE  list'[i].id = fetched' - Len(list') + i
      OBVIOUS
    <3>1. CASE i \in 1 .. Len(list)
      <4>1. list'[i].id = list[i].id /\ list[i].id = fetched - Len(list) + i
        BY <1>2, <3>1 DEF LoopInv, PipelineInOrder
      <4> QED
        BY <1>1, <1>2, <2>0, <4>1
    <3>2. CASE i = Len(list) + 1
      <4>1. list'[i].id = fetched + 1
        BY <1>2, <3>2
      <4> QED
        BY <1>1, <1>2, <2>0, <3>2, <4>1
    <3> QED
      BY <1>2, <2>0, <3>1, <3>2
  <2> QED
    BY <1>1, <1>2, <2>0, <2>1 DEF ProducerAdd, LoopInv, PipelineInOrder, logVars
<1>5. OnlyStoredPasses'
  <2>1. \A i \in 1 .. Len(list') : list'[i].st = "value" => i \in 1 .. Len(list)
    BY <1>2 DEF LoopInv, TypeOK
  <2> QED
    BY <1>2, <2>1 DEF ProducerAdd, LoopInv, OnlyStoredPasses, logVars
<1>6. IdsHandedOut'
  BY IdsKept DEF ProducerAdd, logVars
<1>7. PromisesOwned' /\ AnswerAfterApply'
  BY DEF ProducerAdd, LoopInv, PromisesOwned, AnswerAfterApply
<1> QED
  BY <1>3, <1>4, <1>5, <1>6, <1>7 DEF LoopInv

(* A read ends: the slot of its log id changes its state only. *)
LEMMA FetchStep ==
  ASSUME LoopInv, NEW i \in DOMAIN list, FetchEntry(i) \/ FetchMissing(i) \/ FetchFails(i)
  PROVE  LoopInv'
<1>1. PICK s \in {"value", "broken"} :
        /\ list' = [list EXCEPT ![i].st = s]
        /\ s = "value" => entry[list[i].id] = "stored"
  BY DEF FetchEntry, FetchMissing, FetchFails
<1>2. /\ UNCHANGED <<logVars, call, target, to, fetched, consuming, queue, applied, promises>>
      /\ readErrors' \in 0 .. MaxReadErrors
  BY LogStateMachineConstants DEF FetchEntry, FetchMissing, FetchFails, LoopInv, TypeOK
<1>3. /\ list' \in Seq([id : LogIds, st : {"running", "value", "broken"}])
      /\ Len(list') = Len(list)
      /\ \A j \in 1 .. Len(list) : list'[j].id = list[j].id
      /\ \A j \in 1 .. Len(list) : list'[j].st = IF j = i THEN s ELSE list[j].st
  <2>1. i \in 1 .. Len(list) /\ list[i] \in Slot /\ list \in Seq(Slot)
    BY PipelineTypes
  <2> DEFINE e == [list[i] EXCEPT !.st = s]
  <2>2. e \in Slot /\ e.id = list[i].id /\ e.st = s
    BY <2>1 DEF Slot
  <2>3. list' = [list EXCEPT ![i] = e]
    BY <1>1
  <2> HIDE DEF e
  <2>4. /\ list' \in Seq(Slot) /\ Len(list') = Len(list)
        /\ \A j \in 1 .. Len(list) : list'[j] = IF j = i THEN e ELSE list[j]
    BY <2>1, <2>2, <2>3, ExceptSeq
  <2> QED
    BY <2>2, <2>4 DEF Slot
<1>4. TypeOK'
  BY <1>2, <1>3 DEF LoopInv, TypeOK, logVars
<1>5. PipelineInOrder'
  BY <1>2, <1>3 DEF LoopInv, PipelineInOrder, logVars
<1>6. OnlyStoredPasses'
  BY <1>1, <1>2, <1>3 DEF LoopInv, OnlyStoredPasses, logVars
<1>7. IdsHandedOut'
  BY <1>2, IdsKept DEF logVars
<1>8. PromisesOwned' /\ AnswerAfterApply'
  BY <1>2 DEF LoopInv, PromisesOwned, AnswerAfterApply
<1> QED
  BY <1>4, <1>5, <1>6, <1>7, <1>8 DEF LoopInv

(* The front of list_ goes to the single thread, or ends the loop. *)
LEMMA ConsumeStep ==
  ASSUME LoopInv, Consume \/ ConsumeBroken
  PROVE  LoopInv'
<1>0. /\ list # <<>> /\ consuming /\ Len(list) \in Nat \ {0} /\ Len(queue) \in Nat
      /\ fetched \in Int /\ applied \in Int
  BY PipelineTypes, EmptySeq DEF Consume, ConsumeBroken
<1>1. /\ list' = Tail(list)
      /\ UNCHANGED <<logVars, call, target, to, fetched, applied, promises, readErrors>>
  BY DEF Consume, ConsumeBroken
<1>2. /\ list' \in Seq([id : LogIds, st : {"running", "value", "broken"}])
      /\ Len(list') = Len(list) - 1
      /\ \A i \in 1 .. Len(list') : list'[i] = list[i + 1]
  BY <1>0, <1>1, PipelineTypes, HeadTailProperties DEF Slot
<1>3. Head(list) = list[1] /\ list[1].id = fetched - Len(list) + 1 /\ list[1].id \in LogIds
  <2>1. 1 \in 1 .. Len(list)
    BY <1>0
  <2> QED
    BY <1>0, <2>1, PipelineTypes DEF LoopInv, PipelineInOrder
<1>4. /\ queue' \in Seq(LogIds) /\ Len(queue') \in Nat
      /\ Len(queue') = IF consuming' THEN Len(queue) + 1 ELSE Len(queue)
      /\ \A i \in 1 .. Len(queue) : queue'[i] = queue[i]
      /\ consuming' => queue'[Len(queue) + 1] = list[1].id /\ list[1].st = "value"
      /\ consuming' \in BOOLEAN
  <2>1. CASE Consume
    <3>1. /\ queue' = Append(queue, list[1].id) /\ consuming' = consuming
          /\ list[1].st = "value"
      BY <1>3, <2>1 DEF Consume
    <3>2. /\ queue' \in Seq(LogIds) /\ Len(queue') = Len(queue) + 1
          /\ \A i \in 1 .. Len(queue) : queue'[i] = queue[i]
          /\ queue'[Len(queue) + 1] = list[1].id
      BY <1>3, <3>1, PipelineTypes, AppendProperties
    <3> QED
      BY <1>0, <3>1, <3>2
  <2>2. CASE ConsumeBroken
    <3>1. queue' = queue /\ consuming' = FALSE
      BY <2>2 DEF ConsumeBroken
    <3> QED
      BY <1>0, <3>1, PipelineTypes
  <2> QED
    BY <2>1, <2>2
<1>5. TypeOK'
  BY <1>1, <1>2, <1>4 DEF LoopInv, TypeOK, logVars
<1>6. PipelineInOrder'
  <2>1. \A i \in 1 .. Len(list') : list'[i].id = fetched' - Len(list') + i
    BY <1>0, <1>1, <1>2 DEF LoopInv, PipelineInOrder
  <2>2. \A i \in 1 .. Len(queue') : queue'[i] = applied' + i
    <3>1. applied' = applied /\ applied + Len(queue) = fetched - Len(list)
      BY <1>0, <1>1 DEF LoopInv, PipelineInOrder
    <3>2. \A i \in 1 .. Len(queue) : queue'[i] = applied + i
      BY <1>4 DEF LoopInv, PipelineInOrder
    <3>3. consuming' => queue'[Len(queue) + 1] = applied + (Len(queue) + 1)
      BY <1>0, <1>3, <1>4, <3>1
    <3>4. \A i \in 1 .. Len(queue') : i \in 1 .. Len(queue) \/ (consuming' /\ i = Len(queue) + 1)
      BY <1>0, <1>4
    <3> QED
      BY <3>1, <3>2, <3>3, <3>4
  <2>3. /\ applied' + Len(queue') <= fetched' - Len(list')
        /\ consuming' => applied' + Len(queue') = fetched' - Len(list')
    <3>1. applied' = applied /\ fetched' = fetched /\ applied + Len(queue) = fetched - Len(list)
      BY <1>0, <1>1 DEF LoopInv, PipelineInOrder
    <3> QED
      BY <1>0, <1>2, <1>4, <3>1
  <2> QED
    BY <1>1, <2>1, <2>2, <2>3 DEF LoopInv, PipelineInOrder, logVars
<1>7. OnlyStoredPasses'
  <2>1. \A i \in 1 .. Len(list') : list'[i].st = "value" => entry'[list'[i].id] = "stored"
    BY <1>0, <1>1, <1>2 DEF LoopInv, OnlyStoredPasses, logVars
  <2>2. \A i \in 1 .. Len(queue') : entry'[queue'[i]] = "stored"
    BY <1>0, <1>1, <1>4 DEF LoopInv, OnlyStoredPasses, logVars
  <2> QED
    BY <2>1, <2>2 DEF OnlyStoredPasses
<1>8. IdsHandedOut'
  BY <1>1, IdsKept DEF logVars
<1>9. PromisesOwned' /\ AnswerAfterApply'
  BY <1>1 DEF LoopInv, PromisesOwned, AnswerAfterApply
<1> QED
  BY <1>5, <1>6, <1>7, <1>8, <1>9 DEF LoopInv

(* The single thread applies the log id after the last one. *)
LEMMA ApplyNext ==
  ASSUME LoopInv, Apply
  PROVE  /\ Head(queue) = applied + 1 /\ applied' = applied + 1
         /\ applied + 1 \in LogIds /\ entry[applied + 1] = "stored"
         /\ Len(queue) \in Nat \ {0} /\ applied \in Nat
         /\ queue' \in Seq(LogIds) /\ Len(queue') = Len(queue) - 1
         /\ \A i \in 1 .. Len(queue') : queue'[i] = queue[i + 1]
<1>1. queue # <<>> /\ applied' = Head(queue) /\ queue' = Tail(queue)
  BY DEF Apply
<1>2. Len(queue) \in Nat \ {0} /\ Head(queue) = queue[1] /\ queue[1] \in LogIds
  BY <1>1 DEF LoopInv, TypeOK
<1>3. queue[1] = applied + 1 /\ entry[queue[1]] = "stored"
  BY <1>2 DEF LoopInv, PipelineInOrder, OnlyStoredPasses
<1>4. /\ queue' \in Seq(LogIds) /\ Len(queue') = Len(queue) - 1
      /\ \A i \in 1 .. Len(queue') : queue'[i] = queue[i + 1]
  BY <1>1, <1>2 DEF LoopInv, TypeOK
<1>5. applied \in Nat
  BY LogIdsBound DEF LoopInv, TypeOK
<1> QED
  BY <1>1, <1>2, <1>3, <1>4, <1>5

LEMMA ApplyStep ==
  ASSUME LoopInv, Apply
  PROVE  LoopInv'
<1> DEFINE answered == {p[2] : p \in Fulfilled(Head(queue))}
<1>1. /\ UNCHANGED <<logVars, target, to, fetched, list, consuming, readErrors>>
      /\ promises' = promises \ Fulfilled(Head(queue))
      /\ call' = [c \in DOMAIN call |-> IF c \in answered
                    THEN [call[c] EXCEPT !.pc = "done"] ELSE call[c]]
  BY DEF Apply
<1>2. \A c \in answered : /\ c \in Calls /\ call[c].pc = "waiting"
                          /\ call[c].id = applied + 1
  BY ApplyNext DEF Fulfilled, LoopInv, PromisesOwned, TypeOK
<1>3. TypeOK'
  <2>1. call' \in [Calls \union Foreign ->
               [pc : {"new", "sent", "returned", "waiting", "done", "failed"},
                id : LogIds \union {-2, -1, 0}]]
    BY <1>1 DEF LoopInv, TypeOK
  <2> QED
    BY <1>1, <2>1, ApplyNext DEF LoopInv, TypeOK, logVars
<1>4. \A c \in Calls \union Foreign :
        /\ call'[c].id = call[c].id
        /\ call'[c].pc = IF c \in answered THEN "done" ELSE call[c].pc
  BY <1>1 DEF LoopInv, TypeOK
<1>5. IdsHandedOut'
  BY <1>1, <1>2, <1>4, IdsKept DEF logVars
<1>6. PipelineInOrder'
  <2>1. \A i \in 1 .. Len(queue') : queue'[i] = applied' + i
    <3>1. \A i \in 1 .. Len(queue) : queue[i] = applied + i
      BY DEF LoopInv, PipelineInOrder
    <3>2. /\ applied' = applied + 1 /\ applied \in Nat /\ Len(queue) \in Nat \ {0}
          /\ Len(queue') = Len(queue) - 1
          /\ \A i \in 1 .. Len(queue') : queue'[i] = queue[i + 1]
      BY ApplyNext
    <3> QED
      BY <3>1, <3>2
  <2>2. applied' + Len(queue') = applied + Len(queue)
    <3>1. /\ applied' = applied + 1 /\ applied \in Nat /\ Len(queue) \in Nat \ {0}
          /\ Len(queue') = Len(queue) - 1
      BY ApplyNext
    <3> QED
      BY <3>1
  <2> QED
    BY <1>1, <2>1, <2>2 DEF LoopInv, PipelineInOrder, logVars
<1>7. OnlyStoredPasses'
  BY <1>1, ApplyNext DEF LoopInv, OnlyStoredPasses, logVars
<1>8. PromisesOwned'
  <2> SUFFICES ASSUME NEW p \in promises' PROVE call'[p[2]].pc = "waiting" /\ call'[p[2]].id = p[1]
    BY DEF PromisesOwned
  <2>1. p \in promises /\ p[1] # applied + 1 /\ p[2] \in Calls
    BY <1>1, ApplyNext DEF Fulfilled, LoopInv, TypeOK
  <2>2. call[p[2]].pc = "waiting" /\ call[p[2]].id = p[1]
    BY <2>1 DEF LoopInv, PromisesOwned
  <2>3. p[2] \notin answered
    BY <1>2, <2>1, <2>2
  <2> QED
    BY <1>4, <2>1, <2>2, <2>3
<1>9. AnswerAfterApply'
  <2> SUFFICES ASSUME NEW c \in Calls, call'[c].pc = "done" PROVE call'[c].id <= applied'
    BY DEF AnswerAfterApply
  <2>1. CASE c \in answered
    BY <1>2, <1>4, <2>1, ApplyNext
  <2>2. CASE c \notin answered
    <3>1. call[c].id <= applied
      BY <1>4, <2>2 DEF LoopInv, AnswerAfterApply
    <3>2. call[c].id \in LogIds \union {-2, -1, 0}
      BY DEF LoopInv, TypeOK
    <3>3. call[c].id \in Int
      BY <3>2, LogIdsBound
    <3> QED
      BY <1>4, <3>1, <3>3, ApplyNext
  <2> QED
    BY <2>1, <2>2
<1> QED
  BY <1>3, <1>5, <1>6, <1>7, <1>8, <1>9 DEF LoopInv

LEMMA LoopInductive == LoopInv /\ [Next]_vars => LoopInv'
<1> SUFFICES ASSUME LoopInv, [Next]_vars PROVE LoopInv'
  OBVIOUS
<1>1. CASE UNCHANGED vars
  <2>1. Placed' = Placed
    BY <1>1 DEF vars, Placed
  <2> QED
    BY <1>1, <2>1 DEF vars, LoopInv, TypeOK, IdsHandedOut, PipelineInOrder, OnlyStoredPasses,
                      PromisesOwned, AnswerAfterApply
<1>2. CASE Next
  BY <1>2, TakeStep, StoreStep, ReturnStep, WaitStep, SyncStep, WakeStep, AddStep, FetchStep,
     ConsumeStep, ApplyStep
  DEF Next, Writers, Calls
<1> QED
  BY <1>1, <1>2

LEMMA LoopInvHolds == Spec => []LoopInv
BY InitLoop, LoopInductive, PTL DEF Spec

(* Every entry is applied in log order, without a gap and readable, although
   the reads of the producer loop overlap and end in any order (the assertion
   of VirtualLogStateMachine's consumeLoop). *)
THEOREM EntriesAppliedInOrder == Spec => AppliesNext
<1>1. LoopInv /\ [Next]_vars
        => [applied' # applied => applied' = applied + 1 /\ entry[applied'] = "stored"]_vars
  <2> SUFFICES ASSUME LoopInv, [Next]_vars, applied' # applied
               PROVE  applied' = applied + 1 /\ entry[applied'] = "stored"
    OBVIOUS
  <2>1. Apply
    BY DEF Next, vars, TakeLogId, StoreEntry, ReturnLogId, FailAppend, AppendWait, Sync,
           SyncDone, SyncWait, ProducerWake, ProducerAdd, FetchEntry, FetchMissing, FetchFails,
           Consume, ConsumeBroken
  <2> QED
    BY <2>1, ApplyNext
<1> QED
  BY <1>1, LoopInvHolds, PTL DEF Spec, AppliesNext

-----------------------------------------------------------------------------
(* Promises lie ahead of what is applied *)

Active(c) == call[c].pc \in {"sent", "returned", "waiting"}

(* At most one call of the node is under way, and while an append waits for
   the log nobody raises the target to its log id. *)
OneCallAtATime ==
  /\ \A c, d \in Calls : Active(c) /\ Active(d) => c = d
  /\ \A c \in Appends : call[c].pc \in {"sent", "returned"} => target < call[c].id

SerialInv == (SerialCalls => OneCallAtATime) /\ WaitersAhead

(* What was applied was asked for. *)
LEMMA AppliedAskedFor ==
  ASSUME LoopInv
  PROVE  applied = 0 \/ applied <= target
<1>1. /\ applied + Len(queue) <= fetched - Len(list) /\ fetched <= to
      /\ to = 0 \/ to <= target
  BY DEF LoopInv, PipelineInOrder
<1>2. /\ Len(list) \in Nat /\ Len(queue) \in Nat /\ fetched \in Nat /\ applied \in Nat
      /\ to \in Nat
  BY PipelineTypes
<1>3. target \in Int
  BY LogIdsBound DEF LoopInv, TypeOK
<1> QED
  BY <1>1, <1>2, <1>3

(* A step that starts no call, raises no target and adds no promise. *)
LEMMA SerialKept ==
  ASSUME LoopInv, SerialInv, target' = target, promises' \subseteq promises, applied' = applied,
         \A c \in Calls : /\ call'[c].id = call[c].id
                          /\ Active(c)' => Active(c)
                          /\ call'[c].pc \in {"sent", "returned"}
                               => call[c].pc \in {"sent", "returned"}
  PROVE  SerialInv'
BY DEF SerialInv, OneCallAtATime, WaitersAhead, Calls

LEMMA SerialTake ==
  ASSUME LoopInv, SerialInv, NEW c \in Writers, TakeLogId(c)
  PROVE  SerialInv'
<1>1. \A x \in Calls \union Foreign :
        call'[x] = IF x = c THEN [pc |-> "sent", id |-> next] ELSE call[x]
  BY DEF TakeLogId, LoopInv, TypeOK
<1>2. target' = target /\ target < next /\ promises' = promises /\ applied' = applied
  BY DEF TakeLogId, LoopInv, PipelineInOrder
<1>3. CASE c \in Appends /\ SerialCalls
  <2>1. \A d \in Calls : ~Active(d)
    BY <1>3 DEF TakeLogId, MayCall, Active
  <2>2. \A d \in Calls : Active(d)' => d = c
    BY <1>1, <2>1 DEF Active
  <2>3. \A d \in Appends : call'[d].pc \in {"sent", "returned"} => target' < call'[d].id
    <3> SUFFICES ASSUME NEW d \in Appends, call'[d].pc \in {"sent", "returned"}
                 PROVE  target' < call'[d].id
      OBVIOUS
    <3>1. d = c
      BY <2>2 DEF Active, Calls
    <3> QED
      BY <1>1, <1>2, <3>1 DEF Calls
  <2> QED
    BY <1>2, <2>2, <2>3 DEF SerialInv, OneCallAtATime, WaitersAhead
<1>4. CASE c \notin Appends
  <2>1. \A d \in Calls : call'[d] = call[d]
    BY <1>1, <1>4, LogStateMachineConstants DEF Writers, Calls
  <2> QED
    BY <1>2, <2>1, SerialKept DEF Active
<1>5. CASE ~SerialCalls
  BY <1>2, <1>5 DEF SerialInv, WaitersAhead
<1> QED
  BY <1>3, <1>4, <1>5

LEMMA SerialSync ==
  ASSUME LoopInv, SerialInv, NEW c \in Syncs, Sync(c)
  PROVE  SerialInv'
<1>1. \A x \in Calls : x # c => call'[x] = call[x]
  BY DEF Sync, LoopInv, TypeOK
<1>2. WaitersAhead'
  BY DEF Sync, SerialInv, WaitersAhead
<1>3. ASSUME SerialCalls PROVE OneCallAtATime'
  <2>1. \A d \in Calls : ~Active(d)
    BY <1>3 DEF Sync, MayCall, Active
  <2>2. \A d \in Calls : Active(d)' => d = c
    BY <1>1, <2>1 DEF Active
  <2>3. \A d \in Appends : call'[d].pc \notin {"sent", "returned"}
    BY <1>1, <2>1, LogStateMachineConstants DEF Active, Calls
  <2> QED
    BY <2>2, <2>3 DEF OneCallAtATime
<1> QED
  BY <1>2, <1>3 DEF SerialInv

LEMMA SerialWait ==
  ASSUME LoopInv, SerialInv, NEW c \in Calls, AppendWait(c) \/ SyncWait(c)
  PROVE  SerialInv'
<1>1. AwaitApplied(c) /\ call[c].pc = "returned" /\ applied' = applied
  BY DEF AppendWait, SyncWait
<1>2. \/ call[c].id > applied
      \/ c \in Appends /\ (call[c].id = 0 \/ ~SerialCalls)
  <2>1. CASE AppendWait(c) /\ SerialCalls
    <3>1. c \in Appends /\ target < call[c].id /\ call[c].id \in FirstLogId .. (next - 1)
      BY <1>1, <2>1 DEF AppendWait, SerialInv, OneCallAtATime, LoopInv, IdsHandedOut, Writers
    <3>2. target \in Int /\ next \in Int /\ applied \in Nat /\ FirstLogId \in {0, 1}
      BY LogIdsBound, PipelineTypes DEF LoopInv, TypeOK
    <3>3. call[c].id \in Nat
      BY <3>1, <3>2
    <3> QED
      BY <3>1, <3>2, <3>3, AppliedAskedFor
  <2>2. CASE SyncWait(c)
    BY <2>2 DEF SyncWait
  <2>3. CASE AppendWait(c) /\ ~SerialCalls
    BY <2>3 DEF AppendWait
  <2> QED
    BY <2>1, <2>2, <2>3
<1>3. WaitersAhead'
  BY <1>1, <1>2 DEF AwaitApplied, SerialInv, WaitersAhead
<1>4. \A x \in Calls : call'[x] = IF x = c THEN [call[c] EXCEPT !.pc = "waiting"] ELSE call[x]
  BY <1>1 DEF AwaitApplied, LoopInv, TypeOK
<1>5. Active(c) /\ call'[c].pc = "waiting"
  BY <1>1, <1>4 DEF Active, LoopInv, TypeOK
<1>6. \A d \in Calls : Active(d)' => Active(d)
  BY <1>4, <1>5 DEF Active
<1>7. ASSUME SerialCalls
      PROVE  \A d \in Appends : call'[d].pc \notin {"sent", "returned"}
  <2> SUFFICES ASSUME NEW d \in Appends, call'[d].pc \in {"sent", "returned"} PROVE FALSE
    OBVIOUS
  <2>1. d # c /\ d \in Calls
    BY <1>5 DEF Calls
  <2>2. Active(d)
    BY <1>4, <2>1 DEF Active
  <2> QED
    BY <1>5, <1>7, <2>1, <2>2 DEF SerialInv, OneCallAtATime
<1> QED
  BY <1>3, <1>6, <1>7 DEF SerialInv, OneCallAtATime

LEMMA SerialApply ==
  ASSUME LoopInv, SerialInv, Apply
  PROVE  SerialInv'
<1>1. /\ applied' = applied + 1 /\ Head(queue) = applied + 1 /\ applied \in Nat
      /\ promises' = promises \ Fulfilled(Head(queue)) /\ target' = target
  BY ApplyNext DEF Apply
<1>2. WaitersAhead'
  <2> SUFFICES ASSUME NEW p \in promises'
               PROVE  p[1] > applied' \/ (p[2] \in Appends /\ (p[1] = 0 \/ ~SerialCalls))
    BY DEF WaitersAhead
  <2>1. /\ p[1] > applied \/ (p[2] \in Appends /\ (p[1] = 0 \/ ~SerialCalls))
        /\ p[1] # applied + 1
    BY <1>1 DEF Fulfilled, SerialInv, WaitersAhead
  <2>2. p[1] \in Int
    BY <1>1, LogIdsBound DEF LoopInv, TypeOK
  <2> QED
    BY <1>1, <2>1, <2>2
<1>3. \A c \in Calls : call'[c] = call[c] \/ call'[c] = [call[c] EXCEPT !.pc = "done"]
  BY DEF Apply, LoopInv, TypeOK
<1>4. \A c \in Calls : /\ call'[c].pc = call[c].pc \/ call'[c].pc = "done"
                       /\ call'[c].id = call[c].id
  <2> TAKE c \in Calls
  <2>1. call[c] \in [pc : {"new", "sent", "returned", "waiting", "done", "failed"},
                     id : LogIds \union {-2, -1, 0}]
    BY DEF LoopInv, TypeOK
  <2> QED
    BY <1>3, <2>1
<1> QED
  BY <1>1, <1>2, <1>4 DEF SerialInv, OneCallAtATime, Active, Calls

LEMMA SerialReturn ==
  ASSUME LoopInv, SerialInv, NEW c \in Writers, ReturnLogId(c) \/ FailAppend(c)
  PROVE  SerialInv'
<1>1. \A x \in Calls : /\ call'[x].id = call[x].id
                       /\ call'[x].pc # call[x].pc
                            => call[x].pc = "sent" /\ call'[x].pc # "sent"
  <2>1. PICK s \in {"done", "returned", "failed"} : call' = [call EXCEPT ![c].pc = s]
    BY DEF ReturnLogId, FailAppend
  <2>2. call[c].pc = "sent"
    BY DEF ReturnLogId, FailAppend
  <2> QED
    BY <2>1, <2>2 DEF LoopInv, TypeOK
<1>2. target' = target /\ promises' = promises /\ applied' = applied
  BY DEF ReturnLogId, FailAppend
<1> QED
  BY <1>1, <1>2, SerialKept DEF Active

LEMMA SerialSyncDone ==
  ASSUME LoopInv, SerialInv, NEW c \in Syncs, SyncDone(c)
  PROVE  SerialInv'
<1>1. \A x \in Calls : /\ call'[x].id = call[x].id
                       /\ call'[x].pc # call[x].pc => call'[x].pc = "done"
  BY DEF SyncDone, LoopInv, TypeOK
<1>2. target' = target /\ promises' = promises /\ applied' = applied
  BY DEF SyncDone
<1> QED
  BY <1>1, <1>2, SerialKept DEF Active

LEMMA SerialInductive ==
  ASSUME LoopInv, SerialInv, [Next]_vars
  PROVE  SerialInv'
<1>1. CASE /\ call' = call /\ target' = target /\ promises' = promises /\ applied' = applied
  BY <1>1, SerialKept DEF Active
<1>2. CASE \E c \in Writers : TakeLogId(c)
  BY <1>2, SerialTake
<1>3. CASE \E c \in Writers : ReturnLogId(c) \/ FailAppend(c)
  BY <1>3, SerialReturn
<1>4. CASE \E c \in Syncs : Sync(c)
  BY <1>4, SerialSync
<1>5. CASE \E c \in Syncs : SyncDone(c)
  BY <1>5, SerialSyncDone
<1>6. CASE \E c \in Calls : AppendWait(c) \/ SyncWait(c)
  BY <1>6, SerialWait
<1>7. CASE Apply
  BY <1>7, SerialApply
<1> QED
  BY <1>1, <1>2, <1>3, <1>4, <1>5, <1>6, <1>7
  DEF Next, vars, Writers, Calls, StoreEntry, ProducerWake, ProducerAdd, FetchEntry,
      FetchMissing, FetchFails, Consume, ConsumeBroken

(* For a log that starts at 0 or 1, no promise of a sync is registered at or
   below lastAppliedLogId_, where it would never be fulfilled, and none of an
   append is but the one of log id 0, when a mutex keeps the node's calls apart
   as CounterApp's does; and no promise is fulfilled before its entry is
   applied, with or without the mutex. *)
THEOREM PromisesNeverMissed == Spec => []PromisesFollowApply
<1>1. Init => SerialInv
  BY DEF Init, SerialInv, OneCallAtATime, WaitersAhead, Active, Calls
<1>2. LoopInv /\ SerialInv /\ [Next]_vars => SerialInv'
  BY SerialInductive
<1>3. LoopInv /\ SerialInv => PromisesFollowApply
  BY DEF LoopInv, SerialInv, PromisesFollowApply
<1> QED
  BY <1>1, <1>2, <1>3, LoopInvHolds, PTL DEF Spec
=============================================================================
