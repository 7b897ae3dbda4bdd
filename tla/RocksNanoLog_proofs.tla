------------------------- MODULE RocksNanoLog_proofs -------------------------
(***************************************************************************)
(* Proofs about a segment kept in RocksDB for any range of log ids, any    *)
(* set of re-replicated ones and any number of calls in flight and faults. *)
(***************************************************************************)
EXTENDS RocksNanoLog, OperatorLemmas, FiniteSetTheorems, SequenceTheorems

Pcs == {"new", "cache", "get", "put", "lock", "putEnd", "flushEnd", "await",
        "acked", "failed"}
Ends   == StartIndex .. (MaxIndex + 1)
Queues == [cur : Ends, pend : SUBSET Indices]
OpenLog(l) ==
  /\ DOMAIN l = {"open", "sealed", "sealDirty", "end", "endDirty", "queue", "read"}
  /\ l.open
  /\ l.end \in Ends \union {EndOfLog}
  /\ l.queue \in Queues
  /\ l.read \subseteq Ends
History(h) ==
  /\ DOMAIN h = {"added", "fulfilled", "jumped", "twice", "torn"}
  /\ h.added \subseteq Indices /\ h.fulfilled \subseteq Indices /\ h.jumped \in Int
Holding == {"putEnd", "flushEnd"}

(* The object, its calls and its keys in the store. *)
Shape ==
  /\ log = NoLog \/ OpenLog(log)
  /\ DOMAIN call = Calls
  /\ \A c \in Calls : /\ call[c].pc \in Pcs
                      /\ call[c].pc \in Holding => call[c].arg \in Ends
  /\ sealer \in {"idle", "put", "flush", "sealed"}
  /\ faults \in 0 .. MaxFaults
  /\ History(seen)
  /\ DOMAIN kv = {"mem", "kept"} /\ kv.mem \in kv.kept

(* Nothing runs without an object; an object has made its keys. *)
OpenOrIdle ==
  /\ log.open => /\ EndKey \in DOMAIN kv.mem /\ SealKey \in DOMAIN kv.mem
                 /\ kv.mem[EndKey] \in Ends
  /\ ~log.open => /\ seen = Fresh /\ sealer = "idle"
                  /\ \A c \in Calls : call[c].pc \in {"new", "acked", "failed"}

(* mtx_ is held by the one call that writes the end index. *)
OneHolder ==
  /\ lock = {} \/ \E c \in Calls : lock = {c}
  /\ \A c \in Calls : c \in lock <=> call[c].pc \in Holding

Accounted(j) == j \in seen.added \/ j <= seen.jumped
AccountedBelow(n) == \A j \in StartIndex .. (n - 1) : Accounted(j)

(* Whatever the queue, the store or a call takes for complete is accounted
   for. *)
Accounting ==
  /\ log.open => /\ log.queue.pend \subseteq seen.added
                 /\ AccountedBelow(log.queue.cur)
                 /\ AccountedBelow(kv.mem[EndKey])
  /\ \A c \in Calls : call[c].pc \in Holding => AccountedBelow(call[c].arg)

(* The call that holds mtx_ is about to bring the end index in the store to
   where the walk over the queue ends. *)
CutFollows ==
  /\ \A c \in lock : IF c.bare THEN /\ call[c].arg = EligibleEnd(log.queue)
                                    /\ call[c].arg > log.queue.cur
                               ELSE seen.jumped >= StartIndex
  /\ \A c \in Calls : call[c].pc = "flushEnd" => kv.mem[EndKey] = call[c].arg
  /\ log.open /\ lock = {} /\ seen.jumped < StartIndex /\ ~seen.torn
       => kv.mem[EndKey] = log.queue.cur

NanoLogInv ==
  /\ Shape /\ OpenOrIdle /\ OneHolder
  /\ Accounting /\ NoAckPastHole /\ CutFollows
  /\ WaiterQueued /\ BlockedOnlyByRace

(* Has a trim deleted the log id, as AckedSurvivesCrash allows? *)
TrimmedAway(n) == \E t \in trims : n < t \/ Len(Digits[n]) > Len(Digits[t])

(* The entry of a call that has written it is in the store, and on disk from
   the flush of its end index on. *)
EntriesFlushed ==
  \A c \in Calls :
    /\ call[c].pc \in {"lock", "putEnd", "flushEnd"}
         => LogKey(c.id) \in DOMAIN kv.mem \/ TrimmedAway(c.id)
    /\ call[c].pc \in {"await", "acked"} /\ ~c.bare
         => (\A m \in kv.kept : LogKey(c.id) \in DOMAIN m) \/ TrimmedAway(c.id)

-----------------------------------------------------------------------------
(* The store and the calls *)

LEMMA PutFacts ==
  ASSUME NEW db, NEW key, NEW value, NEW d, d = KvPut(db, key, value)
  PROVE  /\ DOMAIN d.mem = DOMAIN db.mem \union {key}
         /\ d.mem[key] = value
         /\ \A k \in DOMAIN db.mem : k # key => d.mem[k] = db.mem[k]
         /\ DOMAIN d = {"mem", "kept"} /\ d.kept = db.kept \union {d.mem}
BY DEF KvPut, Written

LEMMA DeleteFacts ==
  ASSUME NEW db, NEW keys, NEW d, d = DeleteKeys(db, keys)
  PROVE  /\ DOMAIN d.mem = DOMAIN db.mem \ keys
         /\ \A k \in DOMAIN db.mem : k \notin keys => d.mem[k] = db.mem[k]
         /\ DOMAIN d = {"mem", "kept"} /\ d.kept = db.kept \union {d.mem}
BY DEF DeleteKeys, Written

LEMMA FlushFacts ==
  ASSUME NEW db, DOMAIN db = {"mem", "kept"}, NEW d, d = FlushWal(db)
  PROVE  DOMAIN d = {"mem", "kept"} /\ d.mem = db.mem /\ d.kept = {db.mem}
BY DEF FlushWal

LEMMA KeysApart ==
  /\ SealKey # EndKey
  /\ \A n \in Indices : LogKey(n) # SealKey /\ LogKey(n) # EndKey
  /\ \A m, n \in Indices : LogKey(m) = LogKey(n) => m = n
BY DEF SealKey, EndKey, LogKey

LEMMA CallFacts ==
  ASSUME NEW c \in Calls
  PROVE  c.id \in Indices /\ c.id \in StartIndex .. MaxIndex /\ c.id \in Nat
<1>1. PICK n \in Indices : \E s, b \in BOOLEAN : c = [id |-> n, skip |-> s, bare |-> b]
  BY RocksNanoLogConstants DEF Calls, Indices
<1>2. c.id = n
  BY <1>1
<1> QED
  BY <1>2, RocksNanoLogConstants DEF Indices

(* The queue of an open object. *)
LEMMA OpenFacts ==
  ASSUME Shape, log.open
  PROVE  /\ OpenLog(log) /\ log.queue \in Queues
         /\ QueueOver(log.queue, StartIndex, MaxIndex)
         /\ log.queue = [cur |-> log.queue.cur, pend |-> log.queue.pend]
<1>1. OpenLog(log) /\ log.queue \in Queues
  <2>1. log # NoLog
    BY DEF NoLog
  <2>2. OpenLog(log)
    BY <2>1 DEF Shape
  <2> QED
    BY <2>2 DEF OpenLog
<1>2. QueueOver(log.queue, StartIndex, MaxIndex)
  BY <1>1, RocksNanoLogConstants DEF Queues, QueueOver, Ends, Indices
<1>3. log.queue = [cur |-> log.queue.cur, pend |-> log.queue.pend]
  BY <1>1 DEF Queues
<1> QED
  BY <1>1, <1>2, <1>3

LEMMA RunningOpen ==
  ASSUME NanoLogInv, NEW c \in Calls, call[c].pc \notin {"new", "acked", "failed"}
  PROVE  log.open
BY DEF NanoLogInv, OpenOrIdle

-----------------------------------------------------------------------------
(* Steps that leave the completion queue and the end index alone *)

Early == {"new", "cache", "get", "put"}

LEMMA LightStep ==
  ASSUME NanoLogInv, log.open, OpenLog(log'), log'.queue = log.queue,
         lock' = lock, DOMAIN call' = Calls,
         \A c \in Calls : \/ call'[c] = call[c]
                          \/ /\ call[c].pc \in Early
                             /\ call'[c].pc \in {"cache", "get", "put", "lock", "failed"},
         sealer' \in {"idle", "put", "flush", "sealed"}, faults' \in 0 .. MaxFaults,
         History(seen'), seen'.added = seen.added, seen'.fulfilled = seen.fulfilled,
         seen'.jumped = seen.jumped, seen'.twice = seen.twice, seen'.torn = seen.torn,
         DOMAIN kv' = {"mem", "kept"}, kv'.mem \in kv'.kept, EndKey \in DOMAIN kv'.mem, SealKey \in DOMAIN kv'.mem,
         kv'.mem[EndKey] = kv.mem[EndKey]
  PROVE  NanoLogInv'
<1>1. log'.open
  BY DEF OpenLog
<1>2. \A c \in Calls : call'[c].pc \in Holding \union {"await"}
                       => call'[c] = call[c]
  BY DEF Holding
<1>3. \A c \in Calls : call[c].pc \in Holding \union {"await"}
                       => call'[c] = call[c]
  BY DEF Holding, Early
<1>4. Shape'
  BY <1>2 DEF NanoLogInv, Shape, Pcs, Holding
<1>5. OpenOrIdle'
  BY <1>1 DEF NanoLogInv, OpenOrIdle
<1>6. OneHolder'
  BY <1>2, <1>3 DEF NanoLogInv, OneHolder
<1>7. \A j : Accounted(j)' <=> Accounted(j)
  BY DEF Accounted
<1>8. Accounting'
  BY <1>2, <1>7 DEF NanoLogInv, Accounting, AccountedBelow
<1>9. NoAckPastHole' /\ BlockedOnlyByRace'
  BY DEF NanoLogInv, NoAckPastHole, BlockedOnlyByRace
<1>10. WaiterQueued'
  BY <1>2 DEF NanoLogInv, WaiterQueued
<1>11. CutFollows'
  <2>1. \A c \in lock' : c \in Calls /\ call'[c] = call[c]
    BY <1>3 DEF NanoLogInv, OneHolder
  <2>2. \A c \in Calls : call'[c].pc = "flushEnd" => kv'.mem[EndKey] = call'[c].arg
    BY <1>2 DEF NanoLogInv, CutFollows, Holding
  <2> QED
    BY <2>1, <2>2 DEF NanoLogInv, CutFollows
<1> QED
  BY <1>4, <1>5, <1>6, <1>8, <1>9, <1>10, <1>11 DEF NanoLogInv

(* A step of one call. *)
LEMMA StepFacts ==
  ASSUME Shape, NEW c \in Calls, NEW pc, NEW arg, Step(c, pc, arg)
  PROVE  /\ DOMAIN call' = Calls
         /\ call'[c].pc = pc /\ call'[c].arg = arg
         /\ \A x \in Calls : x # c => call'[x] = call[x]
BY DEF Shape, Step

(* What every light step needs of the state it starts from. *)
LEMMA OpenState ==
  ASSUME NanoLogInv, log.open
  PROVE  /\ OpenLog(log) /\ History(seen) /\ Shape
         /\ sealer \in {"idle", "put", "flush", "sealed"} /\ faults \in 0 .. MaxFaults
         /\ DOMAIN kv = {"mem", "kept"} /\ kv.mem \in kv.kept
         /\ EndKey \in DOMAIN kv.mem /\ SealKey \in DOMAIN kv.mem
         /\ kv.mem[EndKey] \in Ends /\ DOMAIN call = Calls
BY OpenFacts DEF NanoLogInv, Shape, OpenOrIdle

LEMMA SealTestStep ==
  ASSUME NanoLogInv, NEW c \in Calls, TestSeal(c) \/ ReadSeal(c) \/ TestFree(c)
  PROVE  NanoLogInv'
<1>1. log.open
  BY RunningOpen DEF TestSeal, ReadSeal, TestFree
<1>2. UNCHANGED <<kv, log, lock, sealer, faults, seen, trims>>
  BY DEF TestSeal, ReadSeal, TestFree
<1>3. call[c].pc \in Early
  BY DEF TestSeal, ReadSeal, TestFree, Early
<1>4. \E pc \in {"cache", "get", "put", "failed"}, arg \in {0, kv.mem[SealKey]} : Step(c, pc, arg)
  BY DEF TestSeal, ReadSeal, TestFree, AfterSealTest
<1>5. /\ DOMAIN call' = Calls /\ call'[c].pc \in {"cache", "get", "put", "failed"}
      /\ \A x \in Calls : x # c => call'[x] = call[x]
  BY <1>1, <1>4, StepFacts, OpenState
<1>6. \A x \in Calls : \/ call'[x] = call[x]
                       \/ /\ call[x].pc \in Early
                          /\ call'[x].pc \in {"cache", "get", "put", "lock", "failed"}
  BY <1>3, <1>5
<1> QED
  BY <1>1, <1>2, <1>5, <1>6, LightStep, OpenState

LEMMA CacheSealStep ==
  ASSUME NanoLogInv, NEW c \in Calls, CacheSeal(c)
  PROVE  NanoLogInv'
<1>1. log.open
  BY RunningOpen DEF CacheSeal
<1>2. UNCHANGED <<kv, lock, sealer, faults, seen, trims>>
  BY DEF CacheSeal
<1>3. call[c].pc \in Early
  BY DEF CacheSeal, Early
<1>4. \E pc \in {"get", "failed"} : Step(c, pc, 0)
  BY DEF CacheSeal, AfterSealTest
<1>5. /\ DOMAIN call' = Calls /\ call'[c].pc \in {"get", "failed"}
      /\ \A x \in Calls : x # c => call'[x] = call[x]
  BY <1>1, <1>4, StepFacts, OpenState
<1>6. \A x \in Calls : \/ call'[x] = call[x]
                       \/ /\ call[x].pc \in Early
                          /\ call'[x].pc \in {"cache", "get", "put", "lock", "failed"}
  BY <1>3, <1>5
<1>7. /\ OpenLog(log') /\ log'.queue = log.queue /\ log'.sealed = call[c].arg
      /\ log'.sealDirty = FALSE
  <2>1. OpenLog(log) /\ log' = [log EXCEPT !.sealed = call[c].arg, !.sealDirty = FALSE]
    BY <1>1, OpenState DEF CacheSeal
  <2> QED
    BY <2>1 DEF OpenLog
<1> QED
  BY <1>1, <1>2, <1>5, <1>6, <1>7, LightStep, OpenState

LEMMA PutEntryStep ==
  ASSUME NanoLogInv, NEW c \in Calls, PutEntry(c)
  PROVE  NanoLogInv'
<1>1. log.open
  BY RunningOpen DEF PutEntry
<1>2. UNCHANGED <<log, lock, sealer, faults, seen, trims>> /\ Step(c, "lock", 0)
      /\ kv' = KvPut(kv, LogKey(c.id), TRUE) /\ call[c].pc \in Early
  BY DEF PutEntry, Early
<1>3. /\ DOMAIN call' = Calls /\ call'[c].pc = "lock"
      /\ \A x \in Calls : x # c => call'[x] = call[x]
  BY <1>1, <1>2, StepFacts, OpenState
<1>4. \A x \in Calls : \/ call'[x] = call[x]
                       \/ /\ call[x].pc \in Early
                          /\ call'[x].pc \in {"cache", "get", "put", "lock", "failed"}
  BY <1>2, <1>3
<1>5. /\ DOMAIN kv'.mem = DOMAIN kv.mem \union {LogKey(c.id)} /\ kv'.mem \in kv'.kept
      /\ DOMAIN kv' = {"mem", "kept"}
      /\ \A k \in DOMAIN kv.mem : k # LogKey(c.id) => kv'.mem[k] = kv.mem[k]
  BY <1>2 DEF KvPut, Written
<1>6. LogKey(c.id) # EndKey
  BY CallFacts, KeysApart
<1>7. /\ EndKey \in DOMAIN kv'.mem /\ SealKey \in DOMAIN kv'.mem
      /\ kv'.mem[EndKey] = kv.mem[EndKey]
  BY <1>1, <1>5, <1>6, OpenState
<1> QED
  BY <1>1, <1>2, <1>3, <1>4, <1>5, <1>7, LightStep, OpenState

LEMMA TrimStep ==
  ASSUME NanoLogInv, NEW t \in Indices, Trim(t)
  PROVE  NanoLogInv'
<1> DEFINE keys == {LogKey(n) : n \in Trimmed(t)}
<1>1. log.open /\ UNCHANGED <<log, lock, call, sealer, seen>> /\ faults' \in 0 .. MaxFaults
      /\ kv' = DeleteKeys(kv, keys)
  BY RocksNanoLogConstants DEF Trim, NanoLogInv, Shape
<1>2. EndKey \notin keys /\ SealKey \notin keys
  BY KeysApart DEF Trimmed
<1>3. /\ DOMAIN kv'.mem = DOMAIN kv.mem \ keys /\ kv'.mem \in kv'.kept
      /\ DOMAIN kv' = {"mem", "kept"}
      /\ \A k \in DOMAIN kv.mem : k \notin keys => kv'.mem[k] = kv.mem[k]
  BY <1>1, DeleteFacts
<1> HIDE DEF keys
<1>4. /\ EndKey \in DOMAIN kv'.mem /\ SealKey \in DOMAIN kv'.mem
      /\ kv'.mem[EndKey] = kv.mem[EndKey]
  BY <1>1, <1>2, <1>3, OpenState
<1> QED
  BY <1>1, <1>3, <1>4, LightStep, OpenState

(* seal() marks the cached flag, writes it, flushes it and sets it. *)
LEMMA SealerStep ==
  ASSUME NanoLogInv, SealBegin \/ SealPut \/ SealFlush \/ SealFlushFails
  PROVE  NanoLogInv'
<1>1. log.open
  BY DEF NanoLogInv, OpenOrIdle, SealBegin, SealPut, SealFlush, SealFlushFails
<1>2. UNCHANGED <<lock, call, seen, trims>> /\ faults' \in 0 .. MaxFaults
      /\ sealer' \in {"idle", "put", "flush", "sealed"}
  <2>1. faults \in 0 .. MaxFaults /\ MaxFaults \in Nat
    BY <1>1, OpenState, RocksNanoLogConstants
  <2>2. UNCHANGED <<lock, call, seen, trims>> /\ sealer' \in {"idle", "put", "flush", "sealed"}
        /\ (faults' = faults \/ (faults < MaxFaults /\ faults' = faults + 1))
    BY DEF SealBegin, SealPut, SealFlush, SealFlushFails
  <2> QED
    BY <2>1, <2>2
<1>3. /\ kv'.mem \in kv'.kept /\ DOMAIN kv' = {"mem", "kept"} /\ EndKey \in DOMAIN kv'.mem /\ SealKey \in DOMAIN kv'.mem
      /\ kv'.mem[EndKey] = kv.mem[EndKey]
  <2>1. CASE kv' = kv
    BY <1>1, <2>1, OpenState
  <2>2. CASE kv' = KvPut(kv, SealKey, TRUE)
    <3>1. /\ DOMAIN kv'.mem = DOMAIN kv.mem \union {SealKey} /\ kv'.mem \in kv'.kept
          /\ DOMAIN kv' = {"mem", "kept"}
          /\ \A k \in DOMAIN kv.mem : k # SealKey => kv'.mem[k] = kv.mem[k]
      BY <2>2 DEF KvPut, Written
    <3> QED
      BY <1>1, <3>1, KeysApart, OpenState
  <2>3. CASE kv' = FlushWal(kv)
    <3>1. kv'.mem = kv.mem /\ kv'.mem \in kv'.kept /\ DOMAIN kv' = {"mem", "kept"}
      /\ DOMAIN kv' = {"mem", "kept"}
      BY <1>1, <2>3, OpenState, FlushFacts
    <3> QED
      BY <1>1, <3>1, OpenState
  <2> QED
    BY <2>1, <2>2, <2>3 DEF SealBegin, SealPut, SealFlush, SealFlushFails
<1>4. /\ OpenLog(log') /\ log'.queue = log.queue
  <2>1. OpenLog(log)
    BY <1>1, OpenState
  <2>2. CASE log' = log
    BY <2>1, <2>2
  <2>3. CASE log' = [log EXCEPT !.sealDirty = TRUE]
    BY <2>1, <2>3 DEF OpenLog
  <2>4. CASE log' = [log EXCEPT !.sealed = TRUE, !.sealDirty = FALSE]
    BY <2>1, <2>4 DEF OpenLog
  <2> QED
    BY <2>2, <2>3, <2>4 DEF SealBegin, SealPut, SealFlush, SealFlushFails
<1> QED
  BY <1>1, <1>2, <1>3, <1>4, LightStep, OpenState

LEMMA GetIndexStep ==
  ASSUME NanoLogInv, GetLocalCommitIndex \/ CacheEndIndex
  PROVE  NanoLogInv'
<1>1. log.open /\ UNCHANGED <<kv, lock, call, sealer, faults, seen, trims>>
  BY DEF GetLocalCommitIndex, CacheEndIndex
<1>2. OpenLog(log) /\ kv.mem[EndKey] \in Ends
  BY <1>1, OpenState
<1>3. OpenLog(log') /\ log'.queue = log.queue
  <2>1. CASE GetLocalCommitIndex
    BY <1>2, <2>1 DEF OpenLog, GetLocalCommitIndex
  <2>2. CASE CacheEndIndex
    BY <1>2, <2>2 DEF OpenLog, CacheEndIndex
  <2> QED
    BY <2>1, <2>2
<1> QED
  BY <1>1, <1>3, LightStep, OpenState

-----------------------------------------------------------------------------
(* Steps under mtx_ *)

(* What happens to the calls when c has queued its promise and `done' were
   fulfilled. *)
LEMMA AfterFacts ==
  ASSUME NEW c \in Calls, NEW done, NEW pc, NEW arg, call' = CallsAfter(c, done, pc, arg)
  PROVE  /\ DOMAIN call' = Calls
         /\ call'[c].pc = pc /\ call'[c].arg = arg
         /\ \A x \in Calls : x # c =>
              \/ /\ call'[x] = call[x]
                 /\ call[x].pc = "await" => x.id # c.id /\ x.id \notin done
              \/ call[x].pc = "await" /\ call'[x].pc \in {"failed", "acked"}
<1>1. DOMAIN call' = Calls
  BY DEF CallsAfter
<1>2. call'[c] = [pc |-> pc, arg |-> arg]
  BY DEF CallsAfter
<1>3. ASSUME NEW x \in Calls, x # c
      PROVE  \/ /\ call'[x] = call[x]
                /\ call[x].pc = "await" => x.id # c.id /\ x.id \notin done
             \/ call[x].pc = "await" /\ call'[x].pc \in {"failed", "acked"}
  <2>1. CASE call[x].pc = "await" /\ x.id = c.id
    BY <1>3, <2>1 DEF CallsAfter
  <2>2. CASE call[x].pc = "await" /\ x.id # c.id /\ x.id \in done
    BY <1>3, <2>2 DEF CallsAfter
  <2>3. CASE call[x].pc = "await" /\ x.id # c.id /\ x.id \notin done
    BY <1>3, <2>3 DEF CallsAfter
  <2>4. CASE call[x].pc # "await"
    BY <1>3, <2>4 DEF CallsAfter
  <2> QED
    BY <2>1, <2>2, <2>3, <2>4
<1> QED
  BY <1>1, <1>2, <1>3

(***************************************************************************)
(* A call works on the queue with mtx_ held.  What it has to show: the new *)
(* queue forgets no promise, whatever it completes is accounted for, and   *)
(* the end index follows the queue.                                        *)
(***************************************************************************)
LEMMA QueueStep ==
  ASSUME NanoLogInv, log.open, NEW c \in Calls, lock \in {{}, {c}},
         NEW done \in SUBSET Indices, NEW pc \in {"putEnd", "await", "acked"}, NEW arg,
         OpenLog(log'),
         call' = CallsAfter(c, done, pc, arg),
         lock' = IF pc = "putEnd" THEN {c} ELSE {},
         History(seen'), seen.added \subseteq seen'.added, seen.jumped <= seen'.jumped,
         seen.twice \subseteq seen'.twice, seen'.fulfilled = seen.fulfilled \union done,
         seen'.torn = seen.torn,
         kv'.mem = kv.mem, kv'.mem \in kv'.kept, DOMAIN kv' = {"mem", "kept"},
         UNCHANGED <<sealer, faults>>,
         log'.queue.pend \subseteq seen'.added, AccountedBelow(log.queue.cur)',
         \A i \in done, j \in StartIndex .. MaxIndex :
           j <= i => j \in seen'.added \/ j <= seen'.jumped,
         pc = "putEnd" => /\ arg \in Ends
                          /\ \A j \in StartIndex .. (arg - 1) :
                               j \in seen'.added \/ j <= seen'.jumped,
         \A k \in log.queue.pend : k \notin done => k \in log'.queue.pend,
         pc = "await" => c.id \in log'.queue.pend,
         \A k \in log'.queue.pend : k < log'.queue.cur => k \in seen'.twice \/ k <= seen'.jumped,
         pc = "putEnd" => IF c.bare THEN /\ arg = EligibleEnd(log'.queue)
                                         /\ arg > log'.queue.cur
                                    ELSE seen'.jumped >= StartIndex,
         pc # "putEnd" /\ seen'.jumped < StartIndex /\ ~seen'.torn
           => kv.mem[EndKey] = log'.queue.cur
  PROVE  NanoLogInv'
<1>1. /\ DOMAIN call' = Calls
      /\ call'[c].pc = pc /\ call'[c].arg = arg
      /\ \A x \in Calls : x # c =>
           \/ /\ call'[x] = call[x]
              /\ call[x].pc = "await" => x.id # c.id /\ x.id \notin done
           \/ call[x].pc = "await" /\ call'[x].pc \in {"failed", "acked"}
  BY AfterFacts
<1>2. \A x \in Calls : x # c => call[x].pc \notin Holding /\ call'[x].pc \notin Holding
  <2>1. \A x \in Calls : x # c => call[x].pc \notin Holding
    BY DEF NanoLogInv, OneHolder
  <2> QED
    BY <1>1, <2>1 DEF Holding
<1>3. log'.open
  BY DEF OpenLog
<1>4. Shape'
  <2>1. \A x \in Calls : /\ call'[x].pc \in Pcs
                         /\ call'[x].pc \in Holding => call'[x].arg \in Ends
    <3> TAKE x \in Calls
    <3>1. CASE x = c
      BY <1>1, <3>1 DEF Pcs, Holding
    <3>2. CASE x # c
      <4>1. call'[x].pc \in Pcs
        BY <1>1, <3>2 DEF NanoLogInv, Shape, Pcs
      <4> QED
        BY <1>2, <3>2, <4>1
    <3> QED
      BY <3>1, <3>2
  <2> QED
    BY <1>1, <2>1 DEF NanoLogInv, Shape
<1>5. OpenOrIdle'
  BY <1>3 DEF NanoLogInv, OpenOrIdle
<1>6. OneHolder'
  <2>1. \A x \in Calls : x \in lock' <=> call'[x].pc \in Holding
    <3> TAKE x \in Calls
    <3>1. CASE x = c
      BY <1>1, <3>1 DEF Holding
    <3>2. CASE x # c
      BY <1>2, <3>2
    <3> QED
      BY <3>1, <3>2
  <2> QED
    BY <2>1 DEF OneHolder
<1>7. seen.jumped \in Int /\ seen'.jumped \in Int /\ kv.mem[EndKey] \in Ends /\ StartIndex \in Nat
      /\ MaxIndex \in Nat
  BY OpenState, RocksNanoLogConstants DEF History
<1>8. \A j \in Int : Accounted(j) => Accounted(j)'
  BY <1>7 DEF Accounted
<1>9. Accounting'
  <2>1. AccountedBelow(kv.mem[EndKey])'
    BY <1>7, <1>8 DEF NanoLogInv, Accounting, AccountedBelow, Ends
  <2>2. \A x \in Calls : call'[x].pc \in Holding => AccountedBelow(call[x].arg)'
    <3> SUFFICES ASSUME NEW x \in Calls, call'[x].pc \in Holding
                 PROVE  AccountedBelow(call[x].arg)'
      OBVIOUS
    <3>1. x = c /\ pc = "putEnd"
      BY <1>1, <1>2 DEF Holding
    <3> QED
      BY <1>1, <3>1 DEF AccountedBelow, Accounted
  <2> QED
    BY <2>1, <2>2 DEF Accounting
<1>10. NoAckPastHole'
  <2> SUFFICES ASSUME NEW i \in seen'.fulfilled, NEW j \in StartIndex .. i
               PROVE  j \in seen'.added \/ j <= seen'.jumped
    BY DEF NoAckPastHole
  <2>1. i \in StartIndex .. MaxIndex
    BY DEF History, Indices
  <2>2. j \in StartIndex .. MaxIndex /\ j <= i
    BY <1>7, <2>1
  <2>3. CASE i \in seen.fulfilled
    BY <1>7, <1>8, <2>2, <2>3 DEF NanoLogInv, NoAckPastHole, Accounted
  <2>4. CASE i \in done
    BY <2>2, <2>4
  <2> QED
    BY <2>3, <2>4
<1>11. CutFollows'
  <2>1. \A x \in lock' : IF x.bare THEN /\ call'[x].arg = EligibleEnd(log'.queue)
                                        /\ call'[x].arg > log'.queue.cur
                                   ELSE seen'.jumped >= StartIndex
    BY <1>1
  <2>2. \A x \in Calls : call'[x].pc # "flushEnd"
    BY <1>1, <1>2 DEF Holding
  <2>3. lock' = {} => pc # "putEnd"
    OBVIOUS
  <2> QED
    BY <2>1, <2>2, <2>3 DEF CutFollows
<1>12. WaiterQueued'
  <2> SUFFICES ASSUME NEW x \in Calls, call'[x].pc = "await"
               PROVE  x.id \in log'.queue.pend
    BY DEF WaiterQueued
  <2>1. CASE x = c
    BY <1>1, <2>1
  <2>2. CASE x # c
    <3>1. call[x].pc = "await" /\ x.id \notin done
      BY <1>1, <2>2
    <3>2. x.id \in log.queue.pend
      BY <3>1 DEF NanoLogInv, WaiterQueued
    <3> QED
      BY <3>1, <3>2
  <2> QED
    BY <2>1, <2>2
<1>13. BlockedOnlyByRace'
  BY DEF NanoLogInv, BlockedOnlyByRace
<1> QED
  BY <1>4, <1>5, <1>6, <1>9, <1>10, <1>11, <1>12, <1>13 DEF NanoLogInv

(* The history after c has queued its promise. *)
LEMMA QueuedFacts ==
  ASSUME NanoLogInv, NEW c \in Calls, NEW gci \in Int, NEW done \in SUBSET Indices,
         Queued(c, gci, done)
  PROVE  /\ History(seen') /\ seen'.added = seen.added \union {c.id}
         /\ seen.jumped <= seen'.jumped /\ gci <= seen'.jumped
         /\ seen'.jumped = IF gci > seen.jumped THEN gci ELSE seen.jumped
         /\ seen.twice \subseteq seen'.twice
         /\ c.id \in seen.added => c.id \in seen'.twice
         /\ seen'.fulfilled = seen.fulfilled \union done
         /\ seen'.torn = seen.torn
         /\ seen.jumped \in Int /\ seen'.jumped \in Int
<1>1. History(seen) /\ c.id \in Indices
  BY CallFacts DEF NanoLogInv, Shape
<1>2. /\ DOMAIN seen' = DOMAIN seen
      /\ seen'.added = seen.added \union {c.id}
      /\ seen'.fulfilled = seen.fulfilled \union done
      /\ seen'.jumped = IF gci > seen.jumped THEN gci ELSE seen.jumped
      /\ seen'.twice = IF c.id \in seen.added THEN seen.twice \union {c.id} ELSE seen.twice
      /\ seen'.torn = seen.torn
  BY <1>1 DEF Queued, History
<1> QED
  BY <1>1, <1>2 DEF History

(* A log id that is queued below the current index is one of the race. *)
LEMMA LateIsRace ==
  ASSUME NanoLogInv, log.open, NEW c \in Calls, c.id < log.queue.cur
  PROVE  c.id \in seen.added \/ c.id <= seen.jumped
<1>1. c.id \in StartIndex .. (log.queue.cur - 1)
  BY CallFacts, OpenFacts, RocksNanoLogConstants DEF NanoLogInv, Queues, Ends, Indices
<1> QED
  BY <1>1 DEF NanoLogInv, Accounting, AccountedBelow, Accounted

(* An append with a commit index completes before anything is flushed. *)
LEMMA CompleteStep ==
  ASSUME NanoLogInv, NEW c \in Calls, NEW gci \in Indices, CompleteThenPersist(c, gci)
  PROVE  NanoLogInv'
<1> DEFINE q == log.queue
           a == AddAndComplete(q, c.id)
           b == CompleteAllBelow(a.queue, gci)
           done == a.done \union b.done
           from == IF gci > a.queue.cur THEN gci ELSE a.queue.cur
<1>1. /\ log.open /\ lock = {} /\ ~c.bare
      /\ log' = [log EXCEPT !.queue = b.queue] /\ lock' = {c}
      /\ call' = CallsAfter(c, done, "putEnd", gci + 1) /\ Queued(c, gci, done)
      /\ UNCHANGED <<kv, sealer, faults, trims>>
  BY RunningOpen DEF CompleteThenPersist
<1>2. /\ StartIndex \in Nat /\ MaxIndex \in Nat /\ gci \in StartIndex .. MaxIndex /\ gci \in Int
      /\ c.id \in StartIndex .. MaxIndex /\ Indices = StartIndex .. MaxIndex
  BY CallFacts, RocksNanoLogConstants DEF Indices
<1>3. /\ QueueOver(q, StartIndex, MaxIndex) /\ q = [cur |-> q.cur, pend |-> q.pend]
      /\ q.cur \in Int /\ q.pend \subseteq Indices
  BY <1>1, <1>2, OpenFacts DEF NanoLogInv, Queues, Ends
<1>4. /\ a.queue = [cur |-> a.queue.cur, pend |-> a.queue.pend]
      /\ QueueOver(a.queue, StartIndex, MaxIndex)
      /\ a.queue.cur >= q.cur
      /\ a.done = q.cur .. (a.queue.cur - 1)
      /\ a.done \subseteq q.pend \union {c.id}
      /\ a.queue.pend = (q.pend \union {c.id}) \ a.done
      /\ \A k \in a.queue.pend : k < a.queue.cur => k < q.cur
  BY <1>2, <1>3, AddFacts
<1>5. /\ b.queue = [cur |-> b.queue.cur, pend |-> b.queue.pend]
      /\ QueueOver(b.queue, StartIndex, MaxIndex)
      /\ b.queue.cur >= from
      /\ b.done = {k \in a.queue.pend : k < gci} \union (from .. (b.queue.cur - 1))
      /\ b.done \subseteq a.queue.pend
      /\ b.queue.pend = a.queue.pend \ b.done
      /\ \A k \in b.queue.pend : k < b.queue.cur => k < a.queue.cur
  BY <1>2, <1>4, BelowFacts
<1>6. from >= gci /\ from >= a.queue.cur /\ from \in Int /\ (from = gci \/ from = a.queue.cur)
      /\ a.queue.cur \in Int /\ b.queue.cur \in Int
  <2> HIDE DEF q, a, b, from
  <2>1. a.queue.cur \in Int /\ b.queue.cur \in Int
    BY <1>2, <1>4, <1>5 DEF QueueOver
  <2> QED
    BY <1>2, <2>1 DEF from
<1> HIDE DEF q, a, b, from
<1>7. done \subseteq q.pend \union {c.id} /\ done \in SUBSET Indices
  BY <1>2, <1>3, <1>4, <1>5
<1>8. /\ History(seen') /\ seen'.added = seen.added \union {c.id}
      /\ seen.jumped <= seen'.jumped /\ gci <= seen'.jumped
      /\ seen.twice \subseteq seen'.twice
      /\ c.id \in seen.added => c.id \in seen'.twice
      /\ seen'.fulfilled = seen.fulfilled \union done
      /\ seen'.torn = seen.torn
      /\ seen.jumped \in Int /\ seen'.jumped \in Int
  BY <1>1, <1>2, <1>7, QueuedFacts
<1>9. q.pend \subseteq seen.added /\ \A j \in StartIndex .. (q.cur - 1) : Accounted(j)
  BY <1>1 DEF NanoLogInv, Accounting, AccountedBelow, q
<1>10. b.queue \in Queues
  BY <1>2, <1>5 DEF Queues, QueueOver, Ends
<1>11. /\ OpenLog(log') /\ log'.queue = b.queue
       /\ log'.sealed = log.sealed /\ log'.sealDirty = log.sealDirty
  BY <1>1, <1>10, OpenState DEF OpenLog
<1>12. b.queue.pend \subseteq seen'.added
  BY <1>4, <1>5, <1>8, <1>9
<1>13. \A j \in StartIndex .. (b.queue.cur - 1) : j \in seen'.added \/ j <= seen'.jumped
  <2> TAKE j \in StartIndex .. (b.queue.cur - 1)
  <2>0. j \in Int
    BY <1>2
  <2>1. CASE j < q.cur
    BY <1>2, <1>3, <1>8, <1>9, <2>0, <2>1 DEF Accounted
  <2>2. CASE q.cur <= j /\ j < a.queue.cur
    <3>1. j \in a.done
      BY <1>3, <1>4, <1>6, <2>0, <2>2
    <3> QED
      BY <1>4, <1>8, <1>9, <3>1
  <2>3. CASE a.queue.cur <= j /\ j < from
    BY <1>2, <1>6, <1>8, <2>0, <2>3
  <2>4. CASE from <= j
    <3>1. j \in b.done
      BY <1>5, <1>6, <2>0, <2>4
    <3> QED
      BY <1>4, <1>5, <1>8, <1>9, <3>1
  <2> QED
    BY <1>3, <1>6, <2>0, <2>1, <2>2, <2>3, <2>4
<1>14. \A i \in done, j \in StartIndex .. MaxIndex :
         j <= i => j \in seen'.added \/ j <= seen'.jumped
  <2> SUFFICES ASSUME NEW i \in done, NEW j \in StartIndex .. MaxIndex, j <= i
               PROVE  j \in seen'.added \/ j <= seen'.jumped
    OBVIOUS
  <2>0. i \in Int /\ j \in Int
    BY <1>2, <1>7
  <2>1. i < gci \/ i < b.queue.cur
    BY <1>2, <1>3, <1>4, <1>5, <1>6, <2>0
  <2>2. CASE i < gci
    BY <1>2, <1>8, <2>0, <2>2
  <2>3. CASE i < b.queue.cur
    BY <1>2, <1>6, <1>13, <2>0, <2>3
  <2> QED
    BY <2>1, <2>2, <2>3
<1>15. /\ gci + 1 \in Ends
       /\ \A j \in StartIndex .. ((gci + 1) - 1) : j \in seen'.added \/ j <= seen'.jumped
  BY <1>2, <1>8 DEF Ends
<1>16. \A k \in q.pend : k \notin done => k \in b.queue.pend
  BY <1>4, <1>5
<1>17. \A k \in b.queue.pend : k < b.queue.cur => k \in seen'.twice \/ k <= seen'.jumped
  <2> SUFFICES ASSUME NEW k \in b.queue.pend, k < b.queue.cur
               PROVE  k \in seen'.twice \/ k <= seen'.jumped
    OBVIOUS
  <2>1. k < q.cur /\ k \in q.pend \union {c.id} /\ k \in Int
    BY <1>2, <1>3, <1>4, <1>5
  <2>2. CASE k \in q.pend
    <3>1. k \in seen.twice \/ k <= seen.jumped
      BY <1>1, <2>1, <2>2 DEF NanoLogInv, BlockedOnlyByRace, q
    <3> QED
      BY <1>8, <2>1, <3>1
  <2>3. CASE k = c.id
    <3>1. k \in seen.added \/ k <= seen.jumped
      BY <1>1, <2>1, <2>3, LateIsRace DEF q
    <3> QED
      BY <1>8, <2>1, <2>3, <3>1
  <2> QED
    BY <2>1, <2>2, <2>3
<1>18. seen'.jumped >= StartIndex
  BY <1>2, <1>8
<1>19. AccountedBelow(log.queue.cur)'
  BY <1>11, <1>13 DEF AccountedBelow, Accounted
<1> HIDE DEF done
<1>20. kv' = kv /\ kv'.mem = kv.mem /\ kv'.mem \in kv'.kept /\ DOMAIN kv' = {"mem", "kept"}
       /\ UNCHANGED <<sealer, faults>>
  BY <1>1, OpenState
<1> QED
  BY <1>1, <1>7, <1>8, <1>11, <1>12, <1>14, <1>15, <1>16, <1>17, <1>18, <1>19, <1>20, QueueStep DEF q

(* A re-replication queues its promise and, when the walk can go on, writes
   the end index first. *)
LEMMA DeferStep ==
  ASSUME NanoLogInv, NEW c \in Calls, DeferThenPersist(c)
  PROVE  NanoLogInv'
<1> DEFINE q == log.queue
           p == AddOnly(q, c.id)
           end == EligibleEnd(p)
<1>1. /\ log.open /\ lock = {} /\ c.bare
      /\ log' = [log EXCEPT !.queue = p] /\ lock' = IF end > p.cur THEN {c} ELSE {}
      /\ call' = IF end > p.cur THEN CallsAfter(c, {}, "putEnd", end)
                                ELSE CallsAfter(c, {}, "await", 0)
      /\ Queued(c, StartIndex - 1, {})
      /\ UNCHANGED <<kv, sealer, faults, trims>>
  BY RunningOpen DEF DeferThenPersist
<1>2. /\ StartIndex \in Nat /\ MaxIndex \in Nat /\ StartIndex - 1 \in Int
      /\ c.id \in StartIndex .. MaxIndex /\ Indices = StartIndex .. MaxIndex
  BY CallFacts, RocksNanoLogConstants DEF Indices
<1>3. /\ QueueOver(q, StartIndex, MaxIndex) /\ q = [cur |-> q.cur, pend |-> q.pend]
      /\ q.cur \in Int /\ q.pend \subseteq Indices /\ q \in Queues
  BY <1>1, <1>2, OpenFacts DEF NanoLogInv, Queues, Ends
<1>4. p.cur = q.cur /\ p.pend = q.pend \union {c.id} /\ p \in Queues
  BY <1>2, <1>3 DEF AddOnly, Queues
<1>5. QueueOver(p, StartIndex, MaxIndex)
  BY <1>2, <1>3, <1>4 DEF QueueOver
<1>6. end \in p.cur .. (MaxIndex + 1) /\ p.cur .. (end - 1) \subseteq p.pend /\ end \in Ends
      /\ end \in Int
  BY <1>2, <1>3, <1>4, <1>5, WalkFacts DEF Queues, Ends
<1> HIDE DEF q, p, end
<1>0. {} \in SUBSET Indices
  OBVIOUS
<1>7. /\ History(seen') /\ seen'.added = seen.added \union {c.id}
      /\ seen.jumped <= seen'.jumped
      /\ seen.twice \subseteq seen'.twice
      /\ c.id \in seen.added => c.id \in seen'.twice
      /\ seen'.fulfilled = seen.fulfilled \union {}
      /\ seen'.torn = seen.torn
      /\ seen.jumped \in Int /\ seen'.jumped \in Int
  BY <1>0, <1>1, <1>2, QueuedFacts
<1>8. q.pend \subseteq seen.added /\ \A j \in StartIndex .. (q.cur - 1) : Accounted(j)
  BY <1>1 DEF NanoLogInv, Accounting, AccountedBelow, q
<1>9. /\ OpenLog(log') /\ log'.queue = p
      /\ log'.sealed = log.sealed /\ log'.sealDirty = log.sealDirty
  BY <1>1, <1>4, OpenState DEF OpenLog
<1>10. \A j \in StartIndex .. (end - 1) : j \in seen'.added \/ j <= seen'.jumped
  <2> TAKE j \in StartIndex .. (end - 1)
  <2>0. j \in Int
    BY <1>2
  <2>1. CASE j < q.cur
    BY <1>2, <1>3, <1>7, <1>8, <2>0, <2>1 DEF Accounted
  <2>2. CASE q.cur <= j
    <3>1. j \in p.pend
      BY <1>3, <1>4, <1>6, <2>0, <2>2
    <3> QED
      BY <1>4, <1>7, <1>8, <3>1
  <2> QED
    BY <1>3, <2>0, <2>1, <2>2
<1>12. AccountedBelow(log.queue.cur)'
  <2>1. \A j \in StartIndex .. (p.cur - 1) : j \in StartIndex .. (end - 1)
    BY <1>2, <1>3, <1>4, <1>6
  <2> QED
    BY <1>9, <1>10, <2>1 DEF AccountedBelow, Accounted
<1>13. \A k \in p.pend : k < p.cur => k \in seen'.twice \/ k <= seen'.jumped
  <2> SUFFICES ASSUME NEW k \in p.pend, k < p.cur
               PROVE  k \in seen'.twice \/ k <= seen'.jumped
    OBVIOUS
  <2>1. k < q.cur /\ k \in q.pend \union {c.id} /\ k \in Int
    BY <1>2, <1>3, <1>4
  <2>2. CASE k \in q.pend
    <3>1. k \in seen.twice \/ k <= seen.jumped
      BY <1>1, <2>1, <2>2 DEF NanoLogInv, BlockedOnlyByRace, q
    <3> QED
      BY <1>7, <2>1, <3>1
  <2>3. CASE k = c.id
    <3>1. k \in seen.added \/ k <= seen.jumped
      BY <1>1, <2>1, <2>3, LateIsRace DEF q
    <3> QED
      BY <1>7, <2>1, <2>3, <3>1
  <2> QED
    BY <2>1, <2>2, <2>3
<1>14. seen'.jumped < StartIndex /\ ~seen'.torn => kv.mem[EndKey] = p.cur
  <2> SUFFICES ASSUME seen'.jumped < StartIndex, ~seen'.torn PROVE kv.mem[EndKey] = q.cur
    BY <1>4
  <2>1. seen.jumped < StartIndex /\ ~seen.torn
    BY <1>2, <1>7
  <2> QED
    BY <1>1, <2>1 DEF NanoLogInv, CutFollows, q
<1>15. kv' = kv /\ kv'.mem = kv.mem /\ kv'.mem \in kv'.kept /\ DOMAIN kv' = {"mem", "kept"}
       /\ UNCHANGED <<sealer, faults>>
  BY <1>1, OpenState
<1>16. p.pend \subseteq seen'.added /\ c.id \in p.pend /\ \A k \in q.pend : k \in p.pend
  BY <1>4, <1>7, <1>8
<1>17. CASE end > p.cur
  <2>1. call' = CallsAfter(c, {}, "putEnd", end) /\ lock' = {c}
    BY <1>1, <1>17
  <2> QED
    BY <1>1, <1>6, <1>7, <1>9, <1>10, <1>12, <1>13, <1>15, <1>16, <1>17, <2>1, QueueStep
    DEF q, end
<1>18. CASE ~(end > p.cur)
  <2>1. call' = CallsAfter(c, {}, "await", 0) /\ lock' = {}
    BY <1>1, <1>18
  <2> QED
    BY <1>1, <1>7, <1>9, <1>12, <1>13, <1>14, <1>15, <1>16, <2>1, QueueStep DEF q
<1> QED
  BY <1>17, <1>18


(* The one call that holds mtx_. *)
LEMMA HolderFacts ==
  ASSUME NanoLogInv, NEW c \in Calls, call[c].pc \in Holding
  PROVE  /\ log.open /\ lock = {c}
         /\ call[c].arg \in Ends /\ AccountedBelow(call[c].arg)
         /\ \A x \in Calls : x # c => call[x].pc \notin Holding
         /\ IF c.bare THEN /\ call[c].arg = EligibleEnd(log.queue)
                           /\ call[c].arg > log.queue.cur
                      ELSE seen.jumped >= StartIndex
         /\ call[c].pc = "flushEnd" => kv.mem[EndKey] = call[c].arg
<1>1. log.open
  BY RunningOpen DEF Holding
<1>2. lock = {c} /\ \A x \in Calls : x # c => call[x].pc \notin Holding
  BY DEF NanoLogInv, OneHolder
<1>3. call[c].arg \in Ends /\ AccountedBelow(call[c].arg)
  BY DEF NanoLogInv, Shape, Accounting
<1> QED
  BY <1>1, <1>2, <1>3 DEF NanoLogInv, CutFollows

LEMMA PutEndIndexStep ==
  ASSUME NanoLogInv, NEW c \in Calls, PutEndIndex(c)
  PROVE  NanoLogInv'
<1> DEFINE end == call[c].arg
<1>1. /\ call[c].pc = "putEnd" /\ call[c].pc \in Holding
      /\ kv' = KvPut(kv, EndKey, end) /\ log' = [log EXCEPT !.endDirty = TRUE]
      /\ Step(c, "flushEnd", end)
      /\ UNCHANGED <<lock, sealer, faults, seen, trims>>
  BY DEF PutEndIndex, Holding
<1>2. /\ log.open /\ lock = {c} /\ end \in Ends /\ AccountedBelow(end)
      /\ \A x \in Calls : x # c => call[x].pc \notin Holding
      /\ IF c.bare THEN end = EligibleEnd(log.queue) /\ end > log.queue.cur
                   ELSE seen.jumped >= StartIndex
  BY <1>1, HolderFacts
<1>3. /\ DOMAIN call' = Calls /\ call'[c].pc = "flushEnd" /\ call'[c].arg = end
      /\ \A x \in Calls : x # c => call'[x] = call[x]
  BY <1>1, <1>2, StepFacts, OpenState
<1>4. /\ DOMAIN kv'.mem = DOMAIN kv.mem \union {EndKey} /\ kv'.mem \in kv'.kept
      /\ DOMAIN kv' = {"mem", "kept"} /\ kv'.mem[EndKey] = end
  BY <1>1, PutFacts
<1>5. /\ OpenLog(log') /\ log'.open /\ log'.queue = log.queue
      /\ log'.sealed = log.sealed /\ log'.sealDirty = log.sealDirty
  BY <1>1, <1>2, OpenState DEF OpenLog
<1> HIDE DEF end
<1>6. \A x \in Calls : call'[x].pc \in Holding <=> x = c
  BY <1>2, <1>3 DEF Holding
<1>7. Shape'
  <2>1. \A x \in Calls : /\ call'[x].pc \in Pcs
                         /\ call'[x].pc \in Holding => call'[x].arg \in Ends
    BY <1>2, <1>3, <1>6 DEF NanoLogInv, Shape, Pcs
  <2> QED
    BY <1>1, <1>3, <1>4, <1>5, <2>1 DEF NanoLogInv, Shape
<1>8. OpenOrIdle'
  BY <1>2, <1>4, <1>5, OpenState DEF OpenOrIdle
<1>9. OneHolder'
  BY <1>1, <1>2, <1>6 DEF OneHolder
<1>10. \A j : Accounted(j)' <=> Accounted(j)
  BY <1>1 DEF Accounted
<1>11. Accounting'
  BY <1>1, <1>2, <1>3, <1>4, <1>5, <1>6, <1>10 DEF NanoLogInv, Accounting, AccountedBelow
<1>12. NoAckPastHole' /\ BlockedOnlyByRace'
  BY <1>1, <1>2, <1>5 DEF NanoLogInv, NoAckPastHole, BlockedOnlyByRace
<1>13. WaiterQueued'
  BY <1>3, <1>5 DEF NanoLogInv, WaiterQueued
<1>14. CutFollows'
  <2>1. \A x \in Calls : call'[x].pc = "flushEnd" => kv'.mem[EndKey] = call'[x].arg
    BY <1>3, <1>4, <1>6 DEF Holding
  <2> QED
    BY <1>1, <1>2, <1>3, <1>5, <2>1 DEF CutFollows
<1> QED
  BY <1>7, <1>8, <1>9, <1>11, <1>12, <1>13, <1>14 DEF NanoLogInv

LEMMA FlushEndFailsStep ==
  ASSUME NanoLogInv, NEW c \in Calls, FlushEndFails(c)
  PROVE  NanoLogInv'
<1>1. /\ call[c].pc \in Holding /\ faults < MaxFaults /\ faults' = faults + 1
      /\ lock' = {} /\ seen' = [seen EXCEPT !.torn = TRUE] /\ Step(c, "failed", 0)
      /\ UNCHANGED <<kv, log, sealer, trims>>
  BY DEF FlushEndFails, Holding
<1>2. /\ log.open /\ \A x \in Calls : x # c => call[x].pc \notin Holding
  BY <1>1, HolderFacts
<1>3. /\ DOMAIN call' = Calls /\ call'[c].pc = "failed"
      /\ \A x \in Calls : x # c => call'[x] = call[x]
  BY <1>1, <1>2, StepFacts, OpenState
<1>4. faults' \in 0 .. MaxFaults
  BY <1>1, RocksNanoLogConstants DEF NanoLogInv, Shape
<1>5. /\ History(seen') /\ seen'.added = seen.added /\ seen'.fulfilled = seen.fulfilled
      /\ seen'.jumped = seen.jumped /\ seen'.twice = seen.twice /\ seen'.torn
  BY <1>1, <1>2, OpenState DEF History
<1>6. \A x \in Calls : call'[x].pc \notin Holding
  BY <1>2, <1>3 DEF Holding
<1>7. Shape'
  <2>1. \A x \in Calls : call'[x].pc \in Pcs
    BY <1>3 DEF NanoLogInv, Shape, Pcs
  <2> QED
    BY <1>1, <1>3, <1>4, <1>5, <1>6, <2>1 DEF NanoLogInv, Shape
<1>8. OpenOrIdle'
  BY <1>1, <1>2 DEF NanoLogInv, OpenOrIdle
<1>9. OneHolder'
  BY <1>1, <1>6 DEF OneHolder
<1>10. \A j : Accounted(j)' <=> Accounted(j)
  BY <1>5 DEF Accounted
<1>11. Accounting'
  BY <1>1, <1>2, <1>5, <1>6, <1>10 DEF NanoLogInv, Accounting, AccountedBelow
<1>12. NoAckPastHole' /\ BlockedOnlyByRace'
  BY <1>1, <1>5 DEF NanoLogInv, NoAckPastHole, BlockedOnlyByRace
<1>13. WaiterQueued'
  BY <1>1, <1>3 DEF NanoLogInv, WaiterQueued
<1>14. CutFollows'
  BY <1>1, <1>5, <1>6 DEF CutFollows, Holding
<1> QED
  BY <1>7, <1>8, <1>9, <1>11, <1>12, <1>13, <1>14 DEF NanoLogInv

(* The flush succeeds: a re-replication completes the range it has written
   the end of, and that leads the queue exactly there. *)
LEMMA FlushEndIndexStep ==
  ASSUME NanoLogInv, NEW c \in Calls, FlushEndIndex(c)
  PROVE  NanoLogInv'
<1> DEFINE q == log.queue
           end == call[c].arg
           r == IF c.bare THEN CompleteAllBelow(q, end - 1) ELSE [queue |-> q, done |-> {}]
           own == IF c.id \in r.queue.pend THEN "await" ELSE "acked"
<1>1. /\ call[c].pc = "flushEnd" /\ call[c].pc \in Holding
      /\ kv' = FlushWal(kv)
      /\ log' = [log EXCEPT !.end = end, !.endDirty = FALSE, !.queue = r.queue]
      /\ lock' = {} /\ call' = CallsAfter(c, r.done, own, 0)
      /\ seen' = [seen EXCEPT !.fulfilled = @ \union r.done]
      /\ UNCHANGED <<sealer, faults, trims>>
  BY DEF FlushEndIndex, Holding
<1>2. /\ log.open /\ lock = {c} /\ end \in Ends
      /\ \A j \in StartIndex .. (end - 1) : j \in seen.added \/ j <= seen.jumped
      /\ IF c.bare THEN end = EligibleEnd(q) /\ end > q.cur ELSE seen.jumped >= StartIndex
      /\ kv.mem[EndKey] = end
  BY <1>1, HolderFacts DEF AccountedBelow, Accounted
<1>3. /\ StartIndex \in Nat /\ MaxIndex \in Nat /\ Indices = StartIndex .. MaxIndex
      /\ Ends = StartIndex .. (MaxIndex + 1)
  BY RocksNanoLogConstants DEF Indices, Ends
<1>4. /\ QueueOver(q, StartIndex, MaxIndex) /\ q \in Queues
      /\ q.cur \in Ends /\ q.pend \subseteq Indices
  BY <1>2, OpenFacts DEF NanoLogInv, Queues
<1>5. /\ q.pend \subseteq seen.added /\ \A j \in StartIndex .. (q.cur - 1) : Accounted(j)
  BY <1>2 DEF NanoLogInv, Accounting, AccountedBelow
<1> HIDE DEF q, end
<1>6. /\ r.queue \in Queues /\ r.done \subseteq q.pend /\ r.queue.pend = q.pend \ r.done
      /\ \A k \in r.queue.pend : k < r.queue.cur => k < q.cur
      /\ \A k \in r.done : k < r.queue.cur
      /\ IF c.bare THEN r.queue.cur = end ELSE r.queue.cur = q.cur
  <2>1. CASE c.bare
    <3> DEFINE b == CompleteAllBelow(q, end - 1)
               from == IF end - 1 > q.cur THEN end - 1 ELSE q.cur
    <3>1. end - 1 \in Int /\ end - 1 <= MaxIndex + 1
      BY <1>2, <1>3
    <3>2. /\ QueueOver(b.queue, StartIndex, MaxIndex)
          /\ b.queue = [cur |-> b.queue.cur, pend |-> b.queue.pend]
          /\ b.queue.cur >= from
          /\ b.done = {k \in q.pend : k < end - 1} \union (from .. (b.queue.cur - 1))
          /\ b.done \subseteq q.pend /\ b.queue.pend = q.pend \ b.done
          /\ \A k \in b.queue.pend : k < b.queue.cur => k < q.cur
      BY <1>4, <3>1, BelowFacts
    <3>3. b.queue.cur = end
      BY <1>2, <1>4, <2>1, BelowWalkEnd
    <3>4. r = b
      BY <2>1
    <3> HIDE DEF b, r
    <3>5. from \in Int /\ q.cur \in Int /\ end \in Int
      BY <1>2, <1>3, <1>4
    <3>6. \A k \in b.done : k < b.queue.cur
      BY <1>3, <1>4, <3>2, <3>3, <3>5
    <3>7. b.queue \in Queues
      BY <1>2, <1>3, <1>4, <3>2, <3>3 DEF Queues
    <3> QED
      BY <2>1, <3>2, <3>3, <3>4, <3>6, <3>7
  <2>2. CASE ~c.bare
    <3>1. r = [queue |-> q, done |-> {}]
      BY <2>2
    <3> QED
      BY <1>4, <2>2, <3>1
  <2> QED
    BY <2>1, <2>2
<1>7. own \in {"await", "acked"} /\ (own = "await" => c.id \in r.queue.pend)
  OBVIOUS
<1> HIDE DEF r, own
<1>8. r.queue.cur \in Int /\ q.cur \in Int /\ end \in Int /\ r.done \in SUBSET Indices
  BY <1>2, <1>3, <1>4, <1>6
<1>9. /\ OpenLog(log') /\ log'.queue = r.queue /\ log'.sealed = log.sealed
      /\ log'.sealDirty = log.sealDirty
  <2>1. OpenLog(log)
    BY <1>2, OpenState
  <2> QED
    BY <1>1, <1>2, <1>6, <2>1 DEF OpenLog
<1>10. /\ History(seen') /\ seen'.added = seen.added /\ seen'.jumped = seen.jumped
       /\ seen'.fulfilled = seen.fulfilled \union r.done /\ seen'.twice = seen.twice
       /\ seen'.torn = seen.torn /\ seen.jumped \in Int
  BY <1>1, <1>2, <1>8, OpenState DEF History
<1>11. \A j \in StartIndex .. (r.queue.cur - 1) : j \in seen'.added \/ j <= seen'.jumped
  BY <1>2, <1>5, <1>6, <1>10 DEF Accounted
<1>12. AccountedBelow(log.queue.cur)'
  BY <1>9, <1>11 DEF AccountedBelow, Accounted
<1>13. \A i \in r.done, j \in StartIndex .. MaxIndex :
         j <= i => j \in seen'.added \/ j <= seen'.jumped
  BY <1>3, <1>6, <1>8, <1>11
<1>14. \A k \in r.queue.pend : k < r.queue.cur => k \in seen'.twice \/ k <= seen'.jumped
  BY <1>2, <1>6, <1>10 DEF NanoLogInv, BlockedOnlyByRace, q
<1>15. seen'.jumped < StartIndex => kv.mem[EndKey] = r.queue.cur
  BY <1>2, <1>3, <1>6, <1>10
<1>16. kv'.mem = kv.mem /\ kv'.mem \in kv'.kept /\ DOMAIN kv' = {"mem", "kept"}
  BY <1>1, <1>2, OpenState, FlushFacts
<1>17. /\ r.queue.pend \subseteq seen'.added /\ lock \in {{}, {c}}
       /\ \A k \in q.pend : k \notin r.done => k \in r.queue.pend
       /\ lock' = IF own = "putEnd" THEN {c} ELSE {}
       /\ seen.added \subseteq seen'.added /\ seen.jumped <= seen'.jumped
       /\ seen.twice \subseteq seen'.twice
  BY <1>1, <1>2, <1>5, <1>6, <1>7, <1>10
<1> QED
  BY <1>1, <1>2, <1>7, <1>8, <1>9, <1>10, <1>12, <1>13, <1>14, <1>15, <1>16, <1>17, QueueStep
  DEF q

-----------------------------------------------------------------------------
(* A process starts and ends *)

LEMMA MakeNanoLogStep ==
  ASSUME NanoLogInv, MakeNanoLog
  PROVE  NanoLogInv'
<1>1. /\ ~log.open /\ UNCHANGED <<lock, call, sealer, faults, seen, trims>>
      /\ log' = [open |-> TRUE, sealed |-> FALSE, sealDirty |-> TRUE,
                 end |-> EndOfLog, endDirty |-> TRUE, queue |-> EmptyQueue(StartIndex),
                 read |-> {}]
  BY DEF MakeNanoLog
<1>2. /\ seen = Fresh /\ sealer = "idle"
      /\ \A c \in Calls : call[c].pc \in {"new", "acked", "failed"}
  BY <1>1 DEF NanoLogInv, OpenOrIdle
<1>3. lock = {} /\ \A c \in Calls : call[c].pc \notin Holding \union {"await"}
  BY <1>2 DEF NanoLogInv, OneHolder, Holding
<1>4. log'.queue = [cur |-> StartIndex, pend |-> {}] /\ log'.open
  BY <1>1 DEF EmptyQueue
<1>5. OpenLog(log')
  <2>1. StartIndex \in Ends
    BY RocksNanoLogConstants DEF Ends
  <2> QED
    BY <1>1, <1>4, <2>1 DEF OpenLog, Queues
<1>6. /\ EndKey \in DOMAIN kv'.mem /\ SealKey \in DOMAIN kv'.mem
      /\ kv'.mem[EndKey] = StartIndex
      /\ DOMAIN kv' = {"mem", "kept"} /\ kv'.mem \in kv'.kept
  <2> DEFINE db == KvPut(kv, EndKey, StartIndex)
  <2>1. EndKey \in DOMAIN db.mem /\ db.mem[EndKey] = StartIndex
    BY DEF KvPut, Written
  <2> HIDE DEF db
  <2>2. kv' = KvPut(db, SealKey, FALSE)
    BY DEF MakeNanoLog, InitKeys, db
  <2>3. /\ DOMAIN kv'.mem = DOMAIN db.mem \union {SealKey} /\ kv'.mem \in kv'.kept
        /\ DOMAIN kv' = {"mem", "kept"}
        /\ \A k \in DOMAIN db.mem : k # SealKey => kv'.mem[k] = db.mem[k]
    BY <2>2 DEF KvPut, Written
  <2> QED
    BY <2>1, <2>3, KeysApart
<1>7. Shape'
  BY <1>1, <1>3, <1>5, <1>6 DEF NanoLogInv, Shape
<1>8. OpenOrIdle'
  BY <1>4, <1>6, RocksNanoLogConstants DEF OpenOrIdle, Ends
<1>9. OneHolder'
  BY <1>1 DEF NanoLogInv, OneHolder
<1>10. StartIndex .. (StartIndex - 1) = {}
  BY RocksNanoLogConstants
<1>11. Accounting'
  BY <1>1, <1>3, <1>4, <1>6, <1>10 DEF Accounting, AccountedBelow
<1>12. NoAckPastHole' /\ BlockedOnlyByRace'
  BY <1>1, <1>2, <1>4 DEF NanoLogInv, NoAckPastHole, BlockedOnlyByRace
<1>13. WaiterQueued' /\ CutFollows'
  BY <1>1, <1>3, <1>4, <1>6 DEF WaiterQueued, CutFollows, Holding
<1> QED
  BY <1>7, <1>8, <1>9, <1>11, <1>12, <1>13 DEF NanoLogInv

(* Between two processes. *)
NoObject ==
  /\ log = NoLog /\ lock = {} /\ sealer = "idle" /\ seen = Fresh /\ DOMAIN call = Calls
  /\ \A c \in Calls : call[c].pc \in {"new", "acked", "failed"}
  /\ faults \in 0 .. MaxFaults /\ DOMAIN kv = {"mem", "kept"} /\ kv.mem \in kv.kept

LEMMA NoObjectInv == NoObject => NanoLogInv
<1> SUFFICES ASSUME NoObject PROVE NanoLogInv
  OBVIOUS
<1> USE DEF NoObject
<1>1. ~log.open
  BY DEF NoLog
<1>2. History(seen) /\ seen.fulfilled = {}
  BY RocksNanoLogConstants DEF History, Fresh
<1>3. Shape
  BY <1>2 DEF Shape, Pcs, Holding
<1>4. OpenOrIdle /\ OneHolder /\ Accounting /\ NoAckPastHole
  BY <1>1, <1>2 DEF OpenOrIdle, OneHolder, Accounting, NoAckPastHole, Holding
<1>5. CutFollows /\ WaiterQueued /\ BlockedOnlyByRace
  BY <1>1 DEF CutFollows, WaiterQueued, BlockedOnlyByRace
<1> QED
  BY <1>3, <1>4, <1>5 DEF NanoLogInv

LEMMA CrashStep ==
  ASSUME NanoLogInv, Crash
  PROVE  NanoLogInv'
<1>1. /\ log' = NoLog /\ lock' = {} /\ sealer' = "idle" /\ seen' = Fresh
      /\ faults < MaxFaults /\ faults' = faults + 1
  BY DEF Crash
<1>2. faults' \in 0 .. MaxFaults
  BY <1>1, RocksNanoLogConstants DEF NanoLogInv, Shape
<1>3. PICK m \in kv.kept : kv' = Reopen(m)
  BY DEF Crash
<1>4. DOMAIN kv' = {"mem", "kept"} /\ kv'.mem \in kv'.kept
  BY <1>3 DEF Reopen
<1>5. DOMAIN call' = Calls
  BY DEF Crash
<1>6. \A c \in Calls : call'[c].pc \in {"new", "acked", "failed"}
  BY DEF Crash, Running, NanoLogInv, Shape, Pcs
<1> QED
  <2>1. NoObject'
    BY <1>1, <1>2, <1>4, <1>5, <1>6 DEF NoObject
  <2> QED
    BY <2>1, NoObjectInv, PTL

LEMMA InitNanoLog == Init => NanoLogInv
<1> SUFFICES ASSUME Init PROVE NanoLogInv
  OBVIOUS
<1>1. /\ log = NoLog /\ lock = {} /\ sealer = "idle" /\ seen = Fresh /\ DOMAIN call = Calls
      /\ \A c \in Calls : call[c].pc \in {"new", "acked", "failed"}
  BY DEF Init
<1>2. faults \in 0 .. MaxFaults /\ DOMAIN kv = {"mem", "kept"} /\ kv.mem \in kv.kept
  BY RocksNanoLogConstants DEF Init, OpenEmpty
<1> QED
  BY <1>1, <1>2, NoObjectInv DEF NoObject

LEMMA StutterStep ==
  ASSUME NanoLogInv, UNCHANGED vars
  PROVE  NanoLogInv'
<1>1. /\ kv' = kv /\ log' = log /\ lock' = lock /\ call' = call /\ sealer' = sealer
      /\ faults' = faults /\ seen' = seen
  BY DEF vars
<1>2. Shape' /\ OpenOrIdle' /\ OneHolder'
  BY <1>1 DEF NanoLogInv, Shape, OpenOrIdle, OneHolder
<1>3. Accounting' /\ NoAckPastHole' /\ CutFollows'
  BY <1>1 DEF NanoLogInv, Accounting, AccountedBelow, Accounted, NoAckPastHole, CutFollows
<1>4. WaiterQueued' /\ BlockedOnlyByRace'
  BY <1>1 DEF NanoLogInv, WaiterQueued, BlockedOnlyByRace
<1> QED
  BY <1>2, <1>3, <1>4 DEF NanoLogInv

LEMMA NanoLogInductive == NanoLogInv /\ [Next]_vars => NanoLogInv'
<1> SUFFICES ASSUME NanoLogInv, [Next]_vars PROVE NanoLogInv'
  OBVIOUS
<1>1. CASE MakeNanoLog
  BY <1>1, MakeNanoLogStep
<1>2. CASE \E c \in Calls : TestSeal(c) \/ ReadSeal(c) \/ TestFree(c)
  BY <1>2, SealTestStep
<1>3. CASE \E c \in Calls : CacheSeal(c)
  BY <1>3, CacheSealStep
<1>4. CASE \E c \in Calls : PutEntry(c)
  BY <1>4, PutEntryStep
<1>5. CASE \E c \in Calls, gci \in Indices : CompleteThenPersist(c, gci)
  BY <1>5, CompleteStep
<1>6. CASE \E c \in Calls : DeferThenPersist(c)
  BY <1>6, DeferStep
<1>7. CASE \E c \in Calls : PutEndIndex(c)
  BY <1>7, PutEndIndexStep
<1>8. CASE \E c \in Calls : FlushEndIndex(c)
  BY <1>8, FlushEndIndexStep
<1>9. CASE \E c \in Calls : FlushEndFails(c)
  BY <1>9, FlushEndFailsStep
<1>10. CASE SealBegin \/ SealPut \/ SealFlush \/ SealFlushFails
  BY <1>10, SealerStep
<1>11. CASE GetLocalCommitIndex \/ CacheEndIndex
  BY <1>11, GetIndexStep
<1>12. CASE \E t \in Indices : Trim(t)
  BY <1>12, TrimStep
<1>13. CASE Crash
  BY <1>13, CrashStep
<1>14. CASE UNCHANGED vars
  BY <1>14, StutterStep
<1> QED
  BY <1>1, <1>2, <1>3, <1>4, <1>5, <1>6, <1>7, <1>8, <1>9, <1>10, <1>11, <1>12, <1>13, <1>14
  DEF Next

LEMMA NanoLogInvHolds == Spec => []NanoLogInv
BY InitNanoLog, NanoLogInductive, PTL DEF Spec

-----------------------------------------------------------------------------
(* A replica acknowledges no log id after a hole: below an acknowledged one,
   every log id was queued by this object or passed by a commit index. *)
THEOREM NothingAckedPastHole == Spec => []NoAckPastHole
<1>1. NanoLogInv => NoAckPastHole
  BY DEF NanoLogInv
<1> QED
  BY <1>1, NanoLogInvHolds, PTL

(* The end index in the store, which getLocalCommitIndex and recovery rely
   on, counts nothing that is missing; without commit indexes and failed
   flushes it is exactly the first missing log id. *)
THEOREM EndIndexNeverPastHole == Spec => []EndIndexIsCut
<1>1. NanoLogInv => EndIndexIsCut
  <2> SUFFICES ASSUME NanoLogInv, log.open PROVE EndIndexIsCut
    BY DEF EndIndexIsCut
  <2>1. \A j \in StartIndex .. (kv.mem[EndKey] - 1) : j \in seen.added \/ j <= seen.jumped
    BY DEF NanoLogInv, Accounting, AccountedBelow, Accounted
  <2>2. lock = {} /\ seen.jumped < StartIndex /\ ~seen.torn => kv.mem[EndKey] = log.queue.cur
    BY DEF NanoLogInv, CutFollows
  <2> QED
    BY <2>1, <2>2 DEF EndIndexIsCut
<1> QED
  BY <1>1, NanoLogInvHolds, PTL

(* mtx_ keeps the completion queue consistent: no waiting call has lost its
   promise, one call at most holds the lock, and only a log id that a race or
   a commit index has passed lies below the current index. *)
THEOREM QueueStaysConsistent == Spec => []QueueConsistent
<1>1. NanoLogInv => QueueConsistent
  <2> SUFFICES ASSUME NanoLogInv PROVE QueueConsistent
    OBVIOUS
  <2>1. Cardinality(lock) <= 1
    <3>1. CASE lock = {}
      BY <3>1, FS_EmptySet
    <3>2. CASE \E c \in Calls : lock = {c}
      <4>1. PICK c \in Calls : lock = {c}
        BY <3>2
      <4>2. Cardinality({c}) = 1
        BY FS_Singleton
      <4> QED
        BY <4>1, <4>2
    <3> QED
      BY <3>1, <3>2 DEF NanoLogInv, OneHolder
  <2>2. log.open => /\ log.queue.cur \in StartIndex .. (MaxIndex + 1)
                    /\ log.queue.pend \subseteq Indices
                    /\ log.end \in Indices \union {MaxIndex + 1, EndOfLog}
                    /\ log.read \subseteq Indices \union {MaxIndex + 1}
                    /\ kv.mem[EndKey] \in StartIndex .. (MaxIndex + 1)
    <3> SUFFICES ASSUME log.open PROVE /\ log.queue.cur \in StartIndex .. (MaxIndex + 1)
                    /\ log.queue.pend \subseteq Indices
                    /\ log.end \in Indices \union {MaxIndex + 1, EndOfLog}
                    /\ log.read \subseteq Indices \union {MaxIndex + 1}
                    /\ kv.mem[EndKey] \in StartIndex .. (MaxIndex + 1)
      OBVIOUS
    <3>1. /\ log.end \in Ends \union {EndOfLog} /\ log.queue \in Queues
          /\ kv.mem[EndKey] \in Ends /\ log.read \subseteq Ends
      BY OpenState DEF OpenLog
    <3>2. log.queue.cur \in Ends /\ log.queue.pend \subseteq Indices
      BY <3>1 DEF Queues
    <3>3. Ends \subseteq Indices \union {MaxIndex + 1}
      BY RocksNanoLogConstants DEF Ends, Indices
    <3> QED
      BY <3>1, <3>2, <3>3 DEF Ends
  <2>3. TypeOK
    BY <2>1, <2>2 DEF NanoLogInv, Shape, TypeOK, Pcs
  <2> QED
    BY <2>3 DEF NanoLogInv, QueueConsistent
<1> QED
  BY <1>1, NanoLogInvHolds, PTL

-----------------------------------------------------------------------------
(***************************************************************************)
(* Decimal strings.  Induction takes the form of a least counterexample,   *)
(* and the recursive function is built from its finite approximations.     *)
(***************************************************************************)
LEMMA DivTen ==
  ASSUME NEW n \in Nat
  PROVE  /\ n \div 10 \in Nat /\ n % 10 \in Nat /\ n = (10 * (n \div 10)) + (n % 10)
         /\ n % 10 < 10 /\ (n >= 10 => n \div 10 < n) /\ n \div 10 <= n
<1>1. n \div 10 \in Int /\ n % 10 \in 0 .. 9
  OBVIOUS
<1>2. n = (10 * (n \div 10)) + (n % 10)
  OBVIOUS
<1> QED
  BY <1>1, <1>2

LEMMA DigitsDef ==
  \A n \in Nat : Digits[n] = IF n < 10 THEN <<n>> ELSE Append(Digits[n \div 10], n % 10)
<1> DEFINE Step1(f, k) == IF k < 10 THEN <<k>> ELSE Append(f[k \div 10], k % 10)
           Good(f, N) == /\ DOMAIN f = 0 .. N
                         /\ \A k \in 0 .. N : f[k] = Step1(f, k)
<1>1. ASSUME NEW N \in Nat, NEW M \in Nat, NEW f, NEW g, Good(f, N), Good(g, M)
      PROVE  \A k \in Nat : k <= N /\ k <= M => f[k] = g[k]
  <2> DEFINE S == {k \in Nat : k <= N /\ k <= M /\ f[k] # g[k]}
  <2> SUFFICES ASSUME S # {} PROVE FALSE
    OBVIOUS
  <2>1. PICK k \in S : \A j \in S : k <= j
    BY LeastElement
  <2>2. f[k] = Step1(f, k) /\ g[k] = Step1(g, k)
    <3>1. k \in 0 .. N /\ k \in 0 .. M
      BY <2>1
    <3>2. \A j \in 0 .. N : f[j] = Step1(f, j)
      BY <1>1 DEF Good
    <3>3. \A j \in 0 .. M : g[j] = Step1(g, j)
      BY <1>1 DEF Good
    <3> HIDE DEF Step1
    <3> QED
      BY <3>1, <3>2, <3>3
  <2>3. CASE k < 10
    BY <2>2, <2>3
  <2>4. CASE k >= 10
    <3>1. k \div 10 \in Nat /\ k \div 10 < k
      BY <2>4, DivTen
    <3>2. f[k \div 10] = g[k \div 10]
      BY <2>1, <3>1
    <3> QED
      BY <2>2, <2>4, <3>2
  <2> QED
    BY <2>3, <2>4
<1>2. ASSUME NEW N \in Nat
      PROVE  \E f : Good(f, N)
  <2> DEFINE S == {k \in Nat : ~ \E f : Good(f, k)}
  <2> SUFFICES ASSUME S # {} PROVE FALSE
    OBVIOUS
  <2>1. PICK k \in S : \A j \in S : k <= j
    BY LeastElement
  <2>2. CASE k = 0
    <3> DEFINE f == [j \in 0 .. 0 |-> <<j>>]
    <3>1. Good(f, 0)
      OBVIOUS
    <3> QED
      BY <2>2, <3>1
  <2>3. CASE k > 0
    <3>1. k - 1 \in Nat /\ k - 1 \notin S
      BY <2>1, <2>3
    <3>2. PICK g : Good(g, k - 1)
      BY <3>1
    <3> DEFINE f == [j \in 0 .. k |-> IF j < k THEN g[j] ELSE Step1(g, k)]
    <3>3. ASSUME NEW j \in 0 .. k
          PROVE  f[j] = Step1(f, j)
      <4>1. CASE j < 10
        BY <3>2, <4>1
      <4>2. CASE j >= 10
        <5>1. j \div 10 \in Nat /\ j \div 10 < j
          BY <4>2, DivTen
        <5>2. f[j \div 10] = g[j \div 10]
          BY <5>1
        <5>3. CASE j < k
          <6>0. j \in 0 .. (k - 1)
            BY <3>3, <5>3
          <6>1. g[j] = Step1(g, j)
            BY <3>2, <6>0
          <6> QED
            BY <4>2, <5>2, <5>3, <6>1
        <5>4. CASE j = k
          BY <4>2, <5>2, <5>4
        <5> QED
          BY <5>3, <5>4
      <4> QED
        BY <4>1, <4>2
    <3>4. Good(f, k)
      BY <3>3
    <3> QED
      BY <3>4
  <2> QED
    BY <2>2, <2>3
<1> DEFINE Part(n) == CHOOSE f : Good(f, n)
           F == [n \in Nat |-> Part(n)[n]]
<1>3. \A n \in Nat : Good(Part(n), n)
  BY <1>2
<1> HIDE DEF Part
<1>4. ASSUME NEW n \in Nat
      PROVE  F[n] = Step1(F, n)
  <2>1. F[n] = Part(n)[n] /\ Part(n)[n] = Step1(Part(n), n)
    BY <1>3
  <2>2. CASE n < 10
    BY <2>1, <2>2
  <2>3. CASE n >= 10
    <3>1. n \div 10 \in Nat /\ n \div 10 <= n
      BY DivTen
    <3>2. Good(Part(n), n) /\ Good(Part(n \div 10), n \div 10)
      BY <1>3, <3>1
    <3> HIDE DEF Good
    <3>3. Part(n)[n \div 10] = Part(n \div 10)[n \div 10]
      BY <1>1, <3>1, <3>2
    <3>4. F[n \div 10] = Part(n)[n \div 10]
      BY <3>1, <3>3
    <3> QED
      BY <2>1, <2>3, <3>4
  <2> QED
    BY <2>2, <2>3
<1> HIDE DEF F
<1>5. F = [n \in Nat |-> IF n < 10 THEN <<n>> ELSE Append(F[n \div 10], n % 10)]
  BY <1>4 DEF F
<1>6. Digits = [n \in Nat |-> IF n < 10 THEN <<n>> ELSE Append(Digits[n \div 10], n % 10)]
  BY <1>5 DEF Digits
<1> QED
  BY <1>6

(* A number has one digit, or a last digit after those of a smaller one. *)
LEMMA LastDigit ==
  ASSUME NEW n \in Nat
  PROVE  \/ n < 10 /\ Digits[n] = <<n>>
         \/ n >= 10 /\ \E m \in Nat, a \in 0 .. 9 :
              m < n /\ n = (10 * m) + a /\ Digits[n] = Append(Digits[m], a)
<1>1. CASE n < 10
  BY <1>1, DigitsDef
<1>2. CASE n >= 10
  <2>1. n \div 10 \in Nat /\ n % 10 \in 0 .. 9 /\ n \div 10 < n
        /\ n = (10 * (n \div 10)) + (n % 10)
    BY <1>2, DivTen
  <2>2. ~(n < 10)
    BY <1>2
  <2>3. Digits[n] = Append(Digits[n \div 10], n % 10)
    BY <2>2, DigitsDef, Zenon
  <2> QED
    BY <1>2, <2>1, <2>3
<1> QED
  BY <1>1, <1>2

LEMMA AppendFacts ==
  ASSUME NEW s \in Seq(Nat), NEW e \in Nat
  PROVE  /\ Append(s, e) \in Seq(Nat) /\ Len(Append(s, e)) = Len(s) + 1
         /\ \A i \in 1 .. Len(s) : Append(s, e)[i] = s[i]
         /\ Append(s, e)[Len(s) + 1] = e /\ Len(s) \in Nat
OBVIOUS

LEMMA SequencesEqual ==
  ASSUME NEW s \in Seq(Nat), NEW t \in Seq(Nat), Len(s) = Len(t),
         \A i \in 1 .. Len(s) : s[i] = t[i]
  PROVE  s = t
OBVIOUS

LEMMA AppendBoth ==
  ASSUME NEW s \in Seq(Nat), NEW t \in Seq(Nat), NEW a \in Nat, NEW b \in Nat,
         Append(s, a) = Append(t, b)
  PROVE  s = t /\ a = b
<1> DEFINE x == Append(s, a)
           y == Append(t, b)
<1>1. /\ Len(x) = Len(s) + 1 /\ Len(s) \in Nat /\ x[Len(s) + 1] = a
      /\ \A i \in 1 .. Len(s) : x[i] = s[i]
  BY AppendFacts
<1>2. /\ Len(y) = Len(t) + 1 /\ Len(t) \in Nat /\ y[Len(t) + 1] = b
      /\ \A i \in 1 .. Len(t) : y[i] = t[i]
  BY AppendFacts
<1>3. x = y
  OBVIOUS
<1> HIDE DEF x, y
<1>4. Len(s) = Len(t)
  BY <1>1, <1>2, <1>3
<1>5. a = b /\ \A i \in 1 .. Len(s) : s[i] = t[i]
  BY <1>1, <1>2, <1>3, <1>4
<1> QED
  BY <1>4, <1>5, SequencesEqual

LEMMA DigitsSequence == \A n \in Nat : Digits[n] \in Seq(Nat)
<1> DEFINE S == {n \in Nat : Digits[n] \notin Seq(Nat)}
<1> SUFFICES ASSUME S # {} PROVE FALSE
  OBVIOUS
<1>1. PICK n \in S : \A k \in S : n <= k
  BY LeastElement
<1>2. n \in Nat /\ Digits[n] \notin Seq(Nat) /\ \A m \in Nat : m < n => Digits[m] \in Seq(Nat)
  BY <1>1
<1> HIDE DEF S
<1>3. CASE n < 10 /\ Digits[n] = <<n>>
  <2>1. <<n>> \in Seq(Nat)
    BY <1>2
  <2> QED
    BY <1>2, <1>3, <2>1
<1>4. CASE \E m \in Nat, a \in 0 .. 9 :
             m < n /\ n = (10 * m) + a /\ Digits[n] = Append(Digits[m], a)
  <2>1. PICK m \in Nat, a \in 0 .. 9 : m < n /\ Digits[n] = Append(Digits[m], a)
    BY <1>4
  <2>2. Digits[m] \in Seq(Nat) /\ a \in Nat
    BY <1>2, <2>1
  <2>3. Append(Digits[m], a) \in Seq(Nat)
    BY <2>2, AppendFacts
  <2> QED
    BY <1>2, <2>1, <2>3
<1> QED
  BY <1>2, <1>3, <1>4, LastDigit

OneDigit(n) == n < 10 /\ Digits[n] = <<n>> /\ Len(Digits[n]) = 1
Shortens(n, m, a) == m < n /\ n = (10 * m) + a /\ Digits[n] = Append(Digits[m], a)
MoreDigits(n) == /\ n >= 10 /\ Len(Digits[n]) >= 2
                 /\ \E m \in Nat, a \in 0 .. 9 : Shortens(n, m, a)

(* The same, with what follows of the length. *)
LEMMA DigitsCases ==
  ASSUME NEW n \in Nat
  PROVE  Digits[n] \in Seq(Nat) /\ (OneDigit(n) \/ MoreDigits(n))
<1>0. Digits[n] \in Seq(Nat)
  BY DigitsSequence
<1>1. CASE n < 10 /\ Digits[n] = <<n>>
  <2>1. Len(<<n>>) = 1
    OBVIOUS
  <2> QED
    BY <1>0, <1>1, <2>1 DEF OneDigit
<1>2. ASSUME n >= 10, NEW m \in Nat, NEW a \in 0 .. 9, m < n, n = (10 * m) + a,
             Digits[n] = Append(Digits[m], a)
      PROVE  Len(Digits[n]) >= 2
  <2>1. Digits[m] \in Seq(Nat) /\ a \in Nat
    BY DigitsSequence
  <2>2. Len(Digits[n]) = Len(Digits[m]) + 1 /\ Len(Digits[m]) \in Nat
    BY <1>2, <2>1, AppendFacts
  <2>3. Len(Digits[m]) # 0
    <3> SUFFICES ASSUME Len(Digits[m]) = 0 PROVE FALSE
      OBVIOUS
    <3>1. CASE Digits[m] = <<m>>
      <4>1. Len(<<m>>) = 1
        OBVIOUS
      <4> QED
        BY <3>1, <4>1
    <3>2. CASE \E k \in Nat, b \in 0 .. 9 : Digits[m] = Append(Digits[k], b)
      <4>1. PICK k \in Nat, b \in 0 .. 9 : Digits[m] = Append(Digits[k], b)
        BY <3>2
      <4>2. Digits[k] \in Seq(Nat) /\ b \in Nat
        BY DigitsSequence
      <4> QED
        BY <4>1, <4>2, AppendFacts
    <3> QED
      BY <3>1, <3>2, LastDigit
  <2> QED
    BY <2>2, <2>3
<1>3. CASE n >= 10 /\ \E m \in Nat, a \in 0 .. 9 :
             m < n /\ n = (10 * m) + a /\ Digits[n] = Append(Digits[m], a)
  <2>1. PICK m \in Nat, a \in 0 .. 9 :
             m < n /\ n = (10 * m) + a /\ Digits[n] = Append(Digits[m], a)
    BY <1>3
  <2>2. Len(Digits[n]) >= 2
    BY <1>2, <1>3, <2>1
  <2>3. Shortens(n, m, a)
    BY <2>1 DEF Shortens
  <2> QED
    BY <1>0, <1>3, <2>2, <2>3 DEF MoreDigits
<1> QED
  BY <1>1, <1>3, LastDigit

LEMMA DigitsInjective ==
  \A n, t \in Nat : Digits[n] = Digits[t] => n = t
<1> DEFINE S == {n \in Nat : \E t \in Nat : Digits[n] = Digits[t] /\ n # t}
<1> SUFFICES ASSUME S # {} PROVE FALSE
  OBVIOUS
<1>1. PICK n \in S : \A k \in S : n <= k
  BY LeastElement
<1>2. n \in Nat /\ \A m, u \in Nat : m < n /\ Digits[m] = Digits[u] => m = u
  BY <1>1
<1>3. PICK t \in Nat : Digits[n] = Digits[t] /\ n # t
  BY <1>1
<1> HIDE DEF S
<1>4. Len(Digits[n]) = Len(Digits[t])
  BY <1>3
<1>5. CASE OneDigit(n)
  <2>1. OneDigit(t)
    <3>1. OneDigit(t) \/ MoreDigits(t)
      BY DigitsCases
    <3>2. Len(Digits[t]) = 1
      BY <1>4, <1>5 DEF OneDigit
    <3> QED
      BY <3>1, <3>2 DEF MoreDigits
  <2>2. <<n>> = <<t>>
    BY <1>3, <1>5, <2>1 DEF OneDigit
  <2> QED
    BY <1>3, <2>2
<1>6. CASE MoreDigits(n)
  <2>0. MoreDigits(t)
    <3>1. OneDigit(t) \/ MoreDigits(t)
      BY DigitsCases
    <3>2. Len(Digits[t]) >= 2
      BY <1>4, <1>6 DEF MoreDigits
    <3>3. OneDigit(t) => Len(Digits[t]) = 1
      BY DEF OneDigit
    <3>4. Len(Digits[t]) # 1
      <4> DEFINE l == Len(Digits[t])
      <4>1. l \in Nat /\ l >= 2
        BY <3>2, DigitsSequence
      <4> HIDE DEF l
      <4>2. l # 1
        BY <4>1
      <4> QED
        BY <4>2 DEF l
    <3> QED
      BY <3>1, <3>3, <3>4
  <2>1. PICK m \in Nat, a \in 0 .. 9 : Shortens(n, m, a)
    BY <1>6 DEF MoreDigits
  <2>2. PICK u \in Nat, b \in 0 .. 9 : Shortens(t, u, b)
    BY <2>0 DEF MoreDigits
  <2>3. Digits[m] \in Seq(Nat) /\ Digits[u] \in Seq(Nat) /\ a \in Nat /\ b \in Nat
    BY DigitsSequence
  <2>4. Append(Digits[m], a) = Append(Digits[u], b)
    BY <1>3, <2>1, <2>2 DEF Shortens
  <2>5. Digits[m] = Digits[u] /\ a = b
    <3> DEFINE x == Digits[m]
               y == Digits[u]
    <3>1. x \in Seq(Nat) /\ y \in Seq(Nat) /\ Append(x, a) = Append(y, b)
      BY <2>3, <2>4
    <3> HIDE DEF x, y
    <3>2. x = y /\ a = b
      BY <2>3, <3>1, AppendBoth
    <3> QED
      BY <3>2 DEF x, y
  <2>6. m < n /\ n = (10 * m) + a /\ t = (10 * u) + b
    BY <2>1, <2>2 DEF Shortens
  <2>7. m = u
    BY <1>2, <2>5, <2>6
  <2> QED
    BY <1>3, <2>5, <2>6, <2>7
<1> QED
  BY <1>2, <1>5, <1>6, DigitsCases

(* The order on strings, digit by digit. *)
Before(s, t) ==
  \/ Len(s) < Len(t) /\ \A j \in 1 .. Len(s) : s[j] = t[j]
  \/ \E i \in 1 .. Len(s) : s[i] < t[i] /\ \A j \in 1 .. (i - 1) : s[j] = t[j]

LEMMA LexIsBefore ==
  ASSUME NEW s \in Seq(Nat), NEW t \in Seq(Nat), LexLess(s, t), Len(s) <= Len(t)
  PROVE  Before(s, t)
<1>0. Len(s) \in Nat /\ Len(t) \in Nat
  OBVIOUS
<1>1. CASE Len(s) < Len(t) /\ SubSeq(t, 1, Len(s)) = s
  <2>1. \A j \in 1 .. Len(s) : SubSeq(t, 1, Len(s))[j] = t[j]
    BY <1>0, <1>1, SubSeqProperties
  <2> QED
    BY <1>1, <2>1 DEF Before
<1>2. CASE \E i \in 1 .. Len(s) : /\ i <= Len(t) /\ s[i] < t[i]
                                  /\ SubSeq(s, 1, i - 1) = SubSeq(t, 1, i - 1)
  <2>1. PICK i \in 1 .. Len(s) : /\ i <= Len(t) /\ s[i] < t[i]
                                 /\ SubSeq(s, 1, i - 1) = SubSeq(t, 1, i - 1)
    BY <1>2
  <2>2. \A j \in 1 .. (i - 1) : SubSeq(s, 1, i - 1)[j] = s[j] /\ SubSeq(t, 1, i - 1)[j] = t[j]
    BY <1>0, <2>1
  <2>3. \A j \in 1 .. (i - 1) : s[j] = t[j]
    BY <2>1, <2>2
  <2> QED
    BY <2>1, <2>3 DEF Before
<1> QED
  BY <1>1, <1>2 DEF LexLess

LEMMA AppendBefore ==
  ASSUME NEW s \in Seq(Nat), NEW t \in Seq(Nat), NEW a \in Nat, NEW b \in Nat,
         Before(Append(s, a), Append(t, b)), Len(Append(s, a)) <= Len(Append(t, b))
  PROVE  Len(s) <= Len(t) /\ (Before(s, t) \/ (s = t /\ a < b))
<1> DEFINE x == Append(s, a)
           y == Append(t, b)
<1>1. /\ Len(x) = Len(s) + 1 /\ Len(s) \in Nat /\ x[Len(s) + 1] = a
      /\ \A i \in 1 .. Len(s) : x[i] = s[i]
  BY AppendFacts
<1>2. /\ Len(y) = Len(t) + 1 /\ Len(t) \in Nat /\ y[Len(t) + 1] = b
      /\ \A i \in 1 .. Len(t) : y[i] = t[i]
  BY AppendFacts
<1>3. Before(x, y) /\ Len(x) <= Len(y)
  OBVIOUS
<1> HIDE DEF x, y
<1>4. Len(s) <= Len(t)
  BY <1>1, <1>2, <1>3
<1>5. CASE Len(x) < Len(y) /\ \A j \in 1 .. Len(x) : x[j] = y[j]
  <2>1. Len(s) < Len(t)
    BY <1>1, <1>2, <1>5
  <2>2. ASSUME NEW j \in 1 .. Len(s) PROVE s[j] = t[j]
    <3>1. j \in 1 .. Len(x) /\ j \in 1 .. Len(t)
      BY <1>1, <1>2, <2>1
    <3>2. x[j] = s[j] /\ y[j] = t[j] /\ x[j] = y[j]
      BY <1>1, <1>2, <1>5, <3>1
    <3> QED
      BY <3>2
  <2> QED
    BY <1>4, <2>1, <2>2 DEF Before
<1>6. ASSUME NEW i \in 1 .. Len(x), x[i] < y[i], \A j \in 1 .. (i - 1) : x[j] = y[j]
      PROVE  Before(s, t) \/ (s = t /\ a < b)
  <2>0. i \in Nat /\ i >= 1 /\ i <= Len(s) + 1
    BY <1>1, <1>6
  <2>1. ASSUME NEW j \in 1 .. (i - 1) PROVE s[j] = t[j]
    <3>1. j \in 1 .. Len(s) /\ j \in 1 .. Len(t)
      BY <1>1, <1>2, <1>4, <2>0
    <3>2. x[j] = s[j] /\ y[j] = t[j] /\ x[j] = y[j]
      BY <1>1, <1>2, <1>6, <3>1
    <3> QED
      BY <3>2
  <2>2. CASE i <= Len(s)
    <3>0. i \in 1 .. Len(s) /\ i \in 1 .. Len(t)
      BY <1>1, <1>2, <1>4, <2>0, <2>2
    <3>1. s[i] < t[i] /\ i \in 1 .. Len(s)
      <4>1. x[i] = s[i]
        BY <1>1, <1>2, <3>0
      <4>2. y[i] = t[i]
        BY <1>1, <1>2, <3>0
      <4> QED
        BY <1>6, <3>0, <4>1, <4>2
    <3> QED
      BY <2>1, <3>1 DEF Before
  <2>3. CASE i = Len(s) + 1
    <3>1. \A j \in 1 .. Len(s) : s[j] = t[j]
      BY <1>1, <2>1, <2>3
    <3>2. CASE Len(s) < Len(t)
      BY <3>1, <3>2 DEF Before
    <3>3. CASE Len(s) = Len(t)
      <4>1. s = t
        BY <3>1, <3>3, SequencesEqual
      <4>2. a < b
        BY <1>1, <1>2, <1>6, <2>3, <3>3
      <4> QED
        BY <4>1, <4>2
    <3> QED
      BY <1>1, <1>2, <1>4, <3>2, <3>3
  <2> QED
    BY <1>1, <2>0, <2>2, <2>3
<1> QED
  BY <1>3, <1>4, <1>5, <1>6 DEF Before

(* Among strings of digits that are not longer, the order is the numbers'. *)
LEMMA BeforeIsLess ==
  \A n, t \in Nat : Before(Digits[n], Digits[t]) /\ Len(Digits[n]) <= Len(Digits[t]) => n < t
<1> DEFINE Below(n, t) == Before(Digits[n], Digits[t]) /\ Len(Digits[n]) <= Len(Digits[t])
           S == {n \in Nat : \E t \in Nat : Below(n, t) /\ t <= n}
<1> SUFFICES ASSUME S # {} PROVE FALSE
  OBVIOUS
<1>1. PICK n \in S : \A k \in S : n <= k
  BY LeastElement
<1>2. n \in Nat /\ \A m, u \in Nat : m < n /\ Below(m, u) => m < u
  BY <1>1
<1>3. PICK t \in Nat : Below(n, t) /\ t <= n
  BY <1>1
<1> HIDE DEF S
<1>4. (OneDigit(n) \/ MoreDigits(n)) /\ (OneDigit(t) \/ MoreDigits(t))
  BY <1>2, DigitsCases
<1>5. CASE OneDigit(t)
  <2>1. Len(Digits[n]) <= 1
    BY <1>3, <1>5 DEF OneDigit
  <2>2. OneDigit(n)
    BY <1>4, <2>1 DEF MoreDigits
  <2>3. Digits[n] = <<n>> /\ Digits[t] = <<t>> /\ Len(Digits[n]) = 1 /\ Len(Digits[t]) = 1
    BY <1>5, <2>2 DEF OneDigit
  <2>4. Digits[n][1] < Digits[t][1]
    BY <1>3, <2>3 DEF Before
  <2>5. <<n>>[1] = n /\ <<t>>[1] = t
    OBVIOUS
  <2> QED
    BY <1>2, <1>3, <2>3, <2>4, <2>5
<1>6. CASE MoreDigits(t)
  <2>0. MoreDigits(n)
    BY <1>2, <1>3, <1>4, <1>6 DEF MoreDigits, OneDigit
  <2>1. PICK u \in Nat, b \in 0 .. 9 : Shortens(t, u, b)
    BY <1>6 DEF MoreDigits
  <2>2. PICK m \in Nat, a \in 0 .. 9 : Shortens(n, m, a)
    BY <2>0 DEF MoreDigits
  <2>3. m < n /\ n = (10 * m) + a /\ t = (10 * u) + b
    BY <2>1, <2>2 DEF Shortens
  <2>4. Digits[n] = Append(Digits[m], a) /\ Digits[t] = Append(Digits[u], b)
    BY <2>1, <2>2 DEF Shortens
  <2>5. Digits[m] \in Seq(Nat) /\ Digits[u] \in Seq(Nat) /\ a \in Nat /\ b \in Nat
    BY DigitsSequence
  <2>6. /\ Before(Append(Digits[m], a), Append(Digits[u], b))
        /\ Len(Append(Digits[m], a)) <= Len(Append(Digits[u], b))
    BY <1>3, <2>4
  <2>7. Len(Digits[m]) <= Len(Digits[u])
        /\ (Before(Digits[m], Digits[u]) \/ (Digits[m] = Digits[u] /\ a < b))
    BY <2>5, <2>6, AppendBefore
  <2>8. CASE Before(Digits[m], Digits[u])
    <3>1. m < u
      BY <1>2, <2>3, <2>7, <2>8
    <3> QED
      BY <1>3, <2>3, <3>1
  <2>9. CASE Digits[m] = Digits[u] /\ a < b
    <3>1. m = u
      BY <2>9, DigitsInjective
    <3> QED
      BY <1>3, <2>3, <2>9, <3>1
  <2> QED
    BY <2>7, <2>8, <2>9
<1> QED
  BY <1>4, <1>5, <1>6

(* What trim(t) deletes is a smaller log id or one with more digits. *)
LEMMA TrimOrder ==
  ASSUME NEW t \in Indices, NEW n \in Trimmed(t)
  PROVE  n < t \/ Len(Digits[n]) > Len(Digits[t])
<1>1. n \in Nat /\ t \in Nat /\ LexLess(Digits[n], Digits[t])
  BY RocksNanoLogConstants DEF Trimmed, Indices
<1>2. /\ Digits[n] \in Seq(Nat) /\ Digits[t] \in Seq(Nat)
      /\ Len(Digits[n]) \in Nat /\ Len(Digits[t]) \in Nat
  BY <1>1, DigitsSequence
<1>3. CASE Len(Digits[n]) <= Len(Digits[t])
  BY <1>1, <1>2, <1>3, LexIsBefore, BeforeIsLess
<1> QED
  BY <1>2, <1>3

-----------------------------------------------------------------------------
(* What a replica has acknowledged is on disk *)

Stored(n)  == LogKey(n) \in DOMAIN kv.mem \/ TrimmedAway(n)
Durable(n) == (\A m \in kv.kept : LogKey(n) \in DOMAIN m) \/ TrimmedAway(n)

(* No step loses an entry but a trim, or a crash that loses the writes after
   the last flush. *)
StoreKept == \A n \in Indices : (Stored(n) => Stored(n)') /\ (Durable(n) => Durable(n)')

LEMMA WriteKeeps ==
  ASSUME Shape, NEW key, DOMAIN kv'.mem = DOMAIN kv.mem \union {key},
         kv'.kept = kv.kept \union {kv'.mem}, trims' = trims
  PROVE  StoreKept /\ \A n \in Indices : LogKey(n) = key => Stored(n)'
<1>1. kv.mem \in kv.kept
  BY DEF Shape
<1>2. \A n : TrimmedAway(n)' <=> TrimmedAway(n)
  BY DEF TrimmedAway
<1> QED
  BY <1>1, <1>2 DEF StoreKept, Stored, Durable

LEMMA FlushKeeps ==
  ASSUME Shape, kv' = FlushWal(kv), trims' = trims
  PROVE  StoreKept /\ \A n \in Indices : Stored(n) => Durable(n)'
<1>1. kv.mem \in kv.kept /\ kv'.mem = kv.mem /\ kv'.kept = {kv.mem}
  BY FlushFacts DEF Shape
<1>2. \A n : TrimmedAway(n)' <=> TrimmedAway(n)
  BY DEF TrimmedAway
<1> QED
  BY <1>1, <1>2 DEF StoreKept, Stored, Durable

LEMMA SameKeeps ==
  ASSUME kv' = kv, trims' = trims
  PROVE  StoreKept
BY DEF StoreKept, Stored, Durable, TrimmedAway

LEMMA TrimKeeps ==
  ASSUME Shape, NEW t \in Indices, Trim(t)
  PROVE  StoreKept
<1> DEFINE keys == {LogKey(n) : n \in Trimmed(t)}
<1>1. kv' = DeleteKeys(kv, keys) /\ trims' = trims \union {t} /\ kv.mem \in kv.kept
  BY DEF Trim, Shape
<1>2. DOMAIN kv'.mem = DOMAIN kv.mem \ keys /\ kv'.kept = kv.kept \union {kv'.mem}
  BY <1>1, DeleteFacts
<1>3. \A n : TrimmedAway(n) => TrimmedAway(n)'
  BY <1>1 DEF TrimmedAway
<1>4. \A n \in Indices : LogKey(n) \in keys => TrimmedAway(n)'
  <2> SUFFICES ASSUME NEW n \in Indices, LogKey(n) \in keys PROVE TrimmedAway(n)'
    OBVIOUS
  <2>1. n \in Trimmed(t)
    BY KeysApart DEF Trimmed
  <2>2. n < t \/ Len(Digits[n]) > Len(Digits[t])
    BY <2>1, TrimOrder
  <2>3. t \in trims'
    BY <1>1
  <2> QED
    BY <2>2, <2>3 DEF TrimmedAway
<1> HIDE DEF keys
<1> QED
  BY <1>1, <1>2, <1>3, <1>4 DEF StoreKept, Stored, Durable

(* A call may give up, go on with its entry stored, or, when it was
   acknowledged, with its entry on disk. *)
LEMMA EntriesStep ==
  ASSUME EntriesFlushed, StoreKept,
         \A c \in Calls :
           \/ call'[c] = call[c]
           \/ call'[c].pc \in {"new", "cache", "get", "put", "failed"}
           \/ call[c].pc = "await" /\ call'[c].pc = "acked"
           \/ call'[c].pc \in {"lock", "putEnd", "flushEnd"} /\ Stored(c.id)'
           \/ call'[c].pc \in {"await", "acked"} /\ (c.bare \/ Durable(c.id)')
  PROVE  EntriesFlushed'
<1> SUFFICES ASSUME NEW c \in Calls
             PROVE  /\ call'[c].pc \in {"lock", "putEnd", "flushEnd"} => Stored(c.id)'
                    /\ call'[c].pc \in {"await", "acked"} /\ ~c.bare => Durable(c.id)'
  BY DEF EntriesFlushed, Stored, Durable
<1>1. /\ call[c].pc \in {"lock", "putEnd", "flushEnd"} => Stored(c.id)
      /\ call[c].pc \in {"await", "acked"} /\ ~c.bare => Durable(c.id)
  BY DEF EntriesFlushed, Stored, Durable
<1>2. (Stored(c.id) => Stored(c.id)') /\ (Durable(c.id) => Durable(c.id)')
  BY CallFacts DEF StoreKept
<1> QED
  BY <1>1, <1>2

LEMMA EntryOfCall ==
  ASSUME EntriesFlushed, NEW c \in Calls, call[c].pc \in {"lock", "putEnd", "flushEnd"}
  PROVE  Stored(c.id)
BY DEF EntriesFlushed, Stored

(* A step of one call, the others unchanged. *)
LEMMA OneCallStep ==
  ASSUME EntriesFlushed, Shape, StoreKept, NEW c \in Calls, NEW pc, NEW arg, Step(c, pc, arg),
         \/ pc \in {"new", "cache", "get", "put", "failed"}
         \/ pc \in {"lock", "putEnd", "flushEnd"} /\ Stored(c.id)'
  PROVE  EntriesFlushed'
<1>1. /\ call'[c].pc = pc
      /\ \A x \in Calls : x # c => call'[x] = call[x]
  BY StepFacts
<1> QED
  BY <1>1, EntriesStep

LEMMA EntriesInductive ==
  ASSUME NanoLogInv, EntriesFlushed, [Next]_vars
  PROVE  EntriesFlushed'
<1>0. Shape
  BY DEF NanoLogInv
<1>1. CASE MakeNanoLog
  <2> DEFINE db == KvPut(kv, EndKey, StartIndex)
  <2>1. /\ DOMAIN db.mem = DOMAIN kv.mem \union {EndKey} /\ db.kept = kv.kept \union {db.mem}
    BY DEF KvPut, Written
  <2> HIDE DEF db
  <2>2. kv' = KvPut(db, SealKey, FALSE) /\ call' = call /\ trims' = trims
    BY <1>1 DEF MakeNanoLog, InitKeys, db
  <2>3. DOMAIN kv'.mem = DOMAIN db.mem \union {SealKey} /\ kv'.kept = db.kept \union {kv'.mem}
    BY <2>2 DEF KvPut, Written
  <2>4. kv.mem \in kv.kept
    BY <1>0 DEF Shape
  <2>5. StoreKept
    BY <2>1, <2>2, <2>3, <2>4 DEF StoreKept, Stored, Durable, TrimmedAway
  <2> QED
    BY <2>2, <2>5, EntriesStep
<1>2. CASE \E c \in Calls : TestSeal(c) \/ ReadSeal(c) \/ CacheSeal(c) \/ TestFree(c)
  <2>1. PICK c \in Calls : TestSeal(c) \/ ReadSeal(c) \/ CacheSeal(c) \/ TestFree(c)
    BY <1>2
  <2>2. kv' = kv /\ trims' = trims
    BY <2>1 DEF TestSeal, ReadSeal, CacheSeal, TestFree
  <2>3. PICK pc \in {"cache", "get", "put", "failed"}, arg \in {0, kv.mem[SealKey]} : Step(c, pc, arg)
    BY <2>1 DEF TestSeal, ReadSeal, CacheSeal, TestFree, AfterSealTest
  <2> QED
    BY <1>0, <2>2, <2>3, SameKeeps, OneCallStep
<1>3. CASE \E c \in Calls : PutEntry(c)
  <2>1. PICK c \in Calls : PutEntry(c)
    BY <1>3
  <2>2. Step(c, "lock", 0) /\ kv' = KvPut(kv, LogKey(c.id), TRUE) /\ trims' = trims
    BY <2>1 DEF PutEntry
  <2>3. /\ DOMAIN kv'.mem = DOMAIN kv.mem \union {LogKey(c.id)}
        /\ kv'.kept = kv.kept \union {kv'.mem}
    BY <2>2 DEF KvPut, Written
  <2>4. StoreKept /\ Stored(c.id)'
    BY <1>0, <2>2, <2>3, WriteKeeps, CallFacts
  <2> QED
    BY <1>0, <2>2, <2>4, OneCallStep
<1>4. CASE \E c \in Calls, gci \in Indices : CompleteThenPersist(c, gci)
  <2>1. PICK c \in Calls, gci \in Indices : CompleteThenPersist(c, gci)
    BY <1>4
  <2>2. kv' = kv /\ trims' = trims /\ call[c].pc = "lock"
    BY <2>1 DEF CompleteThenPersist
  <2>3. PICK done : call' = CallsAfter(c, done, "putEnd", gci + 1)
    BY <2>1 DEF CompleteThenPersist
  <2>4. StoreKept /\ Stored(c.id)'
    BY <2>2, SameKeeps, EntryOfCall, CallFacts DEF StoreKept
  <2>5. call'[c].pc = "putEnd" /\ \A x \in Calls : x # c =>
          \/ call'[x] = call[x]
          \/ call[x].pc = "await" /\ call'[x].pc \in {"failed", "acked"}
    BY <2>3, AfterFacts
  <2> QED
    BY <2>4, <2>5, EntriesStep
<1>5. CASE \E c \in Calls : DeferThenPersist(c)
  <2>1. PICK c \in Calls : DeferThenPersist(c)
    BY <1>5
  <2>2. kv' = kv /\ trims' = trims /\ call[c].pc = "lock" /\ c.bare
    BY <2>1 DEF DeferThenPersist
  <2>3. \/ \E arg : call' = CallsAfter(c, {}, "putEnd", arg)
        \/ call' = CallsAfter(c, {}, "await", 0)
    BY <2>1 DEF DeferThenPersist
  <2>4. StoreKept /\ Stored(c.id)'
    BY <2>2, SameKeeps, EntryOfCall, CallFacts DEF StoreKept
  <2>5. call'[c].pc \in {"putEnd", "await"} /\ \A x \in Calls : x # c =>
          \/ call'[x] = call[x]
          \/ call[x].pc = "await" /\ call'[x].pc \in {"failed", "acked"}
    BY <2>3, AfterFacts
  <2> QED
    BY <2>2, <2>4, <2>5, EntriesStep
<1>6. CASE \E c \in Calls : PutEndIndex(c)
  <2>1. PICK c \in Calls : PutEndIndex(c)
    BY <1>6
  <2>2. /\ Step(c, "flushEnd", call[c].arg) /\ call[c].pc = "putEnd"
        /\ kv' = KvPut(kv, EndKey, call[c].arg) /\ trims' = trims
    BY <2>1 DEF PutEndIndex
  <2>3. /\ DOMAIN kv'.mem = DOMAIN kv.mem \union {EndKey}
        /\ kv'.kept = kv.kept \union {kv'.mem}
    BY <2>2, PutFacts
  <2>4. StoreKept
    BY <1>0, <2>2, <2>3, WriteKeeps
  <2>5. Stored(c.id)'
    BY <2>2, <2>4, EntryOfCall, CallFacts DEF StoreKept
  <2> QED
    BY <1>0, <2>2, <2>4, <2>5, OneCallStep
<1>7. CASE \E c \in Calls : FlushEndIndex(c)
  <2>1. PICK c \in Calls : FlushEndIndex(c)
    BY <1>7
  <2>2. kv' = FlushWal(kv) /\ trims' = trims /\ call[c].pc = "flushEnd"
    BY <2>1 DEF FlushEndIndex
  <2> DEFINE r == IF c.bare THEN CompleteAllBelow(log.queue, call[c].arg - 1)
                            ELSE [queue |-> log.queue, done |-> {}]
             own == IF c.id \in r.queue.pend THEN "await" ELSE "acked"
  <2>3. call' = CallsAfter(c, r.done, own, 0) /\ own \in {"await", "acked"}
    BY <2>1 DEF FlushEndIndex
  <2> HIDE DEF r, own
  <2>4. StoreKept /\ Durable(c.id)'
    BY <1>0, <2>2, FlushKeeps, EntryOfCall, CallFacts
  <2>5. call'[c].pc = own /\ \A x \in Calls : x # c =>
          \/ call'[x] = call[x]
          \/ call[x].pc = "await" /\ call'[x].pc \in {"failed", "acked"}
    BY <2>3, AfterFacts
  <2> QED
    BY <2>3, <2>4, <2>5, EntriesStep
<1>8. CASE \E c \in Calls : FlushEndFails(c)
  <2>1. PICK c \in Calls : FlushEndFails(c)
    BY <1>8
  <2>2. kv' = kv /\ trims' = trims /\ Step(c, "failed", 0)
    BY <2>1 DEF FlushEndFails
  <2> QED
    BY <1>0, <2>2, SameKeeps, OneCallStep
<1>9. CASE SealBegin \/ SealPut \/ SealFlush \/ SealFlushFails \/ GetLocalCommitIndex \/ CacheEndIndex
  <2>1. call' = call /\ trims' = trims
    BY <1>9 DEF SealBegin, SealPut, SealFlush, SealFlushFails, GetLocalCommitIndex, CacheEndIndex
  <2>2. kv' = kv \/ kv' = FlushWal(kv) \/ kv' = KvPut(kv, SealKey, TRUE)
    BY <1>9 DEF SealBegin, SealPut, SealFlush, SealFlushFails, GetLocalCommitIndex, CacheEndIndex
  <2>3. CASE kv' = KvPut(kv, SealKey, TRUE)
    <3>1. /\ DOMAIN kv'.mem = DOMAIN kv.mem \union {SealKey}
          /\ kv'.kept = kv.kept \union {kv'.mem}
      BY <2>3 DEF KvPut, Written
    <3>2. StoreKept
      BY <1>0, <2>1, <3>1, WriteKeeps
    <3> QED
      BY <2>1, <3>2, EntriesStep
  <2>4. CASE kv' = kv \/ kv' = FlushWal(kv)
    <3>1. StoreKept
      BY <1>0, <2>1, <2>4, SameKeeps, FlushKeeps
    <3> QED
      BY <2>1, <3>1, EntriesStep
  <2> QED
    BY <2>2, <2>3, <2>4
<1>10. CASE \E t \in Indices : Trim(t)
  <2>1. PICK t \in Indices : Trim(t)
    BY <1>10
  <2>2. call' = call
    BY <2>1 DEF Trim
  <2> QED
    BY <1>0, <2>1, <2>2, TrimKeeps, EntriesStep
<1>11. CASE Crash
  <2>1. PICK m \in kv.kept : kv' = Reopen(m)
    BY <1>11 DEF Crash
  <2>2. kv'.kept = {m} /\ trims' = trims
    BY <1>11, <2>1 DEF Reopen, Crash
  <2>3. \A c \in Calls : Durable(c.id) => Durable(c.id)'
    BY <2>1, <2>2 DEF Durable, TrimmedAway
  <2>4. \A c \in Calls : /\ call'[c].pc \in {"new", "acked", "failed"}
                         /\ call'[c].pc = "acked" => call[c].pc = "acked"
    BY <1>0, <1>11 DEF Crash, Running, Shape, Pcs
  <2>5. \A c \in Calls : call[c].pc = "acked" /\ ~c.bare => Durable(c.id)
    BY DEF EntriesFlushed, Durable
  <2>6. \A c \in Calls : call'[c].pc = "acked" /\ ~c.bare => Durable(c.id)'
    BY <2>3, <2>4, <2>5
  <2> QED
    BY <2>4, <2>6 DEF EntriesFlushed, Durable
<1>12. CASE UNCHANGED vars
  <2>1. kv' = kv /\ trims' = trims /\ call' = call
    BY <1>12 DEF vars
  <2> QED
    BY <2>1, SameKeeps, EntriesStep
<1> QED
  BY <1>1, <1>2, <1>3, <1>4, <1>5, <1>6, <1>7, <1>8, <1>9, <1>10, <1>11, <1>12 DEF Next

(* An append the sequencer was told about survives any crash, whichever of
   the writes after the last flush it loses, unless a trim covers it. *)
THEOREM AckedIsDurable == Spec => []AckedSurvivesCrash
<1>1. Init => EntriesFlushed
  BY DEF Init, EntriesFlushed
<1>2. NanoLogInv /\ EntriesFlushed /\ [Next]_vars => EntriesFlushed'
  BY EntriesInductive
<1>3. EntriesFlushed => AckedSurvivesCrash
  BY DEF EntriesFlushed, AckedSurvivesCrash, TrimmedAway
<1> QED
  BY <1>1, <1>2, <1>3, NanoLogInvHolds, PTL DEF Spec
=============================================================================
