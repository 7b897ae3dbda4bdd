---------------------------- MODULE RocksNanoLog ----------------------------
(***************************************************************************)
(* One segment of one replica kept in RocksDB: RocksNanoLog                *)
(* (log/impl/RocksNanoLog.cc), made anew by ReplicaImpl (NanoLogFactory.h) *)
(* when the first request after a start of the process arrives.  Calls run *)
(* on several threads; mtx_ covers the completion queue only, and neither  *)
(* the seal flag nor putIfNotExists.                                       *)
(*                                                                         *)
(* A log id has up to three writers: the sequencer's append, which carries *)
(* a commit index, a re-replication, which carries none and skips the seal,*)
(* and an append without a commit index that heeds the seal, as the tests  *)
(* make it.  All bring the same payload, so an entry is its key.           *)
(***************************************************************************)
EXTENDS CompletionQueue, KVStore, Sequences

CONSTANTS StartIndex,    \* start_index of the configuration
          MaxIndex,      \* bound: largest log id
          Commits,       \* bound: log ids appended with a commit index
          Fills,         \* bound: log ids that are re-replicated
          Bare,          \* bound: log ids appended without a commit index
          EndOfLog,      \* std::numeric_limits<std::int64_t>::max()
          MaxInFlight,   \* bound: calls running at once
          MaxFaults      \* bound: crashes, failed flushes and trims together

ASSUME RocksNanoLogConstants ==
  /\ StartIndex \in Nat /\ MaxIndex \in Nat /\ StartIndex <= MaxIndex
  /\ EndOfLog > MaxIndex + 1 /\ Fills \subseteq StartIndex .. MaxIndex
  /\ Commits \subseteq StartIndex .. MaxIndex /\ Bare \subseteq StartIndex .. MaxIndex
  /\ MaxInFlight \in Nat \ {0} /\ MaxFaults \in Nat

Indices == StartIndex .. MaxIndex
Calls   == {[id |-> n, skip |-> FALSE, bare |-> FALSE] : n \in Commits}
             \union {[id |-> n, skip |-> TRUE, bare |-> TRUE] : n \in Fills}
             \union {[id |-> n, skip |-> FALSE, bare |-> TRUE] : n \in Bare}

(* KeyFormat *)
LogKey(n) == <<"LOG_ID", n>>
SealKey   == <<"SEAL", 0>>
EndKey    == <<"END_INDEX", 0>>

NoLog == [open |-> FALSE]

VARIABLES
  kv,     \* kvStore_
  log,    \* the RocksNanoLog object [open, sealed, sealDirty, end, endDirty,
          \*   queue] and what a running getLocalCommitIndex has read [read];
          \*   NoLog before the first request of a process
  lock,   \* calls holding mtx_
  call,   \* per call [pc, arg]; arg is what the last read returned or the
          \*   end index to write
  sealer, \* the running seal() of the replica
  faults, \* number of faults so far
  trims,  \* history: arguments of trim
  seen    \* history of this object [added, fulfilled, jumped, twice, torn]:
          \*   log ids queued, acknowledged, largest commit index, log ids
          \*   queued twice, a flush failed

vars == <<kv, log, lock, call, sealer, faults, trims, seen>>

Fresh == [added |-> {}, fulfilled |-> {}, jumped |-> StartIndex - 1,
          twice |-> {}, torn |-> FALSE]

Running(c) == call[c].pc \in {"cache", "get", "put", "lock", "putEnd", "flushEnd"}

Init ==
  /\ kv = OpenEmpty
  /\ log = NoLog
  /\ lock = {}
  /\ call = [c \in Calls |-> [pc |-> "new", arg |-> 0]]
  /\ sealer = "idle"
  /\ faults = 0
  /\ trims = {}
  /\ seen = Fresh

-----------------------------------------------------------------------------
(* Construction *)

(* Faulty variant: the old end index is kept. *)
InitKeysKeepEnd(db) ==
  KvPut(IF Has(db, EndKey) THEN db ELSE KvPut(db, EndKey, StartIndex), SealKey, FALSE)

(* init(): the end index and the seal of an earlier process are overwritten. *)
InitKeys(db) == KvPut(KvPut(db, EndKey, StartIndex), SealKey, FALSE)

(* ReplicaImpl found no nano log for the version. *)
MakeNanoLog ==
  /\ ~log.open
  /\ kv' = InitKeys(kv)
  /\ log' = [open |-> TRUE, sealed |-> FALSE, sealDirty |-> TRUE,
             end |-> EndOfLog, endDirty |-> TRUE, queue |-> EmptyQueue(StartIndex),
             read |-> {}]
  /\ UNCHANGED <<lock, call, sealer, faults, seen, trims>>

-----------------------------------------------------------------------------
(* append *)

Step(c, pc, arg) == call' = [call EXCEPT ![c] = [pc |-> pc, arg |-> arg]]

AfterSealTest(c, sealed) == IF sealed /\ ~c.skip THEN "failed" ELSE "get"

(* co_isSealed, the cached flag is good ... *)
TestSeal(c) ==
  /\ log.open
  /\ call[c].pc = "new"
  /\ Cardinality({x \in Calls : Running(x)}) < MaxInFlight
  /\ ~log.sealDirty
  /\ Step(c, AfterSealTest(c, log.sealed), 0)
  /\ UNCHANGED <<kv, log, lock, sealer, faults, seen, trims>>

(* ... or it is read from the store ... *)
ReadSeal(c) ==
  /\ log.open
  /\ call[c].pc = "new"
  /\ Cardinality({x \in Calls : Running(x)}) < MaxInFlight
  /\ log.sealDirty
  /\ Step(c, "cache", kv.mem[SealKey])
  /\ UNCHANGED <<kv, log, lock, sealer, faults, seen, trims>>

(* ... and cached, over whatever seal() did in between. *)
CacheSeal(c) ==
  /\ call[c].pc = "cache"
  /\ log' = [log EXCEPT !.sealed = call[c].arg, !.sealDirty = FALSE]
  /\ Step(c, AfterSealTest(c, call[c].arg), 0)
  /\ UNCHANGED <<kv, lock, sealer, faults, seen, trims>>

(* putIfNotExists: the test ... *)
TestFree(c) ==
  /\ call[c].pc = "get"
  /\ Step(c, IF Has(kv, LogKey(c.id)) THEN "failed" ELSE "put", 0)
  /\ UNCHANGED <<kv, log, lock, sealer, faults, seen, trims>>

(* ... and the write. *)
PutEntry(c) ==
  /\ call[c].pc = "put"
  /\ kv' = KvPut(kv, LogKey(c.id), TRUE)
  /\ Step(c, "lock", 0)
  /\ UNCHANGED <<log, lock, sealer, faults, seen, trims>>

(* History: the call queued its promise and `done' were fulfilled. *)
Queued(c, gci, done) ==
  seen' = [seen EXCEPT !.added = @ \union {c.id}, !.fulfilled = @ \union done,
             !.jumped = IF gci > @ THEN gci ELSE @,
             !.twice = IF c.id \in seen.added THEN @ \union {c.id} ELSE @]

(* The calls after c queued its promise, which replaces the promise of
   another call for the same log id, and `done' were fulfilled; c goes to pc. *)
CallsAfter(c, done, pc, arg) ==
  [x \in Calls |->
     CASE x = c -> [pc |-> pc, arg |-> arg]
       [] x # c /\ call[x].pc = "await" /\ x.id = c.id -> [pc |-> "failed", arg |-> 0]
       [] x # c /\ call[x].pc = "await" /\ x.id \in done -> [pc |-> "acked", arg |-> 0]
       [] OTHER -> call[x]]

(* With a commit index: promises are fulfilled before anything is flushed.
   The sequencer's commit index is below the log id, or its first one. *)
CompleteThenPersist(c, gci) ==
  LET added == AddAndComplete(log.queue, c.id)
      below == CompleteAllBelow(added.queue, gci)
      done  == added.done \union below.done
  IN  /\ call[c].pc = "lock" /\ lock = {} /\ ~c.bare
      /\ gci \in (StartIndex .. (c.id - 1)) \union {StartIndex}
      /\ log' = [log EXCEPT !.queue = below.queue]
      /\ lock' = {c}
      /\ call' = CallsAfter(c, done, "putEnd", gci + 1)
      /\ Queued(c, gci, done)
      /\ UNCHANGED <<kv, sealer, faults, trims>>

(* Without one: promises wait until the end index is on disk. *)
DeferThenPersist(c) ==
  LET q   == AddOnly(log.queue, c.id)
      end == EligibleEnd(q)
  IN  /\ call[c].pc = "lock" /\ lock = {} /\ c.bare
      /\ log' = [log EXCEPT !.queue = q]
      /\ lock' = IF end > q.cur THEN {c} ELSE {}
      /\ call' = IF end > q.cur THEN CallsAfter(c, {}, "putEnd", end)
                               ELSE CallsAfter(c, {}, "await", 0)
      /\ Queued(c, StartIndex - 1, {})
      /\ UNCHANGED <<kv, sealer, faults, trims>>

(* co_setEndIndex: mark the cached value dirty and write ... *)
PutEndIndex(c) ==
  /\ call[c].pc = "putEnd"
  /\ kv' = KvPut(kv, EndKey, call[c].arg)
  /\ log' = [log EXCEPT !.endDirty = TRUE]
  /\ Step(c, "flushEnd", call[c].arg)
  /\ UNCHANGED <<lock, sealer, faults, seen, trims>>

(* ... flush; a call without commit index now completes the range, the other
   one only returns if its promise was fulfilled before. *)
FlushEndIndex(c) ==
  LET end  == call[c].arg
      r    == IF c.bare THEN CompleteAllBelow(log.queue, end - 1)
                        ELSE [queue |-> log.queue, done |-> {}]
      own  == IF c.id \in r.queue.pend THEN "await" ELSE "acked"
  IN  /\ call[c].pc = "flushEnd"
      /\ kv' = FlushWal(kv)
      /\ log' = [log EXCEPT !.end = end, !.endDirty = FALSE, !.queue = r.queue]
      /\ lock' = {}
      /\ call' = CallsAfter(c, r.done, own, 0)
      /\ seen' = [seen EXCEPT !.fulfilled = @ \union r.done]
      /\ UNCHANGED <<sealer, faults, trims>>

(* The flush fails: the call throws, its promise stays in the queue. *)
FlushEndFails(c) ==
  /\ call[c].pc = "flushEnd"
  /\ faults < MaxFaults
  /\ faults' = faults + 1
  /\ lock' = {}
  /\ seen' = [seen EXCEPT !.torn = TRUE]
  /\ Step(c, "failed", 0)
  /\ UNCHANGED <<kv, log, sealer, trims>>

-----------------------------------------------------------------------------
(* seal, getLocalCommitIndex, trim, crash *)

(* co_setSeal: mark the cached flag dirty ... *)
SealBegin ==
  /\ log.open /\ sealer = "idle"
  /\ log' = [log EXCEPT !.sealDirty = TRUE]
  /\ sealer' = "put"
  /\ UNCHANGED <<kv, lock, call, faults, seen, trims>>

(* ... write the flag ... *)
SealPut ==
  /\ sealer = "put"
  /\ kv' = KvPut(kv, SealKey, TRUE)
  /\ sealer' = "flush"
  /\ UNCHANGED <<log, lock, call, faults, seen, trims>>

(* ... flush, and return the cached end index. *)
SealFlush ==
  /\ sealer = "flush"
  /\ kv' = FlushWal(kv)
  /\ log' = [log EXCEPT !.sealed = TRUE, !.sealDirty = FALSE]
  /\ sealer' = "sealed"
  /\ UNCHANGED <<lock, call, faults, seen, trims>>

(* The flush fails: seal() returns -1. *)
SealFlushFails ==
  /\ sealer = "flush"
  /\ faults < MaxFaults
  /\ faults' = faults + 1
  /\ sealer' = "idle"
  /\ UNCHANGED <<kv, log, lock, call, seen, trims>>

(* co_getEndIndex: the dirty end index is read from the store ... *)
GetLocalCommitIndex ==
  /\ log.open /\ log.endDirty /\ log.read = {}
  /\ log' = [log EXCEPT !.read = {kv.mem[EndKey]}]
  /\ UNCHANGED <<kv, lock, call, sealer, faults, seen, trims>>

(* ... and cached, over whatever co_setEndIndex did in between. *)
CacheEndIndex ==
  /\ log.open
  /\ \E end \in log.read :
       log' = [log EXCEPT !.end = end, !.endDirty = FALSE, !.read = {}]
  /\ UNCHANGED <<kv, lock, call, sealer, faults, seen, trims>>

(* The decimal digits of n, and the order of the store on such strings. *)
Digits[n \in Nat] == IF n < 10 THEN <<n>> ELSE Append(Digits[n \div 10], n % 10)

LexLess(s, t) ==
  \/ Len(s) < Len(t) /\ SubSeq(t, 1, Len(s)) = s
  \/ \E i \in 1 .. Len(s) : /\ i <= Len(t) /\ s[i] < t[i]
                            /\ SubSeq(s, 1, i - 1) = SubSeq(t, 1, i - 1)

(* The log ids trim(t) deletes: keys are compared as strings. *)
Trimmed(t) == {n \in Indices : LexLess(Digits[n], Digits[t])}

Trim(t) ==
  /\ log.open
  /\ faults < MaxFaults
  /\ faults' = faults + 1
  /\ kv' = DeleteKeys(kv, {LogKey(n) : n \in Trimmed(t)})
  /\ trims' = trims \union {t}
  /\ UNCHANGED <<log, lock, call, sealer, seen>>

(* The process ends; calls that have not returned never will. *)
Crash ==
  /\ log.open
  /\ faults < MaxFaults
  /\ faults' = faults + 1
  /\ \E m \in kv.kept : kv' = Reopen(m)
  /\ log' = NoLog
  /\ lock' = {}
  /\ sealer' = "idle"
  /\ call' = [c \in Calls |-> IF Running(c) \/ call[c].pc = "await"
                                THEN [pc |-> "failed", arg |-> 0] ELSE call[c]]
  /\ seen' = Fresh
  /\ UNCHANGED trims

Next ==
  \/ MakeNanoLog
  \/ \E c \in Calls : TestSeal(c)
  \/ \E c \in Calls : ReadSeal(c)
  \/ \E c \in Calls : CacheSeal(c)
  \/ \E c \in Calls : TestFree(c)
  \/ \E c \in Calls : PutEntry(c)
  \/ \E c \in Calls, gci \in Indices : CompleteThenPersist(c, gci)
  \/ \E c \in Calls : DeferThenPersist(c)
  \/ \E c \in Calls : PutEndIndex(c)
  \/ \E c \in Calls : FlushEndIndex(c)
  \/ \E c \in Calls : FlushEndFails(c)
  \/ SealBegin
  \/ SealPut
  \/ SealFlush
  \/ SealFlushFails
  \/ GetLocalCommitIndex
  \/ CacheEndIndex
  \/ \E t \in Indices : Trim(t)
  \/ Crash

Spec == Init /\ [][Next]_vars
-----------------------------------------------------------------------------
(* Properties *)

(* Every variable keeps to its type: no call holds mtx_ together with
   another one and no index outside the segment is queued or written. *)
TypeOK ==
  /\ Cardinality(lock) <= 1
  /\ log.open => /\ log.queue.cur \in StartIndex .. (MaxIndex + 1)
                 /\ log.queue.pend \subseteq Indices
                 /\ log.end \in Indices \union {MaxIndex + 1, EndOfLog}
                 /\ log.read \subseteq Indices \union {MaxIndex + 1}
                 /\ kv.mem[EndKey] \in StartIndex .. (MaxIndex + 1)
  /\ \A c \in Calls : call[c].pc \in {"new", "cache", "get", "put", "lock",
                        "putEnd", "flushEnd", "await", "acked", "failed"}
  /\ sealer \in {"idle", "put", "flush", "sealed"}
  /\ faults \in 0 .. MaxFaults

(***************************************************************************)
(* A log id is acknowledged only when every log id before it in the        *)
(* segment has been queued by this object or was declared committed:       *)
(* "they cannot ack to the entries after the holes"                        *)
(* (log/impl/tests/VirtualLogTest.cc, MajorityReplicaWithHoles).           *)
(***************************************************************************)
NoAckPastHole ==
  \A i \in seen.fulfilled : \A j \in StartIndex .. i :
    j \in seen.added \/ j <= seen.jumped

(***************************************************************************)
(* Nothing below the end index in the store, which getLocalCommitIndex     *)
(* reports, is unaccounted for; and as long as no commit index came along  *)
(* and no flush failed it is exactly the first missing log id, as the test *)
(* MultipleUnorderedAppends expects, whatever an earlier process wrote.    *)
(***************************************************************************)
EndIndexIsCut ==
  log.open =>
    /\ \A j \in StartIndex .. (kv.mem[EndKey] - 1) : j \in seen.added \/ j <= seen.jumped
    /\ lock = {} /\ seen.jumped < StartIndex /\ ~seen.torn
         => kv.mem[EndKey] = log.queue.cur

(***************************************************************************)
(* An append the sequencer was told about is on disk: whichever writes a   *)
(* crash loses, its entry is there, unless a trim deleted it (trim works   *)
(* on decimal strings and also deletes later log ids with more digits).    *)
(***************************************************************************)
AckedSurvivesCrash ==
  \A c \in Calls : call[c].pc = "acked" /\ ~c.bare =>
    \/ \A m \in kv.kept : LogKey(c.id) \in DOMAIN m
    \/ \E t \in trims : c.id < t \/ Len(Digits[c.id]) > Len(Digits[t])

(***************************************************************************)
(* A promise below the current index blocks the queue until a commit index *)
(* passes it.  That happens only to a log id that came after the commit    *)
(* index had jumped over it, or that two calls wrote, both past the test   *)
(* of putIfNotExists.                                                      *)
(***************************************************************************)
BlockedOnlyByRace ==
  log.open => \A k \in log.queue.pend :
    k < log.queue.cur => k \in seen.twice \/ k <= seen.jumped

(* A call that waits is not forgotten: its promise is still queued. *)
WaiterQueued == \A c \in Calls : call[c].pc = "await" => c.id \in log.queue.pend

(***************************************************************************)
(* mtx_ keeps the completion queue in order while calls, flushes and       *)
(* failures interleave: the state is well typed, no waiting call has lost  *)
(* its promise, and nothing but a race below blocks the queue.             *)
(***************************************************************************)
QueueConsistent == TypeOK /\ WaiterQueued /\ BlockedOnlyByRace
=============================================================================
