--------------------------- MODULE LogStateMachine ---------------------------
(***************************************************************************)
(* The state machine that turns the shared log into calls of apply on one  *)
(* node (statemachine/VirtualLogStateMachine.h): append and sync register  *)
(* a promise and raise the target, the producer loop fetches log ids up to *)
(* the target through FlatMapSequential (log/utils/FlatMapSequential.h),   *)
(* the consumer loop takes the results in order and applies them on a      *)
(* single thread, which fulfils the promises.                              *)
(*                                                                         *)
(* The virtual log is abstracted to what this module uses of it: append    *)
(* takes the next log id, the entry becomes readable some time later, and  *)
(* append returns only when every entry up to its own is readable (see     *)
(* CompletionQueue and VirtualLog).  Other nodes append to the same log.   *)
(* The log of a server starts at log id 0, the ones of the tests at 1.     *)
(***************************************************************************)
EXTENDS Integers, Sequences, FiniteSets

CONSTANTS Appends,        \* append calls of this node
          Syncs,          \* sync calls of this node
          Foreign,        \* append calls of other nodes
          FirstLogId,     \* the first log id of the log: 0 for a server, whose
                          \*   version 1 starts where the empty version 0 ends,
                          \*   1 for the logs that VirtualLogFactory makes
          SerialCalls,    \* does a mutex keep the node's calls apart, as
                          \*   CounterApp's does?
          MaxReadErrors   \* bound: reads of a stored entry that fail

Calls  == Appends \union Syncs
LogIds == FirstLogId .. (FirstLogId + Cardinality(Appends \union Foreign) - 1)

ASSUME LogStateMachineConstants ==
  /\ IsFiniteSet(Appends) /\ IsFiniteSet(Syncs) /\ IsFiniteSet(Foreign)
  /\ Appends \intersect Syncs = {}
  /\ Foreign \intersect Calls = {}
  /\ FirstLogId \in {0, 1}
  /\ SerialCalls \in BOOLEAN
  /\ MaxReadErrors \in Nat

VARIABLES
  next,       \* sequenceNum_: the next log id of the log
  entry,      \* per log id: "free", "taken" by an append, or "stored"
  call,       \* per call [pc, id]: where it is, the log id it got
  target,     \* targetLogId_
  to,         \* producerLoop: how far it may fetch now
  fetched,    \* lastFetchId_
  list,       \* FlatMapSequential::list_, each element [id, st]
  consuming,  \* does consumeLoop still run?
  queue,      \* tasks of singleExecutor_: log ids to apply
  applied,    \* lastAppliedLogId_
  promises,   \* promises_: <<log id, call>>
  readErrors  \* reads of a stored entry that failed so far

logVars == <<next, entry>>
loopVars == <<to, fetched, list, consuming, queue, readErrors>>
vars == <<next, entry, call, target, to, fetched, list, consuming, queue,
          applied, promises, readErrors>>

Init ==
  /\ next = FirstLogId
  /\ entry = [n \in LogIds |-> "free"]
  /\ call = [c \in Calls \union Foreign |-> [pc |-> "new", id |-> 0]]
  /\ target = -1
  /\ to = 0
  /\ fetched = 0
  /\ list = <<>>
  /\ consuming = TRUE
  /\ queue = <<>>
  /\ applied = 0
  /\ promises = {}
  /\ readErrors = 0

-----------------------------------------------------------------------------
(* The log *)

(* lock_guard lk{*mtx_} of CounterApp is held until the call has returned. *)
MayCall ==
  SerialCalls => \A c \in Calls : call[c].pc \in {"new", "done", "failed"}

(* virtualLog_->append: the sequencer hands out a log id ... *)
TakeLogId(c) ==
  /\ call[c].pc = "new"
  /\ c \in Appends => MayCall
  /\ call' = [call EXCEPT ![c] = [pc |-> "sent", id |-> next]]
  /\ entry' = [entry EXCEPT ![next] = "taken"]
  /\ next' = next + 1
  /\ UNCHANGED <<target, loopVars, applied, promises>>

(* ... the entry becomes readable ... *)
StoreEntry(n) ==
  /\ entry[n] = "taken"
  /\ entry' = [entry EXCEPT ![n] = "stored"]
  /\ UNCHANGED <<next, call, target, loopVars, applied, promises>>

(* ... and append returns when no hole is left below it, or throws. *)
ReturnLogId(c) ==
  /\ call[c].pc = "sent"
  /\ \A n \in FirstLogId .. call[c].id : entry[n] = "stored"
  /\ call' = [call EXCEPT ![c].pc = IF c \in Foreign THEN "done" ELSE "returned"]
  /\ UNCHANGED <<logVars, target, loopVars, applied, promises>>

FailAppend(c) ==
  /\ call[c].pc = "sent"
  /\ call' = [call EXCEPT ![c].pc = "failed"]
  /\ UNCHANGED <<logVars, target, loopVars, applied, promises>>

-----------------------------------------------------------------------------
(* append and sync *)

(* promises_.emplace, targetLogId_ = max, notify_one, under mtx_. *)
AwaitApplied(c) ==
  /\ promises' = promises \union {<<call[c].id, c>>}
  /\ target' = IF target < call[c].id THEN call[c].id ELSE target
  /\ call' = [call EXCEPT ![c].pc = "waiting"]

AppendWait(c) ==
  /\ c \in Appends
  /\ call[c].pc = "returned"
  /\ AwaitApplied(c)
  /\ UNCHANGED <<logVars, loopVars, applied>>

(* virtualLog_->sync() is the last log id handed out (SequencerImpl's
   latestAppendPosition); sync waits for the one before it. *)
LatestAppendPosition == next - 1

Sync(c) ==
  /\ c \in Syncs
  /\ call[c].pc = "new" /\ MayCall
  /\ call' = [call EXCEPT ![c] = [pc |-> "returned",
                                  id |-> LatestAppendPosition - 1]]
  /\ UNCHANGED <<logVars, target, loopVars, applied, promises>>

SyncDone(c) ==
  /\ c \in Syncs
  /\ call[c].pc = "returned"
  /\ call[c].id <= applied
  /\ call' = [call EXCEPT ![c].pc = "done"]
  /\ UNCHANGED <<logVars, target, loopVars, applied, promises>>

(* Faulty variant: it is not tested again whether the entry was applied. *)
SyncWaitAlways(c) ==
  /\ c \in Syncs
  /\ call[c].pc = "returned"
  /\ AwaitApplied(c)
  /\ UNCHANGED <<logVars, loopVars, applied>>

SyncWait(c) ==
  /\ c \in Syncs
  /\ call[c].pc = "returned"
  /\ call[c].id > applied
  /\ AwaitApplied(c)
  /\ UNCHANGED <<logVars, loopVars, applied>>

-----------------------------------------------------------------------------
(* producerLoop *)

ProducerWake ==
  /\ fetched >= to
  /\ to < target
  /\ to' = target
  /\ UNCHANGED <<logVars, call, target, fetched, list, consuming, queue,
                 applied, promises, readErrors>>

(* Faulty variant: the loop stops one log id short. *)
ProducerAddShort ==
  /\ fetched + 1 < to
  /\ list' = Append(list, [id |-> fetched + 1, st |-> "running"])
  /\ fetched' = fetched + 1
  /\ UNCHANGED <<logVars, call, target, to, consuming, queue, applied,
                 promises, readErrors>>

(* flatMapSeq_->add starts the read of the next log id, of which the first is 1,
   and queues its result. *)
ProducerAdd ==
  /\ fetched + 1 <= to
  /\ list' = Append(list, [id |-> fetched + 1, st |-> "running"])
  /\ fetched' = fetched + 1
  /\ UNCHANGED <<logVars, call, target, to, consuming, queue, applied,
                 promises, readErrors>>

(* A read on the pool of FlatMapSequential ends: the entry, or LogReadError,
   for which the task throws and its promise is broken. *)
FetchEntry(i) ==
  /\ list[i].st = "running"
  /\ entry[list[i].id] = "stored"
  /\ list' = [list EXCEPT ![i].st = "value"]
  /\ UNCHANGED <<logVars, call, target, to, fetched, consuming, queue, applied,
                 promises, readErrors>>

FetchMissing(i) ==
  /\ list[i].st = "running"
  /\ entry[list[i].id] # "stored"
  /\ list' = [list EXCEPT ![i].st = "broken"]
  /\ UNCHANGED <<logVars, call, target, to, fetched, consuming, queue, applied,
                 promises, readErrors>>

FetchFails(i) ==
  /\ list[i].st = "running"
  /\ entry[list[i].id] = "stored"
  /\ readErrors < MaxReadErrors
  /\ readErrors' = readErrors + 1
  /\ list' = [list EXCEPT ![i].st = "broken"]
  /\ UNCHANGED <<logVars, call, target, to, fetched, consuming, queue, applied,
                 promises>>

-----------------------------------------------------------------------------
(* consumeLoop *)

(* Faulty variant: results are taken as they come, not in list order. *)
ConsumeAny ==
  /\ consuming
  /\ \E i \in DOMAIN list :
       /\ list[i].st = "value"
       /\ queue' = Append(queue, list[i].id)
       /\ list' = SubSeq(list, 1, i - 1) \o SubSeq(list, i + 1, Len(list))
  /\ UNCHANGED <<logVars, call, target, to, fetched, consuming, applied,
                 promises, readErrors>>

(* The generator waits for the result at the front of list_; the loop hands
   it to singleExecutor_ ... *)
Consume ==
  /\ consuming
  /\ list # <<>> /\ Head(list).st = "value"
  /\ queue' = Append(queue, Head(list).id)
  /\ list' = Tail(list)
  /\ UNCHANGED <<logVars, call, target, to, fetched, consuming, applied,
                 promises, readErrors>>

(* ... and a broken promise ends the loop for good. *)
ConsumeBroken ==
  /\ consuming
  /\ list # <<>> /\ Head(list).st = "broken"
  /\ consuming' = FALSE
  /\ list' = Tail(list)
  /\ UNCHANGED <<logVars, call, target, to, fetched, queue, applied, promises,
                 readErrors>>

(* The promises that the application of log id n fulfils. *)
Fulfilled(n) == {p \in promises : p[1] = n}

(* apply, then the promises of that log id and lastAppliedLogId_, under mtx_. *)
Apply ==
  /\ queue # <<>>
  /\ LET n == Head(queue)
         answered == {p[2] : p \in Fulfilled(n)}
     IN  /\ call' = [c \in DOMAIN call |-> IF c \in answered
                       THEN [call[c] EXCEPT !.pc = "done"] ELSE call[c]]
         /\ promises' = promises \ Fulfilled(n)
         /\ applied' = n
  /\ queue' = Tail(queue)
  /\ UNCHANGED <<logVars, target, to, fetched, list, consuming, readErrors>>

-----------------------------------------------------------------------------
Next ==
  \/ \E c \in Appends \union Foreign : TakeLogId(c)
  \/ \E n \in LogIds : StoreEntry(n)
  \/ \E c \in Appends \union Foreign : ReturnLogId(c)
  \/ \E c \in Appends \union Foreign : FailAppend(c)
  \/ \E c \in Appends : AppendWait(c)
  \/ \E c \in Syncs : Sync(c)
  \/ \E c \in Syncs : SyncDone(c)
  \/ \E c \in Syncs : SyncWait(c)
  \/ ProducerWake
  \/ ProducerAdd
  \/ \E i \in DOMAIN list : FetchEntry(i)
  \/ \E i \in DOMAIN list : FetchMissing(i)
  \/ \E i \in DOMAIN list : FetchFails(i)
  \/ Consume
  \/ ConsumeBroken
  \/ Apply

(* Every loop and every call has a thread of its own that keeps running;
   nothing is assumed of the log. *)
Fairness ==
  /\ \A c \in Calls : WF_vars(AppendWait(c)) /\ WF_vars(SyncDone(c) \/ SyncWait(c))
  /\ WF_vars(ProducerWake) /\ WF_vars(ProducerAdd)
  /\ \A i \in LogIds : WF_vars(i \in DOMAIN list /\ (FetchEntry(i) \/ FetchMissing(i)))
  /\ WF_vars(Consume \/ ConsumeBroken)
  /\ WF_vars(Apply)

Spec == Init /\ [][Next]_vars /\ Fairness
-----------------------------------------------------------------------------
(* Properties *)

(* Every variable keeps to its type: the loops fetch and apply only log ids
   that were handed out, and only calls of this node wait. *)
TypeOK ==
  /\ next \in FirstLogId .. (FirstLogId + Cardinality(LogIds))
  /\ entry \in [LogIds -> {"free", "taken", "stored"}]
  /\ call \in [Calls \union Foreign ->
               [pc : {"new", "sent", "returned", "waiting", "done", "failed"},
                id : LogIds \union {-2, -1, 0}]]
  /\ target \in LogIds \union {-1}
  /\ to \in LogIds \union {0} /\ fetched \in LogIds \union {0}
  /\ list \in Seq([id : LogIds, st : {"running", "value", "broken"}])
  /\ consuming \in BOOLEAN
  /\ queue \in Seq(LogIds)
  /\ applied \in LogIds \union {0}
  /\ promises \subseteq LogIds \X Calls
  /\ readErrors \in 0 .. MaxReadErrors

(* "applied logId should always be greater than the last one" (the assertion
   of consumeLoop): entries are applied in log order without a gap, each one
   readable, although the reads overlap and end in any order. *)
AppliesNext ==
  [][applied' # applied => applied' = applied + 1 /\ entry[applied'] = "stored"]_vars

(* A call is answered only after everything up to the log id it waits for
   was applied. *)
AnswerAfterApply ==
  \A c \in Calls : call[c].pc = "done" => call[c].id <= applied

(* A promise at or below lastAppliedLogId_ is never fulfilled.  sync tests
   lastAppliedLogId_ again under mtx_, so it never registers one; append does
   not, so it registers one for log id 0, which lastAppliedLogId_ starts at, and
   when another call raises the target between virtualLog_->append and mtx_,
   which a mutex around the calls prevents. *)
WaitersAhead ==
  \A p \in promises :
    \/ p[1] > applied
    \/ p[2] \in Appends /\ (p[1] = 0 \/ ~SerialCalls)

(* What append, sync and the two loops keep up between them under mtx_: the
   loops stay within the log ids handed out, and every promise lies ahead of
   lastAppliedLogId_ until it is fulfilled, and behind it afterwards. *)
PromisesFollowApply == TypeOK /\ AnswerAfterApply /\ WaitersAhead

(* When a mutex keeps the node's calls apart, an append that got its log id is
   answered, unless a failed read has ended the consumer loop or the log id is
   0, which the producer loop does not fetch. *)
AppendAnswered ==
  \A c \in Appends :
    call[c].pc = "returned" ~> call[c].pc = "done" \/ ~consuming \/ call[c].id = 0
=============================================================================
