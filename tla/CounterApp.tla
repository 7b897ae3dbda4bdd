----------------------------- MODULE CounterApp -----------------------------
(***************************************************************************)
(* The counter application (applications/counter): on every node a         *)
(* CounterApp keeps the counters in memory, appends batches of operations  *)
(* to the shared log and applies what it reads back, in log order, through *)
(* CounterAppStateMachine and CounterApplicator.  Every call holds the     *)
(* node's mutex until its own entry, or what sync waits for, has been      *)
(* applied.  The first node also runs the health check.                    *)
(*                                                                         *)
(* The log below is abstract: an append that throws leaves its entry,      *)
(* leaves a hole nobody can read past, or leaves nothing (VirtualLog), and *)
(* a read that fails ends the consumer loop of its node (LogStateMachine). *)
(* A node applies the log ids from 1 on, also when the log starts at 0.    *)
(***************************************************************************)
EXTENDS Integers, SequencesExt, KVStore

CONSTANTS Nodes,        \* nodes of the ensemble
          Checker,      \* the node that runs CounterHealthCheck
          Keys,         \* counter keys
          HealthKey,    \* KEY_NAME of CounterHealthCheck
          Batches,      \* batches of operations clients ask for
          FirstLogId,   \* the first log id of the log (LogStateMachine)
          MaxLog,       \* bound: entries of the log
          MaxFaults,    \* bound: appends that throw, reads of an entry that
                        \*   fail and restarts of nodes
          MaxSnapshots  \* bound: snapshots taken

ASSUME CounterAppConstants ==
  /\ Checker \in Nodes /\ HealthKey \in Keys
  /\ FirstLogId \in {0, 1}
  /\ \A ops \in Batches : \A i \in DOMAIN ops : ops[i].key \in Keys
  /\ MaxLog \in Nat /\ MaxFaults \in Nat /\ MaxSnapshots \in Nat

VARIABLES
  log,     \* the shared log: batches and holes
  app,     \* per node [lookup, applied, part, lastApplied, running]: lookup_,
           \*   the last log id applied, operations applied of the next entry,
           \*   lastAppliedEntry_, and whether consumeLoop still runs
  cur,     \* per node: the call that holds mtx_
  health,  \* the health check: "idle", "up", "between", "down"
  kv,      \* per node: the application's key-value store
  ckpt,    \* per node: the values in the checkpoint directory, {} if none
  base,    \* history, per node: the counters the process started from
  count    \* history [faults, snapshots, badChecks]

vars == <<log, app, cur, health, kv, ckpt, base, count>>

Snapshot  == "COUNTER_APP_SNAPSHOT"
Hole      == <<[key |-> HealthKey, cmd |-> "HOLE", val |-> 0]>>
Zero      == [k \in Keys |-> 0]
NewApp    == [lookup |-> Zero, applied |-> 0, part |-> 0, lastApplied |-> 0,
              running |-> TRUE]
NoCall    == [kind |-> "none", target |-> 0, res |-> << >>, answered |-> FALSE]

Init ==
  /\ log = << >>
  /\ app = [n \in Nodes |-> NewApp]
  /\ cur = [n \in Nodes |-> NoCall]
  /\ health = "idle"
  /\ kv = [n \in Nodes |-> OpenEmpty]
  /\ ckpt = [n \in Nodes |-> {}]
  /\ base = [n \in Nodes |-> Zero]
  /\ count = [faults |-> 0, snapshots |-> 0, badChecks |-> 0]

-----------------------------------------------------------------------------
(* The log: its last log id, and the entry of a log id *)

LastId    == FirstLogId + Len(log) - 1
Entry(id) == log[id - FirstLogId + 1]

-----------------------------------------------------------------------------
(* Updates *)

Idle(n) == cur[n] = NoCall

(* stateMachine_->append(serialize(operations)): the entry is in the log and
   the call waits until this node applies it. *)
Submit(n, ops, kind) ==
  /\ Idle(n)
  /\ Len(log) < MaxLog
  /\ log' = Append(log, ops)
  /\ cur' = [cur EXCEPT ![n] = [NoCall EXCEPT !.kind = kind, !.target = LastId + 1]]

(* incrementAndGet, decrementAndGet, batchUpdate of a client. *)
Update(n, ops) ==
  /\ Submit(n, ops, "update")
  /\ UNCHANGED <<app, health, kv, ckpt, base, count>>

(* The append throws: what it left in the log is not known to the caller,
   and the gRPC client reads the value 0 from the empty answer. *)
LogAfterThrow(ops) == {Append(log, ops), Append(log, Hole), log}

UpdateThrows(n, ops) ==
  /\ Idle(n)
  /\ count.faults < MaxFaults /\ Len(log) < MaxLog
  /\ log' \in LogAfterThrow(ops)
  /\ count' = [count EXCEPT !.faults = @ + 1]
  /\ UNCHANGED <<app, cur, health, kv, ckpt, base>>

(* Faulty variant: a decrement is applied as an increment. *)
DeltaUnsigned(op) == op.val

Delta(op) == IF op.cmd = "INCR" THEN op.val ELSE -op.val

(* The entry that the node's loops come to next for the call under way. *)
Wanted(n) == app[n].running /\ app[n].applied < cur[n].target

Readable(n) == Wanted(n) /\ Entry(app[n].applied + 1) # Hole

(* Is the entry being applied the one the call waits for with a result? *)
Mine(n) == cur[n].kind # "read" /\ app[n].applied + 1 = cur[n].target

(* CounterApp::apply, one operation of the next entry ... *)
ApplyOp(n) ==
  LET a   == app[n]
      op  == Entry(a.applied + 1)[a.part + 1]
      val == a.lookup[op.key] + Delta(op)
  IN  /\ Readable(n)
      /\ a.part < Len(Entry(a.applied + 1))
      /\ app' = [app EXCEPT ![n].lookup[op.key] = val, ![n].part = @ + 1]
      /\ cur' = IF Mine(n) THEN [cur EXCEPT ![n].res = Append(@, val)] ELSE cur
      /\ UNCHANGED <<log, health, kv, ckpt, base, count>>

(* ... and its end: lastAppliedEntry_ = logId, which is the id field of the
   entry (CounterAppStateMachine::append never sets it, so it is 0); then the
   promises of the log id and lastAppliedLogId_. *)
EntryApplied(n) ==
  /\ Readable(n)
  /\ app[n].part = Len(Entry(app[n].applied + 1))
  /\ app' = [app EXCEPT ![n].applied = @ + 1, ![n].part = 0, ![n].lastApplied = 0]
  /\ cur' = IF Mine(n) THEN [cur EXCEPT ![n].answered = TRUE] ELSE cur
  /\ UNCHANGED <<log, health, kv, ckpt, base, count>>

(* A hole, or a read that fails, ends consumeLoop for good. *)
ConsumerStops(n) ==
  /\ app' = [app EXCEPT ![n].running = FALSE]
  /\ UNCHANGED <<log, cur, health, kv, ckpt, base>>

ReadHole(n) ==
  /\ Wanted(n) /\ ~Readable(n)
  /\ ConsumerStops(n)
  /\ UNCHANGED count

ReadFails(n) ==
  /\ Readable(n) /\ app[n].part = 0
  /\ count.faults < MaxFaults
  /\ ConsumerStops(n)
  /\ count' = [count EXCEPT !.faults = @ + 1]

Answer(n) ==
  /\ cur' = [cur EXCEPT ![n] = NoCall]
  /\ UNCHANGED <<log, app, health, kv, ckpt, base, count>>

(* Faulty variants: the promise is fulfilled by the first operation, or only
   once the entry after the caller's own was applied. *)
ReturnEarly(n) ==
  /\ cur[n].kind = "update"
  /\ cur[n].answered \/ cur[n].res # << >>
  /\ Answer(n)

ReturnLate(n) ==
  /\ cur[n].kind = "update" /\ app[n].applied > cur[n].target
  /\ Answer(n)

(* The promise is fulfilled with the result of apply and mtx_ is released. *)
Return(n) ==
  /\ cur[n].kind = "update" /\ cur[n].answered
  /\ Answer(n)

-----------------------------------------------------------------------------
(* Reads *)

(* getValue: sync up to the log id before the last one handed out (Sync of
   LogStateMachine) ... *)
Read(n) ==
  /\ Idle(n)
  /\ cur' = [cur EXCEPT ![n] = [NoCall EXCEPT !.kind = "read", !.target = LastId - 1]]
  /\ UNCHANGED <<log, app, health, kv, ckpt, base, count>>

(* ... and return the counter. *)
ReturnRead(n) ==
  /\ cur[n].kind = "read" /\ app[n].applied >= cur[n].target
  /\ cur' = [cur EXCEPT ![n] = NoCall]
  /\ UNCHANGED <<log, app, health, kv, ckpt, base, count>>

-----------------------------------------------------------------------------
(* Health check: increment and decrement one key in two calls. *)

One(cmd) == <<[key |-> HealthKey, cmd |-> cmd, val |-> 1]>>

HealthIncrement ==
  /\ health = "idle"
  /\ Submit(Checker, One("INCR"), "health")
  /\ health' = "up"
  /\ UNCHANGED <<app, kv, ckpt, base, count>>

(* Faulty variant: the second call does not wait for the first one. *)
HealthDecrementEarly ==
  /\ health \in {"idle", "between"}
  /\ Submit(Checker, One("DECR"), "health")
  /\ health' = "down"
  /\ UNCHANGED <<app, kv, ckpt, base, count>>

HealthDecrement ==
  /\ health = "between"
  /\ Submit(Checker, One("DECR"), "health")
  /\ health' = "down"
  /\ UNCHANGED <<app, kv, ckpt, base, count>>

HealthReturn ==
  /\ cur[Checker].kind = "health" /\ cur[Checker].answered
  /\ cur' = [cur EXCEPT ![Checker] = NoCall]
  /\ health' = IF health = "up" THEN "between" ELSE "idle"
  /\ UNCHANGED <<log, app, kv, ckpt, base, count>>

(* One of the two calls throws: isAlive returns false, nothing is undone. *)
HealthThrows ==
  /\ health \in {"idle", "between"} /\ Idle(Checker)
  /\ count.faults < MaxFaults /\ Len(log) < MaxLog
  /\ log' \in LogAfterThrow(One(IF health = "idle" THEN "INCR" ELSE "DECR"))
  /\ health' = "idle"
  /\ count' = [count EXCEPT !.faults = @ + 1, !.badChecks = @ + 1]
  /\ UNCHANGED <<app, cur, kv, ckpt, base>>

-----------------------------------------------------------------------------
(* Snapshot, restart, restore *)

(* snapshot: put, flush, checkpoint.  The directory is named after
   lastAppliedEntry_, always 0; one that exists is not replaced, which is
   only logged. *)
TakeSnapshot(n) ==
  /\ Idle(n)
  /\ count.snapshots < MaxSnapshots
  /\ kv' = [kv EXCEPT ![n] = FlushWal(KvPut(@, Snapshot, app[n].lookup))]
  /\ ckpt' = IF ckpt[n] = {} THEN [ckpt EXCEPT ![n] = {app[n].lookup}] ELSE ckpt
  /\ count' = [count EXCEPT !.snapshots = @ + 1]
  /\ UNCHANGED <<log, app, cur, health, base>>

(* The flush fails: "could not save snapshot". *)
SnapshotFails(n) ==
  /\ Idle(n)
  /\ count.snapshots < MaxSnapshots
  /\ kv' = [kv EXCEPT ![n] = KvPut(@, Snapshot, app[n].lookup)]
  /\ count' = [count EXCEPT !.snapshots = @ + 1]
  /\ UNCHANGED <<log, app, cur, health, ckpt, base>>

(* The process ends; a new one reads the log from its first entry. *)
Restart(n) ==
  /\ count.faults < MaxFaults
  /\ \E m \in kv[n].kept : kv' = [kv EXCEPT ![n] = Reopen(m)]
  /\ app' = [app EXCEPT ![n] = NewApp]
  /\ cur' = [cur EXCEPT ![n] = NoCall]
  /\ base' = [base EXCEPT ![n] = Zero]
  /\ health' = IF n = Checker THEN "idle" ELSE health
  /\ count' = [count EXCEPT !.faults = @ + 1,
                 !.badChecks = IF n = Checker /\ health # "idle" THEN @ + 1 ELSE @]
  /\ UNCHANGED <<log, ckpt>>

(* The values a restart finds: in its own store, or in the checkpoint it was
   started from. *)
SavedValues(n) ==
  ckpt[n] \union (IF Has(kv[n], Snapshot) THEN {kv[n].mem[Snapshot]} ELSE {})

(* restoreFromSnapshot of a new process: the counters, and not the log id
   they stand for. *)
Restore(n) ==
  /\ Idle(n) /\ app[n] = NewApp
  /\ \E values \in SavedValues(n) :
       /\ app' = [app EXCEPT ![n].lookup = values]
       /\ base' = [base EXCEPT ![n] = values]
  /\ UNCHANGED <<log, cur, health, kv, ckpt, count>>

Next ==
  \/ \E n \in Nodes, ops \in Batches : Update(n, ops)
  \/ \E n \in Nodes, ops \in Batches : UpdateThrows(n, ops)
  \/ \E n \in Nodes : ApplyOp(n)
  \/ \E n \in Nodes : EntryApplied(n)
  \/ \E n \in Nodes : ReadHole(n)
  \/ \E n \in Nodes : ReadFails(n)
  \/ \E n \in Nodes : Return(n)
  \/ \E n \in Nodes : Read(n)
  \/ \E n \in Nodes : ReturnRead(n)
  \/ HealthIncrement
  \/ HealthDecrement
  \/ HealthReturn
  \/ HealthThrows
  \/ \E n \in Nodes : TakeSnapshot(n)
  \/ \E n \in Nodes : SnapshotFails(n)
  \/ \E n \in Nodes : Restart(n)
  \/ \E n \in Nodes : Restore(n)

Spec == Init /\ [][Next]_vars

(***************************************************************************)
(* The executors of VirtualLogStateMachine keep running its loops until a  *)
(* read fails, and a fulfilled promise resumes its caller.                 *)
(***************************************************************************)
FairSpec ==
  /\ Spec
  /\ \A n \in Nodes : /\ WF_vars(ApplyOp(n) \/ EntryApplied(n) \/ ReadHole(n))
                      /\ WF_vars(Return(n)) /\ WF_vars(ReturnRead(n))
  /\ WF_vars(HealthReturn)
-----------------------------------------------------------------------------
(* Properties *)

(* The counters after log ids 1 to i, from zero. *)
Replay[i \in 0 .. MaxLog] ==
  IF i = 0 \/ i > LastId THEN Zero
  ELSE FoldLeft(LAMBDA vals, op :
                  [vals EXCEPT ![op.key] = IF op.cmd = "DECR" THEN @ - op.val ELSE @ + op.val],
                Replay[i - 1], Entry(i))

(* Every variable keeps to its type: no node is past the end of the log or
   inside an entry it does not have, and lastAppliedEntry_ is never set. *)
TypeOK ==
  /\ Len(log) <= MaxLog
  /\ \A n \in Nodes :
       /\ app[n].lookup \in [Keys -> -100 .. 100]
       /\ app[n].applied = 0 \/ app[n].applied \in 1 .. LastId
       /\ app[n].part > 0 => app[n].applied < LastId
       /\ app[n].lastApplied = 0
       /\ app[n].running \in BOOLEAN
       /\ cur[n].target \in -2 .. LastId \/ Idle(n)
       /\ cur[n].kind \in {"none", "update", "read", "health"}
  /\ health \in {"idle", "up", "between", "down"}

(***************************************************************************)
(* "We can increment/decrement a bunch of keys atomically" (README.md):    *)
(* whenever the mutex is free, so that getValues, getValue or snapshot can *)
(* see the counters, they are what whole entries of the log add to the     *)
(* values the process started from, on every node.  After a restore the    *)
(* entries the snapshot already contains are counted again.                *)
(***************************************************************************)
ValuesAreReplay ==
  /\ TypeOK
  /\ \A n \in Nodes : Idle(n) =>
       app[n].lookup = [k \in Keys |-> base[n][k] + Replay[app[n].applied][k]]

(***************************************************************************)
(* The values a caller is given are the ones its own operations produced   *)
(* at their place in the log, although other nodes' entries were applied   *)
(* while it waited: the last value of a key in the answer is the value at  *)
(* its log id.                                                             *)
(***************************************************************************)
AnswerMatchesEntry ==
  \A n \in Nodes :
    LET c   == cur[n]
        ops == Entry(c.target)
    IN  c.answered =>
          /\ app[n].applied >= c.target
          /\ Len(c.res) = Len(ops)
          /\ \A i \in 1 .. Len(ops) :
               (\A j \in (i + 1) .. Len(ops) : ops[j].key # ops[i].key)
                 => c.res[i] = base[n][ops[i].key] + Replay[c.target][ops[i].key]

(***************************************************************************)
(* A health check that fails half way leaves its key changed.  In every    *)
(* prefix of the log the key is at least 0 and exceeds it by at most the   *)
(* checks that failed or died, plus the one under way.                     *)
(***************************************************************************)
HealthKeyBounded ==
  \A i \in 0 .. LastId :
    /\ Replay[i][HealthKey] >= 0
    /\ Replay[i][HealthKey] <= count.badChecks + 1

(***************************************************************************)
(* Every call is answered, or ends with its process, and the mutex is      *)
(* released, unless the node's consumer loop has stopped at a hole or at a *)
(* read that failed, or the call is the append that got log id 0, which no *)
(* node applies.                                                           *)
(***************************************************************************)
CallsAnswered ==
  \A n \in Nodes :
    (cur[n].kind # "none") ~>
      \/ cur[n].kind = "none"
      \/ ~app[n].running
      \/ cur[n].kind # "read" /\ cur[n].target = 0
=============================================================================
