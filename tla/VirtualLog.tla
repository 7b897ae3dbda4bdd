----------------------------- MODULE VirtualLog -----------------------------
(***************************************************************************)
(* The replicated log: sequencers (log/impl/SequencerImpl.cc), replicas    *)
(* with one nano log per version (ReplicaImpl.cc, InMemoryNanoLog.cc), the *)
(* metadata store (InMemoryMetadataStore.cc) and the virtual logs that     *)
(* append through a sequencer and reconfigure the ensemble                 *)
(* (VirtualLogImpl.cc).                                                    *)
(*                                                                         *)
(* Every append carries its own payload, so a payload is named by the      *)
(* append that wrote it.  A request to a replica is handled at any time,   *)
(* in any order, or never; the caller may give up on it (the 250 ms        *)
(* deadline of ReplicaClient.cc) while the replica still handles it.       *)
(***************************************************************************)
EXTENDS NanoLog, MetadataConfigs

CONSTANTS Replicas,        \* the replica set, the same in every version
          Clients,         \* VirtualLogImpl objects, one per node
          Sequencers,      \* SequencerImpl objects
          FirstSequencer,  \* the sequencer of the first configuration
          Appends,         \* the append calls of a behaviour
          Overlap,         \* do calls of append and reconfigure overlap?
          EndOfLog,        \* std::numeric_limits<std::int64_t>::max()
          BootstrapEnd,    \* end_index of the first configuration
          MaxLogId,        \* bound: log ids handed out
          MaxVersion,      \* bound: configurations installed
          MaxAborts,       \* bound: reconfigure calls that throw
          MaxLate          \* bound: requests still under way although the
                           \*   call that made them has moved on

ASSUME VirtualLogConstants ==
  /\ IsFiniteSet(Replicas) /\ Replicas # {}
  /\ FirstSequencer \in Sequencers
  /\ Overlap \in BOOLEAN
  /\ MaxLogId \in Nat /\ MaxVersion \in Nat \ {0} /\ MaxAborts \in Nat
  /\ MaxLate \in Nat
  /\ BootstrapEnd \in Nat /\ EndOfLog \in Nat
  /\ MaxLogId < BootstrapEnd /\ BootstrapEnd <= EndOfLog

VARIABLES
  store,   \* metadata store [configs, byLogId]
  seqr,    \* per sequencer [num, gci, ver]: sequenceNum_,
           \*   globalCommitIndex_, versionId_
  nano,    \* per replica and version: the nano log, NoLog until created
  op,      \* per append [pc, seqr, logId, ver, gci]; ver and gci are what
           \*   its request to each replica carries
  stage,   \* per append and replica: how far the replica's handler got
  vlog,    \* per client [ver, seqr]: state_ of its VirtualLogImpl
  rc,      \* per client: its running reconfigure call
  aborts,  \* number of reconfigure calls that threw
  fill,    \* re-replication requests not answered yet
  onTime   \* history, per append [stored, acked]: replicas that stored its
           \*   request, that acknowledged it, while not sealed

vars == <<store, seqr, nano, op, stage, vlog, rc, aborts, fill, onTime>>

Versions == 1 .. MaxVersion
LogIds   == 1 .. MaxLogId
NoLog    == [sealed |-> FALSE]

QuorumSize == Cardinality(Replicas) \div 2 + 1

(* How far a request got; "refused" is also a request that was lost. *)
Stages == {"none", "sent", "checked", "stored", "acked", "refused"}

IdleCall == [pc |-> "idle", ver |-> 0, target |-> FirstSequencer,
             quorum |-> {}, todo |-> {}, min |-> EndOfLog, max |-> 0,
             at |-> 0, oks |-> {}]

FirstConfig == [prev |-> 0, ver |-> 1, start |-> 1, end |-> BootstrapEnd,
                seqr |-> FirstSequencer]

Init ==
  /\ store = AppendRange(EmptyStore, FirstConfig)
  /\ seqr = [s \in Sequencers |-> [num |-> 1, gci |-> 1, ver |-> 1]]
  /\ nano = [r \in Replicas |-> [v \in Versions |-> NoLog]]
  /\ op = [a \in Appends |-> [pc |-> "new", seqr |-> FirstSequencer,
                              logId |-> 0, ver |-> [r \in Replicas |-> 0],
                              gci |-> [r \in Replicas |-> 0]]]
  /\ stage = [a \in Appends |-> [r \in Replicas |-> "none"]]
  /\ vlog = [c \in Clients |-> [ver |-> 0, seqr |-> FirstSequencer]]
  /\ rc = [c \in Clients |-> IdleCall]
  /\ aborts = 0
  /\ fill = {}
  /\ onTime = [a \in Appends |-> [stored |-> {}, acked |-> {}]]

-----------------------------------------------------------------------------
(* Replica: finding the nano log of a version *)

(* Faulty variant: every call creates the nano log. *)
GetNanoLogAnew(r, v) == MakeNanoLog(store.configs[v].start)

(* ReplicaImpl creates the nano log of a version at the first append or
   seal, at the start index of the version's configuration. *)
GetNanoLog(r, v) ==
  IF nano[r][v] = NoLog THEN MakeNanoLog(store.configs[v].start) ELSE nano[r][v]

HasConfig(v) == v \in DOMAIN store.configs

(* Entries a replica can return for a version: {} is LogReadError::NotFound. *)
GetLogEntry(r, v, n) ==
  IF nano[r][v] # NoLog /\ Occupied(nano[r][v], n) THEN {nano[r][v].logs[n]} ELSE {}

(***************************************************************************)
(* What follows when replica r fulfils the promises of version v at the    *)
(* log ids `done', starting from handler stages st and open re-replication *)
(* requests fl: waiting appends are acknowledged, waiting re-replication   *)
(* requests are answered, and a reconfigure call waiting for such an       *)
(* answer counts it.                                                       *)
(***************************************************************************)
Fulfilled(a, r, v, done) ==
  stage[a][r] = "stored" /\ op[a].ver[r] = v /\ op[a].logId \in done

Answered(m, r, v, done) ==
  m.replica = r /\ m.ver = v /\ m.logId \in done /\ m.st = "stored"

(* The reconfigure calls after the requests in `answers' succeeded. *)
CountAnswers(answers) ==
  [c \in Clients |->
     IF rc[c].pc = "await"
       THEN [rc[c] EXCEPT !.oks = @ \union
               {m.replica : m \in {x \in answers : /\ x.client = c
                                                   /\ x.ver = rc[c].ver
                                                   /\ x.logId = rc[c].at}}]
       ELSE rc[c]]

(* History: what an unsealed replica stored and acknowledged. *)
RecordOnTime(r, v, stores, acks) ==
  LET add(S, a, who) == IF a \in who /\ ~nano[r][v].sealed THEN S \union {r} ELSE S
  IN  onTime' = [a \in Appends |-> [stored |-> add(onTime[a].stored, a, stores),
                                   acked  |-> add(onTime[a].acked, a, acks)]]

-----------------------------------------------------------------------------
(* Sequencer and append *)

Reconfiguring == \E c \in Clients : rc[c].pc # "idle"
Appending     == \E a \in Appends : op[a].pc \in {"numbered", "sent"}

(***************************************************************************)
(* Requests outlive the call that made them: when an append returns or     *)
(* throws, and when reconfigure moves on, each request not handled yet is  *)
(* lost or stays under way.  At most MaxLate of them stay.                 *)
(***************************************************************************)
Unhandled(a) == {r \in Replicas : stage[a][r] \in {"sent", "checked"}}

OpenFills(c) == {m \in fill : m.client = c /\ m.st = "sent"}

LateCount ==
  Cardinality({ar \in Appends \X Replicas :
                 op[ar[1]].pc \in {"acked", "failed"} /\ ar[2] \in Unhandled(ar[1])})
  + Cardinality({m \in fill : /\ m.st = "sent"
                             /\ \/ rc[m.client].pc # "await"
                                \/ rc[m.client].ver # m.ver
                                \/ rc[m.client].at # m.logId})

LeaveRequests(a) ==
  \E late \in SUBSET Unhandled(a) :
    /\ late = {} \/ LateCount + Cardinality(late) <= MaxLate
    /\ stage' = [stage EXCEPT ![a] = [r \in Replicas |->
                   IF r \in Unhandled(a) \ late THEN "refused" ELSE stage[a][r]]]

LeaveFills(c) ==
  \E late \in SUBSET OpenFills(c) :
    /\ late = {} \/ LateCount + Cardinality(late) <= MaxLate
    /\ fill' = fill \ (OpenFills(c) \ late)

(* VirtualLogImpl::append -> SequencerImpl::append: sequenceNum_++. *)
TakeLogId(c, a) ==
  LET s == vlog[c].seqr
  IN  /\ op[a].pc = "new"
      /\ Overlap \/ (~Reconfiguring /\ ~Appending)
      /\ seqr[s].num <= MaxLogId
      /\ op' = [op EXCEPT ![a].pc = "numbered", ![a].seqr = s,
                          ![a].logId = seqr[s].num]
      /\ seqr' = [seqr EXCEPT ![s].num = @ + 1]
      /\ UNCHANGED <<store, nano, stage, vlog, rc, fill, aborts, onTime>>

(* The loop over replicaSet_ reads globalCommitIndex_ and versionId_ anew for
   every replica; the requests go out when it is done. *)
SendAppend(a, r) ==
  /\ op[a].pc = "numbered"
  /\ stage[a][r] = "none"
  /\ op' = [op EXCEPT ![a].gci[r] = seqr[op[a].seqr].gci,
                      ![a].ver[r] = seqr[op[a].seqr].ver,
                      ![a].pc = IF \A x \in Replicas \ {r} : stage[a][x] = "sent"
                                  THEN "sent" ELSE "numbered"]
  /\ stage' = [stage EXCEPT ![a][r] = "sent"]
  /\ UNCHANGED <<store, seqr, nano, vlog, rc, fill, aborts, onTime>>

(* ReplicaImpl::append up to the unlocked test of sealed_ in
   InMemoryNanoLog::append. *)
CheckSealed(a, r) ==
  LET v == op[a].ver[r]
  IN  /\ stage[a][r] = "sent"
      /\ op[a].pc # "numbered"
      /\ IF HasConfig(v)
           THEN /\ nano' = [nano EXCEPT ![r][v] = GetNanoLog(r, v)]
                /\ stage' = [stage EXCEPT ![a][r] =
                               IF GetNanoLog(r, v).sealed
                                 THEN "refused" ELSE "checked"]
           ELSE /\ stage' = [stage EXCEPT ![a][r] = "refused"]
                /\ UNCHANGED nano
      /\ UNCHANGED <<store, seqr, op, vlog, rc, fill, aborts, onTime>>

(* The locked part: NanoLogLogPositionAlreadyOccupied ... *)
RefuseOccupied(a, r) ==
  /\ stage[a][r] = "checked"
  /\ Occupied(nano[r][op[a].ver[r]], op[a].logId)
  /\ stage' = [stage EXCEPT ![a][r] = "refused"]
  /\ UNCHANGED <<store, seqr, nano, op, vlog, rc, fill, aborts, onTime>>

(* ... or store, queue the promise and complete what can be completed. *)
StoreEntry(a, r) ==
  LET v   == op[a].ver[r]
      n   == op[a].logId
      res == AppendLocked(nano[r][v], {op[a].gci[r]}, n, a)
      acks == {x \in Appends : Fulfilled(x, r, v, res.done)}
                \union (IF n \in res.done THEN {a} ELSE {})
      answers == {m \in fill : Answered(m, r, v, res.done)}
  IN  /\ stage[a][r] = "checked"
      /\ ~Occupied(nano[r][v], n)
      /\ nano' = [nano EXCEPT ![r][v] = res.log]
      /\ stage' = [x \in Appends |-> [stage[x] EXCEPT ![r] =
                     IF x \in acks THEN "acked"
                     ELSE IF x = a THEN "stored" ELSE @]]
      /\ fill' = fill \ answers
      /\ rc' = CountAnswers(answers)
      /\ RecordOnTime(r, v, {a}, acks)
      /\ UNCHANGED <<store, seqr, op, vlog, aborts>>

(* anyNSuccessful saw a quorum: the continuation raises the commit index of
   the sequencer as it is now and the call returns the log id. *)
CommitAppend(a) ==
  /\ op[a].pc = "sent"
  /\ Cardinality({r \in Replicas : stage[a][r] = "acked"}) >= QuorumSize
  /\ op' = [op EXCEPT ![a].pc = "acked"]
  /\ seqr' = [seqr EXCEPT ![op[a].seqr].gci =
                IF @ < op[a].logId THEN op[a].logId ELSE @]
  /\ LeaveRequests(a)
  /\ UNCHANGED <<store, nano, vlog, rc, fill, aborts, onTime>>

(* Too many replicas refused or did not answer in time: the call throws
   (MAXIMUM_SEQUENCER_RETIRES is 0).  Nothing is undone at the replicas. *)
FailAppend(a) ==
  /\ op[a].pc = "sent"
  /\ op' = [op EXCEPT ![a].pc = "failed"]
  /\ LeaveRequests(a)
  /\ UNCHANGED <<store, seqr, nano, vlog, rc, fill, aborts, onTime>>

-----------------------------------------------------------------------------
(* Reconfiguration *)

(* reconfigure(target): read the version, pick a random majority. *)
BeginReconfigure(c, s, quorum) ==
  /\ rc[c].pc = "idle"
  /\ Overlap \/ (~Reconfiguring /\ ~Appending)
  /\ CurrentVersionId(store) < MaxVersion
  /\ Cardinality(quorum) = QuorumSize
  /\ rc' = [rc EXCEPT ![c] = [IdleCall EXCEPT !.pc = "seal", !.target = s,
              !.ver = CurrentVersionId(store), !.quorum = quorum, !.todo = quorum]]
  /\ UNCHANGED <<store, seqr, nano, op, stage, vlog, fill, aborts, onTime>>

(* Where the call continues when log ids n .. max - 1 still need copies. *)
PhaseAt(n, max) == IF n < max THEN "fetch" ELSE "install"

(* co_await replica->seal(versionId) of one replica of the majority. *)
Seal(c, r) ==
  LET v   == rc[c].ver
      res == SealNanoLog(GetNanoLog(r, v))
      lo  == IF res.end < rc[c].min THEN res.end ELSE rc[c].min
      hi  == IF res.end > rc[c].max THEN res.end ELSE rc[c].max
  IN  /\ rc[c].pc = "seal"
      /\ r \in rc[c].todo
      /\ nano' = [nano EXCEPT ![r][v] = res.log]
      /\ rc' = [rc EXCEPT ![c].todo = @ \ {r}, ![c].min = lo, ![c].max = hi,
                          ![c].at = lo,
                          ![c].pc = IF rc[c].todo = {r}
                                      THEN PhaseAt(lo, hi) ELSE "seal"]
      /\ UNCHANGED <<store, seqr, op, stage, vlog, fill, aborts, onTime>>

(* Read the entry at `at' from one replica of the majority that has it and
   offer it to every replica with skipSeal. *)
FetchEntry(c, r) ==
  /\ rc[c].pc = "fetch"
  /\ r \in rc[c].quorum
  /\ \E val \in GetLogEntry(r, rc[c].ver, rc[c].at) :
       fill' = fill \union
         {[client |-> c, replica |-> x, ver |-> rc[c].ver, logId |-> rc[c].at,
           val |-> val, st |-> "sent"] : x \in Replicas}
  /\ rc' = [rc EXCEPT ![c].pc = "await", ![c].oks = {}]
  /\ UNCHANGED <<store, seqr, nano, op, stage, vlog, aborts, onTime>>

(* A replica handles append(nullopt, version, logId, payload, skipSeal):
   an occupied position is a success ... *)
FillOccupied(m) ==
  /\ m.st = "sent"
  /\ Occupied(GetNanoLog(m.replica, m.ver), m.logId)
  /\ fill' = fill \ {m}
  /\ rc' = CountAnswers({m})
  /\ UNCHANGED <<store, seqr, nano, op, stage, vlog, aborts, onTime>>

(* ... a free one is stored, sealed or not, and answered when its promise is
   fulfilled; promises queued behind it may be fulfilled with it. *)
FillHole(m) ==
  LET r   == m.replica
      v   == m.ver
      log == GetNanoLog(r, v)
      res == AppendLocked(log, {}, m.logId, m.val)
      acks == {x \in Appends : Fulfilled(x, r, v, res.done)}
      answers == {x \in fill : Answered(x, r, v, res.done)}
                   \union (IF m.logId \in res.done THEN {m} ELSE {})
  IN  /\ m.st = "sent"
      /\ ~Occupied(log, m.logId)
      /\ nano' = [nano EXCEPT ![r][v] = res.log]
      /\ stage' = [x \in Appends |-> [stage[x] EXCEPT ![r] =
                     IF x \in acks THEN "acked" ELSE @]]
      /\ fill' = (fill \ (answers \union {m})) \union
                 (IF m \in answers THEN {} ELSE {[m EXCEPT !.st = "stored"]})
      /\ rc' = CountAnswers(answers)
      /\ RecordOnTime(r, v, {}, acks)
      /\ UNCHANGED <<store, seqr, op, vlog, aborts>>

(* A majority answered: on to the next log id. *)
NextEntry(c) ==
  /\ rc[c].pc = "await"
  /\ Cardinality(rc[c].oks) >= QuorumSize
  /\ rc' = [rc EXCEPT ![c].at = @ + 1,
                      ![c].pc = PhaseAt(rc[c].at + 1, rc[c].max)]
  /\ LeaveFills(c)
  /\ UNCHANGED <<store, seqr, nano, op, stage, vlog, aborts, onTime>>

(* Faulty variant: the segment ends at the smallest sealed index. *)
SuccessorFromMin(c) ==
  [prev |-> rc[c].ver, ver |-> rc[c].ver + 1, start |-> rc[c].min,
   end |-> EndOfLog, seqr |-> rc[c].target]

SuccessorConfig(c) ==
  [prev |-> rc[c].ver, ver |-> rc[c].ver + 1, start |-> rc[c].max,
   end |-> EndOfLog, seqr |-> rc[c].target]

(* compareAndAppendRange succeeds, or throws and the winner is adopted. *)
Install(c) ==
  /\ rc[c].pc = "install"
  /\ MayAppendRange(store, SuccessorConfig(c))
  /\ store' = AppendRange(store, SuccessorConfig(c))
  /\ rc' = [rc EXCEPT ![c].pc = "setState"]
  /\ UNCHANGED <<seqr, nano, op, stage, vlog, fill, aborts, onTime>>

LoseRace(c) ==
  /\ rc[c].pc = "install"
  /\ ~MayAppendRange(store, SuccessorConfig(c))
  /\ rc' = [rc EXCEPT ![c].pc = "adopt"]
  /\ UNCHANGED <<store, seqr, nano, op, stage, vlog, fill, aborts, onTime>>

(* setState(versionId) *)
StateOf(v) == [ver |-> v, seqr |-> store.configs[v].seqr]

AdoptWinner(c) ==
  /\ rc[c].pc = "adopt"
  /\ vlog' = [vlog EXCEPT ![c] = StateOf(CurrentVersionId(store))]
  /\ rc' = [rc EXCEPT ![c] = IdleCall]
  /\ UNCHANGED <<store, seqr, nano, op, stage, fill, aborts, onTime>>

SetState(c) ==
  /\ rc[c].pc = "setState"
  /\ vlog' = [vlog EXCEPT ![c] = StateOf(rc[c].ver + 1)]
  /\ rc' = [rc EXCEPT ![c].pc = "startNum"]
  /\ UNCHANGED <<store, seqr, nano, op, stage, fill, aborts, onTime>>

(* state_->sequencer->start(version, startIndex): three separate stores. *)
StartNum(c) ==
  /\ rc[c].pc = "startNum"
  /\ seqr' = [seqr EXCEPT ![vlog[c].seqr].num = rc[c].max]
  /\ rc' = [rc EXCEPT ![c].pc = "startGci"]
  /\ UNCHANGED <<store, nano, op, stage, vlog, fill, aborts, onTime>>

StartGci(c) ==
  /\ rc[c].pc = "startGci"
  /\ seqr' = [seqr EXCEPT ![vlog[c].seqr].gci = rc[c].max]
  /\ rc' = [rc EXCEPT ![c].pc = "startVer"]
  /\ UNCHANGED <<store, nano, op, stage, vlog, fill, aborts, onTime>>

(* Faulty variant: the sequencer keeps the version it had. *)
StartVerForgotten(c) ==
  /\ rc[c].pc = "startVer"
  /\ rc' = [rc EXCEPT ![c] = IdleCall]
  /\ UNCHANGED <<store, seqr, nano, op, stage, vlog, fill, aborts, onTime>>

StartVer(c) ==
  /\ rc[c].pc = "startVer"
  /\ seqr' = [seqr EXCEPT ![vlog[c].seqr].ver = rc[c].ver + 1]
  /\ rc' = [rc EXCEPT ![c] = IdleCall]
  /\ UNCHANGED <<store, nano, op, stage, vlog, fill, aborts, onTime>>

(* A remote call of reconfigure fails or times out (starting a remote
   sequencer always throws): the coroutine throws and FailureDetectorImpl
   logs it.  What was done stays done. *)
AbortReconfigure(c) ==
  /\ rc[c].pc \in {"seal", "fetch", "await", "install", "adopt",
                  "setState", "startNum"}
  /\ aborts < MaxAborts
  /\ aborts' = aborts + 1
  /\ rc' = [rc EXCEPT ![c] = IdleCall]
  /\ LeaveFills(c)
  /\ UNCHANGED <<store, seqr, nano, op, stage, vlog, onTime>>

(* refreshConfiguration() *)
Refresh(c) ==
  /\ vlog[c].ver < CurrentVersionId(store)
  /\ Overlap \/ ~Reconfiguring
  /\ vlog' = [vlog EXCEPT ![c] = StateOf(CurrentVersionId(store))]
  /\ UNCHANGED <<store, seqr, nano, op, stage, rc, fill, aborts, onTime>>

-----------------------------------------------------------------------------
Next ==
  \/ \E c \in Clients, a \in Appends : TakeLogId(c, a)
  \/ \E a \in Appends, r \in Replicas : SendAppend(a, r)
  \/ \E a \in Appends, r \in Replicas : CheckSealed(a, r)
  \/ \E a \in Appends, r \in Replicas : RefuseOccupied(a, r)
  \/ \E a \in Appends, r \in Replicas : StoreEntry(a, r)
  \/ \E a \in Appends : CommitAppend(a)
  \/ \E a \in Appends : FailAppend(a)
  \/ \E c \in Clients, s \in Sequencers, Q \in SUBSET Replicas :
       BeginReconfigure(c, s, Q)
  \/ \E c \in Clients, r \in Replicas : Seal(c, r)
  \/ \E c \in Clients, r \in Replicas : FetchEntry(c, r)
  \/ \E m \in fill : FillOccupied(m)
  \/ \E m \in fill : FillHole(m)
  \/ \E c \in Clients : NextEntry(c)
  \/ \E c \in Clients : Install(c)
  \/ \E c \in Clients : LoseRace(c)
  \/ \E c \in Clients : AdoptWinner(c)
  \/ \E c \in Clients : SetState(c)
  \/ \E c \in Clients : StartNum(c)
  \/ \E c \in Clients : StartGci(c)
  \/ \E c \in Clients : StartVer(c)
  \/ \E c \in Clients : AbortReconfigure(c)
  \/ \E c \in Clients : Refresh(c)

Spec == Init /\ [][Next]_vars
-----------------------------------------------------------------------------
(* Properties *)

(* Every variable keeps to its type: no log id beyond the ones handed out is
   stored, queued or announced in any version. *)
TypeOK ==
  /\ DOMAIN store.configs \subseteq Versions
  /\ DOMAIN store.byLogId \subseteq 1 .. (MaxLogId + 1)
  /\ seqr \in [Sequencers -> [num : 1 .. (MaxLogId + 1), gci : LogIds \union
                               {MaxLogId + 1}, ver : Versions]]
  /\ \A r \in Replicas, v \in Versions :
       nano[r][v] # NoLog =>
         /\ nano[r][v].sealed \in BOOLEAN
         /\ DOMAIN nano[r][v].logs \subseteq LogIds
         /\ \A n \in DOMAIN nano[r][v].logs : nano[r][v].logs[n] \in Appends
         /\ nano[r][v].queue.cur \in 1 .. (MaxLogId + 1)
         /\ nano[r][v].queue.pend \subseteq DOMAIN nano[r][v].logs
  /\ op \in [Appends -> [pc : {"new", "numbered", "sent", "acked", "failed"},
                         seqr : Sequencers, logId : 0 .. MaxLogId,
                         ver : [Replicas -> 0 .. MaxVersion],
                         gci : [Replicas -> 0 .. (MaxLogId + 1)]]]
  /\ stage \in [Appends -> [Replicas -> Stages]]
  /\ vlog \in [Clients -> [ver : 0 .. MaxVersion, seqr : Sequencers]]
  /\ \A c \in Clients : rc[c].ver \in 0 .. MaxVersion /\ rc[c].oks \subseteq Replicas
  /\ onTime \in [Appends -> [stored : SUBSET Replicas, acked : SUBSET Replicas]]

(* What VirtualLogImpl::getLogEntry may return for n: it asks the replicas
   in turn, in the version that owns n, until one has the entry. *)
ReadableAt(n) ==
  UNION {GetLogEntry(r, cfg.ver, n) :
           r \in Replicas, cfg \in ConfigsUsingLogId(store, n)}

(***************************************************************************)
(* Durability, as the test ReconfigureOnSegmentMultipleTimes expects it    *)
(* (log/impl/tests/VirtualLogTest.cc): an append whose log id was returned *)
(* to the caller stays readable under that log id, whichever replica       *)
(* answers first, across any number of reconfigurations.                   *)
(***************************************************************************)
AckedEntryReadable ==
  \A a \in Appends : op[a].pc = "acked" => ReadableAt(op[a].logId) = {a}

(***************************************************************************)
(* The part of durability that sealing itself provides: an append that a   *)
(* quorum acknowledged before being sealed lies below the start of the     *)
(* next version, so the reconfiguration keeps it, whatever else races.     *)
(***************************************************************************)
AckedBeforeSealKept ==
  \A a \in Appends, v \in Versions :
    /\ Cardinality({r \in onTime[a].acked : op[a].ver[r] = v}) >= QuorumSize
    /\ HasConfig(v + 1)
    => op[a].logId < store.configs[v + 1].start

(***************************************************************************)
(* In one version, no two replicas hold different payloads at a log id, so *)
(* re-replication may copy the entry of any of them.                       *)
(***************************************************************************)
SegmentAgreement ==
  \A v \in Versions, n \in LogIds, r1, r2 \in Replicas :
    \A x \in GetLogEntry(r1, v, n), y \in GetLogEntry(r2, v, n) : x = y

(***************************************************************************)
(* Re-replication never meets a log id that no sealed replica has, which   *)
(* makes reconfigure throw: what one replica has passed, by a commit index *)
(* or after a failed append, some replica of every majority holds.         *)
(***************************************************************************)
RecoveryFindsEntry ==
  \A c \in Clients :
    rc[c].pc = "fetch" =>
      \E r \in rc[c].quorum : GetLogEntry(r, rc[c].ver, rc[c].at) # {}

(***************************************************************************)
(* The commit index a sequencer of the current version announces never     *)
(* covers a log id that is not on a quorum: replicas that skip to it skip  *)
(* nothing uncommitted.                                                    *)
(***************************************************************************)
CommitIndexOnQuorum ==
  LET v == CurrentVersionId(store)
  IN  \A s \in Sequencers : seqr[s].ver = v =>
        \A n \in store.configs[v].start .. (seqr[s].gci - 1) :
          Cardinality({r \in Replicas : GetLogEntry(r, v, n) # {}}) >= QuorumSize

(***************************************************************************)
(* Segments follow each other without gap or overlap, and the lookup by    *)
(* log id agrees with the chain, for the ranges reconfigurations really    *)
(* produce (including empty segments).                                     *)
(***************************************************************************)
SegmentsContiguous ==
  LET C == store.configs
  IN  /\ \A v \in DOMAIN C \ {1} : /\ C[v - 1].end = C[v].start
                                   /\ C[v - 1].start <= C[v].start
      /\ \A n \in LogIds :
           {cfg.ver : cfg \in ConfigsUsingLogId(store, n)} =
             {Largest({v \in DOMAIN C : C[v].start <= n})}

(* A replica once sealed for a version stays sealed, and what it stored is
   never replaced: a late request, a retry or a re-replication may only fill
   an empty position. *)
StoredEntriesFixed ==
  [][\A r \in Replicas, v \in Versions : nano[r][v] # NoLog =>
       /\ nano[r][v].sealed => nano'[r][v].sealed
       /\ \A n \in DOMAIN nano[r][v].logs :
            /\ n \in DOMAIN nano'[r][v].logs
            /\ nano'[r][v].logs[n] = nano[r][v].logs[n]]_nano
=============================================================================
