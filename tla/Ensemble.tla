------------------------------ MODULE Ensemble ------------------------------
(***************************************************************************)
(* The processes of the counter ensemble: CounterAppServer::start and      *)
(* LogServer::start wire every node together one server at a time, and the *)
(* node called COUNTER_APP_1 runs FailureDetectorImpl, whose two loops     *)
(* (health check, reconciliation) share one VirtualLogImpl.                *)
(*                                                                         *)
(* Log ids but 0, and payloads, are left out (see VirtualLog): a segment   *)
(* is its version, and an append is acknowledged when a majority of        *)
(* replicas serve that have not sealed its version.  The chain of          *)
(* configurations is its length (see MetadataChain); the sequencer every   *)
(* configuration names is the detector's own, and the processes run the    *)
(* debug build, where a failed assert ends the process.                    *)
(***************************************************************************)
EXTENDS Naturals, Sequences, FiniteSets

CONSTANTS Nodes,       \* the servers of the configuration files
          First,       \* the node whose name is COUNTER_APP_1
          Window,      \* length of healthCheckRecords_, 5 in the code
          MaxVersion,  \* bound: configurations installed
          MaxFaults    \* bound: crashes, timeouts and calls that come too early

ASSUME EnsembleConstants ==
  /\ First \in Nodes /\ IsFiniteSet(Nodes)
  /\ Window \in Nat \ {0} /\ MaxVersion \in Nat /\ MaxFaults \in Nat

VARIABLES
  node,     \* per node [next, acceptors, replicaSet, sequencers, serving]: the
            \*   next step of start, paxosRegistry, the replica clients, the
            \*   sequencers of the registry and the gRPC services it runs
  sealed,   \* per node: versions its replica has sealed
  seq,      \* per node: versionId_ of its SequencerImpl
  vlog,     \* per node: version of state_ of its VirtualLogImpl, 0 for the
            \*   NullSequencer it is made with
  version,  \* current version of the chain of configurations
  check,    \* the health check loop [pc, ok, read, records, alive]
  rec,      \* the reconciliation loop [pc, v, todo]
  zeroUsed, \* does an entry have log id 0?
  faults,   \* number of faults so far
  lost      \* history: replicas that forgot a seal in a restart

vars == <<node, sealed, seq, vlog, version, check, rec, zeroUsed, faults, lost>>

Down == [next |-> "replica", acceptors |-> {}, replicaSet |-> {},
         sequencers |-> {}, serving |-> {}]
CheckOff == [pc |-> "off", ok |-> FALSE, read |-> 0,
             records |-> [i \in 1 .. Window |-> FALSE], alive |-> FALSE]
RecOff   == [pc |-> "off", v |-> 0, todo |-> {}]

Majority == Cardinality(Nodes) \div 2 + 1

Init ==
  /\ node = [n \in Nodes |-> Down]
  /\ sealed = [n \in Nodes |-> {}]
  /\ seq = [n \in Nodes |-> 1]
  /\ vlog = [n \in Nodes |-> 0]
  /\ version = 0
  /\ check = CheckOff
  /\ rec = RecOff
  /\ zeroUsed = FALSE
  /\ faults = 0
  /\ lost = {}

Serves(n, service) == service \in node[n].serving

-----------------------------------------------------------------------------
(* Start of a process *)

At(n, step) == node[n].next = step

Started(n, changes) ==
  /\ node' = [node EXCEPT ![n] = changes]
  /\ UNCHANGED <<sealed, seq, vlog, version, check, rec, zeroUsed, faults, lost>>

(* makeRemoteMetadataStore, makeReplicaServer: the metadata store, the replica
   and the acceptor answer before the acceptors of the other nodes are in
   paxosRegistry. *)
MakeReplicaServer(n) ==
  /\ At(n, "replica")
  /\ Started(n, [node[n] EXCEPT !.next = "registries", !.acceptors = @ \union {n},
                   !.serving = @ \union {"metadata", "replica", "acceptor"}])

(* The rest of LogServer::start: makeReplicaSet, makeAcceptorSet, the sequencer
   and its server, registerSequencers, makeVirtualLog. *)
MakeRegistries(n) ==
  /\ At(n, "registries")
  /\ Started(n, [node[n] EXCEPT !.next = "app", !.replicaSet = Nodes,
                   !.acceptors = @ \union Nodes, !.sequencers = Nodes,
                   !.serving = @ \union {"sequencer"}])

(* The rest of CounterAppServer::start: the state machine
   stack, the application and its gRPC server; the failure detector, whose
   constructor starts both loops, only on COUNTER_APP_1. *)
StartApp(n) ==
  /\ At(n, "app")
  /\ node' = [node EXCEPT ![n].next = "done", ![n].serving = @ \union {"app"}]
  /\ IF n = First
     THEN check' = [CheckOff EXCEPT !.pc = "sleep"] /\ rec' = [RecOff EXCEPT !.pc = "sleep"]
     ELSE UNCHANGED <<check, rec>>
  /\ UNCHANGED <<sealed, seq, vlog, version, zeroUsed, faults, lost>>

(* What is left of the nodes in the set when their processes end.  The replicas
   of LogServer keep their segments and seals in memory (makeRocksReplica passes
   NanoLogType::InMemory). *)
EndProcesses(dead) ==
  /\ node' = [n \in Nodes |-> IF n \in dead THEN Down ELSE node[n]]
  /\ seq' = [n \in Nodes |-> IF n \in dead THEN 1 ELSE seq[n]]
  /\ vlog' = [n \in Nodes |-> IF n \in dead THEN 0 ELSE vlog[n]]
  /\ lost' = lost \union {n \in dead : sealed[n] # {}}

Crash(n) ==
  /\ node[n] # Down /\ faults < MaxFaults
  /\ EndProcesses({n})
  /\ sealed' = [sealed EXCEPT ![n] = {}]
  /\ check' = IF n = First THEN CheckOff ELSE check
  /\ rec' = IF n = First THEN RecOff ELSE rec
  /\ faults' = faults + 1
  /\ UNCHANGED <<version, zeroUsed>>

-----------------------------------------------------------------------------
(* Calls to replicas and to the metadata store *)

(* ReplicaImpl reads the configuration before it makes a segment, and
   getAcceptor asserts that the acceptor is registered: a replica that is
   called too early takes its process with it. *)
TooEarly(r) == Serves(r, "replica") /\ node[r].acceptors # Nodes

(* Replicas of which a majority would acknowledge an append to version v. *)
Accepting(v) == {r \in Nodes : Serves(r, "replica") /\ ~ TooEarly(r) /\ v \notin sealed[r]}

(* SequencerImpl::append of the detector's sequencer; a version without a
   configuration has no segment. *)
Acknowledges(v) == v <= version /\ Cardinality(Accepting(v)) >= Majority

(* PersistentMetadataStore: makePaxosWor passes the number of acceptors as the
   majority and a read ends with a register nobody has committed, so every
   call asks all acceptors and throws when one does not answer. *)
StoreAnswers == \A n \in Nodes : Serves(n, "acceptor")

-----------------------------------------------------------------------------
(* Health check loop *)

(* CounterHealthCheck::isAlive appends through state_; the NullSequencer throws. *)
Appends == vlog[First] # 0
Acked   == Appends /\ Acknowledges(seq[First])

(* An append that throws may leave its entry in the log. *)
MayUseZero == zeroUsed' \in (IF Appends THEN {zeroUsed, TRUE} ELSE {zeroUsed})

CheckEnds(ok) == check' = [check EXCEPT !.pc = "record", !.ok = ok]

(* The entry is acknowledged and applied, and isAlive returns true. *)
CheckSucceeds ==
  /\ check.pc = "sleep" /\ Acked /\ zeroUsed
  /\ CheckEnds(TRUE)
  /\ UNCHANGED <<node, sealed, seq, vlog, version, rec, zeroUsed, faults, lost>>

(* The append throws.  A replica that has not made the segment yet needs the
   metadata store for it. *)
CheckThrows ==
  /\ check.pc = "sleep" /\ (~ Acked \/ ~ StoreAnswers)
  /\ CheckEnds(FALSE) /\ MayUseZero
  /\ UNCHANGED <<node, sealed, seq, vlog, version, rec, faults, lost>>

(* The calls are lost or the 200 ms pass before isAlive returns; a replica
   called too early ends. *)
CheckTimesOut ==
  /\ check.pc = "sleep" /\ faults < MaxFaults
  /\ CheckEnds(FALSE) /\ MayUseZero
  /\ EndProcesses(IF Appends THEN {r \in Nodes : TooEarly(r)} ELSE {})
  /\ faults' = faults + 1
  /\ UNCHANGED <<sealed, version, rec>>

(* The entry is acknowledged and never applied, because it has log id 0 or a
   failed read has ended consumeLoop (LogStateMachine): isAlive holds the
   application's mutex for ever, and collectAny, which cancels it after the
   200 ms, waits until it has ended. *)
CheckHangs ==
  /\ check.pc = "sleep" /\ Acked
  /\ ~ zeroUsed \/ faults < MaxFaults
  /\ check' = [check EXCEPT !.pc = "hung"]
  /\ zeroUsed' = TRUE
  /\ faults' = IF zeroUsed THEN faults + 1 ELSE faults
  /\ UNCHANGED <<node, sealed, seq, vlog, version, rec, lost>>

(* emplace_back(result), erase(begin()) *)
Pushed(records, ok) == Append(Tail(records), ok)

Record ==
  LET records == Pushed(check.records, check.ok)
      alive   == \E i \in 1 .. Window : records[i]
  IN  /\ check.pc = "record"
      /\ check' = [check EXCEPT !.records = records, !.alive = alive,
                                !.pc = IF alive THEN "sleep" ELSE "refresh"]
      /\ UNCHANGED <<node, sealed, seq, vlog, version, rec, zeroUsed, faults, lost>>

(* refreshConfiguration: the version of the store is read ... *)
RefreshRead ==
  /\ check.pc = "refresh" /\ StoreAnswers
  /\ check' = [check EXCEPT !.pc = "compare", !.read = version]
  /\ UNCHANGED <<node, sealed, seq, vlog, version, rec, zeroUsed, faults, lost>>

(* Faulty variant: a newer version is not taken over. *)
RefreshCompareOnly ==
  /\ check.pc = "compare" /\ vlog[First] <= check.read
  /\ check' = [check EXCEPT !.pc = "sleep", !.read = 0]
  /\ UNCHANGED <<node, sealed, seq, vlog, version, rec, zeroUsed, faults, lost>>

(* ... then compared with the version of state_, and if that is older setState
   asks the store for the configuration ... *)
RefreshCompare ==
  /\ check.pc = "compare" /\ vlog[First] <= check.read
  /\ check' = IF vlog[First] < check.read THEN [check EXCEPT !.pc = "setting"]
              ELSE [check EXCEPT !.pc = "sleep", !.read = 0]
  /\ UNCHANGED <<node, sealed, seq, vlog, version, rec, zeroUsed, faults, lost>>

(* Faulty variant: the version after the one that was asked for. *)
SetStateNext(n, v) == v + 1

(* The replacement of state_ in setState: the sequencer of the configuration is
   in the registry, and the replica set is kept. *)
SetState(n, v) == IF First \in node[n].sequencers THEN v ELSE vlog[n]

(* ... and replaces state_, whatever the other loop has made of it since. *)
RefreshSet ==
  /\ check.pc = "setting" /\ StoreAnswers
  /\ vlog' = [vlog EXCEPT ![First] = SetState(First, check.read)]
  /\ check' = [check EXCEPT !.pc = "sleep", !.read = 0]
  /\ UNCHANGED <<node, sealed, seq, version, rec, zeroUsed, faults, lost>>

(* The store throws; collectAny drops the exception.  It waits for the refresh
   also when the second it allows has passed. *)
RefreshThrows ==
  /\ check.pc \in {"refresh", "setting"} /\ (~ StoreAnswers \/ faults < MaxFaults)
  /\ check' = [check EXCEPT !.pc = "sleep", !.read = 0]
  /\ faults' = IF StoreAnswers THEN faults + 1 ELSE faults
  /\ UNCHANGED <<node, sealed, seq, vlog, version, rec, zeroUsed, lost>>

(* CHECK(currentVersionId <= versionId): the other loop has installed a newer
   version since, and the process ends. *)
RefreshAborts ==
  /\ check.pc = "compare" /\ vlog[First] > check.read
  /\ EndProcesses({First})
  /\ sealed' = [sealed EXCEPT ![First] = {}]
  /\ check' = CheckOff
  /\ rec' = RecOff
  /\ UNCHANGED <<version, zeroUsed, faults>>

-----------------------------------------------------------------------------
(* Reconciliation loop *)

RecAt(pc) == rec.pc = pc

(* Faulty variant: an exception ends the loop. *)
EndRoundForever == [rec EXCEPT !.pc = "off", !.todo = {}]

(* The exception is logged and the loop goes on. *)
EndRound == [RecOff EXCEPT !.pc = "sleep"]

BeginRoundWith(size) ==
  /\ RecAt("sleep") /\ ~ check.alive
  /\ StoreAnswers /\ version < MaxVersion
  /\ \E q \in SUBSET Nodes :
       /\ Cardinality(q) = size
       /\ rec' = [rec EXCEPT !.pc = "seal", !.v = version, !.todo = q]
  /\ UNCHANGED <<node, sealed, seq, vlog, version, check, zeroUsed, faults, lost>>

(* Faulty variant: half of the replicas are sealed. *)
BeginRoundHalf == BeginRoundWith(Cardinality(Nodes) \div 2)

(* reconfigure: the current version, and a random majority to seal. *)
BeginRound == BeginRoundWith(Majority)

BeginRoundThrows ==
  /\ RecAt("sleep") /\ ~ check.alive
  /\ ~ StoreAnswers
  /\ rec' = EndRound
  /\ UNCHANGED <<node, sealed, seq, vlog, version, check, zeroUsed, faults, lost>>

(* Faulty variant: the answer counts and the seal is not kept. *)
ServeSealLost(r, v) == sealed

(* ReplicaServer::seal *)
ServeSeal(r, v) == [sealed EXCEPT ![r] = @ \union {v}]

(* ReplicaClient::seal of one of the majority; the replica reads the
   configuration first. *)
SealOne(r) ==
  /\ RecAt("seal") /\ r \in rec.todo
  /\ Serves(r, "replica") /\ ~ TooEarly(r) /\ StoreAnswers
  /\ sealed' = ServeSeal(r, rec.v)
  /\ rec' = [rec EXCEPT !.todo = @ \ {r}, !.pc = IF rec.todo = {r} THEN "install" ELSE "seal"]
  /\ UNCHANGED <<node, seq, vlog, version, check, zeroUsed, faults, lost>>

(* The replica does not serve or cannot make the segment, or ends, or is not
   heard of within 250 ms although it may have sealed: reconfigure throws. *)
SealFails(r) ==
  /\ RecAt("seal") /\ r \in rec.todo
  /\ \/ /\ ~ Serves(r, "replica")
        /\ UNCHANGED <<node, sealed, seq, vlog, faults, lost>>
     \/ /\ TooEarly(r) /\ faults < MaxFaults /\ faults' = faults + 1
        /\ EndProcesses({r})
        /\ UNCHANGED sealed
     \/ /\ Serves(r, "replica") /\ ~ TooEarly(r)
        /\ faults < MaxFaults /\ faults' = faults + 1
        /\ sealed' \in {sealed, ServeSeal(r, rec.v)}
        /\ UNCHANGED <<node, seq, vlog, lost>>
  /\ rec' = EndRound
  /\ UNCHANGED <<version, check, zeroUsed>>

(* compareAndAppendRange: nobody else installs configurations. *)
Install ==
  /\ RecAt("install") /\ StoreAnswers
  /\ version' = rec.v + 1
  /\ rec' = [rec EXCEPT !.pc = "set"]
  /\ UNCHANGED <<node, sealed, seq, vlog, check, zeroUsed, faults, lost>>

InstallThrows ==
  /\ RecAt("install") /\ ~ StoreAnswers
  /\ rec' = EndRound
  /\ UNCHANGED <<node, sealed, seq, vlog, version, check, zeroUsed, faults, lost>>

(* setState, which asks the store for the configuration first. *)
InstallState ==
  /\ RecAt("set") /\ StoreAnswers
  /\ vlog' = [vlog EXCEPT ![First] = SetState(First, rec.v + 1)]
  /\ rec' = [rec EXCEPT !.pc = "start"]
  /\ UNCHANGED <<node, sealed, seq, version, check, zeroUsed, faults, lost>>

(* The version is in the chain, and its sequencer is never started. *)
InstallStateThrows ==
  /\ RecAt("set") /\ ~ StoreAnswers
  /\ rec' = EndRound
  /\ UNCHANGED <<node, sealed, seq, vlog, version, check, zeroUsed, faults, lost>>

(* state_->sequencer->start *)
StartSequencer ==
  /\ RecAt("start")
  /\ seq' = [seq EXCEPT ![First] = rec.v + 1]
  /\ rec' = EndRound
  /\ UNCHANGED <<node, sealed, vlog, version, check, zeroUsed, faults, lost>>

-----------------------------------------------------------------------------
StartStep(n) ==
  \/ MakeReplicaServer(n)
  \/ MakeRegistries(n)
  \/ StartApp(n)

HealthLoop ==
  \/ CheckSucceeds
  \/ CheckThrows
  \/ CheckTimesOut
  \/ CheckHangs
  \/ Record
  \/ RefreshRead
  \/ RefreshCompare
  \/ RefreshSet
  \/ RefreshThrows
  \/ RefreshAborts

ReconcileLoop ==
  \/ BeginRound
  \/ BeginRoundThrows
  \/ \E r \in Nodes : SealOne(r)
  \/ \E r \in Nodes : SealFails(r)
  \/ Install
  \/ InstallThrows
  \/ InstallState
  \/ InstallStateThrows
  \/ StartSequencer

Next ==
  \/ \E n \in Nodes : StartStep(n)
  \/ \E n \in Nodes : Crash(n)
  \/ HealthLoop
  \/ ReconcileLoop

Spec == Init /\ [][Next]_vars

(***************************************************************************)
(* Processes that end are started again, and each loop has a thread of the *)
(* pool of four.                                                           *)
(***************************************************************************)
FairSpec ==
  /\ Spec
  /\ \A n \in Nodes : WF_vars(StartStep(n))
  /\ WF_vars(HealthLoop) /\ WF_vars(ReconcileLoop)

-----------------------------------------------------------------------------
(* Properties *)

(* Every variable keeps to its type. *)
TypeOK ==
  /\ \A n \in Nodes :
       /\ node[n].next \in {"replica", "registries", "app", "done"}
       /\ node[n].acceptors \subseteq Nodes /\ node[n].sequencers \subseteq Nodes
       /\ sealed[n] \subseteq 0 .. MaxVersion
       /\ seq[n] \in 1 .. MaxVersion \/ seq[n] = 1
  /\ version \in 0 .. MaxVersion
  /\ Len(check.records) = Window
  /\ check.pc \in {"off", "sleep", "hung", "record", "refresh", "compare", "setting"}
  /\ rec.pc \in {"off", "sleep", "seal", "install", "set", "start"}
  /\ check.pc = "off" <=> node[First].next # "done"

(***************************************************************************)
(* Two loops replace state_ without a lock, each with a version it read    *)
(* before an await: neither the state, nor the sequencer that reconfigure  *)
(* starts, nor a version one of the loops still holds is ahead of the      *)
(* chain, and no version is installed while a round is under way.  The     *)
(* state may fall behind: a refresh puts back the version it read.         *)
(***************************************************************************)
StateWithinChain ==
  /\ TypeOK
  /\ vlog[First] <= version /\ check.read <= version
  /\ seq[First] <= version \/ seq[First] = 1
  /\ rec.pc \in {"seal", "install"} => version = rec.v
  /\ rec.pc \in {"set", "start"} => version = rec.v + 1

(***************************************************************************)
(* As long as no replica has forgotten a seal in a restart, the sequencer  *)
(* acknowledges no append to a version other than the current one,         *)
(* whatever the two loops, timed out calls and restarts of the sequencer   *)
(* do.                                                                     *)
(***************************************************************************)
AckedOnCurrent ==
  lost = {} /\ vlog[First] # 0 /\ Acknowledges(seq[First]) => seq[First] = version

(***************************************************************************)
(* A configuration is installed only over a version that a majority has    *)
(* sealed; a seal forgotten in a restart still counts for its node.        *)
(***************************************************************************)
SealedBeforeInstalled ==
  [][version' # version =>
       Cardinality({r \in Nodes : version \in sealed[r] \/ r \in lost}) >= Majority]_vars

(***************************************************************************)
(* An ensemble that is not alive is reconfigured, whatever the health      *)
(* check does: after every crash, refused seal, exception and timeout, and *)
(* also while the check hangs.                                             *)
(***************************************************************************)
DeadIsReconfigured ==
  \A v \in 0 .. (MaxVersion - 1) :
    version = v /\ ~ check.alive ~> version > v \/ check.alive

(***************************************************************************)
(* A state_ that has fallen behind the chain, because its process has      *)
(* restarted, setState threw or a refresh put an older version back,       *)
(* catches up, unless the ensemble is alive with it or the check hangs.    *)
(***************************************************************************)
StateCatchesUp ==
  vlog[First] < version
    ~> vlog[First] = version \/ check.alive \/ check.pc = "hung"
=============================================================================
