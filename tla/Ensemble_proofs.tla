--------------------------- MODULE Ensemble_proofs ---------------------------
(***************************************************************************)
(* Proofs about the counter ensemble for any number of nodes, any length   *)
(* of the record of health checks and any number of versions and faults.   *)
(* FairSpec implies Spec, so they hold of the specification the runs use.  *)
(***************************************************************************)
EXTENDS Ensemble, FiniteSetTheorems, SequenceTheorems, TLAPS

Services == {"metadata", "replica", "acceptor", "sequencer", "app"}
NodeStates == [next : {"replica", "registries", "app", "done"},
               acceptors : SUBSET Nodes, replicaSet : SUBSET Nodes,
               sequencers : SUBSET Nodes, serving : SUBSET Services]
Checks == [pc : {"off", "sleep", "hung", "record", "refresh", "compare", "setting"},
           ok : BOOLEAN, read : Nat, records : Seq(BOOLEAN), alive : BOOLEAN]
Rounds == [pc : {"off", "sleep", "seal", "install", "set", "start"}, v : Nat,
           todo : SUBSET Nodes]

Types ==
  /\ node \in [Nodes -> NodeStates]
  /\ sealed \in [Nodes -> SUBSET (0 .. MaxVersion)]
  /\ seq \in [Nodes -> Nat \ {0}]
  /\ vlog \in [Nodes -> Nat]
  /\ version \in 0 .. MaxVersion
  /\ check \in Checks /\ Len(check.records) = Window
  /\ rec \in Rounds

(* The two loops run exactly while the first node is up, and a node that is up
   knows all acceptors and sequencers. *)
LoopsFollowNode ==
  /\ check.pc = "off" <=> node[First].next # "done"
  /\ rec.pc = "off" <=> node[First].next # "done"
  /\ node[First].next = "done" => First \in node[First].sequencers
  /\ \A n \in Nodes : node[n].next = "app" => First \in node[n].sequencers
  /\ \A n \in Nodes : node[n].next \in {"app", "done"} => node[n].acceptors = Nodes

(* The versions the two loops hold, the state's and the sequencer's lie within
   the chain, and a round knows the chain's. *)
VersionsInOrder ==
  /\ vlog[First] <= version
  /\ check.read <= version
  /\ seq[First] <= version \/ seq[First] = 1
  /\ \A n \in Nodes : n # First => seq[n] = 1
  /\ rec.pc \in {"seal", "install"} => rec.v = version /\ version < MaxVersion
  /\ rec.pc \in {"set", "start"} => rec.v + 1 = version

(* A majority that has sealed version v, in this process or an earlier one. *)
MajoritySealed(v, open) ==
  \E q \in SUBSET Nodes :
    /\ Cardinality(q) >= Majority
    /\ \A r \in q \ open : v \in sealed[r] \/ r \in lost

(* A replica that is called too early holds no seal; the round that is under
   way has sealed all but what is left to do; every version before the current
   one is sealed. *)
SealsKept ==
  /\ \A n \in Nodes : sealed[n] # {} => node[n].acceptors = Nodes
  /\ rec.pc = "install" => rec.todo = {}
  /\ rec.pc \in {"seal", "install"} => MajoritySealed(rec.v, rec.todo)
  /\ \A v \in 0 .. MaxVersion : v < version => MajoritySealed(v, {})

EnsembleInv == Types /\ LoopsFollowNode /\ VersionsInOrder /\ SealsKept

-----------------------------------------------------------------------------
(* Lemmas *)

(* A seal counts for its replica even when a restart has forgotten it. *)
SealCounts(r, v) == v \in sealed[r] \/ r \in lost

LEMMA OffTypes ==
  /\ Down \in NodeStates
  /\ CheckOff \in Checks /\ Len(CheckOff.records) = Window /\ CheckOff.records \in Seq(BOOLEAN)
  /\ RecOff \in Rounds /\ EndRound \in Rounds
<1>1. [i \in 1 .. Window |-> FALSE] \in [1 .. Window -> BOOLEAN]
  OBVIOUS
<1>2. /\ [i \in 1 .. Window |-> FALSE] \in Seq(BOOLEAN)
      /\ Len([i \in 1 .. Window |-> FALSE]) = Window
  BY <1>1, EnsembleConstants
<1> QED
  BY <1>2 DEF Down, NodeStates, CheckOff, Checks, RecOff, Rounds, EndRound, Services

(* Processes that end: everything in memory is gone, and a seal it held is
   recorded as forgotten. *)
LEMMA EndFacts ==
  ASSUME Types, NEW dead \in SUBSET Nodes, EndProcesses(dead)
  PROVE  /\ node' \in [Nodes -> NodeStates]
         /\ seq' \in [Nodes -> Nat \ {0}] /\ vlog' \in [Nodes -> Nat]
         /\ \A n \in Nodes : n \in dead
              => node'[n] = Down /\ seq'[n] = 1 /\ vlog'[n] = 0
         /\ \A n \in Nodes : n \notin dead
              => node'[n] = node[n] /\ seq'[n] = seq[n] /\ vlog'[n] = vlog[n]
         /\ lost \subseteq lost'
         /\ \A n \in dead : sealed[n] # {} => n \in lost'
BY OffTypes DEF Types, EndProcesses

(* Majorities that have sealed a version still have when seals keep counting
   and nothing is added to what is left to do. *)
LEMMA OldSealsKept ==
  ASSUME SealsKept, version' = version,
         \A r \in Nodes, v \in 0 .. MaxVersion : SealCounts(r, v) => SealCounts(r, v)'
  PROVE  \A v \in 0 .. MaxVersion : v < version' => MajoritySealed(v, {})'
<1> SUFFICES ASSUME NEW v \in 0 .. MaxVersion, v < version'
             PROVE  MajoritySealed(v, {})'
  OBVIOUS
<1>1. PICK q \in SUBSET Nodes : /\ Cardinality(q) >= Majority
                                /\ \A r \in q \ {} : v \in sealed[r] \/ r \in lost
  BY DEF SealsKept, MajoritySealed
<1>2. \A r \in q \ {} : v \in sealed'[r] \/ r \in lost'
  BY <1>1 DEF SealCounts
<1> QED
  BY <1>1, <1>2 DEF MajoritySealed, Majority

LEMMA RoundSealsKept ==
  ASSUME Types, VersionsInOrder, SealsKept, rec' = rec \/ rec'.pc \notin {"seal", "install"},
         \A r \in Nodes, v \in 0 .. MaxVersion : SealCounts(r, v) => SealCounts(r, v)'
  PROVE  rec'.pc \in {"seal", "install"} => MajoritySealed(rec.v, rec.todo)'
<1> SUFFICES ASSUME rec'.pc \in {"seal", "install"}, rec' = rec
             PROVE  MajoritySealed(rec.v, rec.todo)'
  OBVIOUS
<1>1. rec.v \in 0 .. MaxVersion
  BY DEF VersionsInOrder, Types
<1>2. PICK q \in SUBSET Nodes : /\ Cardinality(q) >= Majority
                                /\ \A r \in q \ rec.todo : rec.v \in sealed[r] \/ r \in lost
  BY DEF SealsKept, MajoritySealed
<1>3. \A r \in q \ rec'.todo : rec'.v \in sealed'[r] \/ r \in lost'
  BY <1>1, <1>2 DEF SealCounts
<1> QED
  BY <1>2, <1>3 DEF MajoritySealed, Majority

(* A step of the loops that leaves the seals and the chain alone. *)
LEMMA SealsUntouched ==
  ASSUME Types, VersionsInOrder, SealsKept, sealed' = sealed, version' = version,
         lost \subseteq lost',
         \A n \in Nodes : node[n].acceptors = Nodes => node'[n].acceptors = Nodes,
         \/ rec'.pc = rec.pc /\ rec'.v = rec.v /\ rec'.todo = rec.todo
         \/ rec'.pc \notin {"seal", "install"}
  PROVE  SealsKept'
<1>1. \A r \in Nodes, v \in 0 .. MaxVersion : SealCounts(r, v) => SealCounts(r, v)'
  BY DEF SealCounts
<1>2. \A v \in 0 .. MaxVersion : v < version' => MajoritySealed(v, {})'
  BY <1>1, OldSealsKept
<1>3. rec'.pc \in {"seal", "install"} => MajoritySealed(rec.v, rec.todo)'
  <2> SUFFICES ASSUME rec'.pc \in {"seal", "install"},
                      rec'.pc = rec.pc, rec'.v = rec.v, rec'.todo = rec.todo
               PROVE  MajoritySealed(rec.v, rec.todo)'
    OBVIOUS
  <2>1. PICK q \in SUBSET Nodes : /\ Cardinality(q) >= Majority
                                  /\ \A r \in q \ rec.todo : rec.v \in sealed[r] \/ r \in lost
    BY DEF SealsKept, MajoritySealed
  <2>2. \A r \in q \ rec'.todo : rec'.v \in sealed'[r] \/ r \in lost'
    BY <2>1
  <2> QED
    BY <2>1, <2>2 DEF MajoritySealed, Majority
<1> QED
  BY <1>2, <1>3 DEF SealsKept

-----------------------------------------------------------------------------
(* The invariant is kept *)

LEMMA InitEnsemble == Init => EnsembleInv
<1> SUFFICES ASSUME Init PROVE EnsembleInv
  OBVIOUS
<1>1. Types
  BY OffTypes, EnsembleConstants DEF Init, Types
<1>2. LoopsFollowNode
  BY EnsembleConstants DEF Init, LoopsFollowNode, Down, CheckOff, RecOff
<1>3. VersionsInOrder
  BY EnsembleConstants DEF Init, VersionsInOrder, CheckOff, RecOff
<1>4. SealsKept
  BY EnsembleConstants DEF Init, SealsKept, RecOff
<1> QED
  BY <1>1, <1>2, <1>3, <1>4 DEF EnsembleInv

LEMMA StartServers ==
  ASSUME EnsembleInv, NEW n \in Nodes, MakeReplicaServer(n) \/ MakeRegistries(n)
  PROVE  EnsembleInv'
<1>1. /\ node[n] \in NodeStates /\ node[n].next \in {"replica", "registries"}
      /\ UNCHANGED <<sealed, seq, vlog, version, check, rec, faults, lost>>
  BY DEF MakeReplicaServer, MakeRegistries, Started, At, EnsembleInv, Types
<1>2. PICK x \in NodeStates :
        /\ node' = [node EXCEPT ![n] = x]
        /\ x.next \in {"registries", "app"}
        /\ x.next = "app" => x.acceptors = Nodes /\ First \in x.sequencers
        /\ node[n].acceptors \subseteq x.acceptors
  <2>1. CASE MakeReplicaServer(n)
    <3> DEFINE x == [node[n] EXCEPT !.next = "registries", !.acceptors = @ \union {n},
                       !.serving = @ \union {"metadata", "replica", "acceptor"}]
    <3>1. node' = [node EXCEPT ![n] = x]
      BY <2>1 DEF MakeReplicaServer, Started
    <3>2. x \in NodeStates /\ x.next = "registries" /\ node[n].acceptors \subseteq x.acceptors
      BY <1>1 DEF NodeStates, Services
    <3> QED
      BY <3>1, <3>2
  <2>2. CASE MakeRegistries(n)
    <3> DEFINE x == [node[n] EXCEPT !.next = "app", !.replicaSet = Nodes,
                       !.acceptors = @ \union Nodes, !.sequencers = Nodes,
                       !.serving = @ \union {"sequencer"}]
    <3>1. node' = [node EXCEPT ![n] = x]
      BY <2>2 DEF MakeRegistries, Started
    <3>2. x \in NodeStates /\ x.acceptors = Nodes /\ x.sequencers = Nodes /\ x.next = "app"
      BY <1>1 DEF NodeStates, Services
    <3> QED
      BY <1>1, <3>1, <3>2, EnsembleConstants DEF NodeStates
  <2> QED
    BY <2>1, <2>2
<1>3. /\ node' \in [Nodes -> NodeStates]
      /\ \A m \in Nodes : node'[m] = IF m = n THEN x ELSE node[m]
  BY <1>2 DEF EnsembleInv, Types
<1>4. Types'
  BY <1>1, <1>3 DEF EnsembleInv, Types
<1>5. LoopsFollowNode'
  BY <1>1, <1>2, <1>3, EnsembleConstants DEF EnsembleInv, LoopsFollowNode
<1>6. VersionsInOrder'
  BY <1>1 DEF EnsembleInv, VersionsInOrder
<1>7. \A m \in Nodes : node[m].acceptors = Nodes => node'[m].acceptors = Nodes
  BY <1>2, <1>3 DEF NodeStates
<1>8. SealsKept'
  BY <1>1, <1>7, SealsUntouched DEF EnsembleInv
<1> QED
  BY <1>4, <1>5, <1>6, <1>8 DEF EnsembleInv

LEMMA StartAppStep ==
  ASSUME EnsembleInv, NEW n \in Nodes, StartApp(n)
  PROVE  EnsembleInv'
<1>1. /\ node[n] \in NodeStates /\ node[n].next = "app"
      /\ UNCHANGED <<sealed, seq, vlog, version, faults, lost>>
  BY DEF StartApp, At, EnsembleInv, Types
<1>2. PICK x \in NodeStates :
        /\ node' = [node EXCEPT ![n] = x]
        /\ x.next = "done" /\ x.acceptors = node[n].acceptors
        /\ x.sequencers = node[n].sequencers
  <2> DEFINE x == [node[n] EXCEPT !.next = "done", !.serving = @ \union {"app"}]
  <2>1. node' = [node EXCEPT ![n] = x]
    BY DEF StartApp
  <2>2. x \in NodeStates /\ x.next = "done" /\ x.acceptors = node[n].acceptors
        /\ x.sequencers = node[n].sequencers
    BY <1>1 DEF NodeStates, Services
  <2> QED
    BY <2>1, <2>2
<1>3. /\ node' \in [Nodes -> NodeStates]
      /\ \A m \in Nodes : node'[m] = IF m = n THEN x ELSE node[m]
  BY <1>2 DEF EnsembleInv, Types
<1>4. /\ check' \in Checks /\ Len(check'.records) = Window /\ rec' \in Rounds
      /\ check'.read <= version
      /\ n = First => check'.pc = "sleep" /\ rec'.pc = "sleep"
      /\ n # First => check' = check /\ rec' = rec
  <2>1. CASE n = First
    <3>1. check' = [CheckOff EXCEPT !.pc = "sleep"] /\ rec' = [RecOff EXCEPT !.pc = "sleep"]
      BY <2>1 DEF StartApp
    <3>2. CheckOff.read = 0 /\ version \in Nat
      BY DEF CheckOff, EnsembleInv, Types
    <3>3. /\ check' \in Checks /\ Len(check'.records) = Window
          /\ check'.read = 0 /\ check'.pc = "sleep"
      BY <3>1, <3>2, OffTypes DEF Checks
    <3>4. rec' \in Rounds /\ rec'.pc = "sleep"
      BY <3>1, OffTypes DEF Rounds
    <3> QED
      BY <2>1, <3>2, <3>3, <3>4
  <2>2. CASE n # First
    BY <2>2 DEF StartApp, EnsembleInv, Types, VersionsInOrder
  <2> QED
    BY <2>1, <2>2
<1>5. Types'
  BY <1>1, <1>3, <1>4 DEF EnsembleInv, Types
<1>6. LoopsFollowNode'
  BY <1>1, <1>2, <1>3, <1>4, EnsembleConstants DEF EnsembleInv, LoopsFollowNode
<1>7. VersionsInOrder'
  BY <1>1, <1>4 DEF EnsembleInv, VersionsInOrder
<1>8. \A m \in Nodes : node[m].acceptors = Nodes => node'[m].acceptors = Nodes
  BY <1>2, <1>3
<1>9. SealsKept'
  BY <1>1, <1>4, <1>8, SealsUntouched DEF EnsembleInv
<1> QED
  BY <1>5, <1>6, <1>7, <1>9 DEF EnsembleInv

(* A process ends and its replica forgets its seals. *)
LEMMA ProcessEnds ==
  ASSUME EnsembleInv, NEW n \in Nodes, EndProcesses({n}),
         sealed' = [sealed EXCEPT ![n] = {}],
         check' = IF n = First THEN CheckOff ELSE check,
         rec' = IF n = First THEN RecOff ELSE rec,
         version' = version
  PROVE  EnsembleInv'
<1>1. /\ node' \in [Nodes -> NodeStates]
      /\ seq' \in [Nodes -> Nat \ {0}] /\ vlog' \in [Nodes -> Nat]
      /\ node'[n] = Down /\ seq'[n] = 1 /\ vlog'[n] = 0
      /\ \A m \in Nodes : m # n => node'[m] = node[m] /\ seq'[m] = seq[m] /\ vlog'[m] = vlog[m]
      /\ lost \subseteq lost'
      /\ sealed[n] # {} => n \in lost'
  BY EndFacts DEF EnsembleInv
<1>2. /\ sealed' \in [Nodes -> SUBSET (0 .. MaxVersion)]
      /\ \A m \in Nodes : sealed'[m] = IF m = n THEN {} ELSE sealed[m]
  BY DEF EnsembleInv, Types
<1>3. /\ Down.next = "replica" /\ CheckOff.pc = "off" /\ CheckOff.read = 0
      /\ RecOff.pc = "off"
  BY DEF Down, CheckOff, RecOff
<1>4. Types'
  BY <1>1, <1>2, OffTypes DEF EnsembleInv, Types
<1>5. LoopsFollowNode'
  <2>1. CASE n = First
    BY <1>1, <1>3, <2>1 DEF EnsembleInv, LoopsFollowNode
  <2>2. CASE n # First
    BY <1>1, <1>3, <2>2, EnsembleConstants DEF EnsembleInv, LoopsFollowNode
  <2> QED
    BY <2>1, <2>2
<1>6. VersionsInOrder'
  <2>1. CASE n = First
    BY <1>1, <1>3, <2>1 DEF EnsembleInv, VersionsInOrder, Types
  <2>2. CASE n # First
    BY <1>1, <2>2, EnsembleConstants DEF EnsembleInv, VersionsInOrder
  <2> QED
    BY <2>1, <2>2
<1>7. SealsKept'
  <2>1. \A r \in Nodes, v \in 0 .. MaxVersion : SealCounts(r, v) => SealCounts(r, v)'
    BY <1>1, <1>2 DEF SealCounts
  <2>2. \A v \in 0 .. MaxVersion : v < version' => MajoritySealed(v, {})'
    BY <2>1, OldSealsKept DEF EnsembleInv
  <2>3. rec'.pc \in {"seal", "install"} => MajoritySealed(rec.v, rec.todo)'
    BY <1>3, <2>1, RoundSealsKept DEF EnsembleInv
  <2>4. \A m \in Nodes : sealed'[m] # {} => node'[m].acceptors = Nodes
    BY <1>1, <1>2 DEF EnsembleInv, SealsKept
  <2> QED
    BY <1>3, <2>2, <2>3, <2>4 DEF EnsembleInv, SealsKept
<1> QED
  BY <1>4, <1>5, <1>6, <1>7 DEF EnsembleInv

LEMMA CrashStep ==
  ASSUME EnsembleInv, NEW n \in Nodes, Crash(n)
  PROVE  EnsembleInv'
BY ProcessEnds DEF Crash

LEMMA AbortStep ==
  ASSUME EnsembleInv, RefreshAborts
  PROVE  EnsembleInv'
<1>1. /\ EndProcesses({First}) /\ sealed' = [sealed EXCEPT ![First] = {}]
      /\ check' = CheckOff /\ rec' = RecOff /\ version' = version
  BY DEF RefreshAborts
<1> QED
  BY <1>1, ProcessEnds, EnsembleConstants

(* Replicas that were called too early end: none of them is the first node,
   whose loops run, and none of them holds a seal. *)
LEMMA EarlyEnds ==
  ASSUME EnsembleInv, NEW dead \in SUBSET Nodes, \A n \in dead : node[n].acceptors # Nodes,
         EndProcesses(dead), sealed' = sealed, version' = version,
         check.pc # "off", check' \in Checks, check'.pc # "off",
         Len(check'.records) = Window, check'.read <= version,
         rec' = rec \/ rec' = EndRound
  PROVE  EnsembleInv'
<1>1. /\ node' \in [Nodes -> NodeStates]
      /\ seq' \in [Nodes -> Nat \ {0}] /\ vlog' \in [Nodes -> Nat]
      /\ \A m \in Nodes : m \in dead => node'[m] = Down /\ seq'[m] = 1 /\ vlog'[m] = 0
      /\ \A m \in Nodes : m \notin dead
           => node'[m] = node[m] /\ seq'[m] = seq[m] /\ vlog'[m] = vlog[m]
      /\ lost \subseteq lost'
  BY EndFacts DEF EnsembleInv
<1>2. node[First].next = "done" /\ First \in Nodes /\ First \notin dead
  BY EnsembleConstants DEF EnsembleInv, LoopsFollowNode
<1>3. EndRound.pc = "sleep" /\ Down.next = "replica"
  BY DEF EndRound, RecOff, Down
<1>4. Types'
  BY <1>1, OffTypes DEF EnsembleInv, Types
<1>5. LoopsFollowNode'
  BY <1>1, <1>2, <1>3 DEF EnsembleInv, LoopsFollowNode
<1>6. VersionsInOrder'
  BY <1>1, <1>2, <1>3 DEF EnsembleInv, VersionsInOrder
<1>7. SealsKept'
  <2>1. \A m \in Nodes : node[m].acceptors = Nodes => node'[m].acceptors = Nodes
    BY <1>1
  <2> QED
    BY <1>1, <1>3, <2>1, SealsUntouched DEF EnsembleInv
<1> QED
  BY <1>4, <1>5, <1>6, <1>7 DEF EnsembleInv

(* A step of the health check loop that changes its own record only. *)
LEMMA LoopKeeps ==
  ASSUME EnsembleInv, UNCHANGED <<node, sealed, seq, version, lost>>,
         check' \in Checks, Len(check'.records) = Window, check'.pc # "off", check.pc # "off",
         check'.read <= version,
         vlog' \in [Nodes -> Nat], vlog'[First] <= version,
         rec' \in Rounds, rec'.pc = rec.pc, rec'.v = rec.v, rec'.todo = rec.todo
  PROVE  EnsembleInv'
<1>1. Types'
  BY DEF EnsembleInv, Types
<1>2. LoopsFollowNode'
  BY DEF EnsembleInv, LoopsFollowNode
<1>3. VersionsInOrder'
  BY EnsembleConstants DEF EnsembleInv, VersionsInOrder, Types
<1>4. SealsKept'
  BY SealsUntouched DEF EnsembleInv
<1> QED
  BY <1>1, <1>2, <1>3, <1>4 DEF EnsembleInv

LEMMA CheckStep ==
  ASSUME EnsembleInv, CheckSucceeds \/ CheckThrows \/ CheckHangs
  PROVE  EnsembleInv'
<1>1. /\ check.pc = "sleep" /\ UNCHANGED <<node, sealed, seq, vlog, version, rec, lost>>
      /\ check \in Checks /\ Len(check.records) = Window /\ check.read <= version
      /\ vlog \in [Nodes -> Nat] /\ vlog[First] <= version /\ rec \in Rounds
  BY DEF CheckSucceeds, CheckThrows, CheckHangs, EnsembleInv, Types, VersionsInOrder
<1>2. \/ \E ok \in BOOLEAN : check' = [check EXCEPT !.pc = "record", !.ok = ok]
      \/ check' = [check EXCEPT !.pc = "hung"]
  BY DEF CheckSucceeds, CheckThrows, CheckHangs, CheckEnds
<1>3. /\ check' \in Checks /\ check'.pc # "off" /\ check'.records = check.records
      /\ check'.read = check.read
  BY <1>1, <1>2 DEF Checks
<1> QED
  BY <1>1, <1>3, LoopKeeps

LEMMA CheckTimesOutStep ==
  ASSUME EnsembleInv, CheckTimesOut
  PROVE  EnsembleInv'
<1>1. /\ check.pc = "sleep" /\ UNCHANGED <<sealed, version, rec>>
      /\ check' = [check EXCEPT !.pc = "record", !.ok = FALSE]
  BY DEF CheckTimesOut, CheckEnds
<1>2. check' \in Checks /\ check'.pc = "record" /\ check'.records = check.records
      /\ check'.read = check.read
  BY <1>1 DEF EnsembleInv, Types, Checks
<1>3. Len(check'.records) = Window /\ check'.read <= version
  BY <1>2 DEF EnsembleInv, Types, VersionsInOrder
<1>4. PICK dead \in SUBSET Nodes :
        /\ \A n \in dead : node[n].acceptors # Nodes
        /\ EndProcesses(dead)
  <2> DEFINE early == {r \in Nodes : TooEarly(r)}
  <2>1. early \in SUBSET Nodes /\ \A n \in early : node[n].acceptors # Nodes
    BY DEF TooEarly
  <2>2. EndProcesses(early) \/ EndProcesses({})
    BY DEF CheckTimesOut
  <2> HIDE DEF early
  <2> QED
    BY <2>1, <2>2
<1> QED
  BY <1>1, <1>2, <1>3, <1>4, EarlyEnds

LEMMA RecordStep ==
  ASSUME EnsembleInv, Record
  PROVE  EnsembleInv'
<1> DEFINE records == Pushed(check.records, check.ok)
           alive   == \E i \in 1 .. Window : records[i]
<1>1. /\ check \in Checks /\ Len(check.records) = Window /\ check.records \in Seq(BOOLEAN)
      /\ check.ok \in BOOLEAN /\ check.pc = "record" /\ check.read <= version
  BY DEF Record, EnsembleInv, Types, Checks, VersionsInOrder
<1>2. records \in Seq(BOOLEAN) /\ Len(records) = Window
  <2>1. check.records # <<>>
    BY <1>1, EnsembleConstants, EmptySeq
  <2>2. Tail(check.records) \in Seq(BOOLEAN) /\ Len(Tail(check.records)) = Window - 1
    BY <1>1, <2>1, HeadTailProperties
  <2> QED
    BY <1>1, <2>2, AppendProperties, EnsembleConstants DEF Pushed
<1>3. check' = [check EXCEPT !.records = records, !.alive = alive,
                             !.pc = IF alive THEN "sleep" ELSE "refresh"]
  BY DEF Record
<1>4. alive \in BOOLEAN
  OBVIOUS
<1> HIDE DEF records, alive
<1>5. /\ check' \in Checks /\ check'.records = records /\ check'.pc # "off"
      /\ check'.read = check.read
  BY <1>1, <1>2, <1>3, <1>4 DEF Checks
<1>6. rec' \in Rounds /\ rec'.pc = rec.pc /\ rec'.v = rec.v /\ rec'.todo = rec.todo
  BY DEF Record, EnsembleInv, Types
<1>7. UNCHANGED <<node, sealed, seq, vlog, version, faults, lost>>
  BY DEF Record
<1>8. vlog \in [Nodes -> Nat] /\ vlog[First] \in Nat /\ vlog[First] <= version
  BY EnsembleConstants DEF EnsembleInv, Types, VersionsInOrder
<1> QED
  BY <1>1, <1>2, <1>5, <1>6, <1>7, <1>8, LoopKeeps

LEMMA RefreshStep ==
  ASSUME EnsembleInv, RefreshRead \/ RefreshCompare \/ RefreshSet \/ RefreshThrows
  PROVE  EnsembleInv'
<1>1. /\ check \in Checks /\ Len(check.records) = Window /\ check.read <= version
      /\ check.pc \in {"refresh", "compare", "setting"} /\ version \in Nat
      /\ vlog \in [Nodes -> Nat] /\ vlog[First] \in Nat /\ vlog[First] <= version
      /\ rec \in Rounds /\ First \in Nodes /\ check.read \in Nat
  BY EnsembleConstants
  DEF RefreshRead, RefreshThrows, RefreshSet, RefreshCompare, EnsembleInv, Types, Checks,
      VersionsInOrder
<1>2. PICK pc \in {"sleep", "compare", "setting"}, read \in {0, check.read, version} :
        check' = [check EXCEPT !.pc = pc, !.read = read]
  <2>1. CASE RefreshRead
    BY <2>1 DEF RefreshRead
  <2>2. CASE RefreshSet \/ RefreshThrows
    BY <2>2 DEF RefreshSet, RefreshThrows
  <2>3. CASE RefreshCompare
    <3>1. [check EXCEPT !.pc = "setting"] = [check EXCEPT !.pc = "setting", !.read = check.read]
      BY <1>1 DEF Checks
    <3> QED
      BY <2>3, <3>1 DEF RefreshCompare
  <2> QED
    BY <2>1, <2>2, <2>3
<1>3. /\ check' \in Checks /\ check'.records = check.records /\ check'.pc # "off"
      /\ check'.read <= version
  <2>1. read \in Nat /\ read <= version
    BY <1>1
  <2>2. /\ check' \in Checks /\ check'.records = check.records /\ check'.pc = pc
        /\ check'.read = read
    BY <1>1, <1>2, <2>1 DEF Checks
  <2> QED
    BY <2>1, <2>2
<1>4. vlog' \in [Nodes -> Nat] /\ vlog'[First] <= version
  <2>1. CASE vlog' = vlog
    BY <1>1, <2>1
  <2>2. CASE RefreshSet
    <3>1. SetState(First, check.read) \in {check.read, vlog[First]}
      BY DEF SetState
    <3>2. vlog' = [vlog EXCEPT ![First] = SetState(First, check.read)]
      BY <2>2 DEF RefreshSet
    <3> QED
      BY <1>1, <3>1, <3>2
  <2> QED
    BY <2>1, <2>2 DEF RefreshRead, RefreshThrows, RefreshCompare
<1>5. UNCHANGED <<node, sealed, seq, version, rec, lost>>
  BY DEF RefreshRead, RefreshThrows, RefreshSet, RefreshCompare
<1> QED
  BY <1>1, <1>3, <1>4, <1>5, LoopKeeps

(* A step of the reconciliation loop that leaves the seals and the chain as
   they are, and ends the round or goes on with it. *)
LEMMA RoundKeeps ==
  ASSUME EnsembleInv, UNCHANGED <<node, sealed, version, check, lost>>,
         rec' \in Rounds, rec.pc # "off", rec'.pc \in {"sleep", "start"},
         rec'.pc = "start" => rec'.v + 1 = version,
         vlog' \in [Nodes -> Nat], vlog'[First] <= version,
         seq' \in [Nodes -> Nat \ {0}],
         seq'[First] <= version \/ seq'[First] = 1,
         \A n \in Nodes : n # First => seq'[n] = seq[n]
  PROVE  EnsembleInv'
<1>1. Types'
  BY DEF EnsembleInv, Types
<1>2. LoopsFollowNode'
  BY DEF EnsembleInv, LoopsFollowNode
<1>3. VersionsInOrder'
  BY DEF EnsembleInv, VersionsInOrder
<1>4. SealsKept'
  BY SealsUntouched DEF EnsembleInv
<1> QED
  BY <1>1, <1>2, <1>3, <1>4 DEF EnsembleInv

LEMMA RoundThrows ==
  ASSUME EnsembleInv, BeginRoundThrows \/ InstallThrows \/ InstallStateThrows
  PROVE  EnsembleInv'
<1>1. /\ rec.pc # "off" /\ rec' = EndRound
      /\ UNCHANGED <<node, sealed, seq, vlog, version, check, faults, lost>>
  BY DEF BeginRoundThrows, InstallThrows, InstallStateThrows, RecAt
<1>2. EndRound \in Rounds /\ EndRound.pc = "sleep"
  BY OffTypes DEF EndRound, RecOff
<1>3. /\ vlog \in [Nodes -> Nat] /\ vlog[First] <= version /\ seq \in [Nodes -> Nat \ {0}]
      /\ seq[First] <= version \/ seq[First] = 1
  BY DEF EnsembleInv, Types, VersionsInOrder
<1> QED
  BY <1>1, <1>2, <1>3, RoundKeeps

LEMMA BeginRoundStep ==
  ASSUME EnsembleInv, BeginRound
  PROVE  EnsembleInv'
<1>1. PICK q \in SUBSET Nodes :
        /\ Cardinality(q) = Majority
        /\ rec' = [rec EXCEPT !.pc = "seal", !.v = version, !.todo = q]
  BY DEF BeginRound, BeginRoundWith
<1>2. /\ rec.pc = "sleep" /\ version < MaxVersion /\ rec \in Rounds /\ version \in Nat
      /\ UNCHANGED <<node, sealed, seq, vlog, version, check, faults, lost>>
  BY DEF BeginRound, BeginRoundWith, RecAt, EnsembleInv, Types
<1>3. rec' \in Rounds /\ rec'.pc = "seal" /\ rec'.v = version /\ rec'.todo = q
  BY <1>1, <1>2 DEF Rounds
<1>4. Types' /\ LoopsFollowNode' /\ VersionsInOrder'
  BY <1>2, <1>3 DEF EnsembleInv, Types, LoopsFollowNode, VersionsInOrder
<1>5. SealsKept'
  <2>1. \A r \in Nodes, v \in 0 .. MaxVersion : SealCounts(r, v) => SealCounts(r, v)'
    BY <1>2 DEF SealCounts
  <2>2. \A v \in 0 .. MaxVersion : v < version' => MajoritySealed(v, {})'
    BY <1>2, <2>1, OldSealsKept DEF EnsembleInv
  <2>3. MajoritySealed(rec.v, rec.todo)'
    <3>1. Majority \in Nat
      BY EnsembleConstants, FS_CardinalityType DEF Majority
    <3>2. Cardinality(q) >= Majority /\ \A r \in q \ rec'.todo : FALSE
      BY <1>1, <1>3, <3>1
    <3> QED
      BY <3>2 DEF MajoritySealed, Majority
  <2> QED
    BY <1>2, <1>3, <2>2, <2>3 DEF EnsembleInv, SealsKept
<1> QED
  BY <1>4, <1>5 DEF EnsembleInv

(* A replica that serves and is not called too early seals the version. *)
LEMMA ServeSealFacts ==
  ASSUME EnsembleInv, rec.pc = "seal", NEW r \in Nodes, Serves(r, "replica"), ~TooEarly(r),
         sealed' = ServeSeal(r, rec.v) \/ sealed' = sealed, lost' = lost, node' = node
  PROVE  /\ sealed' \in [Nodes -> SUBSET (0 .. MaxVersion)]
         /\ \A n \in Nodes : sealed'[n] # {} => node'[n].acceptors = Nodes
         /\ \A n \in Nodes, v \in 0 .. MaxVersion : SealCounts(n, v) => SealCounts(n, v)'
         /\ sealed' # sealed => rec.v \in sealed'[r]
<1>1. rec.v \in 0 .. MaxVersion
  BY DEF EnsembleInv, VersionsInOrder, Types
<1>2. node[r].acceptors = Nodes
  BY DEF TooEarly
<1>3. sealed \in [Nodes -> SUBSET (0 .. MaxVersion)]
  BY DEF EnsembleInv, Types
<1>4. CASE sealed' = sealed
  BY <1>3, <1>4 DEF EnsembleInv, SealsKept, SealCounts
<1>5. CASE sealed' = ServeSeal(r, rec.v)
  <2>1. \A n \in Nodes : sealed'[n] = IF n = r THEN sealed[r] \union {rec.v} ELSE sealed[n]
    BY <1>3, <1>5 DEF ServeSeal
  <2>2. sealed' \in [Nodes -> SUBSET (0 .. MaxVersion)]
    BY <1>1, <1>3, <1>5 DEF ServeSeal
  <2> QED
    BY <1>2, <2>1, <2>2 DEF EnsembleInv, SealsKept, SealCounts
<1> QED
  BY <1>4, <1>5

LEMMA SealOneStep ==
  ASSUME EnsembleInv, NEW r \in Nodes, SealOne(r)
  PROVE  EnsembleInv'
<1>1. /\ rec.pc = "seal" /\ Serves(r, "replica") /\ ~TooEarly(r)
      /\ sealed' = ServeSeal(r, rec.v) /\ lost' = lost /\ node' = node
      /\ UNCHANGED <<seq, vlog, version, check>>
  BY DEF SealOne, RecAt
<1>2. /\ sealed' \in [Nodes -> SUBSET (0 .. MaxVersion)]
      /\ \A n \in Nodes : sealed'[n] # {} => node'[n].acceptors = Nodes
      /\ \A n \in Nodes, v \in 0 .. MaxVersion : SealCounts(n, v) => SealCounts(n, v)'
  BY <1>1, ServeSealFacts
<1>3. rec.v \in sealed'[r]
  BY <1>1 DEF ServeSeal, EnsembleInv, Types
<1>4. /\ rec' \in Rounds /\ rec'.pc \in {"seal", "install"} /\ rec'.v = rec.v
      /\ rec'.todo = rec.todo \ {r}
      /\ rec'.pc = "install" => rec'.todo = {}
  <2>1. rec \in Rounds /\ rec' = [rec EXCEPT !.todo = @ \ {r},
                                     !.pc = IF rec.todo = {r} THEN "install" ELSE "seal"]
    BY DEF SealOne, EnsembleInv, Types
  <2> QED
    BY <2>1 DEF Rounds
<1>5. Types'
  BY <1>1, <1>2, <1>4 DEF EnsembleInv, Types
<1>6. LoopsFollowNode' /\ VersionsInOrder'
  BY <1>1, <1>4 DEF EnsembleInv, LoopsFollowNode, VersionsInOrder
<1>7. \A v \in 0 .. MaxVersion : v < version' => MajoritySealed(v, {})'
  BY <1>1, <1>2, OldSealsKept DEF EnsembleInv
<1>8. MajoritySealed(rec.v, rec.todo)'
  <2>1. PICK q \in SUBSET Nodes : /\ Cardinality(q) >= Majority
                                  /\ \A n \in q \ rec.todo : rec.v \in sealed[n] \/ n \in lost
    BY <1>1 DEF EnsembleInv, SealsKept, MajoritySealed
  <2>2. rec.v \in 0 .. MaxVersion
    BY <1>1 DEF EnsembleInv, VersionsInOrder, Types
  <2>3. \A n \in q \ rec'.todo : rec'.v \in sealed'[n] \/ n \in lost'
    <3> TAKE n \in q \ rec'.todo
    <3>1. CASE n = r
      BY <1>3, <1>4, <3>1
    <3>2. CASE n # r
      <4>1. n \in Nodes /\ SealCounts(n, rec.v)
        BY <1>4, <2>1, <3>2 DEF SealCounts
      <4> QED
        BY <1>2, <1>4, <2>2, <4>1 DEF SealCounts
    <3> QED
      BY <3>1, <3>2
  <2> QED
    BY <2>1, <2>3 DEF MajoritySealed, Majority
<1>9. SealsKept'
  BY <1>2, <1>4, <1>7, <1>8 DEF SealsKept
<1> QED
  BY <1>5, <1>6, <1>9 DEF EnsembleInv

LEMMA SealFailsStep ==
  ASSUME EnsembleInv, NEW r \in Nodes, SealFails(r)
  PROVE  EnsembleInv'
<1>1. rec.pc = "seal" /\ rec' = EndRound /\ UNCHANGED <<version, check>>
  BY DEF SealFails, RecAt
<1>2. EndRound \in Rounds /\ EndRound.pc = "sleep"
  BY OffTypes DEF EndRound, RecOff
<1>3. /\ check.pc # "off" /\ check \in Checks /\ Len(check.records) = Window
      /\ check.read <= version
  BY <1>1 DEF EnsembleInv, LoopsFollowNode, Types, VersionsInOrder
<1>4. CASE TooEarly(r) /\ EndProcesses({r}) /\ sealed' = sealed
  <2>1. node[r].acceptors # Nodes
    BY <1>4 DEF TooEarly
  <2> QED
    BY <1>1, <1>3, <1>4, <2>1, EarlyEnds
<1>5. CASE UNCHANGED <<node, sealed, seq, vlog, lost>>
  <2>1. /\ vlog \in [Nodes -> Nat] /\ vlog[First] <= version /\ seq \in [Nodes -> Nat \ {0}]
        /\ seq[First] <= version \/ seq[First] = 1
    BY DEF EnsembleInv, Types, VersionsInOrder
  <2> QED
    BY <1>1, <1>2, <1>5, <2>1, RoundKeeps
<1>6. CASE /\ Serves(r, "replica") /\ ~TooEarly(r)
           /\ sealed' \in {sealed, ServeSeal(r, rec.v)} /\ UNCHANGED <<node, seq, vlog, lost>>
  <2>1. /\ sealed' \in [Nodes -> SUBSET (0 .. MaxVersion)]
        /\ \A n \in Nodes : sealed'[n] # {} => node'[n].acceptors = Nodes
        /\ \A n \in Nodes, v \in 0 .. MaxVersion : SealCounts(n, v) => SealCounts(n, v)'
    BY <1>1, <1>6, ServeSealFacts
  <2>2. \A v \in 0 .. MaxVersion : v < version' => MajoritySealed(v, {})'
    BY <1>1, <2>1, OldSealsKept DEF EnsembleInv
  <2>3. SealsKept'
    BY <1>1, <1>2, <2>1, <2>2 DEF SealsKept
  <2>4. Types' /\ LoopsFollowNode' /\ VersionsInOrder'
    BY <1>1, <1>2, <1>6, <2>1 DEF EnsembleInv, Types, LoopsFollowNode, VersionsInOrder
  <2> QED
    BY <2>3, <2>4 DEF EnsembleInv
<1> QED
  BY <1>4, <1>5, <1>6 DEF SealFails

(* The version that is installed over was sealed by a majority. *)
LEMMA InstallStep ==
  ASSUME EnsembleInv, Install
  PROVE  EnsembleInv'
<1>1. /\ rec.pc = "install" /\ version' = rec.v + 1 /\ rec' = [rec EXCEPT !.pc = "set"]
      /\ UNCHANGED <<node, sealed, seq, vlog, check, faults, lost>> /\ rec \in Rounds
  BY DEF Install, RecAt, EnsembleInv, Types
<1>2. /\ rec.v = version /\ version < MaxVersion /\ version \in Nat /\ MaxVersion \in Nat
      /\ rec.todo = {} /\ MajoritySealed(version, {})
  <2>1. /\ rec.v = version /\ version < MaxVersion /\ version \in Nat /\ MaxVersion \in Nat
        /\ rec.todo = {}
    BY <1>1, EnsembleConstants DEF EnsembleInv, VersionsInOrder, SealsKept, Types
  <2>2. MajoritySealed(rec.v, rec.todo)
    BY <1>1 DEF EnsembleInv, SealsKept
  <2> QED
    BY <2>1, <2>2 DEF MajoritySealed
<1>3. rec' \in Rounds /\ rec'.pc = "set" /\ rec'.v = rec.v
  BY <1>1 DEF Rounds
<1>4. Types'
  BY <1>1, <1>2, <1>3 DEF EnsembleInv, Types
<1>5. LoopsFollowNode'
  BY <1>1, <1>3 DEF EnsembleInv, LoopsFollowNode
<1>6. VersionsInOrder'
  <2>1. check.read \in Nat /\ vlog[First] \in Nat /\ seq[First] \in Nat
    BY EnsembleConstants DEF EnsembleInv, Types, Checks
  <2> QED
    BY <1>1, <1>2, <1>3, <2>1 DEF EnsembleInv, VersionsInOrder
<1>7. SealsKept'
  <2>1. \A v \in 0 .. MaxVersion : v < version' => MajoritySealed(v, {})
    <3> SUFFICES ASSUME NEW v \in 0 .. MaxVersion, v < version' PROVE MajoritySealed(v, {})
      OBVIOUS
    <3>1. v = version \/ v < version
      BY <1>1, <1>2
    <3> QED
      BY <1>2, <3>1 DEF EnsembleInv, SealsKept
  <2> QED
    BY <1>1, <1>3, <2>1 DEF EnsembleInv, SealsKept, MajoritySealed
<1> QED
  BY <1>4, <1>5, <1>6, <1>7 DEF EnsembleInv

LEMMA SetStep ==
  ASSUME EnsembleInv, InstallState
  PROVE  EnsembleInv'
<1>1. /\ rec.pc = "set" /\ vlog' = [vlog EXCEPT ![First] = SetState(First, rec.v + 1)]
      /\ rec' = [rec EXCEPT !.pc = "start"] /\ rec \in Rounds
      /\ UNCHANGED <<node, sealed, seq, version, check, faults, lost>>
  BY DEF InstallState, RecAt, EnsembleInv, Types
<1>2. /\ rec.v + 1 = version /\ rec.v \in Nat /\ version \in Nat
      /\ First \in node[First].sequencers
  BY <1>1 DEF EnsembleInv, VersionsInOrder, LoopsFollowNode, Types, Rounds
<1>3. vlog' \in [Nodes -> Nat] /\ vlog'[First] = version
  BY <1>1, <1>2, EnsembleConstants DEF SetState, EnsembleInv, Types
<1>4. rec' \in Rounds /\ rec'.pc = "start" /\ rec'.v = rec.v
  BY <1>1 DEF Rounds
<1>5. (seq'[First] <= version \/ seq'[First] = 1) /\ seq' \in [Nodes -> Nat \ {0}]
  BY <1>1 DEF EnsembleInv, VersionsInOrder, Types
<1> QED
  BY <1>1, <1>2, <1>3, <1>4, <1>5, RoundKeeps

LEMMA StartSequencerStep ==
  ASSUME EnsembleInv, StartSequencer
  PROVE  EnsembleInv'
<1>1. /\ rec.pc = "start" /\ seq' = [seq EXCEPT ![First] = rec.v + 1] /\ rec' = EndRound
      /\ UNCHANGED <<node, sealed, vlog, version, check, faults, lost>>
  BY DEF StartSequencer, RecAt
<1>2. /\ rec.v + 1 = version /\ rec.v \in Nat /\ vlog[First] <= version
      /\ vlog \in [Nodes -> Nat] /\ seq \in [Nodes -> Nat \ {0}] /\ version \in Nat
  BY <1>1 DEF EnsembleInv, VersionsInOrder, Types, Rounds
<1>3. /\ seq' \in [Nodes -> Nat \ {0}] /\ seq'[First] = version
      /\ \A n \in Nodes : n # First => seq'[n] = seq[n]
  BY <1>1, <1>2, EnsembleConstants
<1>4. EndRound \in Rounds /\ EndRound.pc = "sleep"
  BY OffTypes DEF EndRound, RecOff
<1> QED
  BY <1>1, <1>2, <1>3, <1>4, RoundKeeps

LEMMA EnsembleInductive == EnsembleInv /\ [Next]_vars => EnsembleInv'
<1> SUFFICES ASSUME EnsembleInv, [Next]_vars PROVE EnsembleInv'
  OBVIOUS
<1>1. CASE UNCHANGED vars
  <2>1. Types' /\ LoopsFollowNode' /\ VersionsInOrder'
    BY <1>1 DEF vars, EnsembleInv, Types, LoopsFollowNode, VersionsInOrder
  <2>2. SealsKept'
    BY <1>1, SealsUntouched DEF vars, EnsembleInv
  <2> QED
    BY <2>1, <2>2 DEF EnsembleInv
<1>2. CASE \E n \in Nodes : StartStep(n)
  BY <1>2, StartServers, StartAppStep DEF StartStep
<1>3. CASE \E n \in Nodes : Crash(n)
  BY <1>3, CrashStep
<1>4. CASE HealthLoop
  BY <1>4, CheckStep, CheckTimesOutStep, RecordStep, RefreshStep, AbortStep DEF HealthLoop
<1>5. CASE ReconcileLoop
  BY <1>5, BeginRoundStep, RoundThrows, SealOneStep, SealFailsStep, InstallStep, SetStep,
     StartSequencerStep
  DEF ReconcileLoop
<1> QED
  BY <1>1, <1>2, <1>3, <1>4, <1>5 DEF Next

LEMMA EnsembleInvHolds == Spec => []EnsembleInv
BY InitEnsemble, EnsembleInductive, PTL DEF Spec

-----------------------------------------------------------------------------
(* Theorems *)

(* Neither state_, nor the sequencer, nor a version that one of the two loops of
   FailureDetectorImpl still holds is ever ahead of the chain of configurations,
   and the chain does not move under a round, although the loops replace state_
   without a lock and after an await. *)
THEOREM StateNeverAheadOfChain == Spec => []StateWithinChain
<1>1. EnsembleInv => StateWithinChain
  <2> SUFFICES ASSUME EnsembleInv PROVE StateWithinChain
    OBVIOUS
  <2>1. /\ First \in Nodes /\ MaxVersion \in Nat /\ version \in 0 .. MaxVersion
        /\ seq[First] \in Nat \ {0}
    BY EnsembleConstants DEF EnsembleInv, Types
  <2>2. TypeOK
    <3>1. \A n \in Nodes :
            /\ node[n].next \in {"replica", "registries", "app", "done"}
            /\ node[n].acceptors \subseteq Nodes /\ node[n].sequencers \subseteq Nodes
            /\ sealed[n] \subseteq 0 .. MaxVersion
      BY DEF EnsembleInv, Types, NodeStates
    <3>2. \A n \in Nodes : seq[n] \in 1 .. MaxVersion \/ seq[n] = 1
      <4> TAKE n \in Nodes
      <4>1. CASE n = First
        BY <2>1, <4>1 DEF EnsembleInv, VersionsInOrder
      <4>2. CASE n # First
        BY <4>2 DEF EnsembleInv, VersionsInOrder
      <4> QED
        BY <4>1, <4>2
    <3>3. /\ check.pc \in {"off", "sleep", "hung", "record", "refresh", "compare", "setting"}
          /\ rec.pc \in {"off", "sleep", "seal", "install", "set", "start"}
          /\ Len(check.records) = Window
          /\ check.pc = "off" <=> node[First].next # "done"
      BY DEF EnsembleInv, Types, Checks, Rounds, LoopsFollowNode
    <3> QED
      BY <2>1, <3>1, <3>2, <3>3 DEF TypeOK
  <2> QED
    BY <2>2 DEF StateWithinChain, EnsembleInv, VersionsInOrder
<1> QED
  BY <1>1, EnsembleInvHolds, PTL

(* As long as no replica has forgotten a seal in a restart, no append is
   acknowledged on a version other than the current one: the majority that
   would acknowledge it meets the majority that reconfigure sealed. *)
THEOREM AcksOnlyOnCurrent == Spec => []AckedOnCurrent
<1>1. EnsembleInv => AckedOnCurrent
  <2> SUFFICES ASSUME EnsembleInv, lost = {}, vlog[First] # 0, Acknowledges(seq[First]),
                      seq[First] # version
               PROVE  FALSE
    BY DEF AckedOnCurrent
  <2>1. /\ First \in Nodes /\ MaxVersion \in Nat /\ version \in 0 .. MaxVersion
        /\ seq[First] \in Nat
    BY EnsembleConstants DEF EnsembleInv, Types
  <2>2. seq[First] \in 0 .. MaxVersion /\ seq[First] < version
    BY <2>1 DEF Acknowledges
  <2>3. PICK q \in SUBSET Nodes : /\ Cardinality(q) >= Majority
                                  /\ \A r \in q \ {} : seq[First] \in sealed[r] \/ r \in lost
    BY <2>2 DEF EnsembleInv, SealsKept, MajoritySealed
  <2>4. Accepting(seq[First]) \in SUBSET Nodes /\ Cardinality(Accepting(seq[First])) >= Majority
    BY DEF Accepting, Acknowledges
  <2>5. Cardinality(q) + Cardinality(Accepting(seq[First])) > Cardinality(Nodes)
    <3>1. /\ Cardinality(Nodes) \in Nat /\ Cardinality(q) \in Nat
          /\ Cardinality(Accepting(seq[First])) \in Nat
      BY <2>4, EnsembleConstants, FS_CardinalityType, FS_Subset
    <3> QED
      BY <2>3, <2>4, <3>1 DEF Majority
  <2>6. PICK r \in Nodes : r \in q /\ r \in Accepting(seq[First])
    BY <2>4, <2>5, EnsembleConstants, FS_MajoritiesIntersect
  <2> QED
    BY <2>3, <2>6 DEF Accepting
<1> QED
  BY <1>1, EnsembleInvHolds, PTL

(* A configuration is installed only over a version that a majority has
   sealed. *)
THEOREM InstalledOverSealed == Spec => SealedBeforeInstalled
<1>1. EnsembleInv /\ [Next]_vars
        => [version' # version =>
              Cardinality({r \in Nodes : version \in sealed[r] \/ r \in lost}) >= Majority]_vars
  <2> SUFFICES ASSUME EnsembleInv, [Next]_vars, version' # version
               PROVE  Cardinality({r \in Nodes : version \in sealed[r] \/ r \in lost}) >= Majority
    OBVIOUS
  <2> DEFINE S == {r \in Nodes : version \in sealed[r] \/ r \in lost}
  <2>1. Install
    BY DEF Next, vars, StartStep, MakeReplicaServer, MakeRegistries, Started, StartApp, Crash,
           HealthLoop, CheckSucceeds, CheckThrows, CheckTimesOut, CheckHangs, Record,
           RefreshRead, RefreshCompare, RefreshSet, RefreshThrows, RefreshAborts, ReconcileLoop, BeginRound, BeginRoundWith, BeginRoundThrows, SealOne,
           SealFails, InstallThrows, InstallState, InstallStateThrows, StartSequencer
  <2>2. rec.pc = "install" /\ rec.v = version /\ rec.todo = {}
    BY <2>1 DEF Install, RecAt, EnsembleInv, VersionsInOrder, SealsKept
  <2>3. PICK q \in SUBSET Nodes : /\ Cardinality(q) >= Majority
                                  /\ \A r \in q \ {} : version \in sealed[r] \/ r \in lost
    BY <2>2 DEF EnsembleInv, SealsKept, MajoritySealed
  <2>4. q \subseteq S /\ S \subseteq Nodes
    BY <2>3
  <2>5. /\ IsFiniteSet(S) /\ Cardinality(q) <= Cardinality(S)
        /\ Cardinality(q) \in Nat /\ Cardinality(S) \in Nat
    BY <2>4, EnsembleConstants, FS_Subset, FS_CardinalityType
  <2>6. Majority \in Nat
    BY EnsembleConstants, FS_CardinalityType DEF Majority
  <2> QED
    BY <2>3, <2>5, <2>6
<1> QED
  BY <1>1, EnsembleInvHolds, PTL DEF Spec, SealedBeforeInstalled
=============================================================================
